-------------------------------- MODULE Lists --------------------------------
(***************************************************************************)
(* What the models take from the arrays and objects of the language and a  *)
(* proof has to reason about. SelectSeq, SortSeq and the folds of the      *)
(* community modules say the same, but nothing is known of them to the     *)
(* provers; the recursive functions here can be reasoned about by least    *)
(* counterexample.                                                         *)
(***************************************************************************)
EXTENDS Integers, Sequences

\* filter: the elements of list at places, in their order.
Picked(list, places) ==
    LET upTo[i \in 0 .. Len(list)] ==
            IF i = 0 THEN <<>>
            ELSE IF i \in places THEN Append(upTo[i - 1], list[i]) ELSE upTo[i - 1]
    IN  upTo[Len(list)]

\* flatMap: the lists one after another.
Joined(lists) ==
    LET upTo[i \in 0 .. Len(lists)] == IF i = 0 THEN <<>> ELSE upTo[i - 1] \o lists[i]
    IN  upTo[Len(lists)]

NonBlank(list) == Picked(list, {i \in 1 .. Len(list) : list[i] # <<>>})

\* Every element where it comes up first, as a Set or a Map keeps them.
Firsts(list) == Picked(list, {i \in 1 .. Len(list) : \A j \in 1 .. i - 1 : list[j] # list[i]})

\* reduce: the sum of the numbers f has at the places up to n.
Total(f, n) ==
    LET upTo[i \in 0 .. n] ==
            IF i = 0 THEN 0 ELSE IF i \in DOMAIN f THEN upTo[i - 1] + f[i] ELSE upTo[i - 1]
    IN  upTo[n]

\* sort: the places up to n that are in S, in the order of the pairs before;
\* each is put behind those it comes after.
Inserted(list, x, before) ==
    LET ahead == {i \in 1 .. Len(list) : <<list[i], x>> \in before}
    IN  Append(Picked(list, ahead), x) \o Picked(list, (1 .. Len(list)) \ ahead)
Ordered(S, n, before) ==
    LET upTo[i \in 0 .. n] ==
            IF i = 0 THEN <<>>
            ELSE IF i \in S THEN Inserted(upTo[i - 1], i, before) ELSE upTo[i - 1]
    IN  upTo[n]

\* The object with the fields of r, and those of s that r has not.
With(r, s) == [f \in DOMAIN r \cup DOMAIN s |-> IF f \in DOMAIN r THEN r[f] ELSE s[f]]

\* It is one: a function of the places up to its length.
IsList(list) == Len(list) \in Nat /\ list = [i \in 1 .. Len(list) |-> list[i]]
=============================================================================
