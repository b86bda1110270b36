---------------------------- MODULE ListsProofs ----------------------------
(***************************************************************************)
(* What the operators of Lists return, for any list.  The functions they   *)
(* compute with are recursive: that such a function is defined, and what   *)
(* it gives, is by least counterexample, for each of them in turn.         *)
(***************************************************************************)
EXTENDS Lists, SequencesExt, SequenceTheorems, FiniteSetTheorems, FunctionTheorems,
        WellFoundedInduction, TLAPS

Less == {x \in Nat \X Nat : x[1] < x[2]}

LEMMA LessWellFounded == IsWellFoundedOn(Less, Nat)
  BY NatLessThanWellFounded DEF OpToRel, Less

\* A set of numbers with a smaller one for each of its own is empty.
LEMMA NoneLeast ==
  ASSUME NEW S, S \subseteq Nat, \A n \in S : \E m \in S : m < n
  PROVE  S = {}
<1>1. SUFFICES ASSUME S # {} PROVE FALSE
  OBVIOUS
<1>2. PICK x \in S : \A y \in S : ~(<<y, x>> \in Less)
  BY LessWellFounded, WFMin, <1>1
<1>3. PICK y \in S : y < x
  OBVIOUS
<1> QED
  BY <1>2, <1>3 DEF Less

-----------------------------------------------------------------------------
(* Lists.                                                                  *)
Members(list) == {list[i] : i \in 1 .. Len(list)}

LEMMA ListIsSeq ==
  ASSUME NEW list, IsList(list)
  PROVE  /\ Len(list) \in Nat
         /\ DOMAIN list = 1 .. Len(list)
         /\ list \in Seq(Members(list))
<1>1. Len(list) \in Nat /\ list = [i \in 1 .. Len(list) |-> list[i]]
  BY DEF IsList
<1>2. \A i \in 1 .. Len(list) : list[i] \in Members(list)
  BY DEF Members
<1> DEFINE n == Len(list)
           f(i) == list[i]
<1> HIDE DEF n, f
<1>3. [i \in 1 .. n |-> f(i)] \in Seq(Members(list))
  BY <1>1, <1>2, IsASeq DEF n, f
<1> QED
  BY <1>1, <1>3 DEF n, f

LEMMA SeqIsList ==
  ASSUME NEW S, NEW list \in Seq(S)
  PROVE  IsList(list)
  BY LenProperties DEF IsList

LEMMA MadeIsList ==
  ASSUME NEW n \in Nat, NEW list, list = [i \in 1 .. n |-> list[i]]
  PROVE  Len(list) = n /\ IsList(list)
<1> DEFINE S == {list[i] : i \in 1 .. n}
           f(i) == list[i]
<1>1. \A i \in 1 .. n : f(i) \in S
  OBVIOUS
<1> HIDE DEF f
<1>2. [i \in 1 .. n |-> f(i)] \in Seq(S)
  BY <1>1, IsASeq
<1>3. list \in Seq(S)
  BY <1>2 DEF f
<1>4. DOMAIN list = 1 .. n
  OBVIOUS
<1> QED
  BY <1>3, <1>4, SeqIsList, LenProperties

\* p is what was picked of the first n elements of list, found at the places at.
HowPicked(list, places, n, p, at) ==
    /\ at \in [1 .. Len(p) -> 1 .. n]
    /\ \A k \in 1 .. Len(p) : at[k] \in places /\ p[k] = list[at[k]]
    /\ \A j, k \in 1 .. Len(p) : j < k => at[j] < at[k]
    /\ \A i \in 1 .. n : i \in places => \E k \in 1 .. Len(p) : at[k] = i

PickStep(list, places, f, i) ==
    IF i = 0 THEN <<>> ELSE IF i \in places THEN Append(f[i - 1], list[i]) ELSE f[i - 1]
PickedTo(list, places, n, f) == f = [i \in 0 .. n |-> PickStep(list, places, f, i)]

LEMMA PickedExists ==
  ASSUME NEW list, NEW places, NEW n \in Nat
  PROVE  \E f : PickedTo(list, places, n, f)
<1> DEFINE Bad == {k \in Nat : ~\E f : PickedTo(list, places, k, f)}
<1>1. ASSUME NEW k \in Bad PROVE \E m \in Bad : m < k
  <2>1. CASE k = 0
    <3> DEFINE f == [i \in 0 .. 0 |-> <<>>]
    <3>1. f = [i \in 0 .. 0 |-> PickStep(list, places, f, i)]
      BY DEF PickStep
    <3> QED
      BY <2>1, <3>1 DEF PickedTo
  <2>2. CASE k # 0
    <3>1. k - 1 \in Nat /\ k - 1 < k
      BY <2>2
    <3>2. SUFFICES ASSUME NEW g, PickedTo(list, places, k - 1, g) PROVE FALSE
      BY <3>1
    <3> DEFINE f == [i \in 0 .. k |-> IF i = k THEN PickStep(list, places, g, k) ELSE g[i]]
    <3>3. \A i \in 0 .. k - 1 : g[i] = PickStep(list, places, g, i)
      BY <3>2 DEF PickedTo
    <3>4. \A i \in 0 .. k : i - 1 \in 0 .. k - 1 => f[i - 1] = g[i - 1]
      BY <3>1
    <3>5. \A i \in 0 .. k : PickStep(list, places, f, i) = PickStep(list, places, g, i)
      BY <3>4, <3>1 DEF PickStep
    <3>6. \A i \in 0 .. k : f[i] = PickStep(list, places, f, i)
      BY <3>3, <3>5, <3>1
    <3>7. f = [i \in 0 .. k |-> PickStep(list, places, f, i)]
      BY <3>6
    <3> QED
      BY <3>7 DEF PickedTo
  <2> QED
    BY <2>1, <2>2
<1>2. Bad = {}
  BY <1>1, NoneLeast
<1> QED
  BY <1>2

LEMMA PickedIsDefined ==
  ASSUME NEW list, Len(list) \in Nat, NEW places
  PROVE  \E f : /\ PickedTo(list, places, Len(list), f)
                /\ Picked(list, places) = f[Len(list)]
<1> DEFINE f == CHOOSE g : PickedTo(list, places, Len(list), g)
<1>1. PickedTo(list, places, Len(list), f)
  BY PickedExists
<1>2. Picked(list, places) = f[Len(list)]
  BY DEF Picked, PickedTo, PickStep
<1> QED
  BY <1>1, <1>2

LEMMA PickedStays ==
  ASSUME NEW list, NEW places, NEW n \in Nat \ {0}, NEW p, NEW at,
         n \notin places, HowPicked(list, places, n - 1, p, at), Len(p) \in Nat
  PROVE  HowPicked(list, places, n, p, at)
<1>1. \A i \in 1 .. n - 1 : i \in 1 .. n
  OBVIOUS
<1>2. \A i \in 1 .. n : i = n \/ i \in 1 .. n - 1
  OBVIOUS
<1> QED
  BY <1>1, <1>2 DEF HowPicked

LEMMA PickedGrows ==
  ASSUME NEW S, NEW list, NEW places, NEW n \in Nat \ {0}, NEW p \in Seq(S), NEW at,
         n \in places, HowPicked(list, places, n - 1, p, at), list[n] \in S
  PROVE  \E to : HowPicked(list, places, n, Append(p, list[n]), to)
<1> DEFINE q == Append(p, list[n])
           l == Len(p)
           to == [k \in 1 .. l + 1 |-> IF k = l + 1 THEN n ELSE at[k]]
<1>1. /\ q \in Seq(S) /\ Len(q) = l + 1 /\ l \in Nat
      /\ q[l + 1] = list[n] /\ \A k \in 1 .. l : q[k] = p[k]
  BY AppendProperties, LenProperties
<1> HIDE DEF q
<1>2. \A k \in 1 .. l : at[k] \in 1 .. n - 1 /\ at[k] \in places /\ p[k] = list[at[k]]
  BY DEF HowPicked
<1>3. \A k \in 1 .. l + 1 : k = l + 1 \/ k \in 1 .. l
  BY <1>1
<1>4. \A k \in 1 .. l : k \in 1 .. l + 1 /\ k # l + 1 /\ to[k] = at[k]
  BY <1>1
<1>5. l + 1 \in 1 .. l + 1 /\ to[l + 1] = n
  BY <1>1
<1>6. to \in [1 .. l + 1 -> 1 .. n]
  <2>1. \A k \in 1 .. l + 1 : to[k] \in 1 .. n
    BY <1>2, <1>3, <1>4, <1>5
  <2> QED
    BY <2>1
<1>7. \A k \in 1 .. l + 1 : to[k] \in places /\ q[k] = list[to[k]]
  BY <1>1, <1>2, <1>3, <1>4, <1>5
<1>8. ASSUME NEW j \in 1 .. l + 1, NEW k \in 1 .. l + 1, j < k PROVE to[j] < to[k]
  <2>1. j \in 1 .. l
    BY <1>8, <1>1
  <2>2. to[j] = at[j] /\ at[j] \in 1 .. n - 1
    BY <2>1, <1>2, <1>4
  <2>3. CASE k = l + 1
    BY <2>2, <2>3, <1>5
  <2>4. CASE k \in 1 .. l
    BY <2>1, <2>2, <2>4, <1>4, <1>8 DEF HowPicked
  <2> QED
    BY <2>3, <2>4, <1>3
<1>9. ASSUME NEW i \in 1 .. n, i \in places PROVE \E k \in 1 .. l + 1 : to[k] = i
  <2>1. CASE i = n
    BY <2>1, <1>5
  <2>2. CASE i # n
    <3>1. i \in 1 .. n - 1
      BY <2>2
    <3>2. PICK k \in 1 .. l : at[k] = i
      BY <3>1, <1>9 DEF HowPicked
    <3> QED
      BY <3>2, <1>4
  <2> QED
    BY <2>1, <2>2
<1> HIDE DEF to, l
<1>10. HowPicked(list, places, n, q, to)
  BY <1>1, <1>6, <1>7, <1>8, <1>9 DEF HowPicked
<1> QED
  BY <1>10 DEF q

\* What is picked of a list is a list of its elements, at places that were
\* asked for, each once, in the order of the list.
LEMMA PickedProperties ==
  ASSUME NEW list, IsList(list), NEW places
  PROVE  /\ IsList(Picked(list, places))
         /\ Picked(list, places) \in Seq(Members(list))
         /\ \E at : HowPicked(list, places, Len(list), Picked(list, places), at)
<1> DEFINE S == Members(list)
<1>1. PICK f : PickedTo(list, places, Len(list), f) /\ Picked(list, places) = f[Len(list)]
  BY PickedIsDefined, ListIsSeq
<1>2. \A i \in 0 .. Len(list) : f[i] = PickStep(list, places, f, i)
  BY <1>1 DEF PickedTo
<1> DEFINE Good(n) == f[n] \in Seq(S) /\ \E at : HowPicked(list, places, n, f[n], at)
           Bad == {n \in 0 .. Len(list) : ~Good(n)}
<1>3. Len(list) \in Nat
  BY ListIsSeq
<1>4. ASSUME NEW n \in Bad PROVE \E m \in Bad : m < n
  <2>1. CASE n = 0
    <3>1. f[n] = <<>>
      BY <2>1, <1>2, <1>3 DEF PickStep
    <3>2. Len(f[n]) = 0 /\ f[n] \in Seq(S)
      BY <3>1
    <3>3. HowPicked(list, places, n, f[n], [k \in 1 .. 0 |-> 0])
      BY <3>2, <2>1 DEF HowPicked
    <3> QED
      BY <3>2, <3>3
  <2>2. CASE n # 0 /\ n - 1 \notin Bad
    <3>1. n \in Nat \ {0} /\ n - 1 \in 0 .. Len(list) /\ n \in 1 .. Len(list)
      BY <2>2, <1>3
    <3>2. Good(n - 1)
      BY <2>2, <3>1
    <3>3. PICK at : HowPicked(list, places, n - 1, f[n - 1], at)
      BY <3>2
    <3>4. f[n - 1] \in Seq(S) /\ Len(f[n - 1]) \in Nat
      BY <3>2, LenProperties
    <3>5. CASE n \in places
      <4>1. f[n] = Append(f[n - 1], list[n])
        BY <3>1, <3>5, <1>2 DEF PickStep
      <4>2. list[n] \in S
        BY <3>1 DEF Members
      <4>3. f[n] \in Seq(S)
        BY <4>1, <4>2, <3>4, AppendProperties
      <4>4. \E to : HowPicked(list, places, n, f[n], to)
        BY <4>1, <4>2, <3>1, <3>3, <3>4, <3>5, PickedGrows
      <4> QED
        BY <4>3, <4>4
    <3>6. CASE n \notin places
      <4>1. f[n] = f[n - 1]
        BY <3>1, <3>6, <1>2 DEF PickStep
      <4>2. HowPicked(list, places, n, f[n], at)
        BY <4>1, <3>1, <3>3, <3>4, <3>6, PickedStays
      <4> QED
        BY <4>1, <4>2, <3>4
    <3> QED
      BY <3>5, <3>6
  <2>3. CASE n # 0 /\ n - 1 \in Bad
    BY <2>3
  <2> QED
    BY <2>1, <2>2, <2>3
<1>5. Bad \subseteq Nat
  BY <1>3
<1> HIDE DEF Bad
<1>6. Bad = {}
  BY <1>4, <1>5, NoneLeast
<1>7. Good(Len(list))
  BY <1>3, <1>6 DEF Bad
<1> QED
  BY <1>1, <1>7, SeqIsList
-----------------------------------------------------------------------------
JoinStep(lists, f, i) == IF i = 0 THEN <<>> ELSE f[i - 1] \o lists[i]
JoinedTo(lists, n, f) == f = [i \in 0 .. n |-> JoinStep(lists, f, i)]

LEMMA JoinedExists ==
  ASSUME NEW lists, NEW n \in Nat
  PROVE  \E f : JoinedTo(lists, n, f)
<1> DEFINE Bad == {k \in Nat : ~\E f : JoinedTo(lists, k, f)}
<1>1. ASSUME NEW k \in Bad PROVE \E m \in Bad : m < k
  <2>1. CASE k = 0
    <3> DEFINE f == [i \in 0 .. 0 |-> <<>>]
    <3>1. f = [i \in 0 .. 0 |-> JoinStep(lists, f, i)]
      BY DEF JoinStep
    <3> QED
      BY <2>1, <3>1 DEF JoinedTo
  <2>2. CASE k # 0
    <3>1. k - 1 \in Nat /\ k - 1 < k
      BY <2>2
    <3>2. SUFFICES ASSUME NEW g, JoinedTo(lists, k - 1, g) PROVE FALSE
      BY <3>1
    <3> DEFINE f == [i \in 0 .. k |-> IF i = k THEN JoinStep(lists, g, k) ELSE g[i]]
    <3>3. \A i \in 0 .. k - 1 : g[i] = JoinStep(lists, g, i)
      BY <3>2 DEF JoinedTo
    <3>4. \A i \in 0 .. k : i - 1 \in 0 .. k - 1 => f[i - 1] = g[i - 1]
      BY <3>1
    <3>5. \A i \in 0 .. k : JoinStep(lists, f, i) = JoinStep(lists, g, i)
      BY <3>4, <3>1 DEF JoinStep
    <3>6. \A i \in 0 .. k : f[i] = JoinStep(lists, f, i)
      BY <3>3, <3>5, <3>1
    <3>7. f = [i \in 0 .. k |-> JoinStep(lists, f, i)]
      BY <3>6
    <3> QED
      BY <3>7 DEF JoinedTo
  <2> QED
    BY <2>1, <2>2
<1>2. Bad = {}
  BY <1>1, NoneLeast
<1> QED
  BY <1>2

\* Lists joined are a list.
LEMMA JoinedIsList ==
  ASSUME NEW lists, IsList(lists), \A i \in 1 .. Len(lists) : IsList(lists[i])
  PROVE  IsList(Joined(lists))
<1> DEFINE S == UNION {Members(lists[i]) : i \in 1 .. Len(lists)}
           f == CHOOSE g : JoinedTo(lists, Len(lists), g)
<1>1. Len(lists) \in Nat
  BY ListIsSeq
<1>2. JoinedTo(lists, Len(lists), f)
  BY <1>1, JoinedExists
<1>3. Joined(lists) = f[Len(lists)]
  BY DEF Joined, JoinedTo, JoinStep
<1> HIDE DEF f
<1>4. \A i \in 0 .. Len(lists) : f[i] = JoinStep(lists, f, i)
  BY <1>2 DEF JoinedTo
<1>5. \A i \in 1 .. Len(lists) : lists[i] \in Seq(S)
  <2>1. TAKE i \in 1 .. Len(lists)
  <2>2. lists[i] \in Seq(Members(lists[i])) /\ Members(lists[i]) \subseteq S
    BY ListIsSeq
  <2> HIDE DEF S
  <2> QED
    BY <2>2
<1> HIDE DEF S
<1> DEFINE Bad == {n \in 0 .. Len(lists) : f[n] \notin Seq(S)}
<1>6. ASSUME NEW n \in Bad PROVE \E m \in Bad : m < n
  <2>0. f[0] = <<>> /\ <<>> \in Seq(S)
    BY <1>1, <1>4 DEF JoinStep
  <2>1. n # 0
    BY <2>0
  <2>2. n - 1 \in 0 .. Len(lists) /\ n \in 1 .. Len(lists) /\ n - 1 < n
    BY <2>1, <1>1
  <2>3. f[n] = f[n - 1] \o lists[n]
    BY <2>1, <1>4 DEF JoinStep
  <2>4. f[n - 1] \notin Seq(S)
    BY <2>2, <2>3, <1>5, ConcatProperties
  <2> QED
    BY <2>2, <2>4
<1>7. Bad \subseteq Nat
  BY <1>1
<1> HIDE DEF Bad
<1>8. Bad = {}
  BY <1>6, <1>7, NoneLeast
<1> QED
  BY <1>1, <1>3, <1>8, SeqIsList DEF Bad

-----------------------------------------------------------------------------
(* What the other operators on lists give.                                 *)
LEMMA MembersOf ==
  ASSUME NEW list, IsList(list)
  PROVE  ToSet(list) = Members(list)
  BY ListIsSeq DEF ToSet, Members

LEMMA PickedMembers ==
  ASSUME NEW list, IsList(list), NEW places
  PROVE  /\ IsList(Picked(list, places))
         /\ Members(Picked(list, places)) = {list[i] : i \in places \cap 1 .. Len(list)}
<1>1. PICK at : HowPicked(list, places, Len(list), Picked(list, places), at)
  BY PickedProperties
<1>2. IsList(Picked(list, places))
  BY PickedProperties
<1>3. ASSUME NEW i \in places \cap 1 .. Len(list) PROVE list[i] \in Members(Picked(list, places))
  BY <1>1 DEF HowPicked, Members
<1>4. ASSUME NEW k \in 1 .. Len(Picked(list, places))
      PROVE  \E i \in places \cap 1 .. Len(list) : Picked(list, places)[k] = list[i]
  BY <1>1 DEF HowPicked
<1>5. \A x \in Members(Picked(list, places)) : x \in {list[i] : i \in places \cap 1 .. Len(list)}
  BY <1>4 DEF Members
<1> QED
  BY <1>2, <1>3, <1>5

LEMMA PickedWithin ==
  ASSUME NEW list, IsList(list), NEW places
  PROVE  IsList(Picked(list, places)) /\ Members(Picked(list, places)) \subseteq Members(list)
<1>1. {list[i] : i \in places \cap 1 .. Len(list)} \subseteq Members(list)
  BY DEF Members
<1> QED
  BY <1>1, PickedMembers

\* A list has the same members when each of them is kept where it first comes.
LEMMA FirstsMembers ==
  ASSUME NEW list, IsList(list)
  PROVE  IsList(Firsts(list)) /\ Members(Firsts(list)) = Members(list)
<1> DEFINE places == {i \in 1 .. Len(list) : \A j \in 1 .. i - 1 : list[j] # list[i]}
<1>1. IsList(Firsts(list)) /\ Members(Firsts(list)) = {list[i] : i \in places \cap 1 .. Len(list)}
  BY PickedMembers DEF Firsts
<1>2. ASSUME NEW x \in Members(list) PROVE \E i \in places : list[i] = x
  <2> DEFINE at == {i \in 1 .. Len(list) : list[i] = x}
  <2>1. Len(list) \in Nat
    BY ListIsSeq
  <2>2. at # {} /\ at \subseteq Nat
    BY <2>1 DEF Members
  <2>3. PICK i \in at : \A j \in at : ~(j < i)
    <3> HIDE DEF at
    <3> QED
      BY <2>2, NoneLeast
  <2>4. \A j \in 1 .. i - 1 : j \in 1 .. Len(list) /\ j < i
    BY <2>1, <2>3
  <2>5. i \in places
    BY <2>3, <2>4
  <2> QED
    BY <2>3, <2>5
<1>3. places \subseteq 1 .. Len(list)
  OBVIOUS
<1>4. Members(list) \subseteq {list[i] : i \in places \cap 1 .. Len(list)}
  BY <1>2, <1>3
<1>5. {list[i] : i \in places \cap 1 .. Len(list)} \subseteq Members(list)
  BY DEF Members
<1> QED
  BY <1>1, <1>4, <1>5

LEMMA NonBlankMembers ==
  ASSUME NEW list, IsList(list)
  PROVE  IsList(NonBlank(list)) /\ Members(NonBlank(list)) \subseteq Members(list)
  BY PickedWithin DEF NonBlank

LEMMA ConcatIsList ==
  ASSUME NEW a, NEW b, IsList(a), IsList(b)
  PROVE  /\ IsList(a \o b)
         /\ Members(a \o b) = Members(a) \cup Members(b)
         /\ Len(a \o b) = Len(a) + Len(b)
         /\ \A i \in 1 .. Len(a) + Len(b) :
               (a \o b)[i] = IF i <= Len(a) THEN a[i] ELSE b[i - Len(a)]
<1> DEFINE S == Members(a) \cup Members(b)
<1>1. /\ a \in Seq(Members(a)) /\ b \in Seq(Members(b))
      /\ Len(a) \in Nat /\ Len(b) \in Nat
  BY ListIsSeq
<1>2. a \in Seq(S) /\ b \in Seq(S)
  <2>1. Members(a) \subseteq S /\ Members(b) \subseteq S
    OBVIOUS
  <2> HIDE DEF S
  <2> QED
    BY <1>1, <2>1
<1>3. /\ a \o b \in Seq(S) /\ Len(a \o b) = Len(a) + Len(b)
      /\ \A i \in 1 .. Len(a) + Len(b) :
            (a \o b)[i] = IF i <= Len(a) THEN a[i] ELSE b[i - Len(a)]
  <2> HIDE DEF S
  <2> QED
    BY <1>2, ConcatProperties
<1>4. ASSUME NEW i \in 1 .. Len(a) PROVE a[i] \in Members(a \o b)
  BY <1>1, <1>3 DEF Members
<1>5. ASSUME NEW i \in 1 .. Len(b) PROVE b[i] \in Members(a \o b)
  <2>1. Len(a) + i \in 1 .. Len(a) + Len(b) /\ ~(Len(a) + i <= Len(a)) /\ Len(a) + i - Len(a) = i
    BY <1>1
  <2> QED
    BY <2>1, <1>3 DEF Members
<1>6. ASSUME NEW i \in 1 .. Len(a) + Len(b) PROVE (a \o b)[i] \in S
  <2>1. CASE i <= Len(a)
    BY <2>1, <1>1, <1>3 DEF Members
  <2>2. CASE ~(i <= Len(a))
    <3>1. i - Len(a) \in 1 .. Len(b)
      BY <2>2, <1>1
    <3> QED
      BY <2>2, <3>1, <1>3 DEF Members
  <2> QED
    BY <2>1, <2>2
<1>7. Members(a \o b) = S
  BY <1>3, <1>4, <1>5, <1>6 DEF Members
<1>8. IsList(a \o b)
  BY <1>3, SeqIsList
<1> QED
  BY <1>3, <1>7, <1>8

LEMMA CountIsNat ==
  ASSUME NEW list, IsList(list), NEW places, places \subseteq 1 .. Len(list)
  PROVE  Cardinality(places) \in Nat
<1>1. IsFiniteSet(1 .. Len(list))
  BY ListIsSeq, FS_Interval
<1>2. IsFiniteSet(places)
  BY <1>1, FS_Subset
<1> QED
  BY <1>2, FS_CardinalityType
-----------------------------------------------------------------------------
(* First elements of finite sets.                                          *)

LEMMA LeastOne ==
  ASSUME NEW S, S \subseteq Nat, S # {}
  PROVE  \E n \in S : \A m \in S : n <= m
<1>1. SUFFICES ASSUME \A n \in S : \E m \in S : m < n PROVE FALSE
  OBVIOUS
<1> QED
  BY <1>1, NoneLeast

\* A strict order of a finite set has a first element.
LEMMA FirstOne ==
  ASSUME NEW S, IsFiniteSet(S), S # {}, NEW R,
         \A x, y, z \in S : <<x, y>> \in R /\ <<y, z>> \in R => <<x, z>> \in R,
         \A x \in S : <<x, x>> \notin R
  PROVE  \E x \in S : \A y \in S : <<y, x>> \notin R
<1> DEFINE Under(x) == {y \in S : <<y, x>> \in R}
           Size(x) == Cardinality(Under(x))
           sizes == {Size(x) : x \in S}
<1>1. \A x \in S : IsFiniteSet(Under(x)) /\ Size(x) \in Nat
  <2>1. TAKE x \in S
  <2>2. Under(x) \subseteq S
    OBVIOUS
  <2> HIDE DEF Under
  <2> QED
    BY <2>2, FS_Subset, FS_CardinalityType
<1> HIDE DEF Size
<1>2. sizes \subseteq Nat /\ sizes # {}
  <2>1. \A x \in S : Size(x) \in Nat
    BY <1>1
  <2> HIDE DEF Under
  <2> QED
    BY <2>1
<1>3. PICK n \in sizes : \A m \in sizes : n <= m
  <2> HIDE DEF sizes
  <2> QED
    BY <1>2, LeastOne
<1>4. PICK x \in S : n = Size(x)
  BY <1>3
<1>5. ASSUME NEW y \in S, <<y, x>> \in R PROVE FALSE
  <2>1. Under(y) \subseteq Under(x) /\ y \in Under(x) /\ y \notin Under(y)
    BY <1>4, <1>5
  <2>2. n <= Size(y)
    BY <1>3, <1>5
  <2> HIDE DEF Under
  <2>3. Size(y) <= Size(x) /\ Size(y) # Size(x)
    BY <2>1, <1>1, <1>4, FS_Subset DEF Size
  <2> QED
    BY <2>2, <2>3, <1>1, <1>4, <1>5
<1> QED
  BY <1>5

\* The least and the largest of finitely many numbers.
LEMMA Extremes ==
  ASSUME NEW S, IsFiniteSet(S), S # {}, NEW v, \A i \in S : v[i] \in Int
  PROVE  /\ \E low \in S : \A i \in S : v[low] <= v[i]
         /\ \E high \in S : \A i \in S : v[i] <= v[high]
<1> DEFINE R == {p \in S \X S : v[p[1]] < v[p[2]]}
           Q == {p \in S \X S : v[p[1]] > v[p[2]]}
<1>1. \A x, y \in S : (<<x, y>> \in R <=> v[x] < v[y]) /\ (<<x, y>> \in Q <=> v[x] > v[y])
  OBVIOUS
<1> HIDE DEF R, Q
<1>2. PICK low \in S : \A y \in S : <<y, low>> \notin R
  <2>1. /\ \A x, y, z \in S : <<x, y>> \in R /\ <<y, z>> \in R => <<x, z>> \in R
        /\ \A x \in S : <<x, x>> \notin R
    BY <1>1
  <2> QED
    BY <2>1, FirstOne
<1>3. PICK high \in S : \A y \in S : <<y, high>> \notin Q
  <2>1. /\ \A x, y, z \in S : <<x, y>> \in Q /\ <<y, z>> \in Q => <<x, z>> \in Q
        /\ \A x \in S : <<x, x>> \notin Q
    BY <1>1
  <2> QED
    BY <2>1, FirstOne
<1>4. \A i \in S : v[low] <= v[i] /\ v[i] <= v[high]
  <2>1. TAKE i \in S
  <2>2. ~(v[i] < v[low]) /\ ~(v[i] > v[high])
    BY <1>1, <1>2, <1>3
  <2>3. v[i] \in Int /\ v[low] \in Int /\ v[high] \in Int
    OBVIOUS
  <2> QED
    BY <2>2, <2>3
<1> QED
  BY <1>4

\* The least of them, the first place among equals.
LEMMA LeastInOrder ==
  ASSUME NEW S, IsFiniteSet(S), S # {}, S \subseteq Nat, NEW v, \A i \in S : v[i] \in Int
  PROVE  \E n \in S : \A m \in S : v[n] < v[m] \/ (v[n] = v[m] /\ n <= m)
<1> DEFINE R == {p \in S \X S : v[p[1]] < v[p[2]] \/ (v[p[1]] = v[p[2]] /\ p[1] < p[2])}
<1>1. \A x, y \in S : <<x, y>> \in R <=> v[x] < v[y] \/ (v[x] = v[y] /\ x < y)
  OBVIOUS
<1> HIDE DEF R
<1>2. \A x, y \in S : x \in Int /\ y \in Int /\ v[x] \in Int /\ v[y] \in Int
  OBVIOUS
<1>3. PICK n \in S : \A y \in S : <<y, n>> \notin R
  <2>1. /\ \A x, y, z \in S : <<x, y>> \in R /\ <<y, z>> \in R => <<x, z>> \in R
        /\ \A x \in S : <<x, x>> \notin R
    BY <1>1, <1>2
  <2> QED
    BY <2>1, FirstOne
<1>4. \A m \in S : v[n] < v[m] \/ (v[n] = v[m] /\ n <= m)
  <2>1. TAKE m \in S
  <2>2. ~(v[m] < v[n]) /\ ~(v[m] = v[n] /\ m < n)
    BY <1>1, <1>3
  <2> QED
    BY <2>2, <1>2
<1> QED
  BY <1>4
-----------------------------------------------------------------------------
(* Sums.                                                                   *)
TotalStep(f, g, i) ==
    IF i = 0 THEN 0 ELSE IF i \in DOMAIN f THEN g[i - 1] + f[i] ELSE g[i - 1]
TotalTo(f, n, g) == g = [i \in 0 .. n |-> TotalStep(f, g, i)]

LEMMA TotalExists ==
  ASSUME NEW f, NEW n \in Nat
  PROVE  \E g : TotalTo(f, n, g)
<1> DEFINE Bad == {k \in Nat : ~\E g : TotalTo(f, k, g)}
<1>1. ASSUME NEW k \in Bad PROVE \E m \in Bad : m < k
  <2>1. CASE k = 0
    <3> DEFINE g == [i \in 0 .. 0 |-> TotalStep(f, [j \in 0 .. 0 |-> 0], 0)]
    <3>1. g = [i \in 0 .. 0 |-> TotalStep(f, g, i)]
      BY DEF TotalStep
    <3> QED
      BY <2>1, <3>1 DEF TotalTo
  <2>2. CASE k # 0
    <3>1. k - 1 \in Nat /\ k - 1 < k
      BY <2>2
    <3>2. SUFFICES ASSUME NEW h, TotalTo(f, k - 1, h) PROVE FALSE
      BY <3>1
    <3> DEFINE g == [i \in 0 .. k |-> IF i = k THEN TotalStep(f, h, k) ELSE h[i]]
    <3>3. \A i \in 0 .. k - 1 : h[i] = TotalStep(f, h, i)
      BY <3>2 DEF TotalTo
    <3>4. \A i \in 0 .. k : i - 1 \in 0 .. k - 1 => g[i - 1] = h[i - 1]
      BY <3>1
    <3>5. \A i \in 0 .. k : TotalStep(f, g, i) = TotalStep(f, h, i)
      BY <3>4, <3>1 DEF TotalStep
    <3>6. \A i \in 0 .. k : g[i] = TotalStep(f, g, i)
      BY <3>3, <3>5, <3>1
    <3>7. g = [i \in 0 .. k |-> TotalStep(f, g, i)]
      BY <3>6
    <3> QED
      BY <3>7 DEF TotalTo
  <2> QED
    BY <2>1, <2>2
<1>2. Bad = {}
  BY <1>1, NoneLeast
<1> QED
  BY <1>2

\* A sum of integers is one, and a sum of natural numbers is natural.
LEMMA TotalIsNumber ==
  ASSUME NEW T, T = Int \/ T = Nat, NEW f, \A i \in DOMAIN f : f[i] \in T, NEW n \in Nat
  PROVE  Total(f, n) \in T
<1> DEFINE g == CHOOSE h : TotalTo(f, n, h)
<1>1. TotalTo(f, n, g)
  BY TotalExists
<1>2. Total(f, n) = g[n]
  BY DEF Total, TotalTo, TotalStep
<1> HIDE DEF g
<1>3. \A i \in 0 .. n : g[i] = TotalStep(f, g, i)
  BY <1>1 DEF TotalTo
<1> DEFINE Bad == {k \in 0 .. n : g[k] \notin T}
<1>4. ASSUME NEW k \in Bad PROVE \E m \in Bad : m < k
  <2>1. k # 0
    BY <1>3 DEF TotalStep
  <2>2. k - 1 \in 0 .. n /\ k - 1 < k
    BY <2>1
  <2>3. g[k] = IF k \in DOMAIN f THEN g[k - 1] + f[k] ELSE g[k - 1]
    BY <2>1, <1>3 DEF TotalStep
  <2>4. g[k - 1] \notin T
    BY <2>3
  <2> QED
    BY <2>2, <2>4
<1>5. Bad \subseteq Nat
  OBVIOUS
<1> HIDE DEF Bad
<1>6. Bad = {}
  BY <1>4, <1>5, NoneLeast
<1> QED
  BY <1>2, <1>6 DEF Bad

-----------------------------------------------------------------------------
(* Sorted lists.                                                           *)
NoRepeats(list) == \A i, j \in 1 .. Len(list) : list[i] = list[j] => i = j

LEMMA PickedDistinct ==
  ASSUME NEW list, IsList(list), NoRepeats(list), NEW places
  PROVE  NoRepeats(Picked(list, places))
<1> DEFINE p == Picked(list, places)
<1>1. PICK at : HowPicked(list, places, Len(list), p, at)
  BY PickedProperties
<1>2. IsList(p)
  BY PickedProperties
<1> HIDE DEF p
<1>3. ASSUME NEW i \in 1 .. Len(p), NEW j \in 1 .. Len(p), p[i] = p[j] PROVE i = j
  <2>1. at[i] \in 1 .. Len(list) /\ at[j] \in 1 .. Len(list) /\ list[at[i]] = list[at[j]]
    BY <1>1, <1>3 DEF HowPicked
  <2>2. at[i] = at[j]
    BY <2>1 DEF NoRepeats
  <2>3. i < j \/ j < i \/ i = j
    BY <1>2 DEF IsList
  <2>4. (i < j => at[i] < at[j]) /\ (j < i => at[j] < at[i])
    BY <1>1 DEF HowPicked
  <2>5. at[i] \in Nat
    BY <2>1, ListIsSeq
  <2> QED
    BY <2>2, <2>3, <2>4, <2>5
<1> QED
  BY <1>3 DEF NoRepeats, p

\* A list without repeats is as long as the set of its members.
LEMMA DistinctLength ==
  ASSUME NEW list, IsList(list), NoRepeats(list)
  PROVE  IsFiniteSet(Members(list)) /\ Cardinality(Members(list)) = Len(list)
<1> DEFINE n == Len(list)
           S == Members(list)
<1>1. n \in Nat /\ list = [i \in 1 .. n |-> list[i]]
  BY DEF IsList
<1>2. list \in [1 .. n -> S]
  <2>1. \A i \in 1 .. n : list[i] \in S
    BY DEF Members
  <2> HIDE DEF S
  <2> QED
    BY <1>1, <2>1
<1>3. list \in Bijection(1 .. n, S)
  <2>1. \A x \in S : \E i \in 1 .. n : list[i] = x
    BY DEF Members
  <2> HIDE DEF S
  <2> QED
    BY <1>2, <2>1 DEF Bijection, Injection, Surjection, NoRepeats, IsInjective
<1>4. ExistsBijection(1 .. n, S)
  BY <1>3 DEF ExistsBijection
<1> HIDE DEF n, S
<1>5. IsFiniteSet(S) /\ Cardinality(S) = n
  BY <1>1, <1>4, FS_CountingElements, FS_NatBijection
<1> QED
  BY <1>5 DEF n, S

LEMMA InsertedProperties ==
  ASSUME NEW list, IsList(list), NoRepeats(list), NEW x, x \notin Members(list), NEW before
  PROVE  /\ IsList(Inserted(list, x, before))
         /\ NoRepeats(Inserted(list, x, before))
         /\ Members(Inserted(list, x, before)) = Members(list) \cup {x}
<1> DEFINE ahead == {i \in 1 .. Len(list) : <<list[i], x>> \in before}
           rest == (1 .. Len(list)) \ ahead
           p == Picked(list, ahead)
           q == Picked(list, rest)
           r == Append(p, x)
<1>1. Inserted(list, x, before) = r \o q
  BY DEF Inserted
<1>2. /\ IsList(p) /\ Members(p) = {list[i] : i \in ahead} /\ NoRepeats(p)
      /\ IsList(q) /\ Members(q) = {list[i] : i \in rest} /\ NoRepeats(q)
  <2>1. ahead \cap 1 .. Len(list) = ahead /\ rest \cap 1 .. Len(list) = rest
    OBVIOUS
  <2> HIDE DEF ahead, rest
  <2> QED
    BY <2>1, PickedMembers, PickedDistinct
<1>3. Members(p) \cup Members(q) = Members(list) /\ Members(p) \cap Members(q) = {}
  <2>1. \A i \in ahead, j \in rest : list[i] # list[j]
    BY DEF NoRepeats
  <2>2. ahead \cup rest = 1 .. Len(list)
    OBVIOUS
  <2> HIDE DEF ahead, rest, p, q
  <2> QED
    BY <1>2, <2>1, <2>2 DEF Members
<1> HIDE DEF ahead, rest, p, q
<1>4. p \in Seq(Members(p)) /\ Len(p) \in Nat /\ x \notin Members(p) /\ x \notin Members(q)
  BY <1>2, <1>3, ListIsSeq
<1>5. /\ r \in Seq(Members(p) \cup {x}) /\ Len(r) = Len(p) + 1
      /\ r[Len(p) + 1] = x /\ \A i \in 1 .. Len(p) : r[i] = p[i]
  <2>1. p \in Seq(Members(p) \cup {x})
    BY <1>4
  <2> HIDE DEF r
  <2> QED
    BY <2>1, AppendProperties DEF r
<1> HIDE DEF r
<1>6. IsList(r) /\ Members(r) = Members(p) \cup {x}
  <2>1. IsList(r)
    BY <1>5, SeqIsList
  <2>2. \A i \in 1 .. Len(r) : i = Len(p) + 1 \/ i \in 1 .. Len(p)
    BY <1>4, <1>5
  <2>3. (1 .. Len(p)) \cup {Len(p) + 1} = 1 .. Len(r)
    BY <1>4, <1>5
  <2>4. {r[i] : i \in (1 .. Len(p)) \cup {Len(p) + 1}} = {p[i] : i \in 1 .. Len(p)} \cup {x}
    BY <1>5
  <2> QED
    BY <2>1, <2>3, <2>4 DEF Members
<1>7. NoRepeats(r)
  <2>1. \A i \in 1 .. Len(p) : p[i] # x
    BY <1>4 DEF Members
  <2>2. \A i \in 1 .. Len(r) : i = Len(p) + 1 \/ i \in 1 .. Len(p)
    BY <1>4, <1>5
  <2> QED
    BY <1>2, <1>5, <2>1, <2>2 DEF NoRepeats
<1>8. /\ IsList(r \o q)
      /\ Members(r \o q) = Members(r) \cup Members(q)
      /\ Len(r \o q) = Len(r) + Len(q)
      /\ \A i \in 1 .. Len(r) + Len(q) :
            (r \o q)[i] = IF i <= Len(r) THEN r[i] ELSE q[i - Len(r)]
  BY <1>2, <1>6, ConcatIsList
<1>9. \A i \in 1 .. Len(r), j \in 1 .. Len(q) : r[i] # q[j]
  <2>1. Members(r) \cap Members(q) = {}
    BY <1>3, <1>4, <1>6
  <2>2. \A i \in 1 .. Len(r) : r[i] \in Members(r)
    BY DEF Members
  <2>3. \A j \in 1 .. Len(q) : q[j] \in Members(q)
    BY DEF Members
  <2> QED
    BY <2>1, <2>2, <2>3
<1>10. NoRepeats(r \o q)
  <2> DEFINE s == r \o q
             l == Len(r)
             m == Len(q)
  <2>1. l \in Nat /\ m \in Nat /\ Len(s) = l + m
    BY <1>2, <1>6, <1>8, ListIsSeq
  <2>2. \A i \in 1 .. l + m : s[i] = IF i <= l THEN r[i] ELSE q[i - l]
    BY <1>8
  <2> HIDE DEF s, l, m
  <2>3. ASSUME NEW i \in 1 .. l + m
        PROVE  \/ i \in 1 .. l /\ s[i] = r[i]
               \/ i > l /\ i - l \in 1 .. m /\ s[i] = q[i - l]
    <3>1. CASE i <= l
      BY <3>1, <2>1, <2>2
    <3>2. CASE i > l
      <4>1. i - l \in 1 .. m /\ ~(i <= l)
        BY <3>2, <2>1
      <4> QED
        BY <3>2, <4>1, <2>2
    <3> QED
      BY <3>1, <3>2, <2>1
  <2>4. ASSUME NEW i \in 1 .. l + m, NEW j \in 1 .. l + m, s[i] = s[j] PROVE i = j
    <3>1. CASE i \in 1 .. l /\ s[i] = r[i] /\ j \in 1 .. l /\ s[j] = r[j]
      BY <3>1, <2>4, <1>7 DEF NoRepeats, l
    <3>2. CASE i > l /\ i - l \in 1 .. m /\ s[i] = q[i - l] /\ j > l /\ j - l \in 1 .. m /\ s[j] = q[j - l]
      <4>1. i - l = j - l
        BY <3>2, <2>4, <1>2 DEF NoRepeats, m
      <4> QED
        BY <4>1, <2>1
    <3>3. ~(i \in 1 .. l /\ s[i] = r[i] /\ j - l \in 1 .. m /\ s[j] = q[j - l])
      BY <2>4, <1>9 DEF l, m
    <3>4. ~(j \in 1 .. l /\ s[j] = r[j] /\ i - l \in 1 .. m /\ s[i] = q[i - l])
      BY <2>4, <1>9 DEF l, m
    <3> QED
      BY <3>1, <3>2, <3>3, <3>4, <2>3
  <2> QED
    BY <2>1, <2>4 DEF NoRepeats, s
<1> QED
  BY <1>1, <1>3, <1>6, <1>8, <1>10

OrderStep(S, before, g, i) ==
    IF i = 0 THEN <<>> ELSE IF i \in S THEN Inserted(g[i - 1], i, before) ELSE g[i - 1]
OrderedTo(S, before, n, g) == g = [i \in 0 .. n |-> OrderStep(S, before, g, i)]

LEMMA OrderedExists ==
  ASSUME NEW S, NEW before, NEW n \in Nat
  PROVE  \E g : OrderedTo(S, before, n, g)
<1> DEFINE Bad == {k \in Nat : ~\E g : OrderedTo(S, before, k, g)}
<1>1. ASSUME NEW k \in Bad PROVE \E m \in Bad : m < k
  <2>1. CASE k = 0
    <3> DEFINE g == [i \in 0 .. 0 |-> OrderStep(S, before, [j \in 0 .. 0 |-> 0], 0)]
    <3>1. g = [i \in 0 .. 0 |-> OrderStep(S, before, g, i)]
      BY DEF OrderStep
    <3> QED
      BY <2>1, <3>1 DEF OrderedTo
  <2>2. CASE k # 0
    <3>1. k - 1 \in Nat /\ k - 1 < k
      BY <2>2
    <3>2. SUFFICES ASSUME NEW h, OrderedTo(S, before, k - 1, h) PROVE FALSE
      BY <3>1
    <3> DEFINE g == [i \in 0 .. k |-> IF i = k THEN OrderStep(S, before, h, k) ELSE h[i]]
    <3>3. \A i \in 0 .. k - 1 : h[i] = OrderStep(S, before, h, i)
      BY <3>2 DEF OrderedTo
    <3>4. \A i \in 0 .. k : i - 1 \in 0 .. k - 1 => g[i - 1] = h[i - 1]
      BY <3>1
    <3>5. \A i \in 0 .. k : OrderStep(S, before, g, i) = OrderStep(S, before, h, i)
      BY <3>4, <3>1 DEF OrderStep
    <3>6. \A i \in 0 .. k : g[i] = OrderStep(S, before, g, i)
      BY <3>3, <3>5, <3>1
    <3>7. g = [i \in 0 .. k |-> OrderStep(S, before, g, i)]
      BY <3>6
    <3> QED
      BY <3>7 DEF OrderedTo
  <2> QED
    BY <2>1, <2>2
<1>2. Bad = {}
  BY <1>1, NoneLeast
<1> QED
  BY <1>2

\* Sorted places are all of them, each once.
LEMMA OrderedProperties ==
  ASSUME NEW n \in Nat, NEW S, S \subseteq 1 .. n, NEW before
  PROVE  /\ IsList(Ordered(S, n, before))
         /\ NoRepeats(Ordered(S, n, before))
         /\ Members(Ordered(S, n, before)) = S
         /\ Len(Ordered(S, n, before)) = Cardinality(S)
<1> DEFINE g == CHOOSE h : OrderedTo(S, before, n, h)
<1>1. OrderedTo(S, before, n, g)
  BY OrderedExists
<1>2. Ordered(S, n, before) = g[n]
  BY DEF Ordered, OrderedTo, OrderStep
<1> HIDE DEF g
<1>3. \A i \in 0 .. n : g[i] = OrderStep(S, before, g, i)
  BY <1>1 DEF OrderedTo
<1> DEFINE Good(k) == IsList(g[k]) /\ NoRepeats(g[k]) /\ Members(g[k]) = S \cap 1 .. k
           Bad == {k \in 0 .. n : ~Good(k)}
<1>4. ASSUME NEW k \in Bad PROVE \E m \in Bad : m < k
  <2>1. CASE k = 0
    <3>1. g[k] = <<>>
      BY <2>1, <1>3 DEF OrderStep
    <3>2. IsList(<<>>) /\ NoRepeats(<<>>) /\ Members(<<>>) = {} /\ S \cap 1 .. 0 = {}
      BY DEF IsList, NoRepeats, Members
    <3> QED
      BY <2>1, <3>1, <3>2
  <2>2. CASE k # 0 /\ k - 1 \notin Bad
    <3>1. k - 1 \in 0 .. n /\ k \in 1 .. n /\ Good(k - 1)
      BY <2>2
    <3>2. (1 .. k) = (1 .. k - 1) \cup {k} /\ k \notin 1 .. k - 1
      BY <3>1
    <3>3. CASE k \in S
      <4>1. g[k] = Inserted(g[k - 1], k, before)
        BY <3>1, <3>3, <2>2, <1>3 DEF OrderStep
      <4>2. k \notin Members(g[k - 1])
        BY <3>1, <3>2
      <4>3. /\ IsList(g[k]) /\ NoRepeats(g[k]) /\ Members(g[k]) = Members(g[k - 1]) \cup {k}
        BY <4>1, <4>2, <3>1, InsertedProperties
      <4> QED
        BY <4>3, <3>1, <3>2, <3>3
    <3>4. CASE k \notin S
      <4>1. g[k] = g[k - 1]
        BY <3>1, <3>4, <2>2, <1>3 DEF OrderStep
      <4> QED
        BY <4>1, <3>1, <3>2, <3>4
    <3> QED
      BY <3>3, <3>4
  <2>3. CASE k # 0 /\ k - 1 \in Bad
    BY <2>3
  <2> QED
    BY <2>1, <2>2, <2>3
<1>5. Bad \subseteq Nat
  OBVIOUS
<1> HIDE DEF Bad
<1>6. Bad = {}
  BY <1>4, <1>5, NoneLeast
<1>7. Good(n)
  BY <1>6 DEF Bad
<1>8. S \cap 1 .. n = S
  OBVIOUS
<1> QED
  BY <1>2, <1>7, <1>8, DistinctLength

-----------------------------------------------------------------------------
(* What sorting sorts. *)

\* Of two different places one is before the other, and what is before one of
\* them is before all that it is before.
IsOrder(S, before) ==
    /\ \A p, q \in S : p # q => <<p, q>> \in before \/ <<q, p>> \in before
    /\ \A p, q, r \in S : <<p, q>> \in before /\ <<q, r>> \in before => <<p, r>> \in before

InOrder(list, before) ==
    \A i, j \in 1 .. Len(list) : i < j => <<list[i], list[j]>> \in before

LEMMA PickedInOrder ==
  ASSUME NEW list, IsList(list), NEW places, NEW before, InOrder(list, before)
  PROVE  InOrder(Picked(list, places), before)
<1> DEFINE p == Picked(list, places)
<1>1. PICK at : HowPicked(list, places, Len(list), p, at)
  BY PickedProperties
<1> HIDE DEF p
<1>2. ASSUME NEW i \in 1 .. Len(p), NEW j \in 1 .. Len(p), i < j PROVE <<p[i], p[j]>> \in before
  <2>1. /\ at[i] \in 1 .. Len(list) /\ at[j] \in 1 .. Len(list) /\ at[i] < at[j]
        /\ p[i] = list[at[i]] /\ p[j] = list[at[j]]
    BY <1>1, <1>2 DEF HowPicked
  <2> QED
    BY <2>1 DEF InOrder
<1> QED
  BY <1>2 DEF InOrder, p

LEMMA ConcatInOrder ==
  ASSUME NEW r, NEW q, IsList(r), IsList(q), NEW before, InOrder(r, before), InOrder(q, before),
         \A x \in Members(r), y \in Members(q) : <<x, y>> \in before
  PROVE  InOrder(r \o q, before)
<1> DEFINE s == r \o q
           l == Len(r)
           m == Len(q)
<1>1. l \in Nat /\ m \in Nat /\ Len(s) = l + m
  BY ConcatIsList, ListIsSeq
<1>2. \A i \in 1 .. l + m : s[i] = IF i <= l THEN r[i] ELSE q[i - l]
  BY ConcatIsList
<1>3. \A i \in 1 .. l, j \in 1 .. m : <<r[i], q[j]>> \in before
  BY DEF Members
<1>4. /\ \A i, j \in 1 .. l : i < j => <<r[i], r[j]>> \in before
      /\ \A i, j \in 1 .. m : i < j => <<q[i], q[j]>> \in before
  BY DEF InOrder
<1> HIDE DEF s, l, m
<1>5. ASSUME NEW i \in 1 .. l + m, NEW j \in 1 .. l + m, i < j PROVE <<s[i], s[j]>> \in before
  <2>1. CASE j <= l
    <3>1. i \in 1 .. l /\ j \in 1 .. l /\ s[i] = r[i] /\ s[j] = r[j]
      BY <1>1, <1>2, <1>5, <2>1
    <3> QED
      BY <1>4, <1>5, <3>1
  <2>2. CASE i <= l /\ ~(j <= l)
    <3>1. i \in 1 .. l /\ j - l \in 1 .. m /\ s[i] = r[i] /\ s[j] = q[j - l]
      BY <1>1, <1>2, <2>2
    <3> QED
      BY <1>3, <3>1
  <2>3. CASE ~(i <= l) /\ ~(j <= l)
    <3>1. i - l \in 1 .. m /\ j - l \in 1 .. m /\ i - l < j - l /\ s[i] = q[i - l] /\ s[j] = q[j - l]
      BY <1>1, <1>2, <1>5, <2>3
    <3> QED
      BY <1>4, <3>1
  <2> QED
    BY <1>1, <1>5, <2>1, <2>2, <2>3
<1> QED
  BY <1>1, <1>5 DEF InOrder, s

\* What is put behind those it comes after is ahead of the others.
LEMMA InsertedInOrder ==
  ASSUME NEW S, NEW before, IsOrder(S, before), NEW x \in S,
         NEW list, IsList(list), Members(list) \subseteq S, x \notin Members(list),
         InOrder(list, before)
  PROVE  InOrder(Inserted(list, x, before), before)
<1> DEFINE ahead == {i \in 1 .. Len(list) : <<list[i], x>> \in before}
           rest == (1 .. Len(list)) \ ahead
           p == Picked(list, ahead)
           q == Picked(list, rest)
           one == <<x>>
<1>1. Inserted(list, x, before) = Append(p, x) \o q
  BY DEF Inserted
<1>2. /\ IsList(p) /\ Members(p) = {list[i] : i \in ahead}
      /\ IsList(q) /\ Members(q) = {list[i] : i \in rest}
  <2>1. ahead \cap 1 .. Len(list) = ahead /\ rest \cap 1 .. Len(list) = rest
    OBVIOUS
  <2> HIDE DEF ahead, rest
  <2> QED
    BY <2>1, PickedMembers
<1>3. InOrder(p, before) /\ InOrder(q, before)
  BY PickedInOrder
<1>4. /\ \A y \in Members(p) : <<y, x>> \in before /\ y \in S
      /\ \A y \in Members(q) : <<y, x>> \notin before /\ y \in S /\ y # x
  BY <1>2 DEF Members
<1> HIDE DEF ahead, rest, p, q
<1>5. \A y \in Members(q) : <<x, y>> \in before
  BY <1>4 DEF IsOrder
<1>6. \A y \in Members(p), z \in Members(q) : <<y, z>> \in before
  BY <1>4, <1>5 DEF IsOrder
<1>7. IsList(one) /\ Members(one) = {x} /\ InOrder(one, before)
  <2>1. one = [i \in 1 .. 1 |-> x] /\ Len(one) = 1
    OBVIOUS
  <2> HIDE DEF one
  <2> QED
    BY <2>1 DEF IsList, Members, InOrder
<1>8. Append(p, x) = p \o one
  <2>1. p \in Seq(Members(p) \cup {x})
    <3>1. p \in Seq(Members(p))
      BY <1>2, ListIsSeq
    <3> QED
      BY <3>1
  <2> QED
    BY <2>1
<1> HIDE DEF one
<1> DEFINE r == p \o one
<1>9. InOrder(r, before)
  BY <1>2, <1>3, <1>4, <1>7, ConcatInOrder
<1>10. IsList(r) /\ Members(r) = Members(p) \cup {x}
  BY <1>2, <1>7, ConcatIsList
<1> HIDE DEF r
<1>11. \A y \in Members(r), z \in Members(q) : <<y, z>> \in before
  BY <1>5, <1>6, <1>10
<1>12. InOrder(r \o q, before)
  BY <1>2, <1>3, <1>9, <1>10, <1>11, ConcatInOrder
<1> QED
  BY <1>1, <1>8, <1>12 DEF r

\* Sorted places are in the order they were sorted by.
LEMMA OrderedInOrder ==
  ASSUME NEW n \in Nat, NEW S, S \subseteq 1 .. n, NEW before, IsOrder(S, before)
  PROVE  InOrder(Ordered(S, n, before), before)
<1> DEFINE g == CHOOSE h : OrderedTo(S, before, n, h)
<1>1. OrderedTo(S, before, n, g)
  BY OrderedExists
<1>2. Ordered(S, n, before) = g[n]
  BY DEF Ordered, OrderedTo, OrderStep
<1> HIDE DEF g
<1>3. \A i \in 0 .. n : g[i] = OrderStep(S, before, g, i)
  BY <1>1 DEF OrderedTo
<1> DEFINE Good(k) == /\ IsList(g[k]) /\ NoRepeats(g[k]) /\ Members(g[k]) = S \cap 1 .. k
                      /\ InOrder(g[k], before)
           Bad == {k \in 0 .. n : ~Good(k)}
<1>4. ASSUME NEW k \in Bad PROVE \E m \in Bad : m < k
  <2>1. CASE k = 0
    <3>1. g[k] = <<>>
      BY <2>1, <1>3 DEF OrderStep
    <3>2. /\ IsList(<<>>) /\ NoRepeats(<<>>) /\ Members(<<>>) = {} /\ S \cap 1 .. 0 = {}
          /\ InOrder(<<>>, before)
      BY DEF IsList, NoRepeats, Members, InOrder
    <3> QED
      BY <2>1, <3>1, <3>2
  <2>2. CASE k # 0 /\ k - 1 \notin Bad
    <3>1. k - 1 \in 0 .. n /\ k \in 1 .. n /\ Good(k - 1)
      BY <2>2
    <3>2. (1 .. k) = (1 .. k - 1) \cup {k} /\ k \notin 1 .. k - 1
      BY <3>1
    <3>3. CASE k \in S
      <4>1. g[k] = Inserted(g[k - 1], k, before)
        BY <3>1, <3>3, <2>2, <1>3 DEF OrderStep
      <4>2. k \notin Members(g[k - 1]) /\ Members(g[k - 1]) \subseteq S
        BY <3>1, <3>2
      <4>3. /\ IsList(g[k]) /\ NoRepeats(g[k]) /\ Members(g[k]) = Members(g[k - 1]) \cup {k}
        BY <4>1, <4>2, <3>1, InsertedProperties
      <4>4. InOrder(g[k], before)
        BY <4>1, <4>2, <3>1, <3>3, InsertedInOrder
      <4> QED
        BY <4>3, <4>4, <3>1, <3>2, <3>3
    <3>4. CASE k \notin S
      <4>1. g[k] = g[k - 1]
        BY <3>1, <3>4, <2>2, <1>3 DEF OrderStep
      <4> QED
        BY <4>1, <3>1, <3>2, <3>4
    <3> QED
      BY <3>3, <3>4
  <2>3. CASE k # 0 /\ k - 1 \in Bad
    BY <2>3
  <2> QED
    BY <2>1, <2>2, <2>3
<1>5. Bad \subseteq Nat
  OBVIOUS
<1> HIDE DEF Bad
<1>6. Bad = {}
  BY <1>4, <1>5, NoneLeast
<1>7. Good(n)
  BY <1>6 DEF Bad
<1> QED
  BY <1>2, <1>7

LEMMA HeadIsFirst ==
  ASSUME NEW list, IsList(list), NEW before, InOrder(list, before), NEW x \in Members(list)
  PROVE  Head(list) \in Members(list) /\ (x = Head(list) \/ <<Head(list), x>> \in before)
<1>1. list \in Seq(Members(list)) /\ Len(list) \in Nat
  BY ListIsSeq
<1>2. PICK n \in 1 .. Len(list) : x = list[n]
  BY DEF Members
<1>3. list # <<>> /\ 1 \in 1 .. Len(list)
  BY <1>1, <1>2
<1>4. Head(list) = list[1]
  BY <1>1, <1>3
<1>5. CASE n = 1
  BY <1>2, <1>3, <1>4, <1>5 DEF Members
<1>6. CASE 1 < n
  <2>1. <<list[1], list[n]>> \in before
    BY <1>2, <1>3, <1>6 DEF InOrder
  <2> QED
    BY <1>2, <1>3, <1>4, <2>1 DEF Members
<1> QED
  BY <1>1, <1>2, <1>5, <1>6

\* A list that has a member is led by one.
LEMMA LeadsItself ==
  ASSUME NEW list, IsList(list), NEW x \in Members(list)
  PROVE  list # <<>> /\ Head(list) \in Members(list)
<1>1. list \in Seq(Members(list)) /\ Len(list) \in Nat
  BY ListIsSeq
<1>2. 1 \in 1 .. Len(list)
  BY <1>1 DEF Members
<1>3. Head(list) = list[1] /\ list # <<>>
  BY <1>1, <1>2
<1> QED
  BY <1>2, <1>3 DEF Members

-----------------------------------------------------------------------------
(* A list without the element at one place.                                *)

\* p is what is left of the first n elements of list without the k-th, which
\* may lie beyond them.
CutOf(list, k, n, p) ==
    /\ Len(p) = IF k <= n THEN n - 1 ELSE n
    /\ \A i \in 1 .. Len(p) : p[i] = list[IF i < k THEN i ELSE i + 1]

LEMMA CutGrows ==
  ASSUME NEW S, NEW list, NEW n \in Nat \ {0}, NEW k \in Nat, k # n, list[n] \in S,
         NEW p \in Seq(S), CutOf(list, k, n - 1, p)
  PROVE  CutOf(list, k, n, Append(p, list[n]))
<1> DEFINE q == Append(p, list[n])
           l == Len(p)
<1>1. /\ Len(q) = l + 1 /\ l \in Nat
      /\ q[l + 1] = list[n] /\ \A i \in 1 .. l : q[i] = p[i]
  BY AppendProperties, LenProperties
<1>2. /\ l = IF k <= n - 1 THEN n - 2 ELSE n - 1
      /\ \A i \in 1 .. l : p[i] = list[IF i < k THEN i ELSE i + 1]
  BY DEF CutOf
<1> HIDE DEF q, l
<1>3. l + 1 = IF k <= n THEN n - 1 ELSE n
  BY <1>2
<1>4. (IF l + 1 < k THEN l + 1 ELSE l + 2) = n
  BY <1>2
<1>5. ASSUME NEW i \in 1 .. l + 1 PROVE q[i] = list[IF i < k THEN i ELSE i + 1]
  <2>1. CASE i = l + 1
    BY <1>1, <1>4, <2>1
  <2>2. CASE i # l + 1
    <3>1. i \in 1 .. l
      BY <1>1, <2>2
    <3> QED
      BY <1>1, <1>2, <3>1
  <2> QED
    BY <2>1, <2>2
<1> QED
  BY <1>1, <1>3, <1>5 DEF CutOf, q

\* What is picked at every place but one is the list without that element.
LEMMA PickedButOne ==
  ASSUME NEW list, IsList(list), NEW k \in Nat \ {0}, NEW places,
         \A i \in 1 .. Len(list) : i \in places <=> i # k
  PROVE  CutOf(list, k, Len(list), Picked(list, places))
<1> DEFINE S == Members(list)
<1>1. PICK f : PickedTo(list, places, Len(list), f) /\ Picked(list, places) = f[Len(list)]
  BY PickedIsDefined, ListIsSeq
<1>2. \A i \in 0 .. Len(list) : f[i] = PickStep(list, places, f, i)
  BY <1>1 DEF PickedTo
<1> DEFINE Good(n) == f[n] \in Seq(S) /\ CutOf(list, k, n, f[n])
           Bad == {n \in 0 .. Len(list) : ~Good(n)}
<1>3. Len(list) \in Nat
  BY ListIsSeq
<1>4. ASSUME NEW n \in Bad PROVE \E m \in Bad : m < n
  <2>1. CASE n = 0
    <3>1. f[n] = <<>>
      BY <2>1, <1>2, <1>3 DEF PickStep
    <3>2. Len(f[n]) = 0 /\ f[n] \in Seq(S)
      BY <3>1
    <3>3. CutOf(list, k, n, f[n])
      BY <3>2, <2>1 DEF CutOf
    <3> QED
      BY <3>2, <3>3
  <2>2. CASE n # 0 /\ n - 1 \notin Bad
    <3>1. n \in Nat \ {0} /\ n - 1 \in 0 .. Len(list) /\ n \in 1 .. Len(list)
      BY <2>2, <1>3
    <3>2. f[n - 1] \in Seq(S) /\ CutOf(list, k, n - 1, f[n - 1])
      BY <2>2, <3>1
    <3>3. list[n] \in S
      BY <3>1 DEF Members
    <3>4. CASE n # k
      <4>1. f[n] = Append(f[n - 1], list[n])
        BY <3>1, <3>4, <1>2 DEF PickStep
      <4>2. f[n] \in Seq(S)
        BY <4>1, <3>2, <3>3, AppendProperties
      <4>3. CutOf(list, k, n, f[n])
        BY <4>1, <3>1, <3>2, <3>3, <3>4, CutGrows
      <4> QED
        BY <4>2, <4>3
    <3>5. CASE n = k
      <4>1. f[n] = f[n - 1]
        BY <3>1, <3>5, <1>2 DEF PickStep
      <4>2. CutOf(list, k, n, f[n])
        BY <4>1, <3>1, <3>2, <3>5 DEF CutOf
      <4> QED
        BY <4>1, <4>2, <3>2
    <3> QED
      BY <3>4, <3>5
  <2>3. CASE n # 0 /\ n - 1 \in Bad
    BY <2>3
  <2> QED
    BY <2>1, <2>2, <2>3
<1>5. Bad \subseteq Nat
  BY <1>3
<1> HIDE DEF Bad
<1>6. Bad = {}
  BY <1>4, <1>5, NoneLeast
<1> QED
  BY <1>1, <1>3, <1>6 DEF Bad

\* It is the part before that place and the part after it.
LEMMA CutIsTwoParts ==
  ASSUME NEW list, IsList(list), NEW k \in 1 .. Len(list), NEW p, IsList(p),
         CutOf(list, k, Len(list), p)
  PROVE  p = SubSeq(list, 1, k - 1) \o SubSeq(list, k + 1, Len(list))
<1> DEFINE S == Members(list)
           n == Len(list)
           a == SubSeq(list, 1, k - 1)
           b == SubSeq(list, k + 1, n)
<1>1. n \in Nat /\ k \in 1 .. n /\ \A i \in 1 .. n : list[i] \in S
  BY ListIsSeq DEF Members
<1> HIDE DEF S, n
<1>2. /\ a \in Seq(S) /\ Len(a) = k - 1
      /\ \A i \in 1 .. k - 1 : a[i] = list[i]
  <2>1. \A i \in 1 .. k - 1 : list[i] \in S
    BY <1>1
  <2>2. /\ a \in Seq(S) /\ Len(a) = IF 1 <= k - 1 THEN (k - 1) - 1 + 1 ELSE 0
        /\ \A i \in 1 .. (k - 1) - 1 + 1 : a[i] = list[1 + i - 1]
    BY <1>1, <2>1, SubSeqProperties
  <2> QED
    BY <1>1, <2>2
<1>3. /\ b \in Seq(S) /\ Len(b) = n - k
      /\ \A i \in 1 .. n - k : b[i] = list[k + i]
  <2>1. \A i \in k + 1 .. n : list[i] \in S
    BY <1>1
  <2>2. /\ b \in Seq(S) /\ Len(b) = IF k + 1 <= n THEN n - (k + 1) + 1 ELSE 0
        /\ \A i \in 1 .. n - (k + 1) + 1 : b[i] = list[k + 1 + i - 1]
    BY <1>1, <2>1, SubSeqProperties
  <2> QED
    BY <1>1, <2>2
<1> HIDE DEF a, b
<1>4. /\ IsList(a \o b) /\ Len(a \o b) = n - 1
      /\ \A i \in 1 .. n - 1 : (a \o b)[i] = IF i <= k - 1 THEN a[i] ELSE b[i - (k - 1)]
  <2>1. IsList(a) /\ IsList(b) /\ Len(a) + Len(b) = n - 1
    BY <1>1, <1>2, <1>3, SeqIsList
  <2> QED
    BY <1>2, <2>1, ConcatIsList
<1>5. Len(p) = n - 1 /\ \A i \in 1 .. n - 1 : p[i] = list[IF i < k THEN i ELSE i + 1]
  BY <1>1 DEF CutOf, n
<1>6. ASSUME NEW i \in 1 .. n - 1 PROVE p[i] = (a \o b)[i]
  <2>1. CASE i < k
    <3>1. i <= k - 1 /\ i \in 1 .. k - 1
      BY <1>1, <2>1
    <3> QED
      BY <1>2, <1>4, <1>5, <2>1, <3>1
  <2>2. CASE ~(i < k)
    <3>1. ~(i <= k - 1) /\ i - (k - 1) \in 1 .. n - k /\ k + (i - (k - 1)) = i + 1
      BY <1>1, <2>2
    <3> QED
      BY <1>3, <1>4, <1>5, <2>2, <3>1
  <2> QED
    BY <2>1, <2>2
<1>7. p = [i \in 1 .. n - 1 |-> p[i]] /\ a \o b = [i \in 1 .. n - 1 |-> (a \o b)[i]]
  BY <1>4, <1>5 DEF IsList
<1>8. p = a \o b
  BY <1>6, <1>7
<1> QED
  BY <1>8 DEF a, b, n

-----------------------------------------------------------------------------
(* Lists of objects that are told apart by their ids.                      *)
IdsDiffer(list) == \A i, j \in 1 .. Len(list) : list[i].id = list[j].id => i = j

LEMMA PickedIdsDiffer ==
  ASSUME NEW list, IsList(list), IdsDiffer(list), NEW places
  PROVE  IdsDiffer(Picked(list, places))
<1> DEFINE some == Picked(list, places)
<1>1. PICK at : HowPicked(list, places, Len(list), some, at)
  BY PickedProperties
<1>2. Len(some) \in Nat /\ Len(list) \in Nat
  BY PickedProperties, ListIsSeq
<1> HIDE DEF some
<1>3. \A k \in 1 .. Len(some) : at[k] \in 1 .. Len(list) /\ some[k] = list[at[k]]
  BY <1>1 DEF HowPicked
<1>4. ASSUME NEW i \in 1 .. Len(some), NEW j \in 1 .. Len(some), some[i].id = some[j].id, i # j
      PROVE  FALSE
  <2>1. at[i] = at[j]
    BY <1>3, <1>4 DEF IdsDiffer
  <2>2. at[i] \in Nat /\ (i < j \/ j < i)
    BY <1>2, <1>3, <1>4
  <2>3. at[i] < at[j] \/ at[j] < at[i]
    BY <1>1, <2>2 DEF HowPicked
  <2> QED
    BY <2>1, <2>2, <2>3
<1>5. IdsDiffer(some)
  BY <1>4 DEF IdsDiffer
<1> QED
  BY <1>5 DEF some

-----------------------------------------------------------------------------
(* How often something comes up: the places it is at in a list, and in     *)
(* lists, compared by bijections.                                          *)
Occurs(list, x) == {i \in 1 .. Len(list) : list[i] = x}
Spots(lists, x) ==
    {s \in (1 .. Len(lists)) \X Nat : s[2] \in 1 .. Len(lists[s[1]]) /\ lists[s[1]][s[2]] = x}

LEMMA OneToOne ==
  ASSUME NEW S, NEW T, NEW f \in [S -> T], \A a, b \in S : f[a] = f[b] => a = b,
         \A t \in T : \E s \in S : f[s] = t
  PROVE  ExistsBijection(S, T)
<1>1. f \in Injection(S, T)
  BY DEF Injection, IsInjective
<1>2. f \in Surjection(S, T)
  BY DEF Surjection
<1> QED
  BY <1>1, <1>2 DEF ExistsBijection, Bijection

\* What is picked everywhere it is comes up as often in what is picked.
LEMMA PickedAsOften ==
  ASSUME NEW list, IsList(list), NEW places, NEW x, Occurs(list, x) \subseteq places
  PROVE  ExistsBijection(Occurs(Picked(list, places), x), Occurs(list, x))
<1> DEFINE p == Picked(list, places)
           S == Occurs(p, x)
           T == Occurs(list, x)
<1>1. PICK at : HowPicked(list, places, Len(list), p, at)
  BY PickedProperties
<1>2. Len(p) \in Nat /\ Len(list) \in Nat
  BY PickedProperties, ListIsSeq
<1> HIDE DEF p
<1>3. \A k \in 1 .. Len(p) : at[k] \in 1 .. Len(list) /\ p[k] = list[at[k]]
  BY <1>1 DEF HowPicked
<1>4. \A j, k \in 1 .. Len(p) : at[j] = at[k] => j = k
  BY <1>1, <1>2, <1>3 DEF HowPicked
<1> DEFINE f == [k \in S |-> at[k]]
<1>5. f \in [S -> T]
  BY <1>3 DEF Occurs
<1>6. \A a, b \in S : f[a] = f[b] => a = b
  BY <1>4 DEF Occurs
<1>7. \A t \in T : \E s \in S : f[s] = t
  BY <1>1, <1>3 DEF Occurs, HowPicked
<1> HIDE DEF f, S, T
<1>8. ExistsBijection(S, T)
  BY <1>5, <1>6, <1>7, OneToOne
<1> QED
  BY <1>8 DEF S, T, p

\* Lists of which each has it as often have it as often all together.
LEMMA EachAsOften ==
  ASSUME NEW a, NEW b, NEW n \in Nat, Len(a) = n, Len(b) = n, NEW x,
         \A i \in 1 .. n : IsList(a[i]) /\ IsList(b[i]),
         \A i \in 1 .. n : ExistsBijection(Occurs(a[i], x), Occurs(b[i], x))
  PROVE  ExistsBijection(Spots(a, x), Spots(b, x))
<1> DEFINE S == Spots(a, x)
           T == Spots(b, x)
           g(i) == CHOOSE h : h \in Bijection(Occurs(a[i], x), Occurs(b[i], x))
           f == [s \in S |-> <<s[1], g(s[1])[s[2]]>>]
<1>1. \A i \in 1 .. n : g(i) \in Bijection(Occurs(a[i], x), Occurs(b[i], x))
  BY DEF ExistsBijection
<1> HIDE DEF g
<1>2. \A s : s \in S <=> \E i \in 1 .. n : \E k \in Occurs(a[i], x) : s = <<i, k>>
  BY DEF Spots, Occurs
<1>3. \A t : t \in T <=> \E i \in 1 .. n : \E k \in Occurs(b[i], x) : t = <<i, k>>
  BY DEF Spots, Occurs
<1>4. ASSUME NEW i \in 1 .. n
      PROVE  /\ \A k \in Occurs(a[i], x) : g(i)[k] \in Occurs(b[i], x)
             /\ \A j, k \in Occurs(a[i], x) : g(i)[j] = g(i)[k] => j = k
             /\ \A m \in Occurs(b[i], x) : \E k \in Occurs(a[i], x) : g(i)[k] = m
  BY <1>1 DEF Bijection, Injection, Surjection, IsInjective
<1> HIDE DEF S, T
<1>5. ASSUME NEW s \in S PROVE f[s] \in T
  <2>1. PICK i \in 1 .. n : \E k \in Occurs(a[i], x) : s = <<i, k>>
    BY <1>2
  <2>2. PICK k \in Occurs(a[i], x) : s = <<i, k>>
    BY <2>1
  <2>3. f[s] = <<i, g(i)[k]>>
    BY <2>2
  <2> QED
    BY <2>3, <1>3, <1>4
<1>6. ASSUME NEW s \in S, NEW t \in S, f[s] = f[t] PROVE s = t
  <2>1. PICK i \in 1 .. n : \E k \in Occurs(a[i], x) : s = <<i, k>>
    BY <1>2
  <2>2. PICK k \in Occurs(a[i], x) : s = <<i, k>>
    BY <2>1
  <2>3. PICK j \in 1 .. n : \E m \in Occurs(a[j], x) : t = <<j, m>>
    BY <1>2
  <2>4. PICK m \in Occurs(a[j], x) : t = <<j, m>>
    BY <2>3
  <2>5. f[s] = <<i, g(i)[k]>> /\ f[t] = <<j, g(j)[m]>>
    BY <2>2, <2>4
  <2>6. i = j /\ g(i)[k] = g(i)[m]
    BY <1>6, <2>5
  <2> QED
    BY <2>2, <2>4, <2>6, <1>4
<1>7. ASSUME NEW t \in T PROVE \E s \in S : f[s] = t
  <2>1. PICK i \in 1 .. n : \E k \in Occurs(b[i], x) : t = <<i, k>>
    BY <1>3
  <2>2. PICK m \in Occurs(b[i], x) : t = <<i, m>>
    BY <2>1
  <2>3. PICK k \in Occurs(a[i], x) : g(i)[k] = m
    BY <1>4
  <2>4. <<i, k>> \in S
    BY <1>2
  <2> QED
    BY <2>2, <2>3, <2>4
<1>8. f \in [S -> T]
  BY <1>5
<1> HIDE DEF f
<1>9. ExistsBijection(S, T)
  BY <1>6, <1>7, <1>8, OneToOne
<1> QED
  BY <1>9 DEF S, T

\* Lists chosen among others, none that has it left out, have it as often.
LEMMA ChosenAsOften ==
  ASSUME NEW lists, Len(lists) \in Nat, NEW some, Len(some) \in Nat, NEW at, NEW x,
         \A k \in 1 .. Len(some) : at[k] \in 1 .. Len(lists) /\ some[k] = lists[at[k]],
         \A j, k \in 1 .. Len(some) : at[j] = at[k] => j = k,
         \A i \in 1 .. Len(lists) :
             Occurs(lists[i], x) # {} => \E k \in 1 .. Len(some) : at[k] = i,
         \A i \in 1 .. Len(lists) : IsList(lists[i])
  PROVE  ExistsBijection(Spots(some, x), Spots(lists, x))
<1> DEFINE S == Spots(some, x)
           T == Spots(lists, x)
           f == [s \in S |-> <<at[s[1]], s[2]>>]
<1>1. \A s : s \in S <=> \E i \in 1 .. Len(some) : \E k \in Occurs(some[i], x) : s = <<i, k>>
  <2>1. \A i \in 1 .. Len(some) : Occurs(some[i], x) \subseteq Nat
    BY ListIsSeq DEF Occurs
  <2> QED
    BY <2>1 DEF Spots, Occurs
<1>2. \A t : t \in T <=> \E i \in 1 .. Len(lists) : \E k \in Occurs(lists[i], x) : t = <<i, k>>
  <2>1. \A i \in 1 .. Len(lists) : Occurs(lists[i], x) \subseteq Nat
    BY ListIsSeq DEF Occurs
  <2> QED
    BY <2>1 DEF Spots, Occurs
<1> HIDE DEF S, T
<1>3. ASSUME NEW s \in S PROVE f[s] \in T
  <2>1. PICK i \in 1 .. Len(some) : \E k \in Occurs(some[i], x) : s = <<i, k>>
    BY <1>1
  <2>2. PICK k \in Occurs(some[i], x) : s = <<i, k>>
    BY <2>1
  <2>3. f[s] = <<at[i], k>> /\ k \in Occurs(lists[at[i]], x)
    BY <2>2
  <2> QED
    BY <2>3, <1>2
<1>4. ASSUME NEW s \in S, NEW t \in S, f[s] = f[t] PROVE s = t
  <2>1. PICK i \in 1 .. Len(some) : \E k \in Occurs(some[i], x) : s = <<i, k>>
    BY <1>1
  <2>2. PICK k \in Occurs(some[i], x) : s = <<i, k>>
    BY <2>1
  <2>3. PICK j \in 1 .. Len(some) : \E m \in Occurs(some[j], x) : t = <<j, m>>
    BY <1>1
  <2>4. PICK m \in Occurs(some[j], x) : t = <<j, m>>
    BY <2>3
  <2>5. f[s] = <<at[i], k>> /\ f[t] = <<at[j], m>>
    BY <2>2, <2>4
  <2>6. at[i] = at[j] /\ k = m
    BY <1>4, <2>5
  <2> QED
    BY <2>2, <2>4, <2>6
<1>5. ASSUME NEW t \in T PROVE \E s \in S : f[s] = t
  <2>1. PICK i \in 1 .. Len(lists) : \E k \in Occurs(lists[i], x) : t = <<i, k>>
    BY <1>2
  <2>2. PICK k \in Occurs(lists[i], x) : t = <<i, k>>
    BY <2>1
  <2>3. PICK m \in 1 .. Len(some) : at[m] = i
    BY <2>2
  <2>4. <<m, k>> \in S
    BY <1>1, <2>2, <2>3
  <2> QED
    BY <2>2, <2>3, <2>4
<1>6. f \in [S -> T]
  BY <1>3
<1> HIDE DEF f
<1>7. ExistsBijection(S, T)
  BY <1>4, <1>5, <1>6, OneToOne
<1> QED
  BY <1>7 DEF S, T

\* Two lists one after the other have it where each has it.
LEMMA ConcatOccurs ==
  ASSUME NEW a, NEW b, IsList(a), IsList(b), NEW x
  PROVE  Occurs(a \o b, x) = Occurs(a, x) \cup {Len(a) + i : i \in Occurs(b, x)}
<1> DEFINE S == Members(a) \cup Members(b)
<1>1. a \in Seq(S) /\ b \in Seq(S)
  <2>1. a \in Seq(Members(a)) /\ b \in Seq(Members(b))
    BY ListIsSeq
  <2> QED
    BY <2>1
<1>2. Len(a) \in Nat /\ Len(b) \in Nat
  BY ListIsSeq
<1> HIDE DEF S
<1>3. /\ Len(a \o b) = Len(a) + Len(b)
      /\ \A i \in 1 .. Len(a) + Len(b) :
            (a \o b)[i] = IF i <= Len(a) THEN a[i] ELSE b[i - Len(a)]
  BY <1>1, ConcatProperties
<1>4. ASSUME NEW i \in Occurs(a \o b, x)
      PROVE  i \in Occurs(a, x) \cup {Len(a) + k : k \in Occurs(b, x)}
  <2>1. i \in 1 .. Len(a) + Len(b) /\ (a \o b)[i] = x
    BY <1>3, <1>4 DEF Occurs
  <2>2. CASE i <= Len(a)
    BY <1>2, <1>3, <2>1, <2>2 DEF Occurs
  <2>3. CASE ~(i <= Len(a))
    <3>1. i - Len(a) \in Occurs(b, x) /\ i = Len(a) + (i - Len(a))
      BY <1>2, <1>3, <2>1, <2>3 DEF Occurs
    <3> QED
      BY <3>1
  <2> QED
    BY <2>2, <2>3
<1>5. Occurs(a, x) \subseteq Occurs(a \o b, x)
  BY <1>2, <1>3 DEF Occurs
<1>6. ASSUME NEW k \in Occurs(b, x) PROVE Len(a) + k \in Occurs(a \o b, x)
  <2>1. k \in 1 .. Len(b) /\ b[k] = x
    BY <1>6 DEF Occurs
  <2>2. Len(a) + k \in 1 .. Len(a) + Len(b) /\ ~(Len(a) + k <= Len(a)) /\ (Len(a) + k) - Len(a) = k
    BY <1>2, <2>1
  <2>3. (a \o b)[Len(a) + k] = x
    BY <1>3, <2>1, <2>2
  <2> QED
    BY <1>3, <2>2, <2>3 DEF Occurs
<1> QED
  BY <1>4, <1>5, <1>6

LEMMA BothOneToOne ==
  ASSUME NEW A, NEW B, NEW C, NEW D, ExistsBijection(A, B), ExistsBijection(C, D),
         A \cap C = {}, B \cap D = {}
  PROVE  ExistsBijection(A \cup C, B \cup D)
<1>1. PICK g : g \in Bijection(A, B)
  BY DEF ExistsBijection
<1>2. PICK h : h \in Bijection(C, D)
  BY DEF ExistsBijection
<1>3. /\ \A a \in A : g[a] \in B
      /\ \A a, b \in A : g[a] = g[b] => a = b
      /\ \A b \in B : \E a \in A : g[a] = b
  BY <1>1 DEF Bijection, Injection, Surjection, IsInjective
<1>4. /\ \A c \in C : h[c] \in D
      /\ \A a, b \in C : h[a] = h[b] => a = b
      /\ \A d \in D : \E c \in C : h[c] = d
  BY <1>2 DEF Bijection, Injection, Surjection, IsInjective
<1> DEFINE f == [s \in A \cup C |-> IF s \in A THEN g[s] ELSE h[s]]
<1>5. f \in [A \cup C -> B \cup D]
  BY <1>3, <1>4
<1>6. \A a, b \in A \cup C : f[a] = f[b] => a = b
  BY <1>3, <1>4
<1>7. \A t \in B \cup D : \E s \in A \cup C : f[s] = t
  BY <1>3, <1>4
<1> HIDE DEF f
<1> QED
  BY <1>5, <1>6, <1>7, OneToOne

\* Lists joined have it as often as they have it all together.
LEMMA JoinedAsOften ==
  ASSUME NEW lists, IsList(lists), \A i \in 1 .. Len(lists) : IsList(lists[i]), NEW x
  PROVE  ExistsBijection(Occurs(Joined(lists), x), Spots(lists, x))
<1> DEFINE f == CHOOSE g : JoinedTo(lists, Len(lists), g)
           Upto(m) == {s \in Spots(lists, x) : s[1] <= m}
<1>1. Len(lists) \in Nat
  BY ListIsSeq
<1>2. JoinedTo(lists, Len(lists), f)
  BY <1>1, JoinedExists
<1>3. Joined(lists) = f[Len(lists)]
  BY DEF Joined, JoinedTo, JoinStep
<1> HIDE DEF f
<1>4. \A i \in 0 .. Len(lists) : f[i] = JoinStep(lists, f, i)
  BY <1>2 DEF JoinedTo
<1> DEFINE Good(m) == IsList(f[m]) /\ ExistsBijection(Occurs(f[m], x), Upto(m))
           Bad == {m \in 0 .. Len(lists) : ~Good(m)}
<1>5. Good(0)
  <2>1. f[0] = <<>> /\ IsList(<<>>) /\ Len(<<>>) = 0
    <3>1. f[0] = <<>>
      BY <1>1, <1>4 DEF JoinStep
    <3>2. <<>> \in Seq({}) /\ Len(<<>>) = 0
      OBVIOUS
    <3> QED
      BY <3>1, <3>2, SeqIsList
  <2>2. Occurs(f[0], x) = {} /\ Upto(0) = {}
    BY <2>1, <1>1 DEF Occurs, Spots
  <2>3. ExistsBijection(Occurs(f[0], x), Upto(0))
    BY <2>2, Fun_ExistsBijReflexive
  <2> QED
    BY <2>1, <2>3
<1>6. ASSUME NEW m \in Bad PROVE \E l \in Bad : l < m
  <2>1. m # 0
    BY <1>5
  <2>2. m - 1 \in 0 .. Len(lists) /\ m \in 1 .. Len(lists) /\ m - 1 < m
    BY <2>1, <1>1
  <2>3. f[m] = f[m - 1] \o lists[m]
    BY <2>1, <1>4 DEF JoinStep
  <2>4. SUFFICES ASSUME Good(m - 1) PROVE Good(m)
    BY <2>2
  <2> DEFINE l == Len(f[m - 1])
             A == Occurs(f[m - 1], x)
             C == {l + i : i \in Occurs(lists[m], x)}
             D == {<<m, i>> : i \in Occurs(lists[m], x)}
  <2>5. l \in Nat /\ Len(lists[m]) \in Nat
    BY <2>2, <2>4, ListIsSeq
  <2>6. Occurs(f[m], x) = A \cup C /\ IsList(f[m])
    BY <2>2, <2>3, <2>4, ConcatOccurs, ConcatIsList
  <2>7. A \cap C = {}
    BY <2>5 DEF Occurs
  <2>8. Upto(m) = Upto(m - 1) \cup D
    <3>1. ASSUME NEW s \in Upto(m) PROVE s \in Upto(m - 1) \cup D
      <4>1. /\ s[1] \in 1 .. Len(lists) /\ s = <<s[1], s[2]>> /\ s[1] <= m
            /\ s[2] \in Occurs(lists[s[1]], x)
        BY DEF Spots, Occurs
      <4>2. s[1] <= m - 1 \/ s[1] = m
        BY <2>2, <4>1
      <4> QED
        BY <4>1, <4>2
    <3>2. Upto(m - 1) \subseteq Upto(m)
      BY <1>1, <2>2 DEF Spots
    <3>3. D \subseteq Upto(m)
      BY <2>2, <2>5, <1>1 DEF Spots, Occurs
    <3> QED
      BY <3>1, <3>2, <3>3
  <2>9. Upto(m - 1) \cap D = {}
    BY <2>2, <1>1
  <2>10. ExistsBijection(C, D)
    <3> DEFINE g == [c \in C |-> <<m, c - l>>]
    <3>1. \A i \in Occurs(lists[m], x) : i \in Int /\ (l + i) - l = i
      BY <2>5 DEF Occurs
    <3>2. g \in [C -> D]
      BY <3>1
    <3>3. \A a, b \in C : g[a] = g[b] => a = b
      BY <3>1
    <3>4. \A d \in D : \E c \in C : g[c] = d
      BY <3>1
    <3> HIDE DEF g, C, D
    <3> QED
      BY <3>2, <3>3, <3>4, OneToOne
  <2> HIDE DEF C, D, A, Upto
  <2>11. ExistsBijection(A \cup C, Upto(m - 1) \cup D)
    BY <2>4, <2>7, <2>9, <2>10, BothOneToOne DEF A
  <2> QED
    BY <2>6, <2>8, <2>11
<1>7. Bad \subseteq Nat
  BY <1>1
<1> HIDE DEF Bad
<1>8. Bad = {}
  BY <1>6, <1>7, NoneLeast
<1> HIDE DEF Good
<1>9. Good(Len(lists))
  BY <1>1, <1>8 DEF Bad
<1>10. Upto(Len(lists)) = Spots(lists, x)
  BY <1>1 DEF Spots
<1> QED
  BY <1>3, <1>9, <1>10 DEF Good

\* What a bijection goes to is as much.
LEMMA AsOften ==
  ASSUME NEW a, NEW b, IsList(b), NEW x, ExistsBijection(Occurs(a, x), Occurs(b, x))
  PROVE  Cardinality(Occurs(a, x)) = Cardinality(Occurs(b, x))
<1>1. IsFiniteSet(Occurs(b, x))
  <2>1. IsFiniteSet(1 .. Len(b))
    BY ListIsSeq, FS_Interval
  <2> QED
    BY <2>1, FS_Subset DEF Occurs
<1>2. ExistsBijection(Occurs(b, x), Occurs(a, x))
  BY Fun_ExistsBijSymmetric
<1> QED
  BY <1>1, <1>2, FS_Bijection

\* A list split into parts, every place where it is in one of them, has it as
\* often as the parts all together.
LEMMA SplitAsOften ==
  ASSUME NEW list, IsList(list), NEW x, NEW parts, NEW places, Len(parts) \in Nat,
         \A n \in 1 .. Len(parts) : parts[n] = Picked(list, places[n]),
         \A i \in Occurs(list, x) : \E n \in 1 .. Len(parts) : i \in places[n],
         \A i \in Occurs(list, x) : \A m, n \in 1 .. Len(parts) :
             i \in places[m] /\ i \in places[n] => m = n
  PROVE  ExistsBijection(Spots(parts, x), Occurs(list, x))
<1> DEFINE S == Spots(parts, x)
           T == Occurs(list, x)
           at(n) == CHOOSE a : HowPicked(list, places[n], Len(list), parts[n], a)
           f == [s \in S |-> at(s[1])[s[2]]]
<1>1. ASSUME NEW n \in 1 .. Len(parts)
      PROVE  HowPicked(list, places[n], Len(list), parts[n], at(n)) /\ Len(parts[n]) \in Nat
  <2>1. parts[n] = Picked(list, places[n])
    OBVIOUS
  <2>2. \E a : HowPicked(list, places[n], Len(list), parts[n], a)
    BY <2>1, PickedProperties
  <2>3. IsList(parts[n])
    BY <2>1, PickedProperties
  <2> QED
    BY <2>2, <2>3, ListIsSeq
<1> HIDE DEF at
<1>2. \A s : s \in S <=> \E n \in 1 .. Len(parts) : \E k \in Occurs(parts[n], x) : s = <<n, k>>
  <2>1. \A n \in 1 .. Len(parts) : Occurs(parts[n], x) \subseteq Nat
    BY <1>1 DEF Occurs
  <2> QED
    BY <2>1 DEF Spots, Occurs
<1>3. ASSUME NEW n \in 1 .. Len(parts), NEW k \in Occurs(parts[n], x)
      PROVE  at(n)[k] \in T /\ at(n)[k] \in places[n]
  BY <1>1 DEF HowPicked, Occurs
<1>4. ASSUME NEW n \in 1 .. Len(parts), NEW j \in Occurs(parts[n], x), NEW k \in Occurs(parts[n], x),
             at(n)[j] = at(n)[k]
      PROVE  j = k
  <2>1. Len(list) \in Nat /\ Len(parts[n]) \in Nat
    BY <1>1, ListIsSeq
  <2>2. j \in 1 .. Len(parts[n]) /\ k \in 1 .. Len(parts[n])
    BY DEF Occurs
  <2> DEFINE p == parts[n]
             a == at(n)
  <2>3. a[j] \in 1 .. Len(list)
    <3>1. HowPicked(list, places[n], Len(list), p, a)
      BY <1>1
    <3> HIDE DEF p, a
    <3> QED
      BY <3>1, <2>2 DEF HowPicked, p
  <2>4. ~(j < k) /\ ~(k < j)
    BY <1>1, <1>4, <2>1, <2>2, <2>3 DEF HowPicked
  <2> QED
    BY <2>1, <2>2, <2>4
<1>5. ASSUME NEW n \in 1 .. Len(parts), NEW i \in T, i \in places[n]
      PROVE  \E k \in Occurs(parts[n], x) : at(n)[k] = i
  <2>1. i \in 1 .. Len(list) /\ list[i] = x
    BY DEF Occurs
  <2>2. PICK k \in 1 .. Len(parts[n]) : at(n)[k] = i
    BY <1>1, <1>5, <2>1 DEF HowPicked
  <2>3. parts[n][k] = list[i]
    BY <1>1, <2>2 DEF HowPicked
  <2> QED
    BY <2>1, <2>2, <2>3 DEF Occurs
<1> HIDE DEF S, T
<1>6. ASSUME NEW s \in S PROVE f[s] \in T
  <2>1. PICK n \in 1 .. Len(parts) : \E k \in Occurs(parts[n], x) : s = <<n, k>>
    BY <1>2
  <2>2. PICK k \in Occurs(parts[n], x) : s = <<n, k>>
    BY <2>1
  <2> QED
    BY <2>2, <1>3
<1>7. ASSUME NEW s \in S, NEW t \in S, f[s] = f[t] PROVE s = t
  <2>1. PICK n \in 1 .. Len(parts) : \E k \in Occurs(parts[n], x) : s = <<n, k>>
    BY <1>2
  <2>2. PICK k \in Occurs(parts[n], x) : s = <<n, k>>
    BY <2>1
  <2>3. PICK m \in 1 .. Len(parts) : \E k1 \in Occurs(parts[m], x) : t = <<m, k1>>
    BY <1>2
  <2>4. PICK j \in Occurs(parts[m], x) : t = <<m, j>>
    BY <2>3
  <2>5. f[s] = at(n)[k] /\ f[t] = at(m)[j]
    BY <2>2, <2>4
  <2>6. at(n)[k] = at(m)[j]
    BY <1>7, <2>5
  <2>7. n = m
    BY <1>3, <2>6 DEF T
  <2> QED
    BY <1>4, <2>2, <2>4, <2>6, <2>7
<1>8. ASSUME NEW t \in T PROVE \E s \in S : f[s] = t
  <2>1. PICK n \in 1 .. Len(parts) : t \in places[n]
    BY DEF T
  <2>2. PICK k \in Occurs(parts[n], x) : at(n)[k] = t
    BY <1>5, <2>1
  <2>3. <<n, k>> \in S
    BY <1>2
  <2> QED
    BY <2>2, <2>3
<1>9. f \in [S -> T]
  BY <1>6
<1> HIDE DEF f
<1>10. ExistsBijection(S, T)
  BY <1>7, <1>8, <1>9, OneToOne
<1> QED
  BY <1>10 DEF S, T

\* What is picked of some lists, none that has it left out, has it as often.
LEMMA PickedListsAsOften ==
  ASSUME NEW lists, IsList(lists), \A i \in 1 .. Len(lists) : IsList(lists[i]), NEW places, NEW x,
         \A i \in 1 .. Len(lists) : Occurs(lists[i], x) # {} => i \in places
  PROVE  ExistsBijection(Spots(Picked(lists, places), x), Spots(lists, x))
<1> DEFINE some == Picked(lists, places)
<1>1. PICK at : HowPicked(lists, places, Len(lists), some, at)
  BY PickedProperties
<1>2. Len(some) \in Nat /\ Len(lists) \in Nat
  BY PickedProperties, ListIsSeq
<1> HIDE DEF some
<1>3. \A k \in 1 .. Len(some) : at[k] \in 1 .. Len(lists) /\ some[k] = lists[at[k]]
  BY <1>1 DEF HowPicked
<1>4. \A j, k \in 1 .. Len(some) : at[j] = at[k] => j = k
  BY <1>1, <1>2, <1>3 DEF HowPicked
<1>5. \A i \in 1 .. Len(lists) : Occurs(lists[i], x) # {} => \E k \in 1 .. Len(some) : at[k] = i
  BY <1>1 DEF HowPicked
<1>6. ExistsBijection(Spots(some, x), Spots(lists, x))
  BY <1>2, <1>3, <1>4, <1>5, ChosenAsOften
<1> QED
  BY <1>6 DEF some
=============================================================================
