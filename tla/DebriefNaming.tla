---------------------------- MODULE DebriefNaming ----------------------------
(***************************************************************************)
(* What the names of the ads say as a convention (modules/debrief/         *)
(* namingPatterns.ts and its readers in memo.ts): the table of the values  *)
(* of each key, and the pair of values a controlled test would compare.    *)
(*                                                                         *)
(* An ad also has tokens, the [KEY]VALUE pairs of its name as a function,  *)
(* and parts, the "_" parts of its name.  Of the keys a name can carry     *)
(* those that are read first are kept, and two of the others.              *)
(***************************************************************************)
EXTENDS DebriefExtract

CONSTANTS
    NamingPct,        \* NAMING_MIN_SHARE, in percent
    NamingSpendPct,   \* NAMING_MIN_JUDGED_SPEND_SHARE, in percent
    NamingGates,      \* NAMING_MIN_GATE_MULTIPLE
    NamingAds,        \* NAMING_MIN_ADS_PER_VALUE
    MaxValues,        \* MAX_VALUES_PER_KEY
    MaxKeys,          \* MAX_KEYS
    MinParts,         \* MIN_SEGMENTS
    ContrastMin       \* CONTRAST_MIN_OUTCOMES

ASSUME NamingConstants ==
    {NamingPct, NamingSpendPct, NamingGates, NamingAds, MaxValues, MaxKeys, MinParts,
     ContrastMin} \subseteq Nat \ {0}

\* Keys read whenever they are there, then the others, in order.
PreferredKeys == <<"FOR", "AN", "HK", "STG">>
OtherKeys == <<"CN", "PL">>
CreativeKeys == {"FOR", "AN", "HK", "CN"}

----------------------------------------------------------------------------
(* What each ad is labelled with *)

Tokened(a, S) == {i \in S : a.ads[i].tokens # <<>>}

\* The "_" layout most judged ads have, the first seen among equals.
Layout(a) ==
    LET parts(i) == Len(a.ads[i].parts)
        Of(i) == Cardinality({j \in a.judged : parts(j) = parts(i)})
        first == CHOOSE i \in a.judged : \A j \in a.judged : Of(i) > Of(j) \/ (Of(i) = Of(j) /\ i <= j)
    IN  [parts |-> parts(first), ads |-> Of(first)]

\* Tokens count when enough ads have them, or enough of the judged spend; the
\* layout when enough judged ads share it.
NamingBasis(a) ==
    CASE a.judged = {} -> Null
      [] /\ a.judged # {}
         /\ \/ 100 * Cardinality(Tokened(a, DOMAIN a.ads)) >= NamingPct * Len(a.ads)
            \/ 100 * TotalSpend(a.ads, Tokened(a, a.judged)) >= NamingSpendPct * a.judgedSpend
               /\ a.judgedSpend > 0 -> "tokens"
      [] OTHER -> IF /\ Layout(a).parts >= MinParts
                     /\ 100 * Layout(a).ads >= NamingPct * Cardinality(a.judged)
                  THEN "parts" ELSE Null

Labels(a, basis) ==
    [i \in DOMAIN a.ads |->
        CASE basis = "tokens" -> a.ads[i].tokens
          [] basis = "parts" /\ Len(a.ads[i].parts) = Layout(a).parts -> a.ads[i].parts
          [] OTHER -> <<>>]

Labelled(labels, k) == {i \in DOMAIN labels : k \in DOMAIN labels[i]}

\* The keys in the order they are read: few values, and either preferred or
\* on enough of the labelled ads.
KeysFor(a, basis, labels) ==
    LET some == {i \in DOMAIN labels : labels[i] # <<>>}
        Varied(k) == Cardinality({labels[i][k] : i \in Labelled(labels, k)}) \in 2..MaxValues
        Common(k) == 100 * Cardinality(Labelled(labels, k)) >= NamingPct * Cardinality(some)
    IN  IF basis = "tokens"
        THEN SelectSeq(PreferredKeys, Varied)
             \o SelectSeq(OtherKeys, LAMBDA k : Varied(k) /\ Common(k))
        ELSE SelectSeq([k \in 1..Layout(a).parts |-> k], LAMBDA k : Varied(k) /\ Common(k))

----------------------------------------------------------------------------
(* The table *)

\* The result of a group of ads as [num, den]; Null when none is covered.
GroupValue(a, S) ==
    LET total == AccountKpi([i \in S |-> a.ads[i]], a.kpi)
        counted == a.kpi \in {"purchases", "leads"}
    IN  IF total.covered = {} \/ (~counted /\ total.den <= 0) THEN Null
        ELSE [num |-> total.num, den |-> IF counted THEN 1 ELSE total.den]

BetterValue(kpi, x, y) ==
    IF HigherIsBetter(kpi) THEN x.num * y.den > y.num * x.den ELSE x.num * y.den < y.num * x.den

\* What every ad with a key has in common with those of its value.
ValueRow(a, label, S) ==
    [label    |-> label,
     ads      |-> S,
     value    |-> GroupValue(a, S),
     outcomes |-> SumOrNull(LAMBDA j : a.ads[j].conv, S)]
ValueRows(a, labels, k) ==
    [i \in Labelled(labels, k) |->
        ValueRow(a, labels[i][k], {j \in Labelled(labels, k) : labels[j][k] = labels[i][k]})]

\* The values of a key with enough ads and spend, set-aside ads included, the
\* best first and those without a result last.
KeyRows(a, labels, k) ==
    LET Before(x, y, tie) ==
            CASE x.value = Null \/ y.value = Null -> x.value # Null \/ (y.value = Null /\ tie)
              [] OTHER -> \/ BetterValue(a.kpi, x.value, y.value)
                          \/ ~BetterValue(a.kpi, y.value, x.value) /\ tie
        Listed(row, i) == /\ i = Min(row[i].ads)
                          /\ Cardinality(row[i].ads) >= NamingAds
                          /\ ClearsBar(TotalSpend(a.ads, row[i].ads),
                                       [a.gate EXCEPT !.num = NamingGates * @])
        Order(row) == Sorted({i \in DOMAIN row : Listed(row, i)},
                             LAMBDA i, j : Before(row[i], row[j], i < j))
        Placed(row, order) == [n \in DOMAIN order |-> row[order[n]]]
        Table(row) == Placed(row, Order(row))
    IN  Table(ValueRows(a, labels, k))

KeyTables(a, labels, keys) ==
    [n \in DOMAIN keys |-> [key |-> keys[n], rows |-> KeyRows(a, labels, keys[n])]]

\* Null unless the names follow a convention that a key has two values of.
NamingPatterns(a) ==
    LET Telling(tables) == Upto(SelectSeq(tables, LAMBDA t : Len(t.rows) >= 2), MaxKeys)
        Found(basis, keys) == IF keys = <<>> THEN Null ELSE [basis |-> basis, keys |-> keys]
        Tables(basis, labels) == KeyTables(a, labels, KeysFor(a, basis, labels))
    IN  IF NamingBasis(a) = Null THEN Null
        ELSE Found(NamingBasis(a), Telling(Tables(NamingBasis(a), Labels(a, NamingBasis(a)))))

----------------------------------------------------------------------------
(* What is read from it *)

\* How much better the best row is than the worst, as a quotient.
RowGap(kpi, best, worst) ==
    LET b == best.num * worst.den
        w == worst.num * best.den
    IN  IF HigherIsBetter(kpi) THEN [num |-> IF w > 0 THEN b - w ELSE 0, den |-> Max({w, 1})]
        ELSE [num |-> IF b > 0 THEN w - b ELSE 0, den |-> Max({b, 1})]

\* The creative key whose best and worst value, each with enough outcomes, are
\* the furthest apart; Null without one.
NamingContrast(a) ==
    LET Solid(rows) == SelectSeq(rows, LAMBDA r : /\ r.value # Null /\ r.outcomes # Null
                                                  /\ r.outcomes >= ContrastMin)
        Ends(key, rows) ==
            IF Len(rows) < 2 \/ key \notin CreativeKeys THEN Null
            ELSE [key |-> key, best |-> rows[1], worst |-> rows[Len(rows)],
                  gap |-> RowGap(a.kpi, rows[1].value, rows[Len(rows)].value)]
        Wider(x, y) == x.num * y.den > y.num * x.den
        Widest(pairs, apart) ==
            IF apart = {} THEN Null
            ELSE pairs[CHOOSE n \in apart : \A m \in apart :
                          \/ Wider(pairs[n].gap, pairs[m].gap)
                          \/ ~Wider(pairs[m].gap, pairs[n].gap) /\ n <= m]
        Of(pairs) == Widest(pairs, {n \in DOMAIN pairs : pairs[n] # Null /\ pairs[n].gap.num > 0})
        Read(np) == IF np = Null \/ np.basis # "tokens" THEN Null
                    ELSE Of([n \in DOMAIN np.keys |->
                                Ends(np.keys[n].key, Solid(np.keys[n].rows))])
    IN  Read(NamingPatterns(a))

\* The two formats the client is told of, when their results differ.
NamingClientLine(a) ==
    LET Told(rows) ==
            IF Len(rows) < 2 \/ ~BetterValue(a.kpi, rows[1].value, rows[Len(rows)].value) THEN Null
            ELSE [best |-> rows[1].label, worst |-> rows[Len(rows)].label]
        Of(formats) == IF formats = <<>> THEN Null
                       ELSE Told(SelectSeq(formats[1].rows,
                                           LAMBDA r : r.value # Null /\ r.label # "other"))
        Read(np) == IF np = Null \/ np.basis # "tokens" THEN Null
                    ELSE Of(SelectSeq(np.keys, LAMBDA k : k.key = "FOR"))
    IN  Read(NamingPatterns(a))
=============================================================================
