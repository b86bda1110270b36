--------------------------- MODULE DebriefCompare ---------------------------
(***************************************************************************)
(* What is attached to a report after its decision (modules/debrief/       *)
(* compare.ts, creativeGroups.ts): the comparison with the export of the   *)
(* previous period, and the counts of the groups the user declared.        *)
(*                                                                         *)
(* A period is a record [ads, a, dates]: every ad of its export, their     *)
(* analysis, and its first and last day (Null when the export has none).   *)
(* Ads are named by their place in the current export, or in the previous  *)
(* one where the name says so.                                             *)
(***************************************************************************)
EXTENDS DebriefExtract

CONSTANTS
    MaxDeltaRows,       \* MAX_DELTA_ROWS
    UnchangedBandPct,   \* UNCHANGED_BAND_PCT
    LengthMismatchPct,  \* LENGTH_MISMATCH_PCT
    MinGroupRepetition  \* MIN_GROUP_REPETITION

ASSUME CompareConstants ==
    {MaxDeltaRows, UnchangedBandPct, LengthMismatchPct, MinGroupRepetition} \subseteq Nat \ {0}

----------------------------------------------------------------------------
(* Which ads are the same in both exports *)

HasIds(p) == \E n \in DOMAIN p.ads : p.ads[n].id # Null
MatchBasis(cur, prev) == IF HasIds(cur) /\ HasIds(prev) THEN "ad_id" ELSE "ad_name"
KeyOf(ad, basis) == IF basis = "ad_id" THEN ad.id ELSE ad.name

\* The keys that name one ad: a key that repeats in either export does not.
\* Mutant of UsableKeys: only the current export is searched for repeats.
UsableKeys_currentOnly(cur, prev) ==
    LET basis == MatchBasis(cur, prev)
        Having(p, k) == {n \in DOMAIN p.ads : KeyOf(p.ads[n], basis) = k}
        keys == {KeyOf(cur.ads[n], basis) : n \in DOMAIN cur.ads}
                \cup {KeyOf(prev.ads[n], basis) : n \in DOMAIN prev.ads}
    IN  {k \in keys \ {Null} : Cardinality(Having(cur, k)) <= 1}
UsableKeys(cur, prev) ==
    LET basis == MatchBasis(cur, prev)
        Having(p, k) == {n \in DOMAIN p.ads : KeyOf(p.ads[n], basis) = k}
        keys == {KeyOf(cur.ads[n], basis) : n \in DOMAIN cur.ads}
                \cup {KeyOf(prev.ads[n], basis) : n \in DOMAIN prev.ads}
    IN  {k \in keys \ {Null} : \A p \in {cur, prev} : Cardinality(Having(p, k)) <= 1}

\* The ads of a period that can be matched, and the place of a key in it.
Keyed(p, usable, basis) == {n \in DOMAIN p.ads : KeyOf(p.ads[n], basis) \in usable}
At(p, k, basis) == CHOOSE n \in DOMAIN p.ads : KeyOf(p.ads[n], basis) = k

Matching(cur, prev) ==
    LET Split(basis, usable, both) ==
            LET In(p) == {n \in DOMAIN p.ads : KeyOf(p.ads[n], basis) \in both}
            IN  [basis       |-> basis,
                 usable      |-> usable,
                 both        |-> both,
                 matched     |-> In(cur),
                 appeared    |-> Keyed(cur, usable, basis) \ In(cur),
                 disappeared |-> Keyed(prev, usable, basis) \ In(prev),
                 ambiguous   |-> DOMAIN cur.ads \ Keyed(cur, usable, basis)]
        KeysOf(p, basis) == {KeyOf(p.ads[n], basis) : n \in DOMAIN p.ads}
        By(basis, usable) == Split(basis, usable, usable \cap KeysOf(cur, basis) \cap KeysOf(prev, basis))
    IN  By(MatchBasis(cur, prev), UsableKeys(cur, prev))

\* The judged ads of a period by key: an ad without an outcome has no value
\* to compare and is not among them.
JudgedByKey(p, m) ==
    {n \in p.a.ranked : /\ p.ads[n].value # Null /\ ~p.ads[n].zero
                        /\ KeyOf(p.ads[n], m.basis) \in m.usable}
JudgedKeys(p, m) == {KeyOf(p.ads[n], m.basis) : n \in JudgedByKey(p, m)}

----------------------------------------------------------------------------
(* What moved *)

Partner(n, cur, prev, m) == At(prev, KeyOf(cur.ads[n], m.basis), m.basis)

\* The judged-in-both ads, by what is said of each.  A movement from zero has
\* no percentage but keeps its direction.
Movement(n, cur, prev, m) ==
    LET p == prev.ads[Partner(n, cur, prev, m)].value
        c == cur.ads[n].value
        better == IF HigherIsBetter(cur.a.kpi) THEN c > p ELSE c < p
    IN  IF p # 0 /\ 100 * Magnitude(c - p) < UnchangedBandPct * Magnitude(p) THEN "unchanged"
        ELSE IF better THEN "improved" ELSE "declined"

\* Largest move first; those without a percentage last.
MovementRows(S, cur, prev, m) ==
    LET Row(p, v) == [from |-> Magnitude(p), move |-> Magnitude(v - p)]
        Larger(x, y, tie) ==
            \/ x.from # 0 /\ y.from = 0
            \/ /\ x.from # 0 /\ y.from # 0
               /\ \/ x.move * y.from > y.move * x.from
                  \/ x.move * y.from = y.move * x.from /\ tie
            \/ x.from = 0 /\ y.from = 0 /\ tie
        Order(row) == Sorted(S, LAMBDA i, j : Larger(row[i], row[j], i < j))
    IN  Upto(Order([n \in S |-> Row(prev.ads[Partner(n, cur, prev, m)].value, cur.ads[n].value)]),
             MaxDeltaRows)

MedianMovement(cur, prev) ==
    LET p == prev.a.median2
        c == cur.a.median2
    IN  CASE p = Null \/ c = Null -> "no_benchmark"
          [] p # Null /\ c # Null /\ (p = 0 \/ p = c) -> "unchanged"
          [] OTHER -> IF HigherIsBetter(cur.a.kpi) = (c > p) THEN "better" ELSE "worse"

----------------------------------------------------------------------------
(* What is said of the leaders *)

\* Where a leader of last period stands now.
Persistence(w, cur, prev, m) ==
    LET k == KeyOf(prev.ads[w], m.basis)
        n == At(cur, k, m.basis)
    IN  CASE k \notin m.usable -> Null
          [] k \in m.usable /\ k \in JudgedKeys(cur, m) -> Side(cur.a, n)
          [] OTHER -> IF k \in m.both THEN "under_the_minimum" ELSE "gone"

LeaderConsistency(cur, prev, m) ==
    LET top == First(cur.a.winners)
        k == KeyOf(cur.ads[top], m.basis)
    IN  IF top = Null THEN Null
        ELSE CASE k \notin m.both -> "not_matched"
               [] k \in m.both /\ k \notin JudgedKeys(prev, m) -> "not_judged_previously"
               [] OTHER -> IF Side(prev.a, At(prev, k, m.basis)) = "above"
                           THEN "led_both" ELSE "lead_is_new"

\* What the reader is warned about the two exports.
PeriodLimits(cur, prev) ==
    LET p == prev.dates
        c == cur.dates
        days(d) == d.end - d.start + 1
    IN  IF p = Null \/ c = Null THEN {"no_dates"}
        ELSE (IF p.start > c.start THEN {"wrong_slots"}
              ELSE IF p.end >= c.start THEN {"overlap"} ELSE {})
             \cup (IF 100 * Magnitude(days(p) - days(c)) > LengthMismatchPct * Max({days(p), days(c)})
                   THEN {"lengths_differ"} ELSE {})

\* What is said of the ads judged in both, and in one only.
WhatMoved(cur, prev, m, judged, oneOnly) ==
    LET Moved(how) == {n \in judged : Movement(n, cur, prev, m) = how}
    IN  [basis       |-> m.basis,
         matched     |-> m.matched,
         appeared    |-> m.appeared,
         disappeared |-> m.disappeared,
         ambiguous   |-> m.ambiguous,
         judgedBoth  |-> judged,
         oneOnly     |-> oneOnly,
         improved    |-> Moved("improved"),
         declined    |-> Moved("declined"),
         unchanged   |-> Moved("unchanged"),
         improvedRows |-> MovementRows(Moved("improved"), cur, prev, m),
         declinedRows |-> MovementRows(Moved("declined"), cur, prev, m),
         median      |-> MedianMovement(cur, prev),
         mixChanged  |-> JudgedKeys(cur, m) # JudgedKeys(prev, m),
         persistence |-> [w \in ToSet(Upto(prev.a.winners, 3)) |-> Persistence(w, cur, prev, m)],
         leader      |-> LeaderConsistency(cur, prev, m),
         limits      |-> PeriodLimits(cur, prev)
                         \cup (IF m.basis = "ad_name" THEN {"matched_by_name"} ELSE {})
                         \cup (IF m.ambiguous # {} THEN {"unmatchable"} ELSE {})
                         \cup (IF oneOnly # {} THEN {"judged_once"} ELSE {})]

\* The matched ads that were judged in both periods, and those in one only.
BuildComparison(cur, prev) ==
    LET Matched(m, S) == {n \in m.matched : KeyOf(cur.ads[n], m.basis) \in S}
        Of(m, c, p) == WhatMoved(cur, prev, m, Matched(m, c \cap p),
                                Matched(m, (c \cup p) \ (c \cap p)))
        On(m) == Of(m, JudgedKeys(cur, m), JudgedKeys(prev, m))
    IN  On(Matching(cur, prev))

----------------------------------------------------------------------------
(* The groups the user declared, keyed by the Ad ID or the name *)

LabelsFor(ad, declared) ==
    LET key == OrElse(ad.id, ad.name)
    IN  IF key \in DOMAIN declared THEN declared[key] ELSE {}

\* The labels that repeat over the ranked ads, with where their ads sit.
SummarizeCreativeGroups(a, declared) ==
    LET labels == UNION {LabelsFor(a.ads[i], declared) : i \in a.ranked}
        Members(l) == {i \in a.ranked : l \in LabelsFor(a.ads[i], declared)}
        Sitting(l, side) == Cardinality({i \in Members(l) : Side(a, i) = side})
    IN  [l \in {l \in labels : Cardinality(Members(l)) >= MinGroupRepetition} |->
            [judged |-> Cardinality(Members(l)), below |-> Sitting(l, "below"),
             at |-> Sitting(l, "at"), above |-> Sitting(l, "above")]]
=============================================================================
