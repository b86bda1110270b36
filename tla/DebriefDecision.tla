-------------------------- MODULE DebriefDecision --------------------------
(***************************************************************************)
(* The call a debrief commits to (modules/debrief/decision.ts): hold, move *)
(* budget (shift, scale or cut) or run one test; the ads that receive and  *)
(* lose budget; how strong the evidence is; and the limits it is stated    *)
(* with.  The operators take the analysis and the user's context, as the   *)
(* code's functions do; sentences are reduced to tags.                     *)
(***************************************************************************)
EXTENDS DebriefLimits

CONSTANTS
    MinJudged,        \* DECISION_MIN_JUDGED
    MinOutcomes,      \* MIN_OUTCOMES_FOR_SUPPORTED
    HighMultiple,     \* HIGH_CONFIDENCE_OUTCOME_MULTIPLE
    AdjustMultiple,   \* EVIDENCE_ADJUST_FLOOR_MULTIPLE
    MaxReceivers,     \* MAX_BUDGET_RECEIVERS
    FlatPct,          \* FLAT_FIELD_DELTA_PCT
    ScalePct,         \* SCALE_TEST_MIN_DELTA_PCT
    CutSharePct,      \* CUT_MIN_SPEND_SHARE_PCT
    ConcentrationPct, \* CONCENTRATION_GUARDRAIL_PCT
    TestMultiple      \* TEST_SPEND_CPP_MULTIPLE

ASSUME DecisionConstants ==
    /\ {MinJudged, MinOutcomes, HighMultiple, AdjustMultiple, MaxReceivers, FlatPct,
        ScalePct, CutSharePct, ConcentrationPct, TestMultiple} \subseteq Nat \ {0}
    /\ FlatPct < ScalePct
    /\ Null \notin {"under_breakeven", "receiver_floor", "nothing_clears"}

----------------------------------------------------------------------------
(* How far an ad is from its benchmark, as a share of the benchmark's size. *)
(* deltaPct is null when the ad has no outcome or its benchmark is zero,    *)
(* and a null never clears a bar.                                           *)

HasPct(a, i) == ~a.ads[i].zero /\ a.bench2[i] # 0
AheadBy(a, i, p) == HasPct(a, i) /\ 100 * a.delta2[i] >= p * Magnitude(a.bench2[i])
BehindBy(a, i, p) == HasPct(a, i) /\ 100 * a.delta2[i] <= -(p * Magnitude(a.bench2[i]))
NotAheadBy(a, i, p) == HasPct(a, i) /\ 100 * a.delta2[i] <= p * Magnitude(a.bench2[i])
NotBehindBy(a, i, p) == HasPct(a, i) /\ 100 * a.delta2[i] >= -(p * Magnitude(a.bench2[i]))
Share(part, whole, p) == whole > 0 /\ 100 * part >= p * whole

IsProxyWithOutcome(a, c) == IsProxy(a.kpi) /\ c.outcomeKpi # Null

\* The two extremes lie in the band; the lists are sorted, so the others do.
\* Mutant of FlatField: only the leader is looked at.
FlatField_leaderOnly(a) ==
    LET top == First(a.winners)
    IN  a.median2 # Null /\ (top = Null \/ NotAheadBy(a, top, FlatPct))
FlatField(a) ==
    LET top == First(a.winners)
        worst == First(a.losers)
    IN  /\ top = Null \/ NotAheadBy(a, top, FlatPct)
        /\ worst = Null \/ NotBehindBy(a, worst, FlatPct)
        /\ a.median2 # Null

----------------------------------------------------------------------------
(* Who receives budget *)

ReceiverOutcomeMin(c) == IF IsSet(c.minOutcome) THEN c.minOutcome ELSE MinOutcomes

PassesReceiverFloor(a, c, i) ==
    /\ ClearsBar(a.ads[i].spend, a.gate)
    /\ \/ ~HasOutcome(a.kpi)
       \/ a.ads[i].conv = Null
       \/ a.ads[i].conv >= ReceiverOutcomeMin(c)

\* The user's target on the KPI the ads are ranked on: their breakeven.
TargetFor(a, c) == CASE a.kpi = "roas" /\ IsSet(c.targetRoas) -> c.targetRoas
                     [] a.kpi = "cpa" /\ IsSet(c.target) -> c.target
                     [] OTHER -> Null
BeatsTarget(a, c, i) ==
    /\ a.ads[i].value # Null
    /\ IF a.kpi = "roas" THEN a.ads[i].value >= TargetFor(a, c) ELSE a.ads[i].value <= TargetFor(a, c)

BeatsBreakeven(a, c, i) == TargetFor(a, c) = Null \/ BeatsTarget(a, c, i)

QualifyingReceivers(a, c) ==
    LET Qualifies(i) == AheadBy(a, i, ScalePct) /\ PassesReceiverFloor(a, c, i) /\ BeatsBreakeven(a, c, i)
    IN  Picked(a.winners, {n \in DOMAIN a.winners : Qualifies(a.winners[n])})

\* ROAS pulled toward the ad's benchmark by its purchases, as a quotient.
EvidenceAdjusted(a, c, i) ==
    LET k == AdjustMultiple * ReceiverOutcomeMin(c)
    IN  [num |-> 2 * a.ads[i].conv * a.ads[i].value + k * a.bench2[i],
         den |-> 2 * (a.ads[i].conv + k)]

\* Best adjusted ROAS first, ties in KPI order; KPI order when any count is
\* not in the export.
ByEvidence(s, a, c) ==
    LET More(x, y) == x.num * y.den > y.num * x.den
        Before(x, y, tie) == More(x, y) \/ (~More(y, x) /\ tie)
        Order(adjusted) == Sorted(DOMAIN s, LAMBDA m, n : Before(adjusted[m], adjusted[n], m < n))
        Placed(order) == [n \in DOMAIN order |-> s[order[n]]]
    IN  IF a.kpi # "roas" \/ \E n \in DOMAIN s : a.ads[s[n]].conv = Null THEN s
        ELSE Placed(Order([n \in DOMAIN s |-> EvidenceAdjusted(a, c, s[n])]))

BudgetReceivers(a, c) == Upto(ByEvidence(QualifyingReceivers(a, c), a, c), MaxReceivers)

\* Mutant of IsScaleActionSupported: a proxy's budget move is not withheld.
IsScaleActionSupported_proxy(a, c) ==
    Judged(a) >= MinJudged /\ BudgetReceivers(a, c) # <<>>
IsScaleActionSupported(a, c) ==
    /\ Judged(a) >= MinJudged
    /\ ~IsProxyWithOutcome(a, c)
    /\ BudgetReceivers(a, c) # <<>>

IsRawCutEligible(a) ==
    LET worst == First(a.losers)
    IN  /\ worst # Null
        /\ a.ads[worst].zero \/ BehindBy(a, worst, ScalePct)
        /\ Share(a.belowSpend, a.judgedSpend, CutSharePct)

IsCutActionSupported(a, c) ==
    Judged(a) >= MinJudged /\ IsRawCutEligible(a) /\ ~IsProxyWithOutcome(a, c)

\* The ad the memo builds on: the first receiver, or else the leader.
EvidenceLead(a, c) ==
    IF IsScaleActionSupported(a, c) THEN BudgetReceivers(a, c)[1] ELSE First(a.winners)

PassedOverLeader(a, c) ==
    IF First(a.winners) # EvidenceLead(a, c) THEN First(a.winners) ELSE Null

\* What an ad under the receiver floor has too little of.
FloorGaps(a, c, i) ==
    When(HasOutcome(a.kpi) /\ a.ads[i].conv # Null /\ a.ads[i].conv < ReceiverOutcomeMin(c),
         "outcomes")
    \cup When(~ClearsBar(a.ads[i].spend, a.gate), "spend")

EvidenceReordersReceivers(a, c) ==
    BudgetReceivers(a, c) # Upto(QualifyingReceivers(a, c), MaxReceivers)

IsProxyOutcomeConflict(a) ==
    a.proxy # Null /\ a.winners # <<>> /\ Head(a.winners) \in a.proxy.below

----------------------------------------------------------------------------
(* Who loses budget *)

IsNearMedian(a, i) == HasPct(a, i) /\ a.delta2[i] < 0 /\ NotBehindBy(a, i, FlatPct)

\* Spend times the gap to the benchmark (all of it without one), as a quotient.
MoneyAtStake(a, i) ==
    IF ~HasPct(a, i) THEN [num |-> a.ads[i].spend, den |-> 1]
    ELSE [num |-> a.ads[i].spend * Min({Magnitude(a.bench2[i]), -a.delta2[i]}),
          den |-> Magnitude(a.bench2[i])]

TrimOrder(a) ==
    LET More(x, y) == x.num * y.den > y.num * x.den
        Before(x, y, tie) == More(x, y) \/ (~More(y, x) /\ tie)
        Order(stake) == Sorted(DOMAIN stake, LAMBDA m, n : Before(stake[m], stake[n], m < n))
        Placed(order) == [n \in DOMAIN order |-> a.losers[order[n]]]
    IN  Placed(Order([n \in DOMAIN a.losers |-> MoneyAtStake(a, a.losers[n])]))

TrimCandidates(a) ==
    LET Far(s) == Picked(s, {n \in DOMAIN s : ~IsNearMedian(a, s[n])})
    IN  Far(TrimOrder(a))

HoldTotal(a) ==
    Len(a.losers) - Len(TrimCandidates(a)) + Cardinality(a.at)

----------------------------------------------------------------------------
(* How strong the evidence is *)

WeakestReceiver(a, c) ==
    LET Fewest(r, counted) ==
            IF counted = {} THEN Null
            ELSE r[CHOOSE n \in counted : \A m \in counted :
                      \/ a.ads[r[n]].conv < a.ads[r[m]].conv
                      \/ a.ads[r[n]].conv = a.ads[r[m]].conv /\ n <= m]
        Of(r) == Fewest(r, {n \in DOMAIN r : a.ads[r[n]].conv # Null})
    IN  IF IsScaleActionSupported(a, c) THEN Of(BudgetReceivers(a, c)) ELSE Null

VolumeSubject(a, c) == OrElse(WeakestReceiver(a, c), EvidenceLead(a, c))

VolumeBelowFloor(a, c) ==
    LET Few(i) == i # Null /\ a.ads[i].conv # Null /\ a.ads[i].conv < MinOutcomes
    IN  HasOutcome(a.kpi) /\ Few(VolumeSubject(a, c))

ReceiverBelowHighBar(a, c) ==
    LET Low(i) == i # Null /\ a.ads[i].conv < HighMultiple * ReceiverOutcomeMin(c)
    IN  HasOutcome(a.kpi) /\ Low(WeakestReceiver(a, c))

SupportedShape(a) ==
    /\ Judged(a) >= SupportedJudged
    /\ a.complete
    /\ FlatField(a) \/ (Len(a.winners) >= GroupMin /\ Len(a.losers) >= GroupMin)

EvidenceState(a, c) ==
    IF a.median2 = Null \/ Judged(a) < MinJudged THEN "insufficient"
    ELSE IF SupportedShape(a) /\ ~VolumeBelowFloor(a, c) /\ ~ReceiverBelowHighBar(a, c)
         THEN "supported" ELSE "limited"

----------------------------------------------------------------------------
(* The limits that depend on the bars *)

\* Where the minimum spend comes from.
SpendGateSource(a) ==
    CASE a.gate.basis = "user_gate" -> "user"
      [] a.gate.basis = "target_cpa" -> "target"
      [] OTHER -> IF a.gate.num > TotalSpend(a.ads, DOMAIN a.ads) THEN "fixed_floor" ELSE "half_mean"

RawScaleEligible(a) == a.winners # <<>> /\ AheadBy(a, Head(a.winners), ScalePct)
ReceiverBlocked(a, c) ==
    RawScaleEligible(a) /\ ~IsProxyWithOutcome(a, c) /\ BudgetReceivers(a, c) = <<>>
UnderBreakeven(a, c) ==
    IF IsProxyWithOutcome(a, c) THEN {}
    ELSE {i \in ToSet(a.winners) : /\ AheadBy(a, i, ScalePct)
                                   /\ PassesReceiverFloor(a, c, i)
                                   /\ ~BeatsBreakeven(a, c, i)}
BreakevenBlocked(a, c) ==
    /\ ReceiverBlocked(a, c)
    /\ UnderBreakeven(a, c) # {}
    /\ PassesReceiverFloor(a, c, Head(a.winners))

\* What became of the user's own bars and of the outcome volume.
CriteriaLimits(a, c) ==
    LET top == First(a.winners)
        Conv(i) == a.ads[i].conv
        minOutcome == IsSet(c.minOutcome)
        Uncounted(i) == i # Null /\ Conv(i) = Null
    IN  When(minOutcome /\ ~HasOutcome(a.kpi), "minimum_inapplicable") \cup
        When(minOutcome /\ HasOutcome(a.kpi) /\ Uncounted(top), "minimum_unchecked") \cup
        When(IsScaleActionSupported(a, c) /\ EvidenceReordersReceivers(a, c), "evidence_order") \cup
        When(UnderBreakeven(a, c) # {}, "under_breakeven") \cup
        When(/\ RawScaleEligible(a) /\ ~IsProxyWithOutcome(a, c)
             /\ ~PassesReceiverFloor(a, c, top) /\ BudgetReceivers(a, c) # <<>>,
             "leader_passed_over") \cup
        When(/\ minOutcome /\ HasOutcome(a.kpi) /\ ReceiverBlocked(a, c)
             /\ Conv(top) # Null /\ Conv(top) < c.minOutcome, "below_scaling_minimum") \cup
        When(VolumeBelowFloor(a, c) /\ ~minOutcome, "noise_floor") \cup
        When(ReceiverBelowHighBar(a, c) /\ ~VolumeBelowFloor(a, c), "moderate_volume") \cup
        When(/\ EvidenceState(a, c) = "supported" /\ HasOutcome(a.kpi)
             /\ Uncounted(VolumeSubject(a, c)), "volume_unchecked") \cup
        When(/\ HasOutcome(a.kpi) /\ top # Null /\ a.kpi \notin {"purchases", "leads"}
             /\ Conv(top) = 0 /\ a.ads[top].value > 0, "count_inconsistent") \cup
        When(SpendGateSource(a) \in {"fixed_floor", "half_mean"}, SpendGateSource(a)) \cup
        When(a.thin # {}, "zero_outcome_thin") \cup
        When(IsProxyWithOutcome(a, c), "proxy_held")

----------------------------------------------------------------------------
(* The bars of a call *)

\* Those that decided it.
DecisiveBars(d, a, c) ==
    LET floorExcluded == \E i \in ToSet(a.winners) :
                            AheadBy(a, i, ScalePct) /\ ~PassesReceiverFloor(a, c, i)
    IN  CASE d.action = "hold" ->
                 IF d.reason = "insufficient_data" THEN {"gate", "sample"} ELSE {"flat"}
          [] d.action = "budget" ->
                 (IF d.to # <<>> THEN {"move"} ELSE {}) \cup
                 (IF d.from # <<>> THEN {"cut"} ELSE {}) \cup
                 (IF floorExcluded /\ ~IsProxyWithOutcome(a, c) THEN {"floor"} ELSE {})
          [] OTHER -> {IF floorExcluded THEN "floor" ELSE "move"} \cup
                      (IF a.losers # <<>> THEN {"cut"} ELSE {})

\* Every bar the call was read with, whose it is, and whether it decided.
AppliedCriteria(a, c, d) ==
    LET Bar(bar, source) == [bar |-> bar, source |-> source, decisive |-> bar \in DecisiveBars(d, a, c)]
        own == When(FloorMin(c) # Null, "judge_minimum")
               \cup When(IsSet(c.minOutcome) /\ HasOutcome(a.kpi), "scaling_minimum")
               \cup When(TargetFor(a, c) # Null, "breakeven")
    IN  {Bar("gate", IF SpendGateSource(a) = "user" THEN "user" ELSE "default")}
        \cup {Bar(b, "default") : b \in {"sample", "move", "floor", "cut", "flat"}}
        \cup {Bar(b, "user") : b \in own}

----------------------------------------------------------------------------
(* Why a hold holds *)

\* The ads a hold blames, by cause.  With ads that have no value, a headline
\* of theirs alone when nothing else is wrong, or one that lists the causes;
\* the KPI to try when most ads miss this one.
KpiGapHold(a, c) ==
    LET parts == {p \in SetAsideParts(a) : p.cause # "no_outcome_low_spend"}
        missing == {p \in parts : p.cause = "no_value"}
        others == {p.cause : p \in parts} \cap {"no_outcome", "too_little_spend"}
    IN  [cause   |-> "gaps",
         buyer   |-> IF missing # {} /\ others = {} THEN missing ELSE parts,
         client  |-> parts,
         suggest |-> IF 2 * (a.gaps.noValue - a.gaps.zeroOutcome) >= Len(a.ads)
                     THEN c.preferred ELSE Null]

\* With ads under the user's own minimum, their count and that of the others.
FloorHold(a) ==
    LET rest == Len(a.ads) - Judged(a) - Cardinality(a.floorAside) - Cardinality(a.thin)
        under == [cause |-> "below_your_minimum", ads |-> Cardinality(a.floorAside)]
    IN  [cause   |-> "your_minimum",
         buyer   |-> {under} \cup When(rest > 0, [cause |-> "too_little_spend", ads |-> rest]),
         client  |-> {under},
         suggest |-> Null]

HoldCause(a, c) ==
    CASE Judged(a) < MinJudged /\ a.gaps # Null -> KpiGapHold(a, c)
      [] Judged(a) < MinJudged /\ a.gaps = Null /\ a.floorAside # {} -> FloorHold(a)
      [] OTHER -> [cause |-> "too_few_judged", buyer |-> {}, client |-> {}, suggest |-> Null]

----------------------------------------------------------------------------
(* How a move is explained and carried out *)

\* Why no ad receives budget.
NoReceiverReason(a, c) ==
    CASE BreakevenBlocked(a, c) -> "under_breakeven"
      [] ReceiverBlocked(a, c) /\ ~BreakevenBlocked(a, c) -> "receiver_floor"
      [] OTHER -> "nothing_clears"

\* Why none loses it.
NoCutReason(a) ==
    IF Share(a.belowSpend, a.judgedSpend, CutSharePct) THEN "none_far_behind" ELSE "too_small_a_share"

\* The receivers in figures: which medians they beat, and the fewest outcomes
\* when all of them are counted.
ReceiverFacts(a, d) ==
    LET to == ToSet(d.to)
        counted == HasOutcome(a.kpi) /\ to # {} /\ \A i \in to : a.ads[i].conv # Null
    IN  [medians |-> {IF a.ads[i].stage \in a.stages THEN a.ads[i].stage ELSE "overall" : i \in to},
         fewest  |-> IF counted THEN Min({a.ads[i].conv : i \in to}) ELSE Null]

\* The steps the move is carried out in.
ExecutionCopy(a, c, d) ==
    [trims  |-> d.reason \in {"shift", "cut"},
     raises |-> d.reason \in {"shift", "scale"},
     adSets |-> IF c.hasAdSet THEN {a.ads[i].segment : i \in ToSet(d.to)} \ {Null} ELSE {}]

\* The spend a version of a test needs, as a quotient: a multiple of the
\* account's cost per outcome, or three times the minimum spend.
TestBars(a) ==
    IF a.cpp # Null THEN [num |-> TestMultiple * a.cpp.num, den |-> a.cpp.den]
    ELSE [num |-> 3 * a.gate.num, den |-> a.gate.den]

MoveFacts(a, c, d) ==
    [facts     |-> ReceiverFacts(a, d),
     nearby    |-> Len(a.losers) - Len(TrimCandidates(a)),
     passed    |-> /\ a.winners # <<>> /\ BudgetReceivers(a, c) # <<>>
                   /\ ~PassesReceiverFloor(a, c, Head(a.winners))
                   /\ Head(a.winners) # BudgetReceivers(a, c)[1],
     counts    |-> Len(TrimCandidates(a)) > 2 \/ Len(d.to) > 1,
     noCut     |-> IF d.reason = "scale" THEN NoCutReason(a) ELSE Null,
     noRaise   |-> IF d.reason = "cut" THEN NoReceiverReason(a, c) ELSE Null,
     lacks     |-> IF d.reason = "cut" /\ NoReceiverReason(a, c) = "receiver_floor"
                   THEN FloorGaps(a, c, Head(a.winners)) ELSE {},
     execution |-> ExecutionCopy(a, c, d),
     waits     |-> TestBars(a)]

----------------------------------------------------------------------------
(* The committed call *)

Call(action, reason, from, to) ==
    [action |-> action, reason |-> reason, from |-> from, to |-> to]

InsufficientHold == Call("hold", "insufficient_data", <<>>, <<>>)

\* Why the call is a test: the proxy alone held a move back, and the KPI is to
\* be switched; or no ad can receive budget, or nothing is far enough.
TestReason(a, c) ==
    IF IsProxyWithOutcome(a, c) /\ (RawScaleEligible(a) \/ IsRawCutEligible(a))
    THEN "switch_kpi" ELSE NoReceiverReason(a, c)

\* First match wins: too few judged ads, a budget move, a flat field, the top
\* test, and the insufficient-data hold when there is no test either.
Choose(a, c, testTitle) ==
    LET scale == IsScaleActionSupported(a, c)
        cut == IsRawCutEligible(a) /\ ~IsProxyWithOutcome(a, c)
    IN  CASE Judged(a) < MinJudged -> InsufficientHold
          [] Judged(a) >= MinJudged /\ scale /\ cut ->
                 Call("budget", "shift", TrimCandidates(a), BudgetReceivers(a, c))
          [] Judged(a) >= MinJudged /\ scale /\ ~cut ->
                 Call("budget", "scale", <<>>, BudgetReceivers(a, c))
          [] Judged(a) >= MinJudged /\ ~scale /\ cut ->
                 Call("budget", "cut", TrimCandidates(a), <<>>)
          [] OTHER ->
                 IF FlatField(a) THEN Call("hold", "flat_performance", <<>>, <<>>)
                 ELSE IF testTitle = Null THEN InsufficientHold
                 ELSE Call("test", TestReason(a, c), <<>>, <<>>)

\* What the call is stated with.
Stated(a, c, d) ==
    [action    |-> d.action,
     reason    |-> d.reason,
     from      |-> d.from,
     to        |-> d.to,
     cause     |-> IF d.reason = "insufficient_data" THEN HoldCause(a, c) ELSE Null,
     move      |-> IF d.action = "budget" THEN MoveFacts(a, c, d) ELSE Null,
     holds     |-> IF d.from # <<>> \/ d.reason \in {"shift", "cut"} THEN HoldTotal(a) ELSE 0,
     warnsConcentration |-> /\ d.to # <<>>
                            /\ Share(a.ads[d.to[1]].spend, a.judgedSpend, ConcentrationPct),
     evidence  |-> EvidenceState(a, c),
     shape     |-> IF a.median2 = Null THEN Null
                   ELSE IF FlatField(a) THEN "flatness" ELSE "separation",
     thin      |-> ZeroThinLines(a),
     limits    |-> BuildLimits(a, c, FlatField(a)) \cup CriteriaLimits(a, c)
                   \cup When(d.action = "budget", "verify_in_ads_manager")
                   \cup When(d.action = "budget" /\ IsProxy(a.kpi), "proxy_basis")
                   \cup When(d.to # <<>> /\ c.objective = "efficiency", "verify_profitability"),
     criteria  |-> AppliedCriteria(a, c, d)]
Decide(a, c, testTitle) == Stated(a, c, Choose(a, c, testTitle))
=============================================================================
