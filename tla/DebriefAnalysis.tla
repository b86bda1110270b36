-------------------------- MODULE DebriefAnalysis --------------------------
(***************************************************************************)
(* What the debrief computes from the ads of an export (modules/debrief/   *)
(* analysis.ts, funnelStages.ts, accountKpi.ts): the spend gate, who is    *)
(* judged, the benchmark, the ranking and the counts the report prints.    *)
(*                                                                         *)
(* An ad is a record [name, id, spend, value, conv, zero, stage, other,    *)
(* tag, window, rungs]: its spend, its KPI value and outcome count (Null   *)
(* when the export has none), whether it spent and recorded no outcome,    *)
(* its funnel stage, its [value, zero] on the outcome KPI a proxy run      *)
(* could have used, the format tag of its name, its attribution window,    *)
(* and the upstream metrics the export gives it.  The lists of ads are     *)
(* lists of places in the export.  The code's tag lists are cut to one     *)
(* tag an ad.  Money and KPI values are integers, and the quotients of     *)
(* this module are kept exact by comparing cross products: a median is     *)
(* kept doubled, a spend bar as a numerator over a denominator.            *)
(*                                                                         *)
(* The context c holds what the user asked (kpi, target, spendGate,        *)
(* minJudge, ...) and what the file is read with: complete, whether it has *)
(* the ad name and date columns, outcomeKpi, the outcome KPI its columns   *)
(* support (Null without one), and settings, the attribution settings of   *)
(* its rows with spend.                                                    *)
(***************************************************************************)
EXTENDS Lists, FiniteSets, SequencesExt

CONSTANTS
    Null,             \* a value the export or the user does not give
    SpendFloor,       \* DEFAULT_SPEND_FLOOR
    ZeroMultiple,     \* ZERO_CONVERSION_SPEND_MULTIPLE
    StageMinJudged,   \* STAGE_MIN_JUDGED
    NameSignalAds,    \* MIN_ADS_FOR_NAME_SIGNAL
    NameSignalPct     \* NAME_SIGNAL_SHARE, in percent

ASSUME AnalysisConstants ==
    /\ Null \notin Int
    /\ SpendFloor \in Nat
    /\ ZeroMultiple \in Nat \ {0}
    /\ {StageMinJudged, NameSignalAds, NameSignalPct} \subseteq Nat \ {0}

Kpis == {"roas", "cpa", "ctr", "cpc", "purchases", "leads"}
Stages == {"TOFU", "MOFU", "BOFU"}
NoStage == "none"
Tags == {"ugc", "video", "static", "carousel", "testimonial", "discount/promo", "founder-led"}
NoTag == "untagged"

HigherIsBetter(kpi) == kpi \notin {"cpa", "cpc"}
HasOutcome(kpi) == kpi \notin {"ctr", "cpc"}
IsProxy(kpi) == kpi \notin {"roas", "cpa"}
IsSet(x) == x # Null /\ x > 0
Magnitude(x) == IF x < 0 THEN -x ELSE x

\* S is a set of places; a list is sorted by a strict total order of its
\* places.
LastOf(S) == IF S = {} THEN 0 ELSE Max(S)
SumOver(F(_), S) == Total([i \in S |-> F(i)], LastOf(S))
Sorted(S, Before(_, _)) == Ordered(S, LastOf(S), {p \in S \X S : Before(p[1], p[2])})
First(s) == IF s = <<>> THEN Null ELSE Head(s)
Upto(s, n) == SubSeq(s, 1, Min({n, Len(s)}))

----------------------------------------------------------------------------
(* Medians and bars *)

\* The k-th smallest of v[i], i \in S, with repetitions.
KthSmallest(v, S, k) ==
    v[CHOOSE i \in S : /\ Cardinality({j \in S : v[j] < v[i]}) < k
                       /\ Cardinality({j \in S : v[j] <= v[i]}) >= k]

\* Twice the median of v over S; Null when S is empty.
Median2(v, S) ==
    LET n == Cardinality(S)
    IN  IF n = 0 THEN Null
        ELSE KthSmallest(v, S, (n + 1) \div 2) + KthSmallest(v, S, n \div 2 + 1)

TotalSpend(ads, S) == SumOver(LAMBDA i : ads[i].spend, S)

\* The account's cost per outcome as [num, den]; Null when no ad has one.
CostPerOutcome(ads) ==
    LET outcomes == SumOver(LAMBDA i : IF ads[i].conv = Null THEN 0 ELSE ads[i].conv, DOMAIN ads)
    IN  IF outcomes > 0 THEN [num |-> TotalSpend(ads, DOMAIN ads), den |-> outcomes] ELSE Null

\* The minimum spend to judge: the user's own, three times the target, or
\* the larger of the fixed floor and half the mean spend.
ComputeSpendGate(ads, c) ==
    LET den == IF ads = <<>> THEN 1 ELSE 2 * Len(ads)
    IN  CASE IsSet(c.spendGate) ->
                 [num |-> c.spendGate * den, den |-> den, basis |-> "user_gate"]
          [] IsSet(c.target) /\ ~IsSet(c.spendGate) ->
                 [num |-> 3 * c.target * den, den |-> den, basis |-> "target_cpa"]
          [] OTHER ->
                 [num   |-> Max({SpendFloor * den, TotalSpend(ads, DOMAIN ads)}),
                  den   |-> den,
                  basis |-> "floor_or_mean"]

ClearsBar(spend, bar) == spend * bar.den >= bar.num

----------------------------------------------------------------------------
(* The gate *)

FloorMin(c) == IF IsSet(c.minJudge) /\ HasOutcome(c.kpi) THEN c.minJudge ELSE Null

\* gateAds and the user's outcome minimum, which comes after the spend gate
\* and before the median; an unverifiable count is judged.
FirstPass(ad, gate, c) ==
    CASE ~ClearsBar(ad.spend, gate) -> "below_spend_gate"
      [] ClearsBar(ad.spend, gate) /\ ad.value = Null /\ ~ad.zero -> "no_kpi_value"
      [] OTHER -> IF /\ FloorMin(c) # Null /\ ~ad.zero
                     /\ ad.conv # Null /\ ad.conv < FloorMin(c)
                  THEN "below_outcome_floor"
                  ELSE "judged"

Valued(ads, S) == {i \in S : ads[i].value # Null /\ ~ads[i].zero}
Values(ads) == [i \in DOMAIN ads |-> ads[i].value]

\* Whether an ad with no outcome spent enough for that to count: at least
\* ZeroMultiple times the larger of the cost of one outcome and the target.
\* With neither there is nothing to measure against.
ZeroJudgeable(ad, unit, target) ==
    LET unitKnown == unit # Null /\ unit.num > 0
    IN  /\ unitKnown \/ IsSet(target)
        /\ unitKnown => ad.spend * unit.den >= ZeroMultiple * unit.num
        /\ IsSet(target) => ad.spend >= ZeroMultiple * target

\* The gate of every ad, with the second pass over the ads that recorded no
\* outcome.
Gates(ads, gate, c) ==
    LET first == [i \in DOMAIN ads |-> FirstPass(ads[i], gate, c)]
        med2 == Median2(Values(ads), Valued(ads, {i \in DOMAIN ads : first[i] = "judged"}))
        unit == IF c.kpi = "roas" THEN CostPerOutcome(ads)
                ELSE IF med2 = Null THEN Null ELSE [num |-> med2, den |-> 2]
    IN  [i \in DOMAIN ads |->
            IF /\ first[i] = "judged" \/ (c.kpi = "roas" /\ first[i] = "below_spend_gate")
               /\ ads[i].zero
               /\ ~ZeroJudgeable(ads[i], unit, c.target)
            THEN "zero_outcome_thin"
            ELSE first[i]]

----------------------------------------------------------------------------
(* The ranking *)

InStage(ads, S, s) == {i \in S : ads[i].stage = s}

\* The stages that are read against their own median: none unless the judged
\* ads span two, then those with enough judged ads and a value among them.
StageBenchmarks(ads, judged) ==
    IF Cardinality({ads[i].stage : i \in judged} \ {NoStage}) < 2 THEN {}
    ELSE {s \in Stages : /\ Cardinality(InStage(ads, judged, s)) >= StageMinJudged
                         /\ Valued(ads, InStage(ads, judged, s)) # {}}

\* Twice the benchmark of a judged ad: its stage's median, or the overall one.
AdBenchmark2(ads, judged, overall2, i) ==
    IF ads[i].stage \in StageBenchmarks(ads, judged)
    THEN Median2(Values(ads), Valued(ads, InStage(ads, judged, ads[i].stage)))
    ELSE overall2

\* The order of the two lists.  With stage benchmarks gaps are relative, and
\* an ad whose benchmark is zero counts as a gap of zero; they are relative to
\* the size of the benchmark, which refunds may bring below zero.
GapNum(r, i) == IF r.split THEN (IF r.bench2[i] = 0 THEN 0 ELSE r.delta2[i]) ELSE r.delta2[i]
GapDen(r, i) == IF r.split /\ r.bench2[i] # 0 THEN Magnitude(r.bench2[i]) ELSE 1
GapLess(r, i, j) == GapNum(r, i) * GapDen(r, j) < GapNum(r, j) * GapDen(r, i)

BestFirst(r, i, j) == GapLess(r, j, i) \/ (~GapLess(r, i, j) /\ i < j)
WorstFirst(r, i, j) ==
    CASE r.ads[i].zero /\ r.ads[j].zero ->
             \/ r.ads[i].spend > r.ads[j].spend
             \/ r.ads[i].spend = r.ads[j].spend /\ i < j
      [] r.ads[i].zero # r.ads[j].zero -> r.ads[i].zero
      [] OTHER -> GapLess(r, i, j) \/ (~GapLess(r, j, i) /\ i < j)

\* An ad with no outcome has no value to compare: it is below every other.
Side(r, i) == CASE r.ads[i].zero -> "below"
                [] ~r.ads[i].zero /\ r.delta2[i] > 0 -> "above"
                [] ~r.ads[i].zero /\ r.delta2[i] < 0 -> "below"
                [] OTHER -> "at"

RankJudged(ads, judged, overall2, c) ==
    LET Deltas(bench2) ==
            [i \in DOMAIN bench2 |->
                IF ads[i].zero THEN 0
                ELSE IF HigherIsBetter(c.kpi) THEN 2 * ads[i].value - bench2[i]
                ELSE bench2[i] - 2 * ads[i].value]
        Lists(r) ==
            LET On(side) == {i \in DOMAIN r.bench2 : Side(r, i) = side}
            IN  [ranked  |-> DOMAIN r.bench2,
                 bench2  |-> r.bench2,
                 delta2  |-> r.delta2,
                 winners |-> Sorted(On("above"), LAMBDA i, j : BestFirst(r, i, j)),
                 losers  |-> Sorted(On("below"), LAMBDA i, j : WorstFirst(r, i, j)),
                 at      |-> On("at")]
        Against(bench2) == Lists([ads    |-> ads,
                                  split  |-> StageBenchmarks(ads, judged) # {},
                                  bench2 |-> bench2,
                                  delta2 |-> Deltas(bench2)])
    IN  Against([i \in IF overall2 = Null THEN {} ELSE judged |->
                    AdBenchmark2(ads, judged, overall2, i)])

----------------------------------------------------------------------------
(* What a set-aside ad is said to lack *)

\* Counts of the ads that were set aside, by cause; Null unless an ad cleared
\* the spend gate and has no value.
KpiGaps(ads, gates, kpi) ==
    LET all == DOMAIN ads
        noValue == {i \in all : ads[i].value = Null /\ ~ads[i].zero}
        Of(g) == {i \in all : gates[i] = g}
        thin == Cardinality(Of("zero_outcome_thin"))
    IN  IF Of("no_kpi_value") = {} THEN Null
        ELSE [noValue      |-> Cardinality(noValue),
              zeroOutcome  |-> IF kpi \in {"roas", "cpa"}
                               THEN Cardinality({i \in noValue : ads[i].conv = 0}) ELSE 0,
              belowGate    |-> Cardinality({i \in Of("below_spend_gate") :
                                                ads[i].value # Null \/ ads[i].zero})
                               + (IF kpi = "roas" THEN 0 ELSE thin),
              zeroLowSpend |-> IF kpi = "roas" THEN thin ELSE 0,
              belowFloor   |-> Cardinality(Of("below_outcome_floor"))]

\* Where the judged ads of a proxy run sit on the outcome KPI the export also
\* has: the ads worse than its median, those better, and the best one.  An ad
\* with no outcome is worse than any and stays out of the median.
BuildProxyKpi(ads, ranked, c) ==
    LET other == [i \in DOMAIN ads |-> ads[i].other.value]
        valued == {i \in ranked : other[i] # Null}
        zero == {i \in ranked : ads[i].other.zero}
        med2 == Median2(other, valued \ zero)
        Better(x, y) == IF HigherIsBetter(c.outcomeKpi) THEN x > y ELSE x < y
    IN  IF ~IsProxy(c.kpi) \/ c.outcomeKpi = Null THEN Null
        ELSE IF med2 = Null THEN [below |-> {}, above |-> {}, leader |-> Null]
        ELSE [below  |-> zero \cup {i \in valued : Better(med2, 2 * other[i])},
              above  |-> {i \in valued : Better(2 * other[i], med2)},
              leader |-> CHOOSE i \in valued :
                             \A j \in valued : \/ Better(other[i], other[j])
                                               \/ other[i] = other[j] /\ i <= j]

----------------------------------------------------------------------------
(* What the names and the attribution settings show *)

Tagged(ads, S, t) == {i \in S : ads[i].tag = t}

\* A format shared by enough of the winners, or of the losers, to be a signal.
NameSignal(ads, winners, losers) ==
    LET Signals(S) == /\ Cardinality(S) >= 2
                      /\ \E t \in Tags :
                            100 * Cardinality(Tagged(ads, S, t)) >= NameSignalPct * Cardinality(S)
    IN  /\ Cardinality(winners) + Cardinality(losers) >= NameSignalAds
        /\ Signals(winners) \/ Signals(losers)

\* Engaged view is a further window that counts for videos only.  An ad merged
\* from rows of several settings has the window "mixed".
Windows == {"click", "view", "engaged", "mixed"}
WindowWidth(w) == CASE w = "view" -> 2 [] w = "engaged" -> 3 [] OTHER -> 1

FormatClass(ad) == CASE ad.tag \in {"video", "ugc"} -> "video"
                     [] ad.tag \in {"static", "carousel"} -> "static"
                     [] OTHER -> "unknown"

\* Whether the judged ads were counted on different windows, and for which of
\* them that matters: only those that may be videos when the file's settings
\* differ in engaged view alone.  Null with fewer than two settings.
Attribution(ads, ranked, settings) ==
    LET scope == IF settings = {"view", "engaged"} THEN "video" ELSE "all"
        affected == {i \in ranked : scope = "all" \/ FormatClass(ads[i]) # "static"}
        windows == {ads[i].window : i \in affected} \ {Null}
    IN  IF Cardinality(settings) < 2 THEN Null
        ELSE [scope |-> scope, affected |-> affected,
              mixed |-> Cardinality(windows) > 1 \/ "mixed" \in windows]

----------------------------------------------------------------------------
(* analyze *)

\* The benchmark is taken on the first pass; a zero ad never enters it.
Gated(ads, gate, gates) ==
    LET Of(judged) == [ads     |-> ads,
                       gate    |-> gate,
                       gates   |-> gates,
                       judged  |-> judged,
                       median2 |-> Median2(Values(ads), Valued(ads, judged))]
    IN  Of({i \in DOMAIN ads : gates[i] = "judged"})

\* What is counted over the gated ads g and their ranking r.
Summed(g, r, c) ==
    LET ads == g.ads
        Set(S) == {i \in DOMAIN ads : g.gates[i] \in S}
    IN  [ads         |-> ads,
         kpi         |-> c.kpi,
         gate        |-> g.gate,
         gates       |-> g.gates,
         judged      |-> g.judged,
         median2     |-> g.median2,
         ranked      |-> r.ranked,
         bench2      |-> r.bench2,
         delta2      |-> r.delta2,
         winners     |-> r.winners,
         losers      |-> r.losers,
         at          |-> r.at,
         judgedSpend |-> TotalSpend(ads, g.judged),
         aboveSpend  |-> TotalSpend(ads, ToSet(r.winners)),
         belowSpend  |-> TotalSpend(ads, ToSet(r.losers)),
         atSpend     |-> TotalSpend(ads, r.at),
         thin        |-> Set({"zero_outcome_thin"}),
         floorAside  |-> Set({"below_outcome_floor"}),
         unverifiable |-> IF FloorMin(c) = Null THEN {}
                          ELSE {i \in g.judged : ~ads[i].zero /\ ads[i].conv = Null},
         spreadThin  |-> /\ ads # <<>>
                         /\ 2 * Cardinality(Set({"below_spend_gate", "zero_outcome_thin"})) >= Len(ads),
         gaps        |-> KpiGaps(ads, g.gates, c.kpi),
         proxy       |-> BuildProxyKpi(ads, r.ranked, c),
         stages      |-> IF g.median2 = Null THEN {} ELSE StageBenchmarks(ads, g.judged),
         stagesMixed |-> Cardinality({ads[i].stage : i \in r.ranked} \ {NoStage}) > 1,
         nameSignal  |-> NameSignal(ads, ToSet(r.winners), ToSet(r.losers)),
         attribution |-> Attribution(ads, r.ranked, c.settings),
         cpp         |-> IF HasOutcome(c.kpi) THEN CostPerOutcome(ads) ELSE Null,
         complete    |-> c.complete]

Analyze(ads, c) ==
    LET Ranked(g) == Summed(g, RankJudged(ads, g.judged, g.median2, c), c)
        GatedBy(gate) == Gated(ads, gate, Gates(ads, gate, c))
    IN  Ranked(GatedBy(ComputeSpendGate(ads, c)))
=============================================================================
