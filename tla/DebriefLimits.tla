--------------------------- MODULE DebriefLimits ---------------------------
(***************************************************************************)
(* What a debrief says its data cannot establish, before any call is made  *)
(* (buildLimits in modules/debrief/decision.ts, with segmentSpread.ts,     *)
(* funnelStages.ts and kpiGapHold's counts).  A line is reduced to its tag *)
(* and, where it counts ads, to what it counts.                            *)
(*                                                                         *)
(* The context c also holds what is read from the file: sources, the       *)
(* inexact columns the KPI is read from; clickBasis,                       *)
(* splits, segmentBy and hasRoas, what its columns are; leadBased, whether *)
(* its CPA counts leads; hasName and hasDates; breakdowns, hasAdSet and    *)
(* hasAdId, which tell how rows were merged; days, the length of its       *)
(* period; and what the user answered: notes, controlled, trackingChanged, *)
(* setupChanged and objective.                                             *)
(***************************************************************************)
EXTENDS DebriefNaming

CONSTANTS
    SupportedJudged,  \* SUPPORTED_MIN_JUDGED
    GroupMin,         \* the three winners and losers of a supported separation
    ShortDays,        \* SHORT_WINDOW_DAYS
    SegmentAds,       \* MIN_ADS_PER_SEGMENT
    SpreadPct,        \* SEGMENT_SPREAD_MULTIPLE, in percent
    ZeroNamed         \* ZERO_THIN_NAMED

ASSUME LimitConstants ==
    {SupportedJudged, GroupMin, ShortDays, SegmentAds, SpreadPct, ZeroNamed} \subseteq Nat \ {0}

Judged(a) == Cardinality(a.judged)
When(condition, line) == IF condition THEN {line} ELSE {}

----------------------------------------------------------------------------
(* Where the numbers come from *)

\* The columns the KPI is read from, when they are not the standard ones: a
\* partial match, or Meta's own "results".
SourceLimits(c) == When(c.sources # {}, "source_columns")

\* The window the outcomes are counted in: click only; the blended column of
\* an export that splits them; or, for an outcome KPI, the export's settings.
AttributionLimits(a, c) ==
    CASE c.clickBasis -> {"click_only"}
      [] ~c.clickBasis /\ c.splits -> {"splits_unused"}
      [] ~c.clickBasis /\ ~c.splits /\ ~HasOutcome(a.kpi) -> {}
      [] OTHER -> IF a.attribution # Null
                  THEN IF a.attribution.scope = "all" THEN {"windows_mixed"}
                       ELSE IF a.attribution.mixed THEN {"video_windows_mixed"}
                       ELSE {"video_windows_agree"}
                  ELSE {IF c.settings = {} THEN "default_window" ELSE "one_window"}

\* Without a target, costs are read against each other, not against profit.
TargetLimits(a, c) ==
    IF a.kpi # "cpa" \/ IsSet(c.target) THEN {}
    ELSE {"no_target_cpa"} \cup When(c.hasRoas, "roas_available")

----------------------------------------------------------------------------
(* What one yardstick mixes *)

SegmentKpis == {"roas", "cpa", "ctr", "cpc"}

\* The segments (ad sets, or campaigns without those) with enough judged ads
\* that have a value; an ad whose segment is blank belongs to none.
InSegment(a, s) == {i \in Valued(a.ads, a.ranked) : a.ads[i].segment = s}
Segments(a) == {s \in {a.ads[i].segment : i \in a.ranked} \ {Null} :
                   Cardinality(InSegment(a, s)) >= SegmentAds}

\* The highest segment median is a multiple of the lowest; Null otherwise.
SegmentSpread(a, c) ==
    LET med2(s) == Median2(Values(a.ads), InSegment(a, s))
        Far(s, t) == med2(s) > 0 /\ 100 * med2(t) >= SpreadPct * med2(s)
        lowest == CHOOSE s \in Segments(a) : \A t \in Segments(a) : med2(s) <= med2(t)
    IN  IF \/ a.kpi \notin SegmentKpis \/ c.segmentBy = Null
           \/ Cardinality(Segments(a)) < 2 \/ \A t \in Segments(a) : ~Far(lowest, t)
        THEN Null
        ELSE [by |-> c.segmentBy, segments |-> Cardinality(Segments(a))]

\* The ranked ads read against the overall median though stages have their own.
StageFallback(a) == {i \in a.ranked : a.ads[i].stage \notin a.stages}

MixLimits(a, c) ==
    When(SegmentSpread(a, c) # Null, "segments_mixed") \cup
    CASE ~a.stagesMixed -> {}
      [] a.stagesMixed /\ a.stages = {} -> {"stages_mixed"}
      [] OTHER -> {IF StageFallback(a) = {} THEN "own_stage_median" ELSE "own_stage_or_overall"}

----------------------------------------------------------------------------
(* Who was set aside *)

\* The parts of the set-aside line, each with its count.
GapParts(a) ==
    LET g == a.gaps
        Part(n, cause) == IF n > 0 THEN {[cause |-> cause, ads |-> n]} ELSE {}
        counted == HasOutcome(a.kpi)
    IN  Part(g.noValue - g.zeroOutcome, "no_value")
        \cup Part(IF counted THEN g.zeroOutcome ELSE 0, "no_outcome")
        \cup Part(g.belowGate, "too_little_spend")
        \cup Part(IF counted THEN g.zeroLowSpend ELSE 0, "no_outcome_low_spend")
        \cup Part(IF counted THEN g.belowFloor ELSE 0, "below_your_minimum")

\* Without such an ad only spend can be the cause, for those not named in
\* lines of their own.
TooLittleSpend(a) == Len(a.ads) - Judged(a) - Cardinality(a.thin) - Cardinality(a.floorAside)

SetAsideParts(a) ==
    IF a.gaps # Null THEN GapParts(a)
    ELSE IF TooLittleSpend(a) > 0
    THEN {[cause |-> "too_little_spend", ads |-> TooLittleSpend(a)]} ELSE {}

SetAsideLimits(a) ==
    {p.cause : p \in SetAsideParts(a)} \cup
    When(a.floorAside # {}, "named_below_your_minimum") \cup
    When(a.unverifiable # {}, "minimum_unverifiable")

\* How the ads without an outcome that spent too little for it are named: a
\* line each, or one line that names the first few and counts the others.
ZeroThinLines(a) ==
    LET n == Cardinality(a.thin)
        many == a.kpi = "roas" \/ n > ZeroNamed
        named == IF many THEN Min({n, ZeroNamed}) ELSE n
    IN  [lines  |-> IF n = 0 THEN 0 ELSE IF many THEN 1 ELSE n,
         named  |-> named,
         others |-> n - named]

----------------------------------------------------------------------------
(* What the names and the rows are *)

NameLimits(a, c) ==
    When(~c.notes /\ ~a.nameSignal, IF NamingPatterns(a) # Null THEN "naming_convention" ELSE "metrics_only")
    \cup When(~c.hasName, "no_ad_names")

\* The ads made of several rows, why there were several, and what told that
\* they are one.
Merged(a) == {i \in DOMAIN a.ads : a.ads[i].rows > 1}
MergeLimits(a, c) ==
    IF Merged(a) = {} THEN {}
    ELSE {IF c.breakdowns THEN "merged_breakdown" ELSE IF c.hasAdSet THEN "merged_ad_sets"
          ELSE "merged_same_name",
          IF c.hasAdId THEN "merged_by_id" ELSE "merged_by_name"}

----------------------------------------------------------------------------
(* How much there is to read *)

SampleLimits(a, c, flat) ==
    When(~c.hasDates, "no_dates") \cup
    When(flat, "flat") \cup
    When(~flat /\ (Len(a.winners) < GroupMin \/ Len(a.losers) < GroupMin), "small_groups") \cup
    When(Judged(a) < SupportedJudged, "few_judged") \cup
    When(c.days # Null /\ c.days < ShortDays, "short_window")

\* What the user told of how the ads were run, and what the goal asks of the
\* KPI.  An answer not given, or the one that raises no doubt, adds nothing.
QualityLimits(c) ==
    When(c.controlled \in {"no", "unsure"}, "uncontrolled") \cup
    When(c.trackingChanged, "tracking_changed") \cup
    When(c.setupChanged, "setup_changed")

ObjectiveLimits(a, c) ==
    When(c.objective = "growth" /\ a.kpi \in {"ctr", "cpc"}, "growth_on_clicks") \cup
    When(c.objective = "efficiency" /\ a.kpi = "ctr", "efficiency_on_ctr") \cup
    When(c.objective = "learning", "learning_phase")

BuildLimits(a, c, flat) ==
    {"one_dataset"} \cup SourceLimits(c) \cup AttributionLimits(a, c) \cup TargetLimits(a, c)
    \cup MixLimits(a, c) \cup SetAsideLimits(a) \cup NameLimits(a, c) \cup MergeLimits(a, c)
    \cup SampleLimits(a, c, flat) \cup QualityLimits(c) \cup ObjectiveLimits(a, c)
=============================================================================
