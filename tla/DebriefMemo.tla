---------------------------- MODULE DebriefMemo ----------------------------
(***************************************************************************)
(* The report written around the decision (modules/debrief/memo.ts,        *)
(* briefReadiness.ts, evidenceDiagnostic.ts): the next tests, the status   *)
(* of every ad, the verdict in the buyer's and the client's words, what    *)
(* not to do, the confidence and where the spend sat.  A sentence is       *)
(* reduced to what it claims: the ads it names, the counts and spend it    *)
(* gives, and the budget step it announces or rules out.                   *)
(*                                                                         *)
(* Of the user's context c this module also reads: market, the signals in  *)
(* the pasted notes (Null when there are none), and minBrief and           *)
(* lossMultiple, the user's bars for briefing a test.                      *)
(***************************************************************************)
EXTENDS DebriefDecision

CONSTANTS
    BriefMin,         \* BRIEF_READY_MIN_OUTCOMES
    LossMultiple,     \* LOSS_CONFIDENT_SPEND_MULTIPLE
    RebuildMultiple   \* REBUILD_MIN_CPP_MULTIPLE

ASSUME MemoConstants ==
    {BriefMin, LossMultiple, RebuildMultiple} \subseteq Nat \ {0}

Spend(a, s) == TotalSpend(a.ads, ToSet(s))
Count(S) == Cardinality(S)

\* The signals the pasted market notes can carry, by group.
FormatSignals == {"founder-led", "ugc", "video", "static"}
HookSignals == {"problem-first", "social-proof"}
Has(c, signal) == c.market # Null /\ signal \in c.market

----------------------------------------------------------------------------
(* The ads that were set aside *)

\* Those set aside for spend alone: the ones under the user's outcome
\* minimum and the ones with too little spend for a zero are named apart.
\* Mutant of SpendSetAside: the ads under the user's minimum stay in.
SpendSetAside_floorCounted(a) ==
    (IF a.gaps = Null THEN Len(a.ads) - Count(a.judged)
     ELSE a.gaps.belowGate + a.gaps.zeroLowSpend) - Count(a.thin)
SpendSetAside(a) ==
    (IF a.gaps = Null THEN Len(a.ads) - Count(a.judged) - Count(a.floorAside)
     ELSE a.gaps.belowGate + a.gaps.zeroLowSpend) - Count(a.thin)

----------------------------------------------------------------------------
(* Formats *)

\* The most common tag of a list of ads, the earliest one among equals.
DominantTag(a, s) ==
    LET Of(n) == Count({m \in DOMAIN s : a.ads[s[m]].tag = a.ads[s[n]].tag})
        named == {n \in DOMAIN s : a.ads[s[n]].tag # NoTag}
    IN  IF named = {} THEN [tag |-> Null, count |-> 0]
        ELSE LET n == CHOOSE n \in named :
                        \A m \in named : Of(n) > Of(m) \/ (Of(n) = Of(m) /\ n <= m)
             IN  [tag |-> a.ads[s[n]].tag, count |-> Of(n)]

ChallengerFormats == <<"ugc", "video", "static", "carousel">>

\* A static is challenged in motion and the other way round.
AllowedChallengers(control) ==
    CASE control = "static" -> <<"ugc", "video">>
      [] control \in {"ugc", "video"} -> <<"static">>
      [] OTHER -> SelectSeq(ChallengerFormats, LAMBDA f : f # control)

\* A format among the winners, else one no judged ad has, else the opposite
\* family; Null stands for the stock suggestion.
ChooseChallenger(a, control) ==
    LET allowed == AllowedChallengers(control)
        Wins(n) == Count({i \in ToSet(a.winners) : a.ads[i].tag = allowed[n]})
        winning == {n \in DOMAIN allowed : Wins(n) > 0}
        tagged == \E i \in a.ranked : a.ads[i].tag \in ToSet(ChallengerFormats)
        missing == {n \in DOMAIN allowed :
                       tagged /\ \A i \in a.ranked : a.ads[i].tag # allowed[n]}
    IN  CASE winning # {} ->
                 allowed[CHOOSE n \in winning :
                     \A m \in winning : Wins(n) > Wins(m) \/ (Wins(n) = Wins(m) /\ n <= m)]
          [] winning = {} /\ missing # {} -> allowed[Min(missing)]
          [] OTHER -> IF control \in {"static", "ugc", "video"} THEN Head(allowed) ELSE Null

\* The format of the ad the test builds on, else the winners' common one.
ControlFormat(a, lead) ==
    IF lead # Null /\ a.ads[lead].tag \in ToSet(ChallengerFormats)
    THEN a.ads[lead].tag ELSE DominantTag(a, a.winners).tag

----------------------------------------------------------------------------
(* Whether a test is ready to brief *)

\* How far the outcomes behind the ad the first test builds on go.
WinnerReadiness(a, c) ==
    LET bar == IF IsSet(c.minBrief) THEN c.minBrief ELSE BriefMin
        Ready(top) ==
            LET n == a.ads[top].conv
            IN  CASE ~HasOutcome(a.kpi) \/ top = Null -> Null
                  [] HasOutcome(a.kpi) /\ top # Null /\ n # Null /\ n < MinOutcomes -> "insufficient"
                  [] OTHER -> IF /\ n # Null /\ n >= bar
                                 /\ AheadBy(a, top, ScalePct)
                                 /\ PassesReceiverFloor(a, c, top)
                              THEN "ready" ELSE "directional"
    IN  Ready(EvidenceLead(a, c))

\* Whether the worst ad had its chance: a multiple of the target cost, or of
\* the minimum spend when there is none, which never makes it ready.
LoserReadiness(a, c) ==
    LET worst == First(a.losers)
        bar == IF IsSet(c.lossMultiple) THEN c.lossMultiple ELSE LossMultiple
    IN  CASE worst = Null -> Null
          [] worst # Null /\ IsSet(c.target) ->
                 IF a.ads[worst].spend >= bar * c.target THEN "ready" ELSE "insufficient"
          [] OTHER ->
                 IF a.gate.num > 0 /\ a.ads[worst].spend * a.gate.den >= bar * a.gate.num
                 THEN "directional" ELSE "insufficient"

Ladder(kpi) == CASE kpi \in {"purchases", "roas", "cpa"} ->
                        <<"add_to_cart", "content_view", "ctr", "cpm">>
                 [] kpi = "leads" -> <<"ctr", "cpm">>
                 [] OTHER -> <<>>

\* What to inspect upstream when the outcomes of an ad are too few or not in
\* the export: the first rung that both it and another ranked ad have.
EvidenceDiagnostic(a, top) ==
    LET few == a.ads[top].conv # Null /\ a.ads[top].conv < MinOutcomes
        shared == SelectSeq(Ladder(a.kpi), LAMBDA r :
                      r \in a.ads[top].rungs /\ \E i \in a.ranked \ {top} : r \in a.ads[i].rungs)
    IN  IF top = Null \/ ~HasOutcome(a.kpi) THEN Null
        ELSE IF a.ads[top].conv # Null /\ ~few THEN Null
        ELSE [trigger |-> IF few THEN "thin_volume" ELSE "unverifiable_volume",
              finding |-> First(shared)]

----------------------------------------------------------------------------
(* The next tests.  ad is the ad a test builds on, expects whether its      *)
(* hypothesis expects a lift (or only asks whether there is one), original  *)
(* what its setup says of the tested ad's own budget, because why the third *)
(* one is a challenger.                                                     *)

Test(kind, ad) ==
    [kind |-> kind, ad |-> ad, expects |-> TRUE, readiness |-> Null, diagnostic |-> Null,
     watch |-> Null, format |-> Null, original |-> "matched", because |-> Null, market |-> FALSE]

\* The first test: variants of the evidence lead, or of the leader on the
\* outcome KPI when the proxy's leader is below its median there.
FirstTest(a, c) ==
    LET Iterate(top, readiness) ==
            [Test("iterate", top) EXCEPT
                !.expects = readiness \in {Null, "ready"},
                !.readiness = readiness,
                !.diagnostic = EvidenceDiagnostic(a, top),
                !.watch = PassedOverLeader(a, c),
                !.market = Has(c, "founder-led") /\ a.ads[top].tag # "founder-led"]
    IN  CASE IsProxyOutcomeConflict(a) ->
                 [Test("outcome_leader", a.proxy.leader) EXCEPT !.expects = FALSE]
          [] ~IsProxyOutcomeConflict(a) /\ EvidenceLead(a, c) = Null ->
                 [Test("angles", Null) EXCEPT
                     !.market = c.market # Null /\ c.market \cap HookSignals # {}]
          [] OTHER -> Iterate(EvidenceLead(a, c), WinnerReadiness(a, c))

\* The ad to rebuild: the worst one, unless it is good on the outcome KPI.
Rebuildable(a) ==
    LET worst == First(a.losers)
    IN  IF worst # Null /\ a.proxy # Null /\ worst \in a.proxy.above THEN Null ELSE worst

\* It has spent enough to be called a loser worth a rebuild.
WorthRebuilding(a, worst) ==
    a.cpp = Null \/ a.ads[worst].spend * a.cpp.den >= RebuildMultiple * a.cpp.num

RebuildTest(a, c, worst) ==
    LET winning == DominantTag(a, a.winners).tag
        rebuild == [Test("rebuild", worst) EXCEPT
                       !.readiness = LoserReadiness(a, c),
                       !.expects = LoserReadiness(a, c) \in {Null, "ready"},
                       !.original = "reduce",
                       !.market = Has(c, "problem-first")]
    IN  CASE a.ads[worst].zero ->
                 [rebuild EXCEPT !.kind = "rebuild_zero", !.expects = FALSE, !.market = FALSE]
          [] ~a.ads[worst].zero /\ a.ads[worst].tag = "discount/promo" ->
                 [rebuild EXCEPT !.kind = "rebuild_discount"]
          [] OTHER ->
                 IF winning # Null /\ a.ads[worst].tag # winning
                 THEN [rebuild EXCEPT !.kind = "reshoot", !.format = winning]
                 ELSE [rebuild EXCEPT !.kind = "rebuild_hook"]

ChallengerTest(a, lead, kind) ==
    [Test(kind, lead) EXCEPT !.format = ChooseChallenger(a, ControlFormat(a, lead))]

\* The second test: rebuild the worst ad, or compare two naming values, or
\* challenge the best ad when none is failing; otherwise there is none.
SecondTest(a, c) ==
    LET worst == Rebuildable(a)
        top == IF IsProxyOutcomeConflict(a) THEN Null ELSE EvidenceLead(a, c)
    IN  CASE worst # Null -> IF WorthRebuilding(a, worst) THEN <<RebuildTest(a, c, worst)>>
                             ELSE IF NamingContrast(a) # Null
                             THEN <<[Test("contrast", Null) EXCEPT !.expects = FALSE]>>
                             ELSE <<>>
          [] worst = Null /\ a.losers = <<>> -> <<ChallengerTest(a, top, "challenge_best")>>
          [] OTHER -> <<>>

\* The third test is the one that may raise a budget, and only where the
\* decision adds budget without taking any.
\* Mutant of ThirdTest: the lead alone decides.
ThirdTest_leadOnly(a, c) ==
    IF RawScaleEligible(a) THEN Test("raise", Head(a.winners))
    ELSE ChallengerTest(a, Null, "challenge_format")
ThirdTest(a, c) ==
    LET scale == IsScaleActionSupported(a, c)
        shift == scale /\ IsCutActionSupported(a, c)
        top == IF IsProxyOutcomeConflict(a) THEN Null ELSE EvidenceLead(a, c)
    IN  CASE scale /\ ~shift -> [Test("raise", BudgetReceivers(a, c)[1]) EXCEPT !.original = "raise"]
          [] ~(scale /\ ~shift) /\ top # Null /\ Has(c, "bundle") ->
                 [Test("bundle", top) EXCEPT !.market = TRUE]
          [] OTHER ->
                 [ChallengerTest(a, top, "challenge_format") EXCEPT
                     !.because = IF shift THEN "shift_is_the_move"
                                 ELSE IF top # Null /\ AheadBy(a, top, ScalePct)
                                 THEN "no_budget_move_yet"
                                 ELSE IF DominantTag(a, a.winners).tag # Null
                                 THEN "lead_not_decisive" ELSE "no_format_wins"]

NextTests(a, c) == <<FirstTest(a, c)>> \o SecondTest(a, c) \o <<ThirdTest(a, c)>>

----------------------------------------------------------------------------
(* The status of every ranked ad *)

\* A Scale candidate is exactly an ad that receives budget.
AdStatus(a, c, i) ==
    LET receivers == IF IsScaleActionSupported(a, c) THEN ToSet(BudgetReceivers(a, c)) ELSE {}
        target == TargetFor(a, c)
        beats == target # Null /\ BeatsTarget(a, c, i)
        few == /\ HasOutcome(a.kpi) /\ a.ads[i].conv # Null
               /\ a.ads[i].conv < ReceiverOutcomeMin(c)
    IN  CASE Side(a, i) = "at" \/ IsNearMedian(a, i) -> "hold"
          [] Side(a, i) = "above" -> IF few THEN "wait"
                                     ELSE IF i \in receivers THEN "scale"
                                     ELSE IF target # Null /\ ~beats THEN "not_profitable"
                                     ELSE "keep"
          [] OTHER -> IF beats THEN "maintain" ELSE "reduce"

\* A loser that makes money, or may: reduce, but do not pause.  Without a
\* target only a ROAS at least half the median, or past the floor of 1.5.
TrimNote(a, c, i) ==
    IF TargetFor(a, c) # Null THEN BeatsTarget(a, c, i)
    ELSE /\ a.kpi = "roas" /\ a.median2 # Null
         /\ a.ads[i].value # Null /\ ~a.ads[i].zero
         /\ 2 * a.ads[i].value >= 3 \/ 4 * a.ads[i].value >= a.median2

\* What the report says of an ad against the user's target.
VsTarget(a, c, i) == CASE TargetFor(a, c) = Null -> Null
                       [] TargetFor(a, c) # Null /\ BeatsTarget(a, c, i) -> "beats"
                       [] OTHER -> "misses"

\* The outcome count under the table: that of the ad in its first row.
LeadingConversion(a, c) ==
    LET top == First(ByEvidence(a.winners, a, c))
    IN  IF ~HasOutcome(a.kpi) \/ top = Null THEN Null
        ELSE [ad |-> top, counted |-> a.ads[top].conv # Null]

\* A value that divides by a handful of outcomes.
FewOutcomesNote(a, i) ==
    a.kpi \in {"roas", "cpa"} /\ a.ads[i].conv # Null /\ a.ads[i].conv \in 1..(MinOutcomes - 1)

\* More than a quarter of its outcomes came without a click.
ViewThroughNote(a, i) ==
    LET v == a.ads[i].viewThrough
    IN  v # Null /\ v.click + v.view > 0 /\ 4 * v.view > v.click + v.view

\* The affected ads' most common window, the narrower among equals.
MajorityWindow(a) ==
    LET affected == IF a.attribution = Null THEN {} ELSE a.attribution.affected
        Of(w) == Count({i \in affected : a.ads[i].window = w})
        used == {w \in Windows : Of(w) > 0}
        Seen(w) == Min({i \in affected : a.ads[i].window = w})
        Before(w, v) == \/ Of(w) > Of(v)
                        \/ Of(w) = Of(v) /\ WindowWidth(w) < WindowWidth(v)
                        \/ /\ Of(w) = Of(v) /\ WindowWidth(w) = WindowWidth(v)
                           /\ Seen(w) <= Seen(v)
    IN  IF used = {} THEN Null ELSE CHOOSE w \in used : \A v \in used : Before(w, v)

\* What the card says about the windows of the ads that receive budget: which
\* of them are counted on a wider or a narrower one than most, and which
\* combine rows counted on several.
WindowNote(a, d) ==
    LET majority == MajorityWindow(a)
        width(i) == WindowWidth(a.ads[i].window)
        differing == {i \in ToSet(d.to) : /\ i \in a.attribution.affected
                                          /\ a.ads[i].window # majority}
        mixed == {i \in differing : a.ads[i].window = "mixed"}
        wider == {i \in differing \ mixed : width(i) > WindowWidth(majority)}
    IN  IF \/ a.attribution = Null \/ ~a.attribution.mixed
           \/ majority = Null \/ differing = {} THEN Null
        ELSE [wider |-> wider, mixed |-> mixed, narrower |-> differing \ (wider \cup mixed)]

\* The card's move is relative to the account, not to a profit.
ProfitUnknownNote(a, c) == TargetFor(a, c) = Null /\ a.kpi \in {"roas", "cpa"}

----------------------------------------------------------------------------
(* The verdict, to the buyer and to the client *)

AddsBudget(d) == d.action = "budget" /\ d.reason # "cut"
TakesBudget(d) == d.action = "budget" /\ d.reason # "scale"

\* The first line: the ads that earn the move, the leader that does not, or
\* nobody.
LeadLine(a, d) ==
    CASE AddsBudget(d) -> [says |-> "adds", ad |-> d.to[1], count |-> Len(d.to)]
      [] ~AddsBudget(d) /\ a.winners # <<>> ->
             [says |-> "leads_only", ad |-> Head(a.winners), count |-> 0]
      [] OTHER -> [says |-> IF a.median2 = Null THEN "not_enough" ELSE "flat", ad |-> Null, count |-> 0]

\* The second line: what is reduced and with how much spend behind it, and
\* how many ads are held near the median.
\* Mutant of ReduceLine: the whole pool below the median is named.
ReduceLine_wholePool(a, d) ==
    IF a.losers = <<>> THEN [says |-> "none", count |-> 0, spend |-> 0, held |-> 0]
    ELSE [says |-> IF TakesBudget(d) THEN "reduces" ELSE "below_only",
          count |-> Len(a.losers), spend |-> a.belowSpend, held |-> 0]
ReduceLine(a, d) ==
    CASE a.losers = <<>> -> [says |-> "none", count |-> 0, spend |-> 0, held |-> 0]
      [] a.losers # <<>> /\ TakesBudget(d) /\ HoldTotal(a) > 0 /\ TrimCandidates(a) # <<>> ->
             [says |-> "reduces", count |-> Len(TrimCandidates(a)),
              spend |-> Spend(a, TrimCandidates(a)), held |-> HoldTotal(a)]
      [] OTHER -> [says |-> IF TakesBudget(d) THEN "reduces" ELSE "below_only",
                   count |-> Len(a.losers), spend |-> a.belowSpend, held |-> 0]

NextLine(d) == IF d.action = "hold" THEN d.reason ELSE "tests"

Tldr(a, d) == [lead |-> LeadLine(a, d), reduce |-> ReduceLine(a, d), next |-> NextLine(d)]

\* The client is told how much of the reduced spend is under the breakeven,
\* and the count and spend of the trims alone.
ClientReduceLine(a, c, d) ==
    LET trims == TrimCandidates(a)
        under == IF TargetFor(a, c) = Null THEN Null
                 ELSE Spend(a, SelectSeq(trims, LAMBDA i : ~BeatsTarget(a, c, i)))
    IN  IF a.losers = <<>>
        THEN [says |-> "budgets_stay", count |-> 0, spend |-> 0, held |-> 0, under |-> Null]
        ELSE IF TakesBudget(d)
        THEN [says |-> "reduces", count |-> Len(trims), spend |-> Spend(a, trims),
              held |-> HoldTotal(a), under |-> under]
        ELSE [says |-> "keeps_steady", count |-> Len(a.losers), spend |-> a.belowSpend,
              held |-> 0, under |-> Null]

ClientSummary(a, c, d) ==
    [lead |-> LeadLine(a, d), reduce |-> ClientReduceLine(a, c, d), next |-> NextLine(d)]

\* The list of losers: in the order of the trims, and its instruction.
LosersSection(a, c, d) ==
    [rows     |-> TrimOrder(a),
     held     |-> {i \in ToSet(a.losers) : IsNearMedian(a, i)},
     noted    |-> {i \in ToSet(a.losers) : ~IsNearMedian(a, i) /\ TrimNote(a, c, i)},
     instruct |-> ReduceLine(a, d),
     client   |-> ClientReduceLine(a, c, d),
     setAside |-> SpendSetAside(a),
     noValue  |-> IF a.gaps = Null THEN 0 ELSE a.gaps.noValue,
     thin     |-> Count(a.thin),
     floor    |-> Count(a.floorAside)]

----------------------------------------------------------------------------
(* What not to do, and the patterns *)

\* Among the ads closest to the top by plain gap: half of the ranked ones,
\* those with no outcome last.
TopHalf(a) ==
    LET Ahead(i, j) == \/ ~a.ads[i].zero /\ a.ads[j].zero
                       \/ a.ads[i].zero = a.ads[j].zero /\ ~a.ads[i].zero
                             /\ a.delta2[i] > a.delta2[j]
                       \/ /\ a.ads[i].zero = a.ads[j].zero
                          /\ a.ads[i].zero \/ a.delta2[i] = a.delta2[j]
                          /\ i < j
    IN  ToSet(Upto(Sorted(a.ranked, Ahead), (Count(a.ranked) + 1) \div 2))

\* A format not to feed: two losers share it and none of it is near the top.
AvoidFormat(a) ==
    LET t == DominantTag(a, a.losers)
    IN  IF a.losers # <<>> /\ a.ads[Head(a.losers)].tag = "discount/promo" THEN "discount/promo"
        ELSE IF t.count >= 2 /\ \A i \in TopHalf(a) : a.ads[i].tag # t.tag THEN t.tag
        ELSE Null

\* What it says of scaling follows the decision; Null when it says nothing.
AvoidBudget(a, d) ==
    CASE a.winners = <<>> -> IF a.median2 = Null THEN Null ELSE "nothing_ahead"
      [] a.winners # <<>> /\ ~HasPct(a, Head(a.winners)) -> Null
      [] OTHER -> IF AddsBudget(d) THEN "only_the_receivers"
                  ELSE IF AheadBy(a, Head(a.winners), ScalePct) THEN "not_yet" ELSE "lead_too_small"

Avoid(a, c, d) == [format |-> AvoidFormat(a), budget |-> AvoidBudget(a, d),
                   setAside |-> SpendSetAside(a), market |-> c.market # Null]

\* A format is called a pattern only where the names carry a signal; average
\* spends are compared with a margin of a fifth.
Patterns(a) ==
    LET w == Len(a.winners)
        l == Len(a.losers)
        Signal(s) == IF a.nameSignal THEN DominantTag(a, s).tag ELSE Null
        both == w > 0 /\ l > 0
    IN  [winners  |-> Signal(a.winners),
         losers   |-> Signal(a.losers),
         spending |-> CASE both /\ 5 * a.aboveSpend * l > 6 * a.belowSpend * w -> "winners"
                        [] both /\ 5 * a.belowSpend * w > 6 * a.aboveSpend * l -> "losers"
                        [] OTHER -> Null]

\* What the market notes suggest for the leader; Null without notes.
MarketSignal(a, c) ==
    LET top == First(a.winners)
    IN  IF c.market = Null THEN Null
        ELSE CASE top # Null /\ Has(c, "founder-led") /\ a.ads[top].tag # "founder-led" -> "founder-led"
               [] /\ top # Null /\ Has(c, "bundle")
                  /\ ~Has(c, "founder-led") \/ a.ads[top].tag = "founder-led" -> "bundle"
               [] OTHER -> IF top # Null /\ c.market \cap FormatSignals # {} THEN "format" ELSE "tests_only"

----------------------------------------------------------------------------
(* Confidence *)

FromEvidence(e) == CASE e = "supported" -> "high" [] e = "limited" -> "medium" [] OTHER -> "low"

\* Why the decision may be less safe than the evidence is clear.
\* Mutant of DecisionCaps: the missing breakeven is not one of them.
DecisionCaps_noBreakeven(a, c) ==
    IF a.stagesMixed /\ a.stages = {} THEN {"stages_mixed"} ELSE {}
DecisionCaps(a, c) ==
    LET receivers == IF IsScaleActionSupported(a, c) THEN ToSet(BudgetReceivers(a, c)) ELSE {}
        unstaged == {i \in receivers : a.ads[i].stage \notin a.stages}
    IN  (IF TargetFor(a, c) = Null THEN {"no_breakeven"} ELSE {}) \cup
        (IF /\ a.attribution # Null /\ a.attribution.mixed
            /\ \/ receivers = {}
               \/ a.attribution.scope = "all"
               \/ \E i \in receivers : FormatClass(a.ads[i]) # "static"
         THEN {"windows_mixed"} ELSE {}) \cup
        (IF a.stagesMixed /\ a.stages = {} THEN {"stages_mixed"}
         ELSE IF a.stagesMixed /\ unstaged # {} THEN {"receivers_unstaged"} ELSE {})

ConfidenceNotes(a, c) ==
    LET OrNone(caveats) == IF caveats = {} THEN {"no_caveats"} ELSE caveats
    IN  OrNone(When(SpendSetAside(a) > 0, "set_aside")
               \cup When(a.floorAside # {}, "below_your_minimum")
               \cup When(a.gaps # Null, "no_value")
               \cup When(~c.hasName, "no_ad_names")
               \cup When(~c.hasDates, "no_dates")
               \cup When(a.median2 = Null, "no_benchmark")
               \cup When(VolumeBelowFloor(a, c), "thin_volume")
               \cup When(c.days # Null /\ c.days < ShortDays, "short_window"))

\* Why the level is what it is.
ConfidenceReasons(a, c, d) ==
    LET lead == EvidenceLead(a, c)
        level == FromEvidence(d.evidence)
        small == Len(a.winners) < GroupMin \/ Len(a.losers) < GroupMin
    IN  CASE level = "high" ->
                 {"fair_sample"} \cup
                 (IF d.shape = "flatness" THEN {"flat"}
                  ELSE When(lead # Null /\ AheadBy(a, lead, ScalePct), "clear_lead")
                       \cup When(a.losers # <<>> /\ a.belowSpend > 0, "cut_material"))
          [] level = "medium" ->
                 When(Judged(a) < SupportedJudged, "few_judged")
                 \cup When(d.shape # "flatness" /\ small, "small_groups")
                 \cup When(~a.complete, "missing_columns")
                 \cup When(~a.nameSignal, "names_only")
                 \cup When(VolumeBelowFloor(a, c), "thin_volume")
                 \cup When(lead # Null /\ HasPct(a, lead) /\ ~AheadBy(a, lead, ScalePct), "moderate_lead")
                 \cup When(ReceiverBelowHighBar(a, c) /\ ~VolumeBelowFloor(a, c), "moderate_volume")
          [] OTHER ->
                 {"ideas_only"} \cup When(a.median2 = Null, "no_benchmark")
                 \cup When(Judged(a) < MinJudged, "few_judged")

\* The client is told a number of sales only when every receiver has it.
ClientVolumeClaim(a, c, d) ==
    /\ d.to # <<>> /\ d.shape # "flatness" /\ FromEvidence(d.evidence) = "high"
    /\ \A i \in ToSet(BudgetReceivers(a, c)) :
           a.ads[i].conv # Null /\ a.ads[i].conv >= HighMultiple * ReceiverOutcomeMin(c)

Confidence(a, c, d) ==
    LET level == FromEvidence(d.evidence)
        caps == DecisionCaps(a, c)
    IN  [level    |-> level,
         decision |-> IF level = "high" /\ caps # {} THEN "medium" ELSE level,
         caps     |-> caps,
         notes    |-> ConfidenceNotes(a, c),
         reasons  |-> ConfidenceReasons(a, c, d),
         client   |-> ClientVolumeClaim(a, c, d)]

----------------------------------------------------------------------------
(* Where the judged spend sat; Null when none was judged *)

SpendAllocation(a) ==
    LET segments == [below |-> a.belowSpend, at |-> a.atSpend, above |-> a.aboveSpend]
        counts == [below |-> Len(a.losers), at |-> Count(a.at), above |-> Len(a.winners)]
    IN  IF a.judgedSpend <= 0 THEN Null
        ELSE [segments |-> {s \in DOMAIN counts : counts[s] > 0},
              spends   |-> segments,
              setAside |-> TotalSpend(a.ads, DOMAIN a.ads) - a.judgedSpend,
              headline |-> CASE a.losers # <<>> -> "below"
                             [] a.losers = <<>> /\ a.winners # <<>> -> "above"
                             [] OTHER -> "at"]

----------------------------------------------------------------------------
(* What the masthead says of the comparison *)

StageScope(a) ==
    [medians |-> a.stages,
     overall |-> IF a.stages = {} THEN {} ELSE {i \in a.ranked : a.ads[i].stage \notin a.stages},
     warning |-> a.stagesMixed /\ a.stages = {}]

AttributionScope(a) ==
    IF a.attribution = Null \/ ~a.attribution.mixed THEN Null ELSE a.attribution.scope

\* How many ranked ads meet the user's target.
TargetSummary(a, c) ==
    IF TargetFor(a, c) = Null THEN Null
    ELSE [beat |-> Count({i \in a.ranked : BeatsTarget(a, c, i)}), judged |-> Count(a.ranked)]

\* The report around the tests and the call.
Memo(a, c, tests, d) ==
    [tests      |-> tests,
     decision   |-> d,
     window     |-> WindowNote(a, d),
     relative   |-> d.action = "budget" /\ ProfitUnknownNote(a, c),
     stages     |-> StageScope(a),
     attribution |-> AttributionScope(a),
     target     |-> TargetSummary(a, c),
     tldr       |-> Tldr(a, d),
     client     |-> ClientSummary(a, c, d),
     winners    |-> ByEvidence(a.winners, a, c),
     leading    |-> LeadingConversion(a, c),
     vsTarget   |-> [i \in a.ranked |-> VsTarget(a, c, i)],
     status     |-> [i \in a.ranked |-> AdStatus(a, c, i)],
     few        |-> {i \in a.ranked : FewOutcomesNote(a, i)},
     unclicked  |-> {i \in a.ranked : ViewThroughNote(a, i)},
     losers     |-> LosersSection(a, c, d),
     patterns   |-> Patterns(a),
     naming     |-> NamingPatterns(a),
     namingLine |-> NamingClientLine(a),
     thinSpread |-> a.spreadThin,
     market     |-> MarketSignal(a, c),
     avoid      |-> Avoid(a, c, d),
     confidence |-> Confidence(a, c, d),
     allocation |-> SpendAllocation(a)]
MemoAround(a, c, tests) == Memo(a, c, tests, Decide(a, c, Head(tests).kind))
GenerateMemo(a, c) == MemoAround(a, c, NextTests(a, c))
=============================================================================
