----------------------------- MODULE DebriefRun -----------------------------
(***************************************************************************)
(* One request to the debrief (POST in app/api/debrief/route.ts): the form *)
(* is read, the export checked and extracted, the export of the previous   *)
(* period checked, the ads analyzed, the report composed, and the user's   *)
(* groups and the comparison attached before it is sent.  Nothing is kept: *)
(* an error anywhere answers without a report.                             *)
(*                                                                         *)
(* A request is a record [problems, file, prev, context, overrides,        *)
(* declared]: what is wrong with its form, the export and that of the      *)
(* previous period (Null without one), what the user asked, the formats    *)
(* the user confirmed and the groups the user declared.                    *)
(***************************************************************************)
EXTENDS DebriefMemo, DebriefCompare, ExportCheck

CONSTANTS
    Cases,            \* names of the requests the instance sends
    RequestOf(_)      \* the request of a name

\* An export is a list of rows, and the cells that are read are numbers.
IsExport(file) ==
    /\ IsList(file.rows)
    /\ \A n \in DOMAIN file.rows :
           \A f \in DOMAIN file.rows[n].cells : file.rows[n].cells[f] \in Int

\* The numbers the user typed were read as numbers, and Null is apart from
\* how ready a test is and from what a proxy run is read against.
ASSUME RequestsAssumption ==
    /\ \A x \in Cases :
           /\ IsExport(RequestOf(x).file)
           /\ RequestOf(x).prev # Null => IsExport(RequestOf(x).prev)
           /\ "minOutcome" \in DOMAIN RequestOf(x).context
           /\ RequestOf(x).context.minOutcome \in Int \cup {Null}
    /\ Null \notin {"ready", "directional", "insufficient"}
    /\ Null \notin [below : SUBSET Nat, above : SUBSET Nat, leader : Nat \cup {Null}]

VARIABLES
    phase,            \* how far the handler is
    request,          \* what it was sent
    context,          \* what the user asked, with what is read from the file
    ads,              \* the ads of the export
    prevAds,          \* those of the previous period, Null without one
    analysis,         \* what the analysis found
    memo,             \* the report
    reply             \* what is sent: [status, why, memo]

vars == <<phase, request, context, ads, prevAds, analysis, memo, reply>>

Init ==
    /\ phase = "received"
    /\ \E x \in Cases : request = RequestOf(x)
    /\ context = Null
    /\ ads = <<>>
    /\ prevAds = Null
    /\ analysis = Null
    /\ memo = Null
    /\ reply = Null

PrevContext == InContext(request.context, request.prev)

Refuse(status, why) ==
    /\ reply' = [status |-> status, why |-> why, memo |-> Null]
    /\ phase' = "sent"
    /\ UNCHANGED <<request, context, ads, prevAds, analysis, memo>>

----------------------------------------------------------------------------
(* The request is checked *)

\* The form is refused at the first of its fields that cannot be used; a
\* number the user typed is never ignored.
FormOrder == <<"unreadable", "no_file", "invalid_kpi", "invalid_criterion", "bad_formats", "bad_groups">>

ReadForm ==
    /\ phase = "received"
    /\ LET problem == First(SelectSeq(FormOrder, LAMBDA p : p \in request.problems))
       IN  IF problem # Null
           THEN Refuse(400, problem)
           ELSE /\ phase' = "read"
                /\ UNCHANGED <<request, context, ads, prevAds, analysis, memo, reply>>

ReadExport ==
    /\ phase = "read"
    /\ \E refused \in {RequestCheck(request.file, request.context.kpi)} :
           IF refused # Null
           THEN Refuse(400, refused)
           ELSE /\ ads' = ApplyFormatOverrides(AdsOf(request.file, request.context.kpi),
                                              request.overrides)
                /\ context' = InContext(request.context, request.file)
                /\ phase' = "checked"
                /\ UNCHANGED <<request, prevAds, analysis, memo, reply>>

ReadPrevious ==
    /\ phase = "checked"
    /\ \E refused \in {IF request.prev = Null THEN Null
                       ELSE PreviousCheck(request.prev, request.file, request.context.kpi)} :
           IF refused # Null
           THEN Refuse(400, <<"previous", refused>>)
           ELSE /\ prevAds' = IF request.prev = Null THEN Null
                              ELSE AdsOf(request.prev, request.context.kpi)
                /\ phase' = "extracted"
                /\ UNCHANGED <<request, context, ads, analysis, memo, reply>>

----------------------------------------------------------------------------
(* The report is made *)

AnalyzeAds ==
    /\ phase = "extracted"
    /\ analysis' = Analyze(ads, context)
    /\ phase' = "analyzed"
    /\ UNCHANGED <<request, context, ads, prevAds, memo, reply>>

ComposeMemo ==
    /\ phase = "analyzed"
    /\ memo' = GenerateMemo(analysis, context)
    /\ phase' = "composed"
    /\ UNCHANGED <<request, context, ads, prevAds, analysis, reply>>

AttachGroups ==
    /\ phase = "composed"
    /\ memo' = With(memo, [groups |-> SummarizeCreativeGroups(analysis, request.declared)])
    /\ phase' = "grouped"
    /\ UNCHANGED <<request, context, ads, prevAds, analysis, reply>>

Current == [ads |-> ads, a |-> analysis, dates |-> request.file.dates]
Previous == [ads |-> prevAds, a |-> Analyze(prevAds, PrevContext), dates |-> request.prev.dates]

AttachComparison ==
    /\ phase = "grouped"
    /\ memo' = With(memo, [comparison |-> IF prevAds = Null THEN Null
                                          ELSE BuildComparison(Current, Previous)])
    /\ phase' = "attached"
    /\ UNCHANGED <<request, context, ads, prevAds, analysis, reply>>

Send ==
    /\ phase = "attached"
    /\ reply' = [status |-> 200, why |-> Null, memo |-> memo]
    /\ phase' = "sent"
    /\ UNCHANGED <<request, context, ads, prevAds, analysis, memo>>

Next ==
    \/ ReadForm
    \/ ReadExport
    \/ ReadPrevious
    \/ AnalyzeAds
    \/ ComposeMemo
    \/ AttachGroups
    \/ AttachComparison
    \/ Send

Spec == Init /\ [][Next]_vars

----------------------------------------------------------------------------
(* Properties *)

Composed == memo # Null
Decision == memo.decision
Receivers == ToSet(Decision.to)
Trims == ToSet(Decision.from)

\* The card, the summary, the client summary and the losers list take budget
\* from the same ads, with the same spend behind them, and none of them takes
\* any when the decision does not (memo.ts 697-785, 2219-2292; decision.ts).
\* An ad is called a candidate to scale exactly when it receives budget, one
\* that loses budget is never called a keeper, and the number of ads the card
\* holds is the number that the table does (memo.ts 587-620).
RegistersAgree ==
    Composed =>
        /\ LET told == {[count |-> r.count, spend |-> r.spend] :
                           r \in {memo.tldr.reduce, memo.client.reduce,
                                  memo.losers.instruct, memo.losers.client}}
               says == {memo.tldr.reduce.says, memo.client.reduce.says, memo.losers.instruct.says}
           IN  IF TakesBudget(Decision)
               THEN /\ told = {[count |-> Len(Decision.from), spend |-> Spend(analysis, Decision.from)]}
                    /\ says = {"reduces"}
                    /\ Decision.from # <<>>
               ELSE Decision.from = <<>> /\ "reduces" \notin says
        /\ {i \in analysis.ranked : memo.status[i] = "scale"} = Receivers
        /\ \A i \in Trims : memo.status[i] \in {"reduce", "maintain"}
        /\ TakesBudget(Decision) =>
               /\ Decision.holds = Cardinality({i \in analysis.ranked : memo.status[i] = "hold"})
               /\ Decision.holds + Len(Decision.from) + Len(analysis.winners)
                  = Cardinality(analysis.ranked)

\* The tests never work against the call: a raise is proposed only for the ad
\* the call scales, the first test builds on the first receiver of a move, a
\* test on evidence that is still diagnosed promises nothing, and no ad that
\* receives budget is rebuilt (memo.ts 1269-2088).
TestsFollowTheMove ==
    Composed =>
        LET tests == memo.tests
        IN  /\ \A t \in ToSet(tests) :
                   /\ t.kind = "raise" => Decision.reason = "scale" /\ t.ad = Decision.to[1]
                   /\ t.diagnostic # Null => ~t.expects
                   /\ t.original = "reduce" => t.ad \notin Receivers
            /\ Decision.to # <<>> => tests[1].ad = Decision.to[1]
            /\ Decision.reason = "scale" => tests[Len(tests)].kind = "raise"

\* What the limits say of one cause for which ads were set aside.
AsideCauses == {"no_value", "no_outcome", "too_little_spend", "no_outcome_low_spend",
                "below_your_minimum"}
AsideFor(a, cause) ==
    LET said == {p \in SetAsideParts(a) : p.cause = cause}
    IN  IF said = {} THEN 0 ELSE (CHOOSE p \in said : TRUE).ads

\* Every ad of the export is judged or counted once among those set aside,
\* under the list of losers and again among the limits, which part them by
\* cause and give one count for each (memo.ts 85-101, analysis.ts 550-604,
\* decision.ts 695-740).
SetAsideAccounted ==
    Composed =>
        /\ memo.losers.setAside >= 0
        /\ memo.losers.setAside + memo.losers.noValue + memo.losers.thin + memo.losers.floor
           = Len(ads) - Judged(analysis)
        /\ \A p, q \in SetAsideParts(analysis) :
               p.cause \in AsideCauses /\ (p.cause = q.cause => p = q)
        /\ AsideFor(analysis, "no_value") + AsideFor(analysis, "no_outcome")
           + AsideFor(analysis, "too_little_spend") + AsideFor(analysis, "no_outcome_low_spend")
           + AsideFor(analysis, "below_your_minimum")
           + (IF analysis.gaps = Null THEN memo.losers.thin + memo.losers.floor ELSE 0)
           = Len(ads) - Judged(analysis)

\* A decision is called high confidence only with a breakeven that every
\* receiver meets, and outcomes past the high bar wherever they are counted
\* (memo.ts 371-410, decision.ts 597-630).
HighConfidenceEarned ==
    Composed /\ memo.confidence.decision = "high" =>
        /\ TargetFor(analysis, context) # Null
        /\ \A i \in Receivers :
               /\ BeatsTarget(analysis, context, i)
               /\ ads[i].conv # Null => ads[i].conv >= HighMultiple * ReceiverOutcomeMin(context)

\* A run on a proxy whose export has an outcome KPI moves no money, and its
\* first test does not build on an ad below the median of that KPI, unless
\* that is an ad without an outcome that leads on it all the same
\* (decision.ts 175-179, 215-219; memo.ts 1488-1690; analysis.ts 529-541).
ProxyMovesNoMoney ==
    Composed /\ IsProxyWithOutcome(analysis, context) =>
        /\ Decision.action # "budget"
        /\ "scale" \notin {memo.status[i] : i \in analysis.ranked}
        /\ \A t \in ToSet(memo.tests) : t.kind # "raise"
        /\ LET built == memo.tests[1].ad
           IN  built # Null /\ built \in analysis.proxy.below =>
                   built = analysis.proxy.leader /\ ads[built].other.zero

\* The call looks at the two ends of the sorted lists only, and what it
\* concludes holds of every judged ad: in a field called flat each is near
\* its benchmark, if that is not zero; where nothing is said to clear the bar to scale, none does;
\* and where no budget is taken though the ads below the median hold enough of
\* the spend, none is far behind or without an outcome (decision.ts 185-215,
\* 446-480, 1876-2140; analysis.ts 100-125).
ExtremesSpeakForAll ==
    Composed =>
        LET a == analysis
        IN  /\ Decision.reason = "flat_performance" =>
                   \A i \in a.ranked \ a.at :
                       a.bench2[i] # 0 => NotAheadBy(a, i, FlatPct) /\ NotBehindBy(a, i, FlatPct)
            /\ \/ Decision.reason = "nothing_clears"
               \/ Decision.move # Null /\ Decision.move.noRaise = "nothing_clears"
               => \A i \in a.ranked : ~AheadBy(a, i, ScalePct)
            /\ /\ Judged(a) >= MinJudged
               /\ ~TakesBudget(Decision)
               /\ ~IsProxyWithOutcome(a, context)
               /\ Share(a.belowSpend, a.judgedSpend, CutSharePct)
               => \A i \in a.ranked : ~ads[i].zero /\ ~BehindBy(a, i, ScalePct)

Comparison == IF phase \in {"attached", "sent"} /\ Composed THEN memo.comparison ELSE Null
Keys(period) == [n \in DOMAIN period |-> KeyOf(period[n], Comparison.basis)]

\* Matching never guesses (compare.ts, the contract at its head): every ad is
\* matched, new or counted as unmatchable; an ad said to have come or gone
\* has a key the other export has nowhere, and one matched has a key that
\* names a single ad of each.
MatchingNeverGuesses ==
    Comparison # Null =>
        LET c == Comparison
            Named(period, k) == {n \in DOMAIN period : Keys(period)[n] = k}
        IN  /\ c.matched \cup c.appeared \cup c.ambiguous = DOMAIN ads
            /\ \A n \in c.matched, p \in {ads, prevAds} : Cardinality(Named(p, Keys(ads)[n])) = 1
            /\ \A n \in c.appeared : Named(prevAds, Keys(ads)[n]) = {}
            /\ \A n \in c.disappeared : Named(ads, Keys(prevAds)[n]) = {}
=============================================================================
