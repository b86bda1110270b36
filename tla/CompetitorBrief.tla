--------------------------- MODULE CompetitorBrief ---------------------------
(***************************************************************************)
(* The competitor debrief itself (modules/competitorDebrief/engine.ts,     *)
(* strategicPatterns.ts and internalLearnings.ts, behind                   *)
(* app/api/competitor-debrief/route.ts): what is read out of the texts a   *)
(* request carries, the tests it leads to, and what the team's own         *)
(* learnings make of them.                                                 *)
(*                                                                         *)
(* A learning is a record with outcome, the words of its text and, for     *)
(* "X outperforms Y", the words of X (winner) and Y (loser).               *)
(***************************************************************************)
EXTENDS AdText

CONSTANTS MaxAdTexts,      \* MAX_AD_TEXTS of the route
          MaxTests         \* the tests a debrief shows

ASSUME BriefAssumption == {MaxAdTexts, MaxTests} \subseteq Nat \ {0}

\* What is looked for across ads, by section of the report.
Sections ==
    [dominantNarrative  |-> <<"metabolism / metabolic mechanism">>,
     problemFraming     |-> <<"cravings", "slowed metabolism">>,
     enemyOrAlternative |-> <<"injections / needles">>,
     desiredOutcome     |-> <<"control">>,
     proofStrategy      |-> <<"customer-count social proof", "clinically studied">>,
     offerCtaStrategy   |-> <<"deep discount", "quiz funnel">>,
     creativeStructure  |-> <<"testimonial / first-person story", "mechanism explanation">>]

Unobserved == "unobserved"
At(list, i) == IF list = <<>> THEN Unobserved ELSE list[(i % Len(list)) + 1]
First(list) == IF list = <<>> THEN Unobserved ELSE list[1]
Else(label, other) == IF label = Unobserved THEN other ELSE label
Among(list, labels) == Picked(list, {i \in 1 .. Len(list) : list[i] \in labels})
Has(list, labels) == ToSet(list) \cap labels # {}

-----------------------------------------------------------------------------
(* The evidence of everything that was sent, and the rules over it.        *)

Evidence(says) == [c \in DOMAIN Tables |-> Among(Tables[c], says)]
Insufficient(says) == \A c \in DOMAIN Tables : Evidence(says)[c] = <<>>

HookSlot(e, i) == Else(At(e.hooks, i), At(e.positioning, i))

RuleOrder == <<"problem-first-proof-guarantee", "routine-direct-response",
               "natural-clinical-tension", "founder-ugc-authenticity", "before-after-benefit-proof",
               "subscription-bundle-guarantee", "trust-stacking-weak-hook", "offer-led-no-proof">>

\* SYNTHESIS_RULES: when each applies.
Applies(rule, e) ==
    CASE rule = "problem-first-proof-guarantee" ->
             /\ Has(e.hooks, {"problem-first hooks"}) /\ Has(e.trust, {"testimonials"})
             /\ Has(e.trust \o e.hooks, {"guarantee / risk-reversal"})
      [] rule = "routine-direct-response" ->
             Has(e.positioning, {"routine-based"}) /\ Has(e.offers, {"discounts", "bundle offers"})
      [] rule = "natural-clinical-tension" ->
             Has(e.positioning, {"natural / clean"}) /\ Has(e.trust, {"clinical claims"})
      [] rule = "founder-ugc-authenticity" ->
             /\ Has(e.positioning, {"founder-led"}) \/ Has(e.formats, {"founder-led video"})
             /\ Has(e.formats, {"UGC / creator content"})
      [] rule = "before-after-benefit-proof" -> Has(e.hooks, {"before/after framing"})
      [] rule = "subscription-bundle-guarantee" ->
             Has(e.offers, {"bundle offers"}) /\ Has(e.trust, {"guarantee / risk-reversal"})
      [] rule = "trust-stacking-weak-hook" -> Len(e.trust) >= 3 /\ e.hooks = <<>>
      [] OTHER -> e.offers # <<>> /\ e.trust = <<>>

\* ... and the test it builds: a label of the rule, or what was seen, in turn.
RuleTest(rule, e, i) ==
    [from  |-> rule,
     hook  |-> IF rule \in {"subscription-bundle-guarantee", "offer-led-no-proof"}
               THEN HookSlot(e, i) ELSE rule,
     format |-> CASE rule = "founder-ugc-authenticity" ->
                       At(Among(e.formats, {"UGC / creator content", "founder-led video"}), i)
                  [] rule = "before-after-benefit-proof" ->
                       Else(At(Among(e.formats, {"carousels"}), i), At(e.formats, i))
                  [] OTHER -> At(e.formats, i),
     proof |-> CASE rule = "problem-first-proof-guarantee" -> "testimonials"
                 [] rule = "natural-clinical-tension" -> "clinical claims"
                 [] rule = "before-after-benefit-proof" -> "before/after visual proof"
                 [] rule = "subscription-bundle-guarantee" -> "guarantee / risk-reversal"
                 [] OTHER -> At(e.trust, i),
     offer |-> IF rule = "subscription-bundle-guarantee" THEN "bundle offers" ELSE At(e.offers, i)]

\* generalCombinationTest.
Combination(e, i) ==
    [from |-> "combination",
     hook |-> IF i < Len(e.hooks) THEN e.hooks[i + 1]
              ELSE IF i < Len(e.positioning) THEN e.positioning[i + 1] ELSE HookSlot(e, i),
     format |-> At(e.formats, i), proof |-> At(e.trust, i), offer |-> At(e.offers, i)]

\* Two tests have one hypothesis.
SameHypothesis(a, b) == IF a.from = "combination" THEN a = b ELSE a.from = b.from
AddTest(tests, t) ==
    IF \E k \in 1 .. Len(tests) : SameHypothesis(tests[k], t) THEN tests ELSE Append(tests, t)

\* buildSynthesis: the rules that apply, filled up with combinations. (Its
\* last resort, fallbackTest, is never reached: the first combination is new.)
Synthesis(e) ==
    LET rules == SelectSeq(RuleOrder, LAMBDA r : Applies(r, e))
        ruled == [i \in 1 .. (IF Len(rules) < 4 THEN Len(rules) ELSE 4) |->
                     RuleTest(rules[i], e, i - 1)]
    IN  FoldLeft(LAMBDA tests, i : IF Len(tests) < 3 THEN AddTest(tests, Combination(e, i)) ELSE tests,
                 ruled, <<0, 1, 2>>)

-----------------------------------------------------------------------------
(* The patterns across ads.                                                *)

\* detect, and detectStructureLabels: an explanation takes a mechanism too.
LabelsOf(text, section) ==
    LET found == Among(Sections[section], Themes(text))
    IN  IF Has(Sections.dominantNarrative, Themes(text))
        THEN found ELSE Among(found, ToSet(found) \ {"mechanism explanation"})

\* recurring: the labels of two ads or more, in the order they came up.
\* Mutant of Recurring: one ad is a pattern.
Recurring_once(texts, section) ==
    Firsts(Joined([i \in 1 .. Len(texts) |-> LabelsOf(texts[i], section)]))
Recurring(texts, section) ==
    LET order == Firsts(Joined([i \in 1 .. Len(texts) |-> LabelsOf(texts[i], section)]))
        counts(l) == Cardinality({i \in 1 .. Len(texts) : l \in ToSet(LabelsOf(texts[i], section))})
    IN  Among(order, {l \in ToSet(order) : counts(l) >= 2})

\* detectStrategicPatterns.
Patterns(texts) ==
    [s \in DOMAIN Sections |-> IF Len(texts) < 2 THEN <<>> ELSE Recurring(texts, s)]

StrategicOrder == <<"craving-vs-metabolism", "testimonial-vs-mechanism", "anti-injection",
                    "quiz-vs-discount", "count-vs-ingredient">>

\* STRATEGIC_TEST_RULES.
StrategicApplies(rule, p) ==
    CASE rule = "craving-vs-metabolism" ->
             /\ Has(p.problemFraming, {"cravings"})
             /\ p.dominantNarrative # <<>> \/ Has(p.problemFraming, {"slowed metabolism"})
      [] rule = "testimonial-vs-mechanism" -> Len(p.creativeStructure) = 2
      [] rule = "anti-injection" -> p.enemyOrAlternative # <<>>
      [] rule = "quiz-vs-discount" -> Len(p.offerCtaStrategy) = 2
      [] OTHER -> Len(p.proofStrategy) = 2

StrategicTest(rule, p) ==
    [from |-> rule,
     hook |-> IF rule \in {"quiz-vs-discount", "count-vs-ingredient"}
              THEN Else(At(p.dominantNarrative, 0), "hold the hook") ELSE rule,
     format |-> Else(At(p.creativeStructure, 0), "hold the format"),
     proof |-> IF rule = "count-vs-ingredient" THEN rule
               ELSE Else(At(p.proofStrategy, 0), "hold the proof"),
     offer |-> IF rule = "quiz-vs-discount" THEN rule
               ELSE Else(At(p.offerCtaStrategy, 0), "hold the offer")]

StrategicTests(p) ==
    LET rules == SelectSeq(StrategicOrder, LAMBDA r : StrategicApplies(r, p))
    IN  [i \in 1 .. Len(rules) |-> StrategicTest(rules[i], p)]

\* buildStrategicSummary: two of its four clauses, or none.
HasSummary(p) ==
    Cardinality({s \in {"dominantNarrative", "enemyOrAlternative", "proofStrategy",
                        "offerCtaStrategy"} : p[s] # <<>>}) >= 2

-----------------------------------------------------------------------------
(* The team's own learnings, applied to the finished tests.                *)

Lesser(a, b) == IF a < b THEN a ELSE b

\* termsOverlap: two shared words and 40 % of the shorter, or one that is two thirds of it.
Overlap(a, b) ==
    LET shared == Cardinality(a \cap b)
        shorter == Lesser(Cardinality(a), Cardinality(b))
    IN  /\ shared > 0
        /\ IF shared >= 2 THEN 10 * shared >= 4 * shorter ELSE 3 * shared >= 2 * shorter

\* The two sides of a hook "A vs. B", as words.
Sides(label) ==
    CASE label = "craving-vs-metabolism" ->
             <<{"craving", "control", "story"}, {"metabolism", "root", "cause", "story"}>>
      [] label = "testimonial-vs-mechanism" ->
             <<{"testimonial", "person", "opening"}, {"mechanism", "explanation", "opening"}>>
      [] label = "anti-injection" ->
             <<{"explicit", "anti", "injection", "contrast"}, {"neutral", "benefit", "framing"}>>
      [] OTHER -> <<>>

\* normalizeTerms: the words of a label that count.
Words(label) ==
    CASE Sides(label) # <<>> -> Sides(label)[1] \cup Sides(label)[2]
      [] label = "quiz-vs-discount" -> {"quiz", "funnel", "cta", "direct", "discount"}
      [] label = "deep discount" -> {"deep", "discount"}
      [] label = "quiz funnel" -> {"quiz", "funnel"}
      [] label = "discounts" -> {"discount"}
      [] label = "injections / needles" -> {"injection", "needl"}
      [] OTHER -> {label}

\* parseInternalLearnings: every line once.
ParseLearnings(lines) == Firsts(lines)

Flags(learning) == learning.outcome \in {"failed", "avoid"}
Endorses(learning) == learning.outcome \in {"worked", "learning"}
Touches(learning, label) == Overlap(Words(label), learning.words)

\* ANGLE_EVIDENCE_FIELDS, and findAlternativeAngle: an angle of the debrief's
\* own evidence that is not the old one over again and that nothing flags.
Angles(e, p) == p.dominantNarrative \o p.proofStrategy \o e.positioning \o p.creativeStructure

\* Mutant of Alternative: only the learning that hit is asked.
Alternative_oneFlag(angles, flags, used) ==
    First(Among(angles, {a \in ToSet(angles) : /\ ~Overlap(Words(a), Words(used))
                                               /\ ~Touches(flags[1], a)}))
Alternative(angles, flags, used) ==
    First(Among(angles, {a \in ToSet(angles) : /\ ~Overlap(Words(a), Words(used))
                                               /\ \A f \in ToSet(flags) : ~Touches(f, a)}))

\* The test as it is shown: what changed of it, to what, and the note on it.
Noted(test, note, changed, new) ==
    [from |-> test.from, format |-> test.format, proof |-> test.proof,
     hook |-> IF changed = "hook" THEN new ELSE test.hook,
     offer |-> IF changed = "offer" THEN new ELSE test.offer,
     note |-> note, changed |-> changed]

\* adjustTest: a flagged angle goes, in the one field that hit; then "X beats
\* Y" puts its side of a contrast first; then a learning is built on.
AdjustTest(test, learnings, angles) ==
    LET known == ToSet(learnings)
        flags == Among(learnings, {l \in known : Flags(l)})
        good == {l \in known : Endorses(l)}
        hits(l) == Touches(l, test.hook) \/ Touches(l, test.offer)
        hit == Among(flags, {l \in known : hits(l)})
        beats(l, x, y) == Overlap(l.winner, x) /\ Overlap(l.loser, y)
        sided(l) == /\ Sides(test.hook) # <<>>
                    /\ \/ beats(l, Sides(test.hook)[1], Sides(test.hook)[2])
                       \/ beats(l, Sides(test.hook)[2], Sides(test.hook)[1])
    IN  IF hit # <<>>
        THEN IF Touches(hit[1], test.hook)
             THEN Noted(test, hit[1].outcome, "hook", Alternative(angles, flags, test.hook))
             ELSE Noted(test, hit[1].outcome, "offer", Alternative(angles, flags, test.offer))
        ELSE Noted(test, IF \E l \in good : sided(l) THEN "favored"
                         ELSE IF \E l \in good : hits(l) THEN "builds-on" ELSE "none",
                   "none", Unobserved)

\* applyInternalLearnings: the evidence stays as it is.
Adjusted(tests, learnings, angles) ==
    [i \in 1 .. Len(tests) |-> AdjustTest(tests[i], learnings, angles)]

-----------------------------------------------------------------------------
\* generateCompetitorDebrief: says is what all that was sent says, texts the
\* ads it came in.
Debrief(says, texts, learnings) ==
    LET e == Evidence(says)
        p == Patterns(texts)
        tests == FoldLeft(AddTest, <<>>, StrategicTests(p) \o Synthesis(e))
        shown == SubSeq(tests, 1, Lesser(Len(tests), MaxTests))
        none == [s \in DOMAIN Sections |-> <<>>]
    IN  IF Insufficient(says)
        THEN [enough |-> FALSE, evidence |-> [c \in DOMAIN Tables |-> <<>>], patterns |-> none,
              summary |-> FALSE, tests |-> <<>>]
        ELSE [enough |-> TRUE, evidence |-> e, patterns |-> p, summary |-> HasSummary(p),
              tests |-> Adjusted(shown, ParseLearnings(learnings), Angles(e, p))]

\* The checks of POST: a name that is no web address, observations within the
\* limit. Of the ads only the first are looked through, the blank ones left out.
BriefRefusal(name, size, limit) ==
    CASE name = "none" -> "name required"
      [] name = "web address" -> "not a name"
      [] size > limit -> "too long"
      [] OTHER -> "none"

Analysed(texts) == Picked(NonBlank(texts), 1 .. MaxAdTexts)
=============================================================================
