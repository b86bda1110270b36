------------------------------- MODULE AdText -------------------------------
(***************************************************************************)
(* The text of ads as the competitor debrief reads it                      *)
(* (modules/competitorDebrief/adParser.ts, and the routing and disclaimers *)
(* of adsLibraryParser.ts): how a paste is cut into ads, what is found in  *)
(* one, which are usable, and which are the same.                          *)
(*                                                                         *)
(* A text is a sequence of lines, records with a kind k and what the kind  *)
(* carries:                                                                *)
(*   "blank", "rule" (a line of dashes, or "Ad 2"), "cta" (a button),      *)
(*   "copy" and "disclaimer" with says, the themes their words hit, a      *)
(*   family fam (the words they are written with) and of, whose ad it is,  *)
(*   "field" (Headline: ...) with field and says, "domain",                *)
(*   and the interface lines of the Ads Library (see PageDump).            *)
(***************************************************************************)
EXTENDS Lists, FiniteSets, SequencesExt

\* The labels of the keyword tables (marketSignals.ts, pageSignals.ts), in the
\* tables' order: those some rule of the debrief tells from the others.
Tables ==
    [hooks       |-> <<"problem-first hooks", "before/after framing", "guarantee / risk-reversal">>,
     formats     |-> <<"founder-led video", "UGC / creator content", "carousels">>,
     offers      |-> <<"bundle offers", "discounts">>,
     positioning |-> <<"routine-based", "natural / clean", "founder-led">>,
     trust       |-> <<"testimonials", "guarantee / risk-reversal", "clinical claims">>,
     benefits    |-> <<"lighter">>]
Labels(table) == ToSet(Tables[table])
StoryThemes == {"testimonial / first-person story"}

CtaLine(line) == line.k = "cta"
Themed(line) == line.k \in {"copy", "disclaimer", "field"}
Themes(lines) == UNION {lines[i].says : i \in {j \in 1 .. Len(lines) : Themed(lines[j])}}

\* Without the blank lines around it.
Trimmed(lines) ==
    LET solid == {i \in 1 .. Len(lines) : lines[i].k # "blank"}
    IN  Picked(lines, {i \in 1 .. Len(lines) : \E a, b \in solid : a <= i /\ i <= b})

\* The lines with n - 1 of the borders before them, a border among them.
Stretch(lines, borders, n) ==
    {i \in 1 .. Len(lines) : Cardinality({b \in borders : b < i}) = n - 1}

\* The parts of lines between those of a kind, the empty ones left out.
Parts(lines, kind) ==
    LET borders == {i \in 1 .. Len(lines) : lines[i].k = kind}
        Part(n) == Trimmed(Picked(lines, Stretch(lines, borders, n) \ borders))
    IN  NonBlank([n \in 1 .. Cardinality(borders) + 1 |-> Part(n)])

\* splitAdBlocks: at the explicit markers if there are any, at blank lines otherwise.
SplitAdBlocks(lines) ==
    IF \E i \in 1 .. Len(lines) : lines[i].k = "rule"
    THEN Parts(lines, "rule")
    ELSE Parts(lines, "blank")

-----------------------------------------------------------------------------
\* parseAdExample: labels win, then the shape of library copy, then plain text.
ParseMode(text) ==
    IF \E i \in 1 .. Len(text) : text[i].k = "field" THEN "labeled"
    ELSE IF \/ Len(text) >= 2 /\ CtaLine(Last(text))
            \/ \E i \in 1 .. Len(text) : text[i].k = "copy"
         THEN "native" ELSE "plain"

\* The paragraphs set aside as legal boilerplate, in library copy only.
IsDisclaimed(text, line) == ParseMode(text) = "native" /\ line.k = "disclaimer"
Kept(text) == Picked(text, {i \in 1 .. Len(text) : ~IsDisclaimed(text, text[i])})

\* parseAdExample: what is found in one ad.
ParseAd(text) ==
    [raw  |-> text,
     mode |-> ParseMode(text),
     says |-> Themes(Kept(text)),
     hook |-> ParseMode(text) = "native" /\ \E i \in 1 .. Len(text) : text[i].k = "copy",
     cta  |-> \E i \in 1 .. Len(text) : text[i].k = "cta",
     fields |-> {text[i].field : i \in {j \in 1 .. Len(text) : text[j].k = "field"}}]

\* textForAnalysis: what of it the request carries.
TextForAnalysis(parsed) == Trimmed(Kept(parsed.raw))

ParseBulk(lines) == [i \in 1 .. Len(SplitAdBlocks(lines)) |-> ParseAd(SplitAdBlocks(lines)[i])]

-----------------------------------------------------------------------------
CoreFields == {"headline", "cta", "offer", "format"}

\* At most MALFORMED_MAX_WORDS words: no sentence in it.
Fragment(parsed) ==
    \A i \in 1 .. Len(parsed.raw) : parsed.raw[i].k \notin {"copy", "disclaimer", "field"}

\* What a labeled ad is asked for, and what any other one is.
DetectedFields(parsed) ==
    IF parsed.mode = "labeled"
    THEN (parsed.fields \cap CoreFields)
             \cup (IF parsed.cta THEN {"cta"} ELSE {})
             \cup (IF parsed.says \cap Labels("offers") # {} THEN {"offer"} ELSE {})
    ELSE {c \in {"Hook", "Story", "Benefits", "Proof", "Offer", "Explicit CTA"} :
             CASE c = "Hook" -> parsed.hook \/ parsed.says \cap Labels("hooks") # {}
               [] c = "Story" -> parsed.says \cap StoryThemes # {}
               [] c = "Benefits" -> parsed.says \cap Labels("benefits") # {}
               [] c = "Proof" -> parsed.says \cap Labels("trust") # {}
               [] c = "Offer" -> parsed.says \cap Labels("offers") # {}
               [] OTHER -> parsed.cta}

\* computeAdCompleteness.
Completeness(parsed) ==
    LET fields == DetectedFields(parsed)
        signal == IF parsed.mode = "labeled" THEN fields # {} \/ parsed.says # {} ELSE fields # {}
        enough == IF parsed.mode = "labeled" THEN fields = CoreFields ELSE Cardinality(fields) >= 3
    IN  [status |-> IF Fragment(parsed) /\ ~signal THEN "malformed"
                    ELSE IF enough THEN "complete"
                    ELSE IF signal THEN "partial" ELSE "empty",
         richness |-> Cardinality(fields) + Cardinality(parsed.says)]

\* normalizeForDedupe keeps every word: two texts are the same when their
\* lines are. findDuplicateIndices and dedupeAdTexts.
SameText(a, b) == a = b
IsRepeat(texts, i) == texts[i] # <<>> /\ \E j \in 1 .. i - 1 : SameText(texts[j], texts[i])
Distinct(texts) ==
    Picked(texts, {i \in 1 .. Len(texts) : texts[i] # <<>> /\ ~IsRepeat(texts, i)})

\* countUsableAds.
CountUsableAds(parsed) ==
    Len(Distinct([i \in 1 .. Len(parsed) |->
        IF Completeness(parsed[i]).status = "malformed" THEN <<>> ELSE parsed[i].raw]))
=============================================================================
