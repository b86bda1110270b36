------------------------------ MODULE PageDump ------------------------------
(***************************************************************************)
(* A whole Ads Library page pasted at once, made into candidate ads        *)
(* (modules/competitorDebrief/pageDump.ts, and the readings of the review  *)
(* list in components/competitorDebrief/pageDumpReview.ts).                *)
(*                                                                         *)
(* Beside the lines of AdText a dump has those of the library's pages:     *)
(* "header" (its title, filters and counts), "chrome" (badges, ids,        *)
(* dates), "name" and "tag" (short labels with a text: the name of a page, *)
(* a headline), "sponsored" and "sponsoredBy" with a text.                 *)
(***************************************************************************)
EXTENDS AdText

CONSTANTS Null,            \* no name
          MaxDefaults,     \* MAX_REPRESENTATIVES
          MaxLabels        \* MAX_CONSECUTIVE_PREAMBLE_LABELS

ASSUME DumpAssumption == MaxDefaults \in Nat \ {0} /\ MaxLabels \in Nat

\* A short line without a full stop that is no button: a page's name looks so.
LooksLikeLabel(line) == line.k \in {"name", "tag", "domain"}

\* stripLeadingHeader: everything above the first ad, only once a line of the
\* page's own header has been seen, and the last label swept with it.
StripLeadingHeader(lines) ==
    LET all == 1 .. Len(lines)
        labels == {i \in all : LooksLikeLabel(lines[i])}
        headers == {i \in all : lines[i].k = "header"}
        preamble(i) == \E h \in headers :
                           /\ h < i /\ \A g \in headers : g < i => g <= h
                           /\ Cardinality({j \in labels : h < j /\ j < i}) < MaxLabels
        sweeps(i) == lines[i].k \in {"blank", "header"} \/ (i \in labels /\ preamble(i))
        above == {i \in all : \A j \in 1 .. i : sweeps(j)}
    IN  [rest |-> Picked(lines, all \ above),
         name |-> IF labels \cap above = {} THEN Null ELSE lines[Max(labels \cap above)].text]

Marker(name) == [k |-> "marker", text |-> name]

\* stripChromeLines: the interface lines go; the three shapes of a card's header
\* leave a marker with the page's name, glued to the text that follows it.
StripChrome(lines, competitor) ==
    LET all == 1 .. Len(lines)
        blank == {i \in all : lines[i].k = "blank"}
        nameFirst(i) == /\ LooksLikeLabel(lines[i])
                        /\ i < Len(lines) /\ lines[i + 1].k = "sponsored"
        nameAfter(i) == /\ lines[i].k = "sponsored"
                        /\ i < Len(lines) /\ LooksLikeLabel(lines[i + 1])
        paired(i) == i \in all /\ (nameFirst(i) \/ nameAfter(i))
        taken[i \in 0 .. Len(lines)] == paired(i - 1) /\ ~taken[i - 1]   \* by the line before
        opens(i) == ~taken[i] /\ (lines[i].k = "sponsoredBy" \/ paired(i))
        glued(i) == \E h \in 1 .. i - 1 : /\ opens(h) \/ taken[h]
                                          /\ h + 1 .. i - 1 \subseteq blank
        chrome(i) == \/ lines[i].k \in {"sponsored", "chrome"}
                     \/ LooksLikeLabel(lines[i]) /\ competitor # Null /\ lines[i].text = competitor
        kept == {i \in all : /\ ~taken[i]
                             /\ opens(i) \/ ~(IF i \in blank THEN glued(i) ELSE chrome(i))}
        marker(i) == Marker(IF nameAfter(i) THEN lines[i + 1].text ELSE lines[i].text)
    IN  Picked([i \in all |-> IF opens(i) THEN marker(i) ELSE lines[i]], kept)

\* detectAdBoundaries: the paste's own separators, then the buttons that end a
\* card, then the whole as one.
AfterButtons(lines) ==
    LET buttons == {i \in 1 .. Len(lines) : CtaLine(lines[i])}
    IN  NonBlank([n \in 1 .. Cardinality(buttons) + 1 |->
                     Picked(lines, Stretch(lines, buttons, n))])
\* Mutant of DetectBoundaries: what follows the last button is left behind.
DetectBoundaries_toLastButton(lines) ==
    LET cut == SplitAdBlocks(lines)
        byButton == SelectSeq(AfterButtons(Trimmed(lines)), LAMBDA p : CtaLine(Last(p)))
    IN  IF Len(cut) > 1 THEN [at |-> "high", parts |-> cut]
        ELSE IF Len(byButton) > 1 THEN [at |-> "medium", parts |-> byButton]
        ELSE [at |-> "low", parts |-> IF Trimmed(lines) = <<>> THEN <<>> ELSE <<Trimmed(lines)>>]
DetectBoundaries(lines) ==
    LET cut == SplitAdBlocks(lines)
        byButton == AfterButtons(Trimmed(lines))
    IN  IF Len(cut) > 1 THEN [at |-> "high", parts |-> cut]
        ELSE IF Len(byButton) > 1 THEN [at |-> "medium", parts |-> byButton]
        ELSE [at |-> "low", parts |-> IF Trimmed(lines) = <<>> THEN <<>> ELSE <<Trimmed(lines)>>]

Unmarked(part) == Trimmed(Picked(part, {i \in 1 .. Len(part) : part[i].k # "marker"}))
MarkedNames(part) == {part[i].text : i \in {j \in 1 .. Len(part) : part[j].k = "marker"}}

\* extractPageNameMarker: the page a part says it is of; no guess between two.
CapturedName(part) ==
    IF Cardinality(MarkedNames(part)) = 1 THEN CHOOSE n \in MarkedNames(part) : TRUE ELSE Null

\* classifyAdvertiserAttribution.
Attribution(pageName, competitor, aliases) ==
    LET accepted == ({competitor} \ {Null}) \cup aliases
    IN  IF pageName = Null \/ accepted = {} THEN "unknown"
        ELSE IF pageName \in accepted THEN "match" ELSE "mismatch"

-----------------------------------------------------------------------------
Families(text) == {text[i].fam : i \in {j \in 1 .. Len(text) : text[j].k = "copy"}}

\* The words of two texts are mostly the same ones (Jaccard over bigrams).
NearText(a, b) == Families(a) # {} /\ Families(a) = Families(b)

\* groupPossibleVariants: the same or nearly the same, unless both say whose
\* they are and differ; and what such pairs join.
Linked(texts, names, i, j) ==
    /\ texts[i] # <<>> /\ texts[j] # <<>>
    /\ names[i] = Null \/ names[j] = Null \/ names[i] = names[j]
    /\ SameText(texts[i], texts[j]) \/ NearText(texts[i], texts[j])

VariantsOf(texts, names, i) ==
    LET Grow(found, k) == found \cup {j \in 1 .. Len(texts) :
                                        \E x \in found : Linked(texts, names, x, j)}
    IN  FoldLeft(Grow, {i}, texts)

\* isDestinationPreviewFragment: the card of a link, not an ad of its own: its
\* words hit none of the themes an ad is told by.
AdThemes == Labels("benefits") \cup Labels("trust") \cup Labels("positioning")
                \cup Labels("offers") \cup StoryThemes
IsLinkCard(parsed) ==
    parsed.raw # <<>> /\ parsed.raw[1].k = "domain" /\ parsed.says \cap AdThemes = {}

Rank(status) == CASE status = "complete" -> 3 [] status = "partial" -> 2
                  [] status = "empty" -> 1 [] OTHER -> 0

\* isBetterRepresentative: completeness, richness, then the order they came in.
Better(full, i, j) ==
    LET a == full[i]
        b == full[j]
    IN  IF a.status # b.status THEN Rank(a.status) > Rank(b.status)
        ELSE IF a.richness # b.richness THEN a.richness > b.richness ELSE i < j

\* selectRepresentatives: the best of every group of variants that may stand
\* for it, at most MaxDefaults of them; with a name given only its own ads may.
Defaults(full, variants, whose, named) ==
    LET may == {i \in DOMAIN full : full[i].status # "malformed" /\ (named => whose[i] = "match")}
        pool == {i \in may : \A j \in (variants[i] \cap may) \ {i} : Better(full, i, j)}
    IN  {i \in pool : Cardinality({j \in pool : Better(full, j, i)}) < MaxDefaults}

\* The parts that are no ad.
SkippedParts(parsed) ==
    {i \in DOMAIN parsed : \/ Completeness(parsed[i]).status \in {"malformed", "empty"}
                           \/ IsLinkCard(parsed[i])}

Candidates(ads, names, at, competitor, aliases) ==
    LET texts == [k \in DOMAIN ads |-> ads[k].raw]
        variants == [k \in DOMAIN ads |-> VariantsOf(texts, names, k)]
        chosen == Defaults([k \in DOMAIN ads |-> Completeness(ads[k])], variants,
                           [k \in DOMAIN ads |-> Attribution(names[k], competitor, aliases)],
                           competitor # Null \/ aliases # {})
    IN  [k \in DOMAIN ads |-> [parsed |-> ads[k], page |-> names[k], included |-> k \in chosen,
                               variants |-> variants[k], sure |-> at]]

\* The ads among the parts found, or every part when none is one, each under
\* the name its own header gives, or else the one above the first ad.
ReviewParts(found, above, parsed, skipped, competitor, aliases) ==
    LET kept == Picked([i \in DOMAIN parsed |-> i],
                       IF skipped = DOMAIN parsed THEN skipped ELSE DOMAIN parsed \ skipped)
        Name(own) == IF own # Null THEN own ELSE above
    IN  [candidates |-> Candidates([k \in DOMAIN kept |-> parsed[kept[k]]],
                                   [k \in DOMAIN kept |-> Name(CapturedName(found.parts[kept[k]]))],
                                   found.at, competitor, aliases),
         skipped |-> IF Len(kept) = Len(parsed) THEN 0 ELSE Cardinality(skipped)]

\* processPageDump.
ProcessPageDump(lines, competitor, aliases) ==
    LET Parsed(found) == [i \in DOMAIN found.parts |-> ParseAd(Unmarked(found.parts[i]))]
        Reviewed(found, above, parsed) ==
            ReviewParts(found, above, parsed, SkippedParts(parsed), competitor, aliases)
        Found(found, above) == Reviewed(found, above, Parsed(found))
        Opened(opened) ==
            Found(DetectBoundaries(StripChrome(opened.rest, competitor)), opened.name)
    IN  Opened(StripLeadingHeader(lines))

-----------------------------------------------------------------------------
(* The review list: blocks with parsed, and for those a dump left the page *)
(* their card named and whether they are included. by is "paste" or "dump".*)

Extracted(blocks) == {i \in 1 .. Len(blocks) : blocks[i].by = "dump"}
Included(block) == block.by = "dump" => block.included

\* recomputeLiveAttribution: whose a block is under the name and aliases of now.
Whose(block, competitor, aliases) == Attribution(block.page, competitor, aliases)

\* blocksGenerateForAttribution: a dump none of whose ads is the competitor's.
NoneMatches(blocks, competitor, aliases) ==
    \A i \in Extracted(blocks) : Whose(blocks[i], competitor, aliases) # "match"
AttributionBlocks(blocks, competitor, aliases) ==
    Extracted(blocks) # {} /\ NoneMatches(blocks, competitor, aliases)

\* What the request is made of: the included ads with a text, each once.
ActiveTexts(blocks) ==
    LET active == {i \in 1 .. Len(blocks) : blocks[i].parsed.raw # <<>> /\ Included(blocks[i])}
        first(i) == \A j \in active : j < i => ~SameText(blocks[j].parsed.raw, blocks[i].parsed.raw)
        sent == Picked(blocks, {i \in active : first(i)})
    IN  [k \in 1 .. Len(sent) |-> TextForAnalysis(sent[k].parsed)]

UsableCount(blocks) ==
    LET active == SelectSeq(blocks, Included)
    IN  CountUsableAds([i \in 1 .. Len(active) |-> active[i].parsed])
=============================================================================
