------------------------- MODULE CompetitorSession -------------------------
(***************************************************************************)
(* The competitor debrief's page                                           *)
(* (components/competitorDebrief/CompetitorDebriefPanel.tsx and            *)
(* searchAdsPayload.ts) with the three routes it calls and the Ads Library *)
(* behind two of them (modules/metaAdLibrary).                             *)
(*                                                                         *)
(* Three ways in share the page: ads pasted one by one, a whole library    *)
(* page pasted at once, and ads fetched for an advertiser found by a       *)
(* search. Requests are answered in any order, and the user goes on        *)
(* clicking what the page leaves enabled.                                  *)
(*                                                                         *)
(* What the user brings is a visit, chosen once: the tabs used, the texts  *)
(* at hand, the names typed, the learnings, and, as the bound of the       *)
(* visit, which of "edit", "generate", "clear" and "reset" it does at all.  *)
(* The library is its pages and the ads of each, records with id, page and *)
(* text; the list of a search has them with included, the user's checkbox. *)
(* The two error notices are left out.                                     *)
(***************************************************************************)
EXTENDS PageDump, CompetitorBrief

CONSTANTS Visits,          \* what a user may bring
          Samples,         \* what a search may find: sequences of pages, or of no page
          AdsOf,           \* the ads the library has of a page
          PageSize,        \* PAGE_SIZE of the page-ads route
          MaxSize,         \* MAX_OBSERVATIONS_CHARS, in lines
          MaxBlocks        \* bound: blocks the user adds up to

ASSUME SessionAssumption == {PageSize, MaxSize, MaxBlocks} \subseteq Nat \ {0}

\* The ads there are, and those of a list. The library delivers an ad once, by
\* its id, whatever it delivers beside the page's own.
Ads == (UNION {ToSet(AdsOf[p]) : p \in DOMAIN AdsOf})
           \cup (UNION {ToSet(s) : s \in UNION {v.strays : v \in Visits}})
ListedAds == [ad : Ads, included : BOOLEAN]

Delivers(p, stray) ==
    /\ IsList(AdsOf[p]) /\ IsList(stray)
    /\ \A i, j \in 1 .. Len(AdsOf[p] \o stray) :
          (AdsOf[p] \o stray)[i].id = (AdsOf[p] \o stray)[j].id => i = j

ASSUME LibraryAssumption ==
    /\ Null \notin Seq(ListedAds)
    /\ \A s \in Samples : IsList(s) /\ ToSet(s) \subseteq DOMAIN AdsOf \cup {Null}
    /\ \A p \in DOMAIN AdsOf : \A v \in Visits : \A s \in v.strays : Delivers(p, s)

ASSUME VisitAssumption ==
    \A v \in Visits : /\ IsList(v.paste) /\ IsList(v.dump) /\ IsList(v.learnings)
                      /\ \A text \in v.edits : IsList(text)
                      /\ \A i \in 1 .. Len(v.dump) :
                             LooksLikeLabel(v.dump[i]) => v.dump[i].text # Null

VARIABLES visit,           \* what the user brought
          form,            \* mode, name, aliases, notes, and which texts are in the boxes
          review,          \* blocks of the two paste modes, Null before any; and whether the
                           \* page was processed (pageDumpStats)
          finder,          \* query, pages, selected, ads, cursor of the search mode
          wire,            \* the request of each kind under way (the four loading flags)
          report,          \* debrief, with what it was asked of
          armed,           \* resetArmed
          lastRun,         \* history: the last processing and its result
          declined         \* history: the ads unchecked since they were fetched

vars == <<visit, form, review, finder, wire, report, armed, lastRun, declined>>

Calls == {"search", "ads", "more", "generate"}
EmptyForm == [mode |-> "individual", name |-> "none", aliases |-> {}, notes |-> FALSE,
              pasted |-> FALSE, dumped |-> FALSE]
EmptyReview == [blocks |-> Null, processed |-> FALSE]
EmptyFinder == [query |-> FALSE, pages |-> Null, selected |-> Null, ads |-> Null, after |-> Null]

Init ==
    /\ visit \in Visits
    /\ form = EmptyForm
    /\ review = EmptyReview
    /\ finder = EmptyFinder
    /\ wire = [c \in Calls |-> Null]
    /\ report = Null
    /\ armed = FALSE
    /\ lastRun = Null
    /\ declined = {}

Idle(call) == wire[call] = Null
Send(call, request) == wire' = [wire EXCEPT ![call] = request]
Done(call) == wire' = [wire EXCEPT ![call] = Null]

Blocks == IF review.blocks = Null THEN <<>> ELSE review.blocks
Known(name) == IF name = "none" THEN Null ELSE name
\* hasPageDumpBlocks: which paste mode the review list belongs to.
FromDump == Extracted(Blocks) # {}

-----------------------------------------------------------------------------
(* The form.                                                               *)

SwitchMode ==
    /\ \E m \in visit.modes \ {form.mode} : form' = [form EXCEPT !.mode = m]
    /\ UNCHANGED <<visit, review, finder, wire, report, armed, lastRun, declined>>

TypeName ==
    /\ \E n \in visit.names \ {form.name} : form' = [form EXCEPT !.name = n]
    /\ UNCHANGED <<visit, review, finder, wire, report, armed, lastRun, declined>>

TypeAliases ==
    /\ form.mode = "pageDump"
    /\ \E a \in visit.aliases \ {form.aliases} : form' = [form EXCEPT !.aliases = a]
    /\ UNCHANGED <<visit, review, finder, wire, report, armed, lastRun, declined>>

TypeNotes ==
    /\ visit.notes # <<>> /\ ~form.notes
    /\ form' = [form EXCEPT !.notes = TRUE]
    /\ UNCHANGED <<visit, review, finder, wire, report, armed, lastRun, declined>>

\* The text is in the box of the paste mode.
Paste ==
    /\ \/ /\ form.mode = "individual" /\ visit.paste # <<>> /\ ~form.pasted
          /\ form' = [form EXCEPT !.pasted = TRUE]
       \/ /\ form.mode = "pageDump" /\ visit.dump # <<>> /\ ~form.dumped /\ ~review.processed
          /\ form' = [form EXCEPT !.dumped = TRUE]
    /\ UNCHANGED <<visit, review, finder, wire, report, armed, lastRun, declined>>

-----------------------------------------------------------------------------
(* The review list of the paste modes.                                     *)

PastedBlock(parsed) ==
    [by |-> "paste", parsed |-> parsed, page |-> Null, included |-> TRUE, variants |-> {}]
DumpBlock(candidate) ==
    [by |-> "dump", parsed |-> candidate.parsed, page |-> candidate.page,
     included |-> candidate.included, variants |-> candidate.variants]

\* handleParseAds.
ParseAds ==
    /\ form.mode = "individual" /\ form.pasted
    /\ LET parsed == ParseBulk(visit.paste)
       IN  review' = [review EXCEPT !.blocks = [i \in 1 .. Len(parsed) |-> PastedBlock(parsed[i])]]
    /\ UNCHANGED <<visit, form, finder, wire, report, armed, lastRun, declined>>

\* handleProcessPageDump.
ExtractAds ==
    LET Listed(run) ==
            /\ review' = [blocks |-> [i \in DOMAIN run.candidates |-> DumpBlock(run.candidates[i])],
                          processed |-> TRUE]
            /\ lastRun' = [lines |-> visit.dump, name |-> Known(form.name),
                           aliases |-> form.aliases, out |-> run]
    IN  /\ form.mode = "pageDump" /\ form.dumped /\ ~review.processed
        /\ Listed(ProcessPageDump(visit.dump, Known(form.name), form.aliases))
        /\ UNCHANGED <<visit, form, finder, wire, report, armed, declined>>

\* handleEditRawPageDump: the blocks stay.
EditRawDump ==
    /\ form.mode = "pageDump" /\ review.processed
    /\ review' = [review EXCEPT !.processed = FALSE]
    /\ UNCHANGED <<visit, form, finder, wire, report, armed, lastRun, declined>>

Reviewing == form.mode # "search" /\ review.blocks # Null

\* updateBlock: the text is parsed again, the rest of the block stays.
UpdateBlock(i) ==
    /\ Reviewing /\ "edit" \in visit.does
    /\ \E text \in visit.edits \ {Blocks[i].parsed.raw} :
          review' = [review EXCEPT !.blocks[i].parsed = ParseAd(text)]
    /\ UNCHANGED <<visit, form, finder, wire, report, armed, lastRun, declined>>

\* removeBlock, and its button on every card.
RemoveBlock(i) ==
    /\ Reviewing /\ "edit" \in visit.does
    /\ review' = [review EXCEPT !.blocks = Picked(@, (1 .. Len(@)) \ {i})]
    /\ UNCHANGED <<visit, form, finder, wire, report, armed, lastRun, declined>>

AddBlock ==
    /\ Reviewing /\ "edit" \in visit.does /\ Len(Blocks) < MaxBlocks
    /\ review' = [review EXCEPT !.blocks = Append(@, PastedBlock(ParseAd(<<>>)))]
    /\ UNCHANGED <<visit, form, finder, wire, report, armed, lastRun, declined>>

\* toggleBlockIncluded.
ToggleBlock(i) ==
    /\ Reviewing /\ Blocks[i].by = "dump"
    /\ review' = [review EXCEPT !.blocks[i].included = ~@]
    /\ UNCHANGED <<visit, form, finder, wire, report, armed, lastRun, declined>>

-----------------------------------------------------------------------------
(* The search mode.                                                        *)

TypeQuery ==
    /\ form.mode = "search" /\ ~finder.query
    /\ finder' = [finder EXCEPT !.query = TRUE]
    /\ UNCHANGED <<visit, form, review, wire, report, armed, lastRun, declined>>

\* handleSearchPages: a new search takes the old choice and its ads away.
SearchPages ==
    /\ form.mode = "search" /\ finder.query /\ Idle("search")
    /\ finder' = [EmptyFinder EXCEPT !.query = finder.query]
    /\ Send("search", [for |-> "pages"])
    /\ declined' = {}
    /\ UNCHANGED <<visit, form, review, report, armed, lastRun>>

\* dedupePageCandidates: the pages of the sample, each once; no page, no candidate.
PageCandidates(sample) == Firsts(Picked(sample, {i \in 1 .. Len(sample) : sample[i] # Null}))

PagesArrive ==
    /\ ~Idle("search")
    /\ \/ \E sample \in Samples : finder' = [finder EXCEPT !.pages = PageCandidates(sample)]
       \/ UNCHANGED finder        \* an error, or no answer
    /\ Done("search")
    /\ UNCHANGED <<visit, form, review, report, armed, lastRun, declined>>

\* handleSelectPage: the page's name is the competitor's.
SelectPage ==
    /\ form.mode = "search" /\ finder.pages # Null
    /\ \E p \in ToSet(finder.pages) :
          /\ finder' = [finder EXCEPT !.selected = p, !.ads = Null, !.after = Null]
          /\ form' = [form EXCEPT !.name = p]
    /\ declined' = {}
    /\ UNCHANGED <<visit, review, wire, report, armed, lastRun>>

\* fetchPageAds: afresh, or on from the last answer's cursor.
FetchAds ==
    /\ form.mode = "search" /\ finder.selected # Null /\ Idle("ads")
    /\ Send("ads", [page |-> finder.selected, after |-> 0])
    /\ UNCHANGED <<visit, form, review, finder, report, armed, lastRun, declined>>

LoadMore ==
    /\ form.mode = "search" /\ finder.selected # Null /\ Idle("more")
    /\ finder.ads # Null /\ finder.ads # <<>> /\ finder.after # Null
    /\ Send("more", [page |-> finder.selected, after |-> finder.after])
    /\ UNCHANGED <<visit, form, review, finder, report, armed, lastRun, declined>>

\* What the library answers: one page of the page's ads from the cursor on,
\* which may start over with the last ad before it; among them one of another
\* advertiser the request did not ask for.
LibraryAnswer(request, overlap, stray) ==
    LET all == AdsOf[request.page]
        from == IF overlap /\ request.after > 0 THEN request.after ELSE request.after + 1
        upto == Lesser(request.after + PageSize, Len(all))
    IN  [data |-> Picked(all, from .. upto) \o stray,
         after |-> IF upto < Len(all) THEN upto ELSE Null]

\* partitionAdsByPage, in the route: every ad is of the page asked for.
OwnAds(ads, page) == Picked(ads, {i \in 1 .. Len(ads) : ads[i].page = page})

\* mergeFetchedAds: what is in the list stays as the user left it.
\* Mutant of MergeFetchedAds: an ad that comes again is taken anew.
MergeFetchedAds_readopts(list, fetched) ==
    Picked(list, {i \in 1 .. Len(list) : \A j \in 1 .. Len(fetched) : fetched[j].ad.id # list[i].ad.id})
        \o fetched
MergeFetchedAds(list, fetched) ==
    list \o Picked(fetched, {i \in 1 .. Len(fetched) :
                                 \A j \in 1 .. Len(list) : list[j].ad.id # fetched[i].ad.id})

List == IF finder.ads = Null THEN <<>> ELSE finder.ads

AdsArrive(call) ==
    /\ ~Idle(call)
    /\ \/ \E overlap \in BOOLEAN, stray \in visit.strays :
            LET answer == LibraryAnswer(wire[call], overlap, stray)
                own == OwnAds(answer.data, wire[call].page)
                fetched == [i \in 1 .. Len(own) |-> [ad |-> own[i], included |-> TRUE]]
                list == IF call = "more" THEN List ELSE <<>>
            IN  /\ finder' = [finder EXCEPT !.ads = MergeFetchedAds(list, fetched),
                                            !.after = answer.after]
                /\ declined' = IF call = "more" THEN declined ELSE {}
       \/ UNCHANGED <<finder, declined>>
    /\ Done(call)
    /\ UNCHANGED <<visit, form, review, report, armed, lastRun>>

\* toggleApiAdIncluded.
ToggleAd ==
    /\ form.mode = "search" /\ finder.selected # Null /\ finder.ads # Null
    /\ \E i \in 1 .. Len(finder.ads) :
          /\ finder' = [finder EXCEPT !.ads[i].included = ~@]
          /\ declined' = IF finder.ads[i].included THEN declined \cup {finder.ads[i].ad.id}
                         ELSE declined \ {finder.ads[i].ad.id}
    /\ UNCHANGED <<visit, form, review, wire, report, armed, lastRun>>

-----------------------------------------------------------------------------
(* Generate.                                                               *)

Notes == IF form.notes THEN visit.notes ELSE <<>>

\* buildSearchPayload.
IncludedAds == {i \in 1 .. Len(List) : List[i].included /\ List[i].ad.text # <<>>}
SearchTexts ==
    LET included == Picked(List, IncludedAds)
    IN  Distinct([i \in 1 .. Len(included) |-> included[i].ad.text])

\* What the request carries, from the one list of the mode; and, as history,
\* the ads as the user had them.
Request ==
    IF form.mode = "search"
    THEN [name |-> form.name, mode |-> "adsLibraryApi", texts |-> SearchTexts, notes |-> Notes,
          ads |-> {List[i].ad.text : i \in IncludedAds}, ids |-> {List[i].ad.id : i \in IncludedAds}]
    ELSE [name |-> form.name, mode |-> "manual", texts |-> ActiveTexts(Blocks), notes |-> Notes,
          ads |-> {Blocks[i].parsed.raw : i \in {j \in 1 .. Len(Blocks) : Included(Blocks[j])}},
          ids |-> {}]

Size(request) == FoldLeft(LAMBDA n, t : n + Len(t), Len(request.notes), request.texts)

\* canGenerate.
CanGenerate ==
    /\ form.name # "none"
    /\ IF form.mode = "search" THEN SearchTexts # <<>> /\ Size(Request) <= MaxSize
       ELSE /\ UsableCount(Blocks) > 0 \/ Notes # <<>>
            /\ ~AttributionBlocks(Blocks, Known(form.name), form.aliases)

\* handleGenerate, up to the call; and what comes back.
Generate ==
    /\ "generate" \in visit.does /\ Idle("generate") /\ CanGenerate
    /\ Send("generate", Request)
    /\ UNCHANGED <<visit, form, review, finder, report, armed, lastRun, declined>>

ReportArrives ==
    /\ ~Idle("generate")
    /\ LET asked == wire["generate"]
           says == UNION {Themes(asked.texts[i]) : i \in 1 .. Len(asked.texts)} \cup Themes(asked.notes)
       IN  \/ /\ BriefRefusal(asked.name, Size(asked), MaxSize) = "none"
              /\ report' = [mode |-> asked.mode, name |-> asked.name, asked |-> asked,
                            brief |-> Debrief(says, Analysed(asked.texts), visit.learnings)]
           \/ report' = Null      \* refused, or no answer
    /\ Done("generate")
    /\ UNCHANGED <<visit, form, review, finder, armed, lastRun, declined>>

-----------------------------------------------------------------------------
(* Clear and reset.                                                        *)

\* clearResultForSourceMode.
ReportWithout(mode) == IF report # Null /\ report.mode = mode THEN Null ELSE report

\* clearCurrentMode: what the mode owns, with a result of its kind; requests
\* under way go on.
ClearMode ==
    /\ "clear" \in visit.does
    /\ \/ /\ form.mode = "individual" /\ (form.pasted \/ (review.blocks # Null /\ ~FromDump))
          /\ form' = [form EXCEPT !.pasted = FALSE]
          /\ review' = IF FromDump THEN review ELSE [review EXCEPT !.blocks = Null]
          /\ report' = ReportWithout("manual")
          /\ UNCHANGED <<finder, declined>>
       \/ /\ form.mode = "pageDump"
          /\ form.dumped \/ review.processed \/ form.aliases # {} \/ FromDump
          /\ form' = [form EXCEPT !.dumped = FALSE, !.aliases = {}]
          /\ review' = [blocks |-> IF FromDump THEN Null ELSE review.blocks, processed |-> FALSE]
          /\ report' = ReportWithout("manual")
          /\ UNCHANGED <<finder, declined>>
       \/ /\ form.mode = "search" /\ finder # EmptyFinder
          /\ finder' = EmptyFinder
          /\ report' = ReportWithout("adsLibraryApi")
          /\ declined' = {}
          /\ UNCHANGED <<form, review>>
    /\ UNCHANGED <<visit, wire, armed, lastRun>>

\* handleResetAll: the first click arms it, for a while.
Reset ==
    /\ "reset" \in visit.does
    /\ \/ ~armed /\ armed' = TRUE /\ UNCHANGED <<form, review, finder, report, declined>>
       \/ /\ armed /\ armed' = FALSE
          /\ form' = [EmptyForm EXCEPT !.mode = form.mode]
          /\ review' = EmptyReview
          /\ finder' = EmptyFinder
          /\ report' = Null
          /\ declined' = {}
    /\ UNCHANGED <<visit, wire, lastRun>>

Disarm ==
    /\ armed /\ armed' = FALSE
    /\ UNCHANGED <<visit, form, review, finder, wire, report, lastRun, declined>>

Next ==
    \/ SwitchMode \/ TypeName \/ TypeAliases \/ TypeNotes \/ Paste
    \/ ParseAds \/ ExtractAds \/ EditRawDump \/ AddBlock
    \/ \E i \in 1 .. Len(Blocks) : UpdateBlock(i) \/ RemoveBlock(i) \/ ToggleBlock(i)
    \/ TypeQuery \/ SearchPages \/ PagesArrive \/ SelectPage \/ FetchAds \/ LoadMore
    \/ AdsArrive("ads") \/ AdsArrive("more") \/ ToggleAd
    \/ Generate \/ ReportArrives \/ ClearMode \/ Reset \/ Disarm

Spec == Init /\ [][Next]_vars

-----------------------------------------------------------------------------
\* What the report calls recurring is said by two different ads the user had
\* included, in words of theirs that were not set aside as boilerplate (those of
\* the library come whole): a text pasted or fetched twice never makes a pattern
\* (engine.ts, strategicPatterns.ts:136).
RecurringNeedsTwo ==
    report # Null =>
        \A s \in DOMAIN Sections : \A l \in ToSet(report.brief.patterns[s]) :
            \E a, b \in report.asked.ads :
                /\ a # b
                /\ \A ad \in {a, b} : l \in Themes(IF report.mode = "manual" THEN Kept(ad) ELSE ad)

\* What a test is given in place of a flagged angle, when there is one to give,
\* was read in the evidence of this report and is not flagged itself, by the
\* learning that hit or by any other one (internalLearnings.ts:220).
SubstituteIsClear ==
    report # Null =>
        \A i \in DOMAIN report.brief.tests :
            LET test == report.brief.tests[i]
                new == IF test.changed = "hook" THEN test.hook ELSE test.offer
            IN  test.changed = "none" \/ new = Unobserved
                \/ /\ new \in ToSet(Angles(report.brief.evidence, report.brief.patterns))
                   /\ \A k \in 1 .. Len(visit.learnings) :
                         Flags(visit.learnings[k]) => ~Touches(visit.learnings[k], new)

\* An ad the user unchecked stays out through every "Load more", though the
\* library may deliver it again (searchAdsPayload.ts:68).
DeclinedStaysOut ==
    finder.ads # Null =>
        \A i, j \in 1 .. Len(finder.ads) :
            /\ finder.ads[i].ad.id \in declined => ~finder.ads[i].included
            /\ finder.ads[i].ad.id = finder.ads[j].ad.id => i = j

CopyCount(lines, line) == Cardinality({i \in 1 .. Len(lines) : lines[i] = line})
\* Copy that is told for an ad's wherever it stands: without such a theme it may
\* be the text of a link card, which is skipped.
Solid(line) == line.k = "copy" /\ line.says \cap AdThemes # {}

\* The page shows whose ad the i-th line is of: the name of a card's header is
\* above it, and no blank line, separator or button comes between.
IsHeaded(lines, i) ==
    \E h \in 1 .. i - 1 :
        /\ lines[h].k = "sponsoredBy" \/ (LooksLikeLabel(lines[h]) /\ lines[h + 1].k = "sponsored")
        /\ lines[h].text = lines[i].of
        /\ \A j \in h .. i : lines[j].k \notin {"blank", "rule", "cta"}

\* However a page is cut, a line of copy comes out in one candidate and once;
\* and, when the cards show whose they are and the sweep of the page's header
\* took no card's name line with it, under a name only with that advertiser's
\* copy (pageDump.ts:423, 508).
DumpIsAccounted ==
    lastRun # Null =>
        LET found == lastRun.out.candidates
            page == lastRun.lines
            lines == Joined([i \in 1 .. Len(found) |-> found[i].parsed.raw])
            headed == \A i \in 1 .. Len(page) : Solid(page[i]) => IsHeaded(page, i)
        IN  /\ \A x \in {y \in ToSet(page) : Solid(y)} : CopyCount(lines, x) = CopyCount(page, x)
            /\ headed /\ StripLeadingHeader(page).name = Null =>
                  \A i \in 1 .. Len(found) : found[i].page # Null =>
                      \A x \in ToSet(found[i].parsed.raw) : Solid(x) => x.of = found[i].page

\* The ads on screen are of the page selected (the comment of handleSearchPages:
\* "never leave a stale Page/ads pairing on screen").
NoStalePairing ==
    finder.ads # Null => \A i \in 1 .. Len(finder.ads) : finder.ads[i].ad.page = finder.selected
=============================================================================
