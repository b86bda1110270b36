----------------------------- MODULE ReportView -----------------------------
(***************************************************************************)
(* A report on screen and how its reader sets it up                        *)
(* (components/report/useReportCustomization.ts and reportCustomization.ts *)
(* with the presets of components/debrief/reportPresets.ts, the panel of   *)
(* ReportCustomizationPanel.tsx, the logo of LogoPicker.tsx, and the test  *)
(* queue, briefs and copied text of components/debrief/Report.tsx).        *)
(*                                                                         *)
(* A look is what a preset fixes: the sections shown, how many ads a list  *)
(* shows, the density, the colours and the charts. It is changed field by  *)
(* field, as a whole by a preset, and, as long as nobody touched it, with  *)
(* the register (the buyer's, "internal", or the client's).                *)
(* The performance report has presets, registers and tests; the competitor *)
(* debrief uses the same panel without them.                               *)
(***************************************************************************)
EXTENDS Naturals, FiniteSets

CONSTANTS Sections,        \* the sections with a switch
          Charts,          \* the charts of the performance report
          Tests,           \* the tests a report proposes
          MaxLogos,        \* bound: logos picked in one visit of a report
          Null

\* The sections and charts the presets tell apart.
ASSUME ViewAssumption ==
    /\ {"verdict", "patterns", "creativeBriefs", "confidence", "underperformers",
        "nextTests"} \subseteq Sections
    /\ {"ranking", "movement"} \subseteq Charts
    /\ MaxLogos \in Nat /\ Null \notin Nat /\ Null \notin {"performance", "competitor"}

VARIABLES kind,            \* which report is mounted: Null when none is
          naming,          \* the memo carries patterns by naming (modeDefaults, read at mount)
          mode, look, preset,
          signed,          \* the reader wrote a name, a title, a date, an accent or a take
          logo,            \* the object URL shown, Null without a logo
          urls,            \* the object URLs created and not revoked
          made,            \* logos picked so far: the next URL
          queued, briefs,  \* the tests checked, those whose brief is shown
          byHand           \* history: a look or preset was chosen since the mount or reset

view == <<mode, look, preset>>
viewVars == <<kind, naming, mode, look, preset, signed, logo, urls, made, queued, briefs, byHand>>

Modes == {"internal", "client"}
Look(sections, top, density, color, charts) ==
    [sections |-> sections, top |-> top, density |-> density, color |-> color, charts |-> charts]
Looks == [sections : SUBSET Sections, top : {3, 5}, density : {"standard", "compact"},
          color : {"color", "grayscale"}, charts : SUBSET Charts]

PresetIds == {"buyer", "client", "executive", "print"}
ClientSections == Sections \ {"patterns", "creativeBriefs"}

\* PERFORMANCE_PRESETS, and the register each starts in.
PresetLook(id) ==
    CASE id = "buyer" -> Look(Sections, 5, "standard", "color", Charts)
      [] id = "client" -> Look(ClientSections, 3, "standard", "color", Charts \ {"movement"})
      [] id = "executive" -> Look(ClientSections \ {"underperformers", "confidence"}, 3, "compact",
                                  "color", Charts)
      [] OTHER -> Look(Sections, 5, "compact", "grayscale", Charts)
PresetMode(id) == IF id \in {"buyer", "print"} THEN "internal" ELSE "client"

\* performanceModeDefaultsFor: what a register shows before anyone touches it.
ModeDefault(m, named) ==
    IF m = "client" THEN PresetLook("client")
    ELSE Look(Sections \ ({"verdict"} \cup (IF named THEN {} ELSE {"patterns"})),
              5, "standard", "color", Charts \ {"ranking", "movement"})

\* derivePreset: the named preset a look is, if it is one.
DerivePreset(l) ==
    IF \E id \in PresetIds : l = PresetLook(id)
    THEN CHOOSE id \in PresetIds : l = PresetLook(id) ELSE "custom"

-----------------------------------------------------------------------------
\* buildInitialCustomization, of a report of kind k.
Start(k, named) ==
    LET first == IF k = "performance" THEN ModeDefault("internal", named)
                 ELSE Look(Sections, 5, "standard", "color", Charts)
    IN  /\ mode' = "internal" /\ look' = first
        /\ preset' = IF k = "performance" THEN DerivePreset(first) ELSE "custom"
        /\ signed' = FALSE /\ logo' = Null

ViewInit ==
    /\ kind = Null /\ naming = FALSE
    /\ mode = "internal" /\ look = Look(Sections, 5, "standard", "color", Charts)
    /\ preset = "custom" /\ signed = FALSE
    /\ logo = Null /\ urls = {} /\ made = 0
    /\ queued = {} /\ briefs = {} /\ byHand = FALSE

\* The report of a run appears.
Mount ==
    /\ kind = Null
    /\ \E k \in {"performance", "competitor"}, named \in BOOLEAN :
          /\ k = "competitor" => ~named
          /\ kind' = k /\ naming' = named
          /\ Start(k, named)
    /\ queued' = {} /\ briefs' = {} /\ made' = 0 /\ byHand' = FALSE
    /\ UNCHANGED urls

\* It goes, and its state with it; the effect's cleanup revokes the logo.
Unmount ==
    /\ kind # Null /\ kind' = Null
    /\ urls' = urls \ {logo}
    /\ naming' = FALSE /\ Start("competitor", FALSE)
    /\ queued' = {} /\ briefs' = {} /\ made' = 0 /\ byHand' = FALSE

\* What a setter leaves behind: the field, and what the look is called now.
\* Mutant of Shown: the name of the preset is not worked out again.
Shown_keepsName(l) == /\ look' = l /\ UNCHANGED preset
Shown(l) ==
    /\ look' = l
    /\ preset' = IF kind = "performance" THEN DerivePreset(l) ELSE "custom"

\* The switches of the panel: toggleSection, setTopAdsShown, setDensity, and for
\* the performance report setShowRankingChart and its like.
SetField ==
    /\ kind # Null
    /\ \/ \E s \in Sections :
            Shown([look EXCEPT !.sections = IF s \in @ THEN @ \ {s} ELSE @ \cup {s}])
       \/ \E n \in {3, 5} : Shown([look EXCEPT !.top = n])
       \/ \E d \in {"standard", "compact"} : Shown([look EXCEPT !.density = d])
       \/ /\ kind = "performance"
          /\ \E c \in Charts :
                Shown([look EXCEPT !.charts = IF c \in @ THEN @ \ {c} ELSE @ \cup {c}])
    /\ byHand' = TRUE
    /\ UNCHANGED <<kind, naming, mode, signed, logo, urls, made, queued, briefs>>

\* setMode, on the report's two tabs: a look nobody touched goes with the
\* register, any other one stays.
SetMode(m) ==
    /\ kind = "performance"
    /\ mode' = m
    /\ IF look = ModeDefault(mode, naming)
       THEN Shown(ModeDefault(m, naming)) ELSE UNCHANGED <<look, preset>>
    /\ UNCHANGED <<kind, naming, signed, logo, urls, made, queued, briefs, byHand>>

\* setPreset.
SetPreset ==
    /\ kind = "performance"
    /\ \E id \in PresetIds : look' = PresetLook(id) /\ mode' = PresetMode(id) /\ preset' = id
    /\ byHand' = TRUE
    /\ UNCHANGED <<kind, naming, signed, logo, urls, made, queued, briefs>>

\* setAgencyName, setClientName, setReportTitle, setAccentId, setDateOverride,
\* setExpertTake: the reader's own words, and emptied again.
Sign ==
    /\ kind # Null /\ signed' = ~signed
    /\ UNCHANGED <<kind, naming, mode, look, preset, logo, urls, made, queued, briefs, byHand>>

\* setAgencyLogoFile: a file that is no small image changes nothing.
PickLogo ==
    /\ kind # Null /\ made < MaxLogos
    /\ \/ made' = made + 1 /\ logo' = made + 1 /\ urls' = (urls \ {logo}) \cup {made + 1}
       \/ UNCHANGED <<made, logo, urls>>       \* validateLogoFile refuses it
    /\ UNCHANGED <<kind, naming, mode, look, preset, signed, queued, briefs, byHand>>

RemoveLogo ==
    /\ kind # Null /\ logo # Null
    /\ logo' = Null /\ urls' = urls \ {logo}
    /\ UNCHANGED <<kind, naming, mode, look, preset, signed, made, queued, briefs, byHand>>

\* reset: as at the mount, whatever the register; the tests checked stay.
Reset ==
    /\ kind # Null
    /\ Start(kind, naming)
    /\ urls' = urls \ {logo} /\ byHand' = FALSE
    /\ UNCHANGED <<kind, naming, made, queued, briefs>>

-----------------------------------------------------------------------------
(* The buyer's test queue.                                                 *)

BuyerTests == kind = "performance" /\ mode = "internal" /\ "nextTests" \in look.sections

\* A test unchecked takes its brief with it.
\* Mutant of ToggleTest: it does not.
ToggleTest_keepsBrief(t) ==
    /\ BuyerTests
    /\ queued' = IF t \in queued THEN queued \ {t} ELSE queued \cup {t}
    /\ UNCHANGED <<kind, naming, view, signed, logo, urls, made, briefs, byHand>>
ToggleTest(t) ==
    /\ BuyerTests
    /\ queued' = IF t \in queued THEN queued \ {t} ELSE queued \cup {t}
    /\ briefs' = briefs \ (IF t \in queued THEN {t} ELSE {})
    /\ UNCHANGED <<kind, naming, view, signed, logo, urls, made, byHand>>

\* "Generate creative briefs": of what is checked at the click.
GenerateBriefs ==
    /\ BuyerTests /\ "creativeBriefs" \in look.sections /\ queued # {}
    /\ briefs' = queued
    /\ UNCHANGED <<kind, naming, view, signed, logo, urls, made, queued, byHand>>

\* handleCopy and handleDownload: the text is made of the same view, whatever
\* sections are shown.
CopiedText ==
    [register |-> mode, top |-> look.top, briefs |-> IF mode = "internal" THEN briefs ELSE {},
     take |-> signed]
ShownBriefs ==
    IF BuyerTests /\ "creativeBriefs" \in look.sections THEN briefs ELSE {}

ViewNext ==
    \/ Mount \/ Unmount \/ SetField \/ SetPreset \/ Sign \/ PickLogo \/ RemoveLogo \/ Reset
    \/ \E m \in Modes : SetMode(m)
    \/ \E t \in Tests : ToggleTest(t)
    \/ GenerateBriefs

ViewSpec == ViewInit /\ [][ViewNext]_viewVars

-----------------------------------------------------------------------------
ViewTypeOK ==
    /\ kind \in {Null, "performance", "competitor"} /\ naming \in BOOLEAN /\ mode \in Modes
    /\ look \in Looks /\ preset \in PresetIds \cup {"custom"}
    /\ signed \in BOOLEAN /\ byHand \in BOOLEAN
    /\ made \in 0 .. MaxLogos /\ logo \in (1 .. made) \cup {Null} /\ urls \subseteq 1 .. made
    /\ queued \subseteq Tests /\ briefs \subseteq Tests

\* The preset the panel highlights is the one the report looks like, through
\* any mix of presets, switches, register changes and resets; "custom" is said
\* of a performance report exactly when it looks like none (derivePreset's
\* "single source of truth", reportCustomization.ts:309).
PresetTellsTruth ==
    kind = "performance" =>
        \A id \in PresetIds : preset = id <=> look = PresetLook(id)

\* A report nobody touched shows the default of the register it is in, however
\* often its reader went back and forth (useReportCustomization.ts:137).
UntouchedShowsDefault ==
    kind = "performance" /\ ~byHand => look = ModeDefault(mode, naming)

\* The briefs on screen and in the copied text are of tests still checked, and
\* none is the client's (Report.tsx:3078: they "never outlive the selection").
BriefsOfTheSelection ==
    /\ ShownBriefs \subseteq CopiedText.briefs
    /\ CopiedText.briefs \subseteq queued
    /\ mode = "client" => CopiedText.briefs = {}

\* The object URLs alive are the logo on screen's: none leaks when a logo is
\* replaced, the panel reset or the report left, and none on screen is dead
\* (useReportCustomization.ts:25).
LogoUrlsLive == urls = IF kind = Null THEN {} ELSE {logo} \ {Null}
=============================================================================
