--------------------------- MODULE DebriefSession ---------------------------
(***************************************************************************)
(* The in-memory session of a browser tab: the state of DebriefProvider    *)
(* (components/workspace/DebriefProvider.tsx) together with the components *)
(* that drive it, which decide what the user can do when: the generator    *)
(* page with its panel and its report, the Decision Queue page, and the    *)
(* pull of MetaConnect.                                                    *)
(*                                                                         *)
(* An event is one action, with the render and the effects it causes.      *)
(* Requests outlive the component that sent them: a run (a call of         *)
(* generate) and a pull are answered, or fail, at any later time.  What    *)
(* the state is about is kept, its text is not: a file stands for its      *)
(* content, and format overrides and creative groups for the file whose    *)
(* ads they were entered for.  Free text, error messages and the previous  *)
(* period are left out.                                                    *)
(***************************************************************************)
EXTENDS Integers, Sequences, Lists

CONSTANTS
    Files, None,
    SampleFile,     \* SAMPLE_CSV_TEXT
    Kpis, DefaultKpi,
    OutcomeKpis,    \* the KPIs a report may offer to switch to
    Accepted,       \* per file, the KPIs that checkExportKpi lets pass
    Usable,         \* per file, the KPIs with a value for some ad
    Preferred,      \* per file, what preferredUsableKpi finds, or None
    Ads, Urls, Sample,  \* object URLs of attached images; a bundled image
    Typed,          \* an account label that the user typed
    MaxRuns, MaxPulls, MaxEntries   \* bounds on generate, pull, addToQueue

Run ==
    [ id : 1 .. MaxRuns, file : Files, kpi : Kpis,
      formats : Files \cup {None}, groups : Files \cup {None} ]

ASSUME SessionAssumption ==
    /\ SampleFile \in Files /\ None \notin Files
    /\ DefaultKpi \in Kpis /\ None \notin Kpis
    /\ OutcomeKpis \subseteq Kpis
    /\ Accepted \in [Files -> SUBSET Kpis]
    /\ Usable \in [Files -> SUBSET Kpis]
    /\ Preferred \in [Files -> Kpis \cup {None}]
    /\ Sample \notin Urls /\ None \notin Urls \cup {Sample}
    /\ None \notin Run
    /\ MaxRuns \in Nat /\ MaxPulls \in Nat /\ MaxEntries \in Nat

VARIABLES
    page,       \* the generator, or another page of the workspace
    status, file, kpi, formats, groups, images, memo, unused,
    queue,      \* portfolio
    nextId,     \* nextQueueIdRef
    live,       \* object URLs that are not revoked
    runs,       \* runs in flight, with what each sent
    sent,       \* number of runs so far
    manual, checked,    \* kpiManualRef and fileCheckState of the panel
    pulling,    \* the pull of the mounted MetaConnect is in flight
    orphans,    \* pulls in flight whose MetaConnect is gone
    added       \* addedToQueue of the mounted report

inputs == <<file, formats, groups, images, live>>
answer == <<memo, unused>>
portfolio == <<queue, nextId>>
requests == <<runs, sent>>
mounted == <<manual, checked, pulling, orphans, added>>
vars == <<page, status, kpi, inputs, answer, portfolio, requests, mounted>>

NoImages == [a \in Ads |-> None]

Blobs(assets) == {assets[a] : a \in Ads} \cap Urls

-----------------------------------------------------------------------------
(* What is mounted.  A component's own state starts anew with each mount   *)
(* and is gone with it; a pull that it started goes on.                    *)

ReportShown == page = "generator" /\ status = "ready" /\ memo # None

PanelShown == page = "generator" /\ ~ReportShown

FormShown == PanelShown /\ status # "processing"

(* The local state after a step, given what the handler leaves in the      *)
(* components that stay mounted.                                           *)
Render(isManual, isChecked, isAdded, isPulling, others) ==
    /\ manual' = (PanelShown /\ PanelShown' /\ isManual)
    /\ checked' = (PanelShown /\ PanelShown' /\ isChecked)
    /\ added' = (ReportShown /\ ReportShown' /\ isAdded)
    /\ pulling' = (FormShown' /\ isPulling)
    /\ orphans' = others + (IF isPulling /\ ~FormShown' THEN 1 ELSE 0)

Keep == Render(manual, checked, added, pulling, orphans)

Init ==
    /\ page = "generator"
    /\ status = "idle"
    /\ kpi = DefaultKpi
    /\ file = None /\ formats = None /\ groups = None
    /\ images = NoImages /\ live = {}
    /\ memo = None /\ unused = None
    /\ queue = <<>> /\ nextId = 1
    /\ runs = {} /\ sent = 0
    /\ manual = FALSE /\ checked = FALSE /\ added = FALSE
    /\ pulling = FALSE /\ orphans = 0

-----------------------------------------------------------------------------
(* Operations of the provider.                                             *)

(* Mutant of SetFile: the groups are kept.                                 *)
SetFile_KeepsGroups(f, assets) ==
    /\ file' = f
    /\ formats' = None
    /\ images' = assets
    /\ live' = live \ Blobs(images)
    /\ UNCHANGED groups

(* setFile, then for the sample setSampleCreativeAssets.                   *)
SetFile(f, assets) ==
    /\ file' = f
    /\ formats' = None
    /\ groups' = None
    /\ images' = assets
    /\ live' = live \ Blobs(images)

ResetSession ==
    /\ status' = "idle"
    /\ SetFile(None, NoImages)
    /\ kpi' = DefaultKpi
    /\ memo' = None
    /\ unused' = None

(* generate: everything is captured when the run is sent.                  *)
StartRun(k) ==
    /\ file # None
    /\ sent < MaxRuns
    /\ status' = "processing"
    /\ kpi' = k
    /\ sent' = sent + 1
    /\ runs' = runs \cup
         { [ id |-> sent + 1, file |-> file, kpi |-> k, formats |-> formats,
             groups |-> groups ] }

-----------------------------------------------------------------------------
(* The form.  Picking or removing a file, and loading the sample.          *)

PickFile(f) ==
    /\ FormShown
    /\ SetFile(f, NoImages)
    /\ UNCHANGED <<page, status, kpi, answer, portfolio, requests>>
    /\ Render(manual, FALSE, added, pulling, orphans)

LoadSample ==
    /\ FormShown
    /\ SetFile(SampleFile, [a \in Ads |-> Sample])
    /\ UNCHANGED <<page, status, kpi, answer, portfolio, requests>>
    /\ Render(manual, FALSE, added, pulling, orphans)

(* chooseAutoKpi.                                                          *)
AutoKpi(current, f, byHand) ==
    IF byHand \/ current \in Usable[f] \/ Preferred[f] = None
      THEN current
      ELSE Preferred[f]

(* The effect that reads the loaded file ends; a new file or an unmount    *)
(* cancels it, a new mount starts it again.                                *)
FileRead ==
    /\ PanelShown
    /\ file # None /\ ~checked
    /\ kpi' = AutoKpi(kpi, file, manual)
    /\ UNCHANGED <<page, status, inputs, answer, portfolio, requests>>
    /\ Render(manual, TRUE, added, pulling, orphans)

ChooseKpi(k) ==
    /\ FormShown
    /\ kpi' = k
    /\ UNCHANGED <<page, status, inputs, answer, portfolio, requests>>
    /\ Render(TRUE, checked, added, pulling, orphans)

(* The table of ads is shown once the file is read.                        *)
TableShown == FormShown /\ file # None /\ checked

ConfirmFormats(f) ==
    /\ TableShown
    /\ f \in {None, file}
    /\ formats' = f
    /\ UNCHANGED <<page, status, kpi, file, groups, images, live, answer,
                   portfolio, requests>>
    /\ Keep

AssignGroups(f) ==
    /\ TableShown
    /\ f \in {None, file}
    /\ groups' = f
    /\ UNCHANGED <<page, status, kpi, file, formats, images, live, answer,
                   portfolio, requests>>
    /\ Keep

(* Mutant of AttachImage: the URL it replaces is not revoked.              *)
AttachImage_KeepsOld(a, u) ==
    /\ TableShown
    /\ u \in Urls \ live
    /\ images' = [images EXCEPT ![a] = u]
    /\ live' = live \cup {u}
    /\ UNCHANGED <<page, status, kpi, file, formats, groups, answer,
                   portfolio, requests>>
    /\ Keep

(* setCreativeAsset with a valid image: a fresh URL replaces what is there.*)
AttachImage(a, u) ==
    /\ TableShown
    /\ u \in Urls \ live
    /\ images' = [images EXCEPT ![a] = u]
    /\ live' = (live \ {images[a]}) \cup {u}
    /\ UNCHANGED <<page, status, kpi, file, formats, groups, answer,
                   portfolio, requests>>
    /\ Keep

RemoveImage(a) ==
    /\ TableShown
    /\ images[a] # None
    /\ images' = [images EXCEPT ![a] = None]
    /\ live' = live \ {images[a]}
    /\ UNCHANGED <<page, status, kpi, file, formats, groups, answer,
                   portfolio, requests>>
    /\ Keep

(* The form's submit, open once the file passed the check for the KPI.     *)
Generate ==
    /\ FormShown /\ checked
    /\ file # None /\ kpi \in Accepted[file]
    /\ StartRun(kpi)
    /\ UNCHANGED <<page, inputs, answer, portfolio>>
    /\ Keep

-----------------------------------------------------------------------------
(* Mutant of Answer: columns are set only when the answer has some.        *)
Answer_KeepsColumns(r, columns) ==
    /\ r \in runs
    /\ runs' = runs \ {r}
    /\ memo' = r
    /\ unused' = IF columns = None THEN unused ELSE columns
    /\ status' = "ready"
    /\ UNCHANGED <<page, kpi, inputs, portfolio, sent>>
    /\ Keep

(* The answer of the debrief API, applied whatever happened meanwhile; the *)
(* columns it did not use may be left out.                                 *)

Answer(r, columns) ==
    /\ r \in runs
    /\ runs' = runs \ {r}
    /\ memo' = r
    /\ unused' = columns
    /\ status' = "ready"
    /\ UNCHANGED <<page, kpi, inputs, portfolio, sent>>
    /\ Keep

(* An error of the API, or a request that did not reach it.                *)
Refuse(r) ==
    /\ r \in runs
    /\ runs' = runs \ {r}
    /\ status' = "idle"
    /\ UNCHANGED <<page, kpi, inputs, answer, portfolio, sent>>
    /\ Keep

-----------------------------------------------------------------------------
(* The report: switch the KPI, add to the queue, start anew.               *)

SwitchKpi(k) ==
    /\ ReportShown
    /\ k \in OutcomeKpis \cap Usable[memo.file]
    /\ memo.kpi \notin OutcomeKpis
    /\ StartRun(k)
    /\ UNCHANGED <<page, inputs, answer, portfolio>>
    /\ Keep

(* addToQueue: an entry without a typed label is named after the file.     *)
AddToQueue(typed) ==
    /\ ReportShown
    /\ ~added
    /\ nextId <= MaxEntries
    /\ queue' = Append(queue, [ id |-> nextId, memo |-> memo,
                                label |-> IF typed THEN Typed ELSE file ])
    /\ nextId' = nextId + 1
    /\ UNCHANGED <<page, status, kpi, inputs, answer, requests>>
    /\ Render(manual, checked, TRUE, pulling, orphans)

NewDebrief ==
    /\ ReportShown
    /\ ResetSession
    /\ UNCHANGED <<page, portfolio, requests>>
    /\ Render(manual, FALSE, added, pulling, orphans)

-----------------------------------------------------------------------------
(* The Decision Queue and the moves between pages.                         *)

(* Mutant of RemoveFromQueue: by label instead of by id.                   *)
RemoveFromQueue_ByLabel(id) ==
    /\ page = "elsewhere"
    /\ queue' = Picked(queue, {i \in DOMAIN queue : \A j \in DOMAIN queue :
                   queue[j].id = id => queue[i].label # queue[j].label})
    /\ UNCHANGED <<page, status, kpi, inputs, answer, nextId, requests>>
    /\ Keep

RemoveFromQueue(id) ==
    /\ page = "elsewhere"
    /\ queue' = Picked(queue, {i \in DOMAIN queue : queue[i].id # id})
    /\ UNCHANGED <<page, status, kpi, inputs, answer, nextId, requests>>
    /\ Keep

(* handleAddAnother and the link it is on.                                 *)
AddAnother ==
    /\ page = "elsewhere"
    /\ page' = "generator"
    /\ IF status = "ready" THEN ResetSession
                           ELSE UNCHANGED <<status, kpi, inputs, answer>>
    /\ UNCHANGED <<portfolio, requests>>
    /\ Render(manual, FALSE, added, pulling, orphans)

Navigate ==
    /\ page' \in {"generator", "elsewhere"} \ {page}
    /\ UNCHANGED <<status, kpi, inputs, answer, portfolio, requests>>
    /\ Keep

(* Leaving the workspace: the provider unmounts and revokes the images;    *)
(* coming back starts a new one, which late answers do not reach.          *)
Leave ==
    /\ page' = "generator"
    /\ ResetSession
    /\ queue' = <<>> /\ nextId' = 1
    /\ runs' = {} /\ UNCHANGED sent
    /\ manual' = FALSE /\ checked' = FALSE /\ added' = FALSE
    /\ pulling' = FALSE /\ orphans' = 0

-----------------------------------------------------------------------------
(* The pull of MetaConnect: its rows become the loaded file, wherever the  *)
(* user is by then.                                                        *)

StartPull ==
    /\ FormShown
    /\ ~pulling /\ orphans < MaxPulls
    /\ UNCHANGED <<page, status, kpi, inputs, answer, portfolio, requests>>
    /\ Render(manual, checked, added, TRUE, orphans)

(* The pull that ends, of the mounted component or of a former one.        *)
PullEnds(readAgain) ==
    \/ /\ pulling
       /\ Render(manual, checked /\ ~readAgain, added, FALSE, orphans)
    \/ /\ orphans > 0
       /\ Render(manual, checked /\ ~readAgain, added, pulling, orphans - 1)

PullArrives(f) ==
    /\ SetFile(f, NoImages)
    /\ UNCHANGED <<page, status, kpi, answer, portfolio, requests>>
    /\ PullEnds(TRUE)

(* No rows, an error, or no answer: the session is left alone.             *)
PullFails ==
    /\ UNCHANGED <<page, status, kpi, inputs, answer, portfolio, requests>>
    /\ PullEnds(FALSE)

-----------------------------------------------------------------------------
Next ==
    \/ \E f \in Files \cup {None} :
          PickFile(f) \/ ConfirmFormats(f) \/ AssignGroups(f)
    \/ LoadSample \/ FileRead \/ Generate
    \/ \E k \in Kpis : ChooseKpi(k) \/ SwitchKpi(k)
    \/ \E a \in Ads : RemoveImage(a) \/ \E u \in Urls : AttachImage(a, u)
    \/ \E r \in runs : Refuse(r) \/ \E c \in {None, r.id} : Answer(r, c)
    \/ \E typed \in BOOLEAN : AddToQueue(typed)
    \/ \E id \in 1 .. MaxEntries : RemoveFromQueue(id)
    \/ NewDebrief \/ AddAnother \/ Navigate \/ Leave
    \/ StartPull \/ PullFails
    \/ \E f \in Files \ {SampleFile} : PullArrives(f)

Spec == Init /\ [][Next]_vars

-----------------------------------------------------------------------------
(* Properties.                                                             *)

(* The state has the types of the provider's and the components' state.    *)
(* What becomes of the queue is in QueueOnlyEdited.                        *)
TypeOK ==
    /\ page \in {"generator", "elsewhere"}
    /\ status \in {"idle", "processing", "ready"}
    /\ kpi \in Kpis
    /\ {file, formats, groups} \subseteq Files \cup {None}
    /\ images \in [Ads -> Urls \cup {None, Sample}]
    /\ live \subseteq Urls
    /\ memo \in Run \cup {None}
    /\ unused \in 1 .. MaxRuns \cup {None}
    /\ nextId \in 1 .. MaxEntries + 1
    /\ runs \subseteq Run
    /\ sent \in 0 .. MaxRuns
    /\ manual \in BOOLEAN /\ checked \in BOOLEAN
    /\ pulling \in BOOLEAN /\ added \in BOOLEAN
    /\ orphans \in Nat

(* generate has no request id and applies whatever answer comes.  That is  *)
(* right only because the pages let no run start, and let nobody reset the *)
(* session, while one is in flight: at most one is, and the session says   *)
(* so.                                                                     *)
OneRunAtATime ==
    /\ (status = "processing") <=> (runs # {})
    /\ \A r, s \in runs : r = s

(* What the user entered about the ads of one file is never sent with, or  *)
(* reported for, another one, whatever pull or pick replaces the file.     *)
OwnInputs ==
    \A r \in runs \cup ({memo} \ {None}) :
        {r.formats, r.groups} \subseteq {None, r.file}

(* The object URLs that are not revoked are the ones of attached images:   *)
(* none leaks, and none that is shown is broken.                           *)
ImagesLive == live = Blobs(images)

(* A report is there when the status says so, and the columns it names as  *)
(* unused are those of its own run.                                        *)
ReportIsOneAnswer ==
    /\ status = "ready" => memo # None
    /\ unused # None => memo # None /\ unused = memo.id

(* The edits of the queue: nothing, an entry more, one less, a new start.  *)
QueueEdited ==
    \/ queue' = queue
    \/ /\ \E label \in Files \cup {None, Typed} :
             queue' = Append(queue, [id |-> nextId, memo |-> memo, label |-> label])
       /\ \A i \in DOMAIN queue : queue[i].id # nextId
    \/ \E i \in DOMAIN queue :
          queue' = SubSeq(queue, 1, i - 1) \o SubSeq(queue, i + 1, Len(queue))
    \/ queue' = <<>> /\ runs' = {} /\ memo' = None

(* The queue only gains an entry for the shown report under a new id, or   *)
(* loses one entry that the user removed, until the session is left; no    *)
(* entry that stays is touched (DebriefProvider.tsx:160-168).              *)
QueueOnlyEdited == [][QueueEdited]_vars

============================================================================
