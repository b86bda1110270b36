---------------------------- MODULE DebriefIntake ----------------------------
(***************************************************************************)
(* How an export comes into a debrief: the file card of the generator      *)
(* panel (components/debrief/GeneratorPanel.tsx), which reads each chosen  *)
(* file, says whether it can be used and lets the KPI follow the data; the *)
(* request the form sends (generate, components/workspace/DebriefProvider) *)
(* and the check of it on the server.                                      *)
(*                                                                         *)
(* What DebriefSession takes from a table, which KPIs a file is accepted   *)
(* and usable with, is computed here from the rows and columns of the file *)
(* by the functions the page and the server share.  Reading a file takes   *)
(* time: the user may choose another one, pick a KPI or leave meanwhile.   *)
(* So does a pull from Meta (components/debrief/MetaConnect.tsx), whose    *)
(* rows become the loaded file when it ends: on the form, during a run,    *)
(* under a report or while another page is shown.                          *)
(* The groups, formats, images and other fields are in DebriefSession.     *)
(***************************************************************************)
EXTENDS ExportCheck

CONSTANTS
    Files, FileOf(_),   \* the exports at hand, by name
    Pulled,             \* those of them a pull from Meta can bring
    DefaultKpi,
    MaxLoads, MaxPulls  \* bounds on the times a file comes in, and on the pulls in flight

ASSUME IntakeConstants ==
    /\ Null \notin Files /\ Pulled \subseteq Files /\ DefaultKpi \in Kpis
    /\ MaxLoads \in Nat /\ MaxPulls \in Nat

\* HEADERS of insightsToCsv: the columns of a pull, whatever the account has.
\* Mutant of InsightsColumns: purchases are counted, their values left out.
InsightsColumns_noValues ==
    {"name", "spend", "impressions", "linkClicks", "ctr", "cpc", "purchases", "leads"}
InsightsColumns ==
    {"name", "spend", "impressions", "linkClicks", "ctr", "cpc", "purchases", "purchaseValue",
     "purchaseRoas", "costPerPurchase", "leads", "costPerLead", "reportingStarts", "reportingEnds",
     "addToCart", "contentViews", "cpm"}

\* What a pull brings is written by insightsToCsv, with a row at least (the
\* route answers `empty` otherwise) and a limited number of them.
ASSUME PullsAreExports ==
    \A f \in Pulled : /\ FileOf(f).columns = InsightsColumns
                      /\ CheckExportStructure(FileOf(f)) = Null

VARIABLES
    page,       \* the generator, or another page of the workspace
    status,     \* of the session
    loads,      \* how often a file came in
    load,       \* the loaded file: [n, file], a new File object each time, or Null
    prev,       \* the file of the previous period, or Null
    kpi,
    error,      \* why the last request has no report: [about, why], or Null
    sent,       \* the one in flight: [file, prev, kpi], or Null
    report,     \* what the report is on: [file, kpi], or Null
    pulls,      \* the pulls in flight, of a form that is shown or gone
    panel       \* the state of the mounted panel, Null when it is not shown

session == <<loads, load, prev, error, sent, report, pulls>>
intakeVars == <<page, status, session, kpi, panel>>

Load == [n : Nat, file : Files]
\* What a card says: nothing wrong, that the file cannot be read, or a defect.
Card == [load : Load,
         error : {Null, "unreadable"} \cup {CheckExportStructure(FileOf(f)) : f \in Files}]
Notice == [from : Kpis, to : Kpis]
Panel == [reads : SUBSET Load, card : Card \cup {Null}, manual : BOOLEAN,
          notice : Notice \cup {Null}, pulling : BOOLEAN]

ASSUME NullIsApart ==
    /\ Null \notin Load /\ Null \notin Card /\ Null \notin Notice /\ Null \notin Panel
    /\ Null \notin Kpis \cup {"unreadable"}

\* A panel that was just mounted: its effect starts to read the loaded file,
\* nothing is known of it, and that the user picked a KPI is forgotten.
Mounted(l) ==
    [reads |-> IF l = Null THEN {} ELSE {l}, card |-> Null, manual |-> FALSE, notice |-> Null,
     pulling |-> FALSE]

IntakeInit ==
    /\ page = "generator" /\ status = "idle"
    /\ loads = 0 /\ load = Null /\ prev = Null
    /\ kpi = DefaultKpi
    /\ error = Null /\ sent = Null /\ report = Null /\ pulls = 0
    /\ panel = Mounted(Null)

FormShown == page = "generator" /\ status = "idle"
ReportShown == page = "generator" /\ status = "ready"

----------------------------------------------------------------------------
(* The form *)

SetFile(f) ==
    /\ loads < MaxLoads
    /\ loads' = loads + 1
    /\ load' = [n |-> loads + 1, file |-> f]

\* handleFiles and loadSample.  A new file cancels the read of the one before.
ChooseFile(f) ==
    /\ FormShown
    /\ SetFile(f)
    /\ panel' = [panel EXCEPT !.reads = {load'}]
    /\ UNCHANGED <<page, status, prev, error, sent, report, pulls, kpi>>

RemoveFile ==
    /\ FormShown /\ load # Null
    /\ load' = Null
    /\ panel' = [panel EXCEPT !.reads = {}]
    /\ UNCHANGED <<page, status, loads, prev, error, sent, report, pulls, kpi>>

\* The file of the previous period is kept when the file is replaced.
ChoosePrevious(f) ==
    /\ FormShown /\ prev # f
    /\ prev' = f
    /\ UNCHANGED <<page, status, loads, load, error, sent, report, pulls, kpi, panel>>

\* chooseKpiManually: the selector, or the suggestion of the card.
PickKpi(k) ==
    /\ FormShown
    /\ kpi' = k
    /\ panel' = [panel EXCEPT !.manual = TRUE, !.notice = Null]
    /\ UNCHANGED <<page, status, session>>

\* The KPI follows the data unless it was picked since the panel was mounted; a
\* broken file leaves it alone.  Null when it stays.
FollowedKpi(file) ==
    IF CheckExportStructure(file) # Null THEN Null ELSE ChooseAutoKpi(kpi, file, panel.manual)

\* A read that was not cancelled ends.
\* Mutant of ReadDone: the notice of an earlier file stays.
ReadDone_keepsNotice(l) ==
    LET Shows(defect, next) ==
            /\ panel' = [panel EXCEPT
                            !.reads = @ \ {l},
                            !.card = [load |-> l, error |-> defect],
                            !.notice = IF next = Null THEN @ ELSE [from |-> kpi, to |-> next]]
            /\ kpi' = OrElse(next, kpi)
    IN  /\ Shows(CheckExportStructure(FileOf(l.file)), FollowedKpi(FileOf(l.file)))
        /\ UNCHANGED <<page, status, session>>
ReadDone(l) ==
    LET Shows(defect, next) ==
            /\ panel' = [panel EXCEPT
                            !.reads = @ \ {l},
                            !.card = [load |-> l, error |-> defect],
                            !.notice = CASE defect # Null -> @
                                         [] defect = Null /\ next = Null -> Null
                                         [] OTHER -> [from |-> kpi, to |-> next]]
            /\ kpi' = OrElse(next, kpi)
    IN  /\ Shows(CheckExportStructure(FileOf(l.file)), FollowedKpi(FileOf(l.file)))
        /\ UNCHANGED <<page, status, session>>

\* The browser cannot read the file.
ReadFails(l) ==
    /\ panel' = [panel EXCEPT !.reads = @ \ {l}, !.card = [load |-> l, error |-> "unreadable"]]
    /\ UNCHANGED <<page, status, session, kpi>>

ReadEnds == panel # Null /\ \E l \in panel.reads : ReadDone(l) \/ ReadFails(l)

\* Whether the card is for the loaded file and found nothing wrong with it.
CardShown == panel # Null /\ panel.card # Null /\ load # Null /\ panel.card.load = load
CardReady == CardShown /\ panel.card.error = Null

\* Mutant of CanSubmit: the card of another file counts.
CanSubmit_staleCard ==
    /\ load # Null
    /\ panel.card # Null /\ panel.card.error = Null
    /\ CheckExportKpi(FileOf(panel.card.load.file), kpi) = Null
CanSubmit == CardReady /\ CheckExportKpi(FileOf(load.file), kpi) = Null

SendForm(k) ==
    /\ sent' = [file |-> load.file, prev |-> prev, kpi |-> k]
    /\ status' = "processing"
    /\ error' = Null

\* The run takes the place of the form, and of the MetaConnect in it.
Submit ==
    /\ FormShown /\ CanSubmit
    /\ SendForm(kpi)
    /\ panel' = [panel EXCEPT !.pulling = FALSE]
    /\ UNCHANGED <<page, loads, load, prev, report, pulls, kpi>>

----------------------------------------------------------------------------
(* The pull from Meta *)

Pulling == panel # Null /\ panel.pulling

\* A MetaConnect pulls once at a time; one mounted later knows of no pull.
StartPull ==
    /\ FormShown /\ ~Pulling /\ pulls < MaxPulls
    /\ pulls' = pulls + 1
    /\ panel' = [panel EXCEPT !.pulling = TRUE]
    /\ UNCHANGED <<page, status, loads, load, prev, error, sent, report, kpi>>

\* The pull of the form that is shown ends, or one of a form that is gone.
PullEnds(own) ==
    /\ IF own THEN Pulling ELSE pulls > (IF Pulling THEN 1 ELSE 0)
    /\ pulls' = pulls - 1
    /\ UNCHANGED <<page, status, prev, error, sent, report, kpi>>

\* setFile is called without asking what is shown by then.
PullArrives(f, own) ==
    /\ PullEnds(own)
    /\ SetFile(f)
    /\ panel' = IF panel = Null THEN Null
                ELSE [panel EXCEPT !.reads = {load'}, !.pulling = @ /\ ~own]

\* No rows, an error, or no answer.
PullFails(own) ==
    /\ PullEnds(own)
    /\ panel' = IF panel = Null THEN Null ELSE [panel EXCEPT !.pulling = @ /\ ~own]
    /\ UNCHANGED <<loads, load>>

----------------------------------------------------------------------------
(* The answer, the report and the pages *)

\* Why the server refuses a request, and which of its files for.
Refusal(r) ==
    LET file == FileOf(r.file)
        About(own, old) == CASE own # Null -> [about |-> "file", why |-> own]
                              [] own = Null /\ old # Null -> [about |-> "previous", why |-> old]
                              [] OTHER -> Null
    IN  About(RequestCheck(file, r.kpi),
               IF r.prev = Null THEN Null ELSE PreviousCheck(FileOf(r.prev), file, r.kpi))

Answer ==
    /\ sent # Null
    /\ sent' = Null
    /\ error' = Refusal(sent)
    /\ IF error' = Null
       THEN /\ status' = "ready"
            /\ report' = [file |-> sent.file, kpi |-> sent.kpi]
            /\ panel' = Null
       ELSE /\ status' = "idle"
            /\ UNCHANGED <<report, panel>>
    /\ UNCHANGED <<page, loads, load, prev, pulls, kpi>>

\* The request does not reach the server, or its answer the page.
Lose ==
    /\ sent # Null
    /\ sent' = Null
    /\ error' = [about |-> "network", why |-> Null]
    /\ status' = "idle"
    /\ UNCHANGED <<page, loads, load, prev, report, pulls, kpi, panel>>

\* A report on a click or count KPI offers to run again on results.  What is
\* sent is the file loaded by then, which need not be the report's; the panel
\* is mounted again while that request runs.
SwitchKpi(k) ==
    /\ ReportShown /\ load # Null
    /\ report.kpi \notin {"roas", "cpa"} /\ Usable(FileOf(report.file), k)
    /\ SendForm(k)
    /\ kpi' = k
    /\ panel' = Mounted(load)
    /\ UNCHANGED <<page, loads, load, prev, report, pulls>>

\* reset, from the report or the Decision Queue: a blank form.
NewDebrief ==
    /\ status = "ready"
    /\ page' = "generator" /\ status' = "idle"
    /\ load' = Null /\ prev' = Null /\ report' = Null /\ error' = Null
    /\ kpi' = DefaultKpi
    /\ panel' = Mounted(Null)
    /\ UNCHANGED <<loads, sent, pulls>>

Leave ==
    /\ page = "generator"
    /\ page' = "elsewhere"
    /\ panel' = Null
    /\ UNCHANGED <<status, session, kpi>>

Return ==
    /\ page = "elsewhere"
    /\ page' = "generator"
    /\ panel' = IF status = "ready" THEN Null ELSE Mounted(load)
    /\ UNCHANGED <<status, session, kpi>>

IntakeNext ==
    \/ \E f \in Files : ChooseFile(f)
    \/ \E f \in Files \cup {Null} : ChoosePrevious(f)
    \/ \E k \in Kpis : PickKpi(k)
    \/ \E k \in {"roas", "cpa"} : SwitchKpi(k)
    \/ StartPull
    \/ \E own \in BOOLEAN : PullFails(own) \/ \E f \in Pulled : PullArrives(f, own)
    \/ RemoveFile \/ ReadEnds \/ Submit \/ Answer \/ Lose \/ NewDebrief \/ Leave \/ Return

IntakeSpec == IntakeInit /\ [][IntakeNext]_intakeVars

----------------------------------------------------------------------------
(* Properties *)

(* Every variable has its type, a panel is mounted exactly when the        *)
(* generator shows no report, and a pull it waits for is in flight.        *)
TypeOK ==
    /\ page \in {"generator", "elsewhere"} /\ status \in {"idle", "processing", "ready"}
    /\ loads \in Nat /\ load \in Load \cup {Null} /\ prev \in Files \cup {Null}
    /\ kpi \in Kpis
    /\ sent \in [file : Files, prev : Files \cup {Null}, kpi : Kpis] \cup {Null}
    /\ report \in [file : Files, kpi : Kpis] \cup {Null}
    /\ panel # Null <=> page = "generator" /\ status # "ready"
    /\ panel # Null => panel \in Panel
    /\ pulls \in Nat /\ (Pulling => pulls > 0)

(* Once the card says a file is good the KPI is one the file has values    *)
(* for, unless it has none for any KPI or the user picked the KPI since;   *)
(* and a notice that the KPI was switched names one without values in this *)
(* file, not in one loaded before it.                                      *)
KpiFollowsTheFile ==
    CardReady =>
        LET Fits(k) == Usable(FileOf(load.file), k)
        IN  /\ panel.manual \/ Fits(kpi) \/ \A k \in Kpis : ~Fits(k)
            /\ panel.notice # Null /\ panel.notice.to = kpi => ~Fits(panel.notice.from)

(* A loaded file has its card or a read that will set it: whichever order  *)
(* reads end in, the card of another file never takes its place, which     *)
(* would leave the form closed with nothing under way to open it.          *)
EveryFileGetsItsCard ==
    panel # Null /\ load # Null => load \in panel.reads \/ CardShown

(* What the page lets through the server refuses for the file itself only  *)
(* because no ad in it delivered.  A request from the form is for a file   *)
(* whose card was shown, found good for the KPI of the form; one from a    *)
(* report is for its own file, or for the one a pull has put in its place, *)
(* which no card was shown for and which has the columns of every KPI.     *)
CardTellsTheRequest ==
    error # Null /\ error.about = "file" => error.why = "no_ad_rows"

=============================================================================
