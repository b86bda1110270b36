---------------------------- MODULE DebriefProofs ----------------------------
(***************************************************************************)
(* The debrief for any requests: DebriefIntake for any exports, of any     *)
(* rows and columns, and any number of loads, then DebriefRun.             *)
(*                                                                         *)
(* What carries the proofs of the first is that a card or a read is of a   *)
(* load no later than the last, that a read under way is of the loaded     *)
(* file, and that a request, and a report, is on a file that was checked,  *)
(* which stays the loaded one until a pull takes its place: and a file     *)
(* that was pulled passes every check unseen, by the columns it has        *)
(* (PulledFits).                                                           *)
(*                                                                         *)
(* What carries those of the second is that a report, wherever the handler *)
(* is, says what was composed on the analysis of the ads that were read    *)
(* (RunInv); the rest is what the functions it is composed with return.    *)
(***************************************************************************)
EXTENDS DebriefIntake, DebriefRun, ListsProofs

----------------------------------------------------------------------------
(* What the functions of the data return *)

LEMMA UsableHasColumns ==
  ASSUME NEW file, NEW k, Usable(file, k)
  PROVE  CheckExportKpi(file, k) = Null
<1>1. HasColumns(k, file.columns)
  BY DEF Usable, WithValue
<1>2. "spend" \in file.columns
  BY <1>1 DEF HasColumns
<1> QED
  BY <1>1, <1>2 DEF CheckExportKpi

LEMMA LeastOfFirstSeven ==
  ASSUME NEW S \in SUBSET (1..7), S # {}
  PROVE  Min(S) \in S
<1>1. \A n \in 1..7 : n \in {1, 2, 3, 4, 5, 6, 7}
  OBVIOUS
<1>2. PICK s \in S : TRUE
  OBVIOUS
<1>3. \/ 1 \in S \/ 2 \in S \/ 3 \in S \/ 4 \in S \/ 5 \in S \/ 6 \in S \/ 7 \in S
  BY <1>1, <1>2
<1>4. \E x \in S : \A y \in S : x <= y
  BY <1>3
<1> QED
  BY <1>4 DEF Min

\* The KPI the page falls back on can be used and is another one; without
\* one, no other KPI can be used.
LEMMA PreferredFits ==
  ASSUME NEW file, NEW except, NEW next, next = PreferredUsableKpi(file, except)
  PROVE  /\ next # Null => next \in Kpis /\ next # except /\ Usable(file, next)
         /\ next = Null => \A k \in Kpis \ {except} : ~Usable(file, k)
<1> DEFINE Kpi(p) == IF p = "cpl" THEN "cpa" ELSE p
           Fits(p) == /\ Kpi(p) # except
                      /\ Usable(file, Kpi(p))
                      /\ p = "cpl" => CpaLeadBased(file)
                      /\ p = "cpa" => ~CpaLeadBased(file)
           fitting == {n \in DOMAIN AutoPreference : Fits(AutoPreference[n])}
<1>1. next = IF fitting = {} THEN Null ELSE Kpi(AutoPreference[Min(fitting)])
  BY DEF PreferredUsableKpi
<1>2. DOMAIN AutoPreference = 1..7
  BY DEF AutoPreference
<1>3. \A n \in 1..7 : Kpi(AutoPreference[n]) \in Kpis
  BY DEF AutoPreference, Kpis
<1>4. CASE fitting # {}
  <2>1. Min(fitting) \in fitting
    BY <1>2, <1>4, LeastOfFirstSeven
  <2>2. next \in Kpis /\ next # except /\ Usable(file, next)
    BY <1>1, <1>2, <1>3, <1>4, <2>1
  <2> QED
    BY <2>2, NullIsApart
<1>5. CASE fitting = {}
  <2>1. ASSUME NEW k \in Kpis, k # except, Usable(file, k) PROVE \E n \in 1..7 : Fits(AutoPreference[n])
    <3>1. CASE k = "cpa" /\ CpaLeadBased(file)
      BY <2>1, <3>1 DEF AutoPreference
    <3>2. CASE ~(k = "cpa" /\ CpaLeadBased(file))
      <4>1. \E n \in 1..7 : AutoPreference[n] = k
        BY DEF AutoPreference, Kpis
      <4>2. k # "cpl"
        BY DEF Kpis
      <4> QED
        BY <2>1, <3>2, <4>1, <4>2
    <3> QED
      BY <3>1, <3>2
  <2> QED
    BY <1>1, <1>2, <1>5, <2>1
<1> QED
  BY <1>4, <1>5

\* Where the KPI goes once a file was read.
LEMMA AutoKpiFits ==
  ASSUME NEW file, NEW current \in Kpis, NEW manual \in BOOLEAN,
         NEW next, next = ChooseAutoKpi(current, file, manual)
  PROVE  /\ next # Null => next \in Kpis /\ Usable(file, next) /\ ~Usable(file, current)
         /\ next = Null => \/ manual
                           \/ Usable(file, current)
                           \/ \A k \in Kpis : ~Usable(file, k)
<1>1. CASE manual \/ Usable(file, current)
  BY <1>1 DEF ChooseAutoKpi
<1>2. CASE ~(manual \/ Usable(file, current))
  <2>1. next = PreferredUsableKpi(file, current)
    BY <1>2 DEF ChooseAutoKpi
  <2> QED
    BY <1>2, <2>1, PreferredFits
<1> QED
  BY <1>1, <1>2

\* A checked request is refused for its file for one reason only.
LEMMA OnlyWithoutAds ==
  ASSUME NEW r, CheckExport(FileOf(r.file), r.kpi) = Null,
         Refusal(r) # Null, Refusal(r).about = "file"
  PROVE  Refusal(r).why = "no_ad_rows"
<1> DEFINE own == RequestCheck(FileOf(r.file), r.kpi)
           old == IF r.prev = Null THEN Null
                  ELSE PreviousCheck(FileOf(r.prev), FileOf(r.file), r.kpi)
<1>1. own \in {Null, "no_ad_rows"}
  BY DEF RequestCheck
<1>2. Refusal(r) = CASE own # Null -> [about |-> "file", why |-> own]
                     [] own = Null /\ old # Null -> [about |-> "previous", why |-> old]
                     [] OTHER -> Null
  BY DEF Refusal
<1> HIDE DEF own, old
<1> QED
  BY <1>1, <1>2

----------------------------------------------------------------------------
(* The invariant *)

Structured(f) == CheckExportStructure(FileOf(f)) = Null

\* A read that is under way is of the loaded file.
ReadsOfTheLoad == panel # Null => panel.reads \subseteq {load} \ {Null}

\* No load is later than the last, and a card without an error was earned.
CardsOfLoads ==
    /\ load # Null => load.n <= loads
    /\ panel # Null /\ panel.card # Null =>
          /\ panel.card.load.n <= loads
          /\ panel.card.error = Null => Structured(panel.card.load.file)

\* The file of a request or a report is still loaded, or was replaced by a pull.
LoadedOrPulledOver(f) == load # Null /\ (f = load.file \/ load.file \in Pulled)

\* The file of a request passes what the page checks for its KPI.
RequestOfTheLoad ==
    sent # Null =>
        /\ status = "processing"
        /\ LoadedOrPulledOver(sent.file)
        /\ CheckExport(FileOf(sent.file), sent.kpi) = Null

\* So did the file of the report on screen.
ReportOfTheLoad ==
    status = "ready" => LoadedOrPulledOver(report.file) /\ Structured(report.file)

\* A pull brings a file that every KPI can be asked of.
LEMMA PulledFits ==
  ASSUME NEW f \in Pulled, NEW k \in Kpis
  PROVE  CheckExport(FileOf(f), k) = Null
<1>1. FileOf(f).columns = InsightsColumns /\ CheckExportStructure(FileOf(f)) = Null
  BY PullsAreExports
<1>2. HasColumns(k, InsightsColumns) /\ "spend" \in InsightsColumns
  BY DEF HasColumns, InsightsColumns, Kpis
<1>3. CheckExportKpi(FileOf(f), k) = Null
  BY <1>1, <1>2 DEF CheckExportKpi
<1> QED
  BY <1>1, <1>3 DEF CheckExport, OrElse

IntakeInv == TypeOK /\ ReadsOfTheLoad /\ CardsOfLoads /\ RequestOfTheLoad /\ ReportOfTheLoad

LEMMA MountedTyped ==
  ASSUME NEW l \in Load \cup {Null}
  PROVE  /\ Mounted(l) \in Panel /\ Mounted(l) # Null
         /\ Mounted(l).card = Null /\ Mounted(l).reads \subseteq {l} \ {Null}
         /\ Mounted(l).pulling = FALSE
         /\ l # Null => l \in Mounted(l).reads
<1>1. CASE l = Null
  <2>1. Mounted(l) = [reads |-> {}, card |-> Null, manual |-> FALSE, notice |-> Null,
                    pulling |-> FALSE]
    BY <1>1 DEF Mounted
  <2>2. Mounted(l) \in Panel
    BY <2>1 DEF Panel
  <2>3. Mounted(l) # Null
    BY <2>2, NullIsApart, Zenon
  <2>4. Mounted(l).card = Null /\ Mounted(l).reads = {} /\ Mounted(l).pulling = FALSE
    BY <2>1
  <2> QED
    BY <1>1, <2>2, <2>3, <2>4
<1>2. CASE l # Null
  <2>1. Mounted(l) = [reads |-> {l}, card |-> Null, manual |-> FALSE, notice |-> Null,
                    pulling |-> FALSE]
    BY <1>2 DEF Mounted
  <2>2. Mounted(l) \in Panel
    BY <1>2, <2>1 DEF Panel
  <2>3. Mounted(l) # Null
    BY <2>2, NullIsApart, Zenon
  <2>4. Mounted(l).card = Null /\ Mounted(l).reads = {l} /\ Mounted(l).pulling = FALSE
    BY <2>1
  <2> QED
    BY <1>2, <2>2, <2>3, <2>4
<1> QED
  BY <1>1, <1>2

LEMMA FormHasPanel ==
  ASSUME TypeOK, FormShown
  PROVE  panel \in Panel /\ panel # Null /\ status = "idle" /\ page = "generator"
BY DEF TypeOK, FormShown

LEMMA ReadTyped ==
  ASSUME TypeOK, panel # Null, NEW l \in panel.reads, ReadDone(l) \/ ReadFails(l)
  PROVE  /\ panel' \in Panel /\ panel' # Null /\ kpi' \in Kpis
         /\ panel'.reads = panel.reads \ {l} /\ panel'.manual = panel.manual
         /\ panel'.pulling = panel.pulling
         /\ panel'.card # Null /\ panel'.card.load = l
         /\ panel'.card.error \in {CheckExportStructure(FileOf(l.file)), "unreadable"}
         /\ UNCHANGED <<page, status, session>>
<1> DEFINE defect == CheckExportStructure(FileOf(l.file))
           next == FollowedKpi(FileOf(l.file))
<1>1. panel \in Panel /\ l \in Load /\ l.file \in Files /\ kpi \in Kpis /\ panel.manual \in BOOLEAN
  BY DEF TypeOK, Panel, Load
<1>2. [load |-> l, error |-> defect] \in Card /\ [load |-> l, error |-> "unreadable"] \in Card
  BY <1>1 DEF Card
<1>3. next # Null => next \in Kpis
  BY <1>1, AutoKpiFits DEF FollowedKpi
<1>4. CASE ReadDone(l)
  <2> DEFINE notice == CASE defect # Null -> panel.notice
                         [] defect = Null /\ next = Null -> Null
                         [] OTHER -> [from |-> kpi, to |-> next]
             card == [load |-> l, error |-> defect]
  <2>1. panel' = [panel EXCEPT !.reads = @ \ {l}, !.card = card, !.notice = notice]
        /\ kpi' = OrElse(next, kpi) /\ UNCHANGED <<page, status, session>>
    BY <1>4 DEF ReadDone
  <2>2. notice \in Notice \cup {Null}
    <3> HIDE DEF defect, next
    <3> QED
      BY <1>1, <1>3 DEF Panel, Notice
  <2>3. card \in Card /\ card # Null /\ card.load = l /\ card.error = defect
    BY <1>2, NullIsApart
  <2>4. kpi' \in Kpis
    <3> HIDE DEF next
    <3> QED
      BY <1>1, <1>3, <2>1 DEF OrElse
  <2> HIDE DEF notice, card, defect, next
  <2>5. panel' \in Panel /\ panel'.card = card /\ panel'.reads = panel.reads \ {l}
        /\ panel'.manual = panel.manual /\ panel'.pulling = panel.pulling
    BY <1>1, <2>1, <2>2, <2>3 DEF Panel
  <2> QED
    BY <2>1, <2>3, <2>4, <2>5, NullIsApart DEF defect
<1>5. CASE ReadFails(l)
  <2>1. /\ panel' = [panel EXCEPT !.reads = @ \ {l}, !.card = [load |-> l, error |-> "unreadable"]]
        /\ UNCHANGED <<page, status, session, kpi>>
    BY <1>5 DEF ReadFails
  <2>2. panel' \in Panel /\ panel'.card = [load |-> l, error |-> "unreadable"]
        /\ panel'.reads = panel.reads \ {l} /\ panel'.manual = panel.manual
        /\ panel'.pulling = panel.pulling
    BY <1>1, <1>2, <2>1 DEF Panel
  <2> QED
    BY <1>1, <1>2, <2>1, <2>2, NullIsApart
<1> QED
  BY <1>4, <1>5

LEMMA SetFileTyped ==
  ASSUME TypeOK, NEW f \in Files, SetFile(f)
  PROVE  /\ load' \in Load /\ load' # Null /\ load'.n = loads + 1 /\ load'.file = f
         /\ loads' = loads + 1 /\ loads \in Nat
BY NullIsApart DEF SetFile, Load, TypeOK

\* A pull that ends was in flight, beside the one the form waits for if it is another.
LEMMA PullCounted ==
  ASSUME TypeOK, NEW own \in BOOLEAN, PullEnds(own)
  PROVE  pulls' \in Nat /\ (Pulling /\ ~own => pulls' > 0)
BY DEF TypeOK, PullEnds, Pulling

LEMMA Inductive == IntakeInv /\ [IntakeNext]_intakeVars => IntakeInv'
<1> SUFFICES ASSUME IntakeInv, [IntakeNext]_intakeVars PROVE IntakeInv'
  OBVIOUS
<1> USE DEF IntakeInv
<1>1. ASSUME NEW f \in Files, ChooseFile(f) PROVE IntakeInv'
  <2>1. panel \in Panel /\ panel # Null /\ status = "idle" /\ page = "generator"
    BY <1>1, FormHasPanel DEF ChooseFile
  <2>2. load' \in Load /\ load' # Null /\ load'.n = loads + 1 /\ loads' = loads + 1 /\ loads \in Nat
    BY <1>1, SetFileTyped DEF ChooseFile
  <2>3. /\ panel' \in Panel /\ panel'.reads = {load'} /\ panel'.card = panel.card
        /\ panel'.pulling = panel.pulling
    BY <1>1, <2>1, <2>2 DEF ChooseFile, Panel
  <2>4. panel.card # Null => panel.card.load.n \in Nat
    BY <2>1 DEF Panel, Card, Load
  <2>5. sent = Null
    BY <2>1 DEF RequestOfTheLoad
  <2>6. UNCHANGED <<page, status, prev, sent, report, pulls, kpi>>
    BY <1>1 DEF ChooseFile
  <2>7. TypeOK'
    BY <2>1, <2>2, <2>3, <2>6, NullIsApart DEF TypeOK, Pulling
  <2>8. CardsOfLoads'
    BY <2>1, <2>2, <2>3, <2>4 DEF CardsOfLoads, Structured
  <2> QED
    BY <2>1, <2>2, <2>3, <2>5, <2>6, <2>7, <2>8
    DEF ReadsOfTheLoad, RequestOfTheLoad, ReportOfTheLoad, LoadedOrPulledOver
<1>2. CASE RemoveFile
  <2>1. panel \in Panel /\ panel # Null /\ status = "idle" /\ page = "generator"
    BY <1>2, FormHasPanel DEF RemoveFile
  <2>2. /\ panel' \in Panel /\ panel'.reads = {} /\ panel'.card = panel.card
        /\ panel'.pulling = panel.pulling
    BY <1>2, <2>1 DEF RemoveFile, Panel
  <2>3. sent = Null
    BY <2>1 DEF RequestOfTheLoad
  <2>4. load' = Null /\ UNCHANGED <<page, status, loads, prev, sent, report, pulls, kpi>>
    BY <1>2 DEF RemoveFile
  <2>5. TypeOK'
    BY <2>1, <2>2, <2>4, NullIsApart DEF TypeOK, Pulling
  <2> QED
    BY <2>1, <2>2, <2>3, <2>4, <2>5
    DEF ReadsOfTheLoad, CardsOfLoads, RequestOfTheLoad, ReportOfTheLoad, LoadedOrPulledOver, Structured
<1>3. ASSUME NEW f \in Files \cup {Null}, ChoosePrevious(f) PROVE IntakeInv'
  BY <1>3 DEF ChoosePrevious, TypeOK, Pulling, ReadsOfTheLoad, CardsOfLoads, RequestOfTheLoad, ReportOfTheLoad, LoadedOrPulledOver, Structured
<1>4. ASSUME NEW k \in Kpis, PickKpi(k) PROVE IntakeInv'
  <2>1. panel \in Panel /\ panel # Null /\ status = "idle" /\ page = "generator"
    BY <1>4, FormHasPanel DEF PickKpi
  <2>2. /\ panel' \in Panel /\ panel'.reads = panel.reads /\ panel'.card = panel.card
        /\ panel'.pulling = panel.pulling
    BY <1>4, <2>1 DEF PickKpi, Panel
  <2>3. kpi' = k /\ UNCHANGED <<page, status, session>>
    BY <1>4 DEF PickKpi
  <2>4. TypeOK'
    BY <2>1, <2>2, <2>3, NullIsApart DEF TypeOK, Pulling, session
  <2> QED
    BY <2>1, <2>2, <2>3, <2>4
    DEF session, ReadsOfTheLoad, CardsOfLoads, RequestOfTheLoad, ReportOfTheLoad, LoadedOrPulledOver, Structured
<1>5. CASE ReadEnds
  <2>1. PICK l \in panel.reads : ReadDone(l) \/ ReadFails(l)
    BY <1>5 DEF ReadEnds
  <2>2. panel # Null /\ l = load /\ load # Null
    BY <1>5, <2>1 DEF ReadEnds, ReadsOfTheLoad
  <2>3. /\ panel' \in Panel /\ panel' # Null /\ kpi' \in Kpis
        /\ panel'.reads = panel.reads \ {l} /\ panel'.pulling = panel.pulling
        /\ panel'.card # Null /\ panel'.card.load = l
        /\ panel'.card.error \in {CheckExportStructure(FileOf(l.file)), "unreadable"}
        /\ UNCHANGED <<page, status, session>>
    BY <2>1, <2>2, ReadTyped
  <2>4. TypeOK'
    BY <2>2, <2>3 DEF TypeOK, Pulling, session
  <2>5. CardsOfLoads'
    BY <2>2, <2>3, NullIsApart DEF CardsOfLoads, Structured, session
  <2> QED
    BY <2>2, <2>3, <2>4, <2>5
    DEF session, ReadsOfTheLoad, RequestOfTheLoad, ReportOfTheLoad, LoadedOrPulledOver, Structured
<1>6. CASE Submit
  <2>1. panel \in Panel /\ panel # Null /\ status = "idle" /\ page = "generator"
    BY <1>6, FormHasPanel DEF Submit
  <2>2. load # Null /\ Structured(load.file) /\ CheckExportKpi(FileOf(load.file), kpi) = Null
    BY <1>6 DEF Submit, CanSubmit, CardReady, CardShown, CardsOfLoads
  <2>3. CheckExport(FileOf(load.file), kpi) = Null
    BY <2>2 DEF CheckExport, OrElse, Structured
  <2>4. /\ sent' = [file |-> load.file, prev |-> prev, kpi |-> kpi] /\ status' = "processing"
        /\ panel' = [panel EXCEPT !.pulling = FALSE]
        /\ UNCHANGED <<page, loads, load, prev, report, pulls, kpi>>
    BY <1>6 DEF Submit, SendForm
  <2>7. /\ panel' \in Panel /\ panel'.reads = panel.reads /\ panel'.card = panel.card
        /\ panel'.pulling = FALSE
    BY <2>1, <2>4 DEF Panel
  <2>5. sent' \in [file : Files, prev : Files \cup {Null}, kpi : Kpis]
    BY <2>2, <2>4 DEF TypeOK, Load
  <2>6. TypeOK'
    BY <2>1, <2>4, <2>5, <2>7, NullIsApart DEF TypeOK, Pulling
  <2> QED
    BY <2>1, <2>2, <2>3, <2>4, <2>6, <2>7, NullIsApart
    DEF ReadsOfTheLoad, CardsOfLoads, RequestOfTheLoad, ReportOfTheLoad, LoadedOrPulledOver, Structured
<1>7. CASE Answer
  <2>1. /\ sent # Null /\ status = "processing"
        /\ LoadedOrPulledOver(sent.file) /\ Structured(sent.file)
    BY <1>7 DEF Answer, RequestOfTheLoad, CheckExport, OrElse, Structured
  <2>2. sent' = Null /\ UNCHANGED <<page, loads, load, prev, pulls, kpi>>
    BY <1>7 DEF Answer
  <2>3. CASE error' = Null
    <3>1. status' = "ready" /\ report' = [file |-> sent.file, kpi |-> sent.kpi] /\ panel' = Null
      BY <1>7, <2>3 DEF Answer
    <3>2. TypeOK'
      BY <2>1, <2>2, <3>1 DEF TypeOK, Pulling
    <3> QED
      BY <2>1, <2>2, <3>1, <3>2
      DEF ReadsOfTheLoad, CardsOfLoads, RequestOfTheLoad, ReportOfTheLoad, LoadedOrPulledOver, Structured
  <2>4. CASE error' # Null
    <3>1. status' = "idle" /\ UNCHANGED <<report, panel>>
      BY <1>7, <2>4 DEF Answer
    <3>2. TypeOK'
      BY <2>1, <2>2, <3>1 DEF TypeOK, Pulling
    <3> QED
      BY <2>1, <2>2, <3>1, <3>2
      DEF ReadsOfTheLoad, CardsOfLoads, RequestOfTheLoad, ReportOfTheLoad, LoadedOrPulledOver, Structured
  <2> QED
    BY <2>3, <2>4
<1>8. CASE Lose
  <2>1. /\ sent # Null /\ status = "processing"
        /\ sent' = Null /\ status' = "idle"
        /\ UNCHANGED <<page, loads, load, prev, report, pulls, kpi, panel>>
    BY <1>8 DEF Lose, RequestOfTheLoad
  <2>2. TypeOK'
    BY <2>1 DEF TypeOK, Pulling
  <2> QED
    BY <2>1, <2>2
    DEF ReadsOfTheLoad, CardsOfLoads, RequestOfTheLoad, ReportOfTheLoad, LoadedOrPulledOver, Structured
<1>9. ASSUME NEW k \in {"roas", "cpa"}, SwitchKpi(k) PROVE IntakeInv'
  <2>1. /\ page = "generator" /\ status = "ready" /\ load # Null
        /\ LoadedOrPulledOver(report.file) /\ Structured(report.file)
        /\ k \in Kpis
    BY <1>9 DEF SwitchKpi, ReportShown, ReportOfTheLoad, Kpis
  <2>2. CheckExport(FileOf(report.file), k) = Null
    <3>1. CheckExportKpi(FileOf(report.file), k) = Null
      BY <1>9, UsableHasColumns DEF SwitchKpi
    <3> QED
      BY <2>1, <3>1 DEF CheckExport, OrElse, Structured
  <2>3. CheckExport(FileOf(load.file), k) = Null
    BY <2>1, <2>2, PulledFits DEF LoadedOrPulledOver
  <2>4. /\ sent' = [file |-> load.file, prev |-> prev, kpi |-> k] /\ status' = "processing"
        /\ kpi' = k /\ panel' = Mounted(load) /\ UNCHANGED <<page, loads, load, prev, report, pulls>>
    BY <1>9 DEF SwitchKpi, SendForm
  <2>5. sent' \in [file : Files, prev : Files \cup {Null}, kpi : Kpis] /\ k \in Kpis
    BY <2>1, <2>4 DEF TypeOK, Load, Kpis
  <2>6. /\ panel' \in Panel /\ panel' # Null /\ panel'.card = Null
        /\ panel'.reads \subseteq {load} \ {Null} /\ panel'.pulling = FALSE
    BY <2>4, MountedTyped DEF TypeOK
  <2>7. TypeOK'
    BY <2>1, <2>4, <2>5, <2>6 DEF TypeOK, Pulling
  <2> QED
    BY <2>1, <2>3, <2>4, <2>6, <2>7
    DEF ReadsOfTheLoad, CardsOfLoads, RequestOfTheLoad, ReportOfTheLoad, LoadedOrPulledOver, Structured
<1>10. CASE NewDebrief
  <2>1. /\ status = "ready" /\ page' = "generator" /\ status' = "idle"
        /\ load' = Null /\ prev' = Null /\ report' = Null /\ kpi' = DefaultKpi
        /\ panel' = Mounted(Null) /\ UNCHANGED <<loads, sent, pulls>>
    BY <1>10 DEF NewDebrief
  <2>2. sent = Null
    BY <2>1 DEF RequestOfTheLoad
  <2>3. /\ panel' \in Panel /\ panel' # Null /\ panel'.card = Null
        /\ panel'.reads \subseteq {Null} \ {Null} /\ panel'.pulling = FALSE
    BY <2>1, MountedTyped
  <2>4. TypeOK'
    BY <2>1, <2>2, <2>3, IntakeConstants DEF TypeOK, Pulling
  <2> QED
    BY <2>1, <2>2, <2>3, <2>4
    DEF ReadsOfTheLoad, CardsOfLoads, RequestOfTheLoad, ReportOfTheLoad, LoadedOrPulledOver
<1>11. CASE Leave
  <2>1. /\ page' = "elsewhere" /\ panel' = Null /\ UNCHANGED <<status, session, kpi>>
    BY <1>11 DEF Leave
  <2>2. TypeOK'
    BY <2>1 DEF TypeOK, Pulling, session
  <2> QED
    BY <2>1, <2>2
    DEF session, ReadsOfTheLoad, CardsOfLoads, RequestOfTheLoad, ReportOfTheLoad, LoadedOrPulledOver, Structured
<1>12. CASE Return
  <2>1. /\ page' = "generator" /\ UNCHANGED <<status, session, kpi>>
        /\ panel' = IF status = "ready" THEN Null ELSE Mounted(load)
    BY <1>12 DEF Return
  <2>2. /\ Mounted(load) \in Panel /\ Mounted(load) # Null /\ Mounted(load).card = Null
        /\ Mounted(load).reads \subseteq {load} \ {Null} /\ Mounted(load).pulling = FALSE
    BY MountedTyped DEF TypeOK
  <2>3. TypeOK'
    BY <2>1, <2>2 DEF TypeOK, Pulling, session
  <2> QED
    BY <2>1, <2>2, <2>3
    DEF session, ReadsOfTheLoad, CardsOfLoads, RequestOfTheLoad, ReportOfTheLoad, LoadedOrPulledOver, Structured
<1>13. CASE StartPull
  <2>1. panel \in Panel /\ panel # Null /\ status = "idle" /\ page = "generator"
    BY <1>13, FormHasPanel DEF StartPull
  <2>2. /\ panel' \in Panel /\ panel'.reads = panel.reads /\ panel'.card = panel.card
        /\ pulls' = pulls + 1
        /\ UNCHANGED <<page, status, loads, load, prev, error, sent, report, kpi>>
    BY <1>13, <2>1 DEF StartPull, Panel
  <2>3. TypeOK'
    BY <2>1, <2>2, NullIsApart DEF TypeOK, Pulling
  <2> QED
    BY <2>1, <2>2, <2>3
    DEF ReadsOfTheLoad, CardsOfLoads, RequestOfTheLoad, ReportOfTheLoad, LoadedOrPulledOver, Structured
<1>14. ASSUME NEW f \in Pulled, NEW own \in BOOLEAN, PullArrives(f, own) PROVE IntakeInv'
  <2>1. /\ load' \in Load /\ load' # Null /\ load'.n = loads + 1 /\ load'.file = f
        /\ loads' = loads + 1 /\ loads \in Nat
    BY <1>14, SetFileTyped, IntakeConstants DEF PullArrives
  <2>2. UNCHANGED <<page, status, prev, error, sent, report, kpi>>
    BY <1>14 DEF PullArrives, PullEnds
  <2>3. CASE panel = Null
    <3>1. panel' = Null /\ pulls' \in Nat
      BY <1>14, <2>3, PullCounted DEF PullArrives
    <3>2. TypeOK'
      BY <2>1, <2>2, <2>3, <3>1 DEF TypeOK, Pulling
    <3> QED
      BY <2>1, <2>2, <3>1, <3>2
      DEF ReadsOfTheLoad, CardsOfLoads, RequestOfTheLoad, ReportOfTheLoad, LoadedOrPulledOver
  <2>4. CASE panel # Null
    <3>1. panel \in Panel
      BY <2>4 DEF TypeOK
    <3>2. /\ panel' \in Panel /\ panel'.reads = {load'} /\ panel'.card = panel.card
          /\ panel'.pulling = (panel.pulling /\ ~own)
      BY <1>14, <2>1, <2>4, <3>1 DEF PullArrives, Panel
    <3>3. pulls' \in Nat /\ (panel.pulling /\ ~own => pulls' > 0)
      BY <1>14, <2>4, <3>1, PullCounted DEF PullArrives, Pulling
    <3>4. panel.card # Null => panel.card.load.n \in Nat
      BY <3>1 DEF Panel, Card, Load
    <3>5. TypeOK'
      <4>1. Pulling' => pulls' > 0
        BY <3>2, <3>3 DEF Pulling
      <4> QED
        BY <2>1, <2>2, <2>4, <3>2, <3>3, <4>1, NullIsApart DEF TypeOK
    <3>6. CardsOfLoads'
      BY <2>1, <2>4, <3>2, <3>4 DEF CardsOfLoads, Structured
    <3> QED
      BY <2>1, <2>2, <3>2, <3>5, <3>6
      DEF ReadsOfTheLoad, RequestOfTheLoad, ReportOfTheLoad, LoadedOrPulledOver
  <2> QED
    BY <2>3, <2>4
<1>15. ASSUME NEW own \in BOOLEAN, PullFails(own) PROVE IntakeInv'
  <2>1. UNCHANGED <<page, status, loads, load, prev, error, sent, report, kpi>>
    BY <1>15 DEF PullFails, PullEnds
  <2>2. CASE panel = Null
    <3>1. panel' = Null /\ pulls' \in Nat
      BY <1>15, <2>2, PullCounted DEF PullFails
    <3>2. TypeOK'
      BY <2>1, <2>2, <3>1 DEF TypeOK, Pulling
    <3> QED
      BY <2>1, <3>1, <3>2
      DEF ReadsOfTheLoad, CardsOfLoads, RequestOfTheLoad, ReportOfTheLoad, LoadedOrPulledOver
  <2>3. CASE panel # Null
    <3>1. panel \in Panel
      BY <2>3 DEF TypeOK
    <3>2. /\ panel' \in Panel /\ panel'.reads = panel.reads /\ panel'.card = panel.card
          /\ panel'.pulling = (panel.pulling /\ ~own)
      BY <1>15, <2>3, <3>1 DEF PullFails, Panel
    <3>3. pulls' \in Nat /\ (panel.pulling /\ ~own => pulls' > 0)
      BY <1>15, <2>3, <3>1, PullCounted DEF PullFails, Pulling
    <3>4. TypeOK'
      BY <2>1, <2>3, <3>2, <3>3, NullIsApart DEF TypeOK, Pulling
    <3> QED
      BY <2>1, <2>3, <3>2, <3>4
      DEF ReadsOfTheLoad, CardsOfLoads, RequestOfTheLoad, ReportOfTheLoad, LoadedOrPulledOver, Structured
  <2> QED
    BY <2>2, <2>3
<1>16. CASE UNCHANGED intakeVars
  BY <1>16 DEF intakeVars, session, TypeOK, Pulling, ReadsOfTheLoad, CardsOfLoads, RequestOfTheLoad, ReportOfTheLoad, LoadedOrPulledOver, Structured
<1> QED
  BY <1>1, <1>2, <1>3, <1>4, <1>5, <1>6, <1>7, <1>8, <1>9, <1>10, <1>11, <1>12, <1>13,
     <1>14, <1>15, <1>16 DEF IntakeNext

LEMMA Initially == IntakeInit => IntakeInv
<1> SUFFICES ASSUME IntakeInit PROVE IntakeInv
  OBVIOUS
<1>1. /\ panel \in Panel /\ panel # Null /\ panel.card = Null
      /\ panel.reads \subseteq {Null} \ {Null} /\ panel.pulling = FALSE
  BY MountedTyped DEF IntakeInit
<1> QED
  BY <1>1, IntakeConstants
  DEF IntakeInit, IntakeInv, TypeOK, Pulling, ReadsOfTheLoad, CardsOfLoads, RequestOfTheLoad, ReportOfTheLoad

LEMMA Invariant == IntakeSpec => []IntakeInv
BY Initially, Inductive, PTL DEF IntakeSpec

(* The form, the session and the panel are type correct, and a panel is    *)
(* mounted exactly when the generator shows no report.                     *)
THEOREM TypesAlways == IntakeSpec => []TypeOK
<1>1. IntakeInv => TypeOK
  BY DEF IntakeInv
<1> QED
  BY <1>1, Invariant, PTL

----------------------------------------------------------------------------
(* A loaded file always has its card, or a read that will set it.          *)
THEOREM FilesGetTheirCards == IntakeSpec => []EveryFileGetsItsCard
<1>1. IntakeInit => EveryFileGetsItsCard
  BY DEF IntakeInit, EveryFileGetsItsCard
<1>2. IntakeInv /\ EveryFileGetsItsCard /\ [IntakeNext]_intakeVars => EveryFileGetsItsCard'
  <2> SUFFICES ASSUME IntakeInv, EveryFileGetsItsCard, [IntakeNext]_intakeVars, panel' # Null, load' # Null
               PROVE  load' \in panel'.reads \/ CardShown'
    BY DEF EveryFileGetsItsCard
  <2> USE DEF EveryFileGetsItsCard, CardShown, IntakeInv
  <2>1. ASSUME NEW f \in Files, ChooseFile(f) PROVE load' \in panel'.reads
    <3>1. panel \in Panel
      BY <2>1, FormHasPanel DEF ChooseFile
    <3> QED
      BY <2>1, <3>1 DEF ChooseFile, SetFile, Panel
  <2>2. CASE RemoveFile
    BY <2>2 DEF RemoveFile
  <2>3. ASSUME NEW k \in Kpis, PickKpi(k) PROVE load' \in panel'.reads \/ CardShown'
    <3>1. panel \in Panel /\ panel # Null
      BY <2>3, FormHasPanel DEF PickKpi
    <3> QED
      BY <2>3, <3>1 DEF PickKpi, Panel, session
  <2>4. CASE ReadEnds
    <3>1. PICK l \in panel.reads : ReadDone(l) \/ ReadFails(l)
      BY <2>4 DEF ReadEnds
    <3>2. panel # Null /\ l = load
      BY <2>4, <3>1 DEF ReadEnds, ReadsOfTheLoad
    <3>3. panel'.card # Null /\ panel'.card.load = l /\ load' = load
      BY <3>1, <3>2, ReadTyped DEF session
    <3> QED
      BY <3>2, <3>3
  <2>5. CASE Answer
    BY <2>5 DEF Answer
  <2>6. ASSUME NEW k \in {"roas", "cpa"}, SwitchKpi(k) PROVE load' \in panel'.reads
    BY <2>6, MountedTyped DEF SwitchKpi, TypeOK
  <2>7. CASE NewDebrief
    BY <2>7 DEF NewDebrief
  <2>8. CASE Leave
    BY <2>8 DEF Leave
  <2>9. CASE Return
    BY <2>9, MountedTyped DEF Return, TypeOK, session
  <2>10. CASE Submit \/ StartPull
    <3>1. panel \in Panel /\ panel # Null
      BY <2>10, FormHasPanel DEF Submit, StartPull
    <3>2. panel'.reads = panel.reads /\ panel'.card = panel.card /\ load' = load
      BY <2>10, <3>1 DEF Submit, StartPull, Panel
    <3> QED
      BY <3>1, <3>2
  <2>11. ASSUME NEW f \in Pulled, NEW own \in BOOLEAN, PullArrives(f, own) PROVE load' \in panel'.reads
    <3>1. panel # Null /\ panel \in Panel
      BY <2>11 DEF PullArrives, TypeOK
    <3> QED
      BY <2>11, <3>1 DEF PullArrives, Panel
  <2>12. ASSUME NEW own \in BOOLEAN, PullFails(own) PROVE load' \in panel'.reads \/ CardShown'
    <3>1. panel # Null /\ panel \in Panel
      BY <2>12 DEF PullFails, TypeOK
    <3>2. panel'.reads = panel.reads /\ panel'.card = panel.card /\ load' = load
      BY <2>12, <3>1 DEF PullFails, Panel
    <3> QED
      BY <3>1, <3>2
  <2>13. CASE UNCHANGED <<load, panel>>
    BY <2>13
  <2> QED
    BY <2>1, <2>2, <2>3, <2>4, <2>5, <2>6, <2>7, <2>8, <2>9, <2>10, <2>11, <2>12, <2>13
    DEF IntakeNext, ChoosePrevious, Lose, intakeVars, session
<1> QED
  BY <1>1, <1>2, Invariant, PTL DEF IntakeSpec

----------------------------------------------------------------------------
(* Once a card says its file is good the KPI fits the file, unless none    *)
(* does or the user picked it since, and the notice is about this file:    *)
(* for any exports, loads and order in which reads end.                    *)
THEOREM KpiAlwaysFollows == IntakeSpec => []KpiFollowsTheFile
<1>1. IntakeInit => KpiFollowsTheFile
  BY MountedTyped DEF IntakeInit, KpiFollowsTheFile, CardReady, CardShown
<1>2. IntakeInv /\ KpiFollowsTheFile /\ [IntakeNext]_intakeVars => KpiFollowsTheFile'
  <2> SUFFICES ASSUME IntakeInv, KpiFollowsTheFile, [IntakeNext]_intakeVars, CardReady'
               PROVE  /\ \/ panel'.manual
                         \/ Usable(FileOf(load'.file), kpi')
                         \/ \A k \in Kpis : ~Usable(FileOf(load'.file), k)
                      /\ panel'.notice # Null /\ panel'.notice.to = kpi'
                         => ~Usable(FileOf(load'.file), panel'.notice.from)
    BY DEF KpiFollowsTheFile, CardReady, CardShown
  <2> DEFINE Goal == /\ \/ panel'.manual
                        \/ Usable(FileOf(load'.file), kpi')
                        \/ \A k \in Kpis : ~Usable(FileOf(load'.file), k)
                     /\ panel'.notice # Null /\ panel'.notice.to = kpi'
                        => ~Usable(FileOf(load'.file), panel'.notice.from)
  <2> USE DEF IntakeInv
  <2>0. panel' # Null /\ panel'.card # Null /\ load' # Null /\ panel'.card.load = load'
        /\ panel'.card.error = Null
    BY DEF CardReady, CardShown
  <2>1. ASSUME NEW f \in Files, ChooseFile(f) PROVE FALSE
    <3>1. panel \in Panel /\ panel # Null
      BY <2>1, FormHasPanel DEF ChooseFile
    <3>2. panel'.card = panel.card /\ load'.n = loads + 1 /\ loads \in Nat
      BY <2>1, <3>1, SetFileTyped DEF ChooseFile, Panel
    <3>3. panel.card.load.n <= loads
      BY <2>0, <3>1, <3>2 DEF CardsOfLoads
    <3> QED
      BY <2>0, <3>2, <3>3
  <2>2. CASE RemoveFile
    BY <2>0, <2>2 DEF RemoveFile
  <2>3. ASSUME NEW k \in Kpis, PickKpi(k) PROVE Goal
    <3>1. panel \in Panel
      BY <2>3, FormHasPanel DEF PickKpi
    <3>2. panel'.manual = TRUE /\ panel'.notice = Null
      BY <2>3, <3>1 DEF PickKpi, Panel
    <3> QED
      BY <3>2
  <2>4. CASE ReadEnds
    <3>1. PICK l \in panel.reads : ReadDone(l) \/ ReadFails(l)
      BY <2>4 DEF ReadEnds
    <3>2. panel # Null /\ l = load /\ panel \in Panel /\ kpi \in Kpis
      BY <2>4, <3>1 DEF ReadEnds, ReadsOfTheLoad, TypeOK
    <3>3. load' = load /\ panel'.manual = panel.manual /\ panel.manual \in BOOLEAN
      BY <3>1, <3>2, ReadTyped DEF session, Panel
    <3>4. CASE ReadFails(l)
      <4>1. panel'.card.error = "unreadable"
        BY <3>2, <3>4 DEF ReadFails, Panel
      <4> QED
        BY <2>0, <4>1, NullIsApart
    <3>5. CASE ReadDone(l)
      <4> DEFINE next == ChooseAutoKpi(kpi, FileOf(l.file), panel.manual)
      <4>1. CheckExportStructure(FileOf(l.file)) = Null
        BY <2>0, <3>2, <3>5 DEF ReadDone, FollowedKpi, Panel
      <4>2. /\ panel'.notice = IF next = Null THEN Null ELSE [from |-> kpi, to |-> next]
            /\ kpi' = OrElse(next, kpi)
        BY <3>2, <3>5, <4>1 DEF ReadDone, FollowedKpi, Panel
      <4>3. /\ next # Null => Usable(FileOf(l.file), next) /\ ~Usable(FileOf(l.file), kpi)
            /\ next = Null => \/ panel.manual
                              \/ Usable(FileOf(l.file), kpi)
                              \/ \A k \in Kpis : ~Usable(FileOf(l.file), k)
        BY <3>2, <3>3, AutoKpiFits
      <4> HIDE DEF next
      <4> QED
        BY <3>2, <3>3, <4>2, <4>3 DEF OrElse
    <3> QED
      BY <3>1, <3>4, <3>5
  <2>5. ASSUME NEW k \in {"roas", "cpa"}, SwitchKpi(k) PROVE FALSE
    BY <2>0, <2>5, MountedTyped DEF SwitchKpi, TypeOK
  <2>6. CASE NewDebrief
    BY <2>0, <2>6 DEF NewDebrief
  <2>7. CASE Leave
    BY <2>0, <2>7 DEF Leave
  <2>8. CASE Return
    BY <2>0, <2>8, MountedTyped DEF Return, TypeOK
  <2>9. CASE Answer
    <3>1. UNCHANGED <<load, kpi, panel>>
      BY <2>0, <2>9 DEF Answer
    <3> QED
      BY <2>0, <3>1 DEF KpiFollowsTheFile, CardReady, CardShown
  <2>10. CASE Submit \/ StartPull
    <3>1. panel \in Panel /\ panel # Null
      BY <2>10, FormHasPanel DEF Submit, StartPull
    <3>2. /\ panel'.card = panel.card /\ panel'.manual = panel.manual /\ panel'.notice = panel.notice
          /\ UNCHANGED <<load, kpi>>
      BY <2>10, <3>1 DEF Submit, StartPull, Panel
    <3> QED
      BY <2>0, <3>1, <3>2 DEF KpiFollowsTheFile, CardReady, CardShown
  <2>11. ASSUME NEW f \in Pulled, NEW own \in BOOLEAN, PullArrives(f, own) PROVE FALSE
    <3>1. panel # Null /\ panel \in Panel
      BY <2>0, <2>11 DEF PullArrives, TypeOK
    <3>2. panel'.card = panel.card /\ load'.n = loads + 1 /\ loads \in Nat
      BY <2>11, <3>1, SetFileTyped, IntakeConstants DEF PullArrives, Panel
    <3>3. panel.card.load.n <= loads
      BY <2>0, <3>1, <3>2 DEF CardsOfLoads
    <3> QED
      BY <2>0, <3>2, <3>3
  <2>12. ASSUME NEW own \in BOOLEAN, PullFails(own) PROVE Goal
    <3>1. panel # Null /\ panel \in Panel
      BY <2>0, <2>12 DEF PullFails, TypeOK
    <3>2. /\ panel'.card = panel.card /\ panel'.manual = panel.manual /\ panel'.notice = panel.notice
          /\ UNCHANGED <<load, kpi>>
      BY <2>12, <3>1 DEF PullFails, PullEnds, Panel
    <3> QED
      BY <2>0, <3>1, <3>2 DEF KpiFollowsTheFile, CardReady, CardShown
  <2>13. CASE UNCHANGED <<load, kpi, panel>>
    BY <2>0, <2>13 DEF KpiFollowsTheFile, CardReady, CardShown
  <2> QED
    BY <2>1, <2>2, <2>3, <2>4, <2>5, <2>6, <2>7, <2>8, <2>9, <2>10, <2>11, <2>12, <2>13
    DEF IntakeNext, ChoosePrevious, Lose, intakeVars, session
<1> QED
  BY <1>1, <1>2, Invariant, PTL DEF IntakeSpec

----------------------------------------------------------------------------
(* What the page lets through the server refuses for the file itself only  *)
(* because no ad in it delivered, for any exports and any session: also    *)
(* when a pull replaced the file under the run or the report that a KPI    *)
(* switch then sends it from.                                              *)
THEOREM CardAlwaysTells == IntakeSpec => []CardTellsTheRequest
<1>1. IntakeInit => CardTellsTheRequest
  BY DEF IntakeInit, CardTellsTheRequest
<1>2. IntakeInv /\ CardTellsTheRequest /\ [IntakeNext]_intakeVars => CardTellsTheRequest'
  <2> SUFFICES ASSUME IntakeInv, CardTellsTheRequest, [IntakeNext]_intakeVars PROVE CardTellsTheRequest'
    OBVIOUS
  <2> USE DEF CardTellsTheRequest
  <2>1. CASE Answer
    <3>1. error' = Refusal(sent) /\ CheckExport(FileOf(sent.file), sent.kpi) = Null
      BY <2>1 DEF Answer, IntakeInv, RequestOfTheLoad
    <3> QED
      BY <3>1, OnlyWithoutAds
  <2>2. CASE Lose
    BY <2>2 DEF Lose
  <2>3. CASE Submit
    BY <2>3 DEF Submit, SendForm
  <2>4. ASSUME NEW k \in {"roas", "cpa"}, SwitchKpi(k) PROVE CardTellsTheRequest'
    BY <2>4 DEF SwitchKpi, SendForm
  <2>5. CASE NewDebrief
    BY <2>5 DEF NewDebrief
  <2>6. CASE ReadEnds
    BY <2>6 DEF ReadEnds, ReadDone, ReadFails, session
  <2>7. CASE UNCHANGED error
    BY <2>7
  <2> QED
    BY <2>1, <2>2, <2>3, <2>4, <2>5, <2>6, <2>7
    DEF IntakeNext, ChooseFile, RemoveFile, ChoosePrevious, PickKpi, StartPull, PullEnds, PullArrives,
        PullFails, Leave, Return, intakeVars, session
<1> QED
  BY <1>1, <1>2, Invariant, PTL DEF IntakeSpec

----------------------------------------------------------------------------
(* Sets of places *)

LEMMA PlacesFinite ==
  ASSUME NEW n \in Nat, NEW S, S \subseteq 1..n
  PROVE  IsFiniteSet(S) /\ Cardinality(S) \in Nat
<1>1. IsFiniteSet(1..n)
  BY FS_Interval
<1>2. IsFiniteSet(S)
  BY <1>1, FS_Subset
<1> QED
  BY <1>2, FS_CardinalityType

LEMMA LastOfLargest ==
  ASSUME NEW n \in Nat, NEW S, S \subseteq 1..n
  PROVE  /\ LastOf(S) \in Nat /\ S \subseteq 1..LastOf(S)
         /\ S # {} => Max(S) \in S
<1>1. CASE S = {}
  BY <1>1 DEF LastOf
<1>2. CASE S # {}
  <2> DEFINE v == [i \in S |-> i]
  <2>1. \A i \in S : v[i] \in Int
    OBVIOUS
  <2>2. PICK high \in S : \A i \in S : v[i] <= v[high]
    <3> HIDE DEF v
    <3> QED
      BY <1>2, <2>1, PlacesFinite, Extremes
  <2>3. \A i \in S : high >= i
    BY <2>2
  <2>4. Max(S) \in S /\ \A i \in S : Max(S) >= i
    BY <2>3 DEF Max
  <2>5. LastOf(S) = Max(S) /\ Max(S) \in S
    BY <1>2, <2>4 DEF LastOf
  <2>6. Max(S) \in 1..n /\ \A i \in S : i \in 1..n
    BY <2>4
  <2> QED
    BY <2>4, <2>5, <2>6
<1> QED
  BY <1>1, <1>2

LEMMA MinIsLeast ==
  ASSUME NEW n \in Nat, NEW S, S \subseteq 1..n, S # {}
  PROVE  Min(S) \in S /\ \A i \in S : Min(S) <= i
<1>1. PICK low \in S : \A i \in S : low <= i
  <2>1. S \subseteq Nat
    OBVIOUS
  <2> QED
    BY <2>1, LeastOne
<1> QED
  BY <1>1 DEF Min

LEMMA SortedPlaces ==
  ASSUME NEW n \in Nat, NEW S, S \subseteq 1..n, NEW before
  PROVE  /\ IsList(Ordered(S, LastOf(S), before))
         /\ NoRepeats(Ordered(S, LastOf(S), before))
         /\ Members(Ordered(S, LastOf(S), before)) = S
         /\ Len(Ordered(S, LastOf(S), before)) = Cardinality(S)
  BY LastOfLargest, OrderedProperties

LEMMA SortedInOrder ==
  ASSUME NEW n \in Nat, NEW S, S \subseteq 1..n, NEW before, IsOrder(S, before)
  PROVE  InOrder(Ordered(S, LastOf(S), before), before)
  BY LastOfLargest, OrderedInOrder

LEMMA UptoWithin ==
  ASSUME NEW list, IsList(list), NEW n \in Nat
  PROVE  IsList(Upto(list, n)) /\ Members(Upto(list, n)) \subseteq Members(list)
<1> DEFINE m == IF n <= Len(list) THEN n ELSE Len(list)
           s == SubSeq(list, 1, m)
<1>1. Len(list) \in Nat /\ list \in Seq(Members(list))
  BY ListIsSeq
<1>2. Min({n, Len(list)}) = m
  <2>1. m \in {n, Len(list)} /\ \A y \in {n, Len(list)} : m <= y
    BY <1>1
  <2>2. \A x \in {n, Len(list)} : (\A y \in {n, Len(list)} : x <= y) => x = m
    BY <1>1
  <2> HIDE DEF m
  <2> QED
    BY <2>1, <2>2 DEF Min
<1>3. Upto(list, n) = s
  BY <1>2 DEF Upto
<1>4. m \in 0..Len(list) /\ 1 \in 1 .. Len(list) + 1
  BY <1>1
<1>5. s \in Seq(Members(list)) /\ Len(s) \in Nat /\ \A i \in 1..Len(s) : s[i] \in Members(list)
  <2> HIDE DEF m, s
  <2>1. s \in Seq(Members(list))
    BY <1>1, <1>4, SubSeqProperties DEF s
  <2> QED
    BY <2>1, LenProperties, ElementOfSeq
<1> HIDE DEF s
<1> QED
  BY <1>3, <1>5, SeqIsList DEF Members

----------------------------------------------------------------------------
(* What an export is read as *)

IntOrNull == Int \cup {Null}

RowFields == {"name", "id", "spend", "value", "zero", "conv", "clicks", "impressions", "tag",
              "stage", "rungs", "tokens", "parts", "rows", "viewThrough", "segment", "window"}

IsRow(ad) ==
    /\ DOMAIN ad = RowFields
    /\ ad.zero \in BOOLEAN
    /\ ad.spend \in Int
    /\ ad.value \in IntOrNull
    /\ ad.conv \in IntOrNull
    /\ ad.clicks \in IntOrNull
    /\ ad.impressions \in IntOrNull

Rows(list) == IsList(list) /\ \A n \in 1..Len(list) : IsRow(list[n])

LEMMA OrElseNumber ==
  ASSUME NEW x \in IntOrNull, NEW y \in IntOrNull
  PROVE  OrElse(x, y) \in IntOrNull /\ (y \in Int => OrElse(x, y) \in Int)
  BY DEF OrElse, IntOrNull

LEMMA RatioNumber ==
  ASSUME NEW n \in IntOrNull, NEW d \in IntOrNull
  PROVE  Ratio(n, d) \in IntOrNull
<1>1. CASE n = Null \/ d = Null \/ d <= 0
  BY <1>1 DEF Ratio, IntOrNull
<1>2. CASE ~(n = Null \/ d = Null \/ d <= 0)
  <2>1. n \in Int /\ d \in Int /\ d > 0
    BY <1>2 DEF IntOrNull
  <2>2. n \div d \in Int
    BY <2>1
  <2> QED
    BY <1>2, <2>2 DEF Ratio, IntOrNull
<1> QED
  BY <1>1, <1>2

LEMMA ProductNumber ==
  ASSUME NEW x \in Int, NEW y \in Int
  PROVE  x * y \in Int
  OBVIOUS

\* The cells of a row are numbers.
Numeric(row) == \A f \in DOMAIN row.cells : row.cells[f] \in Int

LEMMA CellNumber ==
  ASSUME NEW row, Numeric(row), NEW columns, NEW field
  PROVE  Cell(row, columns, field) \in IntOrNull
  BY DEF Cell, Numeric, IntOrNull

LEMMA KpiValueNumber ==
  ASSUME NEW row, Numeric(row), NEW columns, NEW k
  PROVE  KpiValueForRow(row, columns, k) \in IntOrNull
<1> DEFINE C(field) == Cell(row, columns, field)
           click == ClickBasis(k, columns)
           spend == OrElse(C("spend"), 0)
           direct == IF "costPerPurchase" \in columns THEN C("costPerPurchase") ELSE C("costPerLead")
           hundred == 100 * C("linkClicks")
           rate == IF C("linkClicks") = Null THEN Null ELSE Ratio(hundred, C("impressions"))
           value == CASE click # Null /\ k = "roas" -> Ratio(C(click.value), spend)
                      [] click # Null /\ k = "cpa" -> Ratio(spend, C(click.count))
                      [] k \in {"purchases", "leads"} -> C(k)
                      [] k = "ctr" -> OrElse(C("ctr"), rate)
                      [] k = "cpc" -> OrElse(C("cpc"), Ratio(spend, C("linkClicks")))
                      [] k = "cpa" /\ click = Null ->
                             OrElse(direct, Ratio(spend, OrElse(C("purchases"), C("leads"))))
                      [] OTHER -> OrElse(C("purchaseRoas"), Ratio(C("purchaseValue"), spend))
<1>1. KpiValueForRow(row, columns, k) = value
  BY DEF KpiValueForRow
<1>2. \A field : C(field) \in IntOrNull
  BY CellNumber
<1>3. spend \in Int /\ spend \in IntOrNull
  <2>1. 0 \in Int /\ 0 \in IntOrNull
    BY DEF IntOrNull
  <2> HIDE DEF C
  <2>2. spend \in Int
    BY <1>2, <2>1, OrElseNumber
  <2> QED
    BY <2>2 DEF IntOrNull
<1>4. C("linkClicks") # Null => hundred \in IntOrNull
  <2>1. C("linkClicks") \in IntOrNull
    BY <1>2
  <2> HIDE DEF C
  <2> QED
    BY <2>1 DEF IntOrNull
<1>5. rate \in IntOrNull
  <2> HIDE DEF C, hundred
  <2> QED
    BY <1>2, <1>4, RatioNumber DEF IntOrNull
<1>6. direct \in IntOrNull
  BY <1>2
<1> HIDE DEF C, click, spend, direct, rate
<1>7. \A f, g : OrElse(C(f), Ratio(spend, C(g))) \in IntOrNull
  BY <1>2, <1>3, OrElseNumber, RatioNumber
<1>8. OrElse(direct, Ratio(spend, OrElse(C("purchases"), C("leads")))) \in IntOrNull
  BY <1>2, <1>3, <1>6, OrElseNumber, RatioNumber
<1>9. OrElse(C("purchaseRoas"), Ratio(C("purchaseValue"), spend)) \in IntOrNull
  BY <1>2, <1>3, OrElseNumber, RatioNumber
<1>10. OrElse(C("ctr"), rate) \in IntOrNull
  BY <1>2, <1>5, OrElseNumber
<1>11. Ratio(C(click.value), spend) \in IntOrNull /\ Ratio(spend, C(click.count)) \in IntOrNull
  BY <1>2, <1>3, RatioNumber
<1>12. value \in IntOrNull
  BY <1>2, <1>7, <1>8, <1>9, <1>10, <1>11
<1> QED
  BY <1>1, <1>12

LEMMA RowAdIsRow ==
  ASSUME NEW row, Numeric(row), NEW exp, NEW k, NEW lead
  PROVE  IsRow(RowAd(row, exp, k, lead))
<1> DEFINE C(field) == Cell(row, exp.columns, field)
           spend == OrElse(C("spend"), 0)
           value == KpiValueForRow(row, exp.columns, k)
           field == IF ClickBasis("cpa", exp.columns) = Null THEN "leads"
                    ELSE ClickBasis("cpa", exp.columns).count
           zero == value = Null /\ RowZero(row, exp, k, spend)
           conv == IF k = "roas" /\ zero THEN 0 ELSE IF lead THEN C(field)
                   ELSE ConversionsForRow(row, exp.columns, k)
           ad == RowAd(row, exp, k, lead)
<1>1. /\ DOMAIN ad = RowFields
      /\ ad.zero = zero
      /\ ad.spend = spend
      /\ ad.value = IF k = "roas" /\ zero THEN 0 ELSE value
      /\ ad.conv = conv
      /\ ad.clicks = C("linkClicks")
      /\ ad.impressions = C("impressions")
  BY DEF RowAd, RowFields
<1>2. \A f : C(f) \in IntOrNull
  BY CellNumber
<1>3. value \in IntOrNull
  BY KpiValueNumber
<1>4. ConversionsForRow(row, exp.columns, k) \in IntOrNull
  BY CellNumber DEF ConversionsForRow, IntOrNull
<1>5. 0 \in IntOrNull
  BY DEF IntOrNull
<1>6. spend \in Int
  <2> HIDE DEF C
  <2> QED
    BY <1>2, <1>5, OrElseNumber
<1>7. zero \in BOOLEAN
  OBVIOUS
<1> HIDE DEF C, spend, value, field, zero, ad
<1>8. IsRow(ad)
  BY <1>1, <1>2, <1>3, <1>4, <1>5, <1>6, <1>7 DEF IsRow
<1> QED
  BY <1>8 DEF ad

LEMMA RowAdsAreRows ==
  ASSUME NEW exp, IsExport(exp), NEW k
  PROVE  Rows(RowAds(exp, k))
<1> DEFINE lead == k = "cpa" /\ RowsWithCpa(exp) # {} /\ LeadsOnly(exp)
           all == [n \in DOMAIN exp.rows |-> RowAd(exp.rows[n], exp, k, lead)]
           kept == {n \in DOMAIN all : all[n].spend > 0 \/ all[n].value # Null}
<1>1. RowAds(exp, k) = Picked(all, kept)
  BY DEF RowAds
<1>2. Len(exp.rows) \in Nat /\ DOMAIN exp.rows = 1..Len(exp.rows)
  BY ListIsSeq DEF IsExport
<1>3. \A n \in 1..Len(exp.rows) : Numeric(exp.rows[n])
  BY <1>2 DEF IsExport, Numeric
<1> HIDE DEF lead
<1>4. \A n \in 1..Len(exp.rows) : IsRow(all[n])
  BY <1>2, <1>3, RowAdIsRow
<1>5. IsList(all) /\ Len(all) = Len(exp.rows)
  <2>1. all = [n \in 1..Len(exp.rows) |-> all[n]]
    BY <1>2
  <2> HIDE DEF all
  <2> QED
    BY <1>2, <2>1, MadeIsList
<1> HIDE DEF all, kept
<1>6. IsList(Picked(all, kept)) /\ Members(Picked(all, kept)) \subseteq Members(all)
  BY <1>5, PickedWithin
<1>7. \A x \in Members(all) : IsRow(x)
  BY <1>4, <1>5 DEF Members
<1> QED
  BY <1>1, <1>6, <1>7 DEF Rows, Members

LEMMA SumNumber ==
  ASSUME NEW n \in Nat, NEW S, S \subseteq 1..n, NEW f, DOMAIN f = S, \A i \in S : f[i] \in Int
  PROVE  Total(f, LastOf(S)) \in Int
  BY LastOfLargest, TotalIsNumber

\* A sum that is unknown when a part is.
SumKnown(f) == IF \E i \in DOMAIN f : f[i] = Null THEN Null ELSE Total(f, LastOf(DOMAIN f))

LEMMA SumKnownNumber ==
  ASSUME NEW n \in Nat, NEW f, DOMAIN f \subseteq 1..n, \A i \in DOMAIN f : f[i] \in IntOrNull
  PROVE  SumKnown(f) \in IntOrNull
  BY SumNumber DEF SumKnown, IntOrNull

LEMMA RowCountsNumber ==
  ASSUME NEW ad, IsRow(ad), NEW k
  PROVE  RowClicks(ad, k) \in IntOrNull /\ RowOutcomes(ad, k) \in IntOrNull
<1> DEFINE v == ad.value
           m == ad.impressions
<1>1. v # Null /\ m # Null => (v * m) \div 100 \in IntOrNull
  <2>1. v \in IntOrNull /\ m \in IntOrNull
    BY DEF IsRow
  <2> HIDE DEF v, m
  <2>2. v # Null /\ m # Null => v * m \in Int
    BY <2>1, ProductNumber DEF IntOrNull
  <2>3. \A x \in Int : x \div 100 \in Int
    OBVIOUS
  <2> QED
    BY <2>2, <2>3 DEF IntOrNull
<1>2. ad.spend \in IntOrNull /\ v \in IntOrNull
  BY DEF IsRow, IntOrNull
<1>3. Ratio(ad.spend, v) \in IntOrNull
  BY <1>2, RatioNumber
<1>4. RowClicks(ad, k) \in IntOrNull
  BY <1>1, <1>3 DEF RowClicks, IsRow, IntOrNull
<1>5. RowOutcomes(ad, k) \in IntOrNull
  BY <1>3 DEF RowOutcomes, IsRow, IntOrNull
<1> QED
  BY <1>4, <1>5

LEMMA MergeIsRow ==
  ASSUME NEW list, Rows(list), NEW G, G \subseteq 1..Len(list), G # {}, NEW k
  PROVE  IsRow(MergeAds(list, G, k))
<1> DEFINE n == Len(list)
           spendOf == [i \in G |-> list[i].spend]
           spend == Total(spendOf, LastOf(G))
           clicksOf == [i \in G |-> RowClicks(list[i], k)]
           clicks == SumKnown(clicksOf)
           shown == [i \in G |-> list[i].impressions]
           impressions == SumKnown(shown)
           outcomesOf == [i \in G |-> RowOutcomes(list[i], k)]
           outcomes == SumKnown(outcomesOf)
           worthOf == [i \in G |-> IF list[i].value = Null THEN Null ELSE list[i].value * list[i].spend]
           worth == SumKnown(worthOf)
           valuesOf == [i \in G |-> list[i].value]
           convOf == [i \in G |-> list[i].conv]
           linksOf == [i \in G |-> list[i].clicks]
           value == CASE k = "roas" -> Ratio(worth, spend)
                      [] k = "cpa" -> Ratio(spend, outcomes)
                      [] k = "ctr" -> IF clicks = Null THEN Null ELSE Ratio(100 * clicks, impressions)
                      [] k = "cpc" -> Ratio(spend, clicks)
                      [] OTHER -> SumKnown(valuesOf)
           conv == IF ~HasOutcome(k) THEN Null
                   ELSE IF \A i \in G : list[i].zero THEN 0 ELSE SumKnown(convOf)
           zero == CASE k = "roas" -> \A i \in G : list[i].zero
                     [] k = "cpa" -> outcomes = 0 /\ \E i \in G : list[i].zero
                     [] OTHER -> FALSE
           r == MergeAds(list, G, k)
<1>1. n \in Nat /\ Min(G) \in G /\ \A i \in G : IsRow(list[i])
  BY ListIsSeq, MinIsLeast DEF Rows
<1>2. /\ DOMAIN r = DOMAIN list[Min(G)]
      /\ "zero" \in DOMAIN r => r.zero = zero
      /\ "spend" \in DOMAIN r => r.spend = spend
      /\ "value" \in DOMAIN r => r.value = value
      /\ "conv" \in DOMAIN r => r.conv = conv
      /\ "clicks" \in DOMAIN r => r.clicks = SumKnown(linksOf)
      /\ "impressions" \in DOMAIN r => r.impressions = impressions
  BY DEF MergeAds, SumOrNull, SumKnown, SumOver, TotalSpend
<1>3. DOMAIN r = RowFields
  BY <1>1, <1>2 DEF IsRow
<1>4. spend \in Int
  <2>1. DOMAIN spendOf = G /\ \A i \in G : spendOf[i] \in Int
    BY <1>1 DEF IsRow
  <2> HIDE DEF spendOf
  <2> QED
    BY <1>1, <2>1, SumNumber
<1>5. clicks \in IntOrNull
  <2>1. DOMAIN clicksOf = G /\ \A i \in G : clicksOf[i] \in IntOrNull
    BY <1>1, RowCountsNumber
  <2> HIDE DEF clicksOf
  <2> QED
    BY <1>1, <2>1, SumKnownNumber
<1>6. impressions \in IntOrNull
  <2>1. DOMAIN shown = G /\ \A i \in G : shown[i] \in IntOrNull
    BY <1>1 DEF IsRow
  <2> HIDE DEF shown
  <2> QED
    BY <1>1, <2>1, SumKnownNumber
<1>7. outcomes \in IntOrNull
  <2>1. DOMAIN outcomesOf = G /\ \A i \in G : outcomesOf[i] \in IntOrNull
    BY <1>1, RowCountsNumber
  <2> HIDE DEF outcomesOf
  <2> QED
    BY <1>1, <2>1, SumKnownNumber
<1>8. worth \in IntOrNull
  <2>1. \A i \in G : worthOf[i] \in IntOrNull
    <3>1. TAKE i \in G
    <3> DEFINE x == list[i].value
               y == list[i].spend
    <3>2. x \in IntOrNull /\ y \in Int
      BY <1>1 DEF IsRow
    <3>3. worthOf[i] = IF x = Null THEN Null ELSE x * y
      OBVIOUS
    <3> HIDE DEF x, y
    <3> QED
      BY <3>2, <3>3, ProductNumber DEF IntOrNull
  <2>2. DOMAIN worthOf = G
    OBVIOUS
  <2> HIDE DEF worthOf
  <2> QED
    BY <1>1, <2>1, <2>2, SumKnownNumber
<1>9. SumKnown(valuesOf) \in IntOrNull
  <2>1. DOMAIN valuesOf = G /\ \A i \in G : valuesOf[i] \in IntOrNull
    BY <1>1 DEF IsRow
  <2> HIDE DEF valuesOf
  <2> QED
    BY <1>1, <2>1, SumKnownNumber
<1>10. SumKnown(convOf) \in IntOrNull
  <2>1. DOMAIN convOf = G /\ \A i \in G : convOf[i] \in IntOrNull
    BY <1>1 DEF IsRow
  <2> HIDE DEF convOf
  <2> QED
    BY <1>1, <2>1, SumKnownNumber
<1>11. SumKnown(linksOf) \in IntOrNull
  <2>1. DOMAIN linksOf = G /\ \A i \in G : linksOf[i] \in IntOrNull
    BY <1>1 DEF IsRow
  <2> HIDE DEF linksOf
  <2> QED
    BY <1>1, <2>1, SumKnownNumber
<1> HIDE DEF spend, clicks, impressions, outcomes, worth, valuesOf, convOf, linksOf, r
<1>12. value \in IntOrNull
  <2>1. spend \in IntOrNull
    BY <1>4 DEF IntOrNull
  <2>2. clicks # Null => 100 * clicks \in IntOrNull
    BY <1>5 DEF IntOrNull
  <2>3. /\ Ratio(worth, spend) \in IntOrNull /\ Ratio(spend, outcomes) \in IntOrNull
        /\ Ratio(spend, clicks) \in IntOrNull
        /\ clicks # Null => Ratio(100 * clicks, impressions) \in IntOrNull
    BY <1>5, <1>6, <1>7, <1>8, <2>1, <2>2, RatioNumber
  <2>4. Null \in IntOrNull
    BY DEF IntOrNull
  <2> QED
    BY <1>9, <2>3, <2>4
<1>13. conv \in IntOrNull
  BY <1>10 DEF IntOrNull
<1>14. zero \in BOOLEAN
  OBVIOUS
<1> HIDE DEF value, conv, zero
<1>15. IsRow(r)
  BY <1>2, <1>3, <1>4, <1>6, <1>11, <1>12, <1>13, <1>14 DEF IsRow, RowFields
<1> QED
  BY <1>15 DEF r

LEMMA AggregatedAreRows ==
  ASSUME NEW list, Rows(list), NEW k
  PROVE  Rows(AggregateDuplicateRows(list, k))
<1> DEFINE n == Len(list)
           byId == \A m \in DOMAIN list : list[m].id # Null
           key == [m \in DOMAIN list |->
                      IF byId THEN list[Min({l \in DOMAIN list : list[l].id = list[m].id})].name
                      ELSE list[m].name]
           Group(m) == {l \in DOMAIN list : key[l] = key[m]}
           places == [m \in DOMAIN list |-> m]
           first == {m \in DOMAIN list : m = Min(Group(m))}
           firsts == Picked(places, first)
           Made(i) == IF Cardinality(Group(firsts[i])) = 1 THEN list[firsts[i]]
                      ELSE MergeAds(list, Group(firsts[i]), k)
           made == [i \in DOMAIN firsts |-> Made(i)]
<1>1. AggregateDuplicateRows(list, k) = made
  BY DEF AggregateDuplicateRows
<1>2. n \in Nat /\ DOMAIN list = 1..n
  BY ListIsSeq DEF Rows
<1>3. IsList(places) /\ Members(places) = 1..n
  <2>1. places = [i \in 1..n |-> places[i]]
    BY <1>2
  <2>2. \A i \in 1..n : places[i] = i
    BY <1>2
  <2> HIDE DEF places
  <2>3. IsList(places) /\ Len(places) = n
    BY <1>2, <2>1, MadeIsList
  <2> QED
    BY <2>2, <2>3 DEF Members
<1>4. IsList(firsts) /\ Members(firsts) \subseteq 1..n
  <2> HIDE DEF places, first
  <2> QED
    BY <1>3, PickedWithin
<1>5. \A m \in 1..n : Group(m) \subseteq 1..n /\ m \in Group(m)
  BY <1>2
<1> HIDE DEF firsts, Group
<1>6. Len(firsts) \in Nat /\ DOMAIN firsts = 1..Len(firsts)
  BY <1>4, ListIsSeq
<1>7. \A i \in 1..Len(firsts) : IsRow(Made(i))
  <2>1. TAKE i \in 1..Len(firsts)
  <2>2. firsts[i] \in 1..n
    BY <1>4 DEF Members
  <2>3. IsRow(list[firsts[i]])
    BY <2>2 DEF Rows
  <2>4. Group(firsts[i]) \subseteq 1..n /\ Group(firsts[i]) # {}
    BY <1>5, <2>2
  <2>5. IsRow(MergeAds(list, Group(firsts[i]), k))
    BY <2>4, MergeIsRow
  <2> QED
    BY <2>3, <2>5
<1> HIDE DEF Made
<1>8. Len(made) = Len(firsts) /\ IsList(made)
  <2>1. made = [i \in 1..Len(firsts) |-> made[i]]
    BY <1>6
  <2> HIDE DEF made
  <2> QED
    BY <1>6, <2>1, MadeIsList
<1>9. \A i \in 1..Len(firsts) : made[i] = Made(i)
  BY <1>6
<1> QED
  BY <1>1, <1>7, <1>8, <1>9 DEF Rows

LEMMA ExtractedAreRows ==
  ASSUME NEW exp, IsExport(exp), NEW k
  PROVE  Rows(ExtractAds(exp, k))
  BY RowAdsAreRows, AggregatedAreRows DEF ExtractAds

\* What the analysis asks of an ad.
IsAd(ad) ==
    /\ {"value", "conv", "zero", "spend", "other", "tag"} \subseteq DOMAIN ad
    /\ ad.zero \in BOOLEAN
    /\ ad.spend \in Int
    /\ ad.value \in IntOrNull
    /\ ad.conv \in IntOrNull
    /\ ad.other.value \in IntOrNull

Ads(list) == IsList(list) /\ \A n \in 1..Len(list) : IsAd(list[n])

LEMMA AdsOfAreAds ==
  ASSUME NEW exp, IsExport(exp), NEW k
  PROVE  Ads(AdsOf(exp, k))
<1> DEFINE list == ExtractAds(exp, k)
           outcome == OutcomeKpi(k, exp.columns)
           others == IF outcome = Null THEN <<>> ELSE ExtractAds(exp, outcome)
           Same(n) == {m \in DOMAIN others : others[m].name = list[n].name}
           Other(n) == IF Same(n) = {} THEN [value |-> Null, zero |-> FALSE]
                       ELSE [value |-> others[Max(Same(n))].value, zero |-> others[Max(Same(n))].zero]
           Made(n) == With(list[n], [other |-> Other(n)])
           made == [n \in DOMAIN list |-> Made(n)]
<1>1. AdsOf(exp, k) = made
  BY DEF AdsOf, WithOther
<1>2. Rows(list) /\ Rows(others)
  <2>1. Rows(<<>>)
    BY DEF Rows, IsList
  <2> QED
    BY <2>1, ExtractedAreRows
<1> HIDE DEF list, others
<1>3. /\ Len(list) \in Nat /\ DOMAIN list = 1..Len(list)
      /\ Len(others) \in Nat /\ DOMAIN others = 1..Len(others)
  BY <1>2, ListIsSeq DEF Rows
<1>4. ASSUME NEW n \in 1..Len(list) PROVE Other(n).value \in IntOrNull
  <2>1. CASE Same(n) = {}
    BY <2>1 DEF IntOrNull
  <2>2. CASE Same(n) # {}
    <3>1. Same(n) \subseteq 1..Len(others)
      BY <1>3
    <3> HIDE DEF Same
    <3>3. Max(Same(n)) \in 1..Len(others)
      BY <1>3, <3>1, <2>2, LastOfLargest
    <3>4. IsRow(others[Max(Same(n))])
      BY <1>2, <3>3 DEF Rows
    <3>5. Other(n).value = others[Max(Same(n))].value
      BY <2>2
    <3> QED
      BY <3>4, <3>5 DEF IsRow
  <2> QED
    BY <2>1, <2>2
<1> HIDE DEF Other
<1>5. \A n \in 1..Len(list) : IsAd(Made(n))
  <2>1. TAKE n \in 1..Len(list)
  <2>2. IsRow(list[n])
    BY <1>2 DEF Rows
  <2>3. /\ "other" \notin DOMAIN list[n]
        /\ {"value", "conv", "zero", "spend", "tag"} \subseteq DOMAIN list[n]
    BY <2>2 DEF IsRow, RowFields
  <2>4. /\ Made(n).other = Other(n)
        /\ Made(n).value = list[n].value
        /\ Made(n).conv = list[n].conv
        /\ Made(n).zero = list[n].zero
        /\ Made(n).spend = list[n].spend
        /\ {"value", "conv", "zero", "spend", "other", "tag"} \subseteq DOMAIN Made(n)
    BY <2>3 DEF With
  <2> HIDE DEF Made
  <2> QED
    BY <1>4, <2>2, <2>4 DEF IsAd, IsRow
<1> HIDE DEF Made
<1>6. Len(made) = Len(list) /\ IsList(made)
  <2>1. made = [i \in 1..Len(list) |-> made[i]]
    BY <1>3
  <2> HIDE DEF made
  <2> QED
    BY <1>3, <2>1, MadeIsList
<1>7. \A i \in 1..Len(list) : made[i] = Made(i)
  BY <1>3
<1> QED
  BY <1>1, <1>5, <1>6, <1>7 DEF Ads

LEMMA OverriddenAreAds ==
  ASSUME NEW list, Ads(list), NEW overrides
  PROVE  /\ Ads(ApplyFormatOverrides(list, overrides))
         /\ Len(ApplyFormatOverrides(list, overrides)) = Len(list)
<1> DEFINE Made(n) == IF list[n].name \in DOMAIN overrides
                      THEN [list[n] EXCEPT !.tag = overrides[list[n].name]] ELSE list[n]
           made == [n \in DOMAIN list |-> Made(n)]
<1>1. ApplyFormatOverrides(list, overrides) = made
  BY DEF ApplyFormatOverrides
<1>2. Len(list) \in Nat /\ DOMAIN list = 1..Len(list)
  BY ListIsSeq DEF Ads
<1>3. \A n \in 1..Len(list) : IsAd(Made(n))
  <2>1. TAKE n \in 1..Len(list)
  <2> DEFINE ad == list[n]
             tagged == [ad EXCEPT !.tag = overrides[ad.name]]
  <2>2. IsAd(ad)
    BY DEF Ads
  <2>3. /\ DOMAIN tagged = DOMAIN ad
        /\ tagged.value = ad.value /\ tagged.conv = ad.conv /\ tagged.other = ad.other
        /\ tagged.zero = ad.zero /\ tagged.spend = ad.spend
    BY <2>2 DEF IsAd
  <2> QED
    BY <2>2, <2>3 DEF IsAd
<1> HIDE DEF Made
<1>4. Len(made) = Len(list) /\ IsList(made)
  <2>1. made = [i \in 1..Len(list) |-> made[i]]
    BY <1>2
  <2> HIDE DEF made
  <2> QED
    BY <1>2, <2>1, MadeIsList
<1> QED
  BY <1>1, <1>2, <1>3, <1>4 DEF Ads

----------------------------------------------------------------------------
(* Which ads are the same in both exports *)

\* The ads of a period that have a key.
HavingKey(p, basis, k) == {n \in DOMAIN p.ads : KeyOf(p.ads[n], basis) = k}

LEMMA MatchingSure ==
  ASSUME NEW now, NEW was, IsFiniteSet(DOMAIN now.ads), IsFiniteSet(DOMAIN was.ads),
         NEW m, m = Matching(now, was)
  PROVE  LET Named(p, k) == HavingKey(p, m.basis, k)
             NowKey(n) == KeyOf(now.ads[n], m.basis)
         IN  /\ m.matched \cup m.appeared \cup m.ambiguous = DOMAIN now.ads
             /\ \A n \in m.matched : \A p \in {now, was} : Cardinality(Named(p, NowKey(n))) = 1
             /\ \A n \in m.appeared : Named(was, NowKey(n)) = {}
             /\ \A n \in m.disappeared : Named(now, KeyOf(was.ads[n], m.basis)) = {}
<1> DEFINE basis == MatchBasis(now, was)
           usable == UsableKeys(now, was)
           NowKeys == {KeyOf(now.ads[n], basis) : n \in DOMAIN now.ads}
           WasKeys == {KeyOf(was.ads[n], basis) : n \in DOMAIN was.ads}
           both == usable \cap NowKeys \cap WasKeys
           Having(p, k) == {n \in DOMAIN p.ads : KeyOf(p.ads[n], basis) = k}
<1>1. /\ m.basis = basis
      /\ m.matched = {n \in DOMAIN now.ads : KeyOf(now.ads[n], basis) \in both}
      /\ m.appeared = Keyed(now, usable, basis) \ {n \in DOMAIN now.ads : KeyOf(now.ads[n], basis) \in both}
      /\ m.disappeared = Keyed(was, usable, basis) \ {n \in DOMAIN was.ads : KeyOf(was.ads[n], basis) \in both}
      /\ m.ambiguous = DOMAIN now.ads \ Keyed(now, usable, basis)
  BY DEF Matching
<1>2. \A k \in usable : \A p \in {now, was} : Cardinality(Having(p, k)) <= 1
  BY DEF UsableKeys
<1> HIDE DEF basis, usable
<1>3. Keyed(now, usable, basis) = {n \in DOMAIN now.ads : KeyOf(now.ads[n], basis) \in usable}
  BY DEF Keyed
<1>4. Keyed(was, usable, basis) = {n \in DOMAIN was.ads : KeyOf(was.ads[n], basis) \in usable}
  BY DEF Keyed
<1>5. m.matched \cup m.appeared \cup m.ambiguous = DOMAIN now.ads
  BY <1>1, <1>3
<1>6. ASSUME NEW n \in m.matched, NEW p \in {now, was}
      PROVE  Cardinality(Having(p, KeyOf(now.ads[n], basis))) = 1
  <2> DEFINE k == KeyOf(now.ads[n], basis)
             S == Having(p, k)
  <2>1. k \in usable /\ k \in NowKeys /\ k \in WasKeys
    BY <1>1, <1>6
  <2>2. Cardinality(S) <= 1
    BY <1>2, <2>1
  <2>3. S # {}
    BY <2>1
  <2>4. S \subseteq DOMAIN p.ads /\ IsFiniteSet(DOMAIN p.ads)
    OBVIOUS
  <2> HIDE DEF S
  <2>5. IsFiniteSet(S)
    BY <2>4, FS_Subset
  <2>6. Cardinality(S) \in Nat
    BY <2>5, FS_CardinalityType
  <2>7. Cardinality(S) # 0
    BY <2>3, <2>5, FS_EmptySet
  <2>8. Cardinality(S) = 1
    BY <2>2, <2>6, <2>7
  <2> QED
    BY <2>8 DEF S
<1>7. ASSUME NEW n \in m.appeared PROVE Having(was, KeyOf(now.ads[n], basis)) = {}
  BY <1>1, <1>3, <1>7
<1>8. ASSUME NEW n \in m.disappeared PROVE Having(now, KeyOf(was.ads[n], basis)) = {}
  BY <1>1, <1>4, <1>8
<1>9. m.basis = basis /\ \A p, k : HavingKey(p, m.basis, k) = Having(p, k)
  BY <1>1 DEF HavingKey
<1> HIDE DEF Having
<1>10. /\ \A n \in m.matched : \A p \in {now, was} :
              Cardinality(HavingKey(p, m.basis, KeyOf(now.ads[n], m.basis))) = 1
       /\ \A n \in m.appeared : HavingKey(was, m.basis, KeyOf(now.ads[n], m.basis)) = {}
       /\ \A n \in m.disappeared : HavingKey(now, m.basis, KeyOf(was.ads[n], m.basis)) = {}
  BY <1>6, <1>7, <1>8, <1>9
<1> QED
  BY <1>5, <1>10

\* The comparison says of the ads what the matching found.
LEMMA ComparedAsMatched ==
  ASSUME NEW now, NEW was
  PROVE  LET c == BuildComparison(now, was)
             m == Matching(now, was)
         IN  /\ c.basis = m.basis /\ c.matched = m.matched /\ c.appeared = m.appeared
             /\ c.disappeared = m.disappeared /\ c.ambiguous = m.ambiguous
  BY DEF BuildComparison, WhatMoved

----------------------------------------------------------------------------
(* The report is what was composed on what was read *)

Early == {"received", "read", "checked", "extracted", "analyzed"}

Sent == /\ phase \in Early \cup {"composed", "grouped", "attached", "sent"}
        /\ \E x \in Cases : request = RequestOf(x)

ReadSound ==
    /\ Ads(ads)
    /\ prevAds # Null => Ads(prevAds)
    /\ phase \notin {"received", "read", "sent"} =>
           "minOutcome" \in DOMAIN context /\ context.minOutcome \in IntOrNull
    /\ phase \in {"received", "read"} => prevAds = Null

Made == phase \in {"composed", "grouped", "attached"} \/ (phase = "sent" /\ Composed)

Written ==
    /\ phase \in Early => memo = Null
    /\ phase = "analyzed" \/ Made => analysis = Analyze(ads, context)
    /\ Made =>
           /\ context.minOutcome \in IntOrNull
           /\ LET composed == GenerateMemo(analysis, context)
              IN  \A f \in DOMAIN composed : f \in DOMAIN memo /\ memo[f] = composed[f]
    /\ phase \in {"composed", "grouped"} => "comparison" \notin DOMAIN memo
    /\ phase \in {"attached", "sent"} /\ Made =>
           memo.comparison = IF prevAds = Null THEN Null ELSE BuildComparison(Current, Previous)

RunInv == Sent /\ ReadSound /\ Written

LEMMA InitSound == Init => RunInv
<1> SUFFICES ASSUME Init PROVE RunInv
  OBVIOUS
<1>1. Sent
  BY DEF Init, Sent, Early
<1>2. Ads(<<>>)
  BY DEF Ads, IsList
<1>3. ReadSound
  BY <1>2 DEF Init, ReadSound
<1>4. Written
  BY DEF Init, Written, Early, Made, Composed
<1> QED
  BY <1>1, <1>3, <1>4 DEF RunInv

LEMMA RefuseSound ==
  ASSUME RunInv, phase \in Early, NEW code, NEW why, Refuse(code, why)
  PROVE  RunInv'
<1>1. memo = Null
  BY DEF RunInv, Written
<1>2. Sent'
  BY DEF RunInv, Sent, Refuse
<1>3. ReadSound'
  BY DEF RunInv, ReadSound, Refuse, Early
<1>4. Written'
  BY <1>1 DEF RunInv, Written, Refuse, Early, Made, Composed
<1> QED
  BY <1>2, <1>3, <1>4 DEF RunInv

\* What a request asks is not overwritten by what its file says.
LEMMA ContextKept ==
  ASSUME NEW asked, NEW exp, "minOutcome" \in DOMAIN asked
  PROVE  /\ "minOutcome" \in DOMAIN InContext(asked, exp)
         /\ InContext(asked, exp).minOutcome = asked.minOutcome
  BY DEF InContext, ReadWith, With

LEMMA FieldsKept ==
  ASSUME NEW r, NEW s
  PROVE  /\ DOMAIN With(r, s) = DOMAIN r \cup DOMAIN s
         /\ \A f \in DOMAIN r : With(r, s)[f] = r[f]
         /\ \A f \in DOMAIN s : f \notin DOMAIN r => With(r, s)[f] = s[f]
  BY DEF With

LEMMA ComposedUncompared ==
  ASSUME NEW a, NEW c
  PROVE  "comparison" \notin DOMAIN GenerateMemo(a, c)
  BY DEF GenerateMemo, MemoAround, Memo

LEMMA StepSound == RunInv /\ [Next]_vars => RunInv'
<1> SUFFICES ASSUME RunInv, [Next]_vars PROVE RunInv'
  OBVIOUS
<1> USE DEF Early, Made
<1>1. CASE ReadForm
  <2> DEFINE problem == First(SelectSeq(FormOrder, LAMBDA p : p \in request.problems))
  <2>1. CASE problem # Null
    <3>1. Refuse(400, problem)
      BY <1>1, <2>1 DEF ReadForm
    <3> QED
      BY <1>1, <3>1, RefuseSound DEF ReadForm
  <2>2. CASE problem = Null
    <3>1. phase = "received" /\ phase' = "read" /\ UNCHANGED <<request, context, ads, prevAds, analysis, memo, reply>>
      BY <1>1, <2>2 DEF ReadForm
    <3>2. Sent'
      BY <3>1 DEF RunInv, Sent
    <3>3. ReadSound'
      BY <3>1 DEF RunInv, ReadSound
    <3>4. Written'
      BY <3>1 DEF RunInv, Written, Composed
    <3> QED
      BY <3>2, <3>3, <3>4 DEF RunInv
  <2> QED
    BY <2>1, <2>2
<1>2. CASE ReadExport
  <2> DEFINE refused == RequestCheck(request.file, request.context.kpi)
  <2>1. CASE refused # Null
    <3>1. Refuse(400, refused)
      BY <1>2, <2>1 DEF ReadExport
    <3> QED
      BY <1>2, <3>1, RefuseSound DEF ReadExport
  <2>2. CASE refused = Null
    <3>1. /\ phase = "read" /\ phase' = "checked"
          /\ ads' = ApplyFormatOverrides(AdsOf(request.file, request.context.kpi), request.overrides)
          /\ context' = InContext(request.context, request.file)
          /\ UNCHANGED <<request, prevAds, analysis, memo, reply>>
      BY <1>2, <2>2 DEF ReadExport
    <3>2. PICK x \in Cases : request = RequestOf(x)
      BY DEF RunInv, Sent
    <3>3. /\ IsExport(request.file)
          /\ "minOutcome" \in DOMAIN request.context
          /\ request.context.minOutcome \in IntOrNull
      BY <3>2, RequestsAssumption DEF IntOrNull
    <3>4. Ads(ads')
      BY <3>1, <3>3, AdsOfAreAds, OverriddenAreAds
    <3>5. "minOutcome" \in DOMAIN context' /\ context'.minOutcome \in IntOrNull
      BY <3>1, <3>3, ContextKept
    <3>6. Sent'
      BY <3>1 DEF RunInv, Sent
    <3>7. ReadSound'
      BY <3>1, <3>4, <3>5 DEF RunInv, ReadSound
    <3>8. Written'
      BY <3>1 DEF RunInv, Written, Composed
    <3> QED
      BY <3>6, <3>7, <3>8 DEF RunInv
  <2> QED
    BY <2>1, <2>2
<1>3. CASE ReadPrevious
  <2> DEFINE refused == IF request.prev = Null THEN Null
                        ELSE PreviousCheck(request.prev, request.file, request.context.kpi)
  <2>1. CASE refused # Null
    <3>1. Refuse(400, <<"previous", refused>>)
      BY <1>3, <2>1 DEF ReadPrevious
    <3> QED
      BY <1>3, <3>1, RefuseSound DEF ReadPrevious
  <2>2. CASE refused = Null
    <3>1. /\ phase = "checked" /\ phase' = "extracted"
          /\ prevAds' = IF request.prev = Null THEN Null ELSE AdsOf(request.prev, request.context.kpi)
          /\ UNCHANGED <<request, context, ads, analysis, memo, reply>>
      BY <1>3, <2>2 DEF ReadPrevious
    <3>2. PICK x \in Cases : request = RequestOf(x)
      BY DEF RunInv, Sent
    <3>3. request.prev # Null => IsExport(request.prev)
      BY <3>2, RequestsAssumption
    <3>4. prevAds' # Null => Ads(prevAds')
      BY <3>1, <3>3, AdsOfAreAds
    <3>5. Sent'
      BY <3>1 DEF RunInv, Sent
    <3>6. ReadSound'
      BY <3>1, <3>4 DEF RunInv, ReadSound
    <3>7. Written'
      BY <3>1 DEF RunInv, Written, Composed
    <3> QED
      BY <3>5, <3>6, <3>7 DEF RunInv
  <2> QED
    BY <2>1, <2>2
<1>4. CASE AnalyzeAds
  <2>1. Sent'
    BY <1>4 DEF RunInv, Sent, AnalyzeAds
  <2>2. ReadSound'
    BY <1>4 DEF RunInv, ReadSound, AnalyzeAds
  <2>3. Written'
    BY <1>4 DEF RunInv, Written, AnalyzeAds, Composed
  <2> QED
    BY <2>1, <2>2, <2>3 DEF RunInv
<1>5. CASE ComposeMemo
  <2>1. /\ phase = "analyzed" /\ phase' = "composed"
        /\ memo' = GenerateMemo(analysis, context)
        /\ UNCHANGED <<request, context, ads, prevAds, analysis, reply>>
    BY <1>5 DEF ComposeMemo
  <2>2. Sent'
    BY <2>1 DEF RunInv, Sent
  <2>3. ReadSound'
    BY <2>1 DEF RunInv, ReadSound
  <2>4. "comparison" \notin DOMAIN memo'
    BY <2>1, ComposedUncompared
  <2>5. Written'
    BY <2>1, <2>4 DEF RunInv, Written, ReadSound, Composed
  <2> QED
    BY <2>2, <2>3, <2>5 DEF RunInv
<1>6. CASE AttachGroups
  <2> DEFINE groups == [groups |-> SummarizeCreativeGroups(analysis, request.declared)]
  <2>1. /\ phase = "composed" /\ phase' = "grouped"
        /\ memo' = With(memo, groups)
        /\ UNCHANGED <<request, context, ads, prevAds, analysis, reply>>
    BY <1>6 DEF AttachGroups
  <2>2. Sent'
    BY <2>1 DEF RunInv, Sent
  <2>3. ReadSound'
    BY <2>1 DEF RunInv, ReadSound
  <2>4. DOMAIN groups = {"groups"}
    OBVIOUS
  <2>5. /\ \A f \in DOMAIN memo : f \in DOMAIN memo' /\ memo'[f] = memo[f]
        /\ "comparison" \notin DOMAIN memo'
    <3> HIDE DEF groups
    <3>1. "comparison" \notin DOMAIN memo
      BY <2>1 DEF RunInv, Written
    <3> DEFINE joined == With(memo, groups)
    <3>2. DOMAIN joined = DOMAIN memo \cup DOMAIN groups /\ \A f \in DOMAIN memo : joined[f] = memo[f]
      BY FieldsKept
    <3>3. memo' = joined
      BY <2>1
    <3> HIDE DEF joined
    <3> QED
      BY <3>1, <3>2, <3>3, <2>4
  <2>6. Written'
    BY <2>1, <2>5 DEF RunInv, Written, ReadSound, Composed
  <2> QED
    BY <2>2, <2>3, <2>6 DEF RunInv
<1>7. CASE AttachComparison
  <2> DEFINE found == IF prevAds = Null THEN Null ELSE BuildComparison(Current, Previous)
             comparison == [comparison |-> found]
  <2>1. /\ phase = "grouped" /\ phase' = "attached"
        /\ memo' = With(memo, comparison)
        /\ UNCHANGED <<request, context, ads, prevAds, analysis, reply>>
    BY <1>7 DEF AttachComparison
  <2>2. Sent'
    BY <2>1 DEF RunInv, Sent
  <2>3. ReadSound'
    BY <2>1 DEF RunInv, ReadSound
  <2>4. DOMAIN comparison = {"comparison"} /\ comparison.comparison = found
    OBVIOUS
  <2>5. found' = found
    BY <2>1 DEF Current, Previous, PrevContext
  <2> HIDE DEF found, comparison
  <2>6. /\ \A f \in DOMAIN memo : f \in DOMAIN memo' /\ memo'[f] = memo[f]
        /\ memo'.comparison = found
    <3>1. "comparison" \notin DOMAIN memo
      BY <2>1 DEF RunInv, Written
    <3> DEFINE joined == With(memo, comparison)
    <3>2. /\ DOMAIN joined = DOMAIN memo \cup DOMAIN comparison
          /\ \A f \in DOMAIN memo : joined[f] = memo[f]
          /\ \A f \in DOMAIN comparison : f \notin DOMAIN memo => joined[f] = comparison[f]
      BY FieldsKept
    <3>3. memo' = joined
      BY <2>1
    <3> HIDE DEF joined
    <3>4. joined.comparison = found
      BY <3>1, <3>2, <2>4
    <3> QED
      BY <3>2, <3>3, <3>4
  <2>7. Written'
    <3> DEFINE composed == GenerateMemo(analysis, context)
    <3>1. composed' = composed
      BY <2>1
    <3>2. /\ analysis = Analyze(ads, context) /\ context.minOutcome \in IntOrNull
          /\ \A f \in DOMAIN composed : f \in DOMAIN memo /\ memo[f] = composed[f]
      BY <2>1 DEF RunInv, Written
    <3> HIDE DEF composed
    <3>3. \A f \in DOMAIN composed : f \in DOMAIN memo' /\ memo'[f] = composed[f]
      BY <2>6, <3>2
    <3> QED
      BY <2>1, <2>5, <2>6, <3>1, <3>2, <3>3 DEF Written, found, composed
  <2> QED
    BY <2>2, <2>3, <2>7 DEF RunInv
<1>8. CASE Send
  <2>1. Sent'
    BY <1>8 DEF RunInv, Sent, Send
  <2>2. ReadSound'
    BY <1>8 DEF RunInv, ReadSound, Send
  <2>3. Written'
    BY <1>8 DEF RunInv, Written, Send, Composed, Current, Previous, PrevContext
  <2> QED
    BY <2>1, <2>2, <2>3 DEF RunInv
<1>9. CASE UNCHANGED vars
  BY <1>9 DEF RunInv, vars, Sent, ReadSound, Written, Composed, Current, Previous, PrevContext
<1> QED
  BY <1>1, <1>2, <1>3, <1>4, <1>5, <1>6, <1>7, <1>8, <1>9 DEF Next

LEMMA Soundness == Spec => []RunInv
  BY InitSound, StepSound, PTL DEF Spec

LEMMA AdsAreFinite ==
  ASSUME NEW list, Ads(list)
  PROVE  DOMAIN list = 1..Len(list) /\ Len(list) \in Nat /\ IsFiniteSet(DOMAIN list)
<1>1. DOMAIN list = 1..Len(list) /\ Len(list) \in Nat
  BY ListIsSeq DEF Ads
<1> QED
  BY <1>1, FS_Interval

----------------------------------------------------------------------------
(* Matching never guesses *)

\* An ad said to have come or gone has a key the other export has nowhere, and
\* one matched has a key that names a single ad of each: no reading of two
\* exports pairs ads by a key that repeats (compare.ts, the contract at its
\* head).
LEMMA SoundNeverGuesses == RunInv => MatchingNeverGuesses
<1> SUFFICES ASSUME RunInv, Comparison # Null PROVE MatchingNeverGuesses
  BY DEF MatchingNeverGuesses
<1> DEFINE now == Current
           was == Previous
           m == Matching(now, was)
           c == Comparison
<1>1. /\ phase \in {"attached", "sent"} /\ Composed
      /\ c = memo.comparison
  BY DEF Comparison
<1>2. memo.comparison = IF prevAds = Null THEN Null ELSE BuildComparison(now, was)
  BY <1>1 DEF RunInv, Sent, Written, Made, Early
<1>3. prevAds # Null /\ c = BuildComparison(now, was)
  BY <1>1, <1>2
<1>4. Ads(ads) /\ Ads(prevAds)
  BY <1>3 DEF RunInv, ReadSound
<1>5. now.ads = ads /\ was.ads = prevAds
  BY DEF Current, Previous
<1>6. IsFiniteSet(DOMAIN now.ads) /\ IsFiniteSet(DOMAIN was.ads)
  BY <1>4, <1>5, AdsAreFinite
<1> HIDE DEF now, was
<1>7. /\ c.basis = m.basis /\ c.matched = m.matched /\ c.appeared = m.appeared
      /\ c.disappeared = m.disappeared /\ c.ambiguous = m.ambiguous
  BY <1>3, ComparedAsMatched
<1> DEFINE Of(p, k) == HavingKey(p, m.basis, k)
           NowKey(n) == KeyOf(now.ads[n], m.basis)
           WasKey(n) == KeyOf(was.ads[n], m.basis)
<1>8. /\ m.matched \cup m.appeared \cup m.ambiguous = DOMAIN now.ads
      /\ \A n \in m.matched : \A p \in {now, was} : Cardinality(Of(p, NowKey(n))) = 1
      /\ \A n \in m.appeared : Of(was, NowKey(n)) = {}
      /\ \A n \in m.disappeared : Of(now, WasKey(n)) = {}
  <2>1. m = Matching(now, was)
    OBVIOUS
  <2> HIDE DEF m
  <2> QED
    BY <1>6, <2>1, MatchingSure
<1> DEFINE Named(period, k) == {n \in DOMAIN period : Keys(period)[n] = k}
<1>9. /\ \A n \in DOMAIN ads : Keys(ads)[n] = NowKey(n)
      /\ \A n \in DOMAIN prevAds : Keys(prevAds)[n] = WasKey(n)
  BY <1>5, <1>7 DEF Keys
<1>10. \A k : Named(ads, k) = Of(now, k) /\ Named(prevAds, k) = Of(was, k)
  BY <1>5, <1>9 DEF HavingKey
<1>11. m.matched \subseteq DOMAIN ads /\ m.appeared \subseteq DOMAIN ads
  BY <1>5, <1>8
<1>12. m.disappeared \subseteq DOMAIN prevAds
  BY <1>5 DEF Matching, Keyed
<1> HIDE DEF m, c, Of, Named, NowKey, WasKey
<1>13. \A n \in m.matched : \A p \in {ads, prevAds} : Cardinality(Named(p, Keys(ads)[n])) = 1
  <2>1. TAKE n \in m.matched
  <2>2. Cardinality(Of(now, NowKey(n))) = 1 /\ Cardinality(Of(was, NowKey(n))) = 1
    BY <1>8
  <2>3. Keys(ads)[n] = NowKey(n)
    BY <1>9, <1>11
  <2> QED
    BY <1>10, <2>2, <2>3
<1>14. \A n \in m.appeared : Named(prevAds, Keys(ads)[n]) = {}
  BY <1>8, <1>9, <1>10, <1>11
<1>15. \A n \in m.disappeared : Named(ads, Keys(prevAds)[n]) = {}
  BY <1>8, <1>9, <1>10, <1>12
<1>16. m.matched \cup m.appeared \cup m.ambiguous = DOMAIN ads
  BY <1>5, <1>8
<1> QED
  BY <1>7, <1>13, <1>14, <1>15, <1>16 DEF MatchingNeverGuesses, c, Named

THEOREM MatchingAlwaysSure == Spec => []MatchingNeverGuesses
  BY Soundness, SoundNeverGuesses, PTL

----------------------------------------------------------------------------
(* Medians *)

\* The places of the k-th smallest number.
IsKth(v, S, k, i) == /\ Cardinality({j \in S : v[j] < v[i]}) < k
                     /\ Cardinality({j \in S : v[j] <= v[i]}) >= k

LEMMA KthExists ==
  ASSUME NEW S, IsFiniteSet(S), NEW v, \A i \in S : v[i] \in Int,
         NEW k \in 1..Cardinality(S)
  PROVE  \E i \in S : IsKth(v, S, k, i)
<1> DEFINE UpTo(i) == {j \in S : v[j] <= v[i]}
           Under(i) == {j \in S : v[j] < v[i]}
           T == {i \in S : Cardinality(UpTo(i)) >= k}
<1>1. Cardinality(S) \in Nat /\ k \in Nat /\ k >= 1
  BY FS_CardinalityType
<1>2. S # {}
  BY <1>1, FS_EmptySet
<1>3. T # {}
  <2>1. PICK high \in S : \A i \in S : v[i] <= v[high]
    BY <1>2, Extremes
  <2>2. UpTo(high) = S
    BY <2>1
  <2> QED
    BY <1>1, <2>2
<1>4. \A i \in S : IsFiniteSet(UpTo(i)) /\ IsFiniteSet(Under(i)) /\ Cardinality(UpTo(i)) \in Nat
  <2>1. TAKE i \in S
  <2>2. UpTo(i) \subseteq S /\ Under(i) \subseteq S
    OBVIOUS
  <2> HIDE DEF UpTo, Under
  <2> QED
    BY <2>2, FS_Subset, FS_CardinalityType
<1>5. PICK low \in T : \A i \in T : v[low] <= v[i]
  <2>1. T \subseteq S /\ IsFiniteSet(T) /\ \A i \in T : v[i] \in Int
    <3>1. T \subseteq S
      OBVIOUS
    <3> HIDE DEF T
    <3> QED
      BY <3>1, FS_Subset
  <2> HIDE DEF T
  <2> QED
    BY <1>3, <2>1, Extremes
<1>6. CASE Under(low) = {}
  <2>1. Cardinality(Under(low)) = 0
    BY <1>6, FS_EmptySet
  <2>2. Cardinality(Under(low)) < k
    BY <1>1, <2>1
  <2> QED
    BY <1>5, <2>2 DEF IsKth
<1>7. CASE Under(low) # {}
  <2> DEFINE L == Under(low)
  <2>1. low \in S /\ L \subseteq S /\ IsFiniteSet(L)
    BY <1>4
  <2>2. PICK h \in L : \A i \in L : v[i] <= v[h]
    <3> HIDE DEF L
    <3>1. L # {} /\ \A i \in L : v[i] \in Int
      BY <1>7, <2>1 DEF L
    <3> QED
      BY <2>1, <3>1, Extremes
  <2>3. h \in S /\ v[h] < v[low] /\ v[h] \in Int /\ v[low] \in Int
    BY <2>1, <2>2
  <2>4. UpTo(h) = L
    BY <2>2, <2>3
  <2>5. h \notin T
    BY <1>5, <2>3
  <2>6. ~(Cardinality(UpTo(h)) >= k)
    BY <2>3, <2>5
  <2>7. Cardinality(UpTo(h)) < k
    <3> DEFINE size == Cardinality(UpTo(h))
    <3>1. size \in Nat /\ ~(size >= k)
      BY <1>4, <2>3, <2>6
    <3> HIDE DEF size
    <3>2. size < k
      BY <1>1, <3>1
    <3> QED
      BY <3>2 DEF size
  <2>8. Cardinality(Under(low)) < k
    BY <2>4, <2>7
  <2> QED
    BY <1>5, <2>8 DEF IsKth
<1> QED
  BY <1>6, <1>7

\* The middle of a set of numbers is between two of them.
LEMMA MedianBetween ==
  ASSUME NEW S, IsFiniteSet(S), S # {}, NEW v, \A i \in S : v[i] \in Int
  PROVE  \E x, y \in S : Median2(v, S) = v[x] + v[y]
<1> DEFINE n == Cardinality(S)
           low == (n + 1) \div 2
           high == n \div 2 + 1
<1>1. n \in Nat /\ n # 0
  BY FS_CardinalityType, FS_EmptySet
<1>2. Median2(v, S) = KthSmallest(v, S, low) + KthSmallest(v, S, high)
  BY <1>1 DEF Median2
<1>3. low \in 1..n /\ high \in 1..n
  <2> HIDE DEF n
  <2> QED
    BY <1>1
<1>4. ASSUME NEW k \in 1..n PROVE \E i \in S : KthSmallest(v, S, k) = v[i]
  <2>1. \E i \in S : IsKth(v, S, k, i)
    BY KthExists
  <2>2. KthSmallest(v, S, k) = v[CHOOSE i \in S : IsKth(v, S, k, i)]
    BY DEF KthSmallest, IsKth
  <2> QED
    BY <2>1, <2>2
<1> HIDE DEF low, high
<1>5. PICK x \in S : KthSmallest(v, S, low) = v[x]
  BY <1>3, <1>4
<1>6. PICK y \in S : KthSmallest(v, S, high) = v[y]
  BY <1>3, <1>4
<1> QED
  BY <1>2, <1>5, <1>6

\* The middle of the values of the ads of a set is a number, if there is one.
LEMMA MedianNumber ==
  ASSUME NEW list, Ads(list), NEW S, S \subseteq 1..Len(list)
  PROVE  LET V == Valued(list, S)
         IN  /\ Median2(Values(list), V) \in IntOrNull
             /\ V # {} => Median2(Values(list), V) \in Int
<1> DEFINE V == Valued(list, S)
           v == Values(list)
<1>1. DOMAIN list = 1..Len(list) /\ Len(list) \in Nat
  BY AdsAreFinite
<1>2. V \subseteq 1..Len(list) /\ \A i \in V : v[i] \in Int
  BY <1>1 DEF Ads, IsAd, Valued, Values, IntOrNull
<1>3. IsFiniteSet(V)
  <2> HIDE DEF V
  <2> QED
    BY <1>1, <1>2, PlacesFinite
<1>4. CASE V = {}
  <2>1. Median2(v, V) = Null
    BY <1>4, FS_EmptySet DEF Median2
  <2> QED
    BY <1>4, <2>1 DEF IntOrNull
<1>5. CASE V # {}
  <2>1. \E x, y \in V : Median2(v, V) = v[x] + v[y]
    <3> HIDE DEF V, v
    <3> QED
      BY <1>2, <1>3, <1>5, MedianBetween
  <2>2. Median2(v, V) \in Int
    BY <1>2, <2>1
  <2> QED
    BY <2>2 DEF IntOrNull
<1> QED
  BY <1>4, <1>5

----------------------------------------------------------------------------
(* What an analysis makes of the ads it is given *)

OnSide(a, side) == {i \in a.ranked : Side(a, i) = side}

\* The two lists are led by their extremes: no winner is further ahead than
\* the first, and no loser further behind, those without an outcome first.
\* Gaps are a share of the benchmark when the ads have benchmarks of their own.
Gaps(a, split) == [ads |-> a.ads, split |-> split, bench2 |-> a.bench2, delta2 |-> a.delta2]
Led(a, split) ==
    /\ split \/ \A i, j \in a.ranked : a.bench2[i] = a.bench2[j]
    /\ \A i \in Members(a.winners) : ~GapLess(Gaps(a, split), Head(a.winners), i)
    /\ \A i \in Members(a.losers) :
           /\ a.ads[i].zero => a.ads[Head(a.losers)].zero
           /\ a.ads[Head(a.losers)].zero \/ ~GapLess(Gaps(a, split), i, Head(a.losers))

Analyzed(a, list, c) ==
    /\ a.ads = list
    /\ a.kpi = c.kpi
    /\ a.ranked \subseteq 1..Len(list) /\ a.judged \subseteq 1..Len(list)
    /\ IsList(a.winners) /\ NoRepeats(a.winners) /\ Members(a.winners) = OnSide(a, "above")
    /\ IsList(a.losers) /\ NoRepeats(a.losers) /\ Members(a.losers) = OnSide(a, "below")
    /\ a.at = OnSide(a, "at")
    /\ a.belowSpend = Spend(a, a.losers)
    /\ \A i \in a.ranked : a.bench2[i] \in Int /\ a.delta2[i] \in Int
    /\ \E split \in BOOLEAN : Led(a, split)
    /\ a.proxy = BuildProxyKpi(list, a.ranked, c)

\* The ads of a ranking that are on a side of their benchmark.
RankedOn(list, r, side) == {i \in r.ranked : Side([ads |-> list, delta2 |-> r.delta2], i) = side}

\* The two lists hold the judged ads of their side, each once.
Ranks(r, list, judged) ==
    /\ r.ranked \subseteq judged
    /\ IsList(r.winners) /\ NoRepeats(r.winners) /\ Members(r.winners) = RankedOn(list, r, "above")
    /\ IsList(r.losers) /\ NoRepeats(r.losers) /\ Members(r.losers) = RankedOn(list, r, "below")
    /\ r.at = RankedOn(list, r, "at")

LEMMA RankedBySide ==
  ASSUME NEW list, NEW n \in Nat, NEW judged, judged \subseteq 1..n, NEW overall2, NEW c,
         NEW r, r = RankJudged(list, judged, overall2, c)
  PROVE  Ranks(r, list, judged)
<1> DEFINE bench2 == [i \in IF overall2 = Null THEN {} ELSE judged |->
                         AdBenchmark2(list, judged, overall2, i)]
           delta2 == [i \in DOMAIN bench2 |->
                         IF list[i].zero THEN 0
                         ELSE IF HigherIsBetter(c.kpi) THEN 2 * list[i].value - bench2[i]
                         ELSE bench2[i] - 2 * list[i].value]
           all == [ads |-> list, split |-> StageBenchmarks(list, judged) # {},
                   bench2 |-> bench2, delta2 |-> delta2]
           of == [ads |-> list, delta2 |-> r.delta2]
           Of(side) == {i \in DOMAIN bench2 : Side(all, i) = side}
           best == {p \in Of("above") \X Of("above") : BestFirst(all, p[1], p[2])}
           worst == {p \in Of("below") \X Of("below") : WorstFirst(all, p[1], p[2])}
<1>1. /\ r.ranked = DOMAIN bench2
      /\ r.delta2 = delta2
      /\ r.winners = Ordered(Of("above"), LastOf(Of("above")), best)
      /\ r.losers = Ordered(Of("below"), LastOf(Of("below")), worst)
      /\ r.at = Of("at")
  BY DEF RankJudged, Sorted
<1>2. DOMAIN bench2 \subseteq judged
  OBVIOUS
<1>3. \A side : Of(side) \subseteq 1..n
  BY <1>2
<1> HIDE DEF bench2, best, worst
<1>4. \A i \in DOMAIN bench2 : Side(all, i) = Side(of, i)
  BY <1>1 DEF Side
<1>5. \A side : Of(side) = RankedOn(list, r, side)
  BY <1>1, <1>4 DEF RankedOn
<1> HIDE DEF Of, all
<1>6. IsList(r.winners) /\ NoRepeats(r.winners) /\ Members(r.winners) = Of("above")
  BY <1>1, <1>3, SortedPlaces
<1>7. IsList(r.losers) /\ NoRepeats(r.losers) /\ Members(r.losers) = Of("below")
  BY <1>1, <1>3, SortedPlaces
<1> QED
  BY <1>1, <1>2, <1>5, <1>6, <1>7 DEF Ranks

\* Their benchmarks and their distances are numbers.
LEMMA RankedNumbers ==
  ASSUME NEW list, Ads(list), NEW judged, judged \subseteq 1..Len(list), NEW c,
         \A i \in judged : list[i].zero \/ list[i].value # Null,
         NEW r, r = RankJudged(list, judged, Median2(Values(list), Valued(list, judged)), c)
  PROVE  \A i \in r.ranked : r.bench2[i] \in Int /\ r.delta2[i] \in Int
<1> DEFINE overall2 == Median2(Values(list), Valued(list, judged))
           bench2 == [i \in IF overall2 = Null THEN {} ELSE judged |->
                         AdBenchmark2(list, judged, overall2, i)]
           delta2 == [i \in DOMAIN bench2 |->
                         IF list[i].zero THEN 0
                         ELSE IF HigherIsBetter(c.kpi) THEN 2 * list[i].value - bench2[i]
                         ELSE bench2[i] - 2 * list[i].value]
<1>1. r.ranked = DOMAIN bench2 /\ r.bench2 = bench2 /\ r.delta2 = delta2
  BY DEF RankJudged
<1>2. overall2 \in IntOrNull
  BY MedianNumber
<1>3. ASSUME NEW i \in DOMAIN bench2 PROVE bench2[i] \in Int
  <2>1. overall2 \in Int /\ i \in judged
    BY <1>2, <1>3 DEF IntOrNull
  <2> DEFINE mine == InStage(list, judged, list[i].stage)
  <2>2. CASE list[i].stage \in StageBenchmarks(list, judged)
    <3>1. mine \subseteq 1..Len(list) /\ Valued(list, mine) # {}
      BY <2>2 DEF StageBenchmarks, InStage
    <3>2. Median2(Values(list), Valued(list, mine)) \in Int
      <4> HIDE DEF mine
      <4> QED
        BY <3>1, MedianNumber
    <3> QED
      BY <1>3, <2>2, <3>2 DEF AdBenchmark2
  <2>3. CASE list[i].stage \notin StageBenchmarks(list, judged)
    BY <1>3, <2>1, <2>3 DEF AdBenchmark2
  <2> QED
    BY <2>2, <2>3
<1>4. ASSUME NEW i \in DOMAIN bench2 PROVE delta2[i] \in Int
  <2>1. i \in judged /\ i \in 1..Len(list)
    BY <1>4
  <2>2. list[i].zero \/ list[i].value \in Int
    BY <2>1 DEF Ads, IsAd, IntOrNull
  <2>3. bench2[i] \in Int
    BY <1>3, <1>4
  <2> HIDE DEF bench2
  <2> QED
    BY <1>4, <2>2, <2>3
<1> HIDE DEF bench2, delta2
<1> QED
  BY <1>1, <1>3, <1>4

----------------------------------------------------------------------------
(* The order of the two lists *)

\* Quotients that are compared by their cross products are in an order.
LEMMA QuotientsCompare ==
  ASSUME NEW x \in Int, NEW y \in Int, NEW z \in Int,
         NEW p \in Nat \ {0}, NEW q \in Nat \ {0}, NEW r \in Nat \ {0},
         x * q <= y * p, y * r <= z * q
  PROVE  x * r <= z * p
<1> DEFINE u == x * r
           v == z * p
<1>1. u \in Int /\ v \in Int
  OBVIOUS
<1>2. (x * q) * r <= (y * p) * r
  <2> DEFINE b == x * q
             d == y * p
  <2>1. b \in Int /\ d \in Int /\ b <= d
    OBVIOUS
  <2> HIDE DEF b, d
  <2>2. b * r <= d * r
    BY <2>1
  <2> QED
    BY <2>2 DEF b, d
<1>3. (y * r) * p <= (z * q) * p
  <2> DEFINE b == y * r
             d == z * q
  <2>1. b \in Int /\ d \in Int /\ b <= d
    OBVIOUS
  <2> HIDE DEF b, d
  <2>2. b * p <= d * p
    BY <2>1
  <2> QED
    BY <2>2 DEF b, d
<1>4. (x * q) * r = q * u /\ (z * q) * p = q * v /\ (y * p) * r = (y * r) * p
  OBVIOUS
<1>5. q * u <= q * v
  <2>1. q * u \in Int /\ q * v \in Int /\ (y * p) * r \in Int
    BY <1>1
  <2> QED
    BY <1>2, <1>3, <1>4, <2>1
<1> HIDE DEF u, v
<1>6. u <= v
  BY <1>1, <1>5
<1> QED
  BY <1>6 DEF u, v

\* What is a share ahead is so with whatever is further ahead.
LEMMA FurtherAhead ==
  ASSUME NEW x \in Int, NEW y \in Int, NEW b \in Nat \ {0}, NEW d \in Nat \ {0}, NEW p \in Int,
         x * b <= y * d
  PROVE  /\ 100 * x >= p * d => 100 * y >= p * b
         /\ 100 * y <= p * b => 100 * x <= p * d
<1>1. 100 * x * b <= 100 * y * d
  OBVIOUS
<1>2. ASSUME 100 * x >= p * d PROVE 100 * y >= p * b
  <2>1. p * b <= 100 * y
    <3>1. p * b \in Int /\ p * d \in Int /\ 100 * x \in Int /\ 100 * y \in Int
      OBVIOUS
    <3>2. p * d <= (100 * x) * 1 /\ (100 * x) * b <= (100 * y) * d
      BY <1>1, <1>2
    <3>3. p * b <= (100 * y) * 1
      <4> DEFINE m == 100 * x
                 n == 100 * y
      <4>1. m \in Int /\ n \in Int /\ p * d <= m * 1 /\ m * b <= n * d
        BY <3>2
      <4> HIDE DEF m, n
      <4>2. p * b <= n * 1
        BY <4>1, QuotientsCompare
      <4> QED
        BY <4>2 DEF n
    <3> QED
      BY <3>1, <3>3
  <2> QED
    BY <2>1
<1>3. ASSUME 100 * y <= p * b PROVE 100 * x <= p * d
  <2> DEFINE m == 100 * x
             n == 100 * y
  <2>1. m \in Int /\ n \in Int /\ m * b <= n * d /\ n * 1 <= p * b
    BY <1>1, <1>3
  <2> HIDE DEF m, n
  <2>2. m * 1 <= p * d
    BY <2>1, QuotientsCompare
  <2> QED
    BY <2>2 DEF m
<1> QED
  BY <1>2, <1>3

\* A ranking of which the numbers are known.
Ranking(r, S) ==
    \A i \in S : /\ r.bench2[i] \in Int /\ r.delta2[i] \in Int
                 /\ r.ads[i].zero \in BOOLEAN /\ r.ads[i].spend \in Int

LEMMA GapsAreQuotients ==
  ASSUME NEW r, NEW S, Ranking(r, S), NEW i \in S
  PROVE  GapNum(r, i) \in Int /\ GapDen(r, i) \in Nat \ {0}
<1>1. r.bench2[i] \in Int /\ r.delta2[i] \in Int
  BY DEF Ranking
<1>2. GapNum(r, i) \in Int
  BY <1>1 DEF GapNum
<1>3. CASE r.bench2[i] = 0
  BY <1>2, <1>3 DEF GapDen
<1>4. CASE r.bench2[i] # 0
  <2>1. Magnitude(r.bench2[i]) \in Nat \ {0}
    BY <1>1, <1>4 DEF Magnitude
  <2> QED
    BY <1>2, <2>1 DEF GapDen
<1> QED
  BY <1>3, <1>4

\* Of gaps that are no less than one another.
LEMMA GapsCompare ==
  ASSUME NEW r, NEW S, Ranking(r, S), NEW i \in S, NEW j \in S, NEW k \in S
  PROVE  /\ ~GapLess(r, j, i) /\ ~GapLess(r, k, j) => ~GapLess(r, k, i)
         /\ GapLess(r, i, j) => ~GapLess(r, j, i)
<1> DEFINE x == GapNum(r, i)
           y == GapNum(r, j)
           z == GapNum(r, k)
           p == GapDen(r, i)
           q == GapDen(r, j)
           t == GapDen(r, k)
<1>1. /\ x \in Int /\ y \in Int /\ z \in Int
      /\ p \in Nat \ {0} /\ q \in Nat \ {0} /\ t \in Nat \ {0}
  BY GapsAreQuotients
<1>2. /\ GapLess(r, j, i) <=> y * p < x * q
      /\ GapLess(r, i, j) <=> x * q < y * p
      /\ GapLess(r, k, j) <=> z * q < y * t
      /\ GapLess(r, k, i) <=> z * p < x * t
  BY DEF GapLess
<1> HIDE DEF x, y, z, p, q, t
<1>3. /\ x * q \in Int /\ y * p \in Int /\ y * t \in Int
      /\ z * q \in Int /\ z * p \in Int /\ x * t \in Int
  BY <1>1
<1>4. x * q <= y * p /\ y * t <= z * q => x * t <= z * p
  BY <1>1, QuotientsCompare
<1> QED
  BY <1>2, <1>3, <1>4

\* The orders of the two lists are orders.
LEMMA BestIsOrder ==
  ASSUME NEW r, NEW S, S \subseteq Nat, Ranking(r, S)
  PROVE  IsOrder(S, {p \in S \X S : BestFirst(r, p[1], p[2])})
<1> DEFINE GapUnder(i, j) == GapLess(r, i, j)
           Before(i, j) == BestFirst(r, i, j)
<1>1. \A i, j \in S : Before(i, j) <=> GapUnder(j, i) \/ (~GapUnder(i, j) /\ i < j)
  BY DEF BestFirst
<1>2. \A i, j, k \in S : ~GapUnder(j, i) /\ ~GapUnder(k, j) => ~GapUnder(k, i)
  BY GapsCompare
<1>3. \A i, j \in S : GapUnder(i, j) => ~GapUnder(j, i)
  BY GapsCompare
<1> HIDE DEF GapUnder
<1>4. ASSUME NEW i \in S, NEW j \in S, i # j PROVE Before(i, j) \/ Before(j, i)
  <2>1. i < j \/ j < i
    BY <1>4
  <2> QED
    BY <1>1, <2>1
<1>5. ASSUME NEW i \in S, NEW j \in S, NEW k \in S, Before(i, j), Before(j, k) PROVE Before(i, k)
  <2>1. ~GapUnder(i, j) /\ ~GapUnder(j, k)
    BY <1>1, <1>3, <1>5
  <2>2. ~GapUnder(i, k)
    BY <1>2, <2>1
  <2>3. CASE GapUnder(j, i) \/ GapUnder(k, j)
    <3>1. GapUnder(k, i)
      BY <1>2, <2>1, <2>3
    <3> QED
      BY <1>1, <3>1
  <2>4. CASE ~GapUnder(j, i) /\ ~GapUnder(k, j)
    <3>1. i < j /\ j < k
      BY <1>1, <1>5, <2>4
    <3>2. i < k
      BY <3>1
    <3> QED
      BY <1>1, <2>2, <3>2
  <2> QED
    BY <2>3, <2>4
<1> HIDE DEF Before
<1>6. \A i, j \in S : <<i, j>> \in {p \in S \X S : Before(p[1], p[2])} <=> Before(i, j)
  OBVIOUS
<1>7. IsOrder(S, {p \in S \X S : Before(p[1], p[2])})
  BY <1>4, <1>5, <1>6 DEF IsOrder
<1> QED
  BY <1>7 DEF Before

LEMMA WorstIsOrder ==
  ASSUME NEW r, NEW S, S \subseteq Nat, Ranking(r, S)
  PROVE  IsOrder(S, {p \in S \X S : WorstFirst(r, p[1], p[2])})
<1> DEFINE GapUnder(i, j) == GapLess(r, i, j)
           Before(i, j) == WorstFirst(r, i, j)
           Zero(i) == r.ads[i].zero
           Spent(i) == r.ads[i].spend
<1>0. \A i \in S : Zero(i) \in BOOLEAN /\ Spent(i) \in Int /\ i \in Nat
  BY DEF Ranking
<1>1. \A i, j \in S :
          /\ Zero(i) /\ Zero(j) =>
                 (Before(i, j) <=> Spent(i) > Spent(j) \/ (Spent(i) = Spent(j) /\ i < j))
          /\ Zero(i) /\ ~Zero(j) => Before(i, j)
          /\ ~Zero(i) /\ Zero(j) => ~Before(i, j)
          /\ ~Zero(i) /\ ~Zero(j) =>
                 (Before(i, j) <=> GapUnder(i, j) \/ (~GapUnder(j, i) /\ i < j))
  BY <1>0 DEF WorstFirst
<1>2. \A i, j, k \in S : ~GapUnder(j, i) /\ ~GapUnder(k, j) => ~GapUnder(k, i)
  BY GapsCompare
<1>3. \A i, j \in S : GapUnder(i, j) => ~GapUnder(j, i)
  BY GapsCompare
<1> HIDE DEF GapUnder, Zero, Spent, Before
<1>4. ASSUME NEW i \in S, NEW j \in S, i # j PROVE Before(i, j) \/ Before(j, i)
  <2>1. i < j \/ j < i
    BY <1>0, <1>4
  <2>2. Spent(i) > Spent(j) \/ Spent(j) > Spent(i) \/ Spent(i) = Spent(j)
    BY <1>0
  <2> QED
    BY <1>1, <2>1, <2>2
<1>5. ASSUME NEW i \in S, NEW j \in S, NEW k \in S, Before(i, j), Before(j, k) PROVE Before(i, k)
  <2>1. CASE Zero(i) /\ ~Zero(k)
    BY <1>1, <2>1
  <2>2. CASE Zero(i) /\ Zero(k)
    <3>1. Zero(j)
      BY <1>1, <1>5, <2>2
    <3>2. /\ Spent(i) > Spent(j) \/ (Spent(i) = Spent(j) /\ i < j)
          /\ Spent(j) > Spent(k) \/ (Spent(j) = Spent(k) /\ j < k)
      BY <1>1, <1>5, <2>2, <3>1
    <3>3. Spent(i) > Spent(k) \/ (Spent(i) = Spent(k) /\ i < k)
      BY <1>0, <3>2
    <3> QED
      BY <1>1, <2>2, <3>3
  <2>3. CASE ~Zero(i)
    <3>1. ~Zero(j) /\ ~Zero(k)
      BY <1>1, <1>5, <2>3
    <3>2. ~GapUnder(j, i) /\ ~GapUnder(k, j)
      BY <1>1, <1>3, <1>5, <2>3, <3>1
    <3>3. ~GapUnder(k, i)
      BY <1>2, <3>2
    <3>4. CASE GapUnder(i, j) \/ GapUnder(j, k)
      <4>1. GapUnder(i, k)
        BY <1>2, <3>2, <3>4
      <4> QED
        BY <1>1, <2>3, <3>1, <4>1
    <3>5. CASE ~GapUnder(i, j) /\ ~GapUnder(j, k)
      <4>1. i < j /\ j < k
        BY <1>1, <1>5, <2>3, <3>1, <3>5
      <4>2. i < k
        BY <1>0, <4>1
      <4> QED
        BY <1>1, <2>3, <3>1, <3>3, <4>2
    <3> QED
      BY <3>4, <3>5
  <2> QED
    BY <2>1, <2>2, <2>3
<1>6. \A i, j \in S : <<i, j>> \in {p \in S \X S : Before(p[1], p[2])} <=> Before(i, j)
  OBVIOUS
<1>7. IsOrder(S, {p \in S \X S : Before(p[1], p[2])})
  BY <1>4, <1>5, <1>6 DEF IsOrder
<1> QED
  BY <1>7 DEF Before

\* What the lists are led by.
LEMMA RankedEnds ==
  ASSUME NEW list, Ads(list), NEW judged, judged \subseteq 1..Len(list), NEW c,
         \A i \in judged : list[i].zero \/ list[i].value # Null,
         NEW r, r = RankJudged(list, judged, Median2(Values(list), Valued(list, judged)), c),
         NEW a, a.ads = list, a.ranked = r.ranked, a.bench2 = r.bench2, a.delta2 = r.delta2,
         a.winners = r.winners, a.losers = r.losers
  PROVE  \E split \in BOOLEAN : Led(a, split)
<1> DEFINE overall2 == Median2(Values(list), Valued(list, judged))
           bench2 == [i \in IF overall2 = Null THEN {} ELSE judged |->
                         AdBenchmark2(list, judged, overall2, i)]
           delta2 == [i \in DOMAIN bench2 |->
                         IF list[i].zero THEN 0
                         ELSE IF HigherIsBetter(c.kpi) THEN 2 * list[i].value - bench2[i]
                         ELSE bench2[i] - 2 * list[i].value]
           split == StageBenchmarks(list, judged) # {}
           all == [ads |-> list, split |-> split, bench2 |-> bench2, delta2 |-> delta2]
           above == {i \in DOMAIN bench2 : Side(all, i) = "above"}
           below == {i \in DOMAIN bench2 : Side(all, i) = "below"}
           best == {p \in above \X above : BestFirst(all, p[1], p[2])}
           worst == {p \in below \X below : WorstFirst(all, p[1], p[2])}
<1>1. /\ r.ranked = DOMAIN bench2 /\ r.bench2 = bench2 /\ r.delta2 = delta2
      /\ r.winners = Ordered(above, LastOf(above), best)
      /\ r.losers = Ordered(below, LastOf(below), worst)
  BY DEF RankJudged, Sorted
<1>2. DOMAIN bench2 \subseteq judged /\ Len(list) \in Nat
  BY AdsAreFinite
<1>3. above \subseteq 1..Len(list) /\ below \subseteq 1..Len(list)
  BY <1>2
<1>4. split \/ \A i, j \in a.ranked : a.bench2[i] = a.bench2[j]
  <2> SUFFICES ASSUME ~split PROVE \A i, j \in a.ranked : a.bench2[i] = a.bench2[j]
    OBVIOUS
  <2>1. \A i : list[i].stage \notin StageBenchmarks(list, judged)
    OBVIOUS
  <2>2. \A i \in DOMAIN bench2 : bench2[i] = overall2
    BY <2>1 DEF AdBenchmark2
  <2> HIDE DEF bench2, overall2
  <2> QED
    BY <1>1, <2>2
<1>5. Gaps(a, split) = all
  BY <1>1 DEF Gaps
<1>6. \A i \in r.ranked : r.bench2[i] \in Int /\ r.delta2[i] \in Int
  <2> HIDE DEF bench2, delta2, all
  <2> QED
    BY RankedNumbers
<1>7. Ranking(all, above) /\ Ranking(all, below)
  <2>1. /\ all.ads = list /\ all.bench2 = r.bench2 /\ all.delta2 = r.delta2
        /\ above \subseteq r.ranked /\ below \subseteq r.ranked
    BY <1>1
  <2> HIDE DEF all, above, below
  <2> QED
    BY <1>3, <1>6, <2>1 DEF Ranking, Ads, IsAd
<1> HIDE DEF all, above, below, split, bench2, delta2
<1>8. IsOrder(above, best) /\ IsOrder(below, worst)
  <2>1. above \subseteq Nat /\ below \subseteq Nat
    BY <1>3
  <2>2. IsOrder(above, best)
    BY <1>7, <2>1, BestIsOrder
  <2>3. IsOrder(below, worst)
    BY <1>7, <2>1, WorstIsOrder
  <2> QED
    BY <2>2, <2>3
<1> HIDE DEF best, worst
<1>9. /\ IsList(r.winners) /\ Members(r.winners) = above /\ InOrder(r.winners, best)
      /\ IsList(r.losers) /\ Members(r.losers) = below /\ InOrder(r.losers, worst)
  <2> DEFINE n == Len(list)
             up == Ordered(above, LastOf(above), best)
             down == Ordered(below, LastOf(below), worst)
  <2>1. n \in Nat /\ above \subseteq 1..n /\ below \subseteq 1..n
    BY <1>2, <1>3
  <2> HIDE DEF n
  <2>2. IsList(up) /\ Members(up) = above
    BY <2>1, SortedPlaces
  <2>3. IsList(down) /\ Members(down) = below
    BY <2>1, SortedPlaces
  <2>4. r.winners = up /\ r.losers = down
    BY <1>1
  <2> HIDE DEF up, down
  <2>5. IsList(r.winners) /\ Members(r.winners) = above
    BY <2>2, <2>4
  <2>6. IsList(r.losers) /\ Members(r.losers) = below
    BY <2>3, <2>4
  <2>7. InOrder(r.winners, best)
    BY <1>1, <1>2, <1>3, <1>8, SortedInOrder
  <2>8. InOrder(r.losers, worst)
    BY <1>1, <1>2, <1>3, <1>8, SortedInOrder
  <2> QED
    BY <2>5, <2>6, <2>7, <2>8
<1>10. ASSUME NEW i \in Members(r.winners) PROVE ~GapLess(all, Head(r.winners), i)
  <2> DEFINE h == Head(r.winners)
  <2>1. h \in above /\ i \in above /\ (i = h \/ <<h, i>> \in best)
    BY <1>9, <1>10, HeadIsFirst
  <2> HIDE DEF h
  <2>2. i = h \/ BestFirst(all, h, i)
    BY <2>1 DEF best
  <2>3. GapLess(all, i, h) => ~GapLess(all, h, i)
    BY <1>7, <2>1, GapsCompare
  <2>4. ~GapLess(all, h, i)
    BY <2>2, <2>3 DEF BestFirst
  <2> QED
    BY <2>4 DEF h
<1>11. ASSUME NEW i \in Members(r.losers)
       PROVE  /\ list[i].zero => list[Head(r.losers)].zero
              /\ list[Head(r.losers)].zero \/ ~GapLess(all, i, Head(r.losers))
  <2> DEFINE h == Head(r.losers)
  <2>1. h \in below /\ i \in below /\ (i = h \/ <<h, i>> \in worst)
    BY <1>9, <1>11, HeadIsFirst
  <2> HIDE DEF h
  <2>2. i = h \/ WorstFirst(all, h, i)
    BY <2>1 DEF worst
  <2>3. GapLess(all, i, h) => ~GapLess(all, h, i)
    BY <1>7, <2>1, GapsCompare
  <2>4. all.ads = list /\ list[h].zero \in BOOLEAN /\ list[i].zero \in BOOLEAN
    BY <1>3, <2>1 DEF all, Ads, IsAd
  <2>5. (list[i].zero => list[h].zero) /\ (list[h].zero \/ ~GapLess(all, i, h))
    BY <2>2, <2>3, <2>4 DEF WorstFirst
  <2> QED
    BY <2>5 DEF h
<1>12. Led(a, split)
  BY <1>4, <1>5, <1>10, <1>11 DEF Led
<1> QED
  BY <1>12 DEF split

\* An ad without a value is judged only when it recorded no outcome.
LEMMA JudgedHasValue ==
  ASSUME NEW list, NEW gate, NEW c, NEW i \in DOMAIN list, Gates(list, gate, c)[i] = "judged"
  PROVE  list[i].zero \/ list[i].value # Null
<1>1. FirstPass(list[i], gate, c) = "judged"
  BY DEF Gates
<1> QED
  BY <1>1 DEF FirstPass

LEMMA AnalysisSound ==
  ASSUME NEW list, Ads(list), NEW c, NEW a, a = Analyze(list, c)
  PROVE  Analyzed(a, list, c)
<1> DEFINE gate == ComputeSpendGate(list, c)
           gates == Gates(list, gate, c)
           g == Gated(list, gate, gates)
           r == RankJudged(list, g.judged, g.median2, c)
<1>1. a = Summed(g, r, c)
  BY DEF Analyze
<1>2. g.ads = list /\ g.judged \subseteq DOMAIN list
  BY DEF Gated
<1>3. DOMAIN list = 1..Len(list) /\ Len(list) \in Nat
  BY AdsAreFinite
<1> HIDE DEF g
<1>4. g.judged \subseteq 1..Len(list)
  BY <1>2, <1>3
<1> DEFINE of == [ads |-> list, delta2 |-> r.delta2]
           On(side) == RankedOn(list, r, side)
<1>5. /\ r.ranked \subseteq g.judged
      /\ IsList(r.winners) /\ NoRepeats(r.winners) /\ Members(r.winners) = On("above")
      /\ IsList(r.losers) /\ NoRepeats(r.losers) /\ Members(r.losers) = On("below")
      /\ r.at = On("at")
  <2> DEFINE judged == g.judged
             overall2 == g.median2
  <2>1. r = RankJudged(list, judged, overall2, c) /\ judged \subseteq 1..Len(list)
    BY <1>4
  <2> HIDE DEF r, judged, overall2
  <2>2. Ranks(r, list, judged)
    BY <1>3, <2>1, RankedBySide
  <2> QED
    BY <2>2 DEF judged, Ranks
<1>6. \A i \in r.ranked : r.bench2[i] \in Int /\ r.delta2[i] \in Int
  <2> DEFINE judged == g.judged
  <2>1. \A i \in judged : list[i].zero \/ list[i].value # Null
    BY <1>3, JudgedHasValue DEF g, Gated
  <2>2. r = RankJudged(list, judged, Median2(Values(list), Valued(list, judged)), c)
    BY DEF g, Gated
  <2> HIDE DEF judged, r
  <2>3. judged \subseteq 1..Len(list)
    BY <1>4 DEF judged
  <2> QED
    BY <2>1, <2>2, <2>3, RankedNumbers
<1>7. ASSUME a.ads = list, a.ranked = r.ranked, a.bench2 = r.bench2, a.delta2 = r.delta2,
              a.winners = r.winners, a.losers = r.losers
       PROVE  \E split \in BOOLEAN : Led(a, split)
  <2> DEFINE judged == g.judged
  <2>1. \A i \in judged : list[i].zero \/ list[i].value # Null
    BY <1>3, JudgedHasValue DEF g, Gated
  <2>2. r = RankJudged(list, judged, Median2(Values(list), Valued(list, judged)), c)
    BY DEF g, Gated
  <2> HIDE DEF judged, r
  <2>3. judged \subseteq 1..Len(list)
    BY <1>4 DEF judged
  <2> QED
    BY <1>7, <2>1, <2>2, <2>3, RankedEnds
<1> HIDE DEF r
<1>8. /\ a.ads = list /\ a.kpi = c.kpi /\ a.ranked = r.ranked /\ a.delta2 = r.delta2
      /\ a.winners = r.winners /\ a.losers = r.losers /\ a.judged = g.judged
      /\ a.proxy = BuildProxyKpi(list, r.ranked, c)
      /\ a.at = r.at /\ a.bench2 = r.bench2 /\ a.belowSpend = TotalSpend(list, ToSet(r.losers))
  BY <1>1, <1>2 DEF Summed
<1>9. \A i \in a.ranked : Side(a, i) = Side(of, i)
  BY <1>8 DEF Side
<1>10. \A side : OnSide(a, side) = On(side)
  BY <1>8, <1>9 DEF OnSide, RankedOn
<1> QED
  BY <1>2, <1>3, <1>4, <1>5, <1>6, <1>8, <1>10, <1>7 DEF Analyzed, Spend

----------------------------------------------------------------------------
(* Who receives budget *)

\* A list whose places are put in another order.
Placed(s, order) == [n \in DOMAIN order |-> s[order[n]]]

LEMMA PlacedProperties ==
  ASSUME NEW s, IsList(s), NEW before
  PROVE  LET placed == Placed(s, Ordered(DOMAIN s, LastOf(DOMAIN s), before))
         IN  /\ IsList(placed) /\ Members(placed) = Members(s)
             /\ NoRepeats(s) => NoRepeats(placed)
<1> DEFINE places == DOMAIN s
           order == Ordered(places, LastOf(places), before)
           placed == Placed(s, order)
<1>1. Len(s) \in Nat /\ places = 1..Len(s)
  BY ListIsSeq
<1> HIDE DEF places
<1>2. IsList(order) /\ NoRepeats(order) /\ Members(order) = places
  BY <1>1, SortedPlaces
<1> HIDE DEF order
<1>3. Len(order) \in Nat /\ DOMAIN order = 1..Len(order)
  BY <1>2, ListIsSeq
<1>4. placed = [i \in 1..Len(order) |-> s[order[i]]]
  BY <1>3 DEF Placed
<1>5. Len(placed) = Len(order) /\ IsList(placed)
  <2>1. placed = [i \in 1..Len(order) |-> placed[i]]
    BY <1>4
  <2> HIDE DEF placed
  <2> QED
    BY <1>3, <2>1, MadeIsList
<1>6. \A n \in 1..Len(order) : order[n] \in 1..Len(s)
  BY <1>1, <1>2 DEF Members
<1>7. Members(placed) = Members(s)
  <2>1. Members(placed) = {s[order[n]] : n \in 1..Len(order)}
    BY <1>4, <1>5 DEF Members
  <2>2. \A i \in 1..Len(s) : \E n \in 1..Len(order) : order[n] = i
    BY <1>1, <1>2 DEF Members
  <2> QED
    BY <1>6, <2>1, <2>2 DEF Members
<1>8. NoRepeats(s) => NoRepeats(placed)
  <2>1. ASSUME NoRepeats(s), NEW i \in 1..Len(order), NEW j \in 1..Len(order), placed[i] = placed[j]
        PROVE  i = j
    <3>1. s[order[i]] = s[order[j]]
      BY <1>4, <2>1
    <3>2. order[i] = order[j]
      BY <1>6, <2>1, <3>1 DEF NoRepeats
    <3> QED
      BY <1>2, <3>2 DEF NoRepeats
  <2> HIDE DEF placed
  <2> QED
    BY <1>5, <2>1 DEF NoRepeats
<1> QED
  BY <1>5, <1>7, <1>8 DEF places, order

\* The order of a list by evidence has the same ads.
LEMMA ByEvidenceWithin ==
  ASSUME NEW s, IsList(s), NEW a, NEW c
  PROVE  IsList(ByEvidence(s, a, c)) /\ Members(ByEvidence(s, a, c)) = Members(s)
<1> DEFINE adjusted == [n \in DOMAIN s |-> EvidenceAdjusted(a, c, s[n])]
           More(x, y) == x.num * y.den > y.num * x.den
           Before(x, y, tie) == More(x, y) \/ (~More(y, x) /\ tie)
           pairs == {p \in (DOMAIN s) \X (DOMAIN s) : Before(adjusted[p[1]], adjusted[p[2]], p[1] < p[2])}
           placed == Placed(s, Ordered(DOMAIN s, LastOf(DOMAIN s), pairs))
<1>1. ByEvidence(s, a, c) = s \/ ByEvidence(s, a, c) = placed
  BY DEF ByEvidence, Sorted, Placed
<1>2. IsList(placed) /\ Members(placed) = Members(s)
  <2> HIDE DEF pairs
  <2> QED
    BY PlacedProperties
<1> QED
  BY <1>1, <1>2

\* An ad that may receive budget.
Qualified(a, c, i) ==
    /\ i \in OnSide(a, "above")
    /\ AheadBy(a, i, ScalePct) /\ PassesReceiverFloor(a, c, i) /\ BeatsBreakeven(a, c, i)

LEMMA ReceiversQualify ==
  ASSUME NEW list, NEW c, NEW a, Analyzed(a, list, c)
  PROVE  /\ IsList(BudgetReceivers(a, c))
         /\ \A i \in Members(BudgetReceivers(a, c)) : Qualified(a, c, i)
<1> DEFINE places == {n \in DOMAIN a.winners : /\ AheadBy(a, a.winners[n], ScalePct)
                                              /\ PassesReceiverFloor(a, c, a.winners[n])
                                              /\ BeatsBreakeven(a, c, a.winners[n])}
           q == QualifyingReceivers(a, c)
           e == ByEvidence(q, a, c)
<1>1. q = Picked(a.winners, places)
  BY DEF QualifyingReceivers
<1>2. IsList(a.winners) /\ Members(a.winners) = OnSide(a, "above")
  BY DEF Analyzed
<1>3. DOMAIN a.winners = 1..Len(a.winners)
  BY <1>2, ListIsSeq
<1>4. \A n \in places \cap 1..Len(a.winners) : Qualified(a, c, a.winners[n])
  BY <1>2 DEF Qualified, Members
<1> HIDE DEF places, q
<1>5. IsList(q) /\ Members(q) = {a.winners[n] : n \in places \cap 1..Len(a.winners)}
  BY <1>1, <1>2, PickedMembers
<1>6. IsList(e) /\ Members(e) = Members(q)
  BY <1>5, ByEvidenceWithin
<1>7. BudgetReceivers(a, c) = Upto(e, MaxReceivers)
  BY DEF BudgetReceivers, q
<1> HIDE DEF e
<1>8. MaxReceivers \in Nat
  BY DecisionConstants
<1>9. IsList(Upto(e, MaxReceivers)) /\ Members(Upto(e, MaxReceivers)) \subseteq Members(e)
  BY <1>6, <1>8, UptoWithin
<1> QED
  BY <1>4, <1>5, <1>6, <1>7, <1>9

LEMMA BarNumbers ==
  ASSUME NEW c, c.minOutcome \in IntOrNull
  PROVE  ReceiverOutcomeMin(c) \in Int /\ HighMultiple * ReceiverOutcomeMin(c) \in Int
<1>1. ReceiverOutcomeMin(c) \in Int
  BY DecisionConstants DEF ReceiverOutcomeMin, IsSet, IntOrNull
<1> QED
  BY <1>1, DecisionConstants

\* No receiver has fewer outcomes than the weakest one.
LEMMA WeakestIsFewest ==
  ASSUME NEW list, Ads(list), NEW c, NEW a, Analyzed(a, list, c), IsScaleActionSupported(a, c),
         NEW i \in Members(BudgetReceivers(a, c)), list[i].conv # Null
  PROVE  /\ WeakestReceiver(a, c) \in Members(BudgetReceivers(a, c))
         /\ list[WeakestReceiver(a, c)].conv \in Int
         /\ list[WeakestReceiver(a, c)].conv <= list[i].conv
<1> DEFINE r == BudgetReceivers(a, c)
           counted == {n \in DOMAIN r : a.ads[r[n]].conv # Null}
           Few(n) == \A m \in counted : \/ a.ads[r[n]].conv < a.ads[r[m]].conv
                                        \/ a.ads[r[n]].conv = a.ads[r[m]].conv /\ n <= m
           v == [n \in counted |-> list[r[n]].conv]
<1>1. IsList(r) /\ \A j \in Members(r) : j \in 1..Len(list)
  BY ReceiversQualify DEF Qualified, OnSide, Analyzed
<1>2. DOMAIN r = 1..Len(r) /\ Len(r) \in Nat
  BY <1>1, ListIsSeq
<1>3. a.ads = list
  BY DEF Analyzed
<1>4. \A n \in 1..Len(r) : r[n] \in Members(r) /\ list[r[n]].conv \in IntOrNull
  BY <1>1 DEF Members, Ads, IsAd
<1>5. \A n \in counted : v[n] \in Int
  BY <1>2, <1>3, <1>4 DEF IntOrNull
<1>6. PICK k \in 1..Len(r) : r[k] = i
  BY DEF Members
<1>7. k \in counted
  BY <1>2, <1>3, <1>6
<1>8. counted \subseteq 1..Len(r)
  BY <1>2
<1>9. \E n \in counted : \A m \in counted : v[n] < v[m] \/ (v[n] = v[m] /\ n <= m)
  <2>1. IsFiniteSet(counted) /\ counted # {} /\ counted \subseteq Nat
    BY <1>2, <1>7, <1>8, PlacesFinite
  <2> HIDE DEF counted, v
  <2> QED
    BY <1>5, <2>1, LeastInOrder
<1>10. \E n \in counted : Few(n)
  BY <1>3, <1>9
<1> DEFINE w == CHOOSE n \in counted : Few(n)
<1>11. WeakestReceiver(a, c) = r[w]
  BY <1>7 DEF WeakestReceiver
<1>12. w \in counted /\ Few(w)
  BY <1>10
<1> HIDE DEF r, w
<1>13. v[w] <= v[k]
  BY <1>3, <1>5, <1>7, <1>12
<1>14. r[w] \in Members(r) /\ list[r[w]].conv \in Int /\ list[r[w]].conv <= list[i].conv
  BY <1>4, <1>5, <1>6, <1>7, <1>8, <1>12, <1>13
<1> QED
  BY <1>11, <1>14 DEF r

----------------------------------------------------------------------------
(* Who loses budget *)

\* The ads near the median are below it.
LEMMA NearIsBelow ==
  ASSUME NEW list, NEW c, NEW a, Analyzed(a, list, c), NEW i \in a.ranked, IsNearMedian(a, i)
  PROVE  Side(a, i) = "below"
  BY DEF Analyzed, IsNearMedian, HasPct, Side

\* The ads below the median that are too near it to lose budget.
NearOnes(a) == {i \in OnSide(a, "below") : IsNearMedian(a, i)}

\* Those trimmed are the others that are below it, each once.
LEMMA TrimsAre ==
  ASSUME NEW list, NEW c, NEW a, Analyzed(a, list, c)
  PROVE  LET trims == TrimCandidates(a)
         IN  /\ IsList(trims) /\ NoRepeats(trims)
             /\ Members(trims) = {i \in OnSide(a, "below") : ~IsNearMedian(a, i)}
<1> DEFINE stake == [n \in DOMAIN a.losers |-> MoneyAtStake(a, a.losers[n])]
           More(x, y) == x.num * y.den > y.num * x.den
           Before(x, y, tie) == More(x, y) \/ (~More(y, x) /\ tie)
           pairs == {p \in (DOMAIN a.losers) \X (DOMAIN a.losers) :
                        Before(stake[p[1]], stake[p[2]], p[1] < p[2])}
           t == TrimOrder(a)
           far == {n \in DOMAIN t : ~IsNearMedian(a, t[n])}
           trims == TrimCandidates(a)
<1>1. t = Placed(a.losers, Ordered(DOMAIN a.losers, LastOf(DOMAIN a.losers), pairs))
  BY DEF TrimOrder, Sorted, Placed
<1>2. IsList(a.losers) /\ NoRepeats(a.losers) /\ Members(a.losers) = OnSide(a, "below")
  BY DEF Analyzed
<1>3. trims = Picked(t, far)
  BY DEF TrimCandidates
<1> HIDE DEF pairs, t
<1>4. IsList(t) /\ NoRepeats(t) /\ Members(t) = OnSide(a, "below")
  BY <1>1, <1>2, PlacedProperties
<1>5. DOMAIN t = 1..Len(t)
  BY <1>4, ListIsSeq
<1>6. far \cap 1..Len(t) = {n \in 1..Len(t) : ~IsNearMedian(a, t[n])}
  BY <1>5
<1> HIDE DEF far
<1>7. IsList(trims) /\ NoRepeats(trims) /\ Members(trims) = {t[n] : n \in far \cap 1..Len(t)}
  BY <1>3, <1>4, PickedMembers, PickedDistinct
<1>8. {t[n] : n \in far \cap 1..Len(t)} = {i \in Members(t) : ~IsNearMedian(a, i)}
  BY <1>6 DEF Members
<1> QED
  BY <1>4, <1>7, <1>8

\* Where a cut is worth its while there is an ad to trim: the worst one.
LEMMA WorstIsTrimmed ==
  ASSUME NEW list, NEW c, NEW a, Analyzed(a, list, c), IsRawCutEligible(a)
  PROVE  a.losers # <<>> /\ TrimCandidates(a) # <<>>
<1> DEFINE worst == Head(a.losers)
           trims == TrimCandidates(a)
<1>1. a.losers # <<>> /\ (a.ads[worst].zero \/ BehindBy(a, worst, ScalePct))
  BY DEF IsRawCutEligible, First
<1>2. IsList(a.losers) /\ Members(a.losers) = OnSide(a, "below")
  BY DEF Analyzed
<1>3. worst \in Members(a.losers)
  <2>1. a.losers \in Seq(Members(a.losers))
    BY <1>2, ListIsSeq
  <2> QED
    BY <1>1, <2>1
<1>4. worst \in a.ranked /\ a.bench2[worst] \in Int /\ a.delta2[worst] \in Int
  BY <1>2, <1>3 DEF OnSide, Analyzed
<1> HIDE DEF worst
<1>5. ASSUME IsNearMedian(a, worst) PROVE FALSE
  <2> DEFINE size == Magnitude(a.bench2[worst])
             delta == a.delta2[worst]
  <2>1. HasPct(a, worst) /\ 100 * delta >= -(FlatPct * size)
    BY <1>5 DEF IsNearMedian, NotBehindBy
  <2>2. 100 * delta <= -(ScalePct * size)
    BY <1>1, <2>1 DEF HasPct, BehindBy
  <2>3. size \in Int /\ size > 0 /\ delta \in Int
    BY <1>4, <2>1 DEF HasPct, Magnitude
  <2>4. FlatPct \in Int /\ ScalePct \in Int /\ FlatPct < ScalePct
    BY DecisionConstants
  <2> HIDE DEF size, delta
  <2>5. FlatPct * size < ScalePct * size
    <3>1. ScalePct - FlatPct \in Nat \ {0} /\ size \in Nat \ {0}
      BY <2>3, <2>4
    <3>2. (ScalePct - FlatPct) * size > 0
      BY <3>1
    <3>3. (ScalePct - FlatPct) * size = ScalePct * size - FlatPct * size
      BY <2>3, <2>4
    <3>4. ScalePct * size \in Int /\ FlatPct * size \in Int
      BY <2>3, <2>4
    <3> QED
      BY <3>2, <3>3, <3>4
  <2>6. FlatPct * size \in Int /\ ScalePct * size \in Int /\ 100 * delta \in Int
    BY <2>3, <2>4
  <2> QED
    BY <2>1, <2>2, <2>5, <2>6
<1>6. worst \in Members(trims)
  BY <1>2, <1>3, <1>5, TrimsAre
<1>7. trims # <<>>
  BY <1>6 DEF Members
<1> QED
  BY <1>1, <1>7

\* Two parts of a set with nothing in common.
LEMMA DisjointSum ==
  ASSUME NEW S, NEW T, NEW U, IsFiniteSet(S), IsFiniteSet(T), S \cap T = {}, U = S \cup T
  PROVE  Cardinality(U) = Cardinality(S) + Cardinality(T)
<1>1. Cardinality(S) \in Nat /\ Cardinality(T) \in Nat /\ Cardinality({}) = 0
  BY FS_CardinalityType, FS_EmptySet
<1>2. Cardinality(S \cup T) = Cardinality(S) + Cardinality(T) - Cardinality(S \cap T)
  BY FS_Union
<1>3. Cardinality(S \cap T) = 0 /\ Cardinality(U) = Cardinality(S \cup T)
  BY <1>1
<1> QED
  BY <1>1, <1>2, <1>3

\* Every judged ad is above its benchmark, at it or below; those below are
\* trimmed or near it.
LEMMA SidesCounted ==
  ASSUME NEW list, Ads(list), NEW c, NEW a, Analyzed(a, list, c)
  PROVE  /\ HoldTotal(a) = Cardinality(a.at \cup NearOnes(a))
         /\ HoldTotal(a) + Len(TrimCandidates(a)) + Len(a.winners) = Cardinality(a.ranked)
         /\ HoldTotal(a) \in Nat
         /\ HoldTotal(a) = 0 => Members(TrimCandidates(a)) = Members(a.losers)
<1> DEFINE n == Len(list)
           above == OnSide(a, "above")
           below == OnSide(a, "below")
           at == OnSide(a, "at")
           near == NearOnes(a)
           trims == TrimCandidates(a)
           far == {i \in below : ~IsNearMedian(a, i)}
<1>1. a.ranked \subseteq 1..n /\ n \in Nat
  BY AdsAreFinite DEF Analyzed
<1>2. /\ above \subseteq a.ranked /\ below \subseteq a.ranked /\ at \subseteq a.ranked
      /\ near \subseteq below /\ far \subseteq below
  BY DEF OnSide, NearOnes
<1>3. /\ a.ranked = (above \cup below) \cup at /\ above \cap below = {}
      /\ (above \cup below) \cap at = {}
  BY DEF OnSide, Side
<1>4. below = far \cup near /\ far \cap near = {} /\ at \cap near = {}
  BY <1>3 DEF NearOnes
<1>5. IsList(trims) /\ NoRepeats(trims) /\ Members(trims) = far
  BY TrimsAre
<1>6. /\ IsList(a.winners) /\ NoRepeats(a.winners) /\ Members(a.winners) = above
      /\ IsList(a.losers) /\ NoRepeats(a.losers) /\ Members(a.losers) = below
      /\ a.at = at
  BY DEF Analyzed
<1> HIDE DEF above, below, at, near, far, trims, n
<1>7. Len(trims) = Cardinality(far) /\ Len(a.winners) = Cardinality(above) /\ Len(a.losers) = Cardinality(below)
  BY <1>5, <1>6, DistinctLength
<1>8. \A S \in {a.ranked, above, below, at, near, far, above \cup below} : IsFiniteSet(S) /\ Cardinality(S) \in Nat
  <2>1. \A S \in {a.ranked, above, below, at, near, far, above \cup below} : S \subseteq 1..n
    BY <1>1, <1>2
  <2> QED
    BY <1>1, <2>1, PlacesFinite
<1>9. /\ IsFiniteSet(above) /\ IsFiniteSet(below) /\ IsFiniteSet(at) /\ IsFiniteSet(near) /\ IsFiniteSet(far)
      /\ IsFiniteSet(above \cup below)
      /\ Cardinality(above) \in Nat /\ Cardinality(below) \in Nat /\ Cardinality(at) \in Nat
      /\ Cardinality(near) \in Nat /\ Cardinality(far) \in Nat
  BY <1>8
<1>10. Cardinality(below) = Cardinality(far) + Cardinality(near)
  BY <1>4, <1>9, DisjointSum
<1>11. Cardinality(at \cup near) = Cardinality(at) + Cardinality(near)
  BY <1>4, <1>9, DisjointSum
<1>12. Cardinality(above \cup below) = Cardinality(above) + Cardinality(below)
  BY <1>3, <1>9, DisjointSum
<1>13. Cardinality(a.ranked) = Cardinality(above \cup below) + Cardinality(at)
  BY <1>3, <1>9, DisjointSum
<1>14. HoldTotal(a) = Len(a.losers) - Len(trims) + Cardinality(at)
  BY <1>6 DEF HoldTotal, trims
<1>15. HoldTotal(a) = 0 => near = {}
  <2>1. HoldTotal(a) = Cardinality(near) + Cardinality(at)
    BY <1>7, <1>9, <1>10, <1>14
  <2> QED
    BY <1>9, <2>1, FS_EmptySet
<1>16. HoldTotal(a) = 0 => far = below
  BY <1>4, <1>15
<1>17. Cardinality(near) = Len(a.losers) - Len(trims)
  BY <1>7, <1>9, <1>10
<1>18. HoldTotal(a) = Cardinality(near) + Cardinality(at)
  BY <1>9, <1>14, <1>17
<1>19. HoldTotal(a) = Cardinality(a.at \cup near) /\ HoldTotal(a) \in Nat
  BY <1>6, <1>9, <1>11, <1>18
<1>20. HoldTotal(a) + Len(trims) + Len(a.winners) = Cardinality(a.ranked)
  BY <1>7, <1>9, <1>10, <1>12, <1>13, <1>18
<1> QED
  BY <1>5, <1>6, <1>16, <1>19, <1>20 DEF near, below, trims

----------------------------------------------------------------------------
(* Who is set aside *)

\* Each ad has a gate, and the gates say who is judged and what the others
\* are counted as lacking.
GateNames == {"below_spend_gate", "no_kpi_value", "below_outcome_floor", "zero_outcome_thin",
              "judged"}
Unvalued(ad) == ad.value = Null /\ ~ad.zero
GateFits(ad, gate, k) ==
    /\ gate \in GateNames
    /\ gate = "no_kpi_value" => Unvalued(ad)
    /\ Unvalued(ad) => gate \in {"no_kpi_value", "below_spend_gate"}
    /\ gate = "below_outcome_floor" => HasOutcome(k)
GatedAs(a, gate) == {i \in DOMAIN a.ads : a.gates[i] = gate}
GatedAside(a) ==
    /\ \A i \in DOMAIN a.ads : GateFits(a.ads[i], a.gates[i], a.kpi)
    /\ a.judged = GatedAs(a, "judged")
    /\ a.thin = GatedAs(a, "zero_outcome_thin")
    /\ a.floorAside = GatedAs(a, "below_outcome_floor")
    /\ a.gaps = KpiGaps(a.ads, a.gates, a.kpi)

\* Either pass gives an ad a gate that fits it.
LEMMA GatesFit ==
  ASSUME NEW list, Ads(list), NEW gate, NEW c, NEW i \in DOMAIN list
  PROVE  GateFits(list[i], Gates(list, gate, c)[i], c.kpi)
<1> DEFINE ad == list[i]
           first == FirstPass(ad, gate, c)
<1>1. ad.zero \in BOOLEAN
  BY AdsAreFinite DEF Ads, IsAd
<1>2. GateFits(ad, first, c.kpi)
  <2>1. CASE ~ClearsBar(ad.spend, gate)
    BY <2>1 DEF FirstPass, GateFits, GateNames
  <2>2. CASE ClearsBar(ad.spend, gate) /\ Unvalued(ad)
    BY <2>2 DEF FirstPass, GateFits, GateNames, Unvalued
  <2>3. CASE ClearsBar(ad.spend, gate) /\ ~Unvalued(ad)
    <3>1. first \in {"below_outcome_floor", "judged"}
      BY <2>3 DEF FirstPass, Unvalued
    <3>2. first = "below_outcome_floor" => FloorMin(c) # Null
      BY <2>3 DEF FirstPass, Unvalued
    <3>3. FloorMin(c) # Null => HasOutcome(c.kpi)
      BY DEF FloorMin
    <3> HIDE DEF first
    <3> QED
      BY <2>3, <3>1, <3>2, <3>3 DEF GateFits, GateNames
  <2> QED
    BY <2>1, <2>2, <2>3
<1>3. \/ Gates(list, gate, c)[i] = first
      \/ Gates(list, gate, c)[i] = "zero_outcome_thin" /\ ad.zero
  BY DEF Gates
<1> HIDE DEF first
<1> QED
  BY <1>1, <1>2, <1>3 DEF GateFits, GateNames, Unvalued

LEMMA AsideByGates ==
  ASSUME NEW list, Ads(list), NEW c, NEW a, a = Analyze(list, c)
  PROVE  GatedAside(a)
<1> DEFINE gate == ComputeSpendGate(list, c)
           gates == Gates(list, gate, c)
           g == Gated(list, gate, gates)
           r == RankJudged(list, g.judged, g.median2, c)
<1>1. a = Summed(g, r, c)
  BY DEF Analyze
<1>2. g.ads = list /\ g.gates = gates /\ g.judged = {i \in DOMAIN list : gates[i] = "judged"}
  BY DEF Gated
<1>3. \A i \in DOMAIN list : GateFits(list[i], gates[i], c.kpi)
  BY GatesFit
<1> HIDE DEF g, r, gates
<1>4. /\ a.ads = g.ads /\ a.gates = g.gates /\ a.kpi = c.kpi /\ a.judged = g.judged
      /\ a.thin = {i \in DOMAIN g.ads : g.gates[i] \in {"zero_outcome_thin"}}
      /\ a.floorAside = {i \in DOMAIN g.ads : g.gates[i] \in {"below_outcome_floor"}}
      /\ a.gaps = KpiGaps(g.ads, g.gates, c.kpi)
  BY <1>1 DEF Summed
<1>5. /\ GatedAs(a, "judged") = a.judged
      /\ GatedAs(a, "zero_outcome_thin") = a.thin
      /\ GatedAs(a, "below_outcome_floor") = a.floorAside
  BY <1>2, <1>4 DEF GatedAs
<1>6. \A i \in DOMAIN a.ads : GateFits(a.ads[i], a.gates[i], a.kpi)
  BY <1>2, <1>3, <1>4
<1> QED
  BY <1>4, <1>5, <1>6 DEF GatedAside

\* The gates part the ads.
LEMMA GatesPart ==
  ASSUME NEW a, Ads(a.ads), GatedAside(a)
  PROVE  /\ \A gate : IsFiniteSet(GatedAs(a, gate)) /\ Cardinality(GatedAs(a, gate)) \in Nat
         /\ Len(a.ads) = Judged(a) + Cardinality(a.thin) + Cardinality(a.floorAside)
                         + Cardinality(GatedAs(a, "no_kpi_value"))
                         + Cardinality(GatedAs(a, "below_spend_gate"))
<1> DEFINE n == Len(a.ads)
           lacking == GatedAs(a, "no_kpi_value")
           poor == GatedAs(a, "below_spend_gate")
           set1 == a.judged \cup a.thin
           set2 == set1 \cup a.floorAside
           set3 == set2 \cup lacking
<1>1. DOMAIN a.ads = 1..n /\ n \in Nat
  BY AdsAreFinite
<1>2. \A gate : GatedAs(a, gate) \subseteq 1..n
  BY <1>1 DEF GatedAs
<1>3. \A gate : IsFiniteSet(GatedAs(a, gate)) /\ Cardinality(GatedAs(a, gate)) \in Nat
  BY <1>1, <1>2, PlacesFinite
<1>4. /\ a.judged \cap a.thin = {} /\ set1 \cap a.floorAside = {}
      /\ set2 \cap lacking = {} /\ set3 \cap poor = {}
  BY DEF GatedAside, GatedAs
<1>5. 1..n = set3 \cup poor
  BY <1>1 DEF GatedAside, GatedAs, GateFits, GateNames
<1>6. /\ a.judged \subseteq 1..n /\ a.thin \subseteq 1..n /\ a.floorAside \subseteq 1..n
      /\ lacking \subseteq 1..n /\ poor \subseteq 1..n
  BY <1>2 DEF GatedAside
<1> HIDE DEF lacking, poor, n
<1>7. set1 \subseteq 1..n /\ set2 \subseteq 1..n /\ set3 \subseteq 1..n
  BY <1>6
<1>8. \A S \in {a.judged, a.thin, a.floorAside, lacking, poor, set1, set2, set3} :
          IsFiniteSet(S) /\ Cardinality(S) \in Nat
  BY <1>1, <1>6, <1>7, PlacesFinite
<1> HIDE DEF set1, set2, set3
<1>9. Cardinality(set1) = Cardinality(a.judged) + Cardinality(a.thin)
  BY <1>4, <1>8, DisjointSum DEF set1
<1>10. Cardinality(set2) = Cardinality(set1) + Cardinality(a.floorAside)
  BY <1>4, <1>8, DisjointSum DEF set2
<1>11. Cardinality(set3) = Cardinality(set2) + Cardinality(lacking)
  BY <1>4, <1>8, DisjointSum DEF set3
<1>12. Cardinality(1..n) = Cardinality(set3) + Cardinality(poor)
  BY <1>4, <1>5, <1>8, DisjointSum
<1>13. Cardinality(1..n) = n
  BY <1>1, FS_Interval
<1>14. n = Cardinality(a.judged) + Cardinality(a.thin) + Cardinality(a.floorAside)
           + Cardinality(lacking) + Cardinality(poor)
  BY <1>8, <1>9, <1>10, <1>11, <1>12, <1>13
<1> QED
  BY <1>3, <1>14 DEF n, lacking, poor, Judged

\* The counts of what was lacking, against the gates: an ad without a value
\* is counted as such, whether or not it spent enough to be asked for one.
LEMMA GapsCounted ==
  ASSUME NEW a, Ads(a.ads), GatedAside(a), a.gaps # Null
  PROVE  /\ a.gaps.noValue \in Nat /\ a.gaps.zeroOutcome \in 0..a.gaps.noValue
         /\ a.gaps.belowGate \in Nat /\ a.gaps.zeroLowSpend \in Nat
         /\ a.gaps.belowFloor = Cardinality(a.floorAside)
         /\ a.gaps.noValue + a.gaps.belowGate + a.gaps.zeroLowSpend
            = Cardinality(GatedAs(a, "no_kpi_value")) + Cardinality(GatedAs(a, "below_spend_gate"))
              + Cardinality(a.thin)
         /\ (a.gaps.belowGate + a.gaps.zeroLowSpend) - Cardinality(a.thin) \in Nat
         /\ ~HasOutcome(a.kpi) => /\ a.gaps.zeroOutcome = 0 /\ a.gaps.zeroLowSpend = 0
                                  /\ a.gaps.belowFloor = 0
<1> DEFINE n == Len(a.ads)
           noValue == {i \in DOMAIN a.ads : a.ads[i].value = Null /\ ~a.ads[i].zero}
           zeroOutcome == {i \in noValue : a.ads[i].conv = 0}
           lacking == GatedAs(a, "no_kpi_value")
           poor == GatedAs(a, "below_spend_gate")
           poorOnly == {i \in poor : a.ads[i].value # Null \/ a.ads[i].zero}
           both == noValue \cap poor
           thin == Cardinality(a.thin)
<1>1. DOMAIN a.ads = 1..n /\ n \in Nat
  BY AdsAreFinite
<1>2. noValue = lacking \cup both /\ lacking \cap both = {}
  BY DEF GatedAside, GatedAs, GateFits, Unvalued
<1>3. poor = both \cup poorOnly /\ both \cap poorOnly = {}
  BY DEF GatedAs
<1>4. a.gaps = [noValue      |-> Cardinality(noValue),
                zeroOutcome  |-> IF a.kpi \in {"roas", "cpa"} THEN Cardinality(zeroOutcome) ELSE 0,
                belowGate    |-> Cardinality(poorOnly) + (IF a.kpi = "roas" THEN 0 ELSE thin),
                zeroLowSpend |-> IF a.kpi = "roas" THEN thin ELSE 0,
                belowFloor   |-> Cardinality(a.floorAside)]
  BY DEF GatedAside, GatedAs, KpiGaps
<1>5. \A gate : IsFiniteSet(GatedAs(a, gate)) /\ Cardinality(GatedAs(a, gate)) \in Nat
  BY GatesPart
<1>6. thin \in Nat /\ Cardinality(a.floorAside) \in Nat
  BY <1>5 DEF GatedAside
<1>7. noValue \subseteq 1..n /\ zeroOutcome \subseteq noValue
  BY <1>1
<1>8. lacking \subseteq 1..n /\ poor \subseteq 1..n /\ poorOnly \subseteq poor /\ both \subseteq poor
  BY <1>1 DEF GatedAs
<1>9. ~HasOutcome(a.kpi) => a.floorAside = {} /\ a.kpi \notin {"roas", "cpa"}
  BY DEF HasOutcome, GatedAside, GatedAs, GateFits
<1> HIDE DEF noValue, zeroOutcome, lacking, poor, poorOnly, both, n
<1>10. \A S \in {noValue, zeroOutcome, lacking, poor, poorOnly, both} :
          IsFiniteSet(S) /\ Cardinality(S) \in Nat
  <2>1. \A S \in {noValue, zeroOutcome, lacking, poor, poorOnly, both} : S \subseteq 1..n
    BY <1>7, <1>8
  <2> QED
    BY <1>1, <2>1, PlacesFinite
<1>11. Cardinality(noValue) = Cardinality(lacking) + Cardinality(both)
  BY <1>2, <1>10, DisjointSum
<1>12. Cardinality(poor) = Cardinality(both) + Cardinality(poorOnly)
  BY <1>3, <1>10, DisjointSum
<1>13. Cardinality(zeroOutcome) <= Cardinality(noValue)
  BY <1>7, <1>10, FS_Subset
<1>14. Cardinality({}) = 0
  BY FS_EmptySet
<1> HIDE DEF thin
<1>15. /\ a.gaps.noValue = Cardinality(noValue)
       /\ a.gaps.zeroOutcome = IF a.kpi \in {"roas", "cpa"} THEN Cardinality(zeroOutcome) ELSE 0
       /\ a.gaps.belowGate = Cardinality(poorOnly) + (IF a.kpi = "roas" THEN 0 ELSE thin)
       /\ a.gaps.zeroLowSpend = IF a.kpi = "roas" THEN thin ELSE 0
       /\ a.gaps.belowFloor = Cardinality(a.floorAside)
  BY <1>4
<1>16. a.gaps.noValue \in Nat /\ a.gaps.zeroOutcome \in 0..a.gaps.noValue
  BY <1>10, <1>13, <1>15
<1>17. a.gaps.belowGate \in Nat /\ a.gaps.zeroLowSpend \in Nat
  BY <1>6, <1>10, <1>15
<1>18. a.gaps.belowGate + a.gaps.zeroLowSpend = Cardinality(poorOnly) + thin
  BY <1>6, <1>10, <1>15
<1>19. a.gaps.noValue + a.gaps.belowGate + a.gaps.zeroLowSpend
       = Cardinality(lacking) + Cardinality(poor) + thin
  BY <1>10, <1>11, <1>12, <1>15, <1>17, <1>18, <1>6
<1>20. (a.gaps.belowGate + a.gaps.zeroLowSpend) - thin \in Nat
  BY <1>6, <1>10, <1>18
<1>21. ~HasOutcome(a.kpi) => /\ a.gaps.zeroOutcome = 0 /\ a.gaps.zeroLowSpend = 0
                            /\ a.gaps.belowFloor = 0
  BY <1>9, <1>14, <1>15
<1> QED
  BY <1>15, <1>16, <1>17, <1>19, <1>20, <1>21 DEF lacking, poor, thin

\* What the limits say of each cause.
AsideCounts(a) ==
    [cause \in AsideCauses |->
        IF a.gaps = Null THEN IF cause = "too_little_spend" THEN TooLittleSpend(a) ELSE 0
        ELSE CASE cause = "no_value" -> a.gaps.noValue - a.gaps.zeroOutcome
               [] cause = "no_outcome" -> IF HasOutcome(a.kpi) THEN a.gaps.zeroOutcome ELSE 0
               [] cause = "too_little_spend" -> a.gaps.belowGate
               [] cause = "no_outcome_low_spend" ->
                      IF HasOutcome(a.kpi) THEN a.gaps.zeroLowSpend ELSE 0
               [] cause = "below_your_minimum" ->
                      IF HasOutcome(a.kpi) THEN a.gaps.belowFloor ELSE 0]
AsideSaid(n) == {[cause |-> cause, ads |-> n[cause]] : cause \in {x \in AsideCauses : n[x] > 0}}

LEMMA PartsAreSaid ==
  ASSUME NEW a
  PROVE  SetAsideParts(a) = AsideSaid(AsideCounts(a))
<1> DEFINE n == AsideCounts(a)
           Said(cause) == IF n[cause] > 0 THEN {[cause |-> cause, ads |-> n[cause]]} ELSE {}
<1>1. AsideSaid(n) = Said("no_value") \cup Said("no_outcome") \cup Said("too_little_spend")
                    \cup Said("no_outcome_low_spend") \cup Said("below_your_minimum")
  <2> HIDE DEF n
  <2> QED
    BY DEF AsideSaid, AsideCauses
<1>2. CASE a.gaps # Null
  <2>1. /\ n["no_value"] = a.gaps.noValue - a.gaps.zeroOutcome
        /\ n["no_outcome"] = IF HasOutcome(a.kpi) THEN a.gaps.zeroOutcome ELSE 0
        /\ n["too_little_spend"] = a.gaps.belowGate
        /\ n["no_outcome_low_spend"] = IF HasOutcome(a.kpi) THEN a.gaps.zeroLowSpend ELSE 0
        /\ n["below_your_minimum"] = IF HasOutcome(a.kpi) THEN a.gaps.belowFloor ELSE 0
    BY <1>2 DEF AsideCounts, AsideCauses
  <2>2. SetAsideParts(a) = GapParts(a)
    BY <1>2 DEF SetAsideParts
  <2> HIDE DEF n
  <2>3. GapParts(a) = Said("no_value") \cup Said("no_outcome") \cup Said("too_little_spend")
                     \cup Said("no_outcome_low_spend") \cup Said("below_your_minimum")
    BY <2>1 DEF GapParts
  <2> QED
    BY <1>1, <2>2, <2>3 DEF n
<1>3. CASE a.gaps = Null
  <2>1. /\ n["no_value"] = 0 /\ n["no_outcome"] = 0 /\ n["no_outcome_low_spend"] = 0
        /\ n["below_your_minimum"] = 0 /\ n["too_little_spend"] = TooLittleSpend(a)
    BY <1>3 DEF AsideCounts, AsideCauses
  <2> HIDE DEF n
  <2>2. AsideSaid(n) = Said("too_little_spend")
    BY <1>1, <2>1
  <2>3. SetAsideParts(a) = Said("too_little_spend")
    BY <1>3, <2>1 DEF SetAsideParts
  <2> QED
    BY <2>2, <2>3 DEF n
<1> QED
  BY <1>2, <1>3

\* One part for each cause, with its count.
LEMMA AsideIsCount ==
  ASSUME NEW a, NEW n, SetAsideParts(a) = AsideSaid(n), \A x \in AsideCauses : n[x] \in Nat
  PROVE  /\ \A p, q \in SetAsideParts(a) : p.cause \in AsideCauses /\ (p.cause = q.cause => p = q)
         /\ \A x \in AsideCauses : AsideFor(a, x) = n[x]
<1>1. \A p \in SetAsideParts(a) : p.cause \in AsideCauses /\ p = [cause |-> p.cause, ads |-> n[p.cause]]
  BY DEF AsideSaid
<1>2. \A p, q \in SetAsideParts(a) : p.cause = q.cause => p = q
  BY <1>1
<1>3. ASSUME NEW x \in AsideCauses
      PROVE  AsideFor(a, x) = n[x]
  <2> DEFINE said == {p \in SetAsideParts(a) : p.cause = x}
             part == [cause |-> x, ads |-> n[x]]
  <2>1. CASE n[x] > 0
    <3>1. part \in SetAsideParts(a) /\ part.cause = x /\ part.ads = n[x]
      BY <2>1 DEF AsideSaid
    <3> HIDE DEF part
    <3>2. said = {part}
      BY <1>2, <3>1
    <3> QED
      BY <3>1, <3>2 DEF AsideFor
  <2>2. CASE ~(n[x] > 0)
    <3>1. said = {}
      BY <2>2 DEF AsideSaid
    <3>2. n[x] = 0
      BY <2>2
    <3> QED
      BY <3>1, <3>2 DEF AsideFor
  <2> QED
    BY <2>1, <2>2
<1> QED
  BY <1>1, <1>2, <1>3

----------------------------------------------------------------------------
(* The report, part by part *)

\* What a report says, over the analysis and the context it was composed on.
Says(m, list, a, c) ==
    /\ Ads(list)
    /\ Analyzed(a, list, c)
    /\ GatedAside(a)
    /\ c.minOutcome \in IntOrNull
    /\ m.tests = NextTests(a, c)
    /\ m.decision = Decide(a, c, Head(m.tests).kind)
    /\ m.confidence = Confidence(a, c, m.decision)
    /\ m.status = [i \in a.ranked |-> AdStatus(a, c, i)]
    /\ m.tldr = Tldr(a, m.decision)
    /\ m.client = ClientSummary(a, c, m.decision)
    /\ m.losers = LosersSection(a, c, m.decision)

LEMMA ReportSays == RunInv /\ Composed => Says(memo, ads, analysis, context)
<1> SUFFICES ASSUME RunInv, Composed PROVE Says(memo, ads, analysis, context)
  OBVIOUS
<1>1. Made
  BY DEF RunInv, Sent, Written, Made, Composed, Early
<1> DEFINE composed == GenerateMemo(analysis, context)
<1>2. /\ analysis = Analyze(ads, context)
      /\ context.minOutcome \in IntOrNull
      /\ \A f \in DOMAIN composed : f \in DOMAIN memo /\ memo[f] = composed[f]
  BY <1>1 DEF RunInv, Written
<1>3. {"tests", "decision", "confidence", "status", "tldr", "client", "losers"} \subseteq DOMAIN composed
  BY DEF GenerateMemo, MemoAround, Memo
<1>4. LET tests == NextTests(analysis, context)
          d == Decide(analysis, context, Head(tests).kind)
      IN  /\ composed.tests = tests
          /\ composed.decision = d
          /\ composed.confidence = Confidence(analysis, context, d)
          /\ composed.status = [i \in analysis.ranked |-> AdStatus(analysis, context, i)]
          /\ composed.tldr = Tldr(analysis, d)
          /\ composed.client = ClientSummary(analysis, context, d)
          /\ composed.losers = LosersSection(analysis, context, d)
  BY DEF GenerateMemo, MemoAround, Memo
<1> HIDE DEF composed
<1>5. Ads(ads) /\ Analyzed(analysis, ads, context) /\ GatedAside(analysis)
  BY <1>2, AnalysisSound, AsideByGates DEF RunInv, ReadSound
<1>6. /\ memo.tests = composed.tests /\ memo.decision = composed.decision
      /\ memo.confidence = composed.confidence /\ memo.status = composed.status
      /\ memo.tldr = composed.tldr /\ memo.client = composed.client /\ memo.losers = composed.losers
  BY <1>2, <1>3
<1> QED
  BY <1>2, <1>4, <1>5, <1>6 DEF Says

\* The ads that a call gives budget to.
LEMMA DecidedReceivers ==
  ASSUME NEW list, NEW c, NEW a, Analyzed(a, list, c), NEW title, NEW d, d = Decide(a, c, title),
         NEW i \in ToSet(d.to)
  PROVE  /\ IsScaleActionSupported(a, c) /\ d.to = BudgetReceivers(a, c)
         /\ i \in Members(BudgetReceivers(a, c))
<1>1. d.to = Choose(a, c, title).to
  BY DEF Decide, Stated
<1>2. d.to = <<>> \/ (IsScaleActionSupported(a, c) /\ d.to = BudgetReceivers(a, c))
  BY <1>1 DEF Choose, Call, InsufficientHold
<1>3. d.to # <<>>
  BY DEF ToSet
<1> QED
  BY <1>2, <1>3, ReceiversQualify, MembersOf

----------------------------------------------------------------------------
(* High confidence is earned *)

\* A call is high confidence on supported evidence with nothing to cap it.
LEMMA HighIsSupported ==
  ASSUME NEW a, NEW c, NEW title, NEW d, d = Decide(a, c, title),
         Confidence(a, c, d).decision = "high"
  PROVE  TargetFor(a, c) # Null /\ ~ReceiverBelowHighBar(a, c)
<1> DEFINE level == FromEvidence(d.evidence)
           caps == DecisionCaps(a, c)
<1>1. Confidence(a, c, d).decision = IF level = "high" /\ caps # {} THEN "medium" ELSE level
  BY DEF Confidence
<1>2. level = "high" /\ caps = {}
  BY <1>1
<1>3. d.evidence = EvidenceState(a, c)
  BY DEF Decide, Stated
<1>4. EvidenceState(a, c) = "supported"
  BY <1>2, <1>3 DEF FromEvidence
<1>5. ~ReceiverBelowHighBar(a, c)
  BY <1>4 DEF EvidenceState
<1>6. TargetFor(a, c) # Null
  BY <1>2 DEF DecisionCaps
<1> QED
  BY <1>5, <1>6

LEMMA EarnedByReceivers ==
  ASSUME NEW m, NEW list, NEW a, NEW c, Says(m, list, a, c), m.confidence.decision = "high"
  PROVE  /\ TargetFor(a, c) # Null
         /\ \A i \in ToSet(m.decision.to) :
                /\ BeatsTarget(a, c, i)
                /\ list[i].conv # Null => list[i].conv >= HighMultiple * ReceiverOutcomeMin(c)
<1> DEFINE title == Head(m.tests).kind
           d == m.decision
<1>1. d = Decide(a, c, title) /\ m.confidence = Confidence(a, c, d) /\ Analyzed(a, list, c) /\ Ads(list)
  BY DEF Says
<1> HIDE DEF title, d
<1>2. TargetFor(a, c) # Null /\ ~ReceiverBelowHighBar(a, c)
  BY <1>1, HighIsSupported
<1>3. ASSUME NEW i \in ToSet(d.to)
      PROVE  /\ BeatsTarget(a, c, i)
             /\ list[i].conv # Null => list[i].conv >= HighMultiple * ReceiverOutcomeMin(c)
  <2>1. IsScaleActionSupported(a, c) /\ i \in Members(BudgetReceivers(a, c))
    BY <1>1, DecidedReceivers
  <2>2. Qualified(a, c, i)
    BY <1>1, <2>1, ReceiversQualify
  <2>3. BeatsTarget(a, c, i)
    BY <1>2, <2>2 DEF Qualified, BeatsBreakeven
  <2>4. ASSUME list[i].conv # Null PROVE list[i].conv >= HighMultiple * ReceiverOutcomeMin(c)
    <3> DEFINE w == WeakestReceiver(a, c)
               bar == HighMultiple * ReceiverOutcomeMin(c)
    <3>1. /\ w \in Members(BudgetReceivers(a, c))
          /\ list[w].conv \in Int
          /\ list[w].conv <= list[i].conv
      BY <1>1, <2>1, <2>4, WeakestIsFewest
    <3>2. w \in Int /\ w # Null
      BY <1>1, <3>1, ReceiversQualify, AnalysisConstants DEF Qualified, OnSide, Analyzed
    <3>3. HasOutcome(a.kpi)
      BY <1>2 DEF TargetFor, HasOutcome
    <3>4. ~(list[w].conv < bar)
      BY <1>1, <1>2, <3>2, <3>3 DEF ReceiverBelowHighBar, Analyzed
    <3>5. bar \in Int
      BY BarNumbers DEF Says
    <3>6. list[i].conv \in Int
      BY <1>1, <2>2, <2>4 DEF Qualified, OnSide, Analyzed, Ads, IsAd, IntOrNull
    <3> HIDE DEF bar, w
    <3>7. list[i].conv >= bar
      BY <3>1, <3>4, <3>5, <3>6
    <3> QED
      BY <3>7 DEF bar
  <2> QED
    BY <2>3, <2>4
<1> QED
  BY <1>2, <1>3 DEF d

\* A decision is called high confidence only with a breakeven that every
\* receiver meets, and with outcomes past the high bar wherever they are
\* counted (memo.ts 371-410, decision.ts 597-630).
LEMMA SoundEarned == RunInv => HighConfidenceEarned
<1> SUFFICES ASSUME RunInv, Composed, memo.confidence.decision = "high"
             PROVE  HighConfidenceEarned
  BY DEF HighConfidenceEarned
<1>1. Says(memo, ads, analysis, context)
  BY ReportSays
<1> QED
  BY <1>1, EarnedByReceivers DEF HighConfidenceEarned, Receivers, Decision

THEOREM HighConfidenceAlwaysEarned == Spec => []HighConfidenceEarned
  BY Soundness, SoundEarned, PTL

----------------------------------------------------------------------------
(* The tests follow the move *)

\* A raise, a promise on evidence that is diagnosed, or a rebuild of an ad
\* that receives budget is what a test must not be by itself.
Quiet(t) == t.kind # "raise" /\ t.original # "reduce" /\ t.diagnostic = Null

\* What is diagnosed is not ready.
LEMMA DiagnosedIsDoubted ==
  ASSUME NEW a, NEW c, EvidenceDiagnostic(a, EvidenceLead(a, c)) # Null
  PROVE  WinnerReadiness(a, c) \notin {Null, "ready"}
<1> DEFINE top == EvidenceLead(a, c)
           n == a.ads[top].conv
<1> HIDE DEF top
<1>1. top # Null /\ HasOutcome(a.kpi) /\ (n = Null \/ n < MinOutcomes)
  BY DEF EvidenceDiagnostic, top
<1>2. CASE n = Null
  <2>1. WinnerReadiness(a, c) = "directional"
    BY <1>1, <1>2 DEF WinnerReadiness, top
  <2> QED
    BY <2>1, RequestsAssumption
<1>3. CASE n # Null
  <2>1. WinnerReadiness(a, c) = "insufficient"
    BY <1>1, <1>3 DEF WinnerReadiness, top
  <2> QED
    BY <2>1, RequestsAssumption
<1> QED
  BY <1>2, <1>3

LEMMA FirstTestIs ==
  ASSUME NEW a, NEW c, NEW t, t = FirstTest(a, c)
  PROVE  /\ t.kind # "raise" /\ t.original # "reduce"
         /\ t.diagnostic # Null => ~t.expects
         /\ ~IsProxyOutcomeConflict(a) /\ EvidenceLead(a, c) # Null => t.ad = EvidenceLead(a, c)
<1>1. CASE IsProxyOutcomeConflict(a)
  BY <1>1 DEF FirstTest, Test
<1>2. CASE ~IsProxyOutcomeConflict(a) /\ EvidenceLead(a, c) = Null
  BY <1>2 DEF FirstTest, Test
<1>3. CASE ~IsProxyOutcomeConflict(a) /\ EvidenceLead(a, c) # Null
  <2>1. /\ t.kind = "iterate" /\ t.original = "matched" /\ t.ad = EvidenceLead(a, c)
        /\ t.diagnostic = EvidenceDiagnostic(a, EvidenceLead(a, c))
        /\ t.expects = (WinnerReadiness(a, c) \in {Null, "ready"})
    BY <1>3 DEF FirstTest, Test
  <2> QED
    BY <2>1, DiagnosedIsDoubted
<1> QED
  BY <1>1, <1>2, <1>3

LEMMA SecondTestIs ==
  ASSUME NEW a, NEW c
  PROVE  \/ SecondTest(a, c) = <<>>
         \/ \E t : /\ SecondTest(a, c) = <<t>>
                   /\ t.kind # "raise" /\ t.diagnostic = Null
                   /\ t.original = "reduce" => a.losers # <<>> /\ t.ad = Head(a.losers)
<1> DEFINE worst == Rebuildable(a)
           rebuild == RebuildTest(a, c, worst)
           challenger == ChallengerTest(a, IF IsProxyOutcomeConflict(a) THEN Null ELSE EvidenceLead(a, c),
                                        "challenge_best")
           contrast == [Test("contrast", Null) EXCEPT !.expects = FALSE]
<1>1. \/ SecondTest(a, c) = <<>>
      \/ SecondTest(a, c) = <<contrast>>
      \/ SecondTest(a, c) = <<challenger>>
      \/ SecondTest(a, c) = <<rebuild>> /\ worst # Null
  BY DEF SecondTest
<1>2. contrast.kind = "contrast" /\ contrast.diagnostic = Null /\ contrast.original = "matched"
  BY DEF Test
<1>3. challenger.kind = "challenge_best" /\ challenger.diagnostic = Null /\ challenger.original = "matched"
  BY DEF ChallengerTest, Test
<1>4. rebuild.kind # "raise" /\ rebuild.diagnostic = Null /\ rebuild.ad = worst
  <2> HIDE DEF worst
  <2> QED
    BY DEF RebuildTest, Test
<1>5. worst # Null => a.losers # <<>> /\ worst = Head(a.losers)
  BY DEF Rebuildable, First
<1> HIDE DEF worst, rebuild, challenger, contrast
<1> QED
  BY <1>1, <1>2, <1>3, <1>4, <1>5

LEMMA ThirdTestIs ==
  ASSUME NEW a, NEW c, NEW t, t = ThirdTest(a, c)
  PROVE  LET only == IsScaleActionSupported(a, c) /\ ~IsCutActionSupported(a, c)
         IN  /\ t.diagnostic = Null /\ t.original # "reduce"
             /\ t.kind = "raise" <=> only
             /\ only => t.ad = BudgetReceivers(a, c)[1]
<1> DEFINE only == IsScaleActionSupported(a, c) /\ ~IsCutActionSupported(a, c)
<1>1. CASE only
  <2>1. t = [Test("raise", BudgetReceivers(a, c)[1]) EXCEPT !.original = "raise"]
    BY <1>1 DEF ThirdTest
  <2> QED
    BY <1>1, <2>1 DEF Test
<1>2. CASE ~only
  BY <1>2 DEF ThirdTest, ChallengerTest, Test
<1> QED
  BY <1>1, <1>2

\* The tests are the first, the second when there is one, and the third.
LEMMA TestsAre ==
  ASSUME NEW a, NEW c, NEW s, s = NextTests(a, c)
  PROVE  /\ s[1] = FirstTest(a, c) /\ Head(s) = FirstTest(a, c)
         /\ s[Len(s)] = ThirdTest(a, c)
         /\ \A t \in ToSet(s) : \/ t = FirstTest(a, c) \/ t = ThirdTest(a, c)
                                \/ SecondTest(a, c) = <<t>>
<1> DEFINE first == FirstTest(a, c)
           third == ThirdTest(a, c)
<1> HIDE DEF first, third
<1> DEFINE front == <<first>> \o SecondTest(a, c)
<1>1. s = front \o <<third>>
  BY DEF NextTests, first, third
<1>2. \A t : IsList(<<t>>) /\ Len(<<t>>) = 1 /\ Members(<<t>>) = {t} /\ <<t>>[1] = t
  BY DEF IsList, Members
<1>3. IsList(<<>>) /\ Len(<<>>) = 0 /\ Members(<<>>) = {}
  BY DEF IsList, Members
<1>4. /\ IsList(SecondTest(a, c)) /\ Len(SecondTest(a, c)) \in Nat
      /\ \A t \in Members(SecondTest(a, c)) : SecondTest(a, c) = <<t>>
  <2>1. SecondTest(a, c) = <<>> \/ \E t : SecondTest(a, c) = <<t>>
    BY SecondTestIs
  <2> QED
    BY <1>2, <1>3, <2>1
<1>5. /\ IsList(front) /\ Members(front) = {first} \cup Members(SecondTest(a, c))
      /\ Len(front) = 1 + Len(SecondTest(a, c)) /\ front[1] = first
  <2>1. /\ IsList(front)
        /\ Members(front) = Members(<<first>>) \cup Members(SecondTest(a, c))
        /\ Len(front) = Len(<<first>>) + Len(SecondTest(a, c))
        /\ \A i \in 1..Len(<<first>>) + Len(SecondTest(a, c)) :
               front[i] = IF i <= Len(<<first>>) THEN <<first>>[i]
                          ELSE SecondTest(a, c)[i - Len(<<first>>)]
    BY <1>2, <1>4, ConcatIsList
  <2> QED
    BY <1>2, <1>4, <2>1
<1> HIDE DEF front
<1>6. /\ IsList(s) /\ Members(s) = Members(front) \cup {third}
      /\ Len(s) = Len(front) + 1 /\ s[1] = first /\ s[Len(s)] = third
  <2>1. /\ IsList(s)
        /\ Members(s) = Members(front) \cup Members(<<third>>)
        /\ Len(s) = Len(front) + Len(<<third>>)
        /\ \A i \in 1..Len(front) + Len(<<third>>) :
               s[i] = IF i <= Len(front) THEN front[i] ELSE <<third>>[i - Len(front)]
    BY <1>1, <1>2, <1>5, ConcatIsList
  <2> QED
    BY <1>2, <1>4, <1>5, <2>1
<1>7. Head(s) = first
  <2>1. s \in Seq(Members(s)) /\ s # <<>>
    BY <1>4, <1>5, <1>6, ListIsSeq
  <2> QED
    BY <1>6, <2>1
<1>8. ToSet(s) = {first} \cup Members(SecondTest(a, c)) \cup {third}
  BY <1>5, <1>6, MembersOf
<1> QED
  BY <1>4, <1>6, <1>7, <1>8 DEF first, third

\* A call that gives budget is a shift or a scale, and the second exactly
\* when nothing is cut; on a proxy run with an outcome KPI it gives none.
LEMMA ScaledBy ==
  ASSUME NEW a, NEW c, NEW title, NEW d, d = Decide(a, c, title), Judged(a) \in Nat
  PROVE  /\ d.reason = "scale" <=> IsScaleActionSupported(a, c) /\ ~IsCutActionSupported(a, c)
         /\ d.to = IF IsScaleActionSupported(a, c) THEN BudgetReceivers(a, c) ELSE <<>>
         /\ d.action = "budget" => ~IsProxyWithOutcome(a, c)
<1>1. /\ d.reason = Choose(a, c, title).reason /\ d.to = Choose(a, c, title).to
      /\ d.action = Choose(a, c, title).action
  BY DEF Decide, Stated
<1>2. TestReason(a, c) # "scale"
  BY DEF TestReason, NoReceiverReason
<1>3. CASE Judged(a) >= MinJudged
  BY <1>1, <1>2, <1>3, DecisionConstants DEF Choose, Call, InsufficientHold, IsScaleActionSupported, IsCutActionSupported
<1>4. CASE ~(Judged(a) >= MinJudged)
  BY <1>1, <1>4, DecisionConstants DEF Choose, Call, InsufficientHold, IsScaleActionSupported, IsCutActionSupported
<1> QED
  BY <1>3, <1>4

\* A proxy conflict takes a run on a proxy with an outcome KPI.
LEMMA ConflictOnProxy ==
  ASSUME NEW list, NEW c, NEW a, Analyzed(a, list, c), IsProxyOutcomeConflict(a)
  PROVE  IsProxyWithOutcome(a, c)
  BY DEF Analyzed, BuildProxyKpi, IsProxyOutcomeConflict, IsProxyWithOutcome

LEMMA JudgedIsNumber ==
  ASSUME NEW list, Ads(list), NEW c, NEW a, Analyzed(a, list, c)
  PROVE  Judged(a) \in Nat
  BY AdsAreFinite, PlacesFinite DEF Analyzed, Judged

\* The ad the report builds on is a receiver when there is one.
LEMMA LeadReceives ==
  ASSUME NEW list, NEW c, NEW a, Analyzed(a, list, c), IsScaleActionSupported(a, c)
  PROVE  /\ EvidenceLead(a, c) = BudgetReceivers(a, c)[1]
         /\ EvidenceLead(a, c) # Null
         /\ ~IsProxyOutcomeConflict(a)
<1> DEFINE r == BudgetReceivers(a, c)
<1>1. IsList(r) /\ \A i \in Members(r) : Qualified(a, c, i)
  BY ReceiversQualify
<1>2. r # <<>> /\ EvidenceLead(a, c) = r[1]
  BY DEF IsScaleActionSupported, EvidenceLead
<1> HIDE DEF r
<1>3. r[1] \in Members(r)
  <2>1. r \in Seq(Members(r))
    BY <1>1, ListIsSeq
  <2> QED
    BY <1>2, <2>1
<1>4. r[1] \in Int
  BY <1>1, <1>3 DEF Qualified, OnSide, Analyzed
<1>5. ~IsProxyOutcomeConflict(a)
  BY ConflictOnProxy DEF IsScaleActionSupported
<1> QED
  BY <1>2, <1>4, <1>5, AnalysisConstants DEF r

LEMMA TestsFollow ==
  ASSUME NEW m, NEW list, NEW a, NEW c, Says(m, list, a, c)
  PROVE  LET d == m.decision
         IN  /\ \A t \in ToSet(m.tests) :
                    /\ t.kind = "raise" => d.reason = "scale" /\ t.ad = d.to[1]
                    /\ t.diagnostic # Null => ~t.expects
                    /\ t.original = "reduce" => t.ad \notin ToSet(d.to)
             /\ d.to # <<>> => m.tests[1].ad = d.to[1]
             /\ d.reason = "scale" => m.tests[Len(m.tests)].kind = "raise"
<1> DEFINE title == Head(m.tests).kind
           d == m.decision
           tests == m.tests
           first == FirstTest(a, c)
           third == ThirdTest(a, c)
<1>1. Ads(list) /\ Analyzed(a, list, c) /\ tests = NextTests(a, c) /\ d = Decide(a, c, title)
  BY DEF Says
<1>2. Judged(a) \in Nat
  BY <1>1, JudgedIsNumber
<1> HIDE DEF title, d, tests, first, third
<1>3. /\ d.reason = "scale" <=> IsScaleActionSupported(a, c) /\ ~IsCutActionSupported(a, c)
      /\ d.to = IF IsScaleActionSupported(a, c) THEN BudgetReceivers(a, c) ELSE <<>>
  BY <1>1, <1>2, ScaledBy
<1>4. /\ tests[1] = first /\ tests[Len(tests)] = third
      /\ \A t \in ToSet(tests) : t = first \/ t = third \/ SecondTest(a, c) = <<t>>
  BY <1>1, TestsAre DEF first, third
<1>5. /\ first.kind # "raise" /\ first.original # "reduce"
      /\ first.diagnostic # Null => ~first.expects
      /\ ~IsProxyOutcomeConflict(a) /\ EvidenceLead(a, c) # Null => first.ad = EvidenceLead(a, c)
  BY FirstTestIs DEF first
<1>6. /\ third.diagnostic = Null /\ third.original # "reduce"
      /\ third.kind = "raise" <=> IsScaleActionSupported(a, c) /\ ~IsCutActionSupported(a, c)
      /\ IsScaleActionSupported(a, c) /\ ~IsCutActionSupported(a, c) =>
             third.ad = BudgetReceivers(a, c)[1]
  BY ThirdTestIs DEF third
<1>7. ASSUME NEW t, SecondTest(a, c) = <<t>>
      PROVE  /\ t.kind # "raise" /\ t.diagnostic = Null
             /\ t.original = "reduce" => t.ad \notin ToSet(d.to)
  <2>1. PICK u : /\ SecondTest(a, c) = <<u>>
                 /\ u.kind # "raise" /\ u.diagnostic = Null
                 /\ u.original = "reduce" => a.losers # <<>> /\ u.ad = Head(a.losers)
    <3>1. SecondTest(a, c) # <<>>
      BY <1>7
    <3> QED
      BY <3>1, SecondTestIs
  <2>2. t = u
    <3>1. <<t>>[1] = <<u>>[1]
      BY <1>7, <2>1
    <3> QED
      BY <3>1
  <2>3. ASSUME t.original = "reduce", t.ad \in ToSet(d.to) PROVE FALSE
    <3>1. Side(a, t.ad) = "above"
      BY <1>1, <2>3, DecidedReceivers, ReceiversQualify DEF Qualified, OnSide
    <3>2. a.losers # <<>> /\ t.ad = Head(a.losers)
      BY <2>1, <2>2, <2>3
    <3>3. IsList(a.losers) /\ Members(a.losers) = OnSide(a, "below")
      BY <1>1 DEF Analyzed
    <3>4. a.losers \in Seq(Members(a.losers))
      BY <3>3, ListIsSeq
    <3>5. Head(a.losers) \in Members(a.losers)
      BY <3>2, <3>4
    <3>6. Side(a, t.ad) = "below"
      BY <3>2, <3>3, <3>5 DEF OnSide
    <3> QED
      BY <3>1, <3>6
  <2> QED
    BY <2>1, <2>2, <2>3
<1>8. ASSUME NEW t \in ToSet(tests)
      PROVE  /\ t.kind = "raise" => d.reason = "scale" /\ t.ad = d.to[1]
             /\ t.diagnostic # Null => ~t.expects
             /\ t.original = "reduce" => t.ad \notin ToSet(d.to)
  BY <1>3, <1>4, <1>5, <1>6, <1>7
<1>9. d.to # <<>> => tests[1].ad = d.to[1]
  BY <1>1, <1>3, <1>4, <1>5, LeadReceives
<1>10. d.reason = "scale" => tests[Len(tests)].kind = "raise"
  BY <1>3, <1>4, <1>6
<1> QED
  BY <1>8, <1>9, <1>10 DEF tests, d

\* The tests never work against the call: a raise is proposed only for the ad
\* the call scales, the first test builds on the first receiver of a move, a
\* test on evidence that is still diagnosed promises nothing, and no ad that
\* receives budget is rebuilt (memo.ts 1269-2088).
LEMMA SoundTests == RunInv => TestsFollowTheMove
<1> SUFFICES ASSUME RunInv, Composed PROVE TestsFollowTheMove
  BY DEF TestsFollowTheMove
<1>1. Says(memo, ads, analysis, context)
  BY ReportSays
<1> QED
  BY <1>1, TestsFollow DEF TestsFollowTheMove, Receivers, Decision

THEOREM TestsAlwaysFollow == Spec => []TestsFollowTheMove
  BY Soundness, SoundTests, PTL

----------------------------------------------------------------------------
(* A proxy moves no money *)

\* The best ad on the outcome KPI is not behind its median, unless it is one
\* without an outcome.
LEMMA LeaderIsNotBelow ==
  ASSUME NEW list, Ads(list), NEW ranked, ranked \subseteq 1..Len(list), NEW c,
         IsProxy(c.kpi), c.outcomeKpi # Null,
         NEW p, p = BuildProxyKpi(list, ranked, c)
  PROVE  /\ p # Null
         /\ p.leader \in p.below => list[p.leader].other.zero
<1> DEFINE other == [i \in DOMAIN list |-> list[i].other.value]
           valued == {i \in ranked : other[i] # Null}
           zero == {i \in ranked : list[i].other.zero}
           counted == valued \ zero
           med2 == Median2(other, counted)
           Better(x, y) == IF HigherIsBetter(c.outcomeKpi) THEN x > y ELSE x < y
           Best(i) == \A j \in valued : \/ Better(other[i], other[j])
                                        \/ other[i] = other[j] /\ i <= j
           leader == CHOOSE i \in valued : Best(i)
           below == zero \cup {i \in valued : Better(med2, 2 * other[i])}
           above == {i \in valued : Better(2 * other[i], med2)}
<1>1. p = IF med2 = Null THEN [below |-> {}, above |-> {}, leader |-> Null]
          ELSE [below |-> below, above |-> above, leader |-> leader]
  BY DEF BuildProxyKpi
<1>2. DOMAIN list = 1..Len(list) /\ Len(list) \in Nat
  BY AdsAreFinite
<1>3. /\ \A i \in 1..Len(list) : other[i] \in IntOrNull
      /\ \A i \in valued : other[i] \in Int
  BY <1>2 DEF Ads, IsAd, IntOrNull
<1>4. valued \subseteq 1..Len(list) /\ zero \subseteq 1..Len(list) /\ counted \subseteq valued
  OBVIOUS
<1>5. IsFiniteSet(valued) /\ IsFiniteSet(counted) /\ valued \subseteq Nat
  <2>1. valued \subseteq 1..Len(list) /\ counted \subseteq 1..Len(list)
    BY <1>4
  <2> HIDE DEF valued, counted
  <2>2. IsFiniteSet(valued) /\ IsFiniteSet(counted)
    BY <1>2, <2>1, PlacesFinite
  <2>3. valued \subseteq Nat
    BY <1>2, <2>1
  <2> QED
    BY <2>2, <2>3
<1> HIDE DEF other, zero
<1>6. CASE med2 = Null
  <2>1. p = [below |-> {}, above |-> {}, leader |-> Null]
    BY <1>1, <1>6
  <2>2. p \in [below : SUBSET Nat, above : SUBSET Nat, leader : Nat \cup {Null}]
    BY <2>1
  <2> QED
    BY <2>1, <2>2, RequestsAssumption
<1>7. CASE med2 # Null
  <2>1. p = [below |-> below, above |-> above, leader |-> leader]
    BY <1>1, <1>7
  <2>2. counted # {}
    BY <1>7, FS_EmptySet DEF Median2
  <2>3. PICK x \in counted, y \in counted : med2 = other[x] + other[y]
    <3>1. \A i \in counted : other[i] \in Int
      BY <1>3, <1>4
    <3> HIDE DEF counted
    <3> QED
      BY <1>5, <2>2, <3>1, MedianBetween
  <2>4. \E i \in valued : Best(i)
    <3> DEFINE v == [i \in valued |-> IF HigherIsBetter(c.outcomeKpi) THEN -other[i] ELSE other[i]]
    <3>1. \A i \in valued : v[i] \in Int
      BY <1>3
    <3>2. valued # {}
      BY <1>4, <2>2
    <3>3. PICK n \in valued : \A m \in valued : v[n] < v[m] \/ (v[n] = v[m] /\ n <= m)
      <4> HIDE DEF v, valued
      <4> QED
        BY <1>5, <3>1, <3>2, LeastInOrder
    <3> HIDE DEF valued
    <3>4. Best(n)
      BY <1>3, <3>3
    <3> QED
      BY <3>4
  <2>5. leader \in valued /\ Best(leader)
    <3> HIDE DEF Best, valued
    <3> QED
      BY <2>4
  <2> HIDE DEF leader
  <2>6. /\ other[leader] \in Int /\ other[x] \in Int /\ other[y] \in Int
        /\ Better(other[leader], other[x]) \/ other[leader] = other[x]
        /\ Better(other[leader], other[y]) \/ other[leader] = other[y]
    BY <1>3, <1>4, <2>3, <2>5
  <2> HIDE DEF valued, counted
  <2>7. ~Better(med2, 2 * other[leader])
    <3> HIDE DEF med2
    <3> QED
      BY <2>3, <2>6
  <2>8. leader \in below => list[leader].other.zero
    BY <2>7 DEF zero
  <2>9. below \subseteq Nat /\ above \subseteq Nat /\ leader \in Nat
    <3>1. zero \subseteq Nat
      BY <1>2, <1>4
    <3>2. below \subseteq zero \cup valued /\ above \subseteq valued
      <4> HIDE DEF Better, med2
      <4> QED
        OBVIOUS
    <3> HIDE DEF below, above
    <3> QED
      BY <1>5, <2>5, <3>1, <3>2
  <2>10. p # Null
    <3> HIDE DEF below, above
    <3>1. p \in [below : SUBSET Nat, above : SUBSET Nat, leader : Nat \cup {Null}]
      BY <2>1, <2>9
    <3> QED
      BY <3>1, RequestsAssumption
  <2> HIDE DEF below, above
  <2>11. p.leader = leader /\ p.below = below
    BY <2>1
  <2> QED
    BY <2>8, <2>10, <2>11
<1> QED
  BY <1>6, <1>7

LEMMA BuiltOnALeader ==
  ASSUME NEW m, NEW list, NEW a, NEW c, Says(m, list, a, c), IsProxyWithOutcome(a, c),
         m.tests[1].ad # Null, m.tests[1].ad \in a.proxy.below
  PROVE  m.tests[1].ad = a.proxy.leader /\ list[a.proxy.leader].other.zero
<1> DEFINE first == FirstTest(a, c)
           p == a.proxy
<1>1. Ads(list) /\ Analyzed(a, list, c) /\ m.tests = NextTests(a, c)
  BY DEF Says
<1>2. m.tests[1] = first
  BY <1>1, TestsAre
<1> DEFINE ranked == a.ranked
<1>3. p = BuildProxyKpi(list, ranked, c) /\ ranked \subseteq 1..Len(list)
      /\ IsProxy(c.kpi) /\ c.outcomeKpi # Null
  BY <1>1 DEF Analyzed, IsProxyWithOutcome
<1> HIDE DEF first, p, ranked
<1>4. p # Null /\ (p.leader \in p.below => list[p.leader].other.zero)
  BY <1>1, <1>3, LeaderIsNotBelow
<1>5. CASE IsProxyOutcomeConflict(a)
  <2>1. first.ad = p.leader
    BY <1>5 DEF first, FirstTest, Test, p
  <2> QED
    BY <1>2, <1>4, <2>1 DEF p
<1>6. CASE ~IsProxyOutcomeConflict(a)
  <2>1. EvidenceLead(a, c) # Null
    BY <1>2, <1>6 DEF first, FirstTest, Test
  <2>2. first.ad = EvidenceLead(a, c)
    BY <1>6, <2>1, FirstTestIs DEF first
  <2>3. EvidenceLead(a, c) = First(a.winners)
    BY DEF EvidenceLead, IsScaleActionSupported
  <2>4. a.winners # <<>> /\ first.ad = Head(a.winners)
    BY <2>1, <2>2, <2>3 DEF First
  <2> QED
    BY <1>2, <1>4, <1>6, <2>4 DEF IsProxyOutcomeConflict, p
<1> QED
  BY <1>5, <1>6

LEMMA ProxyHolds ==
  ASSUME NEW m, NEW list, NEW a, NEW c, Says(m, list, a, c), IsProxyWithOutcome(a, c)
  PROVE  /\ m.decision.action # "budget"
         /\ \A i \in a.ranked : m.status[i] # "scale"
         /\ \A t \in ToSet(m.tests) : t.kind # "raise"
<1> DEFINE title == Head(m.tests).kind
           d == m.decision
<1>1. Ads(list) /\ Analyzed(a, list, c) /\ d = Decide(a, c, title)
      /\ m.status = [i \in a.ranked |-> AdStatus(a, c, i)]
  BY DEF Says
<1>2. Judged(a) \in Nat
  BY <1>1, JudgedIsNumber
<1>3. ~IsScaleActionSupported(a, c)
  BY DEF IsScaleActionSupported
<1> HIDE DEF title, d
<1>4. d.action # "budget" /\ d.reason # "scale"
  BY <1>1, <1>2, <1>3, ScaledBy
<1>5. \A i \in a.ranked : AdStatus(a, c, i) # "scale"
  BY <1>3 DEF AdStatus
<1>6. \A i \in a.ranked : m.status[i] # "scale"
  BY <1>1, <1>5
<1>7. \A t \in ToSet(m.tests) : t.kind = "raise" => d.reason = "scale"
  BY TestsFollow DEF d
<1> QED
  BY <1>4, <1>6, <1>7 DEF d

\* A run on a proxy whose export has an outcome KPI moves no money, and its
\* first test does not build on an ad below the median of that KPI, unless
\* that is an ad without an outcome that leads on it all the same
\* (decision.ts 175-179, 215-219; memo.ts 1488-1690; analysis.ts 529-541).
LEMMA SoundProxy == RunInv => ProxyMovesNoMoney
<1> SUFFICES ASSUME RunInv, Composed, IsProxyWithOutcome(analysis, context) PROVE ProxyMovesNoMoney
  BY DEF ProxyMovesNoMoney
<1>1. Says(memo, ads, analysis, context)
  BY ReportSays
<1>2. /\ memo.decision.action # "budget"
      /\ \A i \in analysis.ranked : memo.status[i] # "scale"
      /\ \A t \in ToSet(memo.tests) : t.kind # "raise"
  BY <1>1, ProxyHolds
<1>3. LET built == memo.tests[1].ad
      IN  built # Null /\ built \in analysis.proxy.below =>
              built = analysis.proxy.leader /\ ads[built].other.zero
  BY <1>1, BuiltOnALeader
<1> QED
  BY <1>2, <1>3 DEF ProxyMovesNoMoney, Decision

THEOREM ProxyAlwaysHeld == Spec => []ProxyMovesNoMoney
  BY Soundness, SoundProxy, PTL

----------------------------------------------------------------------------
(* The registers agree *)

\* The ads a call takes budget from, and how many it holds.
LEMMA DecidedTrims ==
  ASSUME NEW a, NEW c, NEW title, NEW d, d = Decide(a, c, title), Judged(a) \in Nat
  PROVE  IF TakesBudget(d)
         THEN d.from = TrimCandidates(a) /\ d.holds = HoldTotal(a) /\ IsRawCutEligible(a)
         ELSE d.from = <<>>
<1>1. /\ d.reason = Choose(a, c, title).reason /\ d.from = Choose(a, c, title).from
      /\ d.action = Choose(a, c, title).action
      /\ d.holds = IF d.from # <<>> \/ d.reason \in {"shift", "cut"} THEN HoldTotal(a) ELSE 0
  BY DEF Decide, Stated
<1>2. CASE Judged(a) >= MinJudged
  BY <1>1, <1>2, DecisionConstants DEF Choose, Call, InsufficientHold, TakesBudget
<1>3. CASE ~(Judged(a) >= MinJudged)
  BY <1>1, <1>3, DecisionConstants DEF Choose, Call, InsufficientHold, TakesBudget
<1> QED
  BY <1>2, <1>3

\* Every line that takes budget takes it from the trims.
LEMMA LinesAgree ==
  ASSUME NEW list, Ads(list), NEW c, NEW a, Analyzed(a, list, c), NEW d, TakesBudget(d),
         IsRawCutEligible(a), NEW line \in {ReduceLine(a, d), ClientReduceLine(a, c, d)}
  PROVE  /\ line.says = "reduces" /\ line.count = Len(TrimCandidates(a))
         /\ line.spend = Spend(a, TrimCandidates(a))
<1> DEFINE trims == TrimCandidates(a)
<1>1. a.losers # <<>> /\ trims # <<>>
  BY WorstIsTrimmed
<1>2. CASE line = ClientReduceLine(a, c, d)
  BY <1>1, <1>2 DEF ClientReduceLine
<1>3. CASE line = ReduceLine(a, d) /\ HoldTotal(a) > 0
  BY <1>1, <1>3 DEF ReduceLine
<1>4. CASE line = ReduceLine(a, d) /\ ~(HoldTotal(a) > 0)
  <2>1. line.says = "reduces" /\ line.count = Len(a.losers) /\ line.spend = a.belowSpend
    BY <1>1, <1>4 DEF ReduceLine
  <2>2. HoldTotal(a) = 0
    <3>1. HoldTotal(a) \in Nat
      BY SidesCounted
    <3> QED
      BY <1>4, <3>1
  <2>3. Members(trims) = Members(a.losers)
    BY <2>2, SidesCounted
  <2>4. /\ IsList(trims) /\ NoRepeats(trims) /\ IsList(a.losers) /\ NoRepeats(a.losers)
        /\ a.belowSpend = Spend(a, a.losers)
    BY TrimsAre DEF Analyzed
  <2> HIDE DEF trims
  <2>5. Len(trims) = Len(a.losers)
    BY <2>3, <2>4, DistinctLength
  <2>6. ToSet(trims) = ToSet(a.losers)
    BY <2>3, <2>4, MembersOf
  <2>7. Spend(a, trims) = a.belowSpend
    BY <2>4, <2>6 DEF Spend
  <2> QED
    BY <2>1, <2>5, <2>7 DEF trims
<1> QED
  BY <1>2, <1>3, <1>4

\* No line reduces when the call takes nothing.
LEMMA LinesKeep ==
  ASSUME NEW a, NEW c, NEW d, ~TakesBudget(d)
  PROVE  ReduceLine(a, d).says # "reduces" /\ ClientReduceLine(a, c, d).says # "reduces"
<1>1. CASE a.losers = <<>>
  BY <1>1 DEF ReduceLine, ClientReduceLine
<1>2. CASE a.losers # <<>>
  BY <1>2 DEF ReduceLine, ClientReduceLine
<1> QED
  BY <1>1, <1>2

\* An ad that receives budget is named a candidate to scale, and no other.
LEMMA ScaleIsReceiving ==
  ASSUME NEW list, Ads(list), NEW c, c.minOutcome \in IntOrNull, NEW a, Analyzed(a, list, c),
         NEW i \in a.ranked
  PROVE  /\ AdStatus(a, c, i) = "scale" <=>
                IsScaleActionSupported(a, c) /\ i \in ToSet(BudgetReceivers(a, c))
         /\ AdStatus(a, c, i) = "hold" <=>
                i \in a.at \cup NearOnes(a)
         /\ i \in Members(TrimCandidates(a)) => AdStatus(a, c, i) \in {"reduce", "maintain"}
<1> DEFINE receivers == IF IsScaleActionSupported(a, c) THEN ToSet(BudgetReceivers(a, c)) ELSE {}
           few == /\ HasOutcome(a.kpi) /\ a.ads[i].conv # Null
                  /\ a.ads[i].conv < ReceiverOutcomeMin(c)
           target == TargetFor(a, c)
           beats == target # Null /\ BeatsTarget(a, c, i)
           near == IsNearMedian(a, i)
           side == Side(a, i)
           verdict == AdStatus(a, c, i)
<1>1. verdict = CASE side = "at" \/ near -> "hold"
                 [] side = "above" -> IF few THEN "wait"
                                      ELSE IF i \in receivers THEN "scale"
                                      ELSE IF target # Null /\ ~beats THEN "not_profitable"
                                      ELSE "keep"
                 [] OTHER -> IF beats THEN "maintain" ELSE "reduce"
  BY DEF AdStatus
<1>2. near => side = "below"
  BY NearIsBelow
<1>3. i \in receivers => side = "above" /\ ~few
  <2> SUFFICES ASSUME i \in receivers PROVE side = "above" /\ ~few
    OBVIOUS
  <2>1. i \in Members(BudgetReceivers(a, c))
    BY ReceiversQualify, MembersOf
  <2>2. Qualified(a, c, i)
    BY <2>1, ReceiversQualify
  <2>3. side = "above" /\ PassesReceiverFloor(a, c, i)
    BY <2>2 DEF Qualified, OnSide
  <2>4. ReceiverOutcomeMin(c) \in Int
    BY BarNumbers
  <2>5. a.ads[i].conv \in IntOrNull
    BY DEF Analyzed, Ads, IsAd
  <2> QED
    BY <2>3, <2>4, <2>5 DEF PassesReceiverFloor, IntOrNull
<1>4. side = "at" <=> i \in a.at
  BY DEF Analyzed, OnSide
<1>5. i \in Members(TrimCandidates(a)) => side = "below" /\ ~near
  BY TrimsAre DEF OnSide
<1>6. i \in NearOnes(a) <=> near
  BY <1>2 DEF OnSide, NearOnes
<1>7. i \in receivers <=> IsScaleActionSupported(a, c) /\ i \in ToSet(BudgetReceivers(a, c))
  OBVIOUS
<1> HIDE DEF receivers, few, target, beats, near, side, verdict
<1>8. CASE side = "at" \/ near
  <2>1. verdict = "hold"
    BY <1>1, <1>2, <1>8
  <2> QED
    BY <1>2, <1>3, <1>4, <1>5, <1>6, <1>7, <1>8, <2>1 DEF verdict
<1>9. CASE ~(side = "at" \/ near) /\ side = "above"
  <2>1. verdict \in {"wait", "scale", "not_profitable", "keep"}
    BY <1>1, <1>9
  <2>2. verdict = "scale" <=> i \in receivers
    BY <1>1, <1>3, <1>9
  <2> QED
    BY <1>4, <1>5, <1>6, <1>7, <1>9, <2>1, <2>2 DEF verdict
<1>10. CASE ~(side = "at" \/ near) /\ side # "above"
  <2>1. verdict \in {"maintain", "reduce"}
    BY <1>1, <1>10
  <2> QED
    BY <1>3, <1>4, <1>5, <1>6, <1>7, <1>10, <2>1 DEF verdict
<1> QED
  BY <1>8, <1>9, <1>10
\* The money of a report, line by line and against its call.
LEMMA RegistersOf ==
  ASSUME NEW m, NEW list, NEW a, NEW c, Says(m, list, a, c)
  PROVE  LET d == m.decision
             lines == {m.tldr.reduce, m.client.reduce, m.losers.instruct, m.losers.client}
         IN  IF TakesBudget(d)
             THEN /\ d.from # <<>> /\ d.holds = HoldTotal(a) /\ d.from = TrimCandidates(a)
                  /\ \A line \in lines : /\ line.says = "reduces" /\ line.count = Len(d.from)
                                          /\ line.spend = Spend(a, d.from)
             ELSE d.from = <<>> /\ \A line \in lines : line.says # "reduces"
<1> DEFINE d == m.decision
           lines == {m.tldr.reduce, m.client.reduce, m.losers.instruct, m.losers.client}
<1>1. Ads(list) /\ Analyzed(a, list, c) /\ d = Decide(a, c, Head(m.tests).kind)
  BY DEF Says
<1>2. \A line \in lines : line \in {ReduceLine(a, d), ClientReduceLine(a, c, d)}
  BY DEF Says, Tldr, ClientSummary, LosersSection
<1>3. Judged(a) \in Nat
  BY <1>1, JudgedIsNumber
<1> HIDE DEF d, lines
<1>4. CASE TakesBudget(d)
  <2>1. d.from = TrimCandidates(a) /\ d.holds = HoldTotal(a) /\ IsRawCutEligible(a)
    BY <1>1, <1>3, <1>4, DecidedTrims
  <2>2. d.from # <<>>
    BY <1>1, <2>1, WorstIsTrimmed
  <2>3. \A line \in lines : /\ line.says = "reduces" /\ line.count = Len(d.from)
                            /\ line.spend = Spend(a, d.from)
    BY <1>1, <1>2, <1>4, <2>1, LinesAgree
  <2> QED
    BY <1>4, <2>1, <2>2, <2>3 DEF d, lines
<1>5. CASE ~TakesBudget(d)
  <2>1. d.from = <<>>
    BY <1>1, <1>3, <1>5, DecidedTrims
  <2>2. \A line \in lines : line.says # "reduces"
    BY <1>2, <1>5, LinesKeep
  <2> QED
    BY <1>5, <2>1, <2>2 DEF d, lines
<1> QED
  BY <1>4, <1>5

\* The card, the summaries, the losers list and the table take budget from the
\* same ads, hold as many, and raise the receivers alone (memo.ts 587-785,
\* 2219-2292; decision.ts 346-404, 1560-1640).
LEMMA SoundRegisters == RunInv => RegistersAgree
<1> SUFFICES ASSUME RunInv, Composed PROVE RegistersAgree
  BY DEF RegistersAgree
<1> DEFINE d == memo.decision
           lines == {memo.tldr.reduce, memo.client.reduce, memo.losers.instruct, memo.losers.client}
           near == NearOnes(analysis)
<1>1. Says(memo, ads, analysis, context)
  BY ReportSays
<1>2. /\ Ads(ads) /\ Analyzed(analysis, ads, context) /\ context.minOutcome \in IntOrNull
      /\ d = Decide(analysis, context, Head(memo.tests).kind)
      /\ memo.status = [i \in analysis.ranked |-> AdStatus(analysis, context, i)]
  BY <1>1 DEF Says
<1>3. Judged(analysis) \in Nat
  BY <1>2, JudgedIsNumber
<1>4. IF TakesBudget(d)
      THEN /\ d.from # <<>> /\ d.holds = HoldTotal(analysis) /\ d.from = TrimCandidates(analysis)
           /\ \A line \in lines : /\ line.says = "reduces" /\ line.count = Len(d.from)
                                   /\ line.spend = Spend(analysis, d.from)
      ELSE d.from = <<>> /\ \A line \in lines : line.says # "reduces"
  BY <1>1, RegistersOf
<1>5. d.to = IF IsScaleActionSupported(analysis, context)
             THEN BudgetReceivers(analysis, context) ELSE <<>>
  BY <1>2, <1>3, ScaledBy
<1>6. \A i \in analysis.ranked :
          /\ memo.status[i] = "scale" <=> /\ IsScaleActionSupported(analysis, context)
                                          /\ i \in ToSet(BudgetReceivers(analysis, context))
          /\ memo.status[i] = "hold" <=> i \in analysis.at \cup near
          /\ i \in Members(TrimCandidates(analysis)) => memo.status[i] \in {"reduce", "maintain"}
  BY <1>2, ScaleIsReceiving
<1>7. analysis.at \cup near \subseteq analysis.ranked
  BY <1>2 DEF Analyzed, OnSide, NearOnes
<1>8. \A i \in ToSet(d.to) : i \in analysis.ranked
  <2>1. ASSUME NEW i \in ToSet(d.to) PROVE i \in analysis.ranked
    <3>1. i \in Members(BudgetReceivers(analysis, context))
      BY <1>2, <2>1, DecidedReceivers
    <3> QED
      BY <1>2, <3>1, ReceiversQualify DEF Qualified, OnSide
  <2> QED
    BY <2>1
<1>9. /\ IsList(TrimCandidates(analysis)) /\ Members(TrimCandidates(analysis)) \subseteq analysis.ranked
      /\ HoldTotal(analysis) = Cardinality(analysis.at \cup near)
      /\ HoldTotal(analysis) + Len(TrimCandidates(analysis)) + Len(analysis.winners)
             = Cardinality(analysis.ranked)
  <2>1. /\ IsList(TrimCandidates(analysis))
        /\ Members(TrimCandidates(analysis))
               = {i \in OnSide(analysis, "below") : ~IsNearMedian(analysis, i)}
    BY <1>2, TrimsAre
  <2>2. OnSide(analysis, "below") \subseteq analysis.ranked
    BY DEF OnSide
  <2>3. /\ HoldTotal(analysis) = Cardinality(analysis.at \cup near)
        /\ HoldTotal(analysis) + Len(TrimCandidates(analysis)) + Len(analysis.winners)
               = Cardinality(analysis.ranked)
    BY <1>2, SidesCounted
  <2> QED
    BY <2>1, <2>2, <2>3
<1> HIDE DEF d, lines, near
<1>10. {i \in analysis.ranked : memo.status[i] = "scale"} = ToSet(d.to)
  <2>1. CASE IsScaleActionSupported(analysis, context)
    BY <1>5, <1>6, <1>8, <2>1
  <2>2. CASE ~IsScaleActionSupported(analysis, context)
    <3>1. ToSet(d.to) = {}
      BY <1>5, <2>2 DEF ToSet
    <3> QED
      BY <1>6, <2>2, <3>1
  <2> QED
    BY <2>1, <2>2
<1>11. \A i \in ToSet(d.from) : memo.status[i] \in {"reduce", "maintain"}
  <2>1. CASE TakesBudget(d)
    BY <1>4, <1>6, <1>9, <2>1, MembersOf
  <2>2. CASE ~TakesBudget(d)
    BY <1>4, <2>2 DEF ToSet
  <2> QED
    BY <2>1, <2>2
<1>12. {i \in analysis.ranked : memo.status[i] = "hold"} = analysis.at \cup near
  BY <1>6, <1>7
<1>13. TakesBudget(d) =>
           /\ d.holds = Cardinality({i \in analysis.ranked : memo.status[i] = "hold"})
           /\ d.holds + Len(d.from) + Len(analysis.winners) = Cardinality(analysis.ranked)
  BY <1>4, <1>9, <1>12
<1> DEFINE told == {[count |-> r.count, spend |-> r.spend] : r \in lines}
           says == {memo.tldr.reduce.says, memo.client.reduce.says, memo.losers.instruct.says}
<1>14. says \subseteq {r.says : r \in lines} /\ says # {} /\ lines # {}
  BY DEF lines
<1>15. CASE TakesBudget(d)
  <2>1. told = {[count |-> Len(d.from), spend |-> Spend(analysis, d.from)]}
    BY <1>4, <1>14, <1>15
  <2>2. says = {"reduces"}
    <3>1. \A s \in says : s = "reduces"
      BY <1>4, <1>14, <1>15
    <3> QED
      BY <1>14, <3>1
  <2> QED
    BY <1>4, <1>10, <1>11, <1>13, <1>15, <2>1, <2>2
       DEF RegistersAgree, Composed, Decision, Receivers, Trims, d, lines
<1>16. CASE ~TakesBudget(d)
  <2>1. "reduces" \notin says
    BY <1>4, <1>14, <1>16
  <2> QED
    BY <1>4, <1>10, <1>11, <1>16, <2>1
       DEF RegistersAgree, Composed, Decision, Receivers, Trims, d, lines
<1> QED
  BY <1>15, <1>16

THEOREM RegistersAlwaysAgree == Spec => []RegistersAgree
  BY Soundness, SoundRegisters, PTL

----------------------------------------------------------------------------
(* The extremes speak for all *)

\* Of two gaps that are no less, as shares of their benchmarks.
LEMMA GapsInShares ==
  ASSUME NEW a, NEW split \in BOOLEAN, NEW S, Ranking(Gaps(a, split), S),
         NEW i \in S, NEW j \in S, a.bench2[i] # 0, a.bench2[j] # 0,
         split \/ a.bench2[i] = a.bench2[j],
         ~GapLess(Gaps(a, split), j, i)
  PROVE  /\ Magnitude(a.bench2[i]) \in Nat \ {0} /\ Magnitude(a.bench2[j]) \in Nat \ {0}
         /\ a.delta2[i] \in Int /\ a.delta2[j] \in Int
         /\ a.delta2[i] * Magnitude(a.bench2[j]) <= a.delta2[j] * Magnitude(a.bench2[i])
<1> DEFINE x == a.delta2[i]
           y == a.delta2[j]
           p == Magnitude(a.bench2[i])
           q == Magnitude(a.bench2[j])
<1>1. a.bench2[i] \in Int /\ a.bench2[j] \in Int /\ x \in Int /\ y \in Int
  BY DEF Ranking, Gaps
<1>2. p \in Nat \ {0} /\ q \in Nat \ {0}
  BY <1>1 DEF Magnitude
<1>3. split => GapNum(Gaps(a, split), i) = x /\ GapNum(Gaps(a, split), j) = y
               /\ GapDen(Gaps(a, split), i) = p /\ GapDen(Gaps(a, split), j) = q
  BY DEF GapNum, GapDen, Gaps
<1>4. ~split => GapNum(Gaps(a, split), i) = x /\ GapNum(Gaps(a, split), j) = y
                /\ GapDen(Gaps(a, split), i) = 1 /\ GapDen(Gaps(a, split), j) = 1 /\ p = q
  BY DEF GapNum, GapDen, Gaps
<1> HIDE DEF x, y, p, q
<1>5. CASE split
  <2>1. ~(y * p < x * q)
    BY <1>3, <1>5 DEF GapLess
  <2> QED
    BY <1>1, <1>2, <2>1 DEF x, y, p, q
<1>6. CASE ~split
  <2>1. ~(y * 1 < x * 1) /\ p = q
    BY <1>4, <1>6 DEF GapLess
  <2>2. x <= y
    BY <1>1, <2>1
  <2>3. x * p <= y * p
    BY <1>1, <1>2, <2>2
  <2> QED
    BY <1>1, <1>2, <2>1, <2>3 DEF x, y, p, q
<1> QED
  BY <1>5, <1>6

\* The numbers of the judged ads.
LEMMA AnalysisRanks ==
  ASSUME NEW list, Ads(list), NEW c, NEW a, Analyzed(a, list, c), NEW split
  PROVE  Ranking(Gaps(a, split), a.ranked)
<1>1. a.ads = list /\ a.ranked \subseteq 1..Len(list)
      /\ \A i \in a.ranked : a.bench2[i] \in Int /\ a.delta2[i] \in Int
  BY DEF Analyzed
<1>2. \A i \in a.ranked : list[i].zero \in BOOLEAN /\ list[i].spend \in Int
  BY <1>1 DEF Ads, IsAd
<1> QED
  BY <1>1, <1>2 DEF Ranking, Gaps

\* No winner is further ahead than the first.
LEMMA LeaderSpeaks ==
  ASSUME NEW list, Ads(list), NEW c, NEW a, Analyzed(a, list, c), NEW p \in Nat,
         NEW i \in OnSide(a, "above"), HasPct(a, i)
  PROVE  /\ a.winners # <<>>
         /\ AheadBy(a, i, p) => AheadBy(a, Head(a.winners), p)
         /\ NotAheadBy(a, Head(a.winners), p) => NotAheadBy(a, i, p)
<1> DEFINE h == Head(a.winners)
<1>1. IsList(a.winners) /\ Members(a.winners) = OnSide(a, "above")
  BY DEF Analyzed
<1>2. a.winners # <<>> /\ h \in OnSide(a, "above")
  BY <1>1, LeadsItself
<1>3. PICK split \in BOOLEAN : Led(a, split)
  BY DEF Analyzed
<1>4. ~GapLess(Gaps(a, split), h, i)
  BY <1>1, <1>3 DEF Led
<1>5. split \/ a.bench2[i] = a.bench2[h]
  BY <1>2, <1>3 DEF Led, OnSide
<1> HIDE DEF h
<1>6. /\ i \in a.ranked /\ h \in a.ranked /\ a.bench2[i] # 0
      /\ ~a.ads[h].zero /\ a.delta2[i] > 0
  BY <1>2 DEF OnSide, Side, HasPct
<1>7. Ranking(Gaps(a, split), a.ranked)
  BY AnalysisRanks
<1>8. a.bench2[h] # 0
  <2> SUFFICES ASSUME a.bench2[h] = 0 PROVE FALSE
    OBVIOUS
  <2>1. split
    BY <1>5, <1>6
  <2>2. /\ GapNum(Gaps(a, split), h) = 0 /\ GapDen(Gaps(a, split), h) = 1
        /\ GapNum(Gaps(a, split), i) = a.delta2[i]
    BY <1>6, <2>1 DEF GapNum, GapDen, Gaps
  <2>3. GapDen(Gaps(a, split), i) \in Int /\ a.delta2[i] \in Int
    BY <1>6, <1>7, GapsAreQuotients DEF Ranking, Gaps
  <2> QED
    BY <1>4, <1>6, <2>2, <2>3 DEF GapLess
<1> DEFINE x == a.delta2[i]
           y == a.delta2[h]
           d == Magnitude(a.bench2[i])
           b == Magnitude(a.bench2[h])
<1>9. /\ d \in Nat \ {0} /\ b \in Nat \ {0} /\ x \in Int /\ y \in Int
      /\ x * b <= y * d
  BY <1>4, <1>5, <1>6, <1>7, <1>8, GapsInShares
<1> HIDE DEF x, y, d, b
<1>10. /\ 100 * x >= p * d => 100 * y >= p * b
       /\ 100 * y <= p * b => 100 * x <= p * d
  BY <1>9, FurtherAhead
<1> QED
  BY <1>2, <1>6, <1>8, <1>10 DEF AheadBy, NotAheadBy, HasPct, x, y, d, b, h

\* No loser is further behind than the first, and none is without an outcome
\* unless the first is.
LEMMA LastSpeaks ==
  ASSUME NEW list, Ads(list), NEW c, NEW a, Analyzed(a, list, c), NEW p \in Nat,
         NEW i \in OnSide(a, "below")
  PROVE  /\ a.losers # <<>>
         /\ a.ads[i].zero => a.ads[Head(a.losers)].zero
         /\ BehindBy(a, i, p) => a.ads[Head(a.losers)].zero \/ BehindBy(a, Head(a.losers), p)
         /\ HasPct(a, i) /\ NotBehindBy(a, Head(a.losers), p) => NotBehindBy(a, i, p)
<1> DEFINE h == Head(a.losers)
<1>1. IsList(a.losers) /\ Members(a.losers) = OnSide(a, "below")
  BY DEF Analyzed
<1>2. a.losers # <<>> /\ h \in OnSide(a, "below")
  BY <1>1, LeadsItself
<1>3. PICK split \in BOOLEAN : Led(a, split)
  BY DEF Analyzed
<1>4. (a.ads[i].zero => a.ads[h].zero) /\ (a.ads[h].zero \/ ~GapLess(Gaps(a, split), i, h))
  BY <1>1, <1>3 DEF Led
<1>5. split \/ a.bench2[h] = a.bench2[i]
  BY <1>2, <1>3 DEF Led, OnSide
<1> HIDE DEF h
<1>6. ASSUME HasPct(a, i), ~a.ads[h].zero
      PROVE  /\ BehindBy(a, i, p) => BehindBy(a, h, p)
             /\ NotBehindBy(a, h, p) => NotBehindBy(a, i, p)
  <2>1. /\ i \in a.ranked /\ h \in a.ranked /\ a.bench2[i] # 0
        /\ ~a.ads[h].zero /\ a.delta2[i] < 0
    BY <1>2, <1>6 DEF OnSide, Side, HasPct
  <2>2. Ranking(Gaps(a, split), a.ranked)
    BY AnalysisRanks
  <2>3. a.bench2[h] # 0
    <3> SUFFICES ASSUME a.bench2[h] = 0 PROVE FALSE
      OBVIOUS
    <3>1. split
      BY <1>5, <2>1
    <3>2. /\ GapNum(Gaps(a, split), h) = 0 /\ GapDen(Gaps(a, split), h) = 1
          /\ GapNum(Gaps(a, split), i) = a.delta2[i]
      BY <2>1, <3>1 DEF GapNum, GapDen, Gaps
    <3>3. GapDen(Gaps(a, split), i) \in Int /\ a.delta2[i] \in Int
      BY <2>1, <2>2, GapsAreQuotients DEF Ranking, Gaps
    <3> QED
      BY <1>4, <1>6, <2>1, <3>2, <3>3 DEF GapLess
  <2> DEFINE x == a.delta2[h]
             y == a.delta2[i]
             d == Magnitude(a.bench2[h])
             b == Magnitude(a.bench2[i])
             minus == -p
  <2>4. /\ d \in Nat \ {0} /\ b \in Nat \ {0} /\ x \in Int /\ y \in Int
        /\ x * b <= y * d
    BY <1>4, <1>5, <1>6, <2>1, <2>2, <2>3, GapsInShares
  <2>5. minus \in Int /\ minus * d = -(p * d) /\ minus * b = -(p * b)
    BY <2>4
  <2> HIDE DEF x, y, d, b, minus
  <2>6. /\ 100 * x >= minus * d => 100 * y >= minus * b
        /\ 100 * y <= minus * b => 100 * x <= minus * d
    BY <2>4, <2>5, FurtherAhead
  <2>7. /\ BehindBy(a, i, p) <=> 100 * y <= minus * b
        /\ BehindBy(a, h, p) <=> 100 * x <= minus * d
        /\ NotBehindBy(a, i, p) <=> 100 * y >= minus * b
        /\ NotBehindBy(a, h, p) <=> 100 * x >= minus * d
    BY <1>6, <2>3, <2>5 DEF BehindBy, NotBehindBy, HasPct, x, y, d, b
  <2> QED
    BY <2>6, <2>7
<1>7. BehindBy(a, i, p) => HasPct(a, i)
  BY DEF BehindBy
<1>8. NotBehindBy(a, h, p) => ~a.ads[h].zero
  BY DEF NotBehindBy, HasPct
<1> QED
  BY <1>2, <1>4, <1>6, <1>7, <1>8 DEF h

\* What is a share of its benchmark off it is on that side of it.
LEMMA FarIsOnASide ==
  ASSUME NEW list, NEW c, NEW a, Analyzed(a, list, c), NEW p \in Nat \ {0}, NEW i \in a.ranked
  PROVE  /\ AheadBy(a, i, p) => i \in OnSide(a, "above")
         /\ BehindBy(a, i, p) => i \in OnSide(a, "below")
<1> SUFFICES ASSUME HasPct(a, i)
             PROVE  /\ AheadBy(a, i, p) => i \in OnSide(a, "above")
                    /\ BehindBy(a, i, p) => i \in OnSide(a, "below")
  BY DEF AheadBy, BehindBy
<1> DEFINE b == Magnitude(a.bench2[i])
           m == p * b
<1>1. a.bench2[i] \in Int /\ a.delta2[i] \in Int /\ a.bench2[i] # 0 /\ ~a.ads[i].zero
  BY DEF Analyzed, HasPct
<1>2. b \in Nat \ {0}
  BY <1>1 DEF Magnitude
<1>3. m \in Nat \ {0}
  <2> HIDE DEF b
  <2> QED
    BY <1>2
<1>4. /\ AheadBy(a, i, p) => 100 * a.delta2[i] >= m
      /\ BehindBy(a, i, p) => 100 * a.delta2[i] <= -m
  BY DEF AheadBy, BehindBy
<1> HIDE DEF m, b
<1>5. /\ AheadBy(a, i, p) => a.delta2[i] > 0
      /\ BehindBy(a, i, p) => a.delta2[i] < 0
  BY <1>1, <1>3, <1>4
<1> QED
  BY <1>1, <1>5 DEF OnSide, Side

\* What the first winner does not clear no judged ad does.
LEMMA NoneClears ==
  ASSUME NEW list, Ads(list), NEW c, NEW a, Analyzed(a, list, c), ~RawScaleEligible(a),
         NEW i \in a.ranked
  PROVE  ~AheadBy(a, i, ScalePct)
<1> SUFFICES ASSUME AheadBy(a, i, ScalePct) PROVE FALSE
  OBVIOUS
<1>1. ScalePct \in Nat \ {0} /\ ScalePct \in Nat
  BY DecisionConstants
<1>2. i \in OnSide(a, "above")
  BY <1>1, FarIsOnASide
<1>3. HasPct(a, i)
  BY DEF AheadBy
<1>4. a.winners # <<>> /\ AheadBy(a, Head(a.winners), ScalePct)
  BY <1>1, <1>2, <1>3, LeaderSpeaks
<1> QED
  BY <1>4 DEF RawScaleEligible

\* What the first loser does not lack no judged ad does.
LEMMA NoneIsFarBehind ==
  ASSUME NEW list, Ads(list), NEW c, NEW a, Analyzed(a, list, c), ~IsRawCutEligible(a),
         Share(a.belowSpend, a.judgedSpend, CutSharePct), NEW i \in a.ranked
  PROVE  ~list[i].zero /\ ~BehindBy(a, i, ScalePct)
<1> SUFFICES ASSUME list[i].zero \/ BehindBy(a, i, ScalePct) PROVE FALSE
  OBVIOUS
<1>1. ScalePct \in Nat \ {0} /\ ScalePct \in Nat /\ a.ads = list
  BY DecisionConstants DEF Analyzed
<1>2. i \in OnSide(a, "below")
  BY <1>1, FarIsOnASide DEF OnSide, Side
<1>3. /\ a.losers # <<>>
      /\ a.ads[Head(a.losers)].zero \/ BehindBy(a, Head(a.losers), ScalePct)
  BY <1>1, <1>2, LastSpeaks
<1>4. Head(a.losers) # Null
  <2>1. IsList(a.losers) /\ Members(a.losers) = OnSide(a, "below")
    BY DEF Analyzed
  <2>2. Head(a.losers) \in a.ranked
    BY <1>2, <2>1, LeadsItself DEF OnSide
  <2>3. Head(a.losers) \in Nat
    BY <2>2, AdsAreFinite DEF Analyzed
  <2> QED
    BY <2>3, AnalysisConstants
<1> QED
  BY <1>3, <1>4 DEF IsRawCutEligible, First

\* In a field called flat every judged ad off its benchmark is near it.
LEMMA FlatIsFlat ==
  ASSUME NEW list, Ads(list), NEW c, NEW a, Analyzed(a, list, c), FlatField(a),
         NEW i \in a.ranked \ a.at, a.bench2[i] # 0
  PROVE  NotAheadBy(a, i, FlatPct) /\ NotBehindBy(a, i, FlatPct)
<1>1. /\ FlatPct \in Nat /\ a.at = OnSide(a, "at") /\ a.ranked \subseteq 1..Len(list)
      /\ a.bench2[i] \in Int /\ a.delta2[i] \in Int
      /\ IsList(a.winners) /\ Members(a.winners) = OnSide(a, "above")
      /\ IsList(a.losers) /\ Members(a.losers) = OnSide(a, "below")
  BY DecisionConstants DEF Analyzed
<1>2. i \in OnSide(a, "above") \/ i \in OnSide(a, "below")
  BY <1>1 DEF OnSide, Side
<1>3. \A h \in a.ranked : h # Null
  BY <1>1, AdsAreFinite, AnalysisConstants
<1> DEFINE m == FlatPct * Magnitude(a.bench2[i])
<1>4. m \in Nat
  <2>1. Magnitude(a.bench2[i]) \in Nat
    BY <1>1 DEF Magnitude
  <2> QED
    BY <1>1, <2>1
<1> HIDE DEF m
<1>5. CASE i \in OnSide(a, "above")
  <2>1. HasPct(a, i) /\ a.delta2[i] > 0
    BY <1>5 DEF OnSide, Side, HasPct
  <2>2. 100 * a.delta2[i] >= -m
    BY <1>1, <1>4, <2>1
  <2>3. a.winners # <<>> /\ Head(a.winners) \in a.ranked
    BY <1>1, <1>5, LeadsItself DEF OnSide
  <2>4. NotAheadBy(a, Head(a.winners), FlatPct)
    BY <1>3, <2>3 DEF FlatField, First
  <2>5. NotAheadBy(a, i, FlatPct)
    BY <1>1, <1>5, <2>1, <2>4, LeaderSpeaks
  <2> QED
    BY <2>1, <2>2, <2>5 DEF NotBehindBy, m
<1>6. CASE i \in OnSide(a, "below")
  <2>1. a.losers # <<>> /\ Head(a.losers) \in a.ranked
    BY <1>1, <1>6, LeadsItself DEF OnSide
  <2>2. NotBehindBy(a, Head(a.losers), FlatPct)
    BY <1>3, <2>1 DEF FlatField, First
  <2>3. ~a.ads[i].zero
    BY <1>1, <1>6, <2>2, LastSpeaks DEF NotBehindBy, HasPct
  <2>4. HasPct(a, i) /\ a.delta2[i] < 0
    BY <1>6, <2>3 DEF OnSide, Side, HasPct
  <2>5. 100 * a.delta2[i] <= m
    BY <1>1, <1>4, <2>4
  <2>6. NotBehindBy(a, i, FlatPct)
    BY <1>1, <1>6, <2>2, <2>4, LastSpeaks
  <2> QED
    BY <2>4, <2>5, <2>6 DEF NotAheadBy, m
<1> QED
  BY <1>2, <1>5, <1>6

\* What a call says of the field is read off the two extremes.
LEMMA CallReadsExtremes ==
  ASSUME NEW a, NEW c, NEW title, NEW d, d = Decide(a, c, title), Judged(a) \in Nat
  PROVE  /\ d.reason = "flat_performance" => FlatField(a)
         /\ \/ d.reason = "nothing_clears"
            \/ d.move # Null /\ d.move.noRaise = "nothing_clears"
            => ~RawScaleEligible(a)
         /\ Judged(a) >= MinJudged /\ ~TakesBudget(d) /\ ~IsProxyWithOutcome(a, c)
            => ~IsRawCutEligible(a)
<1> DEFINE call == Choose(a, c, title)
<1>1. MinJudged \in Nat /\ Null # "nothing_clears"
  BY DecisionConstants
<1>2. /\ d.reason = call.reason /\ d.action = call.action
      /\ d.move = IF call.action = "budget" THEN MoveFacts(a, c, call) ELSE Null
  BY DEF Decide, Stated
<1>3. MoveFacts(a, c, call).noRaise
          = IF call.reason = "cut" THEN NoReceiverReason(a, c) ELSE Null
  BY DEF MoveFacts
<1>4. /\ TestReason(a, c) # "flat_performance"
      /\ TestReason(a, c) = "nothing_clears" /\ IsProxyWithOutcome(a, c) => ~RawScaleEligible(a)
      /\ TestReason(a, c) = "nothing_clears" /\ ~IsProxyWithOutcome(a, c) => ~ReceiverBlocked(a, c)
      /\ NoReceiverReason(a, c) = "nothing_clears" => ~ReceiverBlocked(a, c)
  BY DEF TestReason, NoReceiverReason, BreakevenBlocked
<1>5. Judged(a) >= MinJudged /\ ~IsProxyWithOutcome(a, c)
      /\ ~IsScaleActionSupported(a, c) /\ ~ReceiverBlocked(a, c) => ~RawScaleEligible(a)
  BY DEF IsScaleActionSupported, ReceiverBlocked
<1>6. CASE ~(Judged(a) >= MinJudged)
  <2>1. call = InsufficientHold
    BY <1>1, <1>6 DEF Choose
  <2> QED
    BY <1>2, <1>6, <2>1 DEF InsufficientHold, Call
<1>7. CASE Judged(a) >= MinJudged
  <2> DEFINE scale == IsScaleActionSupported(a, c)
             cut == IsRawCutEligible(a) /\ ~IsProxyWithOutcome(a, c)
  <2>1. CASE scale /\ cut
    <3>1. call = Call("budget", "shift", TrimCandidates(a), BudgetReceivers(a, c))
      BY <1>7, <2>1 DEF Choose
    <3>2. call.action = "budget" /\ call.reason = "shift"
      BY <3>1 DEF Call
    <3> HIDE DEF call
    <3> QED
      BY <1>2, <1>3, <1>1, <3>2 DEF TakesBudget
  <2>2. CASE scale /\ ~cut
    <3>1. call = Call("budget", "scale", <<>>, BudgetReceivers(a, c))
      BY <1>7, <2>2 DEF Choose
    <3>2. call.action = "budget" /\ call.reason = "scale"
      BY <3>1 DEF Call
    <3> HIDE DEF call
    <3> QED
      BY <1>2, <1>3, <1>1, <2>2, <3>2 DEF TakesBudget
  <2>3. CASE ~scale /\ cut
    <3>1. call = Call("budget", "cut", TrimCandidates(a), <<>>)
      BY <1>7, <2>3 DEF Choose
    <3>2. call.action = "budget" /\ call.reason = "cut"
      BY <3>1 DEF Call
    <3> HIDE DEF call
    <3> QED
      BY <1>2, <1>3, <1>4, <1>5, <1>7, <2>3, <3>2 DEF TakesBudget
  <2>4. CASE ~scale /\ ~cut
    <3>1. call = IF FlatField(a) THEN Call("hold", "flat_performance", <<>>, <<>>)
                 ELSE IF title = Null THEN InsufficientHold
                 ELSE Call("test", TestReason(a, c), <<>>, <<>>)
      BY <1>1, <1>7, <2>4 DEF Choose
    <3>2. /\ call.action # "budget"
          /\ call.reason = "flat_performance" => FlatField(a)
          /\ call.reason = "nothing_clears" => TestReason(a, c) = "nothing_clears"
      BY <1>4, <3>1 DEF Call, InsufficientHold
    <3> HIDE DEF call
    <3> QED
      BY <1>2, <1>4, <1>5, <1>7, <2>4, <3>2
  <2> QED
    BY <2>1, <2>2, <2>3, <2>4
<1> QED
  BY <1>6, <1>7

\* The call looks at the two ends of the sorted lists only, and what it
\* concludes holds of every judged ad: flat, nothing clears, none far behind
\* (decision.ts 185-215, 446-480, 1876-2140; analysis.ts 100-125).
LEMMA SoundExtremes == RunInv => ExtremesSpeakForAll
<1> SUFFICES ASSUME RunInv, Composed PROVE ExtremesSpeakForAll
  BY DEF ExtremesSpeakForAll
<1> DEFINE a == analysis
           d == memo.decision
<1>1. Says(memo, ads, analysis, context)
  BY ReportSays
<1>2. /\ Ads(ads) /\ Analyzed(a, ads, context)
      /\ d = Decide(a, context, Head(memo.tests).kind)
  BY <1>1 DEF Says
<1>3. Judged(a) \in Nat
  BY <1>2, JudgedIsNumber
<1> HIDE DEF a, d
<1>4. /\ d.reason = "flat_performance" => FlatField(a)
      /\ \/ d.reason = "nothing_clears"
         \/ d.move # Null /\ d.move.noRaise = "nothing_clears"
         => ~RawScaleEligible(a)
      /\ Judged(a) >= MinJudged /\ ~TakesBudget(d) /\ ~IsProxyWithOutcome(a, context)
         => ~IsRawCutEligible(a)
  BY <1>2, <1>3, CallReadsExtremes
<1>5. d.reason = "flat_performance" =>
          \A i \in a.ranked \ a.at :
              a.bench2[i] # 0 => NotAheadBy(a, i, FlatPct) /\ NotBehindBy(a, i, FlatPct)
  BY <1>2, <1>4, FlatIsFlat
<1>6. \/ d.reason = "nothing_clears"
      \/ d.move # Null /\ d.move.noRaise = "nothing_clears"
      => \A i \in a.ranked : ~AheadBy(a, i, ScalePct)
  BY <1>2, <1>4, NoneClears
<1>7. /\ Judged(a) >= MinJudged
      /\ ~TakesBudget(d)
      /\ ~IsProxyWithOutcome(a, context)
      /\ Share(a.belowSpend, a.judgedSpend, CutSharePct)
      => \A i \in a.ranked : ~ads[i].zero /\ ~BehindBy(a, i, ScalePct)
  BY <1>2, <1>4, NoneIsFarBehind
<1> QED
  BY <1>5, <1>6, <1>7 DEF ExtremesSpeakForAll, Decision, a, d

THEOREM ExtremesAlwaysSpeak == Spec => []ExtremesSpeakForAll
  BY Soundness, SoundExtremes, PTL

----------------------------------------------------------------------------
(* Every ad is accounted for *)

\* The list of losers and the limits both come to the ads that are not judged.
LEMMA AsideAdds ==
  ASSUME NEW a, Ads(a.ads), GatedAside(a), NEW c, NEW d, NEW l, l = LosersSection(a, c, d)
  PROVE  /\ l.setAside >= 0
         /\ l.setAside + l.noValue + l.thin + l.floor = Len(a.ads) - Judged(a)
         /\ \A x \in AsideCauses : AsideFor(a, x) = AsideCounts(a)[x]
         /\ \A p, q \in SetAsideParts(a) : p.cause \in AsideCauses /\ (p.cause = q.cause => p = q)
         /\ LET n == AsideCounts(a)
            IN  n["no_value"] + n["no_outcome"] + n["too_little_spend"] + n["no_outcome_low_spend"]
                + n["below_your_minimum"] + (IF a.gaps = Null THEN l.thin + l.floor ELSE 0)
                = Len(a.ads) - Judged(a)
<1> DEFINE n == AsideCounts(a)
           thin == Cardinality(a.thin)
           floor == Cardinality(a.floorAside)
           judged == Judged(a)
           lacking == Cardinality(GatedAs(a, "no_kpi_value"))
           poor == Cardinality(GatedAs(a, "below_spend_gate"))
<1>1. /\ thin \in Nat /\ floor \in Nat /\ judged \in Nat /\ lacking \in Nat /\ poor \in Nat
  <2>1. \A gate : Cardinality(GatedAs(a, gate)) \in Nat
    BY GatesPart
  <2> QED
    BY <2>1 DEF GatedAside, Judged
<1>2. Len(a.ads) = judged + thin + floor + lacking + poor
  BY GatesPart
<1>3. l.thin = thin /\ l.floor = floor /\ l.setAside = SpendSetAside(a)
      /\ l.noValue = IF a.gaps = Null THEN 0 ELSE a.gaps.noValue
  BY DEF LosersSection, Count
<1> DEFINE total == n["no_value"] + n["no_outcome"] + n["too_little_spend"]
                    + n["no_outcome_low_spend"] + n["below_your_minimum"]
<1>4. CASE a.gaps = Null
  <2>1. SpendSetAside(a) = lacking + poor
    <3>1. SpendSetAside(a) = Len(a.ads) - judged - floor - thin
      BY <1>4 DEF SpendSetAside, Count, Judged
    <3> HIDE DEF thin, floor, judged, lacking, poor
    <3> QED
      BY <1>1, <1>2, <3>1
  <2>2. TooLittleSpend(a) = lacking + poor
    <3>1. TooLittleSpend(a) = Len(a.ads) - judged - thin - floor
      BY DEF TooLittleSpend
    <3> HIDE DEF thin, floor, judged, lacking, poor
    <3> QED
      BY <1>1, <1>2, <3>1
  <2>3. \A x \in AsideCauses : n[x] = IF x = "too_little_spend" THEN TooLittleSpend(a) ELSE 0
    BY <1>4 DEF AsideCounts
  <2> HIDE DEF n, thin, floor, judged, lacking, poor
  <2>4. \A x \in AsideCauses : n[x] \in Nat
    BY <1>1, <2>2, <2>3
  <2>5. total = lacking + poor
    BY <1>1, <2>2, <2>3 DEF AsideCauses
  <2>6. total + l.thin + l.floor = Len(a.ads) - judged
    BY <1>1, <1>2, <1>3, <2>5
  <2>7. l.setAside + l.noValue + l.thin + l.floor = Len(a.ads) - judged /\ l.setAside >= 0
    BY <1>1, <1>2, <1>3, <1>4, <2>1
  <2>8. total + (IF a.gaps = Null THEN l.thin + l.floor ELSE 0) = Len(a.ads) - judged
    <3> HIDE DEF total
    <3> QED
      BY <1>4, <2>6, <2>5, <1>1, <1>3
  <2>9. SetAsideParts(a) = AsideSaid(n)
    BY PartsAreSaid DEF n
  <2> QED
    BY <2>4, <2>7, <2>8, <2>9, AsideIsCount DEF n, judged
<1>5. CASE a.gaps # Null
  <2> DEFINE noValue == a.gaps.noValue
             noOutcome == a.gaps.zeroOutcome
             belowGate == a.gaps.belowGate
             lowSpend == a.gaps.zeroLowSpend
             belowFloor == a.gaps.belowFloor
  <2>1. /\ noValue \in Nat /\ noOutcome \in 0..noValue /\ belowGate \in Nat /\ lowSpend \in Nat
        /\ belowFloor = floor
        /\ noValue + belowGate + lowSpend = lacking + poor + thin
        /\ (belowGate + lowSpend) - thin \in Nat
        /\ ~HasOutcome(a.kpi) => noOutcome = 0 /\ lowSpend = 0 /\ belowFloor = 0
    BY <1>5, GapsCounted
  <2>2. /\ n["no_value"] = noValue - noOutcome
        /\ n["no_outcome"] = IF HasOutcome(a.kpi) THEN noOutcome ELSE 0
        /\ n["too_little_spend"] = belowGate
        /\ n["no_outcome_low_spend"] = IF HasOutcome(a.kpi) THEN lowSpend ELSE 0
        /\ n["below_your_minimum"] = IF HasOutcome(a.kpi) THEN belowFloor ELSE 0
    BY <1>5 DEF AsideCounts, AsideCauses
  <2>3. SpendSetAside(a) = (belowGate + lowSpend) - thin
    BY <1>5 DEF SpendSetAside, Count
  <2>4. l.noValue = noValue
    BY <1>3, <1>5
  <2> HIDE DEF n, thin, floor, judged, lacking, poor, noValue, noOutcome, belowGate, lowSpend,
           belowFloor
  <2>5. /\ n["no_outcome"] = noOutcome /\ n["no_outcome_low_spend"] = lowSpend
        /\ n["below_your_minimum"] = belowFloor
    BY <2>1, <2>2
  <2>6. \A x \in AsideCauses : n[x] \in Nat
    BY <1>1, <2>1, <2>2, <2>5 DEF AsideCauses
  <2>7. total = noValue + belowGate + lowSpend + floor
    BY <1>1, <2>1, <2>2, <2>5
  <2>8. total = Len(a.ads) - judged
    BY <1>1, <1>2, <2>1, <2>7
  <2>9. l.setAside + l.noValue + l.thin + l.floor = Len(a.ads) - judged /\ l.setAside >= 0
    BY <1>1, <1>2, <1>3, <2>1, <2>3, <2>4
  <2>10. total + (IF a.gaps = Null THEN l.thin + l.floor ELSE 0) = Len(a.ads) - judged
    <3> HIDE DEF total
    <3> QED
      BY <1>5, <2>8, <2>7, <1>1, <2>1
  <2>11. SetAsideParts(a) = AsideSaid(n)
    BY PartsAreSaid DEF n
  <2> QED
    BY <2>6, <2>9, <2>10, <2>11, AsideIsCount DEF n, judged
<1> QED
  BY <1>4, <1>5

LEMMA SoundAside == RunInv => SetAsideAccounted
<1> SUFFICES ASSUME RunInv, Composed PROVE SetAsideAccounted
  BY DEF SetAsideAccounted
<1>1. Says(memo, ads, analysis, context)
  BY ReportSays
<1>2. analysis.ads = ads /\ Ads(ads) /\ GatedAside(analysis)
      /\ memo.losers = LosersSection(analysis, context, memo.decision)
  BY <1>1 DEF Says, Analyzed
<1> DEFINE n == AsideCounts(analysis)
           l == memo.losers
<1>3. /\ l.setAside >= 0
      /\ l.setAside + l.noValue + l.thin + l.floor = Len(ads) - Judged(analysis)
      /\ \A x \in AsideCauses : AsideFor(analysis, x) = n[x]
      /\ \A p, q \in SetAsideParts(analysis) :
             p.cause \in AsideCauses /\ (p.cause = q.cause => p = q)
      /\ n["no_value"] + n["no_outcome"] + n["too_little_spend"] + n["no_outcome_low_spend"]
         + n["below_your_minimum"] + (IF analysis.gaps = Null THEN l.thin + l.floor ELSE 0)
         = Len(ads) - Judged(analysis)
  BY <1>2, AsideAdds
<1> HIDE DEF n
<1>4. /\ AsideFor(analysis, "no_value") = n["no_value"]
      /\ AsideFor(analysis, "no_outcome") = n["no_outcome"]
      /\ AsideFor(analysis, "too_little_spend") = n["too_little_spend"]
      /\ AsideFor(analysis, "no_outcome_low_spend") = n["no_outcome_low_spend"]
      /\ AsideFor(analysis, "below_your_minimum") = n["below_your_minimum"]
  BY <1>3 DEF AsideCauses
<1> QED
  BY <1>3, <1>4 DEF SetAsideAccounted

(* SetAsideAccounted: for any export, thresholds and KPI, each ad is judged *)
(* or set aside once, and the two places that count those set aside agree.  *)
THEOREM SetAsideAlwaysAccounted == Spec => []SetAsideAccounted
  BY Soundness, SoundAside, PTL
=============================================================================
