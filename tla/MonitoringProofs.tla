-------------------------- MODULE MonitoringProofs --------------------------
(***************************************************************************)
(* Proofs about the two components that read pages again and compare what  *)
(* they read: the monitoring on the server (MonitoringEngine) and the      *)
(* watchlist in the browser (Watchlist, PageSignals).                      *)
(*                                                                         *)
(* MonitoringEngine, for any set of competitors and runners, any pages,    *)
(* threshold, interval, cooldowns and fetch results.  Its invariants say   *)
(* what the tables hold.  None is inductive: a table is only as sound as   *)
(* what the checks in flight are about to write into it.  JobSound says    *)
(* what a check in flight knows, whatever other checks, requests and       *)
(* crashes happened since it read its row; RowSound is what one            *)
(* competitor's rows then satisfy.                                         *)
(*                                                                         *)
(* Watchlist, for any pages, any stored list, any number of items, calls   *)
(* and panels.  The items keep their numbers apart whatever happens.       *)
(* While nothing disturbed the panel, a call on its way is of the panel on *)
(* screen, knows the place of its item, and has it to itself: that is what *)
(* guard remembers.                                                        *)
(***************************************************************************)
EXTENDS MonitoringEngine, Watchlist, TLAPS, SequenceTheorems, WellFoundedInduction

(***************************************************************************)
(* What the decisions of CheckPlan guarantee for every page, threshold and *)
(* interval.                                                               *)
(***************************************************************************)
(* The outcome of any fetch result is one of the attempt outcomes.         *)
LEMMA AttemptOutcomeType ==
    ASSUME NEW out \in FetchResults
    PROVE  AttemptOutcome(out) \in AttemptOutcomes
<1>1. CASE out.kind = "refused"
    BY <1>1 DEF AttemptOutcome, AttemptOutcomes
<1>2. CASE out.kind \in {"network_error", "unsupported_encoding"}
    BY <1>2 DEF AttemptOutcome, AttemptOutcomes
<1>3. CASE out.kind = "http_error"
    BY <1>3 DEF AttemptOutcome, AttemptOutcomes
<1>4. CASE out.kind = "success"
    BY <1>4 DEF AttemptOutcome, AttemptOutcomes
<1>5. CASE out.kind \in {"dns_error", "ssrf_blocked", "timeout",
                         "redirect_loop", "too_large", "unsupported_content"}
    BY <1>5 DEF AttemptOutcome, AttemptOutcomes
<1>. QED
    BY <1>1, <1>2, <1>3, <1>4, <1>5 DEF FetchResults

(* An attempt has its type, and one that did not fail brings a page back:  *)
(* runCheckAttempt never reports a good read without signals.              *)
LEMMA AttemptHasPage ==
    ASSUME NEW out \in FetchResults
    PROVE  /\ CheckAttempt(out) \in Attempts
           /\ CheckAttempt(out).outcome \notin FailureOutcomes =>
                  CheckAttempt(out).page # NoPage
<1>1. AttemptPage(out) \in Pages \cup {NoPage}
    BY DEF AttemptPage, FetchResults
<1>2. ASSUME AttemptPage(out) = NoPage
      PROVE  AttemptOutcome(out) \in FailureOutcomes
    <2>1. CASE out.kind = "success"
        BY <1>2, <2>1 DEF AttemptPage, AttemptOutcome, FailureOutcomes,
                          CheckOutcomes, AttemptOutcomes
    <2>2. CASE out.kind # "success"
        <3>1. AttemptOutcome(out) \notin {"success", "partial_parse", "no_change"}
            <4>1. CASE out.kind = "refused"
                BY <4>1 DEF AttemptOutcome
            <4>2. CASE out.kind \in {"network_error", "unsupported_encoding"}
                BY <4>2 DEF AttemptOutcome
            <4>3. CASE out.kind = "http_error"
                BY <4>3 DEF AttemptOutcome
            <4>4. CASE out.kind \in {"dns_error", "ssrf_blocked", "timeout",
                          "redirect_loop", "too_large", "unsupported_content"}
                BY <4>4 DEF AttemptOutcome
            <4>. QED
                BY <2>2, <4>1, <4>2, <4>3, <4>4 DEF FetchResults
        <3>. QED
            BY <3>1, AttemptOutcomeType DEF FailureOutcomes, CheckOutcomes
    <2>. QED
        BY <2>1, <2>2
<1>. QED
    BY <1>1, <1>2, AttemptOutcomeType DEF CheckAttempt, Attempts

(* A plan has its type.                                                    *)
LEMMA PlanType ==
    ASSUME NEW attempt \in Attempts, NEW latest \in Pages \cup {NoPage},
           NEW failures \in Nat
    PROVE  PlanPersistence(attempt, latest, failures) \in Plans
<1>1. attempt.outcome \in CheckOutcomes /\ "no_change" \in CheckOutcomes
    BY DEF Attempts, CheckOutcomes
<1>2. failures + 1 \in Nat /\ (failures + 1 >= Threshold) \in BOOLEAN
    OBVIOUS
<1>3. CASE attempt.outcome \notin FailureOutcomes /\ attempt.page # NoPage
    BY <1>1, <1>3 DEF PlanPersistence, Plans
<1>4. CASE ~(attempt.outcome \notin FailureOutcomes /\ attempt.page # NoPage)
    BY <1>1, <1>2, <1>4 DEF PlanPersistence, Plans
<1>. QED
    BY <1>3, <1>4

(* The row a check writes has its type.                                    *)
LEMMA UpdateType ==
    ASSUME NEW rw \in Rows, NEW plan \in Plans, NEW at \in Nat,
           NEW due \in Nat, NEW snap \in Nat
    PROVE  CompetitorUpdate(rw, plan, at, due, snap) \in Rows
BY DEF CompetitorUpdate, Rows, Plans

(* A due date is a time.                                                   *)
LEMMA DueType ==
    ASSUME NEW at \in Nat, NEW due \in NextCheckTimes(at)
    PROVE  due \in Nat
BY TimeAssumption DEF NextCheckTimes

-----------------------------------------------------------------------------

(* A failing plan adds one to the streak the check started from and pauses *)
(* exactly at the threshold; only a good one inserts a snapshot.           *)
PlanSound(plan, failures) ==
    /\ plan.insertSnapshot => plan.countsAsSuccess
    /\ plan.countsAsSuccess => plan.eventOutcome \notin FailureOutcomes
    /\ ~plan.countsAsSuccess =>
          /\ plan.eventOutcome \in FailureOutcomes
          /\ plan.newFailures = failures + 1
          /\ plan.autoPause = (plan.newFailures >= Threshold)

(* A check in flight works on a page that has been added; its streak is    *)
(* not beyond the failures persisted since; a good attempt has a page; and *)
(* a check about to record a success finds a snapshot stored.              *)
JobSound(j, ph, fl, sn) ==
    j.pc # "idle" =>
        /\ j.comp \in Competitors
        /\ ph[j.comp] # "unborn"
        /\ j.failures <= fl[j.comp]
        /\ j.pc \in {"fetch", "refetch", "latest", "insert"} => j.snap = 0
        /\ j.pc = "latest" =>
              (j.attempt.outcome \notin FailureOutcomes => j.attempt.page # NoPage)
        /\ j.pc \in {"insert", "update"} => PlanSound(j.plan, j.failures)
        /\ j.pc = "insert" => j.plan.insertSnapshot /\ j.attempt.page \in Pages
        /\ j.pc = "update" /\ ph[j.comp] = "live" =>
              /\ j.plan.countsAsSuccess => Len(sn[j.comp]) > 0
              /\ j.snap <= Len(sn[j.comp])

(* What a competitor's rows satisfy: rw its row, ph its phase, sn and ev   *)
(* its snapshots and events, fl the failures persisted for it.             *)
RowSound(rw, ph, sn, ev, fl) ==
    /\ rw.failures <= fl
    /\ rw.paused => fl >= Threshold
    /\ rw.failures > 0 => rw.lastOutcome \in FailureOutcomes
    /\ rw.lastSuccessAt # Never => Len(sn) > 0
    /\ rw.lastSuccessSnap # 0 => rw.lastSuccessAt # Never
    /\ rw.lastSuccessSnap <= Len(sn)
    /\ ph # "live" => sn = <<>> /\ ev = 0 /\ rw = NewRow(0)

JobsSound == \A r \in Runners : JobSound(job[r], phase, failed, snaps)

RowsSound == \A c \in Competitors :
    RowSound(row[c], phase[c], snaps[c], events[c], failed[c])

IInv == TypeOK /\ JobsSound /\ RowsSound

----------------------------------------------------------------------------
(* Types.                                                                  *)

LEMMA NewRowType ==
    ASSUME NEW t \in Nat
    PROVE  NewRow(t) \in Rows
BY TimeAssumption DEF NewRow, Rows

LEMMA NoJobType == NoJob \in Jobs
<1>1. NoAttempt \in Attempts
    BY DEF NoAttempt, Attempts, AttemptOutcomes
<1>2. NoPlan \in Plans
    BY DEF NoPlan, Plans, CheckOutcomes, AttemptOutcomes
<1>. QED
    BY <1>1, <1>2 DEF NoJob, Jobs

LEMMA JobForType ==
    ASSUME TypeOK, NEW c \in Competitors
    PROVE  JobFor(c) \in Jobs
<1>1. row[c].failures \in Nat
    BY DEF TypeOK, Rows
<1>. QED
    BY <1>1, NoJobType DEF JobFor, Jobs, Steps

LEMMA LatestPageType ==
    ASSUME TypeOK, NEW c \in Competitors
    PROVE  LatestPage(c) \in Pages \cup {NoPage}
<1>1. snaps[c] \in Seq(Pages)
    BY DEF TypeOK
<1>2. CASE snaps[c] # <<>>
    BY <1>1, <1>2, EmptySeq, ElementOfSeq DEF LatestPage
<1>. QED
    BY <1>2 DEF LatestPage

(* What a sound check needs for the steps it takes.                        *)
LEMMA BusyJob ==
    ASSUME IInv, NEW r \in Runners, job[r].pc # "idle"
    PROVE  /\ job[r] \in Jobs
           /\ job[r].comp \in Competitors
           /\ phase[job[r].comp] # "unborn"
           /\ job[r].pc = "insert" => job[r].attempt.page \in Pages
BY DEF IInv, TypeOK, JobsSound, JobSound

LEMMA TypeInit == Init => TypeOK
BY NewRowType, NoJobType, EmptySeq DEF Init, TypeOK

(* Every step preserves the types.                                         *)
LEMMA TypeStep == IInv /\ [Next]_vars => TypeOK'
<1>. SUFFICES ASSUME IInv, [Next]_vars PROVE TypeOK'
    OBVIOUS
<1>0. TypeOK
    BY DEF IInv
<1>1. ASSUME NEW c \in Competitors, AddCompetitor(c) PROVE TypeOK'
    BY <1>0, <1>1, NewRowType DEF AddCompetitor, TypeOK
<1>2. ASSUME NEW c \in Competitors, RemoveCompetitor(c) PROVE TypeOK'
    <2>1. NewRow(0) \in Rows /\ <<>> \in Seq(Pages)
        BY NewRowType, EmptySeq
    <2>. QED
        BY <1>0, <1>2, <2>1 DEF RemoveCompetitor, TypeOK
<1>3. ASSUME NEW c \in Competitors, ResumeCompetitor(c) PROVE TypeOK'
    <2>1. [row[c] EXCEPT !.paused = FALSE, !.failures = 0,
                         !.nextCheckAt = now] \in Rows
        BY <1>0 DEF TypeOK, Rows
    <2>. QED
        BY <1>0, <1>3, <2>1 DEF ResumeCompetitor, TypeOK
<1>4. ASSUME NEW r \in Runners, NEW c \in Competitors,
             StartRetry(r, c) \/ SelectDue(r, c)
      PROVE  TypeOK'
    <2>1. JobFor(c) \in Jobs
        BY <1>0, JobForType
    <2>2. job' = [job EXCEPT ![r] = JobFor(c)]
          /\ started' = started + 1 /\ UNCHANGED <<now, tables, failed>>
        BY <1>4 DEF StartRetry, SelectDue
    <2>. QED
        BY <1>0, <2>1, <2>2 DEF tables, TypeOK
<1>5. ASSUME NEW r \in Runners, NEW out \in PageFetches,
             Fetch(r, out) \/ Refetch(r, out)
      PROVE  TypeOK'
    <2>. DEFINE done == [job[r] EXCEPT !.pc = "latest",
                                       !.attempt = CheckAttempt(out)]
                again == [job[r] EXCEPT !.pc = "refetch"]
    <2>1. CheckAttempt(out) \in Attempts
        BY EngineAssumption, AttemptHasPage
    <2>2. done \in Jobs /\ again \in Jobs
        BY <1>0, <2>1 DEF TypeOK, Jobs, Steps
    <2>3. job' \in { [job EXCEPT ![r] = j] : j \in {done, again} }
        BY <1>5 DEF Fetch, Refetch
    <2>. HIDE DEF done, again
    <2>. QED
        BY <1>0, <1>5, <2>2, <2>3 DEF Fetch, Refetch, tables, TypeOK
<1>6. ASSUME NEW r \in Runners, ReadLatest(r) PROVE TypeOK'
    <2>. DEFINE plan == PlanPersistence(job[r].attempt,
                            LatestPage(job[r].comp), job[r].failures)
                j == [job[r] EXCEPT
                        !.pc = IF plan.insertSnapshot THEN "insert"
                               ELSE "update",
                        !.plan = plan, !.at = now]
    <2>1. job[r] \in Jobs /\ job[r].comp \in Competitors
        BY <1>6, BusyJob DEF ReadLatest
    <2>2. plan \in Plans
        BY <1>0, <2>1, PlanType, LatestPageType DEF Jobs
    <2>3. j \in Jobs
        <3>. HIDE DEF plan
        <3>. QED
            BY <1>0, <2>1, <2>2 DEF TypeOK, Jobs, Steps
    <2>4. job' = [job EXCEPT ![r] = j]
        BY <1>6 DEF ReadLatest
    <2>. HIDE DEF j
    <2>. QED
        BY <1>0, <1>6, <2>3, <2>4 DEF ReadLatest, tables, TypeOK
<1>7. ASSUME NEW r \in Runners, InsertSnapshot(r) PROVE TypeOK'
    <2>. DEFINE c == job[r].comp
                j == [job[r] EXCEPT !.pc = "update", !.snap = Len(snaps[c]) + 1]
                sn == Append(snaps[c], job[r].attempt.page)
    <2>1. job[r] \in Jobs /\ c \in Competitors /\ job[r].attempt.page \in Pages
        BY <1>7, BusyJob DEF InsertSnapshot
    <2>2. snaps[c] \in Seq(Pages)
        BY <1>0, <2>1 DEF TypeOK
    <2>3. sn \in Seq(Pages)
        BY <2>1, <2>2, AppendProperties
    <2>4. j \in Jobs
        <3>1. Len(snaps[c]) + 1 \in Nat
            BY <2>2, LenProperties
        <3>. QED
            BY <2>1, <3>1 DEF Jobs, Steps
    <2>5. \/ job' = [job EXCEPT ![r] = j] /\ snaps' = [snaps EXCEPT ![c] = sn]
          \/ job' = [job EXCEPT ![r] = NoJob] /\ snaps' = snaps
        BY <1>7 DEF InsertSnapshot
    <2>. HIDE DEF j, sn
    <2>6. job' \in [Runners -> Jobs] /\ snaps' \in [Competitors -> Seq(Pages)]
        BY <1>0, <2>1, <2>3, <2>4, <2>5, NoJobType DEF TypeOK
    <2>. QED
        BY <1>0, <1>7, <2>6 DEF InsertSnapshot, TypeOK
<1>8. ASSUME NEW r \in Runners, UpdateCompetitor(r) PROVE TypeOK'
    <2>. DEFINE j == job[r]
                c == j.comp
    <2>1. j \in Jobs /\ c \in Competitors
        BY <1>8, BusyJob DEF UpdateCompetitor
    <2>2. row' \in [Competitors -> Rows]
        <3>1. CASE phase[c] = "live"
            <4>1. PICK due \in NextCheckTimes(j.at) :
                    row' = [row EXCEPT ![c] =
                              CompetitorUpdate(@, j.plan, j.at, due, j.snap)]
                BY <1>8, <3>1 DEF UpdateCompetitor
            <4>2. CompetitorUpdate(row[c], j.plan, j.at, due, j.snap) \in Rows
                BY <1>0, <2>1, DueType, UpdateType DEF TypeOK, Jobs
            <4>. QED
                BY <1>0, <4>1, <4>2 DEF TypeOK
        <3>2. CASE phase[c] # "live"
            BY <1>0, <1>8, <3>2 DEF UpdateCompetitor, TypeOK
        <3>. QED
            BY <3>1, <3>2
    <2>3. failed' \in [Competitors -> Nat]
        BY <1>0, <1>8, <2>1 DEF UpdateCompetitor, TypeOK
    <2>4. [j EXCEPT !.pc = "event"] \in Jobs
        BY <2>1 DEF Jobs, Steps
    <2>5. job' \in [Runners -> Jobs]
        BY <1>0, <1>8, <2>4 DEF UpdateCompetitor, TypeOK
    <2>. QED
        BY <1>0, <1>8, <2>2, <2>3, <2>5 DEF UpdateCompetitor, TypeOK
<1>9. ASSUME NEW r \in Runners, InsertEvent(r) \/ PruneEvents(r) PROVE TypeOK'
    <2>. DEFINE j == [job[r] EXCEPT !.pc = "prune"]
    <2>1. job[r] \in Jobs /\ job[r].comp \in Competitors
        BY <1>9, BusyJob DEF InsertEvent, PruneEvents
    <2>2. j \in Jobs
        BY <2>1 DEF Jobs, Steps
    <2>3. job' = [job EXCEPT ![r] = j] \/ job' = [job EXCEPT ![r] = NoJob]
        BY <1>9 DEF InsertEvent, PruneEvents
    <2>4. events' \in [Competitors -> Nat]
        <3>1. KeepEvents \in Nat
            BY EngineAssumption
        <3>2. \/ events' = events
              \/ \E n \in Nat : events' = [events EXCEPT ![job[r].comp] = n]
            <4>1. events[job[r].comp] \in Nat /\ events[job[r].comp] + 1 \in Nat
                BY <1>0, <2>1 DEF TypeOK
            <4>. QED
                BY <1>9, <3>1, <4>1 DEF InsertEvent, PruneEvents
        <3>. QED
            BY <1>0, <3>2 DEF TypeOK
    <2>. HIDE DEF j
    <2>5. job' \in [Runners -> Jobs]
        BY <1>0, <2>2, <2>3, NoJobType DEF TypeOK
    <2>. QED
        BY <1>0, <1>9, <2>4, <2>5 DEF InsertEvent, PruneEvents, TypeOK
<1>10. ASSUME NEW r \in Runners, Abandon(r) PROVE TypeOK'
    BY <1>0, <1>10, NoJobType DEF Abandon, tables, TypeOK
<1>11. CASE Tick
    BY <1>0, <1>11 DEF Tick, tables, TypeOK
<1>12. CASE UNCHANGED vars
    BY <1>0, <1>12 DEF vars, TypeOK
<1>. QED
    BY <1>1, <1>2, <1>3, <1>4, <1>5, <1>6, <1>7, <1>8, <1>9, <1>10, <1>11, <1>12
       DEF Next, Request, Begin, CheckStep

----------------------------------------------------------------------------
(* What a step does not take from a check in flight: a page that has been  *)
(* added stays so, persisted failures are only ever added, and snapshots   *)
(* are only lost with their page.                                          *)

Grows(ph, fl, sn, ph2, fl2, sn2) ==
    \A c \in Competitors :
        /\ fl[c] <= fl2[c]
        /\ ph[c] # "unborn" => ph2[c] # "unborn"
        /\ ph[c] # "unborn" /\ ph2[c] = "live" =>
              ph[c] = "live" /\ Len(sn[c]) <= Len(sn2[c])

LEMMA GrowsStep ==
    ASSUME TypeOK, [Next]_vars
    PROVE  Grows(phase, failed, snaps, phase', failed', snaps')
<1>. DEFINE G == Grows(phase, failed, snaps, phase', failed', snaps')
<1>0. /\ \A c \in Competitors : failed[c] \in Nat /\ Len(snaps[c]) \in Nat
      /\ \A c \in Competitors : snaps[c] \in Seq(Pages)
    BY LenProperties DEF TypeOK
<1>1. ASSUME phase' = phase, failed' = failed, snaps' = snaps PROVE G
    BY <1>0, <1>1 DEF Grows
<1>2. ASSUME NEW d \in Competitors, AddCompetitor(d) \/ RemoveCompetitor(d) PROVE G
    BY <1>0, <1>2 DEF AddCompetitor, RemoveCompetitor, Grows, TypeOK
<1>3. ASSUME NEW r \in Runners, InsertSnapshot(r), UNCHANGED <<phase, failed>>
      PROVE  G
    <2>1. ASSUME NEW c \in Competitors PROVE Len(snaps[c]) <= Len(snaps'[c])
        <3>1. CASE snaps'[c] = snaps[c]
            BY <1>0, <3>1
        <3>2. CASE snaps'[c] = Append(snaps[c], job[r].attempt.page)
            BY <1>0, <3>2
        <3>. QED
            BY <1>3, <3>1, <3>2 DEF InsertSnapshot, TypeOK
    <2>. QED
        BY <1>0, <1>3, <2>1 DEF Grows
<1>4. ASSUME NEW r \in Runners, UpdateCompetitor(r) PROVE G
    <2>1. phase' = phase /\ snaps' = snaps
        BY <1>4 DEF UpdateCompetitor
    <2>2. ASSUME NEW c \in Competitors
          PROVE  failed'[c] \in {failed[c], failed[c] + 1}
        BY <1>4 DEF UpdateCompetitor, TypeOK
    <2>. QED
        BY <1>0, <2>1, <2>2 DEF Grows
<1>. HIDE DEF G
<1>5. ASSUME UNCHANGED vars PROVE G
    BY <1>1, <1>5 DEF vars
<1>6. ASSUME NEW c \in Competitors, ResumeCompetitor(c) PROVE G
    BY <1>1, <1>6 DEF ResumeCompetitor
<1>7. ASSUME NEW r \in Runners, NEW c \in Competitors,
             StartRetry(r, c) \/ SelectDue(r, c)
      PROVE  G
    BY <1>1, <1>7 DEF StartRetry, SelectDue, tables
<1>8. ASSUME NEW r \in Runners, CheckStep(r) \/ Abandon(r) PROVE G
    <2>1. CASE InsertSnapshot(r)
        BY <1>3, <2>1 DEF InsertSnapshot
    <2>2. CASE ~InsertSnapshot(r) /\ ~UpdateCompetitor(r)
        BY <1>1, <1>8, <2>2
           DEF CheckStep, Fetch, Refetch, ReadLatest, InsertEvent, PruneEvents,
               Abandon, tables
    <2>. QED
        BY <1>4, <2>1, <2>2
<1>9. ASSUME Tick PROVE G
    BY <1>1, <1>9 DEF Tick, tables
<1>. QED
    BY <1>2, <1>5, <1>6, <1>7, <1>8, <1>9 DEF Next, Request, Begin, G

(* So a check that does nothing in a step stays sound.                     *)
LEMMA JobSoundGrows ==
    ASSUME NEW j \in Jobs,
           NEW ph, NEW ph2,
           NEW fl \in [Competitors -> Nat], NEW fl2 \in [Competitors -> Nat],
           NEW sn \in [Competitors -> Seq(Pages)],
           NEW sn2 \in [Competitors -> Seq(Pages)],
           Grows(ph, fl, sn, ph2, fl2, sn2),
           JobSound(j, ph, fl, sn)
    PROVE  JobSound(j, ph2, fl2, sn2)
<1>. SUFFICES ASSUME j.pc # "idle" PROVE JobSound(j, ph2, fl2, sn2)
    BY DEF JobSound
<1>1. j.comp \in Competitors /\ ph[j.comp] # "unborn" /\ j.failures <= fl[j.comp]
    BY DEF JobSound
<1>2. j.failures \in Nat /\ j.snap \in Nat
    BY DEF Jobs
<1>3. fl[j.comp] \in Nat /\ fl2[j.comp] \in Nat
      /\ Len(sn[j.comp]) \in Nat /\ Len(sn2[j.comp]) \in Nat
    BY <1>1, LenProperties
<1>4. /\ fl[j.comp] <= fl2[j.comp]
      /\ ph2[j.comp] # "unborn"
      /\ ph2[j.comp] = "live" =>
            ph[j.comp] = "live" /\ Len(sn[j.comp]) <= Len(sn2[j.comp])
    BY <1>1 DEF Grows
<1>5. j.pc = "update" /\ ph2[j.comp] = "live" =>
            /\ j.plan.countsAsSuccess => Len(sn2[j.comp]) > 0
            /\ j.snap <= Len(sn2[j.comp])
    BY <1>2, <1>3, <1>4 DEF JobSound
<1>6. j.failures <= fl2[j.comp]
    BY <1>1, <1>2, <1>3, <1>4
<1>. QED
    BY <1>1, <1>4, <1>5, <1>6 DEF JobSound

(* The checks in flight stay sound when one runner's job is replaced by a  *)
(* sound one.                                                              *)
LEMMA OneJobChanges ==
    ASSUME IInv, TypeOK', [Next]_vars,
           NEW r \in Runners, NEW j,
           job' = [job EXCEPT ![r] = j],
           JobSound(j, phase', failed', snaps')
    PROVE  JobsSound'
<1>1. TypeOK /\ Grows(phase, failed, snaps, phase', failed', snaps')
    BY GrowsStep DEF IInv
<1>2. ASSUME NEW s \in Runners
      PROVE  JobSound(job'[s], phase', failed', snaps')
    <2>1. CASE s = r
        BY <1>1, <2>1 DEF TypeOK
    <2>2. CASE s # r
        <3>1. job'[s] = job[s] /\ job[s] \in Jobs
            BY <1>1, <2>2 DEF TypeOK
        <3>2. JobSound(job[s], phase, failed, snaps)
            BY DEF IInv, JobsSound
        <3>3. JobSound(job[s], phase', failed', snaps')
            BY <1>1, <3>1, <3>2, JobSoundGrows DEF TypeOK
        <3>. QED
            BY <3>1, <3>3
    <2>. QED
        BY <2>1, <2>2
<1>. QED
    BY <1>2 DEF JobsSound

LEMMA NoJobChanges ==
    ASSUME IInv, TypeOK', [Next]_vars, UNCHANGED job
    PROVE  JobsSound'
<1>1. TypeOK /\ Grows(phase, failed, snaps, phase', failed', snaps')
    BY GrowsStep DEF IInv
<1>2. ASSUME NEW s \in Runners
      PROVE  JobSound(job'[s], phase', failed', snaps')
    <2>1. job[s] \in Jobs /\ JobSound(job[s], phase, failed, snaps)
        BY DEF IInv, JobsSound, TypeOK
    <2>2. JobSound(job[s], phase', failed', snaps')
        BY <1>1, <2>1, JobSoundGrows DEF TypeOK
    <2>. QED
        BY <2>2
<1>. QED
    BY <1>2 DEF JobsSound

LEMMA NoJobSound ==
    \A ph, fl, sn : JobSound(NoJob, ph, fl, sn)
BY DEF JobSound, NoJob

(* The plan of a good read or of a failed one is sound.                    *)
LEMMA PlanIsSound ==
    ASSUME NEW attempt \in Attempts, NEW latest \in Pages \cup {NoPage},
           NEW failures \in Nat,
           attempt.outcome \notin FailureOutcomes => attempt.page # NoPage
    PROVE  LET plan == PlanPersistence(attempt, latest, failures)
           IN  /\ PlanSound(plan, failures)
               /\ plan.insertSnapshot => attempt.page \in Pages
               /\ plan.countsAsSuccess /\ ~plan.insertSnapshot =>
                     latest # NoPage
<1>1. "no_change" \notin FailureOutcomes
    BY DEF FailureOutcomes
<1>2. CASE attempt.outcome \notin FailureOutcomes
    BY <1>1, <1>2 DEF PlanPersistence, PlanSound, Attempts
<1>3. CASE attempt.outcome \in FailureOutcomes
    BY <1>3 DEF PlanPersistence, PlanSound
<1>. QED
    BY <1>2, <1>3

LEMMA JobsStep == IInv /\ TypeOK' /\ [Next]_vars => JobsSound'
<1>. SUFFICES ASSUME IInv, TypeOK', [Next]_vars PROVE JobsSound'
    OBVIOUS
<1>0. TypeOK
    BY DEF IInv
<1>1. ASSUME NEW c \in Competitors, AddCompetitor(c) \/ RemoveCompetitor(c) \/ ResumeCompetitor(c)
      PROVE  JobsSound'
    BY <1>1, NoJobChanges DEF AddCompetitor, RemoveCompetitor, ResumeCompetitor
<1>2. ASSUME NEW r \in Runners, NEW c \in Competitors,
             StartRetry(r, c) \/ SelectDue(r, c)
      PROVE  JobsSound'
    <2>1. /\ phase[c] = "live" /\ job' = [job EXCEPT ![r] = JobFor(c)]
          /\ phase' = phase /\ failed' = failed
        BY <1>2 DEF StartRetry, SelectDue, tables
    <2>2. row[c].failures <= failed[c]
        BY DEF IInv, RowsSound, RowSound
    <2>3. /\ JobFor(c).pc = "fetch" /\ JobFor(c).comp = c
          /\ JobFor(c).failures = row[c].failures /\ JobFor(c).snap = 0
        BY DEF JobFor, NoJob
    <2>4. JobSound(JobFor(c), phase', failed', snaps')
        BY <2>1, <2>2, <2>3 DEF JobSound
    <2>. QED
        BY <2>1, <2>4, OneJobChanges
<1>3. ASSUME NEW r \in Runners, NEW out \in PageFetches,
             Fetch(r, out) \/ Refetch(r, out)
      PROVE  JobsSound'
    <2>. DEFINE done == [job[r] EXCEPT !.pc = "latest",
                                       !.attempt = CheckAttempt(out)]
                again == [job[r] EXCEPT !.pc = "refetch"]
    <2>1. /\ job[r] \in Jobs /\ job[r].pc \in {"fetch", "refetch"}
          /\ JobSound(job[r], phase, failed, snaps)
          /\ phase' = phase /\ failed' = failed /\ snaps' = snaps
        BY <1>0, <1>3 DEF TypeOK, IInv, JobsSound, Fetch, Refetch, tables
    <2>2. CheckAttempt(out).outcome \notin FailureOutcomes =>
              CheckAttempt(out).page # NoPage
        BY EngineAssumption, AttemptHasPage
    <2>3. /\ done.pc = "latest" /\ done.attempt = CheckAttempt(out)
          /\ done.comp = job[r].comp /\ done.failures = job[r].failures
          /\ done.snap = job[r].snap
        BY <2>1 DEF Jobs
    <2>4. /\ again.pc = "refetch" /\ again.comp = job[r].comp
          /\ again.failures = job[r].failures /\ again.snap = job[r].snap
        BY <2>1 DEF Jobs
    <2>5. \/ job' = [job EXCEPT ![r] = done]
          \/ job' = [job EXCEPT ![r] = again]
        BY <1>3 DEF Fetch, Refetch
    <2>. HIDE DEF done, again
    <2>6. JobSound(done, phase', failed', snaps')
        BY <2>1, <2>2, <2>3 DEF JobSound
    <2>7. JobSound(again, phase', failed', snaps')
        BY <2>1, <2>4 DEF JobSound
    <2>. QED
        BY <2>5, <2>6, <2>7, OneJobChanges
<1>4. ASSUME NEW r \in Runners, ReadLatest(r) PROVE JobsSound'
    <2>. DEFINE c == job[r].comp
                plan == PlanPersistence(job[r].attempt, LatestPage(c),
                                        job[r].failures)
                j == [job[r] EXCEPT
                        !.pc = IF plan.insertSnapshot THEN "insert"
                               ELSE "update",
                        !.plan = plan, !.at = now]
    <2>1. /\ job[r] \in Jobs /\ job[r].pc = "latest" /\ c \in Competitors
          /\ JobSound(job[r], phase, failed, snaps)
          /\ phase' = phase /\ failed' = failed /\ snaps' = snaps
        BY <1>4, BusyJob DEF IInv, JobsSound, ReadLatest, tables
    <2>2. /\ job[r].attempt \in Attempts /\ job[r].failures \in Nat
          /\ LatestPage(c) \in Pages \cup {NoPage}
        BY <1>0, <2>1, LatestPageType DEF Jobs
    <2>3. job[r].attempt.outcome \notin FailureOutcomes =>
              job[r].attempt.page # NoPage
        BY <2>1 DEF JobSound
    <2>4. /\ PlanSound(plan, job[r].failures)
          /\ plan.insertSnapshot => job[r].attempt.page \in Pages
          /\ plan.countsAsSuccess /\ ~plan.insertSnapshot =>
                LatestPage(c) # NoPage
        BY <2>2, <2>3, PlanIsSound
    <2>5. LatestPage(c) # NoPage => Len(snaps[c]) > 0
        <3>1. snaps[c] \in Seq(Pages)
            BY <1>0, <2>1 DEF TypeOK
        <3>. QED
            BY <3>1, EmptySeq DEF LatestPage
    <2>6. Len(snaps[c]) \in Nat
        BY <1>0, <2>1, LenProperties DEF TypeOK
    <2>. HIDE DEF plan
    <2>7. /\ j.pc = (IF plan.insertSnapshot THEN "insert" ELSE "update")
          /\ j.comp = c /\ j.failures = job[r].failures /\ j.plan = plan
          /\ j.attempt = job[r].attempt /\ j.snap = job[r].snap
        BY <2>1 DEF Jobs
    <2>8. job' = [job EXCEPT ![r] = j]
        BY <1>4 DEF ReadLatest, plan
    <2>. HIDE DEF j
    <2>9. JobSound(j, phase', failed', snaps')
        <3>1. /\ phase[c] # "unborn" /\ j.failures <= failed[c] /\ j.snap = 0
            BY <2>1, <2>7 DEF JobSound
        <3>2. CASE plan.insertSnapshot
            BY <2>1, <2>4, <2>7, <3>1, <3>2 DEF JobSound
        <3>3. CASE ~plan.insertSnapshot
            BY <2>1, <2>4, <2>5, <2>6, <2>7, <3>1, <3>3 DEF JobSound
        <3>. QED
            BY <3>2, <3>3
    <2>. QED
        BY <2>8, <2>9, OneJobChanges
<1>5. ASSUME NEW r \in Runners, InsertSnapshot(r) PROVE JobsSound'
    <2>. DEFINE c == job[r].comp
                j == [job[r] EXCEPT !.pc = "update", !.snap = Len(snaps[c]) + 1]
    <2>1. /\ job[r] \in Jobs /\ job[r].pc = "insert" /\ c \in Competitors
          /\ JobSound(job[r], phase, failed, snaps)
          /\ job[r].attempt.page \in Pages
          /\ phase' = phase /\ failed' = failed
        BY <1>5, BusyJob DEF IInv, JobsSound, InsertSnapshot
    <2>2. CASE phase[c] = "live"
        <3>1. snaps[c] \in Seq(Pages) /\ Len(snaps[c]) \in Nat
            BY <1>0, <2>1, LenProperties DEF TypeOK
        <3>2. job' = [job EXCEPT ![r] = j]
              /\ snaps' = [snaps EXCEPT ![c] = Append(@, job[r].attempt.page)]
            BY <1>5, <2>2 DEF InsertSnapshot
        <3>3. snaps'[c] = Append(snaps[c], job[r].attempt.page)
            BY <1>0, <2>1, <3>2 DEF TypeOK
        <3>4. Len(snaps'[c]) = Len(snaps[c]) + 1
            BY <2>1, <3>1, <3>3, AppendProperties
        <3>5. /\ j.pc = "update" /\ j.comp = c /\ j.snap = Len(snaps[c]) + 1
              /\ j.failures = job[r].failures /\ j.plan = job[r].plan
            BY <2>1 DEF Jobs
        <3>. HIDE DEF j
        <3>6. JobSound(j, phase', failed', snaps')
            BY <2>1, <3>1, <3>4, <3>5 DEF JobSound
        <3>. QED
            BY <3>2, <3>6, OneJobChanges
    <2>3. CASE phase[c] # "live"
        BY <1>5, <2>3, NoJobSound, OneJobChanges DEF InsertSnapshot
    <2>. QED
        BY <2>2, <2>3
<1>6. ASSUME NEW r \in Runners,
             UpdateCompetitor(r) \/ InsertEvent(r) \/ PruneEvents(r) \/ Abandon(r)
      PROVE  JobsSound'
    <2>. DEFINE upd == [job[r] EXCEPT !.pc = "event"]
                evt == [job[r] EXCEPT !.pc = "prune"]
    <2>1. /\ job[r] \in Jobs /\ job[r].pc # "idle"
          /\ JobSound(job[r], phase, failed, snaps)
        BY <1>0, <1>6 DEF TypeOK, IInv, JobsSound, UpdateCompetitor,
                          InsertEvent, PruneEvents, Abandon
    <2>2. /\ upd.pc = "event" /\ upd.comp = job[r].comp
          /\ upd.failures = job[r].failures
        BY <2>1 DEF Jobs
    <2>3. /\ evt.pc = "prune" /\ evt.comp = job[r].comp
          /\ evt.failures = job[r].failures
        BY <2>1 DEF Jobs
    <2>4. \/ job' = [job EXCEPT ![r] = upd]
          \/ job' = [job EXCEPT ![r] = evt]
          \/ job' = [job EXCEPT ![r] = NoJob]
        BY <1>6 DEF UpdateCompetitor, InsertEvent, PruneEvents, Abandon
    <2>. HIDE DEF upd, evt
    <2>5. /\ job[r].comp \in Competitors
          /\ phase'[job[r].comp] # "unborn"
          /\ job[r].failures <= failed'[job[r].comp]
        <3>1. /\ job[r].comp \in Competitors /\ phase[job[r].comp] # "unborn"
              /\ job[r].failures <= failed[job[r].comp]
            BY <2>1 DEF JobSound
        <3>2. /\ phase'[job[r].comp] # "unborn"
              /\ failed[job[r].comp] <= failed'[job[r].comp]
            BY <1>0, <3>1, GrowsStep DEF Grows
        <3>3. /\ job[r].failures \in Nat /\ failed[job[r].comp] \in Nat
              /\ failed'[job[r].comp] \in Nat
            BY <1>0, <2>1, <3>1 DEF TypeOK, Jobs
        <3>. QED
            BY <3>1, <3>2, <3>3
    <2>6. JobSound(upd, phase', failed', snaps')
        BY <2>2, <2>5 DEF JobSound
    <2>7. JobSound(evt, phase', failed', snaps')
        BY <2>3, <2>5 DEF JobSound
    <2>. QED
        BY <2>4, <2>6, <2>7, NoJobSound, OneJobChanges
<1>7. CASE Tick \/ UNCHANGED vars
    BY <1>7, NoJobChanges DEF Tick, vars
<1>. QED
    BY <1>1, <1>2, <1>3, <1>4, <1>5, <1>6, <1>7
       DEF Next, Request, Begin, CheckStep

----------------------------------------------------------------------------
(* The tables stay sound: a step touches the rows of one competitor.       *)

LEMMA OneRowChanges ==
    ASSUME IInv, NEW c \in Competitors,
           \A d \in Competitors \ {c} :
               /\ row'[d] = row[d] /\ phase'[d] = phase[d]
               /\ snaps'[d] = snaps[d] /\ events'[d] = events[d]
               /\ failed'[d] = failed[d],
           RowSound(row'[c], phase'[c], snaps'[c], events'[c], failed'[c])
    PROVE  RowsSound'
BY DEF IInv, RowsSound

(* A fresh row is sound with nothing stored.                               *)
LEMMA NewRowSound ==
    ASSUME NEW t \in Nat, NEW ph, NEW fl \in Nat, ph # "live" => t = 0
    PROVE  RowSound(NewRow(t), ph, <<>>, 0, fl)
<1>1. Len(<<>>) = 0
    BY EmptySeq
<1>2. /\ NewRow(t).failures = 0 /\ NewRow(t).paused = FALSE
      /\ NewRow(t).lastSuccessAt = Never /\ NewRow(t).lastSuccessSnap = 0
    BY DEF NewRow
<1>3. ph # "live" => NewRow(t) = NewRow(0)
    OBVIOUS
<1>. QED
    BY <1>1, <1>2, <1>3 DEF RowSound

(* The row a sound check writes is sound: a success has its snapshot, and  *)
(* a failure has been counted.                                             *)
LEMMA UpdateSound ==
    ASSUME NEW rw \in Rows, NEW j \in Jobs, NEW due, NEW sn \in Seq(Pages), NEW ev,
           NEW fl \in Nat, NEW fl2 \in Nat,
           RowSound(rw, "live", sn, ev, fl),
           PlanSound(j.plan, j.failures),
           j.failures <= fl,
           fl2 = IF j.plan.countsAsSuccess THEN fl ELSE fl + 1,
           j.plan.countsAsSuccess => Len(sn) > 0,
           j.snap <= Len(sn)
    PROVE  RowSound(CompetitorUpdate(rw, j.plan, j.at, due, j.snap),
                    "live", sn, ev, fl2)
<1>. DEFINE new == CompetitorUpdate(rw, j.plan, j.at, due, j.snap)
<1>1. /\ j.failures \in Nat /\ j.at \in Nat /\ j.snap \in Nat
      /\ j.plan \in Plans /\ j.at # Never /\ Len(sn) \in Nat
    BY TimeAssumption, LenProperties DEF Jobs
<1>2. CASE j.plan.countsAsSuccess
    <2>1. /\ new.failures = 0 /\ new.paused = rw.paused
          /\ new.lastSuccessAt = j.at
          /\ new.lastSuccessSnap \in {rw.lastSuccessSnap, j.snap}
        BY <1>2 DEF CompetitorUpdate, Rows
    <2>. HIDE DEF new
    <2>2. new.lastSuccessSnap <= Len(sn)
        BY <2>1 DEF RowSound
    <2>. QED
        BY <1>1, <1>2, <2>1, <2>2 DEF RowSound, new
<1>3. CASE ~j.plan.countsAsSuccess
    <2>1. /\ new.failures = j.failures + 1
          /\ new.lastOutcome \in FailureOutcomes
          /\ new.paused => rw.paused \/ j.failures + 1 >= Threshold
          /\ new.lastSuccessAt = rw.lastSuccessAt
          /\ new.lastSuccessSnap = rw.lastSuccessSnap
        BY <1>3 DEF CompetitorUpdate, Rows, PlanSound
    <2>. HIDE DEF new
    <2>2. new.failures <= fl2 /\ (new.paused => fl2 >= Threshold)
        BY <1>1, <1>3, <2>1, TimeAssumption DEF RowSound
    <2>. QED
        BY <2>1, <2>2 DEF RowSound, new
<1>. QED
    BY <1>2, <1>3

LEMMA RowsStep == IInv /\ TypeOK' /\ [Next]_vars => RowsSound'
<1>. SUFFICES ASSUME IInv, TypeOK', [Next]_vars PROVE RowsSound'
    OBVIOUS
<1>0. TypeOK /\ \A c \in Competitors :
          RowSound(row[c], phase[c], snaps[c], events[c], failed[c])
    BY DEF IInv, RowsSound
<1>1. ASSUME UNCHANGED <<row, phase, snaps, events, failed>> PROVE RowsSound'
    BY <1>0, <1>1 DEF RowsSound
<1>2. ASSUME NEW c \in Competitors, AddCompetitor(c) PROVE RowsSound'
    <2>1. snaps[c] = <<>> /\ events[c] = 0
        BY <1>0, <1>2 DEF AddCompetitor, RowSound
    <2>2. RowSound(row'[c], phase'[c], snaps'[c], events'[c], failed'[c])
        BY <1>0, <1>2, <2>1, NewRowSound DEF AddCompetitor, TypeOK
    <2>. QED
        BY <1>0, <1>2, <2>2, OneRowChanges DEF AddCompetitor, TypeOK
<1>3. ASSUME NEW c \in Competitors, RemoveCompetitor(c) PROVE RowsSound'
    <2>1. RowSound(row'[c], phase'[c], snaps'[c], events'[c], failed'[c])
        BY <1>0, <1>3, NewRowSound DEF RemoveCompetitor, TypeOK
    <2>. QED
        BY <1>0, <1>3, <2>1, OneRowChanges DEF RemoveCompetitor, TypeOK
<1>4. ASSUME NEW c \in Competitors, ResumeCompetitor(c) PROVE RowsSound'
    <2>1. /\ row'[c] = [row[c] EXCEPT !.paused = FALSE, !.failures = 0,
                                      !.nextCheckAt = now]
          /\ row[c] \in Rows /\ phase[c] = "live" /\ failed[c] \in Nat
          /\ UNCHANGED <<phase, snaps, events, failed>>
        BY <1>0, <1>4 DEF ResumeCompetitor, TypeOK
    <2>2. /\ row'[c].failures = 0 /\ row'[c].paused = FALSE
          /\ row'[c].lastSuccessAt = row[c].lastSuccessAt
          /\ row'[c].lastSuccessSnap = row[c].lastSuccessSnap
        BY <2>1 DEF Rows
    <2>3. RowSound(row'[c], phase'[c], snaps'[c], events'[c], failed'[c])
        BY <1>0, <2>1, <2>2 DEF RowSound
    <2>. QED
        BY <1>0, <1>4, <2>3, OneRowChanges DEF ResumeCompetitor, TypeOK
<1>5. ASSUME NEW r \in Runners, InsertSnapshot(r) PROVE RowsSound'
    <2>. DEFINE c == job[r].comp
    <2>1. c \in Competitors /\ job[r].attempt.page \in Pages
        BY <1>5, BusyJob DEF InsertSnapshot
    <2>2. CASE phase[c] = "live"
        <3>1. /\ snaps' = [snaps EXCEPT ![c] = Append(@, job[r].attempt.page)]
              /\ UNCHANGED <<row, phase, events, failed>>
            BY <1>5, <2>2 DEF InsertSnapshot
        <3>2. /\ snaps[c] \in Seq(Pages) /\ row[c] \in Rows
              /\ snaps'[c] = Append(snaps[c], job[r].attempt.page)
            BY <1>0, <2>1, <3>1 DEF TypeOK
        <3>3. Len(snaps'[c]) = Len(snaps[c]) + 1 /\ Len(snaps[c]) \in Nat
            BY <2>1, <3>2, AppendProperties, LenProperties
        <3>4. RowSound(row'[c], phase'[c], snaps'[c], events'[c], failed'[c])
            BY <1>0, <2>1, <2>2, <3>1, <3>2, <3>3 DEF RowSound, Rows
        <3>. QED
            BY <1>0, <2>1, <3>1, <3>4, OneRowChanges DEF TypeOK
    <2>3. CASE phase[c] # "live"
        BY <1>1, <1>5, <2>3 DEF InsertSnapshot
    <2>. QED
        BY <2>2, <2>3
<1>6. ASSUME NEW r \in Runners, UpdateCompetitor(r) PROVE RowsSound'
    <2>. DEFINE j == job[r]
                c == j.comp
    <2>1. /\ j \in Jobs /\ j.pc = "update" /\ c \in Competitors
          /\ JobSound(j, phase, failed, snaps)
        BY <1>6, BusyJob DEF IInv, JobsSound, UpdateCompetitor
    <2>2. CASE phase[c] = "live"
        <3>1. PICK due \in NextCheckTimes(j.at) :
                row' = [row EXCEPT ![c] =
                          CompetitorUpdate(@, j.plan, j.at, due, j.snap)]
            BY <1>6, <2>2 DEF UpdateCompetitor
        <3>2. /\ failed' = [failed EXCEPT ![c] =
                              IF j.plan.countsAsSuccess THEN @ ELSE @ + 1]
              /\ UNCHANGED <<phase, snaps, events>>
            BY <1>6, <2>2 DEF UpdateCompetitor
        <3>3. /\ row'[c] = CompetitorUpdate(row[c], j.plan, j.at, due, j.snap)
              /\ failed'[c] = (IF j.plan.countsAsSuccess THEN failed[c]
                               ELSE failed[c] + 1)
            BY <1>0, <2>1, <3>1, <3>2 DEF TypeOK
        <3>4. /\ PlanSound(j.plan, j.failures) /\ j.failures <= failed[c]
              /\ j.plan.countsAsSuccess => Len(snaps[c]) > 0
              /\ j.snap <= Len(snaps[c])
            BY <2>1, <2>2 DEF JobSound
        <3>5. RowSound(row'[c], "live", snaps[c], events[c], failed'[c])
            <4>1. /\ row[c] \in Rows /\ snaps[c] \in Seq(Pages)
                  /\ failed[c] \in Nat /\ failed'[c] \in Nat
                BY <1>0, <2>1 DEF TypeOK
            <4>2. RowSound(row[c], "live", snaps[c], events[c], failed[c])
                BY <1>0, <2>1, <2>2
            <4>. QED
                BY <2>1, <3>3, <3>4, <4>1, <4>2, UpdateSound
        <3>. QED
            BY <1>0, <2>1, <2>2, <3>1, <3>2, <3>5, OneRowChanges DEF TypeOK
    <2>3. CASE phase[c] # "live"
        BY <1>1, <1>6, <2>3 DEF UpdateCompetitor
    <2>. QED
        BY <2>2, <2>3
<1>7. ASSUME NEW r \in Runners, InsertEvent(r) \/ PruneEvents(r) PROVE RowsSound'
    <2>. DEFINE c == job[r].comp
    <2>1. c \in Competitors /\ phase[c] # "unborn"
        BY <1>7, BusyJob DEF InsertEvent, PruneEvents
    <2>2. \A d \in Competitors \ {c} : events'[d] = events[d]
        BY <1>0, <1>7 DEF InsertEvent, PruneEvents, TypeOK
    <2>3. phase[c] # "live" /\ events[c] = 0 => events'[c] = 0
        BY <1>0, <1>7, <2>1, EngineAssumption
           DEF InsertEvent, PruneEvents, TypeOK
    <2>4. UNCHANGED <<row, phase, snaps, failed>>
        BY <1>7 DEF InsertEvent, PruneEvents
    <2>5. RowSound(row'[c], phase'[c], snaps'[c], events'[c], failed'[c])
        BY <1>0, <2>1, <2>3, <2>4 DEF RowSound
    <2>. QED
        BY <2>1, <2>2, <2>4, <2>5, OneRowChanges
<1>8. ASSUME NEW r \in Runners,
             \/ \E c \in Competitors : StartRetry(r, c) \/ SelectDue(r, c)
             \/ \E out \in PageFetches : Fetch(r, out) \/ Refetch(r, out)
             \/ ReadLatest(r) \/ Abandon(r)
      PROVE  RowsSound'
    BY <1>1, <1>8 DEF StartRetry, SelectDue, Fetch, Refetch, ReadLatest,
                      Abandon, tables
<1>9. CASE Tick \/ UNCHANGED vars
    BY <1>1, <1>9 DEF Tick, tables, vars
<1>. QED
    BY <1>2, <1>3, <1>4, <1>5, <1>6, <1>7, <1>8, <1>9
       DEF Next, Request, Begin, CheckStep

----------------------------------------------------------------------------
(* The invariants.                                                         *)

LEMMA IInvInit == Init => IInv
<1>. SUFFICES ASSUME Init PROVE IInv
    OBVIOUS
<1>1. JobsSound
    BY NoJobSound DEF Init, JobsSound
<1>2. RowsSound
    BY NewRowSound DEF Init, RowsSound
<1>. QED
    BY <1>1, <1>2, TypeInit DEF IInv

LEMMA IInvStep == IInv /\ [Next]_vars => IInv'
BY TypeStep, JobsStep, RowsStep DEF IInv

LEMMA IInvAlways == Spec => []IInv
BY IInvInit, IInvStep, PTL DEF Spec

(* Type correctness: rows, jobs, snapshots and histories keep their types  *)
(* under every interleaving of checks, requests and crashes.               *)
THEOREM TypeCorrect == Spec => []TypeOK
<1>1. IInv => TypeOK
    BY DEF IInv
<1>. QED
    BY <1>1, IInvAlways, PTL

(* A page that says it was read always has a snapshot to show.             *)
THEOREM SuccessAlwaysBacked == Spec => []SuccessIsBacked
<1>1. IInv => SuccessIsBacked
    <2>. SUFFICES ASSUME IInv, NEW c \in Competitors
                  PROVE  /\ row[c].lastSuccessAt # Never => snaps[c] # <<>>
                         /\ row[c].lastSuccessSnap # 0 =>
                                row[c].lastSuccessAt # Never
                         /\ row[c].lastSuccessSnap <= Len(snaps[c])
        BY DEF SuccessIsBacked
    <2>. QED
        BY EmptySeq DEF IInv, RowsSound, RowSound
<1>. QED
    BY <1>1, IInvAlways, PTL

(* No order of overlapping checks pauses a page on fewer failed checks     *)
(* than the threshold.                                                     *)
THEOREM PauseAlwaysEarned == Spec => []PauseNeedsFailures
<1>1. IInv => PauseNeedsFailures
    BY DEF IInv, RowsSound, RowSound, PauseNeedsFailures
<1>. QED
    BY <1>1, IInvAlways, PTL

(* A failure streak is never left beside a successful status.              *)
THEOREM StreakAlwaysMatches == Spec => []StreakMatchesOutcome
<1>1. IInv => StreakMatchesOutcome
    BY DEF IInv, RowsSound, RowSound, StreakMatchesOutcome
<1>. QED
    BY <1>1, IInvAlways, PTL

(* Nothing is stored for a page after its removal.                         *)
THEOREM RemovalIsFinal == Spec => []NothingOutlivesRemoval
<1>1. IInv => NothingOutlivesRemoval
    BY DEF IInv, RowsSound, RowSound, NothingOutlivesRemoval
<1>. QED
    BY <1>1, IInvAlways, PTL

----------------------------------------------------------------------------
(* What a step does to the page of one competitor that stays monitored.    *)

GoodKept(sn, sn2, rw, rw2) ==
    /\ Len(sn2) >= Len(sn)
    /\ \A i \in 1..Len(sn) : sn2[i] = sn[i]
    /\ \/ /\ rw2.lastSuccessAt = rw.lastSuccessAt
          /\ rw2.lastSuccessSnap = rw.lastSuccessSnap
       \/ /\ rw2.lastOutcome \notin FailureOutcomes
          /\ rw2.lastSuccessAt = rw2.lastAttemptAt

LEMMA UpdateKeepsGood ==
    ASSUME NEW rw \in Rows, NEW plan \in Plans, NEW at, NEW due, NEW snap,
           NEW failures, PlanSound(plan, failures)
    PROVE  LET rw2 == CompetitorUpdate(rw, plan, at, due, snap)
           IN  \/ /\ rw2.lastSuccessAt = rw.lastSuccessAt
                  /\ rw2.lastSuccessSnap = rw.lastSuccessSnap
               \/ /\ rw2.lastOutcome \notin FailureOutcomes
                  /\ rw2.lastSuccessAt = rw2.lastAttemptAt
<1>1. CASE plan.countsAsSuccess
    BY <1>1 DEF CompetitorUpdate, Rows, PlanSound
<1>2. CASE ~plan.countsAsSuccess
    BY <1>2 DEF CompetitorUpdate, Rows, PlanSound
<1>. QED
    BY <1>1, <1>2

LEMMA GoodKeptStep ==
    ASSUME IInv, [Next]_vars, NEW c \in Competitors, Live(c), Live(c)'
    PROVE  GoodKept(snaps[c], snaps'[c], row[c], row'[c])
<1>. DEFINE G == GoodKept(snaps[c], snaps'[c], row[c], row'[c])
<1>0. /\ TypeOK /\ row[c] \in Rows /\ snaps[c] \in Seq(Pages)
      /\ Len(snaps[c]) \in Nat /\ phase[c] = "live" /\ phase'[c] = "live"
    BY LenProperties DEF IInv, TypeOK, Live
<1>1. ASSUME snaps'[c] = snaps[c], row'[c] = row[c] PROVE G
    BY <1>0, <1>1 DEF GoodKept
<1>2. ASSUME NEW d \in Competitors, ResumeCompetitor(d) PROVE G
    <2>1. snaps' = snaps
          /\ row' = [row EXCEPT ![d] = [@ EXCEPT !.paused = FALSE, !.failures = 0,
                                                 !.nextCheckAt = now]]
        BY <1>2 DEF ResumeCompetitor
    <2>2. CASE d = c
        <3>1. row'[c] = [row[c] EXCEPT !.paused = FALSE, !.failures = 0,
                                       !.nextCheckAt = now]
            BY <1>0, <2>1, <2>2 DEF TypeOK
        <3>2. /\ row'[c].lastSuccessAt = row[c].lastSuccessAt
              /\ row'[c].lastSuccessSnap = row[c].lastSuccessSnap
            BY <1>0, <3>1 DEF Rows
        <3>. QED
            BY <1>0, <2>1, <3>2 DEF GoodKept
    <2>3. CASE d # c
        BY <1>0, <1>1, <2>1, <2>3 DEF TypeOK
    <2>. QED
        BY <2>2, <2>3
<1>3. ASSUME NEW d \in Competitors, AddCompetitor(d) \/ RemoveCompetitor(d) PROVE G
    <2>1. c # d
        BY <1>0, <1>3 DEF AddCompetitor, RemoveCompetitor, TypeOK
    <2>. QED
        BY <1>0, <1>1, <1>3, <2>1 DEF AddCompetitor, RemoveCompetitor, TypeOK
<1>4. ASSUME NEW r \in Runners, InsertSnapshot(r) PROVE G
    <2>1. CASE snaps'[c] = snaps[c]
        BY <1>1, <1>4, <2>1 DEF InsertSnapshot
    <2>2. CASE snaps'[c] # snaps[c]
        <3>1. snaps'[c] = Append(snaps[c], job[r].attempt.page)
              /\ row' = row /\ job[r].attempt.page \in Pages
            BY <1>0, <1>4, <2>2, BusyJob DEF InsertSnapshot, TypeOK
        <3>2. /\ Len(snaps'[c]) = Len(snaps[c]) + 1
              /\ \A i \in 1..Len(snaps[c]) : snaps'[c][i] = snaps[c][i]
            BY <1>0, <3>1, AppendProperties
        <3>. QED
            BY <1>0, <3>1, <3>2 DEF GoodKept
    <2>. QED
        BY <2>1, <2>2
<1>5. ASSUME NEW r \in Runners, UpdateCompetitor(r) PROVE G
    <2>. DEFINE j == job[r]
    <2>1. CASE row'[c] = row[c]
        BY <1>1, <1>5, <2>1 DEF UpdateCompetitor
    <2>2. CASE row'[c] # row[c]
        <3>1. PICK due \in NextCheckTimes(j.at) :
                row' = [row EXCEPT ![j.comp] =
                          CompetitorUpdate(@, j.plan, j.at, due, j.snap)]
            BY <1>5, <2>2 DEF UpdateCompetitor
        <3>2. /\ j.comp = c
              /\ row'[c] = CompetitorUpdate(row[c], j.plan, j.at, due, j.snap)
            BY <1>0, <2>2, <3>1 DEF TypeOK
        <3>3. j \in Jobs /\ PlanSound(j.plan, j.failures) /\ snaps' = snaps
            BY <1>5, BusyJob DEF IInv, JobsSound, JobSound, UpdateCompetitor
        <3>4. j.plan \in Plans
            BY <3>3 DEF Jobs
        <3>5. \/ /\ row'[c].lastSuccessAt = row[c].lastSuccessAt
                 /\ row'[c].lastSuccessSnap = row[c].lastSuccessSnap
              \/ /\ row'[c].lastOutcome \notin FailureOutcomes
                 /\ row'[c].lastSuccessAt = row'[c].lastAttemptAt
            BY <1>0, <3>2, <3>3, <3>4, UpdateKeepsGood
        <3>. QED
            BY <1>0, <3>3, <3>5 DEF GoodKept
    <2>. QED
        BY <2>1, <2>2
<1>6. ASSUME UNCHANGED <<row, snaps>> PROVE G
    BY <1>1, <1>6
<1>. HIDE DEF G
<1>7. ASSUME NEW r \in Runners,
             \/ \E d \in Competitors : StartRetry(r, d) \/ SelectDue(r, d)
             \/ \E out \in PageFetches : Fetch(r, out) \/ Refetch(r, out)
             \/ ReadLatest(r) \/ InsertEvent(r) \/ PruneEvents(r) \/ Abandon(r)
      PROVE  G
    BY <1>6, <1>7 DEF StartRetry, SelectDue, Fetch, Refetch, ReadLatest,
                      InsertEvent, PruneEvents, Abandon, tables
<1>8. ASSUME Tick \/ UNCHANGED vars PROVE G
    BY <1>6, <1>8 DEF Tick, tables, vars
<1>9. G
    BY <1>2, <1>3, <1>4, <1>5, <1>7, <1>8 DEF Next, Request, Begin, CheckStep
<1>. QED
    BY <1>9 DEF G

(* A failed check never touches the last good read of a monitored page.    *)
THEOREM LastGoodAlwaysSurvives == Spec => LastGoodSurvives
<1>. DEFINE Kept == \A c \in Competitors : Live(c) /\ Live(c)' =>
                        GoodKept(snaps[c], snaps'[c], row[c], row'[c])
<1>1. IInv /\ [Next]_vars => [Kept]_vars
    BY GoodKeptStep
<1>2. Kept => \A c \in Competitors : Live(c) /\ Live(c)' =>
          /\ Len(snaps'[c]) >= Len(snaps[c])
          /\ \A i \in 1..Len(snaps[c]) : snaps'[c][i] = snaps[c][i]
          /\ \/ /\ row'[c].lastSuccessAt = row[c].lastSuccessAt
                /\ row'[c].lastSuccessSnap = row[c].lastSuccessSnap
             \/ /\ row'[c].lastOutcome \notin FailureOutcomes
                /\ row'[c].lastSuccessAt = row'[c].lastAttemptAt
    BY DEF GoodKept
<1>. QED
    BY <1>1, <1>2, IInvAlways, PTL DEF LastGoodSurvives, Spec

----------------------------------------------------------------------------
(***************************************************************************)
(* MonitoringEngine implements MonitorPromise: with the snapshots, the     *)
(* failure streak, the pause and the verdict of the last check read off    *)
(* the rows, every step of the engine is a step of the promise or leaves   *)
(* what the user is shown alone.                                           *)
(***************************************************************************)

(* The columns the promise is about, as the refinement maps them.          *)
VerdictOf(rw) ==
    IF rw.lastOutcome = NoOutcome THEN "none"
    ELSE IF rw.lastOutcome \in FailureOutcomes THEN "bad" ELSE "good"

streakMap == [c \in Competitors |-> row[c].failures]
pausedMap == [c \in Competitors |-> row[c].paused]
verdictMap == [c \in Competitors |-> Verdict(c)]

(* A function that differs from another one at a single argument.          *)
LEMMA ExceptIsMap ==
    ASSUME NEW S, NEW f, NEW g, NEW c \in S, NEW v,
           f = [d \in S |-> f[d]], g = [d \in S |-> g[d]],
           g[c] = v, \A d \in S \ {c} : g[d] = f[d]
    PROVE  g = [f EXCEPT ![c] = v]
<1>. DEFINE h == [f EXCEPT ![c] = v]
<1>1. h = [d \in S |-> h[d]]
    OBVIOUS
<1>2. \A d \in S : h[d] = g[d]
    OBVIOUS
<1>. HIDE DEF h
<1>3. g = h
    BY <1>1, <1>2
<1>. QED
    BY <1>3 DEF h

(* A step that writes one row changes the mapped columns at that row.      *)
LEMMA OneRowMapped ==
    ASSUME TypeOK, NEW c \in Competitors, NEW rw,
           row' = [row EXCEPT ![c] = rw]
    PROVE  /\ streakMap' = [streakMap EXCEPT ![c] = rw.failures]
           /\ pausedMap' = [pausedMap EXCEPT ![c] = rw.paused]
           /\ verdictMap' = [verdictMap EXCEPT ![c] = VerdictOf(rw)]
<1>1. row'[c] = rw /\ \A d \in Competitors \ {c} : row'[d] = row[d]
    BY DEF TypeOK
<1>2. streakMap' = [streakMap EXCEPT ![c] = rw.failures]
    <2>1. /\ streakMap = [d \in Competitors |-> streakMap[d]]
          /\ streakMap' = [d \in Competitors |-> streakMap'[d]]
        BY DEF streakMap
    <2>2. /\ streakMap'[c] = rw.failures
          /\ \A d \in Competitors \ {c} : streakMap'[d] = streakMap[d]
        BY <1>1 DEF streakMap
    <2>. QED
        BY <2>1, <2>2, ExceptIsMap
<1>3. pausedMap' = [pausedMap EXCEPT ![c] = rw.paused]
    <2>1. /\ pausedMap = [d \in Competitors |-> pausedMap[d]]
          /\ pausedMap' = [d \in Competitors |-> pausedMap'[d]]
        BY DEF pausedMap
    <2>2. /\ pausedMap'[c] = rw.paused
          /\ \A d \in Competitors \ {c} : pausedMap'[d] = pausedMap[d]
        BY <1>1 DEF pausedMap
    <2>. QED
        BY <2>1, <2>2, ExceptIsMap
<1>4. verdictMap' = [verdictMap EXCEPT ![c] = VerdictOf(rw)]
    <2>1. /\ verdictMap = [d \in Competitors |-> verdictMap[d]]
          /\ verdictMap' = [d \in Competitors |-> verdictMap'[d]]
        BY DEF verdictMap
    <2>2. /\ verdictMap'[c] = VerdictOf(rw)
          /\ \A d \in Competitors \ {c} : verdictMap'[d] = verdictMap[d]
        BY <1>1 DEF verdictMap, Verdict, VerdictOf
    <2>. QED
        BY <2>1, <2>2, ExceptIsMap
<1>. QED
    BY <1>2, <1>3, <1>4

(* A step that writes no row leaves them.                                  *)
LEMMA NoRowMapped ==
    ASSUME row' = row
    PROVE  UNCHANGED <<streakMap, pausedMap, verdictMap>>
BY DEF streakMap, pausedMap, verdictMap, Verdict

LEMMA NewRowVerdict ==
    \A t : /\ VerdictOf(NewRow(t)) = "none"
           /\ NewRow(t).failures = 0 /\ NewRow(t).paused = FALSE
BY DEF VerdictOf, NewRow

LEMMA PromiseInit == Init => Promise!Init
<1>. SUFFICES ASSUME Init PROVE Promise!Init
    OBVIOUS
<1>1. \A c \in Competitors : row[c] = NewRow(0) /\ Verdict(c) = VerdictOf(row[c])
    BY DEF Init, Verdict, VerdictOf
<1>. QED
    BY <1>1, NewRowVerdict DEF Init, Promise!Init

LEMMA PromiseStep == IInv /\ [Next]_vars => [Promise!Next]_(Promise!vars)
<1>. SUFFICES ASSUME IInv, [Next]_vars
              PROVE  Promise!Next \/ UNCHANGED Promise!vars
    OBVIOUS
<1>0. /\ TypeOK
      /\ \A c \in Competitors :
            RowSound(row[c], phase[c], snaps[c], events[c], failed[c])
    BY DEF IInv, RowsSound
<1>1. ASSUME NEW c \in Competitors, AddCompetitor(c) PROVE Promise!Add(c)
    <2>1. snaps' = [snaps EXCEPT ![c] = <<>>]
        <3>1. snaps[c] = <<>> /\ snaps' = snaps
            BY <1>0, <1>1 DEF AddCompetitor, RowSound
        <3>2. snaps = [d \in Competitors |-> snaps[d]]
            BY <1>0 DEF TypeOK
        <3>. QED
            BY <3>1, <3>2, ExceptIsMap
    <2>2. /\ streakMap' = [streakMap EXCEPT ![c] = 0]
          /\ pausedMap' = [pausedMap EXCEPT ![c] = FALSE]
          /\ verdictMap' = [verdictMap EXCEPT ![c] = "none"]
        <3>1. row' = [row EXCEPT ![c] = NewRow(now)]
            BY <1>1 DEF AddCompetitor
        <3>2. /\ streakMap' = [streakMap EXCEPT ![c] = NewRow(now).failures]
              /\ pausedMap' = [pausedMap EXCEPT ![c] = NewRow(now).paused]
              /\ verdictMap' = [verdictMap EXCEPT ![c] = VerdictOf(NewRow(now))]
            BY <1>0, <3>1, OneRowMapped
        <3>. QED
            BY <3>2, NewRowVerdict, Zenon
    <2>3. phase[c] = "unborn" /\ phase' = [phase EXCEPT ![c] = "live"]
        BY <1>1 DEF AddCompetitor
    <2>. QED
        BY <2>1, <2>2, <2>3
           DEF Promise!Add, Promise!Clear, streakMap, pausedMap, verdictMap
<1>2. ASSUME NEW c \in Competitors, RemoveCompetitor(c) PROVE Promise!Remove(c)
    <2>1. /\ phase[c] = "live" /\ phase' = [phase EXCEPT ![c] = "removed"]
          /\ snaps' = [snaps EXCEPT ![c] = <<>>]
          /\ row' = [row EXCEPT ![c] = NewRow(0)]
        BY <1>2 DEF RemoveCompetitor
    <2>2. /\ streakMap' = [streakMap EXCEPT ![c] = 0]
          /\ pausedMap' = [pausedMap EXCEPT ![c] = FALSE]
          /\ verdictMap' = [verdictMap EXCEPT ![c] = "none"]
        <3>1. /\ streakMap' = [streakMap EXCEPT ![c] = NewRow(0).failures]
              /\ pausedMap' = [pausedMap EXCEPT ![c] = NewRow(0).paused]
              /\ verdictMap' = [verdictMap EXCEPT ![c] = VerdictOf(NewRow(0))]
            BY <1>0, <2>1, OneRowMapped
        <3>. QED
            BY <3>1, NewRowVerdict, Zenon
    <2>. QED
        BY <2>1, <2>2
           DEF Promise!Remove, Promise!Clear, streakMap, pausedMap, verdictMap
<1>3. ASSUME NEW c \in Competitors, ResumeCompetitor(c) PROVE Promise!Resume(c)
    <2>. DEFINE rw == [row[c] EXCEPT !.paused = FALSE, !.failures = 0,
                                     !.nextCheckAt = now]
    <2>1. /\ row' = [row EXCEPT ![c] = rw] /\ phase[c] = "live"
          /\ phase' = phase /\ snaps' = snaps
        BY <1>3 DEF ResumeCompetitor
    <2>2. row[c] \in Rows
        BY <1>0 DEF TypeOK
    <2>3. rw.failures = 0 /\ rw.paused = FALSE /\ VerdictOf(rw) = VerdictOf(row[c])
        BY <2>2 DEF Rows, VerdictOf
    <2>. HIDE DEF rw
    <2>4. verdictMap' = verdictMap
        <3>1. /\ verdictMap = [d \in Competitors |-> verdictMap[d]]
              /\ verdictMap[c] = VerdictOf(row[c])
            BY DEF verdictMap, Verdict, VerdictOf
        <3>2. verdictMap = [verdictMap EXCEPT ![c] = VerdictOf(row[c])]
            BY <3>1, ExceptIsMap
        <3>3. verdictMap' = [verdictMap EXCEPT ![c] = VerdictOf(rw)]
            BY <1>0, <2>1, OneRowMapped
        <3>. QED
            BY <2>3, <3>2, <3>3
    <2>5. /\ streakMap' = [streakMap EXCEPT ![c] = 0]
          /\ pausedMap' = [pausedMap EXCEPT ![c] = FALSE]
        <3>1. /\ streakMap' = [streakMap EXCEPT ![c] = rw.failures]
              /\ pausedMap' = [pausedMap EXCEPT ![c] = rw.paused]
            BY <1>0, <2>1, OneRowMapped
        <3>. QED
            BY <2>3, <3>1, Zenon
    <2>. QED
        BY <2>1, <2>4, <2>5 DEF Promise!Resume, streakMap, pausedMap, verdictMap
<1>4. ASSUME phase' = phase, snaps' = snaps, row' = row
      PROVE  UNCHANGED Promise!vars
    BY <1>4, NoRowMapped DEF Promise!vars, streakMap, pausedMap, verdictMap
<1>5. ASSUME NEW r \in Runners, NEW c \in Competitors, c = job[r].comp,
             InsertSnapshot(r)
      PROVE  Promise!Publish(c) \/ UNCHANGED Promise!vars
    <2>1. job[r].attempt.page \in Pages /\ phase' = phase /\ row' = row
        BY <1>5, BusyJob DEF InsertSnapshot
    <2>2. CASE phase[c] = "live"
        <3>1. snaps' = [snaps EXCEPT ![c] = Append(@, job[r].attempt.page)]
            BY <1>5, <2>2 DEF InsertSnapshot
        <3>. QED
            BY <2>1, <2>2, <3>1, NoRowMapped
               DEF Promise!Publish, streakMap, pausedMap, verdictMap
    <2>3. CASE phase[c] # "live"
        BY <1>4, <1>5, <2>1, <2>3 DEF InsertSnapshot
    <2>. QED
        BY <2>2, <2>3
<1>6. ASSUME NEW r \in Runners, NEW c \in Competitors, c = job[r].comp,
             UpdateCompetitor(r)
      PROVE  \/ Promise!RecordGood(c) \/ Promise!RecordBad(c)
             \/ UNCHANGED Promise!vars
    <2>. DEFINE j == job[r]
    <2>1. /\ j \in Jobs /\ j.pc = "update" /\ j.comp = c
          /\ JobSound(j, phase, failed, snaps)
          /\ phase' = phase /\ snaps' = snaps
        BY <1>6, BusyJob DEF IInv, JobsSound, UpdateCompetitor
    <2>2. CASE phase[c] # "live"
        BY <1>4, <1>6, <2>1, <2>2 DEF UpdateCompetitor
    <2>3. CASE phase[c] = "live"
        <3>1. PICK due \in NextCheckTimes(j.at) :
                row' = [row EXCEPT ![c] =
                          CompetitorUpdate(@, j.plan, j.at, due, j.snap)]
            BY <1>6, <2>1, <2>3 DEF UpdateCompetitor
        <3>. DEFINE rw == CompetitorUpdate(row[c], j.plan, j.at, due, j.snap)
        <3>2. row' = [row EXCEPT ![c] = rw]
            BY <3>1
        <3>3. row[c] \in Rows /\ j.plan \in Plans /\ PlanSound(j.plan, j.failures)
              /\ j.failures \in Nat
            BY <1>0, <2>1 DEF TypeOK, Jobs, JobSound
        <3>4. j.plan.eventOutcome # NoOutcome
            BY <3>3, NoOutcomeAssumption DEF Plans
        <3>5. streakMap'[c] = rw.failures
            BY <1>0, <2>1, <3>2 DEF streakMap, TypeOK
        <3>6. CASE j.plan.countsAsSuccess
            <4>1. /\ rw.failures = 0 /\ rw.paused = row[c].paused
                  /\ VerdictOf(rw) = "good"
                BY <3>3, <3>4, <3>6
                   DEF CompetitorUpdate, Rows, PlanSound, VerdictOf
            <4>2. snaps[c] # <<>>
                BY <2>1, <2>3, <3>6, EmptySeq DEF JobSound
            <4>. HIDE DEF rw
            <4>3. pausedMap' = pausedMap
                <5>1. /\ pausedMap = [d \in Competitors |-> pausedMap[d]]
                      /\ pausedMap[c] = row[c].paused
                    BY <2>1 DEF pausedMap
                <5>2. pausedMap = [pausedMap EXCEPT ![c] = row[c].paused]
                    BY <2>1, <5>1, ExceptIsMap
                <5>3. pausedMap' = [pausedMap EXCEPT ![c] = rw.paused]
                    BY <1>0, <2>1, <3>2, OneRowMapped
                <5>. QED
                    BY <4>1, <5>2, <5>3, Zenon
            <4>4. /\ streakMap' = [streakMap EXCEPT ![c] = 0]
                  /\ verdictMap' = [verdictMap EXCEPT ![c] = "good"]
                <5>1. /\ streakMap' = [streakMap EXCEPT ![c] = rw.failures]
                      /\ verdictMap' = [verdictMap EXCEPT ![c] = VerdictOf(rw)]
                    BY <1>0, <2>1, <3>2, OneRowMapped
                <5>. QED
                    BY <4>1, <5>1
            <4>. QED
                BY <2>1, <2>3, <4>2, <4>3, <4>4
                   DEF Promise!RecordGood, streakMap, pausedMap, verdictMap
        <3>7. CASE ~j.plan.countsAsSuccess
            <4>1. /\ rw.failures = j.failures + 1
                  /\ VerdictOf(rw) = "bad"
                BY <3>3, <3>4, <3>7
                   DEF CompetitorUpdate, Rows, PlanSound, VerdictOf
            <4>2. rw.paused = (row[c].paused \/ rw.failures >= Threshold)
                BY <3>3, <3>7 DEF CompetitorUpdate, Rows, PlanSound
            <4>. HIDE DEF rw
            <4>3. rw.failures > 0
                BY <3>3, <4>1
            <4>4. /\ streakMap' = [streakMap EXCEPT ![c] = rw.failures]
                  /\ verdictMap' = [verdictMap EXCEPT ![c] = VerdictOf(rw)]
                BY <1>0, <2>1, <3>2, OneRowMapped
            <4>5. pausedMap' = [pausedMap EXCEPT
                                  ![c] = @ \/ streakMap'[c] >= Threshold]
                <5>1. pausedMap[c] = row[c].paused
                    BY <2>1 DEF pausedMap
                <5>2. pausedMap' = [pausedMap EXCEPT ![c] = rw.paused]
                    BY <1>0, <2>1, <3>2, OneRowMapped
                <5>. QED
                    BY <3>5, <4>2, <5>1, <5>2
            <4>6. /\ streakMap' = [streakMap EXCEPT ![c] = streakMap'[c]]
                  /\ streakMap'[c] > 0
                  /\ verdictMap' = [verdictMap EXCEPT ![c] = "bad"]
                BY <3>5, <4>1, <4>3, <4>4
            <4>. QED
                BY <2>1, <2>3, <4>5, <4>6
                   DEF Promise!RecordBad, streakMap, pausedMap, verdictMap
        <3>. QED
            BY <3>6, <3>7
    <2>. QED
        BY <2>2, <2>3
<1>7. ASSUME NEW r \in Runners,
             \/ \E c \in Competitors : StartRetry(r, c) \/ SelectDue(r, c)
             \/ \E out \in PageFetches : Fetch(r, out) \/ Refetch(r, out)
             \/ ReadLatest(r) \/ InsertEvent(r) \/ PruneEvents(r) \/ Abandon(r)
      PROVE  UNCHANGED Promise!vars
    BY <1>4, <1>7 DEF StartRetry, SelectDue, Fetch, Refetch, ReadLatest,
                      InsertEvent, PruneEvents, Abandon, tables
<1>8. ASSUME Tick \/ UNCHANGED vars PROVE UNCHANGED Promise!vars
    BY <1>4, <1>8 DEF Tick, tables, vars
<1>9. ASSUME NEW r \in Runners, InsertSnapshot(r) \/ UpdateCompetitor(r)
      PROVE  Promise!Next \/ UNCHANGED Promise!vars
    <2>1. PICK c \in Competitors : c = job[r].comp
        BY <1>9, BusyJob DEF InsertSnapshot, UpdateCompetitor
    <2>. QED
        BY <1>5, <1>6, <1>9, <2>1 DEF Promise!Next
<1>10. ASSUME NEW c \in Competitors, AddCompetitor(c) \/ RemoveCompetitor(c) \/ ResumeCompetitor(c)
       PROVE  Promise!Next
    BY <1>1, <1>2, <1>3, <1>10 DEF Promise!Next
<1>. QED
    BY <1>7, <1>8, <1>9, <1>10 DEF Next, Request, Begin, CheckStep

(* The engine keeps the promise: overlapping checks, dying instances and   *)
(* requests show a user nothing the abstract monitor would not.            *)
THEOREM EngineKeepsPromise == Spec => PromiseKept
<1>. QED
    BY PromiseInit, PromiseStep, IInvAlways, PTL
       DEF PromiseKept, Spec, Promise!Spec

-----------------------------------------------------------------------------
(* The watchlist.                                                          *)
Signals == {s \in [Fields -> {Null} \cup Texts \cup Seq(Texts)] : IsSignals(s)}
Answers == [of : Nat, says : Signals]
WatchItems == [id : Nat, url : Urls \cup {Blank}, signals : Answers \cup {Null},
               previousSignals : Answers \cup {Null}]

-----------------------------------------------------------------------------
(* Helpers: the least of a set of numbers, cutting a list, and taking out  *)
(* one of its elements.                                                    *)
Less == {x \in Nat \X Nat : x[1] < x[2]}

LEMMA LessWellFounded == IsWellFoundedOn(Less, Nat)
  BY NatLessThanWellFounded DEF OpToRel, Less

LEMMA LeastOf ==
  ASSUME NEW S, S \subseteq Nat, S # {}
  PROVE  Min(S) \in S /\ \A i \in S : Min(S) <= i
<1>1. PICK x \in S : \A y \in S : ~(<<y, x>> \in Less)
  BY LessWellFounded, WFMin
<1>2. \A y \in S : y < x => <<y, x>> \in Less
  BY DEF Less
<1>3. ASSUME NEW y \in S PROVE x <= y
  <2>1. x \in Nat /\ y \in Nat
    OBVIOUS
  <2>2. ~(y < x)
    BY <1>1, <1>2
  <2> QED
    BY <2>1, <2>2
<1>4. \E w \in S : \A y \in S : w <= y
  BY <1>3
<1> QED
  BY <1>4 DEF Min

LEMMA Element == ASSUME NEW S, NEW list \in Seq(S), NEW i \in DOMAIN list PROVE list[i] \in S
  OBVIOUS

LEMMA Cutting ==
  ASSUME NEW S, NEW list \in Seq(S), NEW n \in Nat
  PROVE  /\ UpTo(list, n) \in Seq(S)
         /\ Len(UpTo(list, n)) <= n /\ Len(UpTo(list, n)) <= Len(list)
         /\ \A i \in DOMAIN UpTo(list, n) : i \in DOMAIN list /\ UpTo(list, n)[i] = list[i]
<1>1. CASE Len(list) <= n
  BY <1>1 DEF UpTo
<1>2. CASE ~(Len(list) <= n)
  <2>1. Len(list) \in Nat /\ n < Len(list) /\ DOMAIN list = 1 .. Len(list)
    BY <1>2
  <2>2. \A i \in 1 .. n : list[i] \in S
    BY <2>1
  <2>3. /\ SubSeq(list, 1, n) \in Seq(S)
        /\ Len(SubSeq(list, 1, n)) = IF 1 <= n THEN n - 1 + 1 ELSE 0
        /\ \A i \in 1 .. n - 1 + 1 : SubSeq(list, 1, n)[i] = list[1 + i - 1]
    BY <2>2, SubSeqProperties
  <2>4. Len(SubSeq(list, 1, n)) = n
    BY <2>3
  <2>5. UpTo(list, n) = SubSeq(list, 1, n)
    BY <1>2 DEF UpTo
  <2>6. DOMAIN SubSeq(list, 1, n) = 1 .. n
    BY <2>3, <2>4
  <2>7. ASSUME NEW i \in 1 .. n PROVE i \in DOMAIN list /\ SubSeq(list, 1, n)[i] = list[i]
    BY <2>1, <2>3
  <2> QED
    BY <2>1, <2>3, <2>4, <2>5, <2>6, <2>7
<1> QED
  BY <1>1, <1>2

LEMMA Removing ==
  ASSUME NEW S, NEW list \in Seq(S), NEW p \in DOMAIN list
  PROVE  /\ RemoveAt(list, p) \in Seq(S)
         /\ Len(RemoveAt(list, p)) = Len(list) - 1
         /\ \A k \in 1 .. Len(list) - 1 :
                RemoveAt(list, p)[k] = IF k < p THEN list[k] ELSE list[k + 1]
<1> DEFINE n == Len(list)
           low == SubSeq(list, 1, p - 1)
           high == SubSeq(list, p + 1, n)
<1>1. n \in Nat /\ DOMAIN list = 1 .. n /\ p \in 1 .. n
  OBVIOUS
<1>2. \A i \in 1 .. n : list[i] \in S
  BY <1>1
<1>3. /\ low \in Seq(S) /\ Len(low) = p - 1
      /\ \A i \in 1 .. p - 1 : low[i] = list[i]
  <2>1. \A i \in 1 .. p - 1 : list[i] \in S
    BY <1>1, <1>2
  <2>2. /\ low \in Seq(S)
        /\ Len(low) = IF 1 <= p - 1 THEN (p - 1) - 1 + 1 ELSE 0
        /\ \A i \in 1 .. (p - 1) - 1 + 1 : low[i] = list[1 + i - 1]
    BY <2>1, <1>1, SubSeqProperties
  <2> QED
    BY <2>2, <1>1
<1>4. /\ high \in Seq(S) /\ Len(high) = n - p
      /\ \A i \in 1 .. n - p : high[i] = list[p + i]
  <2>1. \A i \in p + 1 .. n : list[i] \in S
    BY <1>1, <1>2
  <2>2. /\ high \in Seq(S)
        /\ Len(high) = IF p + 1 <= n THEN n - (p + 1) + 1 ELSE 0
        /\ \A i \in 1 .. n - (p + 1) + 1 : high[i] = list[(p + 1) + i - 1]
    BY <2>1, <1>1, SubSeqProperties
  <2> HIDE DEF high
  <2>3. ASSUME NEW i \in 1 .. n - p PROVE high[i] = list[p + i]
    <3>1. i \in 1 .. n - (p + 1) + 1 /\ (p + 1) + i - 1 = p + i
      BY <1>1
    <3> QED
      BY <2>2, <3>1
  <2>4. (IF p + 1 <= n THEN n - (p + 1) + 1 ELSE 0) = n - p
    BY <1>1
  <2> QED
    BY <2>2, <2>3, <2>4
<1> HIDE DEF low, high
<1>5. /\ low \o high \in Seq(S) /\ Len(low \o high) = n - 1
      /\ \A k \in 1 .. n - 1 : (low \o high)[k] = IF k <= p - 1 THEN low[k] ELSE high[k - (p - 1)]
  <2>1. Len(low) + Len(high) = n - 1
    BY <1>1, <1>3, <1>4
  <2>2. /\ low \o high \in Seq(S) /\ Len(low \o high) = Len(low) + Len(high)
        /\ \A k \in 1 .. Len(low) + Len(high) : (low \o high)[k] =
               IF k <= Len(low) THEN low[k] ELSE high[k - Len(low)]
    BY <1>3, <1>4, ConcatProperties
  <2> QED
    BY <2>1, <2>2, <1>3
<1>6. \A k \in 1 .. n - 1 : (low \o high)[k] = IF k < p THEN list[k] ELSE list[k + 1]
  <2> TAKE k \in 1 .. n - 1
  <2>1. CASE k < p
    BY <2>1, <1>1, <1>3, <1>5
  <2>2. CASE ~(k < p)
    <3>1. k - (p - 1) \in 1 .. n - p /\ p + (k - (p - 1)) = k + 1
      BY <2>2, <1>1
    <3>2. high[k - (p - 1)] = list[p + (k - (p - 1))]
      BY <3>1, <1>4
    <3>3. ~(k <= p - 1)
      BY <2>2, <1>1
    <3> QED
      BY <3>1, <3>2, <3>3, <2>2, <1>5
  <2> QED
    BY <2>1, <2>2
<1>7. RemoveAt(list, p) = low \o high
  BY DEF RemoveAt, low, high
<1> QED
  BY <1>5, <1>6, <1>7

-----------------------------------------------------------------------------
(* What is read off a page, and what the storage keeps of it, are signals. *)
LEMMA Extracting ==
  ASSUME NEW parts, IsParts(parts)
  PROVE  ExtractPageSignals(parts) \in Signals \cup {Null}
<1> DEFINE known == {i \in DOMAIN parts.labels : parts.labels[i].known}
           Detected(list) == IF list = <<>> THEN Null ELSE UpTo(list, MaxListItems)
           signals ==
             [headline     |-> IF parts.headings # <<>> THEN Head(parts.headings) ELSE parts.title,
              cta          |-> IF known # {} THEN parts.labels[Min(known)].text ELSE parts.phrase,
              offer        |-> parts.offer,
              positioning  |-> parts.positioning,
              rawSummary   |-> parts.metaDescription,
              benefits     |-> Detected(parts.benefits),
              trustSignals |-> Detected(parts.trust)]
<1>1. ASSUME NEW list \in Seq(Texts) PROVE Detected(list) = Null \/ Detected(list) \in Seq(Texts)
  BY Cutting, PageAssumption
<1>2. signals.headline = Null \/ signals.headline \in Texts
  <2>1. CASE parts.headings # <<>>
    <3>1. Head(parts.headings) \in Texts
      BY <2>1, HeadTailProperties DEF IsParts
    <3> QED
      BY <3>1, <2>1
  <2>2. CASE parts.headings = <<>>
    BY <2>2 DEF IsParts
  <2> QED
    BY <2>1, <2>2
<1>3. signals.cta = Null \/ signals.cta \in Texts
  <2>1. CASE known # {}
    <3>1. known \subseteq Nat
      BY DEF IsParts
    <3>2. Min(known) \in DOMAIN parts.labels
      BY <2>1, <3>1, LeastOf
    <3>3. parts.labels[Min(known)] \in [text : Texts, known : BOOLEAN]
      <4>1. parts.labels \in Seq([text : Texts, known : BOOLEAN])
        BY DEF IsParts
      <4> HIDE DEF known
      <4> QED
        BY <3>2, <4>1, Element
    <3> QED
      BY <2>1, <3>3
  <2>2. CASE known = {}
    BY <2>2 DEF IsParts
  <2> QED
    BY <2>1, <2>2
<1>4. /\ signals.offer = Null \/ signals.offer \in Texts
      /\ signals.positioning = Null \/ signals.positioning \in Texts
      /\ signals.rawSummary = Null \/ signals.rawSummary \in Texts
  BY DEF IsParts
<1>5. /\ signals.benefits = Null \/ signals.benefits \in Seq(Texts)
      /\ signals.trustSignals = Null \/ signals.trustSignals \in Seq(Texts)
  BY <1>1 DEF IsParts
<1>6. ExtractPageSignals(parts) = IF signals = Nothing THEN Null ELSE signals
  BY DEF ExtractPageSignals
<1>7. DOMAIN signals = Fields
  BY DEF Fields, Strings, Lines, Lists
<1>8. signals = [f \in Fields |-> signals[f]]
  BY DEF Fields, Strings, Lines, Lists
<1> HIDE DEF signals
<1>9. \A f \in Strings : signals[f] = Null \/ signals[f] \in Texts
  BY <1>2, <1>3, <1>4 DEF Strings, Lines
<1>10. \A f \in Lists : signals[f] = Null \/ signals[f] \in Seq(Texts)
  BY <1>5 DEF Lists
<1>11. signals \in [Fields -> {Null} \cup Texts \cup Seq(Texts)]
  BY <1>8, <1>9, <1>10 DEF Fields
<1> QED
  BY <1>6, <1>7, <1>9, <1>10, <1>11 DEF Signals, IsSignals

LEMMA Sanitizing == \A s \in Signals : SanitizeSignals(s) \in Signals \cup {Null}
<1> SUFFICES ASSUME NEW s \in Signals, s # Null, s # Nothing
             PROVE  SanitizeSignals(s) \in Signals
  BY DEF SanitizeSignals
<1> DEFINE kept == [f \in Fields |-> IF f \in Lists /\ s[f] # Null THEN UpTo(s[f], MaxStored) ELSE s[f]]
<1>1. SanitizeSignals(s) = kept
  BY DEF SanitizeSignals
<1>2. \A f \in Lists : kept[f] = Null \/ kept[f] \in Seq(Texts)
  BY Cutting, PageAssumption DEF Fields, Signals, IsSignals
<1>3. \A f \in Strings : kept[f] = Null \/ kept[f] \in Texts
  BY DEF Fields, Strings, Lines, Lists, Signals, IsSignals
<1>4. DOMAIN kept = Fields
  OBVIOUS
<1>5. \A f \in Fields : kept[f] \in {Null} \cup Texts \cup Seq(Texts)
  BY <1>2, <1>3 DEF Fields
<1> QED
  BY <1>1, <1>2, <1>3, <1>4, <1>5 DEF Signals, IsSignals

-----------------------------------------------------------------------------
(* The comparisons of two reads.                                           *)
LEMMA WordsSaid == \A s \in Signals : \A f \in Lists : "" \notin Words(s[f])
<1> SUFFICES ASSUME NEW s \in Signals, NEW f \in Lists, s[f] # Null
             PROVE  "" \notin Words(s[f])
  BY DEF Words
<1>1. s[f] \in Seq(Texts)
  BY DEF Signals, IsSignals
<1>2. \A text \in ToSet(s[f]) : text \in Texts
  BY <1>1 DEF ToSet
<1> QED
  BY <1>2, PageAssumption DEF Words

LEMMA SameHashNoChange ==
  ASSUME NEW prev \in Signals, NEW next \in Signals,
         CanonicalizeSignals(prev) = CanonicalizeSignals(next)
  PROVE  DiffPageSignals(prev, next) = {}
<1> DEFINE Said(list, i) == list[i].word # "" /\ \A j \in 1 .. i - 1 : list[j].word # list[i].word
           Order(list) ==
             {pair \in Words(list) \X Words(list) : \E i, j \in DOMAIN list :
                 i < j /\ Said(list, i) /\ Said(list, j) /\ pair = <<list[i].word, list[j].word>>}
           Once(list) == [words |-> Words(list) \ {""}, order |-> Order(list)]
           lines(s) == {f \in Strings : Norm(s[f]) # ""}
           lists(s) == {f \in Lists : Words(s[f]) \ {""} # {}}
           form(s) == [f \in lines(s) \cup lists(s) |-> IF f \in Lists THEN Once(s[f]) ELSE Norm(s[f])]
<1>1. ASSUME NEW s
      PROVE  /\ DOMAIN CanonicalizeSignals(s) = lines(s) \cup lists(s)
             /\ \A f \in lines(s) : CanonicalizeSignals(s)[f] = Norm(s[f])
             /\ \A f \in lists(s) : CanonicalizeSignals(s)[f].words = Words(s[f]) \ {""}
  <2>1. CanonicalizeSignals(s) = form(s)
    BY DEF CanonicalizeSignals
  <2>2. Lines \cup {"rawSummary"} = Strings /\ Strings \cap Lists = {}
    BY DEF Strings, Lines, Lists
  <2>3. \A list : Once(list).words = Words(list) \ {""}
    OBVIOUS
  <2> HIDE DEF Once
  <2>4. /\ DOMAIN form(s) = lines(s) \cup lists(s)
        /\ \A f \in lines(s) : form(s)[f] = Norm(s[f])
        /\ \A f \in lists(s) : form(s)[f] = Once(s[f])
    BY <2>2
  <2> QED
    BY <2>1, <2>3, <2>4
<1>2. ASSUME NEW f \in Lines PROVE Norm(prev[f]) = Norm(next[f])
  <2>1. f \in Strings
    BY DEF Strings
  <2>2. f \in lines(prev) <=> f \in lines(next)
    BY <1>1, <2>1 DEF Strings, Lines, Lists
  <2> QED
    BY <1>1, <2>1, <2>2
<1>3. ASSUME NEW f \in Lists PROVE Words(next[f]) \ Words(prev[f]) = {}
  <2>1. f \in lists(prev) <=> f \in lists(next)
    <3>1. f \notin lines(prev) /\ f \notin lines(next)
      BY DEF Strings, Lines, Lists
    <3>2. lines(prev) \cup lists(prev) = lines(next) \cup lists(next)
      BY <1>1
    <3> HIDE DEF lines, lists
    <3> QED
      BY <3>1, <3>2
  <2>2. Words(prev[f]) \ {""} = Words(next[f]) \ {""}
    BY <1>1, <2>1
  <2> QED
    BY <2>2, WordsSaid
<1> QED
  BY <1>2, <1>3 DEF DiffPageSignals

LEMMA NotesFollowTheCard ==
  ASSUME NEW prev, NEW next
  PROVE  (DiffPageSignals(prev, next) = {})
           = (GroupSignalChanges(prev, next) = {"No meaningful change"})
<1> DEFINE lines == {f \in Lines : Norm(prev[f]) # Norm(next[f])}
           lists == {f \in Lists : ~(Words(next[f]) \subseteq Words(prev[f]))}
           said == {Category(f) : f \in lines} \cup {Category(f) : f \in lists}
<1>1. DiffPageSignals(prev, next) = lines \cup lists
  BY DEF DiffPageSignals
<1>2. GroupSignalChanges(prev, next) = IF said = {} THEN {"No meaningful change"} ELSE said
  BY DEF GroupSignalChanges
<1>3. \A f \in Lines \cup Lists : Category(f) # "No meaningful change"
  BY DEF Category, Lines, Lists
<1>4. (said = {}) <=> (lines \cup lists = {})
  OBVIOUS
<1>5. "No meaningful change" \notin said
  BY <1>3
<1> HIDE DEF said
<1> QED
  BY <1>1, <1>2, <1>4, <1>5

LEMMA MonitoringSaysNoMore ==
  ASSUME NEW prev, NEW next
  PROVE  /\ DiffSnapshots(prev, next) \subseteq DiffPageSignals(prev, next)
         /\ \A f \in DiffSnapshots(prev, next) : prev[f] # Null /\ next[f] # Null
<1> DEFINE a == [f \in Fields |-> IF next[f] = Null THEN Null ELSE prev[f]]
           b == [f \in Fields |-> IF prev[f] = Null THEN Null ELSE next[f]]
<1>1. DiffSnapshots(prev, next) = {} \/ DiffSnapshots(prev, next) = DiffPageSignals(a, b)
  BY DEF DiffSnapshots
<1>2. Lines \subseteq Fields /\ Lists \subseteq Fields
  BY DEF Fields, Strings
<1>3. ASSUME NEW f \in Lines, Norm(a[f]) # Norm(b[f])
      PROVE  prev[f] # Null /\ next[f] # Null /\ Norm(prev[f]) # Norm(next[f])
  BY <1>2, <1>3
<1>4. ASSUME NEW f \in Lists, Words(b[f]) \ Words(a[f]) # {}
      PROVE  prev[f] # Null /\ next[f] # Null /\ Words(next[f]) \ Words(prev[f]) # {}
  BY <1>2, <1>4 DEF Words
<1>5. \A f \in DiffPageSignals(a, b) :
         prev[f] # Null /\ next[f] # Null /\ f \in DiffPageSignals(prev, next)
  BY <1>3, <1>4 DEF DiffPageSignals
<1> QED
  BY <1>1, <1>5

-----------------------------------------------------------------------------
(* The inductive invariant.                                                *)
Typed ==
    /\ items \in Seq(WatchItems) /\ Len(items) <= MaxWatchlistItems
    /\ saved \in Seq(WatchItems)
    /\ mount \in Mounts /\ shown \in BOOLEAN
    /\ cards \in [Places -> {"none", "loading", "done", "error"}]
    /\ guard \in [Mounts -> SUBSET Places]
    /\ loop = [m \in Mounts |-> loop[m]]
    /\ \A r \in wire : r.mount \in Mounts /\ r.place \in Places /\ r.id \in Nat /\ r.url \in Urls
    /\ born \in Nat /\ disturbed \in BOOLEAN

Numbered(list) ==
    /\ \A i \in DOMAIN list : list[i].id <= born
    /\ \A i, j \in DOMAIN list : list[i].id = list[j].id => i = j

Exact(list) == \A i \in DOMAIN list : \A read \in ReadFor(list[i]) : read.of = list[i].id

\* A "Refresh all" that did not end waits for a call on its way.
LoopWaits == \A m \in Mounts : loop[m] # Null => \E r \in wire : r.n = loop[m].at /\ r.mount = m

\* Panels to come have no calls.
NoneAhead == \A m \in Mounts : m > mount => guard[m] = {} /\ \A r \in wire : r.mount # m

CallsSound ==
    /\ \A r \in wire : /\ shown /\ r.mount = mount
                       /\ r.place \in DOMAIN items /\ r.id = items[r.place].id
    /\ \A r, q \in wire : r.place = q.place => r = q
    /\ \A p \in Places : p \in guard[mount] <=> \E r \in wire : r.place = p

CardsSound ==
    \A p \in Places :
        /\ cards[p] = "loading" => \E r \in wire : r.place = p
        /\ cards[p] = "done" => p \in DOMAIN items /\ items[p].signals # Null

Undisturbed == CallsSound /\ CardsSound /\ Exact(items) /\ Exact(saved)

WatchInv ==
    /\ Typed
    /\ Numbered(items) /\ Numbered(saved)
    /\ NoneAhead
    /\ LoopWaits
    /\ ~disturbed => Undisturbed

-----------------------------------------------------------------------------
(* What the actions share: the list read from the storage, the list set,   *)
(* the call made and the place a "Refresh all" goes on with.               *)
LEMMA SanitizedItem ==
  ASSUME NEW list \in Seq(WatchItems)
  PROVE  /\ SanitizeWatchlist(list) \in Seq(WatchItems)
         /\ Len(SanitizeWatchlist(list)) <= MaxWatchlistItems
         /\ \A i \in DOMAIN SanitizeWatchlist(list) :
                /\ i \in DOMAIN list
                /\ SanitizeWatchlist(list)[i].id = list[i].id
                /\ \A read \in ReadFor(SanitizeWatchlist(list)[i]) :
                       \E old \in ReadFor(list[i]) : read.of = old.of
<1> DEFINE Kept(read) == IF read = Null THEN Null
                         ELSE LET says == SanitizeSignals(read.says)
                              IN  IF says = Null THEN Null ELSE [read EXCEPT !.says = says]
           cut == UpTo(list, MaxWatchlistItems)
           clean == [i \in DOMAIN cut |-> [list[i] EXCEPT !.signals = Kept(@), !.previousSignals = Kept(@)]]
<1>1. /\ cut \in Seq(WatchItems) /\ Len(cut) <= MaxWatchlistItems
      /\ \A i \in DOMAIN cut : i \in DOMAIN list
  BY Cutting, WatchlistConstants
<1>2. SanitizeWatchlist(list) = clean
  BY DEF SanitizeWatchlist
<1>3. ASSUME NEW read \in Answers \cup {Null}
      PROVE  /\ Kept(read) \in Answers \cup {Null}
             /\ Kept(read) # Null => read # Null /\ Kept(read).of = read.of
  <2>1. CASE read = Null
    BY <2>1
  <2>2. CASE read # Null
    <3>1. read \in Answers
      BY <2>2
    <3>2. read.says \in Signals
      BY <3>1 DEF Answers
    <3>3. SanitizeSignals(read.says) \in Signals \cup {Null}
      BY <3>2, Sanitizing
    <3>4. CASE SanitizeSignals(read.says) = Null
      BY <2>2, <3>4
    <3>5. CASE SanitizeSignals(read.says) # Null
      <4>1. Kept(read) = [read EXCEPT !.says = SanitizeSignals(read.says)]
        BY <2>2, <3>5
      <4>2. [read EXCEPT !.says = SanitizeSignals(read.says)] \in Answers
        BY <3>1, <3>3, <3>5 DEF Answers
      <4>3. [read EXCEPT !.says = SanitizeSignals(read.says)].of = read.of
        BY <3>1 DEF Answers
      <4> QED
        BY <2>2, <4>1, <4>2, <4>3
    <3> QED
      BY <3>4, <3>5
  <2> QED
    BY <2>1, <2>2
<1> HIDE DEF Kept
<1>4. ASSUME NEW i \in DOMAIN cut
      PROVE  /\ clean[i] \in WatchItems /\ clean[i].id = list[i].id
             /\ clean[i].signals = Kept(list[i].signals)
             /\ clean[i].previousSignals = Kept(list[i].previousSignals)
             /\ list[i] \in WatchItems
  <2>1. list[i] \in WatchItems
    BY <1>1, Element
  <2>2. clean[i] = [list[i] EXCEPT !.signals = Kept(@), !.previousSignals = Kept(@)]
    OBVIOUS
  <2> QED
    BY <1>3, <2>1, <2>2 DEF WatchItems
<1>5. DOMAIN clean = 1 .. Len(cut) /\ Len(cut) \in Nat
  BY <1>1
<1>6. clean \in Seq(WatchItems) /\ Len(clean) = Len(cut)
  <2>1. clean = [i \in 1 .. Len(cut) |-> clean[i]]
    BY <1>5
  <2>2. \A i \in 1 .. Len(cut) : clean[i] \in WatchItems
    BY <1>4, <1>5
  <2> HIDE DEF clean, cut
  <2> QED
    BY <1>5, <2>1, <2>2, IsASeq
<1>7. ASSUME NEW i \in DOMAIN cut, NEW read \in ReadFor(clean[i])
      PROVE  \E old \in ReadFor(list[i]) : read.of = old.of
  <2>1. /\ list[i].signals \in Answers \cup {Null}
        /\ list[i].previousSignals \in Answers \cup {Null}
    BY <1>4 DEF WatchItems
  <2>2. CASE read = clean[i].signals
    <3>1. read = Kept(list[i].signals) /\ read # Null
      BY <1>4, <2>2 DEF ReadFor
    <3>2. list[i].signals # Null /\ read.of = list[i].signals.of
      BY <1>3, <2>1, <3>1
    <3> QED
      BY <3>2 DEF ReadFor
  <2>3. CASE read = clean[i].previousSignals
    <3>1. read = Kept(list[i].previousSignals) /\ read # Null
      BY <1>4, <2>3 DEF ReadFor
    <3>2. list[i].previousSignals # Null /\ read.of = list[i].previousSignals.of
      BY <1>3, <2>1, <3>1
    <3> QED
      BY <3>2 DEF ReadFor
  <2> QED
    BY <2>2, <2>3 DEF ReadFor
<1>8. DOMAIN clean = DOMAIN cut
  OBVIOUS
<1> HIDE DEF clean, cut
<1>9. \A i \in DOMAIN clean :
         /\ i \in DOMAIN list /\ clean[i].id = list[i].id
         /\ \A read \in ReadFor(clean[i]) : \E old \in ReadFor(list[i]) : read.of = old.of
  BY <1>1, <1>4, <1>7, <1>8
<1>10. clean \in Seq(WatchItems) /\ Len(clean) <= MaxWatchlistItems
  BY <1>1, <1>6
<1> QED
  BY <1>2, <1>9, <1>10

LEMMA ItemIds == ASSUME NEW list \in Seq(WatchItems) PROVE \A i \in DOMAIN list : list[i].id \in Nat
<1>1. \A i \in DOMAIN list : list[i] \in WatchItems
  BY Element
<1> QED
  BY <1>1 DEF WatchItems

LEMMA Setting ==
  ASSUME NEW next \in Seq(WatchItems), Len(next) <= MaxWatchlistItems, SetWatchlist(next)
  PROVE  items' = next /\ saved' \in {next, saved}
  BY DEF SetWatchlist, UpTo

LEMMA NextPlaceSound ==
  ASSUME NEW list \in Seq(WatchItems), NEW busy, NEW from, NEW count
  PROVE  \/ NextPlace(list, busy, from, count) = 0
         \/ MayRefresh(list, busy, NextPlace(list, busy, from, count))
<1> DEFINE open == {p \in from .. count : MayRefresh(list, busy, p)}
<1>1. CASE open = {}
  BY <1>1 DEF NextPlace
<1>2. CASE open # {}
  <2>1. open \subseteq Nat
    BY DEF MayRefresh
  <2>2. Min(open) \in open
    BY <1>2, <2>1, LeastOf
  <2>3. NextPlace(list, busy, from, count) = Min(open)
    BY <1>2 DEF NextPlace
  <2> QED
    BY <2>2, <2>3
<1> QED
  BY <1>1, <1>2

LEMMA CallSound ==
  ASSUME NEW list \in Seq(WatchItems), Len(list) <= MaxWatchlistItems,
         NEW m, NEW p \in DOMAIN list, list[p].url # Blank
  PROVE  /\ p \in Places /\ p # 0
         /\ Call(m, list, p).mount = m /\ Call(m, list, p).place = p
         /\ Call(m, list, p).id = list[p].id /\ Call(m, list, p).id \in Nat
         /\ Call(m, list, p).url \in Urls
<1>1. p \in Places /\ p # 0
  BY WatchlistConstants DEF Places
<1>2. list[p] \in WatchItems
  BY Element
<1> QED
  BY <1>1, <1>2 DEF Call, WatchItems

LEMMA Reading ==
  ASSUME Typed, NEW r \in wire, NEW read \in Reads(r)
  PROVE  read # Null => read \in Answers /\ read.of = r.id
<1>1. r.id \in Nat /\ \A parts \in PagesAt[r.url] : IsParts(parts)
  BY WatchlistConstants DEF Typed
<1>2. \A s \in {ExtractPageSignals(parts) : parts \in PagesAt[r.url]} \ {Null} : s \in Signals
  BY <1>1, Extracting
<1>3. ASSUME NEW s \in Signals
      PROVE  [of |-> r.id, says |-> s] \in Answers /\ [of |-> r.id, says |-> s].of = r.id
  BY <1>1 DEF Answers
<1> QED
  BY <1>2, <1>3 DEF Reads

(* The list after an answer: the item asked for has the answer beside what *)
(* it had, the others are as they were.                                    *)
LEMMA Answering ==
  ASSUME NEW r, NEW read \in Answers, items \in Seq(WatchItems)
  PROVE  /\ Answered(r, read) \in Seq(WatchItems) /\ Len(Answered(r, read)) = Len(items)
         /\ DOMAIN Answered(r, read) = DOMAIN items
         /\ \A i \in DOMAIN items :
                /\ Answered(r, read)[i].id = items[i].id
                /\ i = r.place => /\ Answered(r, read)[i].signals = read
                                  /\ ReadFor(Answered(r, read)[i]) \subseteq {read} \cup ReadFor(items[i])
                /\ i # r.place => Answered(r, read)[i] = items[i]
<1> DEFINE list == Answered(r, read)
<1>1. ASSUME NEW i \in DOMAIN items
      PROVE  /\ list[i] \in WatchItems /\ list[i].id = items[i].id
             /\ i = r.place => list[i].signals = read /\ list[i].previousSignals = items[i].signals
             /\ i # r.place => list[i] = items[i]
  <2>1. items[i] \in WatchItems
    BY Element
  <2>2. list[i] = IF i = r.place THEN [items[i] EXCEPT !.signals = read, !.previousSignals = items[i].signals]
                  ELSE items[i]
    BY DEF Answered
  <2> QED
    BY <2>1, <2>2 DEF WatchItems
<1>2. /\ DOMAIN list = 1 .. Len(items) /\ DOMAIN items = 1 .. Len(items) /\ Len(items) \in Nat
      /\ list = [i \in DOMAIN items |-> list[i]]
  BY DEF Answered
<1> HIDE DEF list
<1>3. list \in Seq(WatchItems) /\ Len(list) = Len(items)
  BY <1>1, <1>2, IsASeq
<1>4. ASSUME NEW i \in DOMAIN items, i = r.place
      PROVE  ReadFor(list[i]) \subseteq {read} \cup ReadFor(items[i])
  BY <1>1, <1>4 DEF ReadFor
<1>5. \A i \in DOMAIN items :
         /\ list[i].id = items[i].id
         /\ i = r.place => /\ list[i].signals = read
                           /\ ReadFor(list[i]) \subseteq {read} \cup ReadFor(items[i])
         /\ i # r.place => list[i] = items[i]
  BY <1>1, <1>4
<1>6. DOMAIN list = DOMAIN items
  BY <1>2
<1> QED
  BY <1>3, <1>5, <1>6 DEF list

-----------------------------------------------------------------------------
(* The initial states.                                                     *)
LEMMA StoredSound ==
  ASSUME NEW list \in Stored
  PROVE  /\ list \in Seq(WatchItems)
         /\ \A i \in DOMAIN list : list[i].id = i
         /\ Exact(list)
<1> DEFINE Kept(i, read) == \/ read = Null
                            \/ read = [of |-> i, says |-> read.says] /\ IsSignals(read.says)
<1>1. /\ list \in Seq(ToSet(list))
      /\ \A i \in DOMAIN list :
             /\ list[i] = [id |-> i, url |-> list[i].url, signals |-> list[i].signals,
                           previousSignals |-> list[i].previousSignals]
             /\ list[i].url \in Urls \cup {Blank}
             /\ Kept(i, list[i].signals) /\ Kept(i, list[i].previousSignals)
  BY WatchlistConstants
<1> HIDE DEF Kept
<1>2. DOMAIN list = 1 .. Len(list) /\ Len(list) \in Nat /\ list = [i \in DOMAIN list |-> list[i]]
  BY <1>1
<1>3. ASSUME NEW s, IsSignals(s) PROVE s \in Signals
  <2>1. \A f \in Fields : s[f] \in {Null} \cup Texts \cup Seq(Texts)
    BY <1>3 DEF IsSignals, Fields
  <2>2. s = [f \in Fields |-> s[f]]
    BY <1>3 DEF IsSignals
  <2>3. s \in [Fields -> {Null} \cup Texts \cup Seq(Texts)]
    BY <2>1, <2>2
  <2> QED
    BY <1>3, <2>3 DEF Signals
<1>4. ASSUME NEW i \in Nat, NEW read, Kept(i, read)
      PROVE  read \in Answers \cup {Null} /\ (read # Null => read.of = i)
  <2>1. CASE read = Null
    BY <2>1
  <2>2. CASE read = [of |-> i, says |-> read.says] /\ IsSignals(read.says)
    BY <2>2, <1>3 DEF Answers
  <2> QED
    BY <2>1, <2>2, <1>4 DEF Kept
<1>5. ASSUME NEW i \in DOMAIN list
      PROVE  /\ list[i] \in WatchItems /\ list[i].id = i
             /\ \A read \in ReadFor(list[i]) : read.of = i
  <2>1. i \in Nat
    BY <1>2
  <2>2. /\ list[i] = [id |-> i, url |-> list[i].url, signals |-> list[i].signals,
                      previousSignals |-> list[i].previousSignals]
        /\ list[i].url \in Urls \cup {Blank}
    BY <1>1
  <2>3. /\ list[i].signals \in Answers \cup {Null}
        /\ list[i].previousSignals \in Answers \cup {Null}
        /\ list[i].signals # Null => list[i].signals.of = i
        /\ list[i].previousSignals # Null => list[i].previousSignals.of = i
    BY <1>1, <1>4, <2>1
  <2>4. list[i].id = i
    BY <2>2
  <2> QED
    BY <2>1, <2>2, <2>3, <2>4 DEF WatchItems, ReadFor
<1>6. list \in Seq(WatchItems)
  BY <1>2, <1>5, IsASeq
<1> QED
  BY <1>5, <1>6 DEF Exact

LEMMA InitSound == WatchInit => WatchInv
<1> SUFFICES ASSUME WatchInit PROVE WatchInv
  OBVIOUS
<1>1. /\ saved \in Seq(WatchItems)
      /\ \A i \in DOMAIN saved : saved[i].id = i
      /\ Exact(saved)
  <2>1. CASE saved = <<>>
    BY <2>1 DEF Exact
  <2>2. CASE saved \in Stored
    BY <2>2, StoredSound
  <2> QED
    BY <2>1, <2>2 DEF WatchInit
<1>2. /\ items \in Seq(WatchItems) /\ Len(items) <= MaxWatchlistItems
      /\ \A i \in DOMAIN items :
             /\ i \in DOMAIN saved /\ items[i].id = saved[i].id
             /\ \A read \in ReadFor(items[i]) : \E old \in ReadFor(saved[i]) : read.of = old.of
  BY <1>1, SanitizedItem DEF WatchInit
<1>3. /\ mount = 1 /\ shown = TRUE /\ cards = NoCards /\ guard = [m \in Mounts |-> {}]
      /\ loop = [m \in Mounts |-> Null] /\ wire = {} /\ born = Len(saved) /\ disturbed = FALSE
  BY DEF WatchInit
<1>4. 1 \in Mounts
  BY WatchlistConstants DEF Mounts
<1>5. Len(saved) \in Nat /\ DOMAIN saved = 1 .. Len(saved)
  BY <1>1
<1>6. Typed
  <2>1. mount \in Mounts /\ shown \in BOOLEAN /\ disturbed \in BOOLEAN /\ born \in Nat
    BY <1>3, <1>4, <1>5
  <2>2. /\ cards \in [Places -> {"none", "loading", "done", "error"}]
        /\ guard \in [Mounts -> SUBSET Places]
    BY <1>3 DEF NoCards
  <2>3. loop = [m \in Mounts |-> loop[m]] /\ wire = {}
    BY <1>3
  <2> QED
    BY <1>1, <1>2, <2>1, <2>2, <2>3 DEF Typed
<1>7. Numbered(saved) /\ Numbered(items)
  BY <1>1, <1>2, <1>3, <1>5 DEF Numbered
<1>8. Exact(items)
  BY <1>1, <1>2 DEF Exact
<1>9. CallsSound /\ CardsSound
  BY <1>3, <1>4 DEF CallsSound, CardsSound, NoCards
<1>10. LoopWaits /\ NoneAhead
  BY <1>3 DEF LoopWaits, NoneAhead
<1> QED
  BY <1>1, <1>6, <1>7, <1>8, <1>9, <1>10 DEF WatchInv, Undisturbed

-----------------------------------------------------------------------------
(* Editing the list.                                                       *)
LEMMA AddStep == ASSUME WatchInv, AddWatchItem PROVE WatchInv'
<1> DEFINE added == Item(born + 1, Blank)
           list == Append(items, added)
<1>1. /\ Typed /\ Numbered(items) /\ Numbered(saved) /\ LoopWaits
      /\ NoneAhead
      /\ ~disturbed => Undisturbed
  BY DEF WatchInv
<1>2. /\ Len(items) < MaxWatchlistItems /\ SetWatchlist(list) /\ born' = born + 1
      /\ UNCHANGED <<mount, shown, cards, guard, loop, wire, disturbed>>
  BY DEF AddWatchItem
<1>3. items \in Seq(WatchItems) /\ born \in Nat /\ Len(items) \in Nat /\ DOMAIN items = 1 .. Len(items)
  BY <1>1 DEF Typed
<1>4. added \in WatchItems /\ added.id = born + 1 /\ ReadFor(added) = {}
  BY <1>3 DEF Item, WatchItems, ReadFor
<1> HIDE DEF added
<1>5. /\ list \in Seq(WatchItems) /\ Len(list) = Len(items) + 1 /\ DOMAIN list = 1 .. Len(items) + 1
      /\ \A i \in DOMAIN items : list[i] = items[i]
      /\ list[Len(items) + 1] = added
  BY <1>3, <1>4, AppendProperties
<1> HIDE DEF list
<1>6. Len(list) <= MaxWatchlistItems
  BY <1>2, <1>3, <1>5, WatchlistConstants
<1>7. items' = list /\ saved' \in {list, saved}
  BY <1>2, <1>5, <1>6, Setting
<1>8. Typed'
  BY <1>1, <1>2, <1>3, <1>5, <1>6, <1>7 DEF Typed
<1>9. \A i \in DOMAIN list : i \in DOMAIN items \/ i = Len(items) + 1
  BY <1>3, <1>5
<1>10. /\ \A i \in DOMAIN list : list[i].id <= born + 1
       /\ \A i, j \in DOMAIN list : list[i].id = list[j].id => i = j
  <2>1. \A i \in DOMAIN items : list[i].id <= born /\ list[i].id \in Nat
    BY <1>1, <1>3, <1>5, ItemIds DEF Numbered
  <2>2. list[Len(items) + 1].id = born + 1
    BY <1>4, <1>5
  <2>3. \A i, j \in DOMAIN items : list[i].id = list[j].id => i = j
    BY <1>1, <1>5 DEF Numbered
  <2>4. \A i \in DOMAIN list : list[i].id <= born + 1
    BY <1>3, <1>9, <2>1, <2>2
  <2>5. ASSUME NEW i \in DOMAIN list, NEW j \in DOMAIN list, list[i].id = list[j].id PROVE i = j
    <3>1. CASE i \in DOMAIN items /\ j \in DOMAIN items
      BY <2>3, <2>5, <3>1
    <3>2. CASE i \notin DOMAIN items \/ j \notin DOMAIN items
      BY <1>3, <1>9, <2>1, <2>2, <2>5, <3>2
    <3> QED
      BY <3>1, <3>2
  <2> QED
    BY <2>4, <2>5
<1>11. Numbered(items)'
  BY <1>2, <1>7, <1>10 DEF Numbered
<1>12. \A i \in DOMAIN saved : saved[i].id <= born + 1
  <2>1. \A i \in DOMAIN saved : saved[i].id \in Nat /\ saved[i].id <= born
    BY <1>1, ItemIds DEF Numbered, Typed
  <2> QED
    BY <1>3, <2>1
<1>13. Numbered(saved)'
  BY <1>1, <1>2, <1>7, <1>10, <1>12 DEF Numbered
<1>14. ASSUME ~disturbed PROVE Undisturbed'
  <2>1. CallsSound /\ CardsSound /\ Exact(items) /\ Exact(saved)
    BY <1>1, <1>14 DEF Undisturbed
  <2>2. CallsSound'
    BY <1>2, <1>5, <1>7, <1>9, <2>1, <1>3 DEF CallsSound
  <2>3. CardsSound'
    BY <1>2, <1>5, <1>7, <1>3, <2>1 DEF CardsSound
  <2>4. \A i \in DOMAIN list : \A read \in ReadFor(list[i]) : read.of = list[i].id
    BY <1>4, <1>5, <1>9, <2>1 DEF Exact
  <2>5. Exact(items)' /\ Exact(saved)'
    BY <1>7, <2>1, <2>4 DEF Exact
  <2> QED
    BY <2>2, <2>3, <2>5 DEF Undisturbed
<1>15. LoopWaits'
  BY <1>1, <1>2 DEF LoopWaits
<1> QED
  BY <1>1, <1>2, <1>8, <1>11, <1>13, <1>14, <1>15 DEF WatchInv, NoneAhead

(* A list of no more items than before, each as it was but for what was    *)
(* not read for it: its numbers are apart, and it is exact if the other    *)
(* was.                                                                    *)
LEMMA SublistSound ==
  ASSUME NEW list, NEW before, NEW from, Numbered(before),
         \A i \in DOMAIN list : /\ from[i] \in DOMAIN before
                                /\ list[i].id = before[from[i]].id,
         \A i, j \in DOMAIN list : from[i] = from[j] => i = j
  PROVE  Numbered(list)
  BY DEF Numbered

LEMMA TypeUrlStep == ASSUME WatchInv, NEW p \in Places, NEW url \in Urls \cup {Blank}, TypeUrl(p, url) PROVE WatchInv'
<1>1. /\ Typed /\ Numbered(items) /\ Numbered(saved) /\ LoopWaits
      /\ NoneAhead
      /\ ~disturbed => Undisturbed
  BY DEF WatchInv
<1> DEFINE list == [items EXCEPT ![p].url = url]
<1>2. /\ p \in DOMAIN items /\ SetWatchlist(list) /\ cards' = [cards EXCEPT ![p] = "none"]
      /\ UNCHANGED <<mount, shown, guard, loop, wire, born, disturbed>>
  BY DEF TypeUrl, history
<1>3. items \in Seq(WatchItems) /\ Len(items) <= MaxWatchlistItems
  BY <1>1 DEF Typed
<1>4. [items[p] EXCEPT !.url = url] \in WatchItems
  <2>1. items[p] \in WatchItems
    BY <1>2, <1>3, Element
  <2> QED
    BY <2>1 DEF WatchItems
<1>5. /\ list \in Seq(WatchItems) /\ Len(list) = Len(items) /\ DOMAIN list = DOMAIN items
      /\ \A i \in DOMAIN items : /\ list[i].id = items[i].id
                                 /\ list[i].signals = items[i].signals
                                 /\ ReadFor(list[i]) = ReadFor(items[i])
  <2>1. list = [items EXCEPT ![p] = [items[p] EXCEPT !.url = url]]
    BY <1>2
  <2>2. list \in Seq(WatchItems) /\ Len(list) = Len(items) /\ DOMAIN list = DOMAIN items
    BY <1>2, <1>3, <1>4, <2>1, ExceptSeq
  <2>3. \A i \in DOMAIN items : items[i] \in WatchItems
    BY <1>3, Element
  <2>4. ASSUME NEW i \in DOMAIN items
        PROVE  /\ list[i].id = items[i].id /\ list[i].signals = items[i].signals
               /\ list[i].previousSignals = items[i].previousSignals
    BY <2>3, <2>4 DEF WatchItems
  <2> QED
    BY <2>2, <2>4 DEF ReadFor
<1> HIDE DEF list
<1>6. items' = list /\ saved' \in {list, saved}
  BY <1>2, <1>3, <1>5, Setting
<1>7. Typed'
  <2>1. cards' \in [Places -> {"none", "loading", "done", "error"}]
    BY <1>1, <1>2 DEF Typed
  <2> QED
    BY <1>1, <1>2, <1>3, <1>5, <1>6, <2>1 DEF Typed
<1>8. Numbered(items)' /\ Numbered(saved)'
  BY <1>1, <1>2, <1>5, <1>6 DEF Numbered
<1>9. ASSUME ~disturbed PROVE Undisturbed'
  <2>1. CallsSound /\ CardsSound /\ Exact(items) /\ Exact(saved)
    BY <1>1, <1>9 DEF Undisturbed
  <2>2. CallsSound'
    BY <1>2, <1>5, <1>6, <2>1 DEF CallsSound
  <2>3. \A q \in Places : cards'[q] \in {"loading", "done"} => cards'[q] = cards[q]
    BY <1>1, <1>2 DEF Typed
  <2>4. CardsSound'
    BY <1>2, <1>5, <1>6, <2>1, <2>3 DEF CardsSound
  <2>5. Exact(items)' /\ Exact(saved)'
    BY <1>5, <1>6, <2>1 DEF Exact
  <2> QED
    BY <2>2, <2>4, <2>5 DEF Undisturbed
<1>10. LoopWaits'
  BY <1>1, <1>2 DEF LoopWaits
<1> QED
  BY <1>1, <1>2, <1>7, <1>8, <1>9, <1>10 DEF WatchInv, NoneAhead

LEMMA RemoveStep == ASSUME WatchInv, NEW p \in Places, RemoveWatchItem(p) PROVE WatchInv'
<1>1. /\ Typed /\ Numbered(items) /\ Numbered(saved) /\ LoopWaits
      /\ NoneAhead
      /\ ~disturbed => Undisturbed
  BY DEF WatchInv
<1> DEFINE list == RemoveAt(items, p)
           from == [k \in Nat |-> IF k < p THEN k ELSE k + 1]
<1>2. /\ p \in DOMAIN items /\ SetWatchlist(list)
      /\ cards' = [k \in Places |-> IF k < p THEN cards[k]
                                    ELSE IF k < MaxWatchlistItems THEN cards[k + 1] ELSE "none"]
      /\ disturbed' = (disturbed \/ wire # {})
      /\ UNCHANGED <<mount, shown, guard, loop, wire, born>>
  BY DEF RemoveWatchItem
<1>3. /\ items \in Seq(WatchItems) /\ Len(items) <= MaxWatchlistItems /\ Len(items) \in Nat
      /\ DOMAIN items = 1 .. Len(items) /\ p \in Nat
  BY <1>1 DEF Typed, Places
<1>4. /\ list \in Seq(WatchItems) /\ Len(list) = Len(items) - 1
      /\ \A k \in 1 .. Len(items) - 1 : list[k] = IF k < p THEN items[k] ELSE items[k + 1]
  BY <1>2, <1>3, Removing
<1>5. DOMAIN list = 1 .. Len(items) - 1
  BY <1>4
<1> HIDE DEF list
<1>6. ASSUME NEW k \in DOMAIN list
      PROVE  from[k] \in DOMAIN items /\ list[k] = items[from[k]]
  <2>1. k \in Nat /\ from[k] = IF k < p THEN k ELSE k + 1
    BY <1>5, <1>3
  <2>2. from[k] \in DOMAIN items
    BY <1>3, <1>5, <2>1
  <2> QED
    BY <1>4, <1>5, <2>1, <2>2
<1>7. ASSUME NEW i \in DOMAIN list, NEW j \in DOMAIN list, from[i] = from[j] PROVE i = j
  <2>1. i \in Nat /\ j \in Nat
    BY <1>5, <1>3
  <2>2. from[i] = (IF i < p THEN i ELSE i + 1) /\ from[j] = (IF j < p THEN j ELSE j + 1)
    BY <2>1
  <2> HIDE DEF from
  <2> QED
    BY <2>1, <2>2, <1>3, <1>7
<1> HIDE DEF from
<1>8. Len(list) <= MaxWatchlistItems
  BY <1>3, <1>4, WatchlistConstants
<1>9. items' = list /\ saved' \in {list, saved}
  BY <1>2, <1>4, <1>8, Setting
<1>10. Typed'
  <2>1. ASSUME NEW k \in Places PROVE cards'[k] \in {"none", "loading", "done", "error"}
    <3>1. k < MaxWatchlistItems => k + 1 \in Places
      BY WatchlistConstants DEF Places
    <3> QED
      BY <1>1, <1>2, <3>1 DEF Typed
  <2>2. cards' \in [Places -> {"none", "loading", "done", "error"}]
    BY <1>2, <2>1
  <2> QED
    BY <1>1, <1>2, <1>4, <1>8, <1>9, <2>2 DEF Typed
<1>11. Numbered(list)
  BY <1>1, <1>6, <1>7, SublistSound
<1>12. Numbered(items)' /\ Numbered(saved)'
  BY <1>1, <1>2, <1>9, <1>11 DEF Numbered
<1>13. ASSUME ~disturbed' PROVE Undisturbed'
  <2>1. CallsSound /\ CardsSound /\ Exact(items) /\ Exact(saved) /\ wire = {}
    BY <1>1, <1>2, <1>13 DEF Undisturbed
  <2>2. CallsSound'
    BY <1>2, <2>1 DEF CallsSound
  <2>3. CardsSound'
    <3>1. ASSUME NEW k \in Places
          PROVE  cards'[k] # "loading" /\ (cards'[k] = "done" => k \in DOMAIN list /\ list[k].signals # Null)
      <4>1. CASE k < p
        <5>1. cards'[k] = cards[k]
          BY <1>2, <4>1
        <5>2. k \in DOMAIN list /\ list[k] = items[k]
          BY <1>2, <1>3, <1>4, <1>5, <4>1 DEF Places
        <5> QED
          BY <2>1, <5>1, <5>2 DEF CardsSound
      <4>2. CASE ~(k < p) /\ k < MaxWatchlistItems
        <5>1. cards'[k] = cards[k + 1] /\ k + 1 \in Places
          BY <1>2, <4>2, WatchlistConstants DEF Places
        <5>2. cards[k + 1] # "loading" /\ (cards[k + 1] = "done" => k + 1 \in DOMAIN items /\ items[k + 1].signals # Null)
          BY <2>1, <5>1 DEF CardsSound
        <5>3. k + 1 \in DOMAIN items => k \in DOMAIN list /\ list[k] = items[k + 1]
          BY <1>3, <1>4, <1>5, <4>2 DEF Places
        <5> QED
          BY <5>1, <5>2, <5>3
      <4>3. CASE ~(k < p) /\ ~(k < MaxWatchlistItems)
        BY <1>2, <4>3
      <4> QED
        BY <4>1, <4>2, <4>3
    <3> QED
      BY <1>9, <3>1 DEF CardsSound
  <2>4. Exact(items)' /\ Exact(saved)'
    BY <1>6, <1>9, <2>1 DEF Exact
  <2> QED
    BY <2>2, <2>3, <2>4 DEF Undisturbed
<1>14. LoopWaits'
  BY <1>1, <1>2 DEF LoopWaits
<1> QED
  BY <1>1, <1>2, <1>10, <1>12, <1>13, <1>14 DEF WatchInv, NoneAhead

LEMMA ClearStep == ASSUME WatchInv, ClearWatchlist PROVE WatchInv'
<1>1. /\ Typed /\ Numbered(items) /\ Numbered(saved) /\ LoopWaits
      /\ NoneAhead
      /\ ~disturbed => Undisturbed
  BY DEF WatchInv
<1>2. /\ SetWatchlist(<<>>) /\ cards' = NoCards /\ guard' = [guard EXCEPT ![mount] = {}]
      /\ disturbed' = (disturbed \/ wire # {})
      /\ UNCHANGED <<mount, shown, loop, wire, born>>
  BY DEF ClearWatchlist
<1>3. items' = <<>> /\ saved' \in {<<>>, saved}
  <2>1. <<>> \in Seq(WatchItems) /\ Len(<<>>) = 0 /\ 0 <= MaxWatchlistItems
    BY WatchlistConstants
  <2> QED
    BY <1>2, <2>1, Setting
<1>4. Typed'
  <2>1. cards' \in [Places -> {"none", "loading", "done", "error"}]
    BY <1>2 DEF NoCards
  <2>2. guard' \in [Mounts -> SUBSET Places]
    BY <1>1, <1>2 DEF Typed
  <2>3. items' \in Seq(WatchItems) /\ Len(items') <= MaxWatchlistItems
    BY <1>3, WatchlistConstants
  <2> QED
    BY <1>1, <1>2, <1>3, <2>1, <2>2, <2>3 DEF Typed
<1>5. Numbered(items)' /\ Numbered(saved)'
  BY <1>1, <1>2, <1>3 DEF Numbered
<1>6. NoneAhead'
  BY <1>1, <1>2 DEF Typed, NoneAhead
<1>7. ASSUME ~disturbed' PROVE Undisturbed'
  <2>1. CallsSound /\ CardsSound /\ Exact(items) /\ Exact(saved) /\ wire = {}
    BY <1>1, <1>2, <1>7 DEF Undisturbed
  <2>2. guard'[mount'] = {}
    BY <1>1, <1>2 DEF Typed
  <2>3. CallsSound'
    BY <1>2, <2>1, <2>2 DEF CallsSound
  <2>4. CardsSound' /\ Exact(items)' /\ Exact(saved)'
    BY <1>2, <1>3, <2>1 DEF CardsSound, NoCards, Exact
  <2> QED
    BY <2>1, <2>3, <2>4 DEF Undisturbed
<1>8. LoopWaits'
  BY <1>1, <1>2 DEF LoopWaits
<1> QED
  BY <1>2, <1>4, <1>5, <1>6, <1>7, <1>8 DEF WatchInv

-----------------------------------------------------------------------------
(* Leaving and coming back.                                                *)
LEMMA LeaveStep == ASSUME WatchInv, Leave PROVE WatchInv'
<1>1. /\ Typed /\ Numbered(items) /\ Numbered(saved) /\ LoopWaits
      /\ NoneAhead
      /\ ~disturbed => Undisturbed
  BY DEF WatchInv
<1>2. /\ cards' = NoCards /\ disturbed' = (disturbed \/ wire # {}) /\ shown' = FALSE
      /\ UNCHANGED <<items, saved, mount, guard, loop, wire, born>>
  BY DEF Leave, browser
<1>3. Typed'
  BY <1>1, <1>2 DEF Typed, NoCards
<1>4. ASSUME ~disturbed' PROVE Undisturbed'
  BY <1>1, <1>2, <1>4 DEF Undisturbed, CallsSound, CardsSound, Exact, NoCards
<1> QED
  BY <1>1, <1>2, <1>3, <1>4 DEF WatchInv, Numbered, LoopWaits, NoneAhead

LEMMA ReturnStep == ASSUME WatchInv, Return PROVE WatchInv'
<1>1. /\ Typed /\ Numbered(items) /\ Numbered(saved) /\ LoopWaits
      /\ NoneAhead
      /\ ~disturbed => Undisturbed
  BY DEF WatchInv
<1>2. /\ mount < MaxMounts /\ mount' = mount + 1 /\ shown' = TRUE /\ shown = FALSE
      /\ UNCHANGED <<items, saved, cards, guard, loop, wire, born, disturbed>>
  BY DEF Return, browser, history, WatchInv, Typed
<1>3. mount \in Nat /\ mount' \in Mounts /\ mount' > mount /\ \A m \in Mounts : m > mount' => m > mount
  BY <1>1, <1>2, WatchlistConstants DEF Typed, Mounts
<1>4. Typed'
  BY <1>1, <1>2, <1>3 DEF Typed
<1>5. ASSUME ~disturbed PROVE Undisturbed'
  <2>1. CallsSound /\ CardsSound /\ Exact(items) /\ Exact(saved)
    BY <1>1, <1>5 DEF Undisturbed
  <2>2. wire = {}
    BY <1>2, <2>1 DEF CallsSound
  <2>3. guard'[mount'] = {}
    BY <1>1, <1>2, <1>3 DEF NoneAhead
  <2>4. CallsSound'
    BY <1>2, <2>2, <2>3 DEF CallsSound
  <2>5. CardsSound' /\ Exact(items)' /\ Exact(saved)'
    BY <1>2, <2>1 DEF CardsSound, Exact
  <2> QED
    BY <2>4, <2>5 DEF Undisturbed
<1> QED
  BY <1>1, <1>2, <1>3, <1>4, <1>5 DEF WatchInv, Numbered, LoopWaits, NoneAhead

LEMMA ReloadStep == ASSUME WatchInv, Reload PROVE WatchInv'
<1>1. /\ Typed /\ Numbered(items) /\ Numbered(saved) /\ LoopWaits
      /\ NoneAhead
      /\ ~disturbed => Undisturbed
  BY DEF WatchInv
<1>2. /\ mount < MaxMounts /\ mount' = mount + 1 /\ shown' = TRUE
      /\ items' = SanitizeWatchlist(saved) /\ wire' = {} /\ cards' = NoCards
      /\ loop' = [m \in Mounts |-> Null]
      /\ UNCHANGED <<saved, guard, born, disturbed>>
  BY DEF Reload, browser, history
<1>3. mount \in Nat /\ mount' \in Mounts /\ mount' > mount /\ \A m \in Mounts : m > mount' => m > mount
  BY <1>1, <1>2, WatchlistConstants DEF Typed, Mounts
<1>4. /\ items' \in Seq(WatchItems) /\ Len(items') <= MaxWatchlistItems
      /\ \A i \in DOMAIN items' :
             /\ i \in DOMAIN saved /\ items'[i].id = saved[i].id
             /\ \A read \in ReadFor(items'[i]) : \E old \in ReadFor(saved[i]) : read.of = old.of
  BY <1>1, <1>2, SanitizedItem DEF Typed
<1>5. Typed'
  BY <1>1, <1>2, <1>3, <1>4 DEF Typed, NoCards
<1>6. Numbered(items)' /\ Numbered(saved)'
  BY <1>1, <1>2, <1>4 DEF Numbered
<1>7. ASSUME ~disturbed PROVE Undisturbed'
  <2>1. Exact(saved)
    BY <1>1, <1>7 DEF Undisturbed
  <2>2. guard'[mount'] = {}
    BY <1>1, <1>2, <1>3 DEF NoneAhead
  <2>3. CallsSound' /\ CardsSound'
    BY <1>2, <2>2 DEF CallsSound, CardsSound, NoCards
  <2>4. Exact(items)' /\ Exact(saved)'
    BY <1>2, <1>4, <2>1 DEF Exact
  <2> QED
    BY <2>3, <2>4 DEF Undisturbed
<1> QED
  BY <1>1, <1>2, <1>3, <1>5, <1>6, <1>7 DEF WatchInv, LoopWaits, NoneAhead

-----------------------------------------------------------------------------
(* Refreshing.  One call more, for a place of the list that guard does not *)
(* have, by the panel on screen.                                           *)
LEMMA StartSound ==
  ASSUME WatchInv, shown, NEW p, MayRefresh(items, guard[mount], p),
         wire' = wire \cup {Call(mount, items, p)},
         guard' = [guard EXCEPT ![mount] = @ \cup {p}],
         cards' = [cards EXCEPT ![p] = "loading"],
         UNCHANGED <<items, saved, mount, shown, born, disturbed>>,
         loop' = [m \in Mounts |-> loop'[m]], LoopWaits'
  PROVE  WatchInv'
<1>1. /\ Typed /\ Numbered(items) /\ Numbered(saved) /\ LoopWaits
      /\ NoneAhead
      /\ ~disturbed => Undisturbed
  BY DEF WatchInv
<1> DEFINE c == Call(mount, items, p)
<1>2. /\ items \in Seq(WatchItems) /\ Len(items) <= MaxWatchlistItems /\ mount \in Mounts
  BY <1>1 DEF Typed
<1>3. /\ p \in DOMAIN items /\ p \in Places /\ p \notin guard[mount]
      /\ c.mount = mount /\ c.place = p /\ c.id = items[p].id /\ c.id \in Nat /\ c.url \in Urls
  <2>1. p \in DOMAIN items /\ items[p].url # Blank /\ p \notin guard[mount]
    BY DEF MayRefresh
  <2> QED
    BY <1>2, <2>1, CallSound
<1> HIDE DEF c
<1>4. wire' = wire \cup {c}
  BY DEF c
<1>5. Typed'
  <2>1. cards' \in [Places -> {"none", "loading", "done", "error"}] /\ guard' \in [Mounts -> SUBSET Places]
    BY <1>1, <1>3 DEF Typed
  <2>2. \A r \in wire' : r.mount \in Mounts /\ r.place \in Places /\ r.id \in Nat /\ r.url \in Urls
    BY <1>1, <1>2, <1>3, <1>4 DEF Typed
  <2> QED
    BY <1>1, <2>1, <2>2 DEF Typed
<1>6. NoneAhead'
  <2>1. mount \in Nat /\ \A m \in Mounts : m > mount => m # mount
    BY <1>2, WatchlistConstants DEF Mounts
  <2> QED
    BY <1>1, <1>3, <1>4, <2>1 DEF Typed, NoneAhead
<1>7. ASSUME ~disturbed PROVE Undisturbed'
  <2>1. CallsSound /\ CardsSound /\ Exact(items) /\ Exact(saved)
    BY <1>1, <1>7 DEF Undisturbed
  <2>2. \A r \in wire : r.place # p
    BY <1>3, <2>1 DEF CallsSound
  <2>3. guard'[mount] = guard[mount] \cup {p}
    BY <1>1, <1>2 DEF Typed
  <2>4. CallsSound'
    <3>1. \A r \in wire' : shown' /\ r.mount = mount' /\ r.place \in DOMAIN items' /\ r.id = items'[r.place].id
      BY <1>3, <1>4, <2>1 DEF CallsSound
    <3>2. \A r, q \in wire' : r.place = q.place => r = q
      BY <1>3, <1>4, <2>1, <2>2 DEF CallsSound
    <3>3. \A q \in Places : q \in guard'[mount'] <=> \E r \in wire' : r.place = q
      BY <1>3, <1>4, <2>1, <2>3 DEF CallsSound
    <3> QED
      BY <3>1, <3>2, <3>3 DEF CallsSound
  <2>5. CardsSound'
    <3>1. ASSUME NEW q \in Places
          PROVE  /\ cards'[q] = "loading" => \E r \in wire' : r.place = q
                 /\ cards'[q] = "done" => q \in DOMAIN items /\ items[q].signals # Null
      <4>1. CASE q = p
        BY <1>1, <1>3, <1>4, <4>1 DEF Typed
      <4>2. CASE q # p
        BY <1>1, <1>4, <2>1, <4>2 DEF Typed, CardsSound
      <4> QED
        BY <4>1, <4>2
    <3> QED
      BY <3>1 DEF CardsSound
  <2>6. Exact(items)' /\ Exact(saved)'
    BY <2>1 DEF Exact
  <2> QED
    BY <2>4, <2>5, <2>6 DEF Undisturbed
<1>8. Numbered(items)' /\ Numbered(saved)'
  BY <1>1 DEF Numbered
<1> QED
  BY <1>5, <1>6, <1>7, <1>8 DEF WatchInv

LEMMA RefreshStep == ASSUME WatchInv, NEW p \in Places, Refresh(p) PROVE WatchInv'
<1>1. /\ shown /\ MayRefresh(items, guard[mount], p)
      /\ wire' = wire \cup {Call(mount, items, p)}
      /\ guard' = [guard EXCEPT ![mount] = @ \cup {p}]
      /\ cards' = [cards EXCEPT ![p] = "loading"]
      /\ UNCHANGED <<items, saved, mount, shown, loop, born, disturbed>>
  BY DEF Refresh, browser, history
<1>2. loop' = [m \in Mounts |-> loop'[m]] /\ LoopWaits'
  BY <1>1 DEF WatchInv, Typed, LoopWaits
<1> QED
  BY <1>1, <1>2, StartSound

LEMMA RefreshAllStep == ASSUME WatchInv, RefreshAll PROVE WatchInv'
<1> DEFINE p == NextPlace(items, guard[mount], 1, Len(items))
           c == Call(mount, items, p)
<1>1. /\ shown /\ p # 0 /\ wire' = wire \cup {c}
      /\ loop' = [loop EXCEPT ![mount] = [count |-> Len(items), at |-> c.n]]
      /\ guard' = [guard EXCEPT ![mount] = @ \cup {p}]
      /\ cards' = [cards EXCEPT ![p] = "loading"]
      /\ UNCHANGED <<items, saved, mount, shown, born, disturbed>>
  BY DEF RefreshAll, browser, history
<1>2. items \in Seq(WatchItems) /\ mount \in Mounts /\ loop = [m \in Mounts |-> loop[m]] /\ LoopWaits
  BY DEF WatchInv, Typed
<1>3. MayRefresh(items, guard[mount], p)
  BY <1>1, <1>2, NextPlaceSound
<1> HIDE DEF p
<1>4. c.mount = mount
  BY DEF Call
<1> HIDE DEF c
<1>5. loop' = [m \in Mounts |-> loop'[m]]
  BY <1>1, <1>2
<1>6. LoopWaits'
  <2>1. ASSUME NEW m \in Mounts, loop'[m] # Null
        PROVE  \E r \in wire' : r.n = loop'[m].at /\ r.mount = m
    <3>1. CASE m = mount
      BY <1>1, <1>2, <1>4, <3>1
    <3>2. CASE m # mount
      BY <1>1, <1>2, <2>1, <3>2 DEF LoopWaits
    <3> QED
      BY <3>1, <3>2
  <2> QED
    BY <2>1 DEF LoopWaits
<1> QED
  BY <1>1, <1>3, <1>5, <1>6, StartSound DEF c

(* An answer: the call ends, and the "Refresh all" that waited for it      *)
(* makes its next one in the same place of the wire.                       *)
LEMMA ArriveStep ==
  ASSUME WatchInv, NEW r \in wire, NEW read \in Reads(r), PageArrives(r, read)
  PROVE  WatchInv'
<1>1. /\ Typed /\ Numbered(items) /\ Numbered(saved) /\ LoopWaits
      /\ NoneAhead
      /\ ~disturbed => Undisturbed
  BY DEF WatchInv
<1> DEFINE m == r.mount
           list == IF read = Null THEN items ELSE Answered(r, read)
           rest == guard[m] \ {r.place}
           p == IF WaitedFor(r, read) THEN NextPlace(list, rest, r.place + 1, loop[m].count) ELSE 0
           told == [cards EXCEPT ![r.place] = IF read = Null THEN "error" ELSE "done"]
           c == [Call(m, list, p) EXCEPT !.n = r.n]
<1>2. /\ IF read = Null THEN UNCHANGED <<items, browser>> ELSE SetWatchlist(list)
      /\ wire' = (wire \ {r}) \cup (IF p = 0 THEN {} ELSE {c})
      /\ guard' = [guard EXCEPT ![m] = IF p = 0 THEN rest ELSE rest \cup {p}]
      /\ loop' = IF WaitedFor(r, read) /\ p = 0 THEN [loop EXCEPT ![m] = Null] ELSE loop
      /\ cards' = IF ~shown \/ m # mount THEN cards
                  ELSE IF p = 0 THEN told ELSE [told EXCEPT ![p] = "loading"]
      /\ UNCHANGED <<mount, shown, born, disturbed>>
  BY DEF PageArrives, history
<1>3. /\ items \in Seq(WatchItems) /\ Len(items) <= MaxWatchlistItems
      /\ m \in Mounts /\ r.place \in Places /\ mount \in Mounts
      /\ guard \in [Mounts -> SUBSET Places] /\ loop = [k \in Mounts |-> loop[k]]
  BY <1>1 DEF Typed
<1>4. read # Null => read \in Answers /\ read.of = r.id
  BY <1>1, Reading
<1>5. /\ list \in Seq(WatchItems) /\ Len(list) = Len(items) /\ DOMAIN list = DOMAIN items
      /\ \A i \in DOMAIN items :
             /\ list[i].id = items[i].id
             /\ i = r.place /\ read # Null => list[i].signals = read
             /\ i # r.place \/ read = Null => list[i] = items[i]
             /\ ReadFor(list[i]) \subseteq ReadFor(items[i]) \cup
                    (IF i = r.place /\ read # Null THEN {read} ELSE {})
  <2>1. CASE read = Null
    BY <1>3, <2>1
  <2>2. CASE read # Null
    <3>1. list = Answered(r, read)
      BY <2>2
    <3> QED
      BY <1>3, <1>4, <2>2, <3>1, Answering
  <2> QED
    BY <2>1, <2>2
<1> HIDE DEF list
<1>6. items' = list /\ saved' \in {list, saved}
  <2>1. CASE read = Null
    BY <1>2, <2>1 DEF browser, list
  <2>2. CASE read # Null
    BY <1>2, <1>3, <1>5, <2>2, Setting
  <2> QED
    BY <2>1, <2>2
<1>7. /\ p = 0 \/ MayRefresh(list, rest, p)
      /\ p # 0 => WaitedFor(r, read)
  BY <1>5, NextPlaceSound
<1> HIDE DEF p
<1>8. ASSUME p # 0
      PROVE  /\ p \in DOMAIN list /\ p \in Places /\ p \notin rest
             /\ c.mount = m /\ c.place = p /\ c.id = list[p].id /\ c.id \in Nat
             /\ c.url \in Urls /\ c.n = r.n
  <2> DEFINE d == Call(m, list, p)
  <2>1. /\ p \in DOMAIN list /\ p \in Places /\ p \notin rest
        /\ d.mount = m /\ d.place = p /\ d.id = list[p].id /\ d.id \in Nat /\ d.url \in Urls
    <3>1. p \in DOMAIN list /\ list[p].url # Blank /\ p \notin rest
      BY <1>7, <1>8 DEF MayRefresh
    <3>2. Len(list) <= MaxWatchlistItems
      BY <1>3, <1>5
    <3> QED
      BY <1>5, <3>1, <3>2, CallSound
  <2>2. c.mount = d.mount /\ c.place = d.place /\ c.id = d.id /\ c.url = d.url /\ c.n = r.n
    BY DEF Call
  <2> QED
    BY <2>1, <2>2
<1> HIDE DEF c
<1>9. Typed'
  <2>1. cards' \in [Places -> {"none", "loading", "done", "error"}]
    BY <1>1, <1>2 DEF Typed
  <2>2. guard' \in [Mounts -> SUBSET Places]
    BY <1>2, <1>3, <1>8
  <2>3. \A q \in wire' : q.mount \in Mounts /\ q.place \in Places /\ q.id \in Nat /\ q.url \in Urls
    BY <1>1, <1>2, <1>3, <1>8 DEF Typed
  <2>4. loop' = [k \in Mounts |-> loop'[k]]
    BY <1>2, <1>3
  <2> QED
    BY <1>1, <1>2, <1>3, <1>5, <1>6, <2>1, <2>2, <2>3, <2>4 DEF Typed
<1>10. Numbered(items)' /\ Numbered(saved)'
  BY <1>1, <1>2, <1>5, <1>6 DEF Numbered
<1>11. NoneAhead'
  <2>1. ASSUME NEW k \in Mounts, k > mount'
        PROVE  guard'[k] = {} /\ \A q \in wire' : q.mount # k
    <3>1. guard[k] = {} /\ k # m /\ \A q \in wire : q.mount # k
      BY <1>1, <1>2, <2>1 DEF NoneAhead
    <3> QED
      BY <1>2, <1>3, <1>8, <3>1
  <2> QED
    BY <2>1 DEF NoneAhead
<1>12. LoopWaits'
  <2>1. ASSUME NEW k \in Mounts, loop'[k] # Null
        PROVE  \E q \in wire' : q.n = loop'[k].at /\ q.mount = k
    <3>1. loop'[k] = loop[k]
      BY <1>2, <1>3, <2>1
    <3>2. PICK q \in wire : q.n = loop[k].at /\ q.mount = k
      BY <1>1, <2>1, <3>1 DEF LoopWaits
    <3>3. CASE q # r
      BY <1>2, <3>1, <3>2, <3>3
    <3>4. CASE q = r
      <4>1. WaitedFor(r, read)
        BY <2>1, <3>1, <3>2, <3>4 DEF WaitedFor
      <4>2. p # 0
        BY <1>2, <1>3, <2>1, <3>2, <3>4, <4>1
      <4> QED
        BY <1>2, <1>8, <3>1, <3>2, <3>4, <4>2
    <3> QED
      BY <3>3, <3>4
  <2> QED
    BY <2>1 DEF LoopWaits
<1>13. ASSUME ~disturbed PROVE Undisturbed'
  <2>1. CallsSound /\ CardsSound /\ Exact(items) /\ Exact(saved)
    BY <1>1, <1>13 DEF Undisturbed
  <2>2. /\ shown /\ m = mount /\ r.place \in DOMAIN items /\ r.id = items[r.place].id
        /\ \A q \in wire : q.place = r.place => q = r
    BY <2>1 DEF CallsSound
  <2>3. \A q \in wire \ {r} : q.place \in rest /\ q.place # r.place
    BY <1>1, <2>1, <2>2 DEF CallsSound, Typed
  <2>4. CallsSound'
    <3>1. \A q \in wire' : shown' /\ q.mount = mount' /\ q.place \in DOMAIN items' /\ q.id = items'[q.place].id
      BY <1>2, <1>5, <1>6, <1>8, <2>1, <2>2 DEF CallsSound
    <3>2. \A q, w \in wire' : q.place = w.place => q = w
      BY <1>2, <1>8, <2>1, <2>3 DEF CallsSound
    <3>3. guard'[mount'] = IF p = 0 THEN rest ELSE rest \cup {p}
      BY <1>2, <1>3, <2>2
    <3>4. \A k \in Places : k \in rest <=> \E q \in wire \ {r} : q.place = k
      BY <2>1, <2>2, <2>3 DEF CallsSound
    <3>5. \A k \in Places : k \in guard'[mount'] <=> \E q \in wire' : q.place = k
      BY <1>2, <1>8, <3>3, <3>4
    <3> QED
      BY <3>1, <3>2, <3>5 DEF CallsSound
  <2>5. CardsSound'
    <3>1. ASSUME NEW k \in Places
          PROVE  /\ cards'[k] = "loading" => \E q \in wire' : q.place = k
                 /\ cards'[k] = "done" => k \in DOMAIN list /\ list[k].signals # Null
      <4>1. cards' = IF p = 0 THEN told ELSE [told EXCEPT ![p] = "loading"]
        BY <1>2, <2>2
      <4>2. cards \in [Places -> {"none", "loading", "done", "error"}]
        BY <1>1 DEF Typed
      <4>3. CASE p # 0 /\ k = p
        BY <1>2, <1>8, <4>1, <4>2, <4>3
      <4>4. CASE ~(p # 0 /\ k = p) /\ k = r.place
        <5>1. cards'[k] = IF read = Null THEN "error" ELSE "done"
          BY <4>1, <4>2, <4>4
        <5> QED
          BY <1>5, <2>2, <4>4, <5>1
      <4>5. CASE ~(p # 0 /\ k = p) /\ k # r.place
        <5>1. cards'[k] = cards[k]
          BY <4>1, <4>2, <4>5
        <5>2. cards[k] = "loading" => \E q \in wire \ {r} : q.place = k
          BY <2>1, <4>5 DEF CardsSound
        <5>3. cards[k] = "done" => k \in DOMAIN list /\ list[k].signals # Null
          BY <1>5, <2>1, <4>5 DEF CardsSound
        <5> QED
          BY <1>2, <5>1, <5>2, <5>3
      <4> QED
        BY <4>3, <4>4, <4>5
    <3> QED
      BY <1>6, <3>1 DEF CardsSound
  <2>6. \A i \in DOMAIN list : \A a \in ReadFor(list[i]) : a.of = list[i].id
    BY <1>4, <1>5, <2>1, <2>2 DEF Exact
  <2>7. Exact(items)' /\ Exact(saved)'
    BY <1>6, <2>1, <2>6 DEF Exact
  <2> QED
    BY <2>4, <2>5, <2>7 DEF Undisturbed
<1> QED
  BY <1>2, <1>9, <1>10, <1>11, <1>12, <1>13 DEF WatchInv

-----------------------------------------------------------------------------
(* A step that changes nothing of the list, the panel or its calls.        *)
LEMMA StutterStep == ASSUME WatchInv, UNCHANGED watchVars PROVE WatchInv'
<1>1. UNCHANGED <<items, saved, mount, shown, cards, guard, loop, wire, born, disturbed>>
  BY DEF watchVars
<1> QED
  BY <1>1 DEF WatchInv, Typed, Numbered, NoneAhead, LoopWaits, Undisturbed, CallsSound, CardsSound, Exact

LEMMA NextStep == WatchInv /\ [WatchNext]_watchVars => WatchInv'
<1> SUFFICES ASSUME WatchInv, [WatchNext]_watchVars PROVE WatchInv'
  OBVIOUS
<1>1. CASE AddWatchItem
  BY <1>1, AddStep
<1>2. CASE ClearWatchlist
  BY <1>2, ClearStep
<1>3. CASE RefreshAll
  BY <1>3, RefreshAllStep
<1>4. ASSUME NEW p \in Places, RemoveWatchItem(p) PROVE WatchInv'
  BY <1>4, RemoveStep
<1>5. ASSUME NEW p \in Places, Refresh(p) PROVE WatchInv'
  BY <1>5, RefreshStep
<1>6. ASSUME NEW p \in Places, NEW url \in Urls \cup {Blank}, TypeUrl(p, url) PROVE WatchInv'
  BY <1>6, TypeUrlStep
<1>7. ASSUME NEW r \in wire, NEW read \in Reads(r), PageArrives(r, read) PROVE WatchInv'
  BY <1>7, ArriveStep
<1>8. CASE Leave
  BY <1>8, LeaveStep
<1>9. CASE Return
  BY <1>9, ReturnStep
<1>10. CASE Reload
  BY <1>10, ReloadStep
<1>11. CASE UNCHANGED watchVars
  BY <1>11, StutterStep
<1> QED
  BY <1>1, <1>2, <1>3, <1>4, <1>5, <1>6, <1>7, <1>8, <1>9, <1>10, <1>11 DEF WatchNext

LEMMA Invariance == WatchSpec => []WatchInv
  BY InitSound, NextStep, PTL DEF WatchSpec

\* Unless the list was shortened or the panel left while a page was being
\* read, items show what was read for them, have one call at most, and their
\* cards say what is so: for any list, URLs, pages and order of calls
\* (GeneratorPanel.tsx 976-1045).
THEOREM ListAlwaysExact == WatchSpec => []UndisturbedIsExact
<1>1. WatchInv => UndisturbedIsExact
  <2> SUFFICES ASSUME WatchInv, ~disturbed PROVE
        /\ \A i \in DOMAIN items : \A read \in ReadFor(items[i]) : read.of = items[i].id
        /\ \A r, q \in wire : r.id = q.id => r = q
        /\ \A i \in DOMAIN items : cards[i] = "loading" =>
               \E r \in wire : r.id = items[i].id /\ r.mount = mount
        /\ \A i \in DOMAIN items : cards[i] = "done" => items[i].signals # Null
    BY DEF UndisturbedIsExact
  <2>1. CallsSound /\ CardsSound /\ Exact(items) /\ Numbered(items)
    BY DEF WatchInv, Undisturbed
  <2>2. DOMAIN items \subseteq Places
    BY WatchlistConstants DEF WatchInv, Typed, Places
  <2>3. \A r, q \in wire : r.id = q.id => r = q
    BY <2>1 DEF CallsSound, Numbered
  <2>4. \A i \in DOMAIN items : cards[i] = "loading" =>
            \E r \in wire : r.id = items[i].id /\ r.mount = mount
    BY <2>1, <2>2 DEF CallsSound, CardsSound
  <2>5. \A i \in DOMAIN items : cards[i] = "done" => items[i].signals # Null
    BY <2>1, <2>2 DEF CardsSound
  <2> QED
    BY <2>1, <2>3, <2>4, <2>5 DEF Exact
<1> QED
  BY <1>1, Invariance, PTL

\* The comparisons of any two reads of an item agree: one content hash means
\* no change, the card and the notes tell one when the other does, and the
\* monitoring tells none that the watchlist would not (differ.ts 62-160).
THEOREM DiffsAlwaysAgree == WatchSpec => []DiffsAgree
<1>1. WatchInv => DiffsAgree
  <2> SUFFICES ASSUME WatchInv, NEW i \in DOMAIN items,
                      items[i].signals # Null, items[i].previousSignals # Null
               PROVE  LET prev == items[i].previousSignals.says
                          next == items[i].signals.says
                          changes == DiffPageSignals(prev, next)
                      IN  /\ CanonicalizeSignals(prev) = CanonicalizeSignals(next) => changes = {}
                          /\ (changes = {}) = (GroupSignalChanges(prev, next) = {"No meaningful change"})
                          /\ DiffSnapshots(prev, next) \subseteq changes
                          /\ \A f \in DiffSnapshots(prev, next) : prev[f] # Null /\ next[f] # Null
    BY DEF DiffsAgree
  <2> DEFINE prev == items[i].previousSignals.says
             next == items[i].signals.says
  <2>1. items[i] \in WatchItems
    BY Element DEF WatchInv, Typed
  <2>2. items[i].signals \in Answers /\ items[i].previousSignals \in Answers
    BY <2>1 DEF WatchItems
  <2>3. prev \in Signals /\ next \in Signals
    BY <2>2 DEF Answers
  <2> HIDE DEF prev, next
  <2>4. CanonicalizeSignals(prev) = CanonicalizeSignals(next) => DiffPageSignals(prev, next) = {}
    BY <2>3, SameHashNoChange
  <2>5. /\ (DiffPageSignals(prev, next) = {}) = (GroupSignalChanges(prev, next) = {"No meaningful change"})
        /\ DiffSnapshots(prev, next) \subseteq DiffPageSignals(prev, next)
        /\ \A f \in DiffSnapshots(prev, next) : prev[f] # Null /\ next[f] # Null
    BY NotesFollowTheCard, MonitoringSaysNoMore
  <2> QED
    BY <2>4, <2>5 DEF prev, next
<1> QED
  BY <1>1, Invariance, PTL

\* The safety half of RefreshAllEnds: a "Refresh all" that did not end waits
\* for a call that is on its way, so only a call that never ends can hold its
\* button (GeneratorPanel.tsx 1032-1045).
THEOREM RefreshAllIsWaiting == WatchSpec => []LoopWaits
<1>1. WatchInv => LoopWaits
  BY DEF WatchInv
<1> QED
  BY <1>1, Invariance, PTL
=============================================================================
