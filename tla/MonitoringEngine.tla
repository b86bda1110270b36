-------------------------- MODULE MonitoringEngine --------------------------
(***************************************************************************)
(* The check engine of the monitoring beta (modules/monitoring/service.ts, *)
(* db/schema.ts): competitor rows, their snapshots and their event         *)
(* history, and the checks that write them.                                *)
(*                                                                         *)
(* A check is one execution of executeCheck, in a cron worker or in the    *)
(* handler of a manual retry.  Every database statement commits on its own *)
(* (the HTTP driver has no session), so each is an action here, and checks *)
(* of several workers and requests interleave between any two of them with *)
(* each other, with resume and remove, and with the death of the function  *)
(* instance that runs them.                                                *)
(***************************************************************************)
EXTENDS CheckPlan, Sequences

CONSTANTS
    Competitors,    \* ids; a removed id is never used again
    NoCompetitor,   \* what an idle runner is working on
    Runners,        \* cron workers and retry requests in flight at a time
    PageFetches,    \* the fetch results the environment may produce
    KeepEvents,     \* history rows kept per competitor
    MaxTime,        \* bound on the clock
    MaxChecks       \* bound on the number of checks started

ASSUME EngineAssumption ==
    /\ NoCompetitor \notin Competitors
    /\ PageFetches \subseteq FetchResults
    /\ KeepEvents \in Nat \ {0}
    /\ MaxTime \in Nat
    /\ MaxChecks \in Nat

VARIABLES
    now,        \* the clock shared by the instances and the database
    phase,      \* "unborn", "live" or "removed", per competitor
    row,        \* the monitored_competitors row, per competitor
    snaps,      \* page of each snapshots row, by fetched_at; the index is its id
    events,     \* the number of check_events rows, per competitor
    job,        \* what each runner is doing
    started,    \* history: checks started so far
    failed      \* history: failed checks persisted since the add

vars == <<now, phase, row, snaps, events, job, started, failed>>
tables == <<phase, row, snaps, events>>

NewRow(t) ==
    [paused |-> FALSE, failures |-> 0, nextCheckAt |-> t,
     lastAttemptAt |-> Never, lastOutcome |-> NoOutcome,
     lastSuccessAt |-> Never, lastSuccessSnap |-> 0]

(* A runner holds the failure streak of the row as it read it, the attempt *)
(* and the plan it made, the time it planned at and the id of the snapshot *)
(* it inserted.                                                            *)
NoAttempt == [outcome |-> "error", page |-> NoPage]
NoPlan == [eventOutcome |-> "error", insertSnapshot |-> FALSE,
           countsAsSuccess |-> FALSE, newFailures |-> 0, autoPause |-> FALSE]

Steps == {"fetch", "refetch", "latest", "insert", "update", "event", "prune"}

Jobs ==
    [pc : {"idle"} \cup Steps, comp : Competitors \cup {NoCompetitor},
     failures : Nat, attempt : Attempts, plan : Plans, at : Nat, snap : Nat]

NoJob ==
    [pc |-> "idle", comp |-> NoCompetitor, failures |-> 0,
     attempt |-> NoAttempt, plan |-> NoPlan, at |-> 0, snap |-> 0]

(* A check of the row as it is read now.                                   *)
JobFor(c) == [NoJob EXCEPT !.pc = "fetch", !.comp = c,
                           !.failures = row[c].failures]

Init ==
    /\ now = 0
    /\ phase = [c \in Competitors |-> "unborn"]
    /\ row = [c \in Competitors |-> NewRow(0)]
    /\ snaps = [c \in Competitors |-> <<>>]
    /\ events = [c \in Competitors |-> 0]
    /\ job = [r \in Runners |-> NoJob]
    /\ started = 0
    /\ failed = [c \in Competitors |-> 0]

----------------------------------------------------------------------------
(* The requests of the user.                                               *)

(* addCompetitor, once its checks let the row in: due immediately.         *)
AddCompetitor(c) ==
    /\ phase[c] = "unborn"
    /\ phase' = [phase EXCEPT ![c] = "live"]
    /\ row' = [row EXCEPT ![c] = NewRow(now)]
    /\ UNCHANGED <<now, snaps, events, job, started, failed>>

(* removeCompetitor: the row, and by cascade its snapshots and events.     *)
RemoveCompetitor(c) ==
    /\ phase[c] = "live"
    /\ phase' = [phase EXCEPT ![c] = "removed"]
    /\ row' = [row EXCEPT ![c] = NewRow(0)]
    /\ snaps' = [snaps EXCEPT ![c] = <<>>]
    /\ events' = [events EXCEPT ![c] = 0]
    /\ UNCHANGED <<now, job, started, failed>>

(* resumeCompetitor: clears the pause and the streak and makes it due.     *)
ResumeCompetitor(c) ==
    /\ phase[c] = "live"
    /\ row' = [row EXCEPT ![c] = [@ EXCEPT !.paused = FALSE, !.failures = 0,
                                          !.nextCheckAt = now]]
    /\ UNCHANGED <<now, phase, snaps, events, job, started, failed>>

(* retryCompetitor reads the row and checks the cooldown against it.  A    *)
(* paused page may be retried.  A retry the daily limit then refuses ends  *)
(* like Abandon: no statement of executeCheck has run.                     *)
StartRetry(r, c) ==
    /\ job[r].pc = "idle"
    /\ started < MaxChecks
    /\ phase[c] = "live"
    /\ RetryAllowedAt(row[c]) <= now
    /\ job' = [job EXCEPT ![r] = JobFor(c)]
    /\ started' = started + 1
    /\ UNCHANGED <<now, tables, failed>>

(* processDueBatch selects the row; its worker gets to it at the next      *)
(* step of the runner, with the values selected here.  That its workspace  *)
(* was seen lately, and the order and size of the batch, are DueBatch's.   *)
SelectDue(r, c) ==
    /\ job[r].pc = "idle"
    /\ started < MaxChecks
    /\ phase[c] = "live"
    /\ ~row[c].paused
    /\ row[c].nextCheckAt <= now
    /\ job' = [job EXCEPT ![r] = JobFor(c)]
    /\ started' = started + 1
    /\ UNCHANGED <<now, tables, failed>>

----------------------------------------------------------------------------
(* executeCheck, statement by statement.                                   *)

(* The first attempt; a transient result is retried once in the same run.  *)
Fetch(r, out) ==
    /\ job[r].pc = "fetch"
    /\ job' = [job EXCEPT ![r] =
                 IF TransientAttempt(out) THEN [@ EXCEPT !.pc = "refetch"]
                 ELSE [@ EXCEPT !.pc = "latest", !.attempt = CheckAttempt(out)]]
    /\ UNCHANGED <<now, tables, started, failed>>

(* The second attempt replaces the first, whatever its result.             *)
Refetch(r, out) ==
    /\ job[r].pc = "refetch"
    /\ job' = [job EXCEPT ![r] =
                 [@ EXCEPT !.pc = "latest", !.attempt = CheckAttempt(out)]]
    /\ UNCHANGED <<now, tables, started, failed>>

LatestPage(c) ==
    IF snaps[c] = <<>> THEN NoPage ELSE snaps[c][Len(snaps[c])]

(* SELECT of the latest stored hash, then the plan and the check's time.   *)
ReadLatest(r) ==
    LET j == job[r]
        plan == PlanPersistence(j.attempt, LatestPage(j.comp), j.failures)
    IN  /\ j.pc = "latest"
        /\ job' = [job EXCEPT ![r] =
                     [@ EXCEPT !.pc = IF plan.insertSnapshot THEN "insert"
                                      ELSE "update",
                               !.plan = plan,
                               !.at = now]]
        /\ UNCHANGED <<now, tables, started, failed>>

(* INSERT of the snapshot.  Without its competitor row the foreign key     *)
(* refuses it, and the exception ends the check.                           *)
InsertSnapshot(r) ==
    LET c == job[r].comp
    IN  /\ job[r].pc = "insert"
        /\ \/ /\ phase[c] = "live"
              /\ snaps' = [snaps EXCEPT ![c] = Append(@, job[r].attempt.page)]
              /\ job' = [job EXCEPT ![r] =
                           [@ EXCEPT !.pc = "update",
                                     !.snap = Len(snaps[c]) + 1]]
           \/ /\ phase[c] # "live"
              /\ job' = [job EXCEPT ![r] = NoJob]
              /\ UNCHANGED snaps
        /\ UNCHANGED <<now, phase, row, events, started, failed>>

(* UPDATE of the competitor row; it matches no row once it is removed.     *)
UpdateCompetitor(r) ==
    LET j == job[r]
        c == j.comp
    IN  /\ j.pc = "update"
        /\ \/ /\ phase[c] = "live"
              /\ \E due \in NextCheckTimes(j.at) :
                    row' = [row EXCEPT ![c] =
                              CompetitorUpdate(@, j.plan, j.at, due, j.snap)]
              /\ failed' = [failed EXCEPT ![c] =
                              IF j.plan.countsAsSuccess THEN @ ELSE @ + 1]
           \/ /\ phase[c] # "live"
              /\ UNCHANGED <<row, failed>>
        /\ job' = [job EXCEPT ![r] = [@ EXCEPT !.pc = "event"]]
        /\ UNCHANGED <<now, phase, snaps, events, started>>

(* INSERT of the event; the foreign key again refuses a removed row.       *)
InsertEvent(r) ==
    LET c == job[r].comp
    IN  /\ job[r].pc = "event"
        /\ \/ /\ phase[c] = "live"
              /\ events' = [events EXCEPT ![c] = @ + 1]
              /\ job' = [job EXCEPT ![r] = [@ EXCEPT !.pc = "prune"]]
           \/ /\ phase[c] # "live"
              /\ job' = [job EXCEPT ![r] = NoJob]
              /\ UNCHANGED events
        /\ UNCHANGED <<now, phase, row, snaps, started, failed>>

(* DELETE of all but the newest events; the check is over.                 *)
PruneEvents(r) ==
    LET c == job[r].comp
    IN  /\ job[r].pc = "prune"
        /\ events' = [events EXCEPT ![c] = IF @ > KeepEvents THEN KeepEvents
                                           ELSE @]
        /\ job' = [job EXCEPT ![r] = NoJob]
        /\ UNCHANGED <<now, phase, row, snaps, started, failed>>

(* The check ends between two statements: the instance is killed at its    *)
(* maximum duration or a statement throws.                                 *)
Abandon(r) ==
    /\ job[r].pc # "idle"
    /\ job' = [job EXCEPT ![r] = NoJob]
    /\ UNCHANGED <<now, tables, started, failed>>

Tick ==
    /\ now < MaxTime
    /\ now' = now + 1
    /\ UNCHANGED <<tables, job, started, failed>>

Request == \E c \in Competitors : AddCompetitor(c) \/ RemoveCompetitor(c) \/ ResumeCompetitor(c)

Begin == \E r \in Runners, c \in Competitors : StartRetry(r, c) \/ SelectDue(r, c)

CheckStep(r) ==
    \/ \E out \in PageFetches : Fetch(r, out) \/ Refetch(r, out)
    \/ ReadLatest(r)
    \/ InsertSnapshot(r)
    \/ UpdateCompetitor(r)
    \/ InsertEvent(r)
    \/ PruneEvents(r)

Next ==
    \/ Request
    \/ Begin
    \/ \E r \in Runners : CheckStep(r) \/ Abandon(r)
    \/ Tick

Spec == Init /\ [][Next]_vars

----------------------------------------------------------------------------
(* Properties.                                                             *)

Live(c) == phase[c] = "live"

(* The values have their types; an idle runner holds nothing.              *)
TypeOK ==
    /\ now \in Nat
    /\ phase \in [Competitors -> {"unborn", "live", "removed"}]
    /\ row \in [Competitors -> Rows]
    /\ snaps \in [Competitors -> Seq(Pages)]
    /\ events \in [Competitors -> Nat]
    /\ job \in [Runners -> Jobs]
    /\ started \in Nat
    /\ failed \in [Competitors -> Nat]

(* A page that says it was read has a stored snapshot to show, and the     *)
(* snapshot its row names exists: whatever checks raced or died between    *)
(* the INSERT of a snapshot and the UPDATE of the row (executeCheck).      *)
SuccessIsBacked ==
    \A c \in Competitors : Live(c) =>
        /\ row[c].lastSuccessAt # Never => snaps[c] # <<>>
        /\ row[c].lastSuccessSnap # 0 => row[c].lastSuccessAt # Never
        /\ row[c].lastSuccessSnap <= Len(snaps[c])

(* Auto-pause is never reached on fewer failed checks of the page than the *)
(* threshold, although every check adds one to a streak it read before its *)
(* fetch and writes it back after others wrote theirs (planPersistence).   *)
PauseNeedsFailures ==
    \A c \in Competitors : Live(c) =>
        /\ row[c].failures <= failed[c]
        /\ row[c].paused => failed[c] >= Threshold

(* A row that counts failures says that its last check failed: no order of *)
(* overlapping checks leaves a streak beside a successful status           *)
(* (buildCompetitorUpdate writes both in one statement).                   *)
StreakMatchesOutcome ==
    \A c \in Competitors : Live(c) /\ row[c].failures > 0 =>
        row[c].lastOutcome \in FailureOutcomes

(* A removal is final: a check still running when its page is removed      *)
(* stores no snapshot and no event afterwards (the foreign keys and the    *)
(* cascade of db/schema.ts).                                               *)
NothingOutlivesRemoval ==
    \A c \in Competitors : phase[c] = "removed" =>
        snaps[c] = <<>> /\ events[c] = 0

(* The last good read survives failed attempts: while a page is monitored, *)
(* its snapshots are only ever added to, and the record of the last        *)
(* success changes only together with a successful outcome                 *)
(* (planPersistence and buildCompetitorUpdate).                            *)
LastGoodSurvives ==
    [][\A c \in Competitors : Live(c) /\ Live(c)' =>
          /\ Len(snaps'[c]) >= Len(snaps[c])
          /\ \A i \in 1..Len(snaps[c]) : snaps'[c][i] = snaps[c][i]
          /\ \/ /\ row'[c].lastSuccessAt = row[c].lastSuccessAt
                /\ row'[c].lastSuccessSnap = row[c].lastSuccessSnap
             \/ /\ row'[c].lastOutcome \notin FailureOutcomes
                /\ row'[c].lastSuccessAt = row'[c].lastAttemptAt]_vars

(* What the monitor promises about a page: MonitorPromise, over the        *)
(* columns a user is shown.                                                *)
Verdict(c) ==
    IF row[c].lastOutcome = NoOutcome THEN "none"
    ELSE IF row[c].lastOutcome \in FailureOutcomes THEN "bad" ELSE "good"

Promise == INSTANCE MonitorPromise WITH
    shown   <- snaps,
    streak  <- [c \in Competitors |-> row[c].failures],
    paused  <- [c \in Competitors |-> row[c].paused],
    verdict <- [c \in Competitors |-> Verdict(c)]

PromiseKept == Promise!Spec

============================================================================
