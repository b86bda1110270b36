------------------------------ MODULE DueBatch ------------------------------
(***************************************************************************)
(* The daily cron pass of the monitoring beta: which pages processDueBatch *)
(* (modules/monitoring/service.ts) selects, how its workers get through    *)
(* the batch, and what the users' requests and the calendar do between     *)
(* passes.  A check is one step here, persisted or not; MonitoringEngine   *)
(* has its statements.                                                     *)
(*                                                                         *)
(* next_check_at is only ever compared with the time of a firing and with  *)
(* the dates of other due pages.  It is therefore kept as the number of    *)
(* firings until the page is due, and of the due pages, which of two is    *)
(* due for longer.                                                         *)
(***************************************************************************)
EXTENDS Integers, FiniteSets, Sequences, Functions

CONSTANTS
    Competitors,
    Workspaces,
    Owner,          \* the workspace of a competitor
    BatchSize,      \* CRON_BATCH_SIZE
    Workers,        \* CRON_CONCURRENCY of them
    Idle,           \* what a worker holds between two rows
    Interval,       \* CHECK_INTERVAL_MS, in days
    JitterHours,    \* CHECK_JITTER_MAX_MS, in hours
    ActiveWindow    \* WORKSPACE_ACTIVE_WINDOW_MS, in days

ASSUME BatchAssumption ==
    /\ IsFiniteSet(Competitors)
    /\ Owner \in [Competitors -> Workspaces]
    /\ BatchSize \in Nat \ {0}
    /\ IsFiniteSet(Workers) /\ Workers # {} /\ Idle \notin Competitors
    /\ Interval \in Nat \ {0}
    /\ JitterHours \in 0..23
    /\ ActiveWindow \in Nat

VARIABLES
    monitored,  \* the pages that have a row
    wait,       \* firings until next_check_at is reached, 0 for a due page
    older,      \* the pairs of due pages, the older next_check_at first
    paused,     \* the paused column
    unseen,     \* days since last_seen_at, per workspace
    pass,       \* "waiting" for today's firing, "running", or "done"
    queue,      \* the rows selected and not yet taken by a worker
    hand,       \* the row each worker is checking
    selected,   \* the rows of the running pass
    dealt,      \* those of them the report counts, as processed or as errors
    quiet,      \* history: firings since a check of the page was persisted
    skipped     \* history: passes in a row that left the due page out

dates == <<wait, older>>
batch == <<pass, queue, hand, selected, dealt>>
history == <<quiet, skipped>>
vars == <<monitored, dates, paused, unseen, batch, history>>

(* The firings until a date that lies so many hours after the last one.    *)
FiringsUntil(hours) == (hours + 23) \div 24

(* now + a week + jitter, for a check that ends in the hour of the pass,   *)
(* and for one at any hour after it.                                       *)
WaitsAfter(hours) ==
    { FiringsUntil(h + 24 * Interval + j) : h \in hours, j \in 0..JitterHours }

PassHours == {1}
AnyHours == 1..23

(* A date of "now" in a request is reached at the next firing.             *)
DueNow == FiringsUntil(1)

(* No page is left out more often than this before BoundedWait is broken.  *)
Many == (Cardinality(Competitors) - 1) \div BatchSize + 1

(* A page never checked, or resumed by its user, has been quiet for long.  *)
Long == Interval + 1

Eligible(c) ==
    /\ c \in monitored
    /\ ~paused[c]
    /\ unseen[Owner[c]] <= ActiveWindow

(* WHERE: the eligible due pages.                                          *)
Due == { c \in Competitors : wait[c] = 0 /\ Eligible(c) }

(* Mutant of Batches: the newest due dates first.                          *)
Batches_NewestFirst ==
    LET size == IF Cardinality(Due) < BatchSize THEN Cardinality(Due) ELSE BatchSize
    IN  { q \in [1..size -> Due] :
            /\ \A i, j \in 1..size : i < j => <<q[j], q[i]>> \in older
            /\ \A c \in Due \ Range(q) : \A d \in Range(q) : <<c, d>> \in older }

(* ORDER BY next_check_at LIMIT batchSize: they, or the oldest of them.    *)
Batches ==
    LET size == IF Cardinality(Due) < BatchSize THEN Cardinality(Due) ELSE BatchSize
    IN  { q \in [1..size -> Due] :
            /\ \A i, j \in 1..size : i < j => <<q[i], q[j]>> \in older
            /\ \A c \in Due \ Range(q) : \A d \in Range(q) : <<d, c>> \in older }

working == { hand[v] : v \in Workers } \ {Idle}

InBatch == Range(queue) \cup working

Init ==
    /\ monitored = {}
    /\ wait = [c \in Competitors |-> DueNow]
    /\ older = {}
    /\ paused = [c \in Competitors |-> FALSE]
    /\ unseen = [w \in Workspaces |-> 0]
    /\ pass = "done"
    /\ queue = <<>>
    /\ hand = [v \in Workers |-> Idle]
    /\ selected = {} /\ dealt = {}
    /\ quiet = [c \in Competitors |-> Long]
    /\ skipped = [c \in Competitors |-> 0]

OlderWithout(c) == { p \in older : p[1] # c /\ p[2] # c }

(* A new date for a page takes it out of the due ones.                     *)
SetDate(c, waits) ==
    /\ \E n \in waits : wait' = [wait EXCEPT ![c] = n]
    /\ older' = OlderWithout(c)

----------------------------------------------------------------------------
(* The pass.                                                               *)

StartPass ==
    /\ pass = "waiting"
    /\ pass' = "running"
    /\ queue' \in Batches
    /\ selected' = Range(queue') /\ dealt' = {}
    /\ skipped' = [c \in Competitors |->
                     IF c \in Due \ Range(queue') /\ skipped[c] < Many
                     THEN skipped[c] + 1 ELSE skipped[c]]
    /\ UNCHANGED <<monitored, dates, paused, unseen, hand, quiet>>

(* The platform did not fire, or the selection threw: nothing is touched.  *)
MissPass ==
    /\ pass = "waiting"
    /\ pass' = "done"
    /\ UNCHANGED <<monitored, dates, paused, unseen, queue, hand, selected, dealt, history>>

(* Mutant of Take: the head is looked at and left in the queue.            *)
Take_LeavesHead(v) ==
    /\ hand[v] = Idle /\ queue # <<>>
    /\ hand' = [hand EXCEPT ![v] = Head(queue)]
    /\ UNCHANGED <<monitored, dates, paused, unseen, pass, queue, selected, dealt, history>>

(* queue.shift() of a free worker.                                         *)
Take(v) ==
    /\ hand[v] = Idle /\ queue # <<>>
    /\ queue' = Tail(queue)
    /\ hand' = [hand EXCEPT ![v] = Head(queue)]
    /\ UNCHANGED <<monitored, dates, paused, unseen, pass, selected, dealt, history>>

(* The worker that holds a row counts it, and is free for the next one.    *)
Count(c) ==
    /\ \E v \in Workers : hand[v] = c /\ hand' = [hand EXCEPT ![v] = Idle]
    /\ dealt' = dealt \cup {c}
    /\ UNCHANGED <<pass, queue, selected>>

(* Mutant of WriteRow: a failed check leaves the due date as it was.       *)
WriteRow_SuccessOnly(c, hours) ==
    /\ \/ SetDate(c, WaitsAfter(hours)) /\ UNCHANGED paused
       \/ UNCHANGED <<dates, paused>>
    /\ skipped' = [skipped EXCEPT ![c] = 0]

(* A check writes the row: a new date, and the pause if it is the failure  *)
(* that reaches the threshold.                                             *)
WriteRow(c, hours) ==
    /\ SetDate(c, WaitsAfter(hours))
    /\ \E autoPause \in BOOLEAN :
          paused' = [paused EXCEPT ![c] = @ \/ autoPause]
    /\ skipped' = [skipped EXCEPT ![c] = 0]

(* executeCheck has run its UPDATE.  A throw after it, by the INSERT of the *)
(* event, leaves the same row: only the count of the pass differs.         *)
Persist(c) ==
    /\ c \in monitored
    /\ Count(c)
    /\ WriteRow(c, PassHours)
    /\ quiet' = [quiet EXCEPT ![c] = 0]
    /\ UNCHANGED <<monitored, unseen>>

(* executeCheck throws before its UPDATE and the worker counts an error:   *)
(* next_check_at stays.                                                    *)
Throw(c) ==
    /\ Count(c)
    /\ skipped' = [d \in Competitors |-> 0]
    /\ UNCHANGED <<monitored, dates, paused, unseen, quiet>>

(* Every worker has found the queue empty.                                 *)
EndPass ==
    /\ pass = "running"
    /\ queue = <<>> /\ working = {}
    /\ pass' = "done"
    /\ selected' = {} /\ dealt' = {}
    /\ UNCHANGED <<monitored, dates, paused, unseen, queue, hand, history>>

(* The instance reaches its maximum duration or dies: the rest is dropped. *)
Kill ==
    /\ pass = "running"
    /\ pass' = "done"
    /\ queue' = <<>>
    /\ hand' = [v \in Workers |-> Idle]
    /\ selected' = {} /\ dealt' = {}
    /\ skipped' = [c \in Competitors |-> 0]
    /\ UNCHANGED <<monitored, dates, paused, unseen, quiet>>

(* An order of the pages in S, the earlier before the later.               *)
Orders(S) ==
    { { p \in S \X S : rank[p[1]] < rank[p[2]] } :
        rank \in { r \in [S -> 1..Cardinality(S)] : IsInjective(r) } }

(* A day goes by.  Pages whose date it reaches join the due ones, in the   *)
(* order of dates the model does not tell apart.  Ages stop where none     *)
(* matters.                                                                *)
NextDay ==
    LET reached == { c \in monitored : wait[c] = 1 }
        before == { c \in Competitors : wait[c] = 0 }
    IN  /\ pass = "done"
        /\ pass' = "waiting"
        /\ wait' = [c \in Competitors |->
                      IF c \in monitored /\ wait[c] > 0 THEN wait[c] - 1
                      ELSE wait[c]]
        /\ \E order \in Orders(reached) :
              older' = older \cup (before \X reached) \cup order
        /\ unseen' = [w \in Workspaces |->
                        IF unseen[w] <= ActiveWindow THEN unseen[w] + 1
                        ELSE unseen[w]]
        /\ quiet' = [c \in Competitors |->
                       IF quiet[c] < Long THEN quiet[c] + 1 ELSE quiet[c]]
        /\ UNCHANGED <<monitored, paused, queue, hand, selected, dealt, skipped>>

----------------------------------------------------------------------------
(* The users.  Every request resolves the workspace, which marks it seen.  *)

Seen(w) == unseen' = [unseen EXCEPT ![w] = 0]

Visit(w) ==
    /\ unseen[w] # 0
    /\ Seen(w)
    /\ UNCHANGED <<monitored, dates, paused, batch, history>>

(* An id is new: one the running pass still holds is not added again.      *)
AddPage(c) ==
    /\ c \notin monitored \cup InBatch
    /\ monitored' = monitored \cup {c}
    /\ Seen(Owner[c])
    /\ UNCHANGED <<dates, paused, batch, history>>

(* The columns of a page without a row are as those of a new row.          *)
RemovePage(c) ==
    /\ c \in monitored
    /\ monitored' = monitored \ {c}
    /\ SetDate(c, {DueNow})
    /\ paused' = [paused EXCEPT ![c] = FALSE]
    /\ quiet' = [quiet EXCEPT ![c] = Long]
    /\ skipped' = [skipped EXCEPT ![c] = 0]
    /\ Seen(Owner[c])
    /\ UNCHANGED batch

(* Mutant of Resume: the resumed page goes to the head of the due order.   *)
Resume_JumpsAhead(c) ==
    /\ c \in monitored
    /\ wait' = [wait EXCEPT ![c] = 0]
    /\ older' = OlderWithout(c) \cup ({c} \X { d \in Competitors \ {c} : wait[d] = 0 })
    /\ paused' = [paused EXCEPT ![c] = FALSE]
    /\ quiet' = [quiet EXCEPT ![c] = Long]
    /\ skipped' = [skipped EXCEPT ![c] = 0]
    /\ Seen(Owner[c])
    /\ UNCHANGED <<monitored, batch>>

Resume(c) ==
    /\ c \in monitored
    /\ SetDate(c, {DueNow})
    /\ paused' = [paused EXCEPT ![c] = FALSE]
    /\ quiet' = [quiet EXCEPT ![c] = Long]
    /\ skipped' = [skipped EXCEPT ![c] = 0]
    /\ Seen(Owner[c])
    /\ UNCHANGED <<monitored, batch>>

(* A manual retry writes the row like a check of the pass.  A page the     *)
(* pass has selected already is checked by it all the same.                *)
Retry(c) ==
    /\ c \in monitored
    /\ WriteRow(c, AnyHours)
    /\ quiet' = IF c \in InBatch THEN quiet ELSE [quiet EXCEPT ![c] = 0]
    /\ Seen(Owner[c])
    /\ UNCHANGED <<monitored, batch>>

Next ==
    \/ StartPass \/ MissPass \/ EndPass \/ Kill \/ NextDay
    \/ \E v \in Workers : Take(v)
    \/ \E c \in Competitors :
          \/ Persist(c) \/ Throw(c)
          \/ AddPage(c) \/ RemovePage(c) \/ Resume(c) \/ Retry(c)
    \/ \E w \in Workspaces : Visit(w)

(* Days go by and a batch is worked through.  Not every firing is missed,  *)
(* not every instance dies before a worker has taken a page, and not every *)
(* check of a page that can be persisted throws or is killed.              *)
Fairness ==
    /\ WF_vars(NextDay)
    /\ WF_vars(EndPass)
    /\ SF_vars(StartPass)
    /\ SF_vars(\E v \in Workers : Take(v))
    /\ \A c \in Competitors :
          /\ SF_vars(Persist(c))
          /\ WF_vars(c \notin monitored /\ Throw(c))

Spec == Init /\ [][Next]_vars /\ Fairness

----------------------------------------------------------------------------
(* Properties.                                                             *)

(* The values have their types, and older orders just the due pages.       *)
TypeOK ==
    /\ monitored \subseteq Competitors
    /\ wait \in [Competitors -> 0..FiringsUntil(23 + 24 * Interval + JitterHours)]
    /\ older \subseteq Competitors \X Competitors
    /\ \A p \in older : wait[p[1]] = 0 /\ wait[p[2]] = 0
    /\ \A c, d \in Competitors :
          c # d /\ wait[c] = 0 /\ wait[d] = 0 => <<c, d>> \in older \/ <<d, c>> \in older
    /\ \A c, d \in Competitors : <<c, d>> \in older => <<d, c>> \notin older
    /\ paused \in [Competitors -> BOOLEAN]
    /\ unseen \in [Workspaces -> 0..(ActiveWindow + 1)]
    /\ pass \in {"waiting", "running", "done"}
    /\ queue \in Seq(Competitors)
    /\ hand \in [Workers -> Competitors \cup {Idle}]
    /\ selected \subseteq Competitors /\ dealt \subseteq Competitors
    /\ quiet \in [Competitors -> 0..Long]
    /\ skipped \in [Competitors -> 0..Many]

(* Workers that share one queue across their awaits (processDueBatch) do   *)
(* each selected row once: it waits in the queue, or is in the hand of one *)
(* worker, or is counted, and in one of these places only, whatever throws *)
(* and whoever removes or retries the page meanwhile.  So a pass that ends *)
(* by itself has counted all its rows, and no row twice; a killed one      *)
(* leaves none behind.                                                     *)
EachRowOnce ==
    /\ TypeOK
    /\ IsInjective(queue)
    /\ \A v, w \in Workers : v # w /\ hand[v] # Idle => hand[v] # hand[w]
    /\ Range(queue) \cap working = {} /\ InBatch \cap dealt = {}
    /\ selected = InBatch \cup dealt
    /\ Cardinality(selected) <= BatchSize
    /\ pass # "running" => selected = {}

(* Bounded waiting: a due page is left out of a pass only for older due    *)
(* dates, so undisturbed passes leave it out at most as often as the other *)
(* pages fill a batch, whoever is added, resumed, retried or comes back    *)
(* from dormancy meanwhile (ORDER BY next_check_at ... LIMIT).             *)
BoundedWait ==
    \A c \in Competitors :
        skipped[c] <= (Cardinality(Competitors) - 1) \div BatchSize

(* app/(workspace)/privacy/page.tsx:33 "Scheduled checks run at most       *)
(* weekly": a pass selects no page whose last persisted check is less than *)
(* a week old, unless its user resumed it.                                 *)
WeeklyCeiling ==
    \A c \in InBatch \cap monitored : quiet[c] > Interval

(* Nothing due is forgotten: a due page of an active workspace is checked, *)
(* or stops being due or eligible, in spite of missed firings, killed      *)
(* instances and failing checks (the header of processDueBatch).           *)
EveryDueReached ==
    \A c \in Competitors :
        c \in Due ~> c \notin Due

============================================================================
