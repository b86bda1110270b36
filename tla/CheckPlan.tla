----------------------------- MODULE CheckPlan -----------------------------
(***************************************************************************)
(* The pure decisions of a monitoring check: what a fetch result counts    *)
(* as (modules/monitoring/fetcher.ts, outcomes.ts), what is persisted for  *)
(* it and when the page is due or may be retried again (scheduler.ts).     *)
(* The data is abstracted to what these decisions look at.  The extracted  *)
(* signals of a page are a member of Pages, and since the content hash is  *)
(* a digest of the signals, a page stands for its own hash.                *)
(***************************************************************************)
EXTENDS Naturals

CONSTANTS
    Pages,            \* page states, told apart by their extracted signals
    FullPages,        \* the page states with a headline
    NoPage,           \* no signals: a page that yields none, or no snapshot
    Never,            \* a timestamp column that is NULL
    NoOutcome,        \* the last_outcome column that is NULL
    Threshold,        \* AUTO_PAUSE_AFTER_FAILURES
    Interval,         \* CHECK_INTERVAL_MS
    Jitters,          \* what the random jitter may add to it
    Cooldown,         \* RETRY_COOLDOWN_MS
    BlockedCooldown   \* RETRY_COOLDOWN_BLOCKED_MS

ASSUME PagesAssumption ==
    /\ FullPages \subseteq Pages
    /\ NoPage \notin Pages

ASSUME TimeAssumption ==
    /\ Never \notin Nat
    /\ Threshold \in Nat \ {0}
    /\ Interval \in Nat \ {0}
    /\ Jitters \subseteq Nat
    /\ Cooldown \in Nat \ {0}
    /\ BlockedCooldown \in Nat \ {0}
    /\ Cooldown <= BlockedCooldown

(* The outcomes a fetch attempt produces; no_change is decided later.      *)
AttemptOutcomes ==
    { "success", "timeout", "blocked", "dns_error", "invalid_url",
      "redirect_loop", "unsupported_content", "too_large", "ssrf_blocked",
      "partial_parse", "error" }

CheckOutcomes == AttemptOutcomes \cup {"no_change"}

ASSUME NoOutcomeAssumption == NoOutcome \notin CheckOutcomes

(* success, no_change and partial_parse all mean that the check worked.    *)
FailureOutcomes == CheckOutcomes \ {"success", "no_change", "partial_parse"}

----------------------------------------------------------------------------
(* What guardedFetch returns.  A status is 0 where the result has none.    *)

RefusalReasons ==
    { "invalid_url", "scheme", "credentials", "port",
      "blocked_host", "ads_library", "ip_private" }

FetchResults ==
         [kind : {"refused"}, reason : RefusalReasons]
    \cup [kind : {"dns_error", "ssrf_blocked", "timeout", "redirect_loop",
                  "network_error"}]
    \cup [kind : {"too_large", "unsupported_content", "unsupported_encoding"}]
    \cup [kind : {"http_error"}, status : Nat, challenge : BOOLEAN]
    \cup [kind : {"success"}, page : Pages \cup {NoPage}]

(* The outcome of one attempt: the switch of runCheckAttempt.              *)
AttemptOutcome(out) ==
    CASE out.kind = "refused" ->
             IF out.reason \in {"invalid_url", "scheme", "credentials", "port"}
             THEN "invalid_url" ELSE "ssrf_blocked"
      [] out.kind = "network_error" -> "error"
      [] out.kind = "unsupported_encoding" -> "unsupported_content"
      [] out.kind = "http_error" ->
             IF out.status \in {403, 429} \/ out.challenge
             THEN "blocked" ELSE "error"
      [] out.kind = "success" ->
             IF out.page = NoPage THEN "unsupported_content"
             ELSE IF out.page \in FullPages THEN "success"
             ELSE "partial_parse"
      [] OTHER -> out.kind

(* The signals an attempt brings back, for a success that has some.        *)
AttemptPage(out) == IF out.kind = "success" THEN out.page ELSE NoPage

(* The in-run retry applies to timeouts and to 5xx responses only.         *)
TransientAttempt(out) ==
    \/ AttemptOutcome(out) = "timeout"
    \/ /\ AttemptOutcome(out) = "error"
       /\ out.kind = "http_error"
       /\ out.status >= 500

CheckAttempt(out) ==
    [outcome |-> AttemptOutcome(out), page |-> AttemptPage(out)]

Attempts == [outcome : AttemptOutcomes, page : Pages \cup {NoPage}]

(* The plan of a check, and the columns of a page's row that checks and    *)
(* requests write (monitored_competitors); a snapshot id is 0 for NULL.    *)
Plans ==
    [eventOutcome : CheckOutcomes, insertSnapshot : BOOLEAN,
     countsAsSuccess : BOOLEAN, newFailures : Nat, autoPause : BOOLEAN]

Rows ==
    [paused : BOOLEAN, failures : Nat, nextCheckAt : Nat,
     lastAttemptAt : Nat \cup {Never},
     lastOutcome : CheckOutcomes \cup {NoOutcome},
     lastSuccessAt : Nat \cup {Never}, lastSuccessSnap : Nat]

----------------------------------------------------------------------------
(* Mutants of PlanPersistence and CompetitorUpdate below: the pause one    *)
(* failure early; a failure that overwrites the record of the last         *)
(* success; a success that lifts the pause.                                *)
PlanPersistence_PausesEarly(attempt, latest, failures) ==
    LET good == attempt.outcome \notin FailureOutcomes /\ attempt.page # NoPage
    IN  [eventOutcome |-> attempt.outcome,
         insertSnapshot |-> good /\ attempt.page # latest,
         countsAsSuccess |-> good,
         newFailures |-> IF good THEN 0 ELSE failures + 1,
         autoPause |-> ~good /\ failures + 1 >= Threshold - 1]

CompetitorUpdate_FailureOverwrites(row, plan, at, due, snap) ==
    [row EXCEPT !.lastAttemptAt = at, !.lastOutcome = plan.eventOutcome,
                !.nextCheckAt = due, !.failures = plan.newFailures,
                !.lastSuccessAt = IF plan.countsAsSuccess THEN at ELSE @,
                !.lastSuccessSnap = snap,
                !.paused = @ \/ plan.autoPause]

CompetitorUpdate_Unpauses(row, plan, at, due, snap) ==
    [row EXCEPT !.lastAttemptAt = at, !.lastOutcome = plan.eventOutcome,
                !.nextCheckAt = due, !.failures = plan.newFailures,
                !.lastSuccessAt = IF plan.countsAsSuccess THEN at ELSE @,
                !.paused = plan.autoPause]

(* What is persisted for an attempt, given the latest stored snapshot and  *)
(* the failure streak of the row the check was started from.               *)

PlanPersistence(attempt, latest, failures) ==
    IF attempt.outcome \notin FailureOutcomes /\ attempt.page # NoPage
    THEN LET unchanged == attempt.page = latest
         IN  [eventOutcome    |-> IF unchanged THEN "no_change"
                                  ELSE attempt.outcome,
              insertSnapshot  |-> ~unchanged,
              countsAsSuccess |-> TRUE,
              newFailures     |-> 0,
              autoPause       |-> FALSE]
    ELSE [eventOutcome    |-> attempt.outcome,
          insertSnapshot  |-> FALSE,
          countsAsSuccess |-> FALSE,
          newFailures     |-> failures + 1,
          autoPause       |-> failures + 1 >= Threshold]

(* The columns a check writes back; the others keep their value.  snap is  *)
(* the id of the snapshot the check inserted, 0 when it inserted none.     *)
CompetitorUpdate(row, plan, at, due, snap) ==
    LET base == [row EXCEPT !.lastAttemptAt = at,
                            !.lastOutcome = plan.eventOutcome,
                            !.nextCheckAt = due]
    IN  IF plan.insertSnapshot /\ snap # 0
        THEN [base EXCEPT !.failures = 0,
                          !.lastSuccessAt = at,
                          !.lastSuccessSnap = snap]
        ELSE IF plan.countsAsSuccess
        THEN [base EXCEPT !.failures = 0, !.lastSuccessAt = at]
        ELSE [base EXCEPT !.failures = plan.newFailures,
                          !.paused = @ \/ plan.autoPause]

(* The due dates an attempt at time `at' may be given.                     *)
NextCheckTimes(at) == { at + Interval + j : j \in Jitters }

RetryAllowedAt(row) ==
    IF row.lastAttemptAt = Never THEN 0
    ELSE row.lastAttemptAt + (IF row.lastOutcome = "blocked"
                              THEN BlockedCooldown ELSE Cooldown)

============================================================================
