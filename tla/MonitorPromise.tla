--------------------------- MODULE MonitorPromise ---------------------------
(***************************************************************************)
(* What the monitoring beta promises about a monitored page, whatever      *)
(* checks, requests and crashes go on behind it.  Each page has the        *)
(* snapshots that may be shown, the verdict of its last check, the failure *)
(* streak and the pause.  A failed check changes no snapshot, a verdict is *)
(* good only when there is something to show, only a failure that reaches  *)
(* the threshold pauses a page and only the user resumes it.               *)
(***************************************************************************)
EXTENDS Naturals, Sequences

CONSTANTS Competitors, Pages, Threshold

VARIABLES phase, shown, verdict, streak, paused

vars == <<phase, shown, verdict, streak, paused>>

Init ==
    /\ phase = [c \in Competitors |-> "unborn"]
    /\ shown = [c \in Competitors |-> <<>>]
    /\ verdict = [c \in Competitors |-> "none"]
    /\ streak = [c \in Competitors |-> 0]
    /\ paused = [c \in Competitors |-> FALSE]

(* A page starts with nothing to show, and leaves nothing behind.          *)
Clear(c) ==
    /\ shown' = [shown EXCEPT ![c] = <<>>]
    /\ verdict' = [verdict EXCEPT ![c] = "none"]
    /\ streak' = [streak EXCEPT ![c] = 0]
    /\ paused' = [paused EXCEPT ![c] = FALSE]

Add(c) ==
    /\ phase[c] = "unborn"
    /\ phase' = [phase EXCEPT ![c] = "live"]
    /\ Clear(c)

Remove(c) ==
    /\ phase[c] = "live"
    /\ phase' = [phase EXCEPT ![c] = "removed"]
    /\ Clear(c)

Resume(c) ==
    /\ phase[c] = "live"
    /\ streak' = [streak EXCEPT ![c] = 0]
    /\ paused' = [paused EXCEPT ![c] = FALSE]
    /\ UNCHANGED <<phase, shown, verdict>>

(* A new snapshot becomes visible.  The verdict follows in a step of its   *)
(* own, or never when the check dies in between.                           *)
Publish(c) ==
    /\ phase[c] = "live"
    /\ \E p \in Pages : shown' = [shown EXCEPT ![c] = Append(@, p)]
    /\ UNCHANGED <<phase, verdict, streak, paused>>

RecordGood(c) ==
    /\ phase[c] = "live"
    /\ shown[c] # <<>>
    /\ verdict' = [verdict EXCEPT ![c] = "good"]
    /\ streak' = [streak EXCEPT ![c] = 0]
    /\ UNCHANGED <<phase, shown, paused>>

RecordBad(c) ==
    /\ phase[c] = "live"
    /\ verdict' = [verdict EXCEPT ![c] = "bad"]
    /\ streak'[c] > 0
    /\ streak' = [streak EXCEPT ![c] = streak'[c]]
    /\ paused' = [paused EXCEPT ![c] = @ \/ streak'[c] >= Threshold]
    /\ UNCHANGED <<phase, shown>>

Next ==
    \E c \in Competitors :
        \/ Add(c) \/ Remove(c) \/ Resume(c)
        \/ Publish(c) \/ RecordGood(c) \/ RecordBad(c)

Spec == Init /\ [][Next]_vars

============================================================================
