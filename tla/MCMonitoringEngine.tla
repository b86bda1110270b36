------------------------- MODULE MCMonitoringEngine -------------------------
(***************************************************************************)
(* Small instances of MonitoringEngine for TLC: one page and two runners,  *)
(* since checks of different pages share no state.                         *)
(***************************************************************************)
EXTENDS MonitoringEngine, TLC

CONSTANTS full, part, c1, r1, r2

(* A full page, a page without a headline, a site that says no and one     *)
(* that is down: one fetch result per way the engine treats them.          *)
MCPageFetches ==
    { [kind |-> "success", page |-> full],
      [kind |-> "success", page |-> part],
      [kind |-> "http_error", status |-> 403, challenge |-> FALSE],
      [kind |-> "timeout"] }

MCSymmetry == Permutations(Runners)

============================================================================
