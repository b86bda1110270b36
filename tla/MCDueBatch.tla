----------------------------- MODULE MCDueBatch -----------------------------
(***************************************************************************)
(* Small instances of DueBatch for TLC: the first workspace has every page *)
(* but the last, which belongs to the second; two workers share the batch. *)
(***************************************************************************)
EXTENDS DueBatch

CONSTANTS c1, c2, c3, w1, w2, v1, v2

MCOwner == [c \in Competitors |-> IF c = c3 THEN w2 ELSE w1]

============================================================================
