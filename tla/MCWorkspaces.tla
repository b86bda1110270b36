--------------------------- MODULE MCWorkspaces ---------------------------
(***************************************************************************)
(* Small instances of Workspaces for TLC: the slots are the tabs of one    *)
(* browser, which may overlap in its workspace.                            *)
(***************************************************************************)
EXTENDS Workspaces, TLC

CONSTANTS s1, s2, b1, u1, u2, u3, bad

MCJar == [t \in Slots |-> b1]

MCSymmetry == Permutations(Slots) \cup Permutations(Urls \ Refused)

============================================================================
