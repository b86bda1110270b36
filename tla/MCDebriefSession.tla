------------------------- MODULE MCDebriefSession -------------------------
(***************************************************************************)
(* A small instance of DebriefSession for TLC: both files have all the     *)
(* columns; the sample has values for both KPIs and a report of it on the  *)
(* click rate may be switched, the pulled file has values for the click    *)
(* rate only, so that loading it moves the KPI.                            *)
(***************************************************************************)
EXTENDS DebriefSession, TLC

CONSTANTS roas, ctr, sample, pulled

MCAccepted == [f \in Files |-> Kpis]

MCUsable == [f \in Files |-> IF f = sample THEN Kpis ELSE {ctr}]

MCPreferred == [f \in Files |-> IF f = sample THEN roas ELSE ctr]

(* One URL is as good as another.                                          *)
UrlSymmetry == Permutations(Urls)

===========================================================================
