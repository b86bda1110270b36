-------------------------- MODULE MCGuardedFetch --------------------------
(***************************************************************************)
(* A small instance of GuardedFetch for TLC: a named host, one with a      *)
(* public and one with a private IP literal, and an address that the       *)
(* policy refuses; one public and one private address.                     *)
(***************************************************************************)
EXTENDS GuardedFetch

CONSTANTS named, literal, inner, refused, public, private

MCPolicy == [u \in Urls |-> IF u = refused THEN "scheme" ELSE "ok"]

MCLiteral == [u \in Urls |-> IF u = literal THEN public
                             ELSE IF u = inner THEN private ELSE NoAddress]

============================================================================
