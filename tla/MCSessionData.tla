--------------------------- MODULE MCSessionData ---------------------------
(***************************************************************************)
(* SessionData for TLC: the addresses are interchangeable.                 *)
(***************************************************************************)
EXTENDS SessionData

AnyAddress == Permutations(Addresses)

=============================================================================
