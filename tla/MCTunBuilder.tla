---------------------------- MODULE MCTunBuilder ----------------------------
(***************************************************************************)
(* TunBuilder for TLC: a route that the system takes as it is, and one     *)
(* that is refused in IPv4, read as another in IPv6.                       *)
(***************************************************************************)
EXTENDS TunBuilder

MCGiven ==
  [f \in Families |->
     [r \in AnyRoute |->
        IF r # "r2" THEN r ELSE IF f = "ipv4" THEN "rejected" ELSE "r1"]]
=============================================================================
