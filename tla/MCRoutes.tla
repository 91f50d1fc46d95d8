------------------------------ MODULE MCRoutes ------------------------------
(***************************************************************************)
(* Routes on their way to the interface, for TLC: one is converted from    *)
(* and to text (AddressConversion), or a list is made of several           *)
(* (NetworkSpace).  The two know addresses of different widths, so a       *)
(* behavior does one or the other.                                         *)
(***************************************************************************)
EXTENDS NetworkSpace, AddressConversion

MCInit == Init /\ RouteInit

ListStep == Next /\ routeVars = NoRoute /\ UNCHANGED routeVars

ConvertStep ==
  /\ pc = "adding" /\ ipAddresses = {}
  /\ Convert \/ Converted
  /\ UNCHANGED vars

MCNext == ListStep \/ ConvertStep

MCSpec ==
  /\ MCInit /\ [][MCNext]_<<vars, routeVars>>
  /\ WF_vars(LoopStep /\ UNCHANGED routeVars)
  /\ WF_vars(PositiveIPList /\ UNCHANGED routeVars)
=============================================================================
