----------------------------- MODULE VpnSwitch -----------------------------
(***************************************************************************)
(* What the service promises to a client that waits: there is one session  *)
(* at a time; every state it announces is the recorded status before the   *)
(* session moves on, until it is asked to stop; while it goes on unasked   *)
(* nothing says that the VPN is off; and it is not over before the status  *)
(* says so.                                                                *)
(***************************************************************************)

VARIABLES
  session,    \* the state of the session, or "off"
  asked,      \* has it been asked to stop?
  status      \* the status on record

switchVars == <<session, asked, status>>

Announced == {"connecting", "connected", "reconnecting"}

Says == [connecting   |-> "CONNECTING",
         connected    |-> "CONNECTED",
         reconnecting |-> "RECONNECTING"]

Init ==
  /\ session = "off"
  /\ asked = FALSE
  /\ status = "DISCONNECTED"

-----------------------------------------------------------------------------

Start ==
  /\ session = "off"
  /\ session' = "started"
  /\ asked' \in BOOLEAN
  /\ UNCHANGED status

(* The session moves on when its last state is on record. *)
Move(from, to) ==
  /\ session \in from
  /\ session \in Announced => asked \/ status = Says[session]
  /\ session' = to
  /\ UNCHANGED <<asked, status>>

Attempt == Move({"started", "reconnecting"}, "connecting")

Connected == Move({"connecting"}, "connected")

Reconnect == Move({"connecting", "connected"}, "reconnecting")

Exit == Move(Announced \cup {"started"}, "exiting")

Ask ==
  /\ session # "off"
  /\ asked' = TRUE
  /\ UNCHANGED <<session, status>>

(* A status is recorded: that of the session, or that it ends, or that of  *)
(* a command that has asked it to stop or found none.                      *)
Tell ==
  /\ \/ session \in Announced /\ status' = Says[session]
     \/ session = "exiting" /\ status' \in {"AUTHENTICATION_FAILURE", "DISCONNECTED"}
     \/ /\ asked \/ session = "off"
        /\ status' \in {"DISCONNECTED", "PERMISSION_REVOKED"}
  /\ UNCHANGED <<session, asked>>

Over ==
  /\ session = "exiting"
  /\ status \in {"DISCONNECTED", "PERMISSION_REVOKED", "AUTHENTICATION_FAILURE"}
  /\ session' = "off"
  /\ asked' = FALSE
  /\ UNCHANGED status

(* The process dies. *)
Die ==
  /\ session' = "off"
  /\ asked' = FALSE
  /\ status' = "DISCONNECTED"

Next ==
  Start \/ Attempt \/ Connected \/ Reconnect \/ Exit \/ Ask \/ Tell \/ Over \/ Die

Spec == Init /\ [][Next]_switchVars
=============================================================================
