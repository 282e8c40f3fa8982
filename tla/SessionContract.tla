-------------------------- MODULE SessionContract --------------------------
(***************************************************************************)
(* What a supervisor relies on when it runs a session (the bounds on        *)
(* run_session in supervise_with, and the comments on SupervisorEvent):      *)
(* the session returns once; it returns Cancelled only if it was cancelled, *)
(* and returns if it was; its consumer is reported connected, and then gone *)
(* exactly once.  The reports are not synchronised with the return: they    *)
(* may come after it.  A consumer that was reported gone may be reported    *)
(* back, and is not reported gone again.                                    *)
(***************************************************************************)

VARIABLES outcome,    \* "none" until the session has returned
          cancelled,
          consumer    \* "none", "connected", "gone" or "back"

contractVars == <<outcome, cancelled, consumer>>

ContractInit ==
  /\ outcome = "none"
  /\ cancelled = FALSE
  /\ consumer = "none"

Returns ==
  /\ outcome = "none"
  /\ outcome' \in {"Ok", "Err"} \cup (IF cancelled THEN {"Cancelled"} ELSE {})
  /\ UNCHANGED <<cancelled, consumer>>

Connects ==
  /\ consumer' = CASE consumer = "none" -> "connected"
                   [] consumer = "gone" -> "back"
                   [] OTHER -> consumer
  /\ UNCHANGED <<outcome, cancelled>>

Disconnects ==
  /\ consumer = "connected"
  /\ consumer' = "gone"
  /\ UNCHANGED <<outcome, cancelled>>

IsCancelled ==
  /\ outcome = "none"
  /\ cancelled' = TRUE
  /\ UNCHANGED <<outcome, consumer>>

ContractNext == Returns \/ Connects \/ Disconnects \/ IsCancelled

ContractSafety == ContractInit /\ [][ContractNext]_contractVars

\* A session that is over closes its connection, so its consumer goes.
Contract ==
  /\ ContractSafety
  /\ WF_contractVars(cancelled /\ Returns)
  /\ WF_contractVars(outcome # "none" /\ Disconnects)
=============================================================================
