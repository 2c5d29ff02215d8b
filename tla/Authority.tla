----------------------------- MODULE Authority -----------------------------
(***************************************************************************)
(* What controller and agent together promise about the authority to       *)
(* trade, with sessions, wires, handlers and retries forgotten.  Nothing   *)
(* is handed to an agent before an operator accepted it.  Authority runs   *)
(* until an instant that only moves forward, is still ahead when it is     *)
(* set, and never lies more than one TTL after the time of the controller. *)
(* It ends at any moment, and once the process gave up it is gone for      *)
(* good.  LeaseAuthority implements this.                                  *)
(***************************************************************************)
EXTENDS Integers

CONSTANTS Ttl,      \* LeasePolicy.lease_ttl
          Skew      \* the agent's clock minus the controller's

VARIABLES clock,    \* the agent's clock
          accepted, \* an operator has accepted the agent
          until,    \* expires_at of the lease the agent holds, NoLease without one
          tools,    \* what it was given to trade with: the credential, an engine
          ended     \* the agent process has exited

vars == <<clock, accepted, until, tools, ended>>

NoLease == 0
Tools   == {"credential", "engine"}

Init ==
  /\ clock = Skew /\ accepted = FALSE
  /\ until = NoLease /\ tools = {} /\ ended = FALSE

\* Time passes.
Tick == clock' = clock + 1 /\ UNCHANGED <<accepted, until, tools, ended>>

\* An operator accepts the agent.
Accept == accepted' = TRUE /\ UNCHANGED <<clock, until, tools, ended>>

\* A lease is installed: it is running, outlasts the one it replaces, and was
\* issued by now.
Obtain ==
  /\ accepted /\ ~ended
  /\ until' # NoLease /\ until' > clock
  /\ until <= until' /\ until' <= clock - Skew + Ttl
  /\ UNCHANGED <<clock, accepted, tools, ended>>

\* A credential arrives or an engine is started.
Equip ==
  /\ accepted /\ ~ended
  /\ tools' \in SUBSET Tools /\ tools \subseteq tools'
  /\ UNCHANGED <<clock, accepted, until, ended>>

\* A session ends, its lease with it, and the process goes on.  A credential that
\* came with its last message stays.
Disconnect ==
  /\ ~ended
  /\ until' = NoLease
  /\ tools' \ tools \subseteq IF accepted THEN {"credential"} ELSE {}
  /\ tools' \in SUBSET Tools
  /\ UNCHANGED <<clock, accepted, ended>>

\* The process gives up: nothing it held survives.
End ==
  /\ ~ended
  /\ ended' = TRUE /\ until' = NoLease /\ tools' = {}
  /\ UNCHANGED <<clock, accepted>>

Next == Tick \/ Accept \/ Obtain \/ Equip \/ Disconnect \/ End

Spec == Init /\ [][Next]_vars

=============================================================================
