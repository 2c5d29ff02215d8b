--------------------------- MODULE LeaseAuthority ---------------------------
(***************************************************************************)
(* Trading authority of one agent: the controller's approval store, its    *)
(* HTTP handlers and the agent registry, one AgentSession task per         *)
(* connection, the two directions of the wire, and the agent's LeaseClient *)
(* inside its reconnect loop.                                              *)
(*                                                                         *)
(* The HTTP handlers, the session tasks and the agent run concurrently.    *)
(* A handler changes the store and then looks the session up in the        *)
(* registry; a session reads the store and then enters the registry: both  *)
(* are two steps here.  Time is counted in ticks of the controller's       *)
(* clock; the agent reads its own, Skew ticks ahead.                       *)
(***************************************************************************)
EXTENDS Integers, Sequences

CONSTANTS Ttl,          \* LeasePolicy.lease_ttl
          MinRefresh,   \* LeasePolicy.min_refresh_interval
          RefreshAt,    \* lease_ttl * AgentConfig.refresh_at_fraction
          Skew,         \* the agent's clock minus the controller's
          DiskFails,    \* ApprovalStore::persist may fail
          MaxTime,      \* bound: ticks
          MaxSessions,  \* bound: connections of the agent
          MaxGrants,    \* bound: LeaseGrants of one session
          MaxDecisions, \* bound: requests that change the approval store
          MaxDeploys    \* bound: deploy requests

ASSUME LeaseAssumption ==
  /\ Ttl \in Nat \ {0} /\ MinRefresh \in Nat /\ RefreshAt \in Nat /\ Skew \in Int
  /\ DiskFails \in BOOLEAN
  /\ MaxTime \in Nat /\ MaxSessions \in Nat /\ MaxGrants \in Nat
  /\ MaxDecisions \in Nat /\ MaxDeploys \in Nat

VARIABLES
  now,
  \* controller: the approval record, whether it carries the agent's id, the
  \* second halves of HTTP requests, FleetState's view, the registry's entry
  store, named, http, fleet, registry,
  \* AgentSession s: run state, cached approval_state, current_lease, leases
  \* granted, lifecycle_rx, a command in cmd_in_rx; deniedAt: when the cached
  \* state last left accepted
  phase, approval, current, grants, life, cmd, deniedAt,
  \* the wire of session s
  link, up, down,
  \* the agent: reconnect loop, session in use, held lease, lease a refresh was
  \* requested for, credential catalog, its entry in StrategyRegistry.running,
  \* an engine left behind by an earlier registry, and its orders at the venue
  mode, cur, lease, asked, creds, slot, detached, resting,
  \* history: was the agent ever accepted, and why it stopped; requests so far;
  \* was a message or a timer ever a tick late
  everAccepted, why, decisions, deploys, late

http_vars    == <<store, named, http, fleet, registry>>
session_vars == <<phase, approval, current, grants, life, cmd, deniedAt>>
wire_vars    == <<link, up, down>>
agent_vars   == <<mode, cur, lease, asked, creds, slot, detached, resting>>
history_vars == <<decisions, deploys, late>>
vars == <<now, http_vars, session_vars, wire_vars, agent_vars, everAccepted, why,
          history_vars>>

Sessions == 1 .. MaxSessions
States   == {"pending", "accepted", "rejected", "revoked"}

\* A lease is known by its id and its issue time; expires_at is Ttl later.
NoLease    == [id |-> 0, at |-> 0]
AgentNow   == now + Skew
Expired(l) == l # NoLease /\ AgentNow >= l.at + Ttl
Authorised == mode = "session" /\ lease # NoLease /\ ~Expired(lease)

Msg(type, l) == [type |-> type, lease |-> l]

Init ==
  /\ now = 0
  /\ store = "unknown" /\ named = FALSE /\ http = {} /\ fleet = "none" /\ registry = 0
  /\ phase = [s \in Sessions |-> "none"]
  /\ approval = [s \in Sessions |-> "accepted"]
  /\ current = [s \in Sessions |-> NoLease]
  /\ grants = [s \in Sessions |-> 0]
  /\ life = [s \in Sessions |-> <<>>]
  /\ cmd = [s \in Sessions |-> FALSE]
  /\ deniedAt = [s \in Sessions |-> 0]
  /\ link = [s \in Sessions |-> FALSE]
  /\ up = [s \in Sessions |-> <<>>]
  /\ down = [s \in Sessions |-> <<>>]
  /\ mode = "idle" /\ cur = 0 /\ lease = NoLease /\ asked = NoLease
  /\ creds = FALSE /\ slot = "empty" /\ detached = FALSE /\ resting = FALSE
  /\ everAccepted = FALSE /\ why = "none" /\ decisions = 0 /\ deploys = 0 /\ late = FALSE

-----------------------------------------------------------------------------
(* HTTP handlers.                                                           *)

\* One more request within the bound.
Request ==
  decisions < MaxDecisions /\ decisions' = decisions + 1 /\ UNCHANGED <<deploys, late>>

\* accept, reject and revoke of the store, then the event to send.  A failing
\* persist leaves the change in memory and returns before send_lifecycle; a
\* record that no agent has registered under names no session to send to.
Decide(state, event) ==
  /\ Request
  /\ store # "unknown"
  /\ event \notin http
  /\ store' = state
  /\ \E saved \in IF DiskFails THEN BOOLEAN ELSE {TRUE} :
       http' = IF saved /\ named THEN http \cup {event} ELSE http
  /\ everAccepted' = (everAccepted \/ state = "accepted")
  /\ UNCHANGED <<now, named, fleet, registry, session_vars, wire_vars, agent_vars, why>>

AcceptAgent == Decide("accepted", "granted")
RejectAgent == Decide("rejected", "revoked")
RevokeAgent == Decide("revoked", "revoked")

PreApprove ==
  /\ Request
  /\ store = "unknown"
  /\ store' = "accepted" /\ named' = FALSE /\ everAccepted' = TRUE
  /\ UNCHANGED <<now, http, fleet, registry, session_vars, wire_vars, agent_vars, why>>

\* delete_approval tells no session.
DeleteApproval ==
  /\ Request
  /\ store # "unknown"
  /\ store' = "unknown" /\ named' = FALSE
  /\ UNCHANGED <<now, http, fleet, registry, session_vars, wire_vars, agent_vars,
                 everAccepted, why>>

\* The registry holds a sender whose session is still running.
Reachable(s) == s # 0 /\ phase[s] # "ended"

\* registry.send_lifecycle; its error is ignored.
SendLifecycle(event) ==
  /\ event \in http
  /\ http' = http \ {event}
  /\ life' = IF ~Reachable(registry) THEN life
             ELSE [life EXCEPT ![registry] = Append(@, event)]
  /\ UNCHANGED <<now, store, named, fleet, registry, phase, approval, current, grants,
                 cmd, deniedAt, wire_vars, agent_vars, everAccepted, why, history_vars>>

\* pre_validate_deploy asks the fleet view, and lets an unknown agent pass.
PreValidateDeploy ==
  /\ deploys < MaxDeploys /\ deploys' = deploys + 1 /\ UNCHANGED <<decisions, late>>
  /\ fleet \in {"none", "accepted"}
  /\ "deploy" \notin http
  /\ http' = http \cup {"deploy"}
  /\ UNCHANGED <<now, store, named, fleet, registry, session_vars, wire_vars,
                 agent_vars, everAccepted, why>>

\* registry.send(SetDesiredStrategies).
SendDeploy ==
  /\ "deploy" \in http
  /\ http' = http \ {"deploy"}
  /\ cmd' = IF ~Reachable(registry) THEN cmd ELSE [cmd EXCEPT ![registry] = TRUE]
  /\ UNCHANGED <<now, store, named, fleet, registry, phase, approval, current, grants,
                 life, deniedAt, wire_vars, agent_vars, everAccepted, why, history_vars>>

-----------------------------------------------------------------------------
(* The session task of connection s.                                        *)

\* A send succeeds on an open link.  On a broken one it is lost, and fails once
\* the break has been noticed.
SendOk(s) == IF link[s] THEN {TRUE} ELSE BOOLEAN

Push(s, msgs) == down' = IF link[s] THEN [down EXCEPT ![s] = @ \o msgs] ELSE down

\* An error ends run_until_disconnect without the clean-up of Ok(None).
Continue(s, ok) == phase' = [phase EXCEPT ![s] = IF ok THEN "live" ELSE "ended"]

\* Mutant: an agent's first registration creates no record.
Mut_RecordRegister_NoRecord == store

\* record_register: the state of the agent's record, a new one pending.
RecordRegister == IF store = "unknown" THEN "pending" ELSE store

\* on_register up to the fleet view: record_register, cache its answer.
OnRegister(s) ==
  /\ phase[s] = "open"
  /\ up[s] # <<>> /\ Head(up[s]).type = "register"
  /\ up' = [up EXCEPT ![s] = Tail(@)]
  /\ store' = RecordRegister /\ named' = TRUE /\ fleet' = RecordRegister
  /\ approval' = [approval EXCEPT ![s] = RecordRegister]
  /\ deniedAt' = [deniedAt EXCEPT ![s] = now]
  /\ phase' = [phase EXCEPT ![s] = "entering"]
  /\ UNCHANGED <<now, http, registry, current, grants, life, cmd, link, down,
                 agent_vars, everAccepted, why, history_vars>>

\* issue_initial_lease_and_credentials
IssueInitialLease(s) ==
  LET l == [id |-> grants[s] + 1, at |-> now]
  IN /\ grants[s] < MaxGrants
     /\ grants' = [grants EXCEPT ![s] = @ + 1]
     /\ current' = [current EXCEPT ![s] = l]
     /\ Push(s, <<Msg("lease", l), Msg("credential", NoLease)>>)
     /\ \E ok \in SendOk(s) : Continue(s, ok)

\* Mutant: the admission gate is missing.
Mut_FinishRegister_NoGate(s) ==
  /\ phase[s] = "entering"
  /\ registry' = s
  /\ IssueInitialLease(s)
  /\ UNCHANGED <<now, store, named, http, fleet, approval, life, cmd, deniedAt, link, up,
                 agent_vars, everAccepted, why, history_vars>>

\* on_register from reg.register on: the admission gate and the first lease.
FinishRegister(s) ==
  /\ phase[s] = "entering"
  /\ registry' = s
  /\ IF approval[s] = "accepted"
     THEN IssueInitialLease(s)
     ELSE phase' = [phase EXCEPT ![s] = "live"] /\ UNCHANGED <<current, grants, down>>
  /\ UNCHANGED <<now, store, named, http, fleet, approval, life, cmd, deniedAt, link, up,
                 agent_vars, everAccepted, why, history_vars>>

\* ApprovalGranted: nothing when already accepted, otherwise a fresh lease.
OnGranted(s) ==
  /\ phase[s] = "live"
  /\ life[s] # <<>> /\ Head(life[s]) = "granted"
  /\ life' = [life EXCEPT ![s] = Tail(@)]
  /\ approval' = [approval EXCEPT ![s] = "accepted"]
  /\ IF approval[s] = "accepted"
     THEN UNCHANGED <<fleet, phase, current, grants, down>>
     ELSE /\ fleet' = IF fleet = "none" THEN fleet ELSE "accepted"
          /\ IssueInitialLease(s)
  /\ UNCHANGED <<now, store, named, http, registry, cmd, deniedAt, link, up, agent_vars,
                 everAccepted, why, history_vars>>

\* ApprovalRevoked, of a reject as well: nothing when already revoked, otherwise
\* the lease is dropped and LeaseRevoke sent.
OnRevoked(s) ==
  /\ phase[s] = "live"
  /\ life[s] # <<>> /\ Head(life[s]) = "revoked"
  /\ life' = [life EXCEPT ![s] = Tail(@)]
  /\ approval' = [approval EXCEPT ![s] = "revoked"]
  /\ IF approval[s] = "revoked"
     THEN UNCHANGED <<fleet, phase, current, deniedAt, down>>
     ELSE /\ fleet' = IF fleet = "none" THEN fleet ELSE "revoked"
          /\ current' = [current EXCEPT ![s] = NoLease]
          /\ deniedAt' = IF approval[s] = "accepted" THEN [deniedAt EXCEPT ![s] = now]
                         ELSE deniedAt
          /\ Push(s, <<Msg("revoke", NoLease)>>)
          /\ \E ok \in SendOk(s) : Continue(s, ok)
  /\ UNCHANGED <<now, store, named, http, registry, grants, cmd, link, up, agent_vars,
                 everAccepted, why, history_vars>>

\* on_refresh_request extends only for an accepted agent.
Refreshable(s) == approval[s] = "accepted"

\* Mutant: the rate limit includes the interval itself.
Mut_TooSoon_Inclusive(s) == now - current[s].at <= MinRefresh

\* since_issued < min_refresh_interval
TooSoon(s) == now - current[s].at < MinRefresh

\* on_refresh_request: revoke a denied agent; end the session on a lease it does
\* not know; ignore a request within MinRefresh; otherwise extend, same lease_id.
OnRefreshRequest(s) ==
  /\ phase[s] = "live"
  /\ up[s] # <<>> /\ Head(up[s]).type = "refresh"
  /\ up' = [up EXCEPT ![s] = Tail(@)]
  /\ LET id == Head(up[s]).lease.id
         extended == [id |-> id, at |-> now]
     IN \/ /\ ~Refreshable(s)
           /\ Push(s, <<Msg("revoke", NoLease)>>)
           /\ \E ok \in SendOk(s) : Continue(s, ok)
           /\ UNCHANGED <<current, link>>
        \/ /\ Refreshable(s)
           /\ current[s].id # id
           /\ phase' = [phase EXCEPT ![s] = "ended"]
           /\ link' = [link EXCEPT ![s] = FALSE]
           /\ UNCHANGED <<current, down>>
        \/ /\ Refreshable(s)
           /\ current[s].id = id
           /\ TooSoon(s)
           /\ UNCHANGED <<phase, current, link, down>>
        \/ /\ Refreshable(s)
           /\ current[s].id = id
           /\ ~TooSoon(s)
           /\ current' = [current EXCEPT ![s] = extended]
           /\ Push(s, <<Msg("lease", extended)>>)
           /\ \E ok \in SendOk(s) : Continue(s, ok)
           /\ UNCHANGED link
  /\ UNCHANGED <<now, http_vars, approval, grants, life, cmd, deniedAt, agent_vars,
                 everAccepted, why, history_vars>>

\* A command of cmd_in_rx goes out.
PumpCommand(s) ==
  /\ phase[s] = "live"
  /\ cmd[s]
  /\ cmd' = [cmd EXCEPT ![s] = FALSE]
  /\ Push(s, <<Msg("deploy", NoLease)>>)
  /\ \E ok \in SendOk(s) : Continue(s, ok)
  /\ UNCHANGED <<now, http_vars, approval, current, grants, life, deniedAt, link, up,
                 agent_vars, everAccepted, why, history_vars>>

\* recv() is Ok(None): a registered session leaves the fleet and the registry,
\* by agent id, whichever session is entered there.
OnDisconnect(s) ==
  /\ phase[s] \in {"open", "live"}
  /\ ~link[s] /\ up[s] = <<>>
  /\ phase' = [phase EXCEPT ![s] = "ended"]
  /\ IF phase[s] = "live" THEN fleet' = "none" /\ registry' = 0
                          ELSE UNCHANGED <<fleet, registry>>
  /\ UNCHANGED <<now, store, named, http, approval, current, grants, life, cmd, deniedAt,
                 wire_vars, agent_vars, everAccepted, why, history_vars>>

-----------------------------------------------------------------------------
(* The wire, and the agent.                                                 *)

\* The connection breaks; what was in flight may be lost from any point on.
LinkBreak(s) ==
  /\ link[s]
  /\ link' = [link EXCEPT ![s] = FALSE]
  /\ \E i \in 0 .. Len(up[s]), j \in 0 .. Len(down[s]) :
       /\ up' = [up EXCEPT ![s] = SubSeq(@, 1, i)]
       /\ down' = [down EXCEPT ![s] = SubSeq(@, 1, j)]
  /\ UNCHANGED <<now, http_vars, session_vars, agent_vars, everAccepted, why, history_vars>>

\* connect_and_run: a fresh LeaseClient and registry; the catalog is kept.
Connect ==
  /\ mode = "idle" /\ cur < MaxSessions
  /\ mode' = "session" /\ cur' = cur + 1
  /\ lease' = NoLease /\ asked' = NoLease
  /\ phase' = [phase EXCEPT ![cur + 1] = "open"]
  /\ link' = [link EXCEPT ![cur + 1] = TRUE]
  /\ up' = [up EXCEPT ![cur + 1] = <<Msg("register", NoLease)>>]
  /\ UNCHANGED <<now, http_vars, approval, current, grants, life, cmd, deniedAt, down,
                 creds, slot, detached, resting, everAccepted, why, history_vars>>

\* The agent leaves its session: to reconnect, or for good.
Hangup ==
  /\ link' = [link EXCEPT ![cur] = FALSE]
  /\ down' = [down EXCEPT ![cur] = <<>>]

\* AuthorityLost: expire_lease or revoke_lease signals the engine, abort_all
\* aborts its task, and the process ends.  Only an engine told before the abort,
\* while a lease is held, has begun to cancel.
LoseAuthority(reason, held) ==
  /\ mode' = "dead" /\ why' = reason
  /\ lease' = NoLease /\ asked' = NoLease
  /\ slot' = "empty" /\ detached' = FALSE
  /\ resting' \in IF slot = "engine" /\ held # NoLease THEN {resting, FALSE}
                  ELSE {resting}
  /\ Hangup

\* A transport error: abort_all, then the reconnect loop backs off.
TransportError ==
  /\ mode' = "idle"
  /\ lease' = NoLease /\ asked' = NoLease
  /\ slot' = "empty"
  /\ UNCHANGED <<detached, resting, why>>
  /\ Hangup

\* on_command, one message: the ack may fail; the loop then checks the expiry.
Receive(type) ==
  LET m == Head(down[cur])
  IN /\ mode = "session"
     /\ down[cur] # <<>> /\ m.type = type

\* What the loop does after a command left lease l and registry entry e.
Applied(l, e) ==
  \E ok \in SendOk(cur) :
    IF ~ok THEN TransportError
    ELSE IF Expired(l)
    THEN LoseAuthority("lapsed", l)
    ELSE /\ lease' = l /\ asked' = IF l = lease THEN asked ELSE NoLease
         /\ slot' = e
         /\ down' = [down EXCEPT ![cur] = Tail(@)]
         /\ UNCHANGED <<mode, detached, resting, link, why>>

\* install_lease, of a LeaseGrant or a LeaseRefresh.
InstallLease ==
  /\ Receive("lease")
  /\ Applied(Head(down[cur]).lease, slot)
  /\ UNCHANGED <<now, http_vars, session_vars, up, cur, creds, everAccepted, history_vars>>

PushCredential ==
  /\ Receive("credential")
  /\ creds' = TRUE
  /\ Applied(lease, slot)
  /\ UNCHANGED <<now, http_vars, session_vars, up, cur, everAccepted, history_vars>>

\* reconcile starts what is not in `running`; without the credential the entry
\* is a no-op task, which later deploys of the same configuration keep.
SetDesiredStrategies ==
  /\ Receive("deploy")
  /\ Applied(lease, IF slot # "empty" THEN slot ELSE IF creds THEN "engine" ELSE "noop")
  /\ UNCHANGED <<now, http_vars, session_vars, up, cur, creds, everAccepted, history_vars>>

\* LeaseRevoke loses authority whether or not a lease is held.
OnLeaseRevoke ==
  /\ Receive("revoke")
  /\ LoseAuthority("revoked", lease)
  /\ UNCHANGED <<now, http_vars, session_vars, up, cur, creds, everAccepted, history_vars>>

RefreshDue == lease # NoLease /\ AgentNow >= lease.at + RefreshAt /\ asked # lease

\* The timeout branch: request_refresh once per issuance, then the expiry check.
Timeout ==
  /\ mode = "session"
  /\ RefreshDue \/ Expired(lease)
  /\ \E ok \in IF RefreshDue THEN SendOk(cur) ELSE {TRUE} :
       IF ~ok THEN TransportError
       ELSE IF Expired(lease)
       THEN LoseAuthority("lapsed", lease)
       ELSE /\ asked' = lease
            /\ UNCHANGED <<mode, lease, slot, detached, resting, link, down, why>>
  /\ up' = IF RefreshDue /\ link[cur]
           THEN [up EXCEPT ![cur] = Append(@, Msg("refresh", lease))] ELSE up
  /\ UNCHANGED <<now, http_vars, session_vars, cur, creds, everAccepted, history_vars>>

\* on_transport_closed: fatal with a lease; without one the client and its
\* registry are dropped, running engines stay.
OnTransportClosed ==
  /\ mode = "session"
  /\ ~link[cur] /\ down[cur] = <<>>
  /\ IF lease # NoLease
     THEN LoseAuthority("closed", lease)
     ELSE /\ mode' = "idle" /\ asked' = NoLease
          /\ slot' = "empty"
          /\ detached' = (detached \/ slot = "engine")
          /\ UNCHANGED <<lease, resting, link, down, why>>
  /\ UNCHANGED <<now, http_vars, session_vars, up, cur, creds, everAccepted, history_vars>>

\* SIGINT: the reconnect loop returns and the process exits.
Interrupt ==
  /\ mode # "dead"
  /\ mode' = "dead" /\ why' = "interrupt"
  /\ lease' = NoLease /\ asked' = NoLease /\ slot' = "empty" /\ detached' = FALSE
  /\ IF cur = 0 THEN UNCHANGED <<link, down>> ELSE Hangup
  /\ UNCHANGED <<now, http_vars, session_vars, up, cur, creds, resting, everAccepted, history_vars>>

\* A running engine quotes; it does not ask for the lease.
EngineQuotes ==
  /\ slot = "engine" \/ detached
  /\ resting' = TRUE
  /\ UNCHANGED <<now, http_vars, session_vars, wire_vars, mode, cur, lease, asked, creds,
                 slot, detached, everAccepted, why, history_vars>>

\* Nothing is due within the tick that ends.
Quiet ==
  /\ ~(mode = "session" /\ (RefreshDue \/ Expired(lease)))
  /\ \A s \in Sessions : /\ phase[s] # "entering" /\ life[s] = <<>>
                         /\ up[s] = <<>> /\ down[s] = <<>>

Tick ==
  /\ now < MaxTime
  /\ now' = now + 1
  /\ late' = (late \/ ~Quiet)
  /\ UNCHANGED <<http_vars, session_vars, wire_vars, agent_vars, everAccepted, why,
                 decisions, deploys>>

SessionNext(s) ==
  \/ OnRegister(s) \/ FinishRegister(s) \/ OnGranted(s) \/ OnRevoked(s)
  \/ OnRefreshRequest(s) \/ PumpCommand(s) \/ OnDisconnect(s) \/ LinkBreak(s)

HttpNext ==
  \/ AcceptAgent \/ RejectAgent \/ RevokeAgent \/ PreApprove \/ DeleteApproval
  \/ \E event \in {"granted", "revoked"} : SendLifecycle(event)
  \/ PreValidateDeploy \/ SendDeploy

AgentNext ==
  \/ Connect \/ InstallLease \/ PushCredential \/ SetDesiredStrategies
  \/ OnLeaseRevoke \/ Timeout \/ OnTransportClosed \/ Interrupt \/ EngineQuotes

Next == Tick \/ HttpNext \/ AgentNext \/ \E s \in Sessions : SessionNext(s)

Spec == Init /\ [][Next]_vars

-----------------------------------------------------------------------------
Leases(n) == [id : 0 .. n, at : Nat]
Msgs(n)   == [type : {"lease", "credential", "deploy", "revoke", "register", "refresh"},
              lease : Leases(n)]

HttpTypeOK ==
  /\ store \in States \cup {"unknown"} /\ named \in BOOLEAN
  /\ http \subseteq {"granted", "revoked", "deploy"}
  /\ fleet \in States \cup {"none"} /\ registry \in 0 .. MaxSessions

SessionTypeOK ==
  /\ phase \in [Sessions -> {"none", "open", "entering", "live", "ended"}]
  /\ approval \in [Sessions -> States]
  /\ current \in [Sessions -> Leases(MaxGrants)]
  /\ grants \in [Sessions -> 0 .. MaxGrants]
  /\ life \in [Sessions -> Seq({"granted", "revoked"})]
  /\ cmd \in [Sessions -> BOOLEAN]
  /\ deniedAt \in [Sessions -> Nat]

WireTypeOK ==
  /\ link \in [Sessions -> BOOLEAN]
  /\ up \in [Sessions -> Seq(Msgs(MaxGrants))]
  /\ down \in [Sessions -> Seq(Msgs(MaxGrants))]

AgentTypeOK ==
  /\ mode \in {"idle", "session", "dead"} /\ cur \in 0 .. MaxSessions
  /\ mode = "session" => cur # 0
  /\ lease \in Leases(MaxGrants) /\ asked \in Leases(MaxGrants)
  /\ creds \in BOOLEAN /\ slot \in {"empty", "noop", "engine"}
  /\ detached \in BOOLEAN /\ resting \in BOOLEAN

HistoryTypeOK ==
  /\ now \in Nat /\ everAccepted \in BOOLEAN /\ decisions \in Nat /\ deploys \in Nat
  /\ late \in BOOLEAN
  /\ why \in {"none", "lapsed", "revoked", "closed", "interrupt"}

\* The variables hold values of the program's types, and an agent in a session
\* has one: its number is that of an open connection.
TypeOK == HttpTypeOK /\ SessionTypeOK /\ WireTypeOK /\ AgentTypeOK /\ HistoryTypeOK

\* An agent that no operator ever accepted holds no lease and no credential and
\* runs no engine, however its registrations race the operators' decisions: the
\* admission gates of on_register and of the lifecycle handler.
NeverAcceptedNeverLeased ==
  ~everAccepted => lease = NoLease /\ ~creds /\ slot # "engine"

\* Whatever the wire loses, an agent whose session has known for one TTL (by the
\* agent's clock) that it is not accepted has no authority left: the refresh
\* gate plus the expiry of the last lease, the dead-man half of a revocation.
RevocationBoundedByTtl ==
  /\ mode = "session" /\ phase[cur] = "live" /\ approval[cur] # "accepted"
  /\ AgentNow >= deniedAt[cur] + Ttl
  => ~Authorised

\* While no message or timer is a tick late, a lease lapses only after the link
\* broke or the session stopped accepting the agent: asking once per issuance
\* (refresh_requested_for) is enough.
NoSpuriousExpiry ==
  [][~late /\ why # "lapsed" /\ why' = "lapsed"
       => ~link[cur] \/ approval[cur] # "accepted"]_vars

\* Everything sent has arrived, and the agent is connected and registered.
Settled ==
  /\ mode = "session" /\ phase[cur] = "live" /\ link[cur]
  /\ http = {} /\ life[cur] = <<>> /\ up[cur] = <<>> /\ down[cur] = <<>>

\* controller/src/lib.rs: "`Pending` / `Revoked` fingerprints stay connected and
\* visible in the fleet but hold no authority".
RevokedHoldsNoAuthority ==
  Settled /\ store \in {"pending", "rejected", "revoked"} => ~Authorised

\* controller/src/lib.rs: "Register into the command-in registry so HTTP handlers
\* can reach this session".
RegistryReachesAgent == Settled => registry = cur

\* market_maker_runner.rs: when authority is lost, "existing engine behaviour
\* cancels orders, unwinds inventory ..., and returns cleanly".
LossCancelsOrders ==
  why \in {"lapsed", "revoked", "closed"} => ~resting

\* What the agent holds, as Authority counts it: the end of its lease, the
\* credential, and an engine, entered in `running` or left behind.
Until == IF lease = NoLease THEN 0 ELSE lease.at + Ttl

Equipment ==
  {t \in {"credential", "engine"} :
     /\ mode # "dead"
     /\ IF t = "engine" THEN slot = "engine" \/ detached ELSE creds}

Promise == INSTANCE Authority WITH
  clock <- AgentNow, accepted <- everAccepted, until <- Until, tools <- Equipment,
  ended <- mode = "dead"

\* Controller, wire and agent together keep the promise of Authority, whatever is
\* lost or late: nothing before acceptance, an end of authority that only moves
\* forward and is at most one TTL away, and nothing left when the agent gives up.
ImplementsAuthority == Promise!Spec
=============================================================================
