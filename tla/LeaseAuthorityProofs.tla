------------------------ MODULE LeaseAuthorityProofs ------------------------
(***************************************************************************)
(* What LeaseAuthority promises for every TTL, refresh policy, clock skew  *)
(* and number of sessions, grants and requests: type correctness, that an  *)
(* agent nobody accepted gets nothing, that a denied agent is without      *)
(* authority one TTL later, and that a punctual system loses no lease that *)
(* it should keep.                                                         *)
(***************************************************************************)
EXTENDS LeaseAuthority, SequenceTheorems, TLAPS

AllMsgs == Msgs(MaxGrants)

\* What the agent and the session do to queues keeps their element type.
LEMMA QueueSteps ==
  ASSUME NEW S, NEW q \in Seq(S)
  PROVE  /\ q # <<>> => Head(q) \in S /\ Tail(q) \in Seq(S)
         /\ \A i \in 0 .. Len(q) : SubSeq(q, 1, i) \in Seq(S)
         /\ \A e \in S : Append(q, e) \in Seq(S)
         /\ \A e, f \in S : q \o <<e>> \in Seq(S) /\ q \o <<e, f>> \in Seq(S)
<1>1. q # <<>> => Head(q) \in S /\ Tail(q) \in Seq(S)  OBVIOUS
<1>2. ASSUME NEW i \in 0 .. Len(q) PROVE SubSeq(q, 1, i) \in Seq(S)
  <2>1. \A k \in 1 .. i : q[k] \in S  BY <1>2
  <2> QED  BY <1>2, <2>1, SubSeqProperties
<1>3. \A e \in S : Append(q, e) \in Seq(S)  OBVIOUS
<1>4. ASSUME NEW e \in S, NEW f \in S PROVE q \o <<e>> \in Seq(S) /\ q \o <<e, f>> \in Seq(S)
  <2>1. <<e>> \in Seq(S) /\ <<e, f>> \in Seq(S)  BY <1>4
  <2> QED  BY <2>1, ConcatProperties
<1> QED  BY <1>1, <1>2, <1>3, <1>4

\* NoLease and the leases and messages the code builds have their types.
LEMMA MsgTypes ==
  /\ NoLease \in Leases(MaxGrants)
  /\ \A l \in Leases(MaxGrants), t \in {"lease", "credential", "deploy", "revoke",
                                        "register", "refresh"} : Msg(t, l) \in AllMsgs
BY LeaseAssumption DEF NoLease, Leases, Msgs, AllMsgs, Msg

LEMMA InitTypeOK == Init => TypeOK
<1> SUFFICES ASSUME Init PROVE TypeOK  OBVIOUS
<1>1. NoLease \in Leases(MaxGrants) /\ 0 \in 0 .. MaxSessions  BY MsgTypes, LeaseAssumption
<1>2. HttpTypeOK  BY <1>1, Zenon DEF Init, HttpTypeOK, States
<1>3. SessionTypeOK  BY <1>1, LeaseAssumption DEF Init, SessionTypeOK, States
<1>4. WireTypeOK  BY DEF Init, WireTypeOK
<1>5. AgentTypeOK  BY <1>1, Zenon DEF Init, AgentTypeOK
<1>6. HistoryTypeOK  BY DEF Init, HistoryTypeOK
<1> QED  BY <1>2, <1>3, <1>4, <1>5, <1>6 DEF TypeOK

\* Groups of variables that a step leaves alone keep their types.
LEMMA Untouched ==
  ASSUME TypeOK
  PROVE  /\ UNCHANGED http_vars => HttpTypeOK'
         /\ UNCHANGED session_vars => SessionTypeOK'
         /\ UNCHANGED wire_vars => WireTypeOK'
         /\ UNCHANGED agent_vars => AgentTypeOK'
         /\ UNCHANGED <<now, everAccepted, why, decisions, deploys, late>> => HistoryTypeOK'
<1>1. UNCHANGED http_vars => HttpTypeOK'  BY DEF TypeOK, HttpTypeOK, http_vars
<1>2. UNCHANGED session_vars => SessionTypeOK'  BY DEF TypeOK, SessionTypeOK, session_vars
<1>3. UNCHANGED wire_vars => WireTypeOK'  BY DEF TypeOK, WireTypeOK, wire_vars
<1>4. UNCHANGED agent_vars => AgentTypeOK'  BY DEF TypeOK, AgentTypeOK, agent_vars
<1>5. UNCHANGED <<now, everAccepted, why, decisions, deploys, late>> => HistoryTypeOK'
  BY DEF TypeOK, HistoryTypeOK
<1> QED  BY <1>1, <1>2, <1>3, <1>4, <1>5

\* The HTTP handlers keep the types.
LEMMA HttpTypes == TypeOK /\ HttpNext => TypeOK'
<1> SUFFICES ASSUME TypeOK, HttpNext PROVE TypeOK'  OBVIOUS
<1> USE DEF TypeOK
<1>1. ASSUME NEW state \in States, NEW event \in {"granted", "revoked"}, Decide(state, event)
      PROVE  TypeOK'
  <2>1. HttpTypeOK'  BY <1>1 DEF Decide, HttpTypeOK, States
  <2>2. HistoryTypeOK'  BY <1>1 DEF Decide, Request, HistoryTypeOK
  <2> QED  BY <1>1, <2>1, <2>2, Untouched DEF Decide
<1>2. ASSUME PreApprove PROVE TypeOK'
  <2>1. HttpTypeOK'  BY <1>2 DEF PreApprove, HttpTypeOK, States
  <2>2. HistoryTypeOK'  BY <1>2 DEF PreApprove, Request, HistoryTypeOK
  <2> QED  BY <1>2, <2>1, <2>2, Untouched DEF PreApprove
<1>3. ASSUME DeleteApproval PROVE TypeOK'
  <2>1. HttpTypeOK'  BY <1>3 DEF DeleteApproval, HttpTypeOK, States
  <2>2. HistoryTypeOK'  BY <1>3 DEF DeleteApproval, Request, HistoryTypeOK
  <2> QED  BY <1>3, <2>1, <2>2, Untouched DEF DeleteApproval
<1>4. ASSUME NEW event \in {"granted", "revoked"}, SendLifecycle(event) PROVE TypeOK'
  <2>1. HttpTypeOK'  BY <1>4 DEF SendLifecycle, HttpTypeOK
  <2>2. Reachable(registry) => registry \in Sessions
    BY LeaseAssumption DEF Reachable, Sessions, HttpTypeOK
  <2>3. \A s \in Sessions : Append(life[s], event) \in Seq({"granted", "revoked"})
    BY <1>4 DEF SessionTypeOK
  <2>4. life' \in [Sessions -> Seq({"granted", "revoked"})]
    BY <1>4, <2>2, <2>3 DEF SendLifecycle, SessionTypeOK
  <2>5. SessionTypeOK'  BY <1>4, <2>4 DEF SendLifecycle, SessionTypeOK
  <2> QED  BY <1>4, <2>1, <2>5, Untouched DEF SendLifecycle, history_vars
<1>5. ASSUME PreValidateDeploy PROVE TypeOK'
  <2>1. HttpTypeOK'  BY <1>5 DEF PreValidateDeploy, HttpTypeOK
  <2>2. HistoryTypeOK'  BY <1>5 DEF PreValidateDeploy, HistoryTypeOK
  <2> QED  BY <1>5, <2>1, <2>2, Untouched DEF PreValidateDeploy
<1>6. ASSUME SendDeploy PROVE TypeOK'
  <2>1. HttpTypeOK'  BY <1>6 DEF SendDeploy, HttpTypeOK
  <2>2. SessionTypeOK'  BY <1>6 DEF SendDeploy, SessionTypeOK
  <2> QED  BY <1>6, <2>1, <2>2, Untouched DEF SendDeploy, history_vars
<1> QED
  BY <1>1, <1>2, <1>3, <1>4, <1>5, <1>6
     DEF HttpNext, AcceptAgent, RejectAgent, RevokeAgent, States

\* What a send leaves behind.
LEMMA PushShape ==
  ASSUME TypeOK, NEW s \in Sessions, NEW msgs,
         \A q \in Seq(AllMsgs) : q \o msgs \in Seq(AllMsgs), Push(s, msgs)
  PROVE  down' \in [Sessions -> Seq(AllMsgs)]
<1>1. down \in [Sessions -> Seq(AllMsgs)]  BY DEF TypeOK, WireTypeOK, AllMsgs
<1>2. down[s] \o msgs \in Seq(AllMsgs)  BY <1>1
<1> QED  BY <1>1, <1>2 DEF Push

LEMMA PushTypes ==
  ASSUME TypeOK, NEW s \in Sessions
  PROVE  /\ \A t \in {"lease", "deploy", "revoke"}, l \in Leases(MaxGrants) :
              Push(s, <<Msg(t, l)>>) => down' \in [Sessions -> Seq(AllMsgs)]
         /\ \A l \in Leases(MaxGrants) :
              Push(s, <<Msg("lease", l), Msg("credential", NoLease)>>)
                => down' \in [Sessions -> Seq(AllMsgs)]
<1>1. ASSUME NEW t \in {"lease", "deploy", "revoke"}, NEW l \in Leases(MaxGrants),
             Push(s, <<Msg(t, l)>>)
      PROVE  down' \in [Sessions -> Seq(AllMsgs)]
  <2>1. Msg(t, l) \in AllMsgs  BY MsgTypes
  <2>2. \A q \in Seq(AllMsgs) : q \o <<Msg(t, l)>> \in Seq(AllMsgs)  BY <2>1, QueueSteps
  <2> QED  BY <1>1, <2>2, PushShape
<1>2. ASSUME NEW l \in Leases(MaxGrants),
             Push(s, <<Msg("lease", l), Msg("credential", NoLease)>>)
      PROVE  down' \in [Sessions -> Seq(AllMsgs)]
  <2>1. Msg("lease", l) \in AllMsgs /\ Msg("credential", NoLease) \in AllMsgs  BY MsgTypes
  <2>2. \A q \in Seq(AllMsgs) :
          q \o <<Msg("lease", l), Msg("credential", NoLease)>> \in Seq(AllMsgs)
    BY <2>1, QueueSteps
  <2> QED  BY <1>2, <2>2, PushShape
<1> QED  BY <1>1, <1>2

\* The first lease of a session has the right types.
LEMMA GrantTypes ==
  ASSUME TypeOK, NEW s \in Sessions, IssueInitialLease(s)
  PROVE  /\ grants' \in [Sessions -> 0 .. MaxGrants]
         /\ current' \in [Sessions -> Leases(MaxGrants)]
         /\ down' \in [Sessions -> Seq(AllMsgs)]
         /\ phase' \in [Sessions -> {"none", "open", "entering", "live", "ended"}]
<1> DEFINE l == [id |-> grants[s] + 1, at |-> now]
<1>1. l \in Leases(MaxGrants)
  BY LeaseAssumption DEF IssueInitialLease, TypeOK, SessionTypeOK, HistoryTypeOK, Leases
<1>2. grants' \in [Sessions -> 0 .. MaxGrants]
  BY LeaseAssumption DEF IssueInitialLease, TypeOK, SessionTypeOK
<1>3. current' \in [Sessions -> Leases(MaxGrants)]
  BY <1>1 DEF IssueInitialLease, TypeOK, SessionTypeOK
<1>4. Push(s, <<Msg("lease", l), Msg("credential", NoLease)>>)  BY DEF IssueInitialLease
<1>5. down' \in [Sessions -> Seq(AllMsgs)]  BY <1>1, <1>4, PushTypes
<1>6. phase' \in [Sessions -> {"none", "open", "entering", "live", "ended"}]
  BY DEF IssueInitialLease, Continue, TypeOK, SessionTypeOK
<1> QED  BY <1>2, <1>3, <1>5, <1>6

\* Every step of a session task, and a break of its link, keeps the types.
LEMMA SessionTypes ==
  ASSUME TypeOK, NEW s \in Sessions, SessionNext(s)
  PROVE  TypeOK'
<1> USE DEF TypeOK
<1>0. /\ NoLease \in Leases(MaxGrants)
      /\ \A k \in Sessions : up[k] # <<>> => Tail(up[k]) \in Seq(AllMsgs)
      /\ \A k \in Sessions : up[k] # <<>> => Head(up[k]) \in AllMsgs
      /\ \A k \in Sessions : life[k] # <<>> => Tail(life[k]) \in Seq({"granted", "revoked"})
  <2>1. \A k \in Sessions : up[k] \in Seq(AllMsgs) /\ life[k] \in Seq({"granted", "revoked"})
    BY DEF WireTypeOK, SessionTypeOK, AllMsgs
  <2> QED  BY <2>1, QueueSteps, MsgTypes
<1>1. ASSUME OnRegister(s) PROVE TypeOK'
  <2> DEFINE state == IF store = "unknown" THEN "pending" ELSE store
  <2>1. state \in States  BY DEF HttpTypeOK, States
  <2>2. HttpTypeOK'  BY <1>1, <2>1 DEF OnRegister, RecordRegister, HttpTypeOK
  <2>3. SessionTypeOK'
    BY <1>1, <2>1 DEF OnRegister, RecordRegister, SessionTypeOK, HistoryTypeOK
  <2>4. WireTypeOK'  BY <1>1, <1>0 DEF OnRegister, RecordRegister, WireTypeOK, AllMsgs
  <2> QED  BY <1>1, <2>2, <2>3, <2>4, Untouched DEF OnRegister, RecordRegister, history_vars
<1>2. ASSUME FinishRegister(s) PROVE TypeOK'
  <2>1. HttpTypeOK'  BY <1>2, LeaseAssumption DEF FinishRegister, HttpTypeOK, Sessions
  <2>2. /\ SessionTypeOK' /\ WireTypeOK'
    <3>1. CASE approval[s] = "accepted"
      <4>1. IssueInitialLease(s)  BY <1>2, <3>1 DEF FinishRegister
      <4>2. SessionTypeOK'  BY <1>2, <4>1, GrantTypes DEF FinishRegister, SessionTypeOK
      <4>3. WireTypeOK'  BY <1>2, <4>1, GrantTypes DEF FinishRegister, WireTypeOK, AllMsgs
      <4> QED  BY <4>2, <4>3
    <3>2. CASE approval[s] # "accepted"
      <4>1. SessionTypeOK'  BY <1>2, <3>2 DEF FinishRegister, SessionTypeOK
      <4>2. WireTypeOK'  BY <1>2, <3>2 DEF FinishRegister, WireTypeOK
      <4> QED  BY <4>1, <4>2
    <3> QED  BY <3>1, <3>2
  <2> QED  BY <1>2, <2>1, <2>2, Untouched DEF FinishRegister, history_vars
<1>3. ASSUME OnGranted(s) PROVE TypeOK'
  <2>1. HttpTypeOK'  BY <1>3 DEF OnGranted, HttpTypeOK, States
  <2>2. /\ SessionTypeOK' /\ WireTypeOK'
    <3>1. CASE approval[s] # "accepted"
      <4>1. IssueInitialLease(s)  BY <1>3, <3>1 DEF OnGranted
      <4>2. SessionTypeOK'
        BY <1>0, <1>3, <4>1, GrantTypes DEF OnGranted, SessionTypeOK, States
      <4>3. WireTypeOK'  BY <1>3, <4>1, GrantTypes DEF OnGranted, WireTypeOK, AllMsgs
      <4> QED  BY <4>2, <4>3
    <3>2. CASE approval[s] = "accepted"
      <4>1. SessionTypeOK'  BY <1>0, <1>3, <3>2 DEF OnGranted, SessionTypeOK, States
      <4>2. WireTypeOK'  BY <1>3, <3>2 DEF OnGranted, WireTypeOK
      <4> QED  BY <4>1, <4>2
    <3> QED  BY <3>1, <3>2
  <2> QED  BY <1>3, <2>1, <2>2, Untouched DEF OnGranted, history_vars
<1>4. ASSUME OnRevoked(s) PROVE TypeOK'
  <2>1. HttpTypeOK'  BY <1>4 DEF OnRevoked, HttpTypeOK, States
  <2>2. SessionTypeOK'
    BY <1>0, <1>4 DEF OnRevoked, Continue, SessionTypeOK, HistoryTypeOK, States
  <2>3. down' \in [Sessions -> Seq(AllMsgs)]
    BY <1>0, <1>4, PushTypes DEF OnRevoked, WireTypeOK, AllMsgs
  <2>4. WireTypeOK'  BY <1>4, <2>3 DEF OnRevoked, WireTypeOK, AllMsgs
  <2> QED  BY <1>4, <2>1, <2>2, <2>4, Untouched DEF OnRevoked, history_vars
<1>5. ASSUME OnRefreshRequest(s) PROVE TypeOK'
  <2> DEFINE extended == [id |-> Head(up[s]).lease.id, at |-> now]
  <2>1. extended \in Leases(MaxGrants)
    BY <1>0, <1>5 DEF OnRefreshRequest, AllMsgs, Msgs, Leases, HistoryTypeOK
  <2>2. current' \in [Sessions -> Leases(MaxGrants)]
    BY <1>5, <2>1 DEF OnRefreshRequest, SessionTypeOK
  <2>3. phase' \in [Sessions -> {"none", "open", "entering", "live", "ended"}]
    BY <1>5 DEF OnRefreshRequest, Continue, SessionTypeOK
  <2>4. down' \in [Sessions -> Seq(AllMsgs)]
    BY <1>0, <1>5, <2>1, PushTypes DEF OnRefreshRequest, WireTypeOK, AllMsgs
  <2>5. link' \in [Sessions -> BOOLEAN]
    BY <1>5 DEF OnRefreshRequest, WireTypeOK
  <2>6. SessionTypeOK'  BY <1>5, <2>2, <2>3 DEF OnRefreshRequest, SessionTypeOK
  <2>7. up' \in [Sessions -> Seq(AllMsgs)]
    BY <1>0, <1>5 DEF OnRefreshRequest, WireTypeOK, AllMsgs
  <2>8. WireTypeOK'  BY <2>4, <2>5, <2>7 DEF WireTypeOK, AllMsgs
  <2> QED  BY <1>5, <2>6, <2>8, Untouched DEF OnRefreshRequest, history_vars
<1>6. ASSUME PumpCommand(s) PROVE TypeOK'
  <2>1. SessionTypeOK'  BY <1>6 DEF PumpCommand, Continue, SessionTypeOK
  <2>2. down' \in [Sessions -> Seq(AllMsgs)]
    BY <1>0, <1>6, PushTypes DEF PumpCommand
  <2>3. WireTypeOK'  BY <1>6, <2>2 DEF PumpCommand, WireTypeOK, AllMsgs
  <2> QED  BY <1>6, <2>1, <2>3, Untouched DEF PumpCommand, history_vars
<1>7. ASSUME OnDisconnect(s) PROVE TypeOK'
  <2>1. registry' \in 0 .. MaxSessions
    BY <1>7, LeaseAssumption DEF OnDisconnect, HttpTypeOK
  <2>2. HttpTypeOK'  BY <1>7, <2>1 DEF OnDisconnect, HttpTypeOK
  <2>3. SessionTypeOK'  BY <1>7 DEF OnDisconnect, SessionTypeOK
  <2> QED  BY <1>7, <2>2, <2>3, Untouched DEF OnDisconnect, history_vars
<1>8. ASSUME LinkBreak(s) PROVE TypeOK'
  <2>1. PICK i \in 0 .. Len(up[s]), j \in 0 .. Len(down[s]) :
          /\ up' = [up EXCEPT ![s] = SubSeq(@, 1, i)]
          /\ down' = [down EXCEPT ![s] = SubSeq(@, 1, j)]
    BY <1>8 DEF LinkBreak
  <2>2. up[s] \in Seq(AllMsgs) /\ down[s] \in Seq(AllMsgs)  BY DEF WireTypeOK, AllMsgs
  <2>3. SubSeq(up[s], 1, i) \in Seq(AllMsgs) /\ SubSeq(down[s], 1, j) \in Seq(AllMsgs)
    BY <2>2, QueueSteps
  <2>4. WireTypeOK'  BY <1>8, <2>1, <2>3 DEF LinkBreak, WireTypeOK, AllMsgs
  <2> QED  BY <1>8, <2>4, Untouched DEF LinkBreak, history_vars
<1> QED  BY <1>1, <1>2, <1>3, <1>4, <1>5, <1>6, <1>7, <1>8 DEF SessionNext

Reasons == {"none", "lapsed", "revoked", "closed", "interrupt"}

\* The types of what an agent step assigns outside the credential catalog.
StepTypes ==
  /\ mode' \in {"idle", "session", "dead"} /\ (mode' = "session" => mode = "session")
  /\ lease' \in Leases(MaxGrants) /\ asked' \in Leases(MaxGrants)
  /\ slot' \in {"empty", "noop", "engine"} /\ detached' \in BOOLEAN /\ resting' \in BOOLEAN
  /\ link' \in [Sessions -> BOOLEAN] /\ down' \in [Sessions -> Seq(AllMsgs)]
  /\ why' \in Reasons

LEMMA LeavingTypes ==
  ASSUME TypeOK, mode = "session"
  PROVE  /\ TransportError => StepTypes
         /\ \A r \in Reasons : \A l : LoseAuthority(r, l) => StepTypes
<1> USE DEF TypeOK
<1>1. cur \in Sessions  BY LeaseAssumption DEF AgentTypeOK, Sessions
<1>2. Hangup => link' \in [Sessions -> BOOLEAN] /\ down' \in [Sessions -> Seq(AllMsgs)]
  BY <1>1 DEF Hangup, WireTypeOK, AllMsgs
<1>3. NoLease \in Leases(MaxGrants)  BY MsgTypes
<1>4. TransportError => StepTypes
  BY <1>2, <1>3 DEF TransportError, StepTypes, AgentTypeOK, HistoryTypeOK, Reasons
<1>5. ASSUME NEW r \in Reasons, NEW l, LoseAuthority(r, l) PROVE StepTypes
  <2>1. resting' \in BOOLEAN  BY <1>5 DEF LoseAuthority, AgentTypeOK
  <2> QED  BY <1>2, <1>3, <1>5, <2>1, mode = "session" DEF LoseAuthority, StepTypes
<1> QED  BY <1>4, <1>5

LEMMA AppliedTypes ==
  ASSUME TypeOK, mode = "session", down[cur] # <<>>,
         NEW l \in Leases(MaxGrants), NEW e \in {"empty", "noop", "engine"}, Applied(l, e)
  PROVE  StepTypes
<1>1. cur \in Sessions  BY LeaseAssumption DEF TypeOK, AgentTypeOK, Sessions
<1>2. down[cur] \in Seq(AllMsgs)  BY <1>1 DEF TypeOK, WireTypeOK, AllMsgs
<1>3. Tail(down[cur]) \in Seq(AllMsgs)  BY <1>2, QueueSteps
<1>4. CASE TransportError  BY <1>4, LeavingTypes
<1>5. CASE LoseAuthority("lapsed", l)  BY <1>5, LeavingTypes DEF Reasons
<1>6. CASE /\ lease' = l /\ asked' = IF l = lease THEN asked ELSE NoLease
           /\ slot' = e
           /\ down' = [down EXCEPT ![cur] = Tail(@)]
           /\ UNCHANGED <<mode, detached, resting, link, why>>
  <2>1. asked' \in Leases(MaxGrants)  BY <1>6, MsgTypes DEF TypeOK, AgentTypeOK
  <2>2. down' \in [Sessions -> Seq(AllMsgs)]
    BY <1>3, <1>6 DEF TypeOK, WireTypeOK, AllMsgs
  <2> QED  BY <1>6, <2>1, <2>2
           DEF StepTypes, TypeOK, AgentTypeOK, WireTypeOK, HistoryTypeOK, Reasons
<1> QED  BY <1>4, <1>5, <1>6 DEF Applied

\* A step with these types that leaves the controller's side alone keeps TypeOK.
LEMMA StepKeepsTypes ==
  ASSUME TypeOK, StepTypes, up' \in [Sessions -> Seq(AllMsgs)], creds' \in BOOLEAN,
         UNCHANGED <<now, http_vars, session_vars, cur, everAccepted, history_vars>>
  PROVE  TypeOK'
<1>1. HttpTypeOK' /\ SessionTypeOK'  BY Untouched
<1>2. WireTypeOK'  BY DEF StepTypes, WireTypeOK, AllMsgs
<1>3. AgentTypeOK'  BY DEF StepTypes, TypeOK, AgentTypeOK
<1>4. HistoryTypeOK'  BY DEF StepTypes, TypeOK, HistoryTypeOK, Reasons, history_vars
<1> QED  BY <1>1, <1>2, <1>3, <1>4 DEF TypeOK

\* Every step of the agent keeps the types.
LEMMA AgentTypes == TypeOK /\ AgentNext => TypeOK'
<1> SUFFICES ASSUME TypeOK, AgentNext PROVE TypeOK'  OBVIOUS
<1>a. up \in [Sessions -> Seq(AllMsgs)] /\ creds \in BOOLEAN
      /\ lease \in Leases(MaxGrants) /\ slot \in {"empty", "noop", "engine"}
  BY DEF TypeOK, WireTypeOK, AgentTypeOK, AllMsgs
<1>b. mode = "session" => cur \in Sessions
  BY LeaseAssumption DEF TypeOK, AgentTypeOK, Sessions
<1>1. ASSUME Connect PROVE TypeOK'
  <2>1. cur + 1 \in Sessions
    BY <1>1, LeaseAssumption DEF Connect, TypeOK, AgentTypeOK, Sessions
  <2>2. <<Msg("register", NoLease)>> \in Seq(AllMsgs)  BY MsgTypes
  <2>3. WireTypeOK'  BY <1>1, <2>2 DEF Connect, TypeOK, WireTypeOK, AllMsgs
  <2>4. SessionTypeOK'  BY <1>1, <2>1 DEF Connect, TypeOK, SessionTypeOK
  <2>5. cur' \in 0 .. MaxSessions /\ cur' # 0
    BY <1>1, <2>1, LeaseAssumption DEF Connect, Sessions
  <2>6. AgentTypeOK'  BY <1>1, <2>5, MsgTypes DEF Connect, TypeOK, AgentTypeOK
  <2> QED  BY <1>1, <2>3, <2>4, <2>6, Untouched DEF Connect, TypeOK, history_vars
<1>2. ASSUME InstallLease PROVE TypeOK'
  <2>1. mode = "session" /\ down[cur] # <<>>  BY <1>2 DEF InstallLease, Receive
  <2>2. down[cur] \in Seq(AllMsgs)  BY <1>b, <2>1 DEF TypeOK, WireTypeOK, AllMsgs
  <2>3. Head(down[cur]) \in AllMsgs  BY <2>1, <2>2, QueueSteps
  <2>4. Head(down[cur]).lease \in Leases(MaxGrants)  BY <2>3 DEF AllMsgs, Msgs
  <2>5. StepTypes  BY <1>2, <1>a, <2>1, <2>4, AppliedTypes DEF InstallLease
  <2> QED  BY <1>2, <1>a, <2>5, StepKeepsTypes DEF InstallLease
<1>3. ASSUME PushCredential PROVE TypeOK'
  <2>1. mode = "session" /\ down[cur] # <<>>  BY <1>3 DEF PushCredential, Receive
  <2>2. StepTypes  BY <1>3, <1>a, <2>1, AppliedTypes DEF PushCredential
  <2>3. up' \in [Sessions -> Seq(AllMsgs)] /\ creds' \in BOOLEAN
    BY <1>3, <1>a DEF PushCredential
  <2> QED  BY <1>3, <2>2, <2>3, StepKeepsTypes DEF PushCredential
<1>4. ASSUME SetDesiredStrategies PROVE TypeOK'
  <2> DEFINE e == IF slot # "empty" THEN slot ELSE IF creds THEN "engine" ELSE "noop"
  <2>1. mode = "session" /\ down[cur] # <<>>  BY <1>4 DEF SetDesiredStrategies, Receive
  <2>2. e \in {"empty", "noop", "engine"}  BY <1>a
  <2>3. Applied(lease, e)  BY <1>4 DEF SetDesiredStrategies
  <2>4. StepTypes  BY <1>a, <2>1, <2>2, <2>3, AppliedTypes
  <2> QED  BY <1>4, <1>a, <2>4, StepKeepsTypes DEF SetDesiredStrategies
<1>5. ASSUME OnLeaseRevoke PROVE TypeOK'
  <2>1. StepTypes  BY <1>5, LeavingTypes DEF OnLeaseRevoke, Receive, Reasons
  <2> QED  BY <1>5, <1>a, <2>1, StepKeepsTypes DEF OnLeaseRevoke
<1>6. ASSUME Timeout PROVE TypeOK'
  <2>1. mode = "session"  BY <1>6 DEF Timeout
  <2>2. up[cur] \in Seq(AllMsgs) /\ Msg("refresh", lease) \in AllMsgs
    BY <1>a, <1>b, <2>1, MsgTypes
  <2>3. Append(up[cur], Msg("refresh", lease)) \in Seq(AllMsgs)  BY <2>2, QueueSteps
  <2>4. up' \in [Sessions -> Seq(AllMsgs)]  BY <1>6, <1>a, <2>3 DEF Timeout
  <2>5. CASE TransportError  BY <1>6, <1>a, <2>1, <2>4, <2>5, LeavingTypes, StepKeepsTypes DEF Timeout
  <2>6. CASE LoseAuthority("lapsed", lease)
    BY <1>6, <1>a, <2>1, <2>4, <2>6, LeavingTypes, StepKeepsTypes DEF Timeout, Reasons
  <2>7. CASE /\ asked' = lease
             /\ UNCHANGED <<mode, lease, slot, detached, resting, link, down, why>>
    <3>1. StepTypes
      BY <1>a, <2>7 DEF StepTypes, TypeOK, AgentTypeOK, WireTypeOK, HistoryTypeOK, Reasons, AllMsgs
    <3> QED  BY <1>6, <1>a, <2>4, <3>1, StepKeepsTypes DEF Timeout
  <2> QED  BY <1>6, <2>5, <2>6, <2>7 DEF Timeout
<1>7. ASSUME OnTransportClosed PROVE TypeOK'
  <2>1. mode = "session"  BY <1>7 DEF OnTransportClosed
  <2>2. CASE LoseAuthority("closed", lease)
    BY <1>7, <1>a, <2>1, <2>2, LeavingTypes, StepKeepsTypes DEF OnTransportClosed, Reasons
  <2>3. CASE /\ mode' = "idle" /\ asked' = NoLease
             /\ slot' = "empty"
             /\ detached' = (detached \/ slot = "engine")
             /\ UNCHANGED <<lease, resting, link, down, why>>
    <3>1. detached' \in BOOLEAN  BY <2>3
    <3>2. StepTypes
      BY <1>a, <2>3, <3>1, MsgTypes
         DEF StepTypes, TypeOK, AgentTypeOK, WireTypeOK, HistoryTypeOK, Reasons, AllMsgs
    <3> QED  BY <1>7, <1>a, <3>2, StepKeepsTypes DEF OnTransportClosed
  <2> QED  BY <1>7, <2>2, <2>3 DEF OnTransportClosed
<1>8. ASSUME Interrupt PROVE TypeOK'
  <2>1. cur # 0 => cur \in Sessions  BY LeaseAssumption DEF TypeOK, AgentTypeOK, Sessions
  <2>2. link' \in [Sessions -> BOOLEAN] /\ down' \in [Sessions -> Seq(AllMsgs)]
    <3>1. link \in [Sessions -> BOOLEAN] /\ down \in [Sessions -> Seq(AllMsgs)]
      BY DEF TypeOK, WireTypeOK, AllMsgs
    <3>2. CASE cur = 0  BY <1>8, <3>1, <3>2 DEF Interrupt
    <3>3. CASE cur # 0
      <4>1. Hangup  BY <1>8, <3>3 DEF Interrupt
      <4> QED  BY <2>1, <3>1, <3>3, <4>1 DEF Hangup
    <3> QED  BY <3>2, <3>3
  <2>3. StepTypes
    BY <1>8, <2>2, MsgTypes DEF Interrupt, StepTypes, TypeOK, AgentTypeOK, Reasons
  <2> QED  BY <1>8, <1>a, <2>3, StepKeepsTypes DEF Interrupt
<1>9. ASSUME EngineQuotes PROVE TypeOK'
  <2>1. AgentTypeOK'  BY <1>9 DEF EngineQuotes, TypeOK, AgentTypeOK
  <2> QED  BY <1>9, <2>1, Untouched DEF EngineQuotes, TypeOK, history_vars
<1> QED
  BY <1>1, <1>2, <1>3, <1>4, <1>5, <1>6, <1>7, <1>8, <1>9 DEF AgentNext

LEMMA NextTypes == TypeOK /\ [Next]_vars => TypeOK'
<1> SUFFICES ASSUME TypeOK, [Next]_vars PROVE TypeOK'  OBVIOUS
<1>1. ASSUME Tick PROVE TypeOK'
  <2>1. HistoryTypeOK'  BY <1>1 DEF Tick, TypeOK, HistoryTypeOK, history_vars
  <2> QED  BY <1>1, <2>1, Untouched DEF Tick, TypeOK
<1>2. CASE UNCHANGED vars
  BY <1>2, Untouched DEF vars, TypeOK, history_vars
<1> QED  BY <1>1, <1>2, HttpTypes, AgentTypes, SessionTypes DEF Next

\* The specification keeps every variable within the program's types, whatever
\* the bounds, the policy and the clock skew.
THEOREM LeaseTypeCorrect == Spec => []TypeOK
<1>1. Init => TypeOK  BY InitTypeOK
<1>2. TypeOK /\ [Next]_vars => TypeOK'  BY NextTypes
<1> QED  BY <1>1, <1>2, PTL DEF Spec

-----------------------------------------------------------------------------
(* An agent nobody accepted.                                                *)

PlainMsgs == {m \in AllMsgs : m.type \notin {"lease", "credential"}}

\* Nothing that carries authority exists anywhere before the first acceptance:
\* not in the store, in a request under way, in a session or on the wire.
Admission ==
  /\ store # "accepted" /\ "granted" \notin http
  /\ \A s \in Sessions : phase[s] \in {"entering", "live"} => approval[s] # "accepted"
  /\ life \in [Sessions -> Seq({"revoked"})]
  /\ down \in [Sessions -> Seq(PlainMsgs)]
  /\ lease = NoLease /\ creds = FALSE /\ slot # "engine" /\ detached = FALSE

AdmissionInv == ~everAccepted => Admission

LEMMA PlainPush ==
  ASSUME TypeOK, down \in [Sessions -> Seq(PlainMsgs)], NEW s \in Sessions,
         NEW t \in {"deploy", "revoke"}, Push(s, <<Msg(t, NoLease)>>)
  PROVE  down' \in [Sessions -> Seq(PlainMsgs)]
<1>1. Msg(t, NoLease) \in PlainMsgs
  <2>1. Msg(t, NoLease) \in AllMsgs  BY MsgTypes
  <2> QED  BY <2>1 DEF PlainMsgs, Msg
<1>2. down[s] \o <<Msg(t, NoLease)>> \in Seq(PlainMsgs)  BY <1>1, QueueSteps
<1> QED  BY <1>2 DEF Push

LEMMA AdmissionHttp ==
  ASSUME TypeOK, Admission, HttpNext, ~everAccepted'
  PROVE  Admission'
<1> USE DEF Admission
<1>1. ASSUME NEW state \in {"rejected", "revoked"}, Decide(state, "revoked")
      PROVE  Admission'
  BY <1>1 DEF Decide, session_vars, wire_vars, agent_vars
<1>2. ~Decide("accepted", "granted") /\ ~PreApprove  BY DEF Decide, PreApprove
<1>3. DeleteApproval => Admission'
  BY DEF DeleteApproval, session_vars, wire_vars, agent_vars
<1>4. ASSUME NEW event \in {"granted", "revoked"}, SendLifecycle(event) PROVE Admission'
  <2>1. event = "revoked"  BY <1>4 DEF SendLifecycle
  <2>2. \A s \in Sessions : Append(life[s], event) \in Seq({"revoked"})  BY <2>1
  <2>3. life' \in [Sessions -> Seq({"revoked"})]  BY <1>4, <2>2 DEF SendLifecycle
  <2> QED  BY <1>4, <2>3 DEF SendLifecycle, wire_vars, agent_vars
<1>5. PreValidateDeploy => Admission'
  BY DEF PreValidateDeploy, session_vars, wire_vars, agent_vars
<1>6. SendDeploy => Admission'  BY DEF SendDeploy, wire_vars, agent_vars
<1> QED
  BY <1>1, <1>2, <1>3, <1>4, <1>5, <1>6
     DEF HttpNext, AcceptAgent, RejectAgent, RevokeAgent

LEMMA AdmissionSession ==
  ASSUME TypeOK, Admission, NEW s \in Sessions, SessionNext(s)
  PROVE  Admission'
<1> USE DEF Admission
<1>0. /\ phase \in [Sessions -> {"none", "open", "entering", "live", "ended"}]
      /\ approval \in [Sessions -> States]
  BY DEF TypeOK, SessionTypeOK
<1>1. ASSUME OnRegister(s) PROVE Admission'
  <2>1. (IF store = "unknown" THEN "pending" ELSE store) # "accepted"  OBVIOUS
  <2>2. store' # "accepted"  BY <1>1, <2>1 DEF OnRegister, RecordRegister
  <2>3. ASSUME NEW k \in Sessions, phase'[k] \in {"entering", "live"}
        PROVE  approval'[k] # "accepted"
    BY <1>0, <1>1, <2>1, <2>3 DEF OnRegister, RecordRegister
  <2> QED  BY <1>1, <2>2, <2>3 DEF OnRegister, RecordRegister, agent_vars
<1>2. ASSUME FinishRegister(s) PROVE Admission'
  <2>1. approval[s] # "accepted"  BY <1>2 DEF FinishRegister
  <2>2. /\ phase' = [phase EXCEPT ![s] = "live"]
        /\ UNCHANGED <<current, grants, down, approval, store, http, life, agent_vars>>
    BY <1>2, <2>1 DEF FinishRegister
  <2>3. \A k \in Sessions : phase'[k] \in {"entering", "live"} => approval'[k] # "accepted"
    BY <1>0, <2>1, <2>2
  <2> QED  BY <2>2, <2>3 DEF agent_vars
<1>3. ~OnGranted(s)
  <2>1. life[s] # <<>> => Head(life[s]) = "revoked"
    <3>1. life[s] \in Seq({"revoked"})  OBVIOUS
    <3> QED  BY <3>1, QueueSteps
  <2> QED  BY <2>1 DEF OnGranted
<1>4. ASSUME OnRevoked(s) PROVE Admission'
  <2>1. life[s] \in Seq({"revoked"}) /\ life[s] # <<>>  BY <1>4 DEF OnRevoked
  <2>2. Tail(life[s]) \in Seq({"revoked"})  BY <2>1, QueueSteps
  <2>3. life' \in [Sessions -> Seq({"revoked"})]  BY <1>4, <2>2 DEF OnRevoked
  <2>4. down' \in [Sessions -> Seq(PlainMsgs)]  BY <1>4, PlainPush DEF OnRevoked
  <2>5. \A k \in Sessions : phase'[k] \in {"entering", "live"} => approval'[k] # "accepted"
    BY <1>0, <1>4 DEF OnRevoked, Continue
  <2> QED  BY <1>4, <2>3, <2>4, <2>5 DEF OnRevoked, agent_vars
<1>5. ASSUME OnRefreshRequest(s) PROVE Admission'
  <2>1. ~Refreshable(s)  BY <1>5 DEF OnRefreshRequest, Refreshable
  <2>2. /\ Push(s, <<Msg("revoke", NoLease)>>)
        /\ \E ok \in SendOk(s) : Continue(s, ok)
    BY <1>5, <2>1 DEF OnRefreshRequest
  <2>3. down' \in [Sessions -> Seq(PlainMsgs)]  BY <2>2, PlainPush
  <2>4. \A k \in Sessions : phase'[k] \in {"entering", "live"} => approval'[k] # "accepted"
    BY <1>0, <1>5, <2>2 DEF OnRefreshRequest, Continue
  <2> QED  BY <1>5, <2>3, <2>4 DEF OnRefreshRequest, http_vars, agent_vars
<1>6. ASSUME PumpCommand(s) PROVE Admission'
  <2>1. down' \in [Sessions -> Seq(PlainMsgs)]  BY <1>6, PlainPush DEF PumpCommand
  <2>2. \A k \in Sessions : phase'[k] \in {"entering", "live"} => approval'[k] # "accepted"
    BY <1>0, <1>6 DEF PumpCommand, Continue
  <2> QED  BY <1>6, <2>1, <2>2 DEF PumpCommand, http_vars, agent_vars
<1>7. ASSUME OnDisconnect(s) PROVE Admission'
  <2>1. \A k \in Sessions : phase'[k] \in {"entering", "live"} => approval'[k] # "accepted"
    BY <1>0, <1>7 DEF OnDisconnect
  <2> QED  BY <1>7, <2>1 DEF OnDisconnect, wire_vars, agent_vars
<1>8. ASSUME LinkBreak(s) PROVE Admission'
  <2>1. PICK j \in 0 .. Len(down[s]) : down' = [down EXCEPT ![s] = SubSeq(@, 1, j)]
    BY <1>8 DEF LinkBreak
  <2>2. SubSeq(down[s], 1, j) \in Seq(PlainMsgs)  BY QueueSteps
  <2>3. down' \in [Sessions -> Seq(PlainMsgs)]  BY <2>1, <2>2
  <2> QED  BY <1>8, <2>3 DEF LinkBreak, http_vars, session_vars, agent_vars
<1> QED  BY <1>1, <1>2, <1>3, <1>4, <1>5, <1>6, <1>7, <1>8 DEF SessionNext

LEMMA AdmissionAgent ==
  ASSUME TypeOK, Admission, AgentNext
  PROVE  Admission'
<1> USE DEF Admission
<1>0. /\ phase \in [Sessions -> {"none", "open", "entering", "live", "ended"}]
      /\ mode = "session" => cur \in Sessions
  BY LeaseAssumption DEF TypeOK, SessionTypeOK, AgentTypeOK, Sessions
<1>1. ASSUME mode = "session", down[cur] # <<>>
      PROVE  /\ Head(down[cur]).type \notin {"lease", "credential"}
             /\ Tail(down[cur]) \in Seq(PlainMsgs)
  <2>1. down[cur] \in Seq(PlainMsgs)  BY <1>0, <1>1
  <2>2. Head(down[cur]) \in PlainMsgs /\ Tail(down[cur]) \in Seq(PlainMsgs)
    BY <1>1, <2>1, QueueSteps
  <2> QED  BY <2>2 DEF PlainMsgs
<1>2. Hangup => down' \in [Sessions -> Seq(PlainMsgs)]
  <2>1. <<>> \in Seq(PlainMsgs) /\ down \in [Sessions -> Seq(PlainMsgs)]  OBVIOUS
  <2> QED  BY <2>1 DEF Hangup
<1> DEFINE Ours == UNCHANGED <<http_vars, session_vars>> /\ creds' = creds
<1>3. TransportError /\ Ours => Admission'
  BY <1>2 DEF TransportError, http_vars, session_vars
<1>4. \A r, l : LoseAuthority(r, l) /\ Ours => Admission'
  BY <1>2 DEF LoseAuthority, http_vars, session_vars
<1>5. ASSUME Connect PROVE Admission'
  <2>1. \A k \in Sessions : phase'[k] \in {"entering", "live"} => approval'[k] # "accepted"
    BY <1>0, <1>5 DEF Connect
  <2> QED  BY <1>5, <2>1 DEF Connect, http_vars
<1>6. ~InstallLease /\ ~PushCredential  BY <1>1 DEF InstallLease, PushCredential, Receive
<1>7. ASSUME SetDesiredStrategies PROVE Admission'
  <2> DEFINE e == IF slot # "empty" THEN slot ELSE IF creds THEN "engine" ELSE "noop"
  <2>1. mode = "session" /\ down[cur] # <<>> /\ Applied(lease, e) /\ Ours
    BY <1>7 DEF SetDesiredStrategies, Receive
  <2>2. e # "engine"  OBVIOUS
  <2>3. CASE /\ lease' = lease /\ slot' = e /\ detached' = detached
             /\ down' = [down EXCEPT ![cur] = Tail(@)]
    <3>1. down' \in [Sessions -> Seq(PlainMsgs)]  BY <1>1, <2>1, <2>3
    <3> QED  BY <2>1, <2>2, <2>3, <3>1 DEF http_vars, session_vars
  <2> QED  BY <1>3, <1>4, <2>1, <2>3 DEF Applied
<1>8. OnLeaseRevoke => Admission'  BY <1>4 DEF OnLeaseRevoke
<1>9. ASSUME Timeout PROVE Admission'
  BY <1>3, <1>4, <1>9 DEF Timeout, http_vars, session_vars
<1>10. ASSUME OnTransportClosed PROVE Admission'
  BY <1>4, <1>10 DEF OnTransportClosed, http_vars, session_vars
<1>11. ASSUME Interrupt PROVE Admission'
  BY <1>2, <1>11 DEF Interrupt, http_vars, session_vars
<1>12. ASSUME EngineQuotes PROVE Admission'
  BY <1>12 DEF EngineQuotes, http_vars, session_vars, wire_vars
<1> QED
  BY <1>5, <1>6, <1>7, <1>8, <1>9, <1>10, <1>11, <1>12 DEF AgentNext

LEMMA AdmissionHolds == Spec => []AdmissionInv
<1>1. Init => AdmissionInv
  <2>1. Init => life \in [Sessions -> Seq({"revoked"})] /\ down \in [Sessions -> Seq(PlainMsgs)]
    BY DEF Init
  <2> QED  BY <2>1 DEF Init, AdmissionInv, Admission
<1>2. TypeOK /\ AdmissionInv /\ [Next]_vars => AdmissionInv'
  <2> SUFFICES ASSUME TypeOK, AdmissionInv, [Next]_vars, ~everAccepted' PROVE Admission'
    BY DEF AdmissionInv
  <2>1. ~everAccepted
    BY DEF Next, Tick, HttpNext, AcceptAgent, RejectAgent, RevokeAgent, Decide, PreApprove,
           DeleteApproval, SendLifecycle, PreValidateDeploy, SendDeploy, AgentNext, Connect,
           InstallLease, PushCredential, SetDesiredStrategies, OnLeaseRevoke, Timeout,
           OnTransportClosed, Interrupt, EngineQuotes, SessionNext, OnRegister,
           FinishRegister, OnGranted, OnRevoked, OnRefreshRequest, PumpCommand,
           OnDisconnect, LinkBreak, vars
  <2>2. Admission  BY <2>1 DEF AdmissionInv
  <2>3. Tick \/ UNCHANGED vars => Admission'
    BY <2>2 DEF Admission, Tick, vars, http_vars, session_vars, wire_vars, agent_vars
  <2> QED  BY <2>2, <2>3, AdmissionHttp, AdmissionSession, AdmissionAgent DEF Next
<1> QED  BY <1>1, <1>2, LeaseTypeCorrect, PTL DEF Spec

\* NeverAcceptedNeverLeased for any number of sessions and requests in any
\* order: no lease, credential or engine before an operator's acceptance.
THEOREM NothingBeforeAcceptance == Spec => []NeverAcceptedNeverLeased
<1>1. AdmissionInv => NeverAcceptedNeverLeased
  BY DEF AdmissionInv, Admission, NeverAcceptedNeverLeased
<1> QED  BY <1>1, AdmissionHolds, PTL

-----------------------------------------------------------------------------
(* A denied agent.                                                          *)

\* The messages that carry no lease issued after t.
Before(t) == {m \in AllMsgs : m.lease.at <= t}

\* No lease is from the future, and once a session denies the agent every lease
\* of it that is still around was issued before the denial.
Dated ==
  /\ lease.at <= now
  /\ down \in [Sessions -> Seq(Before(now))]
  /\ \A s \in Sessions : deniedAt[s] <= now
  /\ \A s \in Sessions : approval[s] # "accepted" =>
       /\ down[s] \in Seq(Before(deniedAt[s]))
       /\ mode = "session" /\ cur = s => lease.at <= deniedAt[s]

LEMMA BeforeGrows ==
  ASSUME NEW t \in Nat, NEW u \in Nat, t <= u, NEW q \in Seq(Before(t))
  PROVE  q \in Seq(Before(u))
<1>1. Before(t) \subseteq Before(u)  BY DEF Before, AllMsgs, Msgs, Leases
<1> QED  BY <1>1

\* Messages without a lease, and those with a lease of an earlier date.
LEMMA DatedMsgs ==
  ASSUME NEW t \in Nat
  PROVE  /\ \A k \in {"credential", "deploy", "revoke"} : Msg(k, NoLease) \in Before(t)
         /\ \A l \in Leases(MaxGrants) : l.at <= t => Msg("lease", l) \in Before(t)
<1>1. NoLease.at = 0  BY DEF NoLease
<1>2. ASSUME NEW k \in {"credential", "deploy", "revoke"} PROVE Msg(k, NoLease) \in Before(t)
  <2>1. Msg(k, NoLease) \in AllMsgs  BY MsgTypes
  <2>2. Msg(k, NoLease).lease.at = 0  BY <1>1 DEF Msg
  <2> QED  BY <2>1, <2>2 DEF Before
<1>3. \A l \in Leases(MaxGrants) : l.at <= t => Msg("lease", l) \in Before(t)
  BY MsgTypes DEF Before, Msg
<1> QED  BY <1>2, <1>3

\* A message without a lease disturbs nothing.
LEMMA DatedPush ==
  ASSUME TypeOK, Dated, NEW s \in Sessions, NEW k \in {"deploy", "revoke"},
         Push(s, <<Msg(k, NoLease)>>)
  PROVE  /\ down' \in [Sessions -> Seq(Before(now))]
         /\ \A r \in Sessions : approval[r] # "accepted" => down'[r] \in Seq(Before(deniedAt[r]))
<1>1. now \in Nat /\ deniedAt[s] \in Nat /\ down \in [Sessions -> Seq(AllMsgs)]
  BY DEF TypeOK, HistoryTypeOK, SessionTypeOK, WireTypeOK, AllMsgs
<1>2. Msg(k, NoLease) \in Before(now) /\ Msg(k, NoLease) \in Before(deniedAt[s])
  BY <1>1, DatedMsgs
<1>3. down[s] \o <<Msg(k, NoLease)>> \in Seq(Before(now))
  <2>1. down[s] \in Seq(Before(now))  BY DEF Dated
  <2> QED  BY <1>2, <2>1, QueueSteps
<1>4. approval[s] # "accepted" => down[s] \o <<Msg(k, NoLease)>> \in Seq(Before(deniedAt[s]))
  BY <1>2, QueueSteps DEF Dated
<1>5. down' \in [Sessions -> Seq(Before(now))]  BY <1>3 DEF Push, Dated
<1>6. ASSUME NEW r \in Sessions, approval[r] # "accepted"
      PROVE  down'[r] \in Seq(Before(deniedAt[r]))
  BY <1>1, <1>4, <1>6 DEF Push, Dated
<1> QED  BY <1>5, <1>6

\* A fresh or extended lease of an accepted session only touches that session.
LEMMA DatedLease ==
  ASSUME TypeOK, Dated, NEW s \in Sessions, NEW msgs \in Seq(Before(now)), Push(s, msgs)
  PROVE  /\ down' \in [Sessions -> Seq(Before(now))]
         /\ \A r \in Sessions \ {s} : down'[r] = down[r]
<1>1. down \in [Sessions -> Seq(Before(now))]  BY DEF Dated
<1>2. down[s] \o msgs \in Seq(Before(now))  BY <1>1, ConcatProperties
<1> QED  BY <1>1, <1>2 DEF Push

LEMMA DatedGrant ==
  ASSUME TypeOK, Dated, NEW s \in Sessions, IssueInitialLease(s)
  PROVE  /\ down' \in [Sessions -> Seq(Before(now))]
         /\ \A r \in Sessions \ {s} : down'[r] = down[r]
<1> DEFINE l == [id |-> grants[s] + 1, at |-> now]
<1>1. now \in Nat /\ l \in Leases(MaxGrants)
  BY LeaseAssumption DEF IssueInitialLease, TypeOK, SessionTypeOK, HistoryTypeOK, Leases
<1>2. Msg("lease", l) \in Before(now) /\ Msg("credential", NoLease) \in Before(now)
  BY <1>1, DatedMsgs
<1>3. Push(s, <<Msg("lease", l), Msg("credential", NoLease)>>)  BY DEF IssueInitialLease
<1>4. <<Msg("lease", l), Msg("credential", NoLease)>> \in Seq(Before(now))  BY <1>2
<1> QED  BY <1>3, <1>4, DatedLease

LEMMA DatedSession ==
  ASSUME TypeOK, Dated, NEW s \in Sessions, SessionNext(s)
  PROVE  Dated'
<1> USE DEF Dated
<1>0. /\ now \in Nat /\ approval \in [Sessions -> States] /\ deniedAt \in [Sessions -> Nat]
      /\ lease \in Leases(MaxGrants) /\ lease.at \in Nat
  BY DEF TypeOK, HistoryTypeOK, SessionTypeOK, AgentTypeOK, Leases
<1>1. ASSUME OnRegister(s) PROVE Dated'
  <2>1. deniedAt' = [deniedAt EXCEPT ![s] = now] /\ now' = now /\ down' = down
        /\ UNCHANGED agent_vars /\ \A r \in Sessions \ {s} : approval'[r] = approval[r]
    BY <1>1, <1>0 DEF OnRegister, RecordRegister
  <2>2. \A r \in Sessions : deniedAt'[r] <= now'  BY <1>0, <2>1
  <2>3. ASSUME NEW r \in Sessions, approval'[r] # "accepted"
        PROVE  /\ down'[r] \in Seq(Before(deniedAt'[r]))
               /\ mode' = "session" /\ cur' = r => lease'.at <= deniedAt'[r]
    <3>1. CASE r = s  BY <1>0, <2>1, <3>1 DEF agent_vars
    <3>2. CASE r # s  BY <1>0, <2>1, <2>3, <3>2 DEF agent_vars
    <3> QED  BY <3>1, <3>2
  <2> QED  BY <2>1, <2>2, <2>3 DEF agent_vars
<1>2. ASSUME FinishRegister(s) PROVE Dated'
  <2>1. CASE approval[s] = "accepted"
    <3>1. IssueInitialLease(s)  BY <1>2, <2>1 DEF FinishRegister
    <3>2. UNCHANGED <<now, approval, deniedAt, agent_vars>>  BY <1>2 DEF FinishRegister
    <3> QED  BY <2>1, <3>1, <3>2, DatedGrant DEF agent_vars
  <2>2. CASE approval[s] # "accepted"
    BY <1>2, <2>2 DEF FinishRegister, agent_vars
  <2> QED  BY <2>1, <2>2
<1>3. ASSUME OnGranted(s) PROVE Dated'
  <2>1. approval' = [approval EXCEPT ![s] = "accepted"] /\ UNCHANGED <<now, deniedAt, agent_vars>>
    BY <1>3 DEF OnGranted
  <2>2. CASE approval[s] # "accepted"
    <3>1. IssueInitialLease(s)  BY <1>3, <2>2 DEF OnGranted
    <3> QED  BY <1>0, <2>1, <3>1, DatedGrant DEF agent_vars
  <2>3. CASE approval[s] = "accepted"
    <3>1. down' = down  BY <1>3, <2>3 DEF OnGranted
    <3> QED  BY <1>0, <2>1, <3>1 DEF agent_vars
  <2> QED  BY <2>2, <2>3
<1>4. ASSUME OnRevoked(s) PROVE Dated'
  <2>1. approval' = [approval EXCEPT ![s] = "revoked"] /\ UNCHANGED <<now, agent_vars>>
    BY <1>4 DEF OnRevoked
  <2>2. CASE approval[s] = "revoked"
    <3>1. down' = down /\ deniedAt' = deniedAt  BY <1>4, <2>2 DEF OnRevoked
    <3> QED  BY <1>0, <2>1, <2>2, <3>1 DEF agent_vars
  <2>3. CASE approval[s] # "revoked"
    <3>1. Push(s, <<Msg("revoke", NoLease)>>)  BY <1>4, <2>3 DEF OnRevoked
    <3>2. /\ down' \in [Sessions -> Seq(Before(now))]
          /\ \A r \in Sessions : approval[r] # "accepted" => down'[r] \in Seq(Before(deniedAt[r]))
      BY <3>1, DatedPush
    <3>3. CASE approval[s] = "accepted"
      <4>1. deniedAt' = [deniedAt EXCEPT ![s] = now]  BY <1>4, <2>3, <3>3 DEF OnRevoked
      <4>2. \A r \in Sessions : deniedAt'[r] <= now'  BY <1>0, <2>1, <4>1
      <4>3. ASSUME NEW r \in Sessions, approval'[r] # "accepted"
            PROVE  /\ down'[r] \in Seq(Before(deniedAt'[r]))
                   /\ mode' = "session" /\ cur' = r => lease'.at <= deniedAt'[r]
        <5>1. CASE r = s  BY <1>0, <2>1, <3>2, <4>1, <5>1 DEF agent_vars
        <5>2. CASE r # s  BY <1>0, <2>1, <3>2, <4>1, <4>3, <5>2 DEF agent_vars
        <5> QED  BY <5>1, <5>2
      <4> QED  BY <2>1, <3>2, <4>2, <4>3 DEF agent_vars
    <3>4. CASE approval[s] # "accepted"
      <4>1. deniedAt' = deniedAt  BY <1>4, <2>3, <3>4 DEF OnRevoked
      <4> QED  BY <1>0, <2>1, <3>2, <3>4, <4>1 DEF agent_vars
    <3> QED  BY <3>3, <3>4
  <2> QED  BY <2>2, <2>3
<1>5. ASSUME OnRefreshRequest(s) PROVE Dated'
  <2> DEFINE extended == [id |-> Head(up[s]).lease.id, at |-> now]
  <2>1. UNCHANGED <<now, approval, deniedAt, agent_vars>>  BY <1>5 DEF OnRefreshRequest
  <2>2. CASE Push(s, <<Msg("revoke", NoLease)>>)  BY <2>1, <2>2, DatedPush DEF agent_vars
  <2>3. CASE down' = down  BY <2>1, <2>3 DEF agent_vars
  <2>4. CASE Refreshable(s) /\ Push(s, <<Msg("lease", extended)>>)
    <3>1. Head(up[s]) \in AllMsgs
      <4>1. up[s] \in Seq(AllMsgs) /\ up[s] # <<>>
        BY <1>5 DEF OnRefreshRequest, TypeOK, WireTypeOK, AllMsgs
      <4> QED  BY <4>1, QueueSteps
    <3>2. extended \in Leases(MaxGrants)  BY <1>0, <3>1 DEF AllMsgs, Msgs, Leases
    <3>3. Msg("lease", extended) \in Before(now)  BY <1>0, <3>2, DatedMsgs
    <3>4. <<Msg("lease", extended)>> \in Seq(Before(now))  BY <3>3
    <3>5. /\ down' \in [Sessions -> Seq(Before(now))]
          /\ \A r \in Sessions \ {s} : down'[r] = down[r]
      BY <2>4, <3>4, DatedLease
    <3> QED  BY <2>1, <2>4, <3>5 DEF agent_vars, Refreshable
  <2> QED  BY <1>5, <2>2, <2>3, <2>4 DEF OnRefreshRequest
<1>6. ASSUME PumpCommand(s) PROVE Dated'
  <2>1. UNCHANGED <<now, approval, deniedAt, agent_vars>> /\ Push(s, <<Msg("deploy", NoLease)>>)
    BY <1>6 DEF PumpCommand
  <2> QED  BY <2>1, DatedPush DEF agent_vars
<1>7. OnDisconnect(s) => Dated'  BY DEF OnDisconnect, agent_vars, wire_vars
<1>8. ASSUME LinkBreak(s) PROVE Dated'
  <2>1. PICK j \in 0 .. Len(down[s]) : down' = [down EXCEPT ![s] = SubSeq(@, 1, j)]
    BY <1>8 DEF LinkBreak
  <2>2. UNCHANGED <<now, approval, deniedAt, agent_vars>>
    BY <1>8 DEF LinkBreak, session_vars
  <2>3. SubSeq(down[s], 1, j) \in Seq(Before(now))
    <3>1. down[s] \in Seq(Before(now))  OBVIOUS
    <3> QED  BY <3>1, QueueSteps
  <2>4. approval[s] # "accepted" => SubSeq(down[s], 1, j) \in Seq(Before(deniedAt[s]))
    BY QueueSteps
  <2>5. down' \in [Sessions -> Seq(Before(now))]  BY <2>1, <2>3
  <2>6. \A r \in Sessions : approval[r] # "accepted" => down'[r] \in Seq(Before(deniedAt[r]))
    BY <2>1, <2>4
  <2> QED  BY <2>2, <2>5, <2>6 DEF agent_vars
<1> QED  BY <1>1, <1>2, <1>3, <1>4, <1>5, <1>6, <1>7, <1>8 DEF SessionNext

LEMMA DatedAgent ==
  ASSUME TypeOK, Dated, AgentNext
  PROVE  Dated'
<1> USE DEF Dated
<1>0. /\ now \in Nat /\ approval \in [Sessions -> States] /\ deniedAt \in [Sessions -> Nat]
      /\ mode = "session" => cur \in Sessions
      /\ NoLease.at = 0
  BY LeaseAssumption
     DEF TypeOK, HistoryTypeOK, SessionTypeOK, AgentTypeOK, Sessions, NoLease
<1> DEFINE Ours == UNCHANGED <<now, http_vars, session_vars, cur>>
<1>1. Hangup => /\ down' \in [Sessions -> Seq(Before(now))]
                /\ \A r \in Sessions : approval[r] # "accepted"
                                         => down'[r] \in Seq(Before(deniedAt[r]))
  <2>1. \A t : <<>> \in Seq(Before(t))  OBVIOUS
  <2> QED  BY <2>1 DEF Hangup
<1>2. Ours /\ Hangup /\ lease' = NoLease => Dated'
  BY <1>0, <1>1 DEF session_vars
<1>3. Ours /\ TransportError => Dated'  BY <1>2 DEF TransportError
<1>4. \A r, l : Ours /\ LoseAuthority(r, l) => Dated'  BY <1>2 DEF LoseAuthority
<1>5. ASSUME Connect PROVE Dated'
  <2>1. lease' = NoLease /\ UNCHANGED <<now, approval, deniedAt, down>>
    BY <1>5 DEF Connect
  <2> QED  BY <1>0, <2>1
\* A message taken from the queue of session cur is as old as the queue says.
<1>6. ASSUME mode = "session", down[cur] # <<>>
      PROVE  LET m == Head(down[cur])
             IN /\ m.lease.at <= now
                /\ approval[cur] # "accepted" => m.lease.at <= deniedAt[cur]
                /\ Tail(down[cur]) \in Seq(Before(now))
                /\ approval[cur] # "accepted" => Tail(down[cur]) \in Seq(Before(deniedAt[cur]))
  <2>1. down[cur] \in Seq(Before(now))  BY <1>0, <1>6
  <2>2. Head(down[cur]) \in Before(now) /\ Tail(down[cur]) \in Seq(Before(now))
    BY <1>6, <2>1, QueueSteps
  <2>3. ASSUME approval[cur] # "accepted"
        PROVE  Head(down[cur]) \in Before(deniedAt[cur])
               /\ Tail(down[cur]) \in Seq(Before(deniedAt[cur]))
    <3>1. down[cur] \in Seq(Before(deniedAt[cur]))  BY <1>0, <1>6, <2>3
    <3> QED  BY <1>6, <3>1, QueueSteps
  <2> QED  BY <2>2, <2>3 DEF Before
<1>7. ASSUME NEW l, NEW e, mode = "session", down[cur] # <<>>, Ours, Applied(l, e),
             l.at <= now, approval[cur] # "accepted" => l.at <= deniedAt[cur]
      PROVE  Dated'
  <2>1. CASE lease' = l /\ down' = [down EXCEPT ![cur] = Tail(@)] /\ UNCHANGED mode
    <3>1. down' \in [Sessions -> Seq(Before(now))]  BY <1>6, <1>7, <2>1
    <3>2. \A r \in Sessions : approval[r] # "accepted" => down'[r] \in Seq(Before(deniedAt[r]))
      BY <1>0, <1>6, <1>7, <2>1
    <3> QED  BY <1>7, <2>1, <3>1, <3>2 DEF session_vars
  <2> QED  BY <1>3, <1>4, <1>7, <2>1 DEF Applied
<1>8. ASSUME InstallLease PROVE Dated'
  <2>1. mode = "session" /\ down[cur] # <<>> /\ Ours /\ Applied(Head(down[cur]).lease, slot)
    BY <1>8 DEF InstallLease, Receive
  <2> QED  BY <1>6, <1>7, <2>1
<1>9. ASSUME PushCredential PROVE Dated'
  <2>1. mode = "session" /\ down[cur] # <<>> /\ Ours /\ Applied(lease, slot)
    BY <1>9 DEF PushCredential, Receive
  <2> QED  BY <1>0, <1>7, <2>1
<1>10. ASSUME SetDesiredStrategies PROVE Dated'
  <2> DEFINE e == IF slot # "empty" THEN slot ELSE IF creds THEN "engine" ELSE "noop"
  <2>1. mode = "session" /\ down[cur] # <<>> /\ Ours /\ Applied(lease, e)
    BY <1>10 DEF SetDesiredStrategies, Receive
  <2> QED  BY <1>0, <1>7, <2>1
<1>11. OnLeaseRevoke => Dated'  BY <1>4 DEF OnLeaseRevoke
<1>12. ASSUME Timeout PROVE Dated'
  <2>1. Ours  BY <1>12 DEF Timeout
  <2>2. CASE UNCHANGED <<mode, lease, down>>  BY <2>1, <2>2 DEF session_vars
  <2> QED  BY <1>3, <1>4, <1>12, <2>1, <2>2 DEF Timeout
<1>13. ASSUME OnTransportClosed PROVE Dated'
  <2>1. Ours  BY <1>13 DEF OnTransportClosed
  <2>2. CASE mode' = "idle" /\ UNCHANGED <<lease, down>>  BY <2>1, <2>2 DEF session_vars
  <2> QED  BY <1>4, <1>13, <2>1, <2>2 DEF OnTransportClosed
<1>14. ASSUME Interrupt PROVE Dated'
  <2>1. Ours /\ lease' = NoLease /\ mode' = "dead"  BY <1>14 DEF Interrupt
  <2>2. CASE Hangup  BY <1>2, <2>1, <2>2
  <2>3. CASE UNCHANGED down  BY <1>0, <2>1, <2>3 DEF session_vars
  <2> QED  BY <1>14, <2>2, <2>3 DEF Interrupt
<1>15. EngineQuotes => Dated'  BY DEF EngineQuotes, session_vars, wire_vars
<1> QED
  BY <1>5, <1>8, <1>9, <1>10, <1>11, <1>12, <1>13, <1>14, <1>15 DEF AgentNext

LEMMA DatedHolds == Spec => []Dated
<1>1. Init => Dated
  <2> SUFFICES ASSUME Init PROVE Dated  OBVIOUS
  <2>1. \A t : <<>> \in Seq(Before(t))  OBVIOUS
  <2>2. NoLease.at = 0  BY DEF NoLease
  <2> QED  BY <2>1, <2>2 DEF Init, Dated
<1>2. TypeOK /\ Dated /\ [Next]_vars => Dated'
  <2> SUFFICES ASSUME TypeOK, Dated, [Next]_vars PROVE Dated'  OBVIOUS
  <2>1. ASSUME HttpNext PROVE Dated'
    <3>1. UNCHANGED <<now, approval, deniedAt, down, mode, cur, lease>>
      BY <2>1 DEF HttpNext, AcceptAgent, RejectAgent, RevokeAgent, Decide, PreApprove,
             DeleteApproval, SendLifecycle, PreValidateDeploy, SendDeploy, session_vars,
             wire_vars, agent_vars
    <3> QED  BY <3>1 DEF Dated
  <2>2. ASSUME Tick PROVE Dated'
    <3>1. now \in Nat /\ now' = now + 1 /\ lease.at \in Nat /\ deniedAt \in [Sessions -> Nat]
          /\ UNCHANGED <<approval, deniedAt, down, mode, cur, lease>>
      BY <2>2 DEF Tick, session_vars, wire_vars, agent_vars, TypeOK, HistoryTypeOK,
                  AgentTypeOK, SessionTypeOK, Leases
    <3>2. \A r \in Sessions : down[r] \in Seq(Before(now'))
      BY <3>1, BeforeGrows DEF Dated
    <3>3. down' \in [Sessions -> Seq(Before(now'))]  BY <3>1, <3>2 DEF Dated
    <3> QED  BY <3>1, <3>3 DEF Dated
  <2>3. UNCHANGED vars => Dated'
    BY DEF Dated, vars, session_vars, wire_vars, agent_vars
  <2> QED  BY <2>1, <2>2, <2>3, DatedSession, DatedAgent DEF Next
<1> QED  BY <1>1, <1>2, LeaseTypeCorrect, PTL DEF Spec

\* RevocationBoundedByTtl for every TTL, refresh policy and clock skew, and any
\* loss on the wire: one TTL after its session denied it the agent is powerless.
THEOREM DenialEndsAuthority == Spec => []RevocationBoundedByTtl
<1>1. TypeOK /\ Dated => RevocationBoundedByTtl
  <2> SUFFICES ASSUME TypeOK, Dated, mode = "session", approval[cur] # "accepted",
                      AgentNow >= deniedAt[cur] + Ttl, lease # NoLease
               PROVE  Expired(lease)
    BY DEF RevocationBoundedByTtl, Authorised
  <2>1. cur \in Sessions /\ lease.at \in Nat /\ deniedAt[cur] \in Nat
    BY LeaseAssumption DEF TypeOK, AgentTypeOK, SessionTypeOK, Sessions, Leases
  <2>2. lease.at <= deniedAt[cur]  BY <2>1 DEF Dated
  <2>3. AgentNow \in Int  BY LeaseAssumption DEF AgentNow, TypeOK, HistoryTypeOK
  <2> QED  BY <2>1, <2>2, <2>3, LeaseAssumption DEF Expired
<1> QED  BY <1>1, DatedHolds, LeaseTypeCorrect, PTL

-----------------------------------------------------------------------------
(* No spurious expiry.                                                      *)

\* A message of this type is in queue q.
Has(q, type) == \E i \in DOMAIN q : q[i].type = type

\* The policy a deployment needs: the refresh falls due after the issue and before
\* the expiry by the agent's clock, and not within the controller's rate limit.
RefreshInTime == Skew < RefreshAt /\ RefreshAt < Ttl /\ MinRefresh <= RefreshAt - Skew

\* Messages whose lease, if they bring one, was issued at t; and is l.
IssuedAt(t) == {m \in AllMsgs : m.type = "lease" => m.lease.at = t}
Bringing(l) == {m \in AllMsgs : m.type = "lease" => m.lease = l}

\* A connection that was not yet opened.
Unopened ==
  \A s \in Sessions : s > cur =>
    phase[s] = "none" /\ ~link[s] /\ current[s] = NoLease /\ down[s] = <<>>

\* The leases on their way are of this tick, the held one is not overdue for a
\* refresh, and a refresh that was asked for is on the way to the session or
\* answered.
OnTime ==
  /\ down[cur] \in Seq(IssuedAt(now))
  /\ lease # NoLease => AgentNow <= lease.at + RefreshAt
  /\ lease # NoLease /\ asked = lease =>
       /\ AgentNow >= lease.at + RefreshAt
       /\ up[cur] # <<>> \/ Has(down[cur], "lease") \/ Has(down[cur], "revoke")

\* Before the session lets the agent in there is nothing to hold.
Opening ==
  phase[cur] \in {"open", "entering"} =>
    current[cur] = NoLease /\ lease = NoLease /\ down[cur] = <<>>

\* Until a revocation is on its way, session and agent agree on the lease or the
\* wire is bringing it, and at most one refresh is outstanding.
InStep ==
  ~Has(down[cur], "revoke") =>
    /\ down[cur] \in Seq(Bringing(current[cur]))
    /\ IF current[cur] = NoLease THEN lease = NoLease /\ ~Has(down[cur], "lease")
       ELSE approval[cur] = "accepted" /\ (lease = current[cur] \/ Has(down[cur], "lease"))
    /\ Has(down[cur], "lease") /\ lease # NoLease => asked = lease \/ lease.at = now
    /\ \/ up[cur] = <<>>
       \/ up[cur] = <<Msg("register", NoLease)>> /\ phase[cur] = "open"
       \/ /\ up[cur] = <<Msg("refresh", lease)>> /\ lease # NoLease /\ asked = lease
          /\ ~Has(down[cur], "lease")

\* While nothing was late, for a connected agent.
Prompt == ~late /\ mode = "session" /\ link[cur]

Punctual == Prompt => OnTime /\ Opening /\ InStep

\* Messages enter at the end of a queue and leave at its head.
LEMMA HasSteps ==
  ASSUME NEW q \in Seq(AllMsgs), NEW t
  PROVE  /\ ~Has(<<>>, t)
         /\ \A m \in AllMsgs : Has(q \o <<m>>, t) <=> Has(q, t) \/ m.type = t
         /\ \A m, n \in AllMsgs :
              Has(q \o <<m, n>>, t) <=> Has(q, t) \/ m.type = t \/ n.type = t
         /\ q # <<>> => (Has(q, t) <=> Head(q).type = t \/ Has(Tail(q), t))
<1> USE DEF Has
<1>1. ~Has(<<>>, t)  OBVIOUS
<1>2. ASSUME NEW m \in AllMsgs PROVE Has(q \o <<m>>, t) <=> Has(q, t) \/ m.type = t
  <2> DEFINE r == q \o <<m>>
  <2>1. DOMAIN q = 1 .. Len(q) /\ Len(q) \in Nat  OBVIOUS
  <2>2. DOMAIN r = 1 .. Len(q) + 1 /\ r[Len(q) + 1] = m
        /\ \A i \in 1 .. Len(q) : r[i] = q[i]
    OBVIOUS
  <2> HIDE DEF r
  <2>3. Has(r, t) <=> Has(q, t) \/ m.type = t
    <3>1. ASSUME Has(r, t) PROVE Has(q, t) \/ m.type = t
      <4>1. PICK i \in 1 .. Len(q) + 1 : r[i].type = t  BY <2>2, <3>1
      <4>2. i \in 1 .. Len(q) \/ i = Len(q) + 1  BY <2>1
      <4> QED  BY <2>1, <2>2, <4>1, <4>2
    <3>2. ASSUME Has(q, t) \/ m.type = t PROVE Has(r, t)
      <4>1. Len(q) + 1 \in 1 .. Len(q) + 1 /\ 1 .. Len(q) \subseteq 1 .. Len(q) + 1
        BY <2>1
      <4> QED  BY <2>1, <2>2, <3>2, <4>1
    <3> QED  BY <3>1, <3>2
  <2> QED  BY <2>3 DEF r
<1>3. ASSUME NEW m \in AllMsgs, NEW n \in AllMsgs
      PROVE  Has(q \o <<m, n>>, t) <=> Has(q, t) \/ m.type = t \/ n.type = t
  <2> DEFINE r == q \o <<m, n>>
  <2>1. DOMAIN q = 1 .. Len(q) /\ Len(q) \in Nat  OBVIOUS
  <2>2. DOMAIN r = 1 .. Len(q) + 2 /\ r[Len(q) + 1] = m /\ r[Len(q) + 2] = n
        /\ \A i \in 1 .. Len(q) : r[i] = q[i]
    OBVIOUS
  <2> HIDE DEF r
  <2>3. Has(r, t) <=> Has(q, t) \/ m.type = t \/ n.type = t
    <3>1. ASSUME Has(r, t) PROVE Has(q, t) \/ m.type = t \/ n.type = t
      <4>1. PICK i \in 1 .. Len(q) + 2 : r[i].type = t  BY <2>2, <3>1
      <4>2. i \in 1 .. Len(q) \/ i = Len(q) + 1 \/ i = Len(q) + 2  BY <2>1
      <4> QED  BY <2>1, <2>2, <4>1, <4>2
    <3>2. ASSUME Has(q, t) \/ m.type = t \/ n.type = t PROVE Has(r, t)
      <4>1. /\ Len(q) + 1 \in 1 .. Len(q) + 2 /\ Len(q) + 2 \in 1 .. Len(q) + 2
            /\ 1 .. Len(q) \subseteq 1 .. Len(q) + 2
        BY <2>1
      <4> QED  BY <2>1, <2>2, <3>2, <4>1
    <3> QED  BY <3>1, <3>2
  <2> QED  BY <2>3 DEF r
<1>4. ASSUME q # <<>> PROVE Has(q, t) <=> Head(q).type = t \/ Has(Tail(q), t)
  <2>1. /\ DOMAIN q = 1 .. Len(q) /\ Len(q) \in Nat /\ Len(q) > 0 /\ Head(q) = q[1]
        /\ DOMAIN Tail(q) = 1 .. Len(q) - 1
        /\ \A i \in 1 .. Len(q) - 1 : Tail(q)[i] = q[i + 1]
    BY <1>4
  <2>2. ASSUME Has(q, t) PROVE Head(q).type = t \/ Has(Tail(q), t)
    <3>1. PICK i \in 1 .. Len(q) : q[i].type = t  BY <2>1, <2>2
    <3>2. i # 1 => i - 1 \in 1 .. Len(q) - 1 /\ (i - 1) + 1 = i  BY <2>1
    <3> QED  BY <2>1, <3>1, <3>2
  <2>3. ASSUME Has(Tail(q), t) PROVE Has(q, t)
    <3>1. PICK i \in 1 .. Len(q) - 1 : Tail(q)[i].type = t  BY <2>1, <2>3
    <3>2. i + 1 \in 1 .. Len(q)  BY <2>1
    <3> QED  BY <2>1, <3>1, <3>2
  <2>4. 1 \in 1 .. Len(q)  BY <2>1
  <2> QED  BY <2>1, <2>2, <2>3, <2>4
<1> QED  BY <1>1, <1>2, <1>3, <1>4

\* What the session of the agent and the agent itself can see of each other.
view == <<now, late, mode, cur, lease, asked, link[cur], up[cur], down[cur], phase[cur],
          current[cur], approval[cur]>>

LEMMA SameView ==
  ASSUME Punctual, UNCHANGED view
  PROVE  Punctual'
BY DEF Punctual, Prompt, OnTime, Opening, InStep, AgentNow, view

\* A session other than the agent's touches neither.
LEMMA OtherSession ==
  ASSUME TypeOK, NEW s \in Sessions, SessionNext(s), s # cur, cur \in Sessions
  PROVE  UNCHANGED view
<1> USE DEF view
<1>0. UNCHANGED <<now, late, agent_vars>>
  BY DEF SessionNext, OnRegister, FinishRegister, OnGranted, OnRevoked, OnRefreshRequest,
         PumpCommand, OnDisconnect, LinkBreak, history_vars
<1>1. /\ approval \in [Sessions -> States] /\ current \in [Sessions -> Leases(MaxGrants)]
      /\ phase \in [Sessions -> {"none", "open", "entering", "live", "ended"}]
      /\ link \in [Sessions -> BOOLEAN]
      /\ up \in [Sessions -> Seq(AllMsgs)] /\ down \in [Sessions -> Seq(AllMsgs)]
  BY DEF TypeOK, SessionTypeOK, WireTypeOK, AllMsgs
<1>2. approval'[cur] = approval[cur]
  BY <1>1 DEF SessionNext, OnRegister, FinishRegister, OnGranted, OnRevoked,
         OnRefreshRequest, PumpCommand, OnDisconnect, LinkBreak, session_vars
<1>3. current'[cur] = current[cur]
  BY <1>1 DEF SessionNext, OnRegister, FinishRegister, OnGranted, OnRevoked,
         OnRefreshRequest, PumpCommand, OnDisconnect, LinkBreak, session_vars,
         IssueInitialLease
<1>4. phase'[cur] = phase[cur]
  BY <1>1 DEF SessionNext, OnRegister, FinishRegister, OnGranted, OnRevoked,
         OnRefreshRequest, PumpCommand, OnDisconnect, LinkBreak, session_vars,
         IssueInitialLease, Continue
<1>5. link'[cur] = link[cur] /\ up'[cur] = up[cur]
  BY <1>1 DEF SessionNext, OnRegister, FinishRegister, OnGranted, OnRevoked,
         OnRefreshRequest, PumpCommand, OnDisconnect, LinkBreak, wire_vars
<1>6. \A msgs : Push(s, msgs) => down'[cur] = down[cur]  BY <1>1 DEF Push
<1>7. down'[cur] = down[cur]
  BY <1>1, <1>6 DEF SessionNext, OnRegister, FinishRegister, OnGranted, OnRevoked,
         OnRefreshRequest, PumpCommand, OnDisconnect, LinkBreak, wire_vars,
         IssueInitialLease
<1> QED  BY <1>0, <1>2, <1>3, <1>4, <1>5, <1>7 DEF agent_vars

\* The connections the agent has not opened stay untouched.
LEMMA UnopenedStep ==
  ASSUME TypeOK, Unopened, [Next]_vars
  PROVE  Unopened'
<1> USE DEF Unopened
<1>0. /\ cur \in 0 .. MaxSessions /\ Sessions \subseteq Int /\ cur \in Int
      /\ phase \in [Sessions -> {"none", "open", "entering", "live", "ended"}]
      /\ link \in [Sessions -> BOOLEAN]
      /\ down \in [Sessions -> Seq(AllMsgs)]
      /\ current \in [Sessions -> Leases(MaxGrants)]
      /\ mode = "session" => cur # 0
  BY LeaseAssumption DEF TypeOK, AgentTypeOK, SessionTypeOK, WireTypeOK, AllMsgs, Sessions
<1>1. ASSUME UNCHANGED <<cur, phase, link, current, down>> PROVE Unopened'
  BY <1>1
<1>2. Tick \/ HttpNext \/ UNCHANGED vars \/ EngineQuotes => Unopened'
  BY <1>1 DEF Tick, HttpNext, AcceptAgent, RejectAgent, RevokeAgent, Decide, PreApprove,
         DeleteApproval, SendLifecycle, PreValidateDeploy, SendDeploy, EngineQuotes, vars,
         session_vars, wire_vars, agent_vars
<1>3. ASSUME NEW s \in Sessions, SessionNext(s) PROVE Unopened'
  <2>1. cur' = cur
    BY <1>3 DEF SessionNext, OnRegister, FinishRegister, OnGranted, OnRevoked,
         OnRefreshRequest, PumpCommand, OnDisconnect, LinkBreak, agent_vars
  <2>2. ~(s > cur)
    BY <1>3 DEF SessionNext, OnRegister, FinishRegister, OnGranted, OnRevoked,
         OnRefreshRequest, PumpCommand, OnDisconnect, LinkBreak
  <2>3. ASSUME NEW r \in Sessions, r # s
        PROVE  /\ phase'[r] = phase[r] /\ link'[r] = link[r] /\ current'[r] = current[r]
               /\ down'[r] = down[r]
    <3>1. \A msgs : Push(s, msgs) => down'[r] = down[r]  BY <1>0, <2>3 DEF Push
    <3>2. phase'[r] = phase[r]
      BY <1>0, <1>3, <2>3 DEF SessionNext, OnRegister, FinishRegister, OnGranted, OnRevoked,
         OnRefreshRequest, PumpCommand, OnDisconnect, LinkBreak, session_vars,
         IssueInitialLease, Continue
    <3>3. current'[r] = current[r]
      BY <1>0, <1>3, <2>3 DEF SessionNext, OnRegister, FinishRegister, OnGranted, OnRevoked,
         OnRefreshRequest, PumpCommand, OnDisconnect, LinkBreak, session_vars,
         IssueInitialLease
    <3>4. link'[r] = link[r]
      BY <1>0, <1>3, <2>3 DEF SessionNext, OnRegister, FinishRegister, OnGranted, OnRevoked,
         OnRefreshRequest, PumpCommand, OnDisconnect, LinkBreak, wire_vars
    <3>5. down'[r] = down[r]
      BY <1>0, <1>3, <2>3, <3>1 DEF SessionNext, OnRegister, FinishRegister, OnGranted,
         OnRevoked, OnRefreshRequest, PumpCommand, OnDisconnect, LinkBreak, wire_vars,
         IssueInitialLease
    <3> QED  BY <3>2, <3>3, <3>4, <3>5
  <2> QED  BY <2>1, <2>2, <2>3
<1>4. ASSUME Connect PROVE Unopened'
  <2>1. /\ cur' = cur + 1 /\ cur + 1 \in Sessions
        /\ phase' = [phase EXCEPT ![cur + 1] = "open"]
        /\ link' = [link EXCEPT ![cur + 1] = TRUE]
        /\ UNCHANGED <<current, down>>
    BY <1>0, <1>4, LeaseAssumption DEF Connect, Sessions
  <2>2. ASSUME NEW r \in Sessions, r > cur + 1
        PROVE  r > cur /\ r # cur + 1
    BY <1>0, <2>2
  <2>3. ASSUME NEW r \in Sessions, r > cur + 1
        PROVE  phase'[r] = "none" /\ ~link'[r] /\ current'[r] = NoLease /\ down'[r] = <<>>
    BY <1>0, <2>1, <2>2, <2>3
  <2> QED  BY <2>1, <2>3
\* Whatever else the agent does, it does to its current connection.
<1>5. ASSUME AgentNext, ~Connect, ~EngineQuotes PROVE Unopened'
  <2>1. UNCHANGED <<cur, phase, current>>
    BY <1>5 DEF AgentNext, InstallLease, PushCredential, SetDesiredStrategies,
       OnLeaseRevoke, Timeout, OnTransportClosed, Interrupt, session_vars
  <2>2. ASSUME NEW r \in Sessions, r # cur, Hangup PROVE link'[r] = link[r] /\ down'[r] = down[r]
    BY <1>0, <2>2 DEF Hangup
  <2>3. ASSUME NEW r \in Sessions, r # cur, NEW l, NEW e, Applied(l, e)
        PROVE  link'[r] = link[r] /\ down'[r] = down[r]
    BY <1>0, <2>2, <2>3 DEF Applied, TransportError, LoseAuthority
  <2>4. ASSUME NEW r \in Sessions, r > cur
        PROVE  link'[r] = link[r] /\ down'[r] = down[r]
    <3>1. r # cur  BY <1>0, <2>4
    <3> QED
      BY <1>5, <2>2, <2>3, <3>1 DEF AgentNext, InstallLease, PushCredential,
         SetDesiredStrategies, OnLeaseRevoke, Timeout, OnTransportClosed, Interrupt,
         TransportError, LoseAuthority
  <2> QED  BY <2>1, <2>4
<1> QED  BY <1>2, <1>3, <1>4, <1>5 DEF Next

LEMMA SeqNarrow ==
  ASSUME NEW S, NEW T, NEW q \in Seq(S), \A i \in 1 .. Len(q) : q[i] \in T
  PROVE  q \in Seq(T)
OBVIOUS

\* The messages the session sends, as members of the sets of OnTime and InStep.
LEMMA SentMsgs ==
  /\ \A l : \A k \in {"credential", "deploy", "revoke"} :
       Msg(k, NoLease) \in Bringing(l) /\ Msg(k, NoLease).type = k
  /\ \A t : \A k \in {"credential", "deploy", "revoke"} : Msg(k, NoLease) \in IssuedAt(t)
  /\ \A l \in Leases(MaxGrants) :
       /\ Msg("lease", l) \in Bringing(l) /\ Msg("lease", l) \in IssuedAt(l.at)
       /\ Msg("lease", l).type = "lease"
<1>1. \A k \in {"credential", "deploy", "revoke"} :
        Msg(k, NoLease) \in AllMsgs /\ Msg(k, NoLease).type = k
  BY MsgTypes DEF Msg
<1>2. \A l \in Leases(MaxGrants) :
        Msg("lease", l) \in AllMsgs /\ Msg("lease", l).type = "lease" /\ Msg("lease", l).lease = l
  BY MsgTypes DEF Msg
<1> QED  BY <1>1, <1>2 DEF Bringing, IssuedAt

\* What the agent's session and the agent have, typed.
LEMMA ViewTypes ==
  ASSUME TypeOK, mode = "session"
  PROVE  /\ cur \in Sessions /\ now \in Nat /\ AgentNow = now + Skew /\ AgentNow \in Int
         /\ up[cur] \in Seq(AllMsgs) /\ down[cur] \in Seq(AllMsgs)
         /\ lease \in Leases(MaxGrants) /\ lease.at \in Nat
         /\ current[cur] \in Leases(MaxGrants) /\ current[cur].at \in Nat
         /\ grants[cur] \in Nat
         /\ up \in [Sessions -> Seq(AllMsgs)] /\ down \in [Sessions -> Seq(AllMsgs)]
         /\ link \in [Sessions -> BOOLEAN] /\ approval \in [Sessions -> States]
         /\ current \in [Sessions -> Leases(MaxGrants)]
         /\ phase \in [Sessions -> {"none", "open", "entering", "live", "ended"}]
<1>1. cur \in Sessions /\ now \in Nat /\ lease \in Leases(MaxGrants)
  BY LeaseAssumption DEF TypeOK, AgentTypeOK, HistoryTypeOK, Sessions
<1>2. /\ up \in [Sessions -> Seq(AllMsgs)] /\ down \in [Sessions -> Seq(AllMsgs)]
      /\ current \in [Sessions -> Leases(MaxGrants)]
      /\ grants \in [Sessions -> 0 .. MaxGrants]
      /\ link \in [Sessions -> BOOLEAN] /\ approval \in [Sessions -> States]
      /\ phase \in [Sessions -> {"none", "open", "entering", "live", "ended"}]
  BY DEF TypeOK, WireTypeOK, SessionTypeOK, AllMsgs
<1>3. /\ up[cur] \in Seq(AllMsgs) /\ down[cur] \in Seq(AllMsgs)
      /\ current[cur] \in Leases(MaxGrants) /\ grants[cur] \in 0 .. MaxGrants
  BY <1>1, <1>2
<1>4. \A l \in Leases(MaxGrants) : l.at \in Nat  BY DEF Leases
<1>5. AgentNow = now + Skew /\ AgentNow \in Int  BY <1>1, LeaseAssumption DEF AgentNow
<1> QED  BY <1>1, <1>2, <1>3, <1>4, <1>5, LeaseAssumption

\* A step of the session that sends one message to the connected agent.
LEMMA PushHere ==
  ASSUME TypeOK, mode = "session", link[cur], NEW msgs, Push(cur, msgs)
  PROVE  down'[cur] = down[cur] \o msgs
BY ViewTypes DEF Push

\* The first lease, or the one after an acceptance, of a session that holds none.
LEMMA GrantInStep ==
  ASSUME TypeOK, Prompt, OnTime, InStep, IssueInitialLease(cur),
         ~Has(down[cur], "revoke") => current[cur] = NoLease /\ up[cur] = <<>>,
         UNCHANGED <<now, late, agent_vars, link, up>>, approval'[cur] = "accepted"
  PROVE  Punctual'
<1> DEFINE l == [id |-> grants[cur] + 1, at |-> now]
<1>0. mode = "session" /\ link[cur]  BY DEF Prompt
<1>1. /\ cur \in Sessions /\ now \in Nat /\ down[cur] \in Seq(AllMsgs) /\ grants[cur] \in Nat
      /\ current \in [Sessions -> Leases(MaxGrants)]
      /\ phase \in [Sessions -> {"none", "open", "entering", "live", "ended"}]
  BY <1>0, ViewTypes
<1>2. l \in Leases(MaxGrants) /\ l.at = now /\ l # NoLease
  BY <1>1, LeaseAssumption DEF IssueInitialLease, TypeOK, SessionTypeOK, Leases, NoLease
<1>3. /\ current' = [current EXCEPT ![cur] = l]
      /\ Push(cur, <<Msg("lease", l), Msg("credential", NoLease)>>)
      /\ \E ok \in SendOk(cur) : Continue(cur, ok)
  BY DEF IssueInitialLease
<1> HIDE DEF l
<1>4. phase'[cur] = "live"  BY <1>0, <1>1, <1>3 DEF SendOk, Continue
<1>5. down'[cur] = down[cur] \o <<Msg("lease", l), Msg("credential", NoLease)>>
  BY <1>0, <1>3, PushHere
<1>6. current'[cur] = l  BY <1>1, <1>3
<1>7. /\ Msg("lease", l) \in AllMsgs /\ Msg("credential", NoLease) \in AllMsgs
      /\ Msg("lease", l).type = "lease" /\ Msg("credential", NoLease).type = "credential"
  BY <1>2, MsgTypes DEF Msg
<1>8. /\ Has(down'[cur], "lease")
      /\ Has(down'[cur], "revoke") <=> Has(down[cur], "revoke")
  BY <1>1, <1>5, <1>7, HasSteps
<1>9. down'[cur] \in Seq(IssuedAt(now))
  <2>1. Msg("lease", l) \in IssuedAt(now) /\ Msg("credential", NoLease) \in IssuedAt(now)
    BY <1>2, SentMsgs
  <2>2. down[cur] \in Seq(IssuedAt(now))  BY DEF OnTime
  <2> QED  BY <1>5, <2>1, <2>2, QueueSteps
<1>10. ASSUME ~Has(down[cur], "revoke") PROVE down'[cur] \in Seq(Bringing(l))
  <2>1. Msg("lease", l) \in Bringing(l) /\ Msg("credential", NoLease) \in Bringing(l)
    BY <1>2, SentMsgs
  <2>2. down[cur] \in Seq(Bringing(NoLease)) /\ ~Has(down[cur], "lease")
    BY <1>10 DEF InStep
  <2>3. \A i \in 1 .. Len(down[cur]) : down[cur][i] \in Bringing(l)
    BY <1>1, <2>2 DEF Has, Bringing
  <2>4. down[cur] \in Seq(Bringing(l))  BY <1>1, <2>3, SeqNarrow
  <2> QED  BY <1>5, <2>1, <2>4, QueueSteps
<1>11. /\ now' = now /\ late' = late /\ mode' = mode /\ cur' = cur /\ lease' = lease
       /\ asked' = asked /\ link' = link /\ up' = up
  BY DEF agent_vars
<1>12. OnTime'  BY <1>8, <1>9, <1>11 DEF OnTime, AgentNow
<1>13. Opening'  BY <1>4, <1>11 DEF Opening
<1>14. InStep'
  <2>1. ASSUME ~Has(down[cur], "revoke") PROVE lease = NoLease /\ up[cur] = <<>>
    BY <2>1 DEF InStep
  <2> QED  BY <1>2, <1>6, <1>8, <1>10, <1>11, <2>1 DEF InStep
<1> QED  BY <1>12, <1>13, <1>14 DEF Punctual

\* A message without a lease: a revocation, or a deploy.
LEMMA PlainInStep ==
  ASSUME TypeOK, Prompt, OnTime, Opening, NEW k \in {"deploy", "revoke"},
         Push(cur, <<Msg(k, NoLease)>>),
         UNCHANGED <<now, late, agent_vars, link>>, phase[cur] = "live",
         \E ok \in SendOk(cur) : Continue(cur, ok),
         k = "deploy" => InStep /\ UNCHANGED <<up, current, approval>>
  PROVE  Punctual'
<1>0. mode = "session" /\ link[cur]  BY DEF Prompt
<1>1. /\ cur \in Sessions /\ now \in Nat /\ down[cur] \in Seq(AllMsgs)
      /\ phase \in [Sessions -> {"none", "open", "entering", "live", "ended"}]
  BY <1>0, ViewTypes
<1>2. phase'[cur] = "live"  BY <1>0, <1>1 DEF SendOk, Continue
<1>3. down'[cur] = down[cur] \o <<Msg(k, NoLease)>>  BY <1>0, PushHere
<1>4. Msg(k, NoLease) \in AllMsgs /\ Msg(k, NoLease).type = k  BY MsgTypes DEF Msg
<1>5. \A t : Has(down'[cur], t) <=> Has(down[cur], t) \/ k = t
  BY <1>1, <1>3, <1>4, HasSteps
<1>6. down'[cur] \in Seq(IssuedAt(now))
  BY <1>3, SentMsgs, QueueSteps DEF OnTime
<1>7. /\ now' = now /\ late' = late /\ mode' = mode /\ cur' = cur /\ lease' = lease
      /\ asked' = asked /\ link' = link
  BY DEF agent_vars
<1>8. OnTime'
  BY <1>5, <1>6, <1>7 DEF OnTime, AgentNow
<1>9. Opening'  BY <1>2, <1>7 DEF Opening
<1>10. InStep'
  <2>1. CASE k = "revoke"  BY <1>5, <1>7, <2>1 DEF InStep
  <2>2. CASE k = "deploy"
    <3>1. \A t \in {"lease", "revoke"} : Has(down'[cur], t) <=> Has(down[cur], t)
      BY <1>5, <2>2
    <3>2. UNCHANGED <<up, current, approval>> /\ InStep  BY <2>2
    <3>3. down[cur] \in Seq(Bringing(current[cur])) => down'[cur] \in Seq(Bringing(current[cur]))
      BY <1>3, SentMsgs, QueueSteps
    <3> QED  BY <1>2, <1>7, <3>1, <3>2, <3>3 DEF InStep
  <2> QED  BY <2>1, <2>2
<1> QED  BY <1>8, <1>9, <1>10 DEF Punctual

\* on_refresh_request of the agent's own session.
LEMMA RefreshInStep ==
  ASSUME RefreshInTime, TypeOK, Prompt, OnTime, Opening, InStep, OnRefreshRequest(cur)
  PROVE  Punctual'
<1> DEFINE id == Head(up[cur]).lease.id
           l == [id |-> id, at |-> now]
<1>0. mode = "session" /\ link[cur]  BY DEF Prompt
<1>1. /\ cur \in Sessions /\ now \in Nat /\ down[cur] \in Seq(AllMsgs) /\ AgentNow = now + Skew
      /\ up[cur] \in Seq(AllMsgs) /\ lease.at \in Nat /\ lease \in Leases(MaxGrants)
      /\ current \in [Sessions -> Leases(MaxGrants)]
      /\ up \in [Sessions -> Seq(AllMsgs)] /\ link \in [Sessions -> BOOLEAN]
      /\ phase \in [Sessions -> {"none", "open", "entering", "live", "ended"}]
  BY <1>0, ViewTypes
<1>2. /\ phase[cur] = "live" /\ up[cur] # <<>> /\ Head(up[cur]).type = "refresh"
      /\ up' = [up EXCEPT ![cur] = Tail(@)]
      /\ UNCHANGED <<now, late, agent_vars, approval>>
  BY DEF OnRefreshRequest, history_vars
<1>3. /\ now' = now /\ late' = late /\ mode' = mode /\ cur' = cur /\ lease' = lease
      /\ asked' = asked /\ approval' = approval
  BY <1>2 DEF agent_vars
<1>4. CASE Push(cur, <<Msg("revoke", NoLease)>>) /\ UNCHANGED link
           /\ \E ok \in SendOk(cur) : Continue(cur, ok)
  BY <1>2, <1>4, PlainInStep
<1>5. CASE link' = [link EXCEPT ![cur] = FALSE]
  BY <1>1, <1>3, <1>5 DEF Punctual, Prompt
\* Without a revocation on its way the request names the lease both sides hold, and
\* it was not made within the rate limit.
<1>6. ASSUME ~Has(down[cur], "revoke")
      PROVE  /\ Tail(up[cur]) = <<>> /\ lease # NoLease /\ asked = lease
             /\ ~Has(down[cur], "lease") /\ lease = current[cur] /\ id = lease.id
             /\ ~TooSoon(cur) /\ now > 0 /\ approval[cur] = "accepted"
  <2>1. up[cur] = <<Msg("refresh", lease)>> /\ lease # NoLease /\ asked = lease
        /\ ~Has(down[cur], "lease")
    <3>1. up[cur] # <<Msg("register", NoLease)>>  BY <1>2 DEF Msg
    <3> QED  BY <1>2, <1>6, <3>1 DEF InStep
  <2>2. Tail(up[cur]) = <<>> /\ id = lease.id  BY <2>1 DEF Msg
  <2>3. lease = current[cur] /\ approval[cur] = "accepted"  BY <1>6, <2>1 DEF InStep
  <2>4. AgentNow >= lease.at + RefreshAt  BY <2>1 DEF OnTime
  <2>5. now - lease.at >= MinRefresh /\ now > 0
    BY <1>1, <2>4, LeaseAssumption DEF RefreshInTime
  <2>6. ~TooSoon(cur)  BY <1>1, <2>3, <2>5, LeaseAssumption DEF TooSoon
  <2> QED  BY <2>1, <2>2, <2>3, <2>5, <2>6
<1>7. CASE TooSoon(cur) /\ UNCHANGED <<phase, current, link, down>>
  <2>1. Has(down[cur], "revoke")  BY <1>6, <1>7
  <2>2. OnTime'  BY <1>3, <1>7, <2>1 DEF OnTime, AgentNow
  <2>3. Opening' /\ InStep'  BY <1>3, <1>7, <2>1 DEF Opening, InStep
  <2> QED  BY <2>2, <2>3 DEF Punctual
<1>8. CASE /\ current' = [current EXCEPT ![cur] = l]
           /\ Push(cur, <<Msg("lease", l)>>) /\ UNCHANGED link
           /\ \E ok \in SendOk(cur) : Continue(cur, ok)
  <2>1. l \in Leases(MaxGrants) /\ l.at = now
    <3>1. Head(up[cur]) \in AllMsgs  BY <1>1, <1>2, QueueSteps
    <3> QED  BY <1>1, <3>1 DEF AllMsgs, Msgs, Leases
  <2>1a. now > 0 => l # NoLease  BY <1>1 DEF NoLease
  <2>2. phase'[cur] = "live"  BY <1>0, <1>1, <1>8 DEF SendOk, Continue
  <2>3. down'[cur] = down[cur] \o <<Msg("lease", l)>>  BY <1>0, <1>8, PushHere
  <2>4. current'[cur] = l  BY <1>1, <1>8
  <2>5. up'[cur] = Tail(up[cur])  BY <1>1, <1>2
  <2> HIDE DEF l, id
  <2>6. Msg("lease", l) \in AllMsgs /\ Msg("lease", l).type = "lease"
    BY <2>1, MsgTypes DEF Msg
  <2>7. /\ Has(down'[cur], "lease")
        /\ Has(down'[cur], "revoke") <=> Has(down[cur], "revoke")
    BY <1>1, <2>3, <2>6, HasSteps
  <2>8. down'[cur] \in Seq(IssuedAt(now))
    <3>1. Msg("lease", l) \in IssuedAt(now)  BY <2>1, SentMsgs
    <3>2. down[cur] \in Seq(IssuedAt(now))  BY DEF OnTime
    <3> QED  BY <2>3, <3>1, <3>2, QueueSteps
  <2>9. OnTime'  BY <1>3, <2>7, <2>8 DEF OnTime, AgentNow
  <2>10. Opening'  BY <1>3, <2>2 DEF Opening
  <2>11. ASSUME ~Has(down[cur], "revoke") PROVE down'[cur] \in Seq(Bringing(l))
    <3>1. Msg("lease", l) \in Bringing(l)  BY <2>1, SentMsgs
    <3>2. ~Has(down[cur], "lease")  BY <1>6, <2>11
    <3>3. \A i \in 1 .. Len(down[cur]) : down[cur][i] \in Bringing(l)
      BY <1>1, <3>2 DEF Has, Bringing
    <3>4. down[cur] \in Seq(Bringing(l))  BY <1>1, <3>3, SeqNarrow
    <3> QED  BY <2>3, <3>1, <3>4, QueueSteps
  <2>12. InStep'
    <3> SUFFICES ASSUME ~Has(down[cur], "revoke") PROVE InStep'
      BY <1>3, <2>7 DEF InStep
    <3>1. l # NoLease /\ up'[cur] = <<>> /\ asked = lease /\ approval[cur] = "accepted"
      BY <1>6, <2>1a, <2>5
    <3> QED  BY <1>3, <2>4, <2>7, <2>11, <3>1 DEF InStep
  <2> QED  BY <2>9, <2>10, <2>12 DEF Punctual
<1> QED  BY <1>4, <1>5, <1>7, <1>8 DEF OnRefreshRequest

\* Every step of the agent's own session.
LEMMA OwnSession ==
  ASSUME RefreshInTime, TypeOK, Prompt, OnTime, Opening, InStep, SessionNext(cur)
  PROVE  Punctual'
<1>0. mode = "session" /\ link[cur]  BY DEF Prompt
<1>1. /\ cur \in Sessions /\ down[cur] \in Seq(AllMsgs)
      /\ link \in [Sessions -> BOOLEAN] /\ approval \in [Sessions -> States]
      /\ up \in [Sessions -> Seq(AllMsgs)]
      /\ phase \in [Sessions -> {"none", "open", "entering", "live", "ended"}]
      /\ ~Has(<<>>, "revoke") /\ ~Has(<<>>, "lease")
  BY <1>0, ViewTypes, HasSteps
<1>2. ASSUME OnRegister(cur) PROVE Punctual'
  <2>1. phase[cur] = "open" /\ up'[cur] = Tail(up[cur]) /\ phase'[cur] = "entering"
    BY <1>1, <1>2 DEF OnRegister
  <2>2. /\ now' = now /\ late' = late /\ mode' = mode /\ cur' = cur /\ lease' = lease
        /\ asked' = asked /\ link' = link /\ current' = current /\ down' = down
    BY <1>2 DEF OnRegister, agent_vars, history_vars
  <2>3. current[cur] = NoLease /\ lease = NoLease /\ down[cur] = <<>>
    BY <2>1 DEF Opening
  <2>4. up'[cur] = <<>>
    <3>1. up[cur] = <<Msg("register", NoLease)>>
      BY <1>1, <1>2, <2>3 DEF OnRegister, InStep
    <3> QED  BY <2>1, <3>1
  <2>5. OnTime'  BY <2>2, <2>3 DEF OnTime
  <2>6. Opening' /\ InStep'  BY <1>1, <2>1, <2>2, <2>3, <2>4 DEF Opening, InStep
  <2> QED  BY <2>5, <2>6 DEF Punctual
<1>3. ASSUME FinishRegister(cur) PROVE Punctual'
  <2>1. /\ phase[cur] = "entering" /\ approval' = approval
        /\ UNCHANGED <<now, late, agent_vars, link, up>>
    BY <1>3 DEF FinishRegister, history_vars
  <2>2. current[cur] = NoLease /\ lease = NoLease /\ down[cur] = <<>>
    BY <2>1 DEF Opening
  <2>3. up[cur] = <<>>  BY <1>1, <2>1, <2>2 DEF InStep
  <2>4. CASE approval[cur] = "accepted"
    <3>1. IssueInitialLease(cur)  BY <1>3, <2>4 DEF FinishRegister
    <3> QED  BY <2>1, <2>2, <2>3, <2>4, <3>1, GrantInStep
  <2>5. CASE approval[cur] # "accepted"
    <3>1. phase'[cur] = "live" /\ UNCHANGED <<current, down>>
      BY <1>1, <1>3, <2>5 DEF FinishRegister
    <3>2. OnTime'  BY <2>1, <2>2, <3>1 DEF OnTime, agent_vars
    <3>3. Opening' /\ InStep'
      BY <1>1, <2>1, <2>2, <2>3, <3>1 DEF Opening, InStep, agent_vars
    <3> QED  BY <3>2, <3>3 DEF Punctual
  <2> QED  BY <2>4, <2>5
<1>4. ASSUME OnGranted(cur) PROVE Punctual'
  <2>1. /\ phase[cur] = "live" /\ approval'[cur] = "accepted"
        /\ UNCHANGED <<now, late, agent_vars, link, up>>
    BY <1>1, <1>4 DEF OnGranted, history_vars
  <2>2. CASE approval[cur] = "accepted"
    <3>1. UNCHANGED <<phase, current, down>>  BY <1>4, <2>2 DEF OnGranted
    <3>2. UNCHANGED view  BY <2>1, <2>2, <3>1 DEF view, agent_vars
    <3> QED  BY <3>2, SameView DEF Punctual
  <2>3. CASE approval[cur] # "accepted"
    <3>1. IssueInitialLease(cur)  BY <1>4, <2>3 DEF OnGranted
    <3>2. ASSUME ~Has(down[cur], "revoke") PROVE current[cur] = NoLease /\ up[cur] = <<>>
      BY <2>1, <2>3, <3>2 DEF InStep
    <3> QED  BY <2>1, <3>1, <3>2, GrantInStep
  <2> QED  BY <2>2, <2>3
<1>5. ASSUME OnRevoked(cur) PROVE Punctual'
  <2>1. /\ phase[cur] = "live" /\ approval'[cur] = "revoked"
        /\ UNCHANGED <<now, late, agent_vars, link, up>>
    BY <1>1, <1>5 DEF OnRevoked, history_vars
  <2>2. CASE approval[cur] = "revoked"
    <3>1. UNCHANGED <<phase, current, down>>  BY <1>5, <2>2 DEF OnRevoked
    <3>2. UNCHANGED view  BY <2>1, <2>2, <3>1 DEF view, agent_vars
    <3> QED  BY <3>2, SameView DEF Punctual
  <2>3. CASE approval[cur] # "revoked"
    <3>1. Push(cur, <<Msg("revoke", NoLease)>>) /\ \E ok \in SendOk(cur) : Continue(cur, ok)
      BY <1>5, <2>3 DEF OnRevoked
    <3> QED  BY <2>1, <3>1, PlainInStep
  <2> QED  BY <2>2, <2>3
<1>6. ASSUME OnRefreshRequest(cur) PROVE Punctual'  BY <1>6, RefreshInStep
<1>7. ASSUME PumpCommand(cur) PROVE Punctual'
  <2>1. /\ phase[cur] = "live" /\ Push(cur, <<Msg("deploy", NoLease)>>)
        /\ \E ok \in SendOk(cur) : Continue(cur, ok)
        /\ UNCHANGED <<now, late, agent_vars, link, up, current, approval>>
    BY <1>7 DEF PumpCommand, history_vars
  <2> QED  BY <2>1, PlainInStep
<1>8. OnDisconnect(cur) => Punctual'  BY <1>0 DEF OnDisconnect
<1>9. ASSUME LinkBreak(cur) PROVE Punctual'
  <2>1. link'[cur] = FALSE /\ cur' = cur  BY <1>1, <1>9 DEF LinkBreak, agent_vars
  <2> QED  BY <2>1 DEF Punctual, Prompt
<1> QED  BY <1>2, <1>3, <1>4, <1>5, <1>6, <1>7, <1>8, <1>9 DEF SessionNext

\* A command that was neither lost nor late: taken from the queue and applied.
LEMMA AppliedOnTime ==
  ASSUME RefreshInTime, TypeOK, Prompt, OnTime, NEW l, NEW e, Applied(l, e),
         l # NoLease => AgentNow <= l.at + RefreshAt,
         l # NoLease => l.at \in Nat
  PROVE  /\ lease' = l /\ asked' = (IF l = lease THEN asked ELSE NoLease)
         /\ down'[cur] = Tail(down[cur])
         /\ UNCHANGED <<mode, link, why>>
<1>0. mode = "session" /\ link[cur]  BY DEF Prompt
<1>1. cur \in Sessions /\ AgentNow \in Int /\ down \in [Sessions -> Seq(AllMsgs)]
  BY <1>0, ViewTypes
<1>2. ~Expired(l)  BY <1>1, LeaseAssumption DEF Expired, RefreshInTime
<1>3. SendOk(cur) = {TRUE}  BY <1>0 DEF SendOk
<1> QED  BY <1>1, <1>2, <1>3 DEF Applied

LEMMA AgentInStep ==
  ASSUME RefreshInTime, TypeOK, Prompt, OnTime, Opening, InStep, AgentNext
  PROVE  Punctual' /\ (why' = why \/ why' # "lapsed")
<1> DEFINE q == down[cur]
           Goal == Punctual' /\ (why' = why \/ why' # "lapsed")
<1>0. mode = "session" /\ link[cur]  BY DEF Prompt
<1>1. /\ cur \in Sessions /\ now \in Nat /\ q \in Seq(AllMsgs) /\ AgentNow = now + Skew
      /\ AgentNow \in Int /\ lease.at \in Nat /\ lease \in Leases(MaxGrants)
      /\ up \in [Sessions -> Seq(AllMsgs)] /\ up[cur] \in Seq(AllMsgs)
  BY <1>0, ViewTypes
<1>2. ~Connect  BY <1>0 DEF Connect
<1>3. ~OnTransportClosed  BY <1>0 DEF OnTransportClosed
<1>4. ASSUME OnLeaseRevoke \/ Interrupt PROVE Goal
  <2>1. mode' = "dead" /\ why' # "lapsed"
    BY <1>4 DEF OnLeaseRevoke, LoseAuthority, Interrupt
  <2> QED  BY <2>1 DEF Punctual, Prompt
<1>5. ASSUME EngineQuotes PROVE Goal
  <2>1. UNCHANGED view /\ why' = why
    BY <1>5 DEF EngineQuotes, view, session_vars, wire_vars, history_vars
  <2> QED  BY <2>1, SameView DEF Punctual
<1>6. ASSUME InstallLease PROVE Goal
  <2> DEFINE l == Head(q).lease
  <2>1. /\ q # <<>> /\ Head(q).type = "lease" /\ Applied(l, slot)
        /\ UNCHANGED <<now, late, cur, up, phase, approval, current>>
    BY <1>6 DEF InstallLease, Receive, session_vars, history_vars
  <2>2. /\ Head(q) \in IssuedAt(now) /\ Tail(q) \in Seq(IssuedAt(now))
    BY <2>1, QueueSteps DEF OnTime
  <2>3. l.at = now  BY <2>1, <2>2 DEF IssuedAt
  <2>4. AgentNow < l.at + RefreshAt
    BY <1>1, <2>3, LeaseAssumption DEF RefreshInTime
  <2> HIDE DEF l
  <2>5. /\ lease' = l /\ asked' = (IF l = lease THEN asked ELSE NoLease)
        /\ down'[cur] = Tail(q)
        /\ UNCHANGED <<mode, link, why>>
    BY <1>1, <2>1, <2>3, <2>4, LeaseAssumption, AppliedOnTime
  <2>6. Has(q, "lease") /\ (Has(q, "revoke") <=> Has(Tail(q), "revoke"))
    BY <1>1, <2>1, HasSteps
  <2>7. ~(l = lease /\ asked = lease /\ lease # NoLease)
    BY <1>1, <2>3, <2>4, LeaseAssumption DEF OnTime
  <2>8. OnTime'
    <3>1. AgentNow' = AgentNow  BY <2>1 DEF AgentNow
    <3>2. lease' # NoLease => AgentNow' <= lease'.at + RefreshAt
      BY <1>1, <2>3, <2>4, <2>5, <3>1, LeaseAssumption
    <3>3. ~(lease' # NoLease /\ asked' = lease')  BY <2>5, <2>7
    <3> QED  BY <2>1, <2>2, <2>5, <3>2, <3>3 DEF OnTime
  <2>9. ~(phase[cur] \in {"open", "entering"})  BY <2>1 DEF Opening
  <2>10. Opening'  BY <2>1, <2>9 DEF Opening
  <2>11. ASSUME ~Has(q, "revoke") PROVE InStep'
    <3>1. Head(q) \in Bringing(current[cur]) /\ Tail(q) \in Seq(Bringing(current[cur]))
      BY <2>1, <2>11, QueueSteps DEF InStep
    <3>2. l = current[cur]  BY <2>1, <3>1 DEF Bringing, l
    <3>3. current[cur] # NoLease /\ approval[cur] = "accepted" /\ up[cur] = <<>>
      BY <2>6, <2>9, <2>11 DEF InStep
    <3> QED  BY <2>1, <2>3, <2>5, <3>1, <3>2, <3>3 DEF InStep
  <2>12. InStep'
    <3>1. ASSUME Has(q, "revoke") PROVE InStep'
      BY <2>1, <2>5, <2>6, <3>1 DEF InStep
    <3> QED  BY <2>11, <3>1
  <2> QED  BY <2>5, <2>8, <2>10, <2>12 DEF Punctual
<1>7. ASSUME PushCredential \/ SetDesiredStrategies PROVE Goal
  <2>1. /\ q # <<>> /\ Head(q).type \notin {"lease", "revoke"}
        /\ \E e : Applied(lease, e)
        /\ UNCHANGED <<now, late, cur, up, phase, approval, current>>
    BY <1>7 DEF PushCredential, SetDesiredStrategies, Receive, session_vars, history_vars
  <2>2. /\ lease' = lease /\ asked' = asked /\ down'[cur] = Tail(q)
        /\ UNCHANGED <<mode, link, why>>
    <3>1. lease # NoLease => AgentNow <= lease.at + RefreshAt  BY DEF OnTime
    <3> QED  BY <1>1, <2>1, <3>1, AppliedOnTime
  <2>3. \A t \in {"lease", "revoke"} : Has(q, t) <=> Has(Tail(q), t)
    BY <1>1, <2>1, HasSteps
  <2>4. /\ Tail(q) \in Seq(IssuedAt(now))
        /\ q \in Seq(Bringing(current[cur])) => Tail(q) \in Seq(Bringing(current[cur]))
    BY <2>1, QueueSteps DEF OnTime
  <2>5. OnTime'  BY <2>1, <2>2, <2>3, <2>4 DEF OnTime, AgentNow
  <2>6. Opening'  BY <2>1 DEF Opening
  <2>7. InStep'  BY <2>1, <2>2, <2>3, <2>4 DEF InStep
  <2> QED  BY <2>2, <2>5, <2>6, <2>7 DEF Punctual
<1>8. ASSUME Timeout PROVE Goal
  <2>1. ~Expired(lease)
    BY <1>1, LeaseAssumption DEF Expired, OnTime, RefreshInTime
  <2>2. /\ RefreshDue /\ SendOk(cur) = {TRUE}
        /\ UNCHANGED <<now, late, cur, phase, approval, current>>
    BY <1>0, <1>8, <2>1 DEF Timeout, SendOk, session_vars, history_vars
  <2>3. /\ asked' = lease /\ UNCHANGED <<mode, lease, link, down, why>>
        /\ up'[cur] = Append(up[cur], Msg("refresh", lease))
    BY <1>0, <1>1, <1>8, <2>1, <2>2 DEF Timeout
  <2>4. lease # NoLease /\ AgentNow >= lease.at + RefreshAt /\ asked # lease
    BY <2>2 DEF RefreshDue
  <2>5. lease.at # now  BY <1>1, <2>4, LeaseAssumption DEF RefreshInTime
  <2>6. Msg("refresh", lease) \in AllMsgs  BY <1>1, MsgTypes
  <2>7. up'[cur] # <<>>  BY <1>1, <2>3, <2>6
  <2>8. OnTime'  BY <2>2, <2>3, <2>4, <2>7 DEF OnTime, AgentNow
  <2>9. phase[cur] \notin {"open", "entering"}  BY <2>4 DEF Opening
  <2>10. Opening'  BY <2>2, <2>9 DEF Opening
  <2>11. ASSUME ~Has(q, "revoke") PROVE InStep'
    <3>1. ~Has(q, "lease") /\ up[cur] = <<>>
      BY <2>4, <2>5, <2>9, <2>11 DEF InStep
    <3>2. up'[cur] = <<Msg("refresh", lease)>>  BY <2>3, <3>1
    <3> QED  BY <2>2, <2>3, <2>4, <2>11, <3>1, <3>2 DEF InStep
  <2>12. InStep'  BY <2>2, <2>3, <2>11 DEF InStep
  <2> QED  BY <2>3, <2>8, <2>10, <2>12 DEF Punctual
<1> QED
  BY <1>2, <1>3, <1>4, <1>5, <1>6, <1>7, <1>8 DEF AgentNext

\* Only a new connection makes an agent prompt that was not.
LEMMA PromptBefore ==
  ASSUME TypeOK, [Next]_vars, ~Connect, Prompt'
  PROVE  Prompt
<1>1. ~late' => ~late
  BY DEF Next, Tick, HttpNext, AcceptAgent, RejectAgent, RevokeAgent, Decide, Request,
         PreApprove, DeleteApproval, SendLifecycle, PreValidateDeploy, SendDeploy, AgentNext,
         InstallLease, PushCredential, SetDesiredStrategies, OnLeaseRevoke, Timeout,
         OnTransportClosed, Interrupt, EngineQuotes, SessionNext, OnRegister,
         FinishRegister, OnGranted, OnRevoked, OnRefreshRequest, PumpCommand,
         OnDisconnect, LinkBreak, vars, history_vars
<1>2. mode' = "session" => mode = "session" /\ cur' = cur
  <2>1. CASE AgentNext
    BY <2>1 DEF AgentNext, InstallLease, PushCredential, SetDesiredStrategies, Receive,
         OnLeaseRevoke, LoseAuthority, Timeout, OnTransportClosed, Interrupt, EngineQuotes
  <2>2. CASE ~AgentNext
    BY <2>2 DEF Next, Tick, HttpNext, AcceptAgent, RejectAgent, RevokeAgent, Decide,
         PreApprove, DeleteApproval, SendLifecycle, PreValidateDeploy, SendDeploy,
         SessionNext, OnRegister, FinishRegister, OnGranted, OnRevoked, OnRefreshRequest,
         PumpCommand, OnDisconnect, LinkBreak, vars, agent_vars
  <2> QED  BY <2>1, <2>2
<1>3. link \in [Sessions -> BOOLEAN]  BY DEF TypeOK, WireTypeOK
<1>4. ASSUME NEW r \in Sessions, link'[r] PROVE link[r]
  <2>1. Hangup => link[r]  BY <1>3, <1>4 DEF Hangup
  <2>2. TransportError => link[r]  BY <2>1 DEF TransportError
  <2>3. \A x, l : LoseAuthority(x, l) => link[r]  BY <2>1 DEF LoseAuthority
  <2>4. \A l, e : Applied(l, e) => link[r]  BY <1>4, <2>2, <2>3 DEF Applied
  <2>5. CASE AgentNext
    BY <1>4, <2>1, <2>2, <2>3, <2>4, <2>5
       DEF AgentNext, InstallLease, PushCredential, SetDesiredStrategies,
           OnLeaseRevoke, Timeout, OnTransportClosed, Interrupt, EngineQuotes, wire_vars
  <2>6. CASE ~AgentNext
    BY <1>3, <1>4, <2>6 DEF Next, Tick, HttpNext, AcceptAgent, RejectAgent, RevokeAgent,
         Decide, PreApprove, DeleteApproval, SendLifecycle, PreValidateDeploy, SendDeploy,
         SessionNext, OnRegister, FinishRegister, OnGranted, OnRevoked, OnRefreshRequest,
         PumpCommand, OnDisconnect, LinkBreak, vars, wire_vars
  <2> QED  BY <2>5, <2>6
<1>5. cur \in Sessions
  BY <1>2, LeaseAssumption DEF Prompt, TypeOK, AgentTypeOK, Sessions
<1> QED  BY <1>1, <1>2, <1>4, <1>5 DEF Prompt

LEMMA ConnectPunctual ==
  ASSUME TypeOK, Unopened, Connect
  PROVE  Punctual'
<1>1. cur + 1 \in Sessions /\ cur + 1 > cur
  BY LeaseAssumption DEF Connect, TypeOK, AgentTypeOK, Sessions
<1>2. /\ cur' = cur + 1 /\ lease' = NoLease /\ asked' = NoLease
      /\ phase'[cur'] = "open" /\ up'[cur'] = <<Msg("register", NoLease)>>
      /\ UNCHANGED <<now, current, down>>
  BY <1>1 DEF Connect, TypeOK, SessionTypeOK, WireTypeOK
<1>3. current'[cur'] = NoLease /\ down'[cur'] = <<>>
  BY <1>1, <1>2 DEF Unopened
<1>4. \A t : ~Has(<<>>, t)  BY DEF Has
<1>5. OnTime'  BY <1>2, <1>3 DEF OnTime
<1>6. Opening' /\ InStep'  BY <1>2, <1>3, <1>4 DEF Opening, InStep
<1> QED  BY <1>5, <1>6 DEF Punctual

\* A tick that finds nothing due leaves everybody as much time as before.
LEMMA TickPunctual ==
  ASSUME TypeOK, Punctual, Tick
  PROVE  Punctual'
<1> SUFFICES ASSUME Prompt' PROVE (OnTime /\ Opening /\ InStep)'
  BY DEF Punctual
<1>1. ~late /\ Quiet /\ now' = now + 1
  BY DEF Tick, Prompt
<1>2. /\ mode' = mode /\ cur' = cur /\ lease' = lease /\ asked' = asked /\ link' = link
      /\ up' = up /\ down' = down /\ phase' = phase /\ current' = current
      /\ approval' = approval
  BY DEF Tick, session_vars, wire_vars, agent_vars
<1>3. mode = "session" /\ link[cur] /\ OnTime /\ Opening /\ InStep
  BY <1>1, <1>2 DEF Prompt, Punctual
<1>4. cur \in Sessions /\ now \in Nat /\ AgentNow = now + Skew /\ lease.at \in Nat
  BY <1>3, ViewTypes
<1>5. up[cur] = <<>> /\ down[cur] = <<>> /\ ~RefreshDue
  BY <1>1, <1>3, <1>4 DEF Quiet
<1>6. \A t : ~Has(<<>>, t)  BY DEF Has
<1>7. ~(lease # NoLease /\ asked = lease)  BY <1>3, <1>5, <1>6 DEF OnTime
<1>8. lease # NoLease => AgentNow + 1 <= lease.at + RefreshAt
  BY <1>4, <1>5, <1>7, LeaseAssumption DEF RefreshDue
<1>9. AgentNow' = AgentNow + 1  BY <1>1, <1>4, LeaseAssumption DEF AgentNow
<1>10. OnTime'  BY <1>2, <1>5, <1>7, <1>8, <1>9 DEF OnTime
<1>11. Opening' /\ InStep'  BY <1>2, <1>3, <1>5, <1>6 DEF Opening, InStep
<1> QED  BY <1>10, <1>11

LEMMA HttpKeepsView ==
  ASSUME HttpNext \/ UNCHANGED vars
  PROVE  UNCHANGED view /\ why' = why
BY DEF HttpNext, AcceptAgent, RejectAgent, RevokeAgent, Decide, Request, PreApprove,
       DeleteApproval, SendLifecycle, PreValidateDeploy, SendDeploy, vars, session_vars,
       wire_vars, agent_vars, history_vars, view

\* Session and agent stay in step as long as nothing is late.
LEMMA PunctualStep ==
  ASSUME RefreshInTime, TypeOK, Unopened, Punctual, [Next]_vars
  PROVE  Punctual'
<1>1. CASE Connect  BY <1>1, ConnectPunctual
<1>2. CASE Tick  BY <1>2, TickPunctual
<1>3. CASE HttpNext \/ UNCHANGED vars  BY <1>3, HttpKeepsView, SameView
<1>4. CASE ~Connect /\ Prompt /\ AgentNext  BY <1>4, AgentInStep DEF Punctual
<1>5. ASSUME NEW s \in Sessions, SessionNext(s), Prompt PROVE Punctual'
  <2>1. cur \in Sessions  BY <1>5, ViewTypes DEF Prompt
  <2>2. CASE s = cur  BY <1>5, <2>2, OwnSession DEF Punctual
  <2>3. CASE s # cur  BY <1>5, <2>1, <2>3, OtherSession, SameView
  <2> QED  BY <2>2, <2>3
<1>6. CASE ~Connect /\ ~Prompt  BY <1>6, PromptBefore DEF Punctual
<1> QED  BY <1>1, <1>2, <1>3, <1>4, <1>5, <1>6 DEF Next

\* NoSpuriousExpiry for every TTL, number of sessions and requests, in any order, and
\* any loss with a link: with a policy whose refresh point lies between the rate limit
\* and the TTL, one request per issuance is enough; a lease lapses in a session only
\* after its link broke or the session stopped accepting the agent.
THEOREM LapseHasCause ==
  ASSUME RefreshInTime
  PROVE  Spec => NoSpuriousExpiry
<1>1. Init => Unopened /\ Punctual
  BY DEF Init, Unopened, Punctual, Prompt
<1>2. TypeOK /\ Unopened /\ Punctual /\ [Next]_vars => (Unopened /\ Punctual)'
  BY UnopenedStep, PunctualStep
<1>3. TypeOK /\ Punctual /\ [Next]_vars
      => [~late /\ why # "lapsed" /\ why' = "lapsed"
            => ~link[cur] \/ approval[cur] # "accepted"]_vars
  <2> SUFFICES ASSUME TypeOK, Punctual, Next, ~late, why # "lapsed", why' = "lapsed",
                      link[cur]
               PROVE  FALSE
    OBVIOUS
  <2>1. AgentNext /\ mode = "session"
    <3>1. AgentNext
      BY DEF Next, Tick, HttpNext, AcceptAgent, RejectAgent, RevokeAgent, Decide,
         PreApprove, DeleteApproval, SendLifecycle, PreValidateDeploy, SendDeploy,
         SessionNext, OnRegister, FinishRegister, OnGranted, OnRevoked, OnRefreshRequest,
         PumpCommand, OnDisconnect, LinkBreak
    <3> QED
      BY <3>1 DEF AgentNext, Connect, InstallLease, PushCredential, SetDesiredStrategies,
         Receive, OnLeaseRevoke, Timeout, OnTransportClosed, Interrupt, EngineQuotes
  <2>2. Prompt  BY <2>1 DEF Prompt
  <2> QED  BY <2>1, <2>2, AgentInStep DEF Punctual
<1> QED  BY <1>1, <1>2, <1>3, LeaseTypeCorrect, PTL DEF Spec, NoSpuriousExpiry

-----------------------------------------------------------------------------
(* What it all amounts to: Authority.                                       *)

\* Leases travel in the order of their issue.
InOrder(q) ==
  \A i, j \in DOMAIN q :
    i <= j /\ q[i].type = "lease" /\ q[j].type = "lease" => q[i].lease.at <= q[j].lease.at

\* Messages that bring no lease older than t.
Since(t) == {m \in AllMsgs : m.type = "lease" => t <= m.lease.at}

\* What is on its way to the agent never takes time from it.
Rising == mode = "session" => InOrder(down[cur]) /\ down[cur] \in Seq(Since(lease.at))

\* A message is taken from the head.
LEMMA RisingTake ==
  ASSUME NEW q \in Seq(AllMsgs), InOrder(q), q # <<>>
  PROVE  /\ InOrder(Tail(q))
         /\ Head(q).type = "lease" => Tail(q) \in Seq(Since(Head(q).lease.at))
         /\ \A t : q \in Seq(Since(t)) =>
              /\ Tail(q) \in Seq(Since(t))
              /\ Head(q).type = "lease" => t <= Head(q).lease.at
<1>1. /\ DOMAIN q = 1 .. Len(q) /\ Len(q) \in Nat /\ Len(q) > 0 /\ Head(q) = q[1]
      /\ DOMAIN Tail(q) = 1 .. Len(q) - 1 /\ Tail(q) \in Seq(AllMsgs)
      /\ Len(Tail(q)) = Len(q) - 1
      /\ \A i \in 1 .. Len(q) - 1 : Tail(q)[i] = q[i + 1] /\ i + 1 \in 1 .. Len(q)
      /\ 1 \in 1 .. Len(q)
  OBVIOUS
<1>2. ASSUME NEW i \in DOMAIN Tail(q), NEW j \in DOMAIN Tail(q), i <= j,
             Tail(q)[i].type = "lease", Tail(q)[j].type = "lease"
      PROVE  Tail(q)[i].lease.at <= Tail(q)[j].lease.at
  <2>1. i + 1 <= j + 1 /\ Tail(q)[i] = q[i + 1] /\ Tail(q)[j] = q[j + 1]
        /\ i + 1 \in DOMAIN q /\ j + 1 \in DOMAIN q
    BY <1>1, <1>2
  <2> QED  BY <1>2, <2>1 DEF InOrder
<1>3. ASSUME Head(q).type = "lease" PROVE Tail(q) \in Seq(Since(Head(q).lease.at))
  <2>1. ASSUME NEW i \in 1 .. Len(Tail(q)) PROVE Tail(q)[i] \in Since(Head(q).lease.at)
    <3>1. /\ Tail(q)[i] = q[i + 1] /\ i + 1 \in DOMAIN q /\ 1 <= i + 1 /\ 1 \in DOMAIN q
          /\ Tail(q)[i] \in AllMsgs
      BY <1>1, <2>1
    <3> QED  BY <1>1, <1>3, <3>1 DEF InOrder, Since
  <2> QED  BY <1>1, <2>1, SeqNarrow
<1>4. ASSUME NEW t, q \in Seq(Since(t))
      PROVE  Tail(q) \in Seq(Since(t)) /\ (Head(q).type = "lease" => t <= Head(q).lease.at)
  <2>1. Head(q) \in Since(t) /\ Tail(q) \in Seq(Since(t))  BY <1>4, QueueSteps
  <2> QED  BY <2>1 DEF Since
<1> QED  BY <1>2, <1>3, <1>4 DEF InOrder

\* What a session sends at time t goes behind what is older.
LEMMA RisingSend ==
  ASSUME NEW t \in Nat, NEW q \in Seq(AllMsgs), q \in Seq(Before(t)), InOrder(q),
         NEW msgs \in Seq(IssuedAt(t))
  PROVE  /\ InOrder(q \o msgs)
         /\ \A u \in Nat : u <= t /\ q \in Seq(Since(u)) => q \o msgs \in Seq(Since(u))
<1> DEFINE r == q \o msgs
<1>1. /\ Len(q) \in Nat /\ Len(msgs) \in Nat
      /\ DOMAIN q = 1 .. Len(q) /\ DOMAIN msgs = 1 .. Len(msgs)
      /\ DOMAIN r = 1 .. Len(q) + Len(msgs)
      /\ \A i \in 1 .. Len(q) + Len(msgs) : r[i] = IF i <= Len(q) THEN q[i] ELSE msgs[i - Len(q)]
  OBVIOUS
<1>2. ASSUME NEW i \in DOMAIN r
      PROVE  \/ i \in DOMAIN q /\ r[i] = q[i] /\ r[i] \in Before(t)
             \/ ~(i <= Len(q)) /\ r[i] \in IssuedAt(t)
  <2>1. CASE i <= Len(q)
    <3>1. i \in 1 .. Len(q) /\ r[i] = q[i]  BY <1>1, <1>2, <2>1
    <3> QED  BY <1>1, <3>1
  <2>2. CASE ~(i <= Len(q))
    <3>1. i - Len(q) \in 1 .. Len(msgs) /\ r[i] = msgs[i - Len(q)]  BY <1>1, <1>2, <2>2
    <3> QED  BY <2>2, <3>1
  <2> QED  BY <2>1, <2>2
<1> HIDE DEF r
<1>3. InOrder(r)
  <2> SUFFICES ASSUME NEW i \in DOMAIN r, NEW j \in DOMAIN r, i <= j,
                      r[i].type = "lease", r[j].type = "lease"
               PROVE  r[i].lease.at <= r[j].lease.at
    BY DEF InOrder
  <2>1. CASE j <= Len(q)
    <3>1. i <= Len(q)  BY <1>1, <2>1
    <3>2. i \in DOMAIN q /\ j \in DOMAIN q /\ r[i] = q[i] /\ r[j] = q[j]
      BY <1>2, <2>1, <3>1
    <3> QED  BY <3>2 DEF InOrder
  <2>2. CASE ~(j <= Len(q))
    <3>1. r[j] \in IssuedAt(t)
      <4>1. j \notin DOMAIN q  BY <1>1, <2>2
      <4> QED  BY <1>2, <4>1
    <3>2. r[j].lease.at = t  BY <3>1 DEF IssuedAt
    <3>3. r[i] \in Before(t) \/ r[i] \in IssuedAt(t)  BY <1>2
    <3>4. r[i].lease.at = t \/ r[i].lease.at <= t  BY <3>3 DEF Before, IssuedAt
    <3> QED  BY <3>2, <3>4
  <2> QED  BY <2>1, <2>2
<1>4. ASSUME NEW u \in Nat, u <= t, q \in Seq(Since(u)) PROVE r \in Seq(Since(u))
  <2>1. \A m \in IssuedAt(t) : m \in Since(u)  BY <1>4 DEF IssuedAt, Since
  <2>2. msgs \in Seq(Since(u))  BY <2>1
  <2> QED  BY <1>4, <2>2, ConcatProperties DEF r
<1> QED  BY <1>3, <1>4 DEF r

\* What survives a broken link.
LEMMA RisingCut ==
  ASSUME NEW q \in Seq(AllMsgs), InOrder(q), NEW n \in 0 .. Len(q)
  PROVE  /\ InOrder(SubSeq(q, 1, n))
         /\ \A t : q \in Seq(Since(t)) => SubSeq(q, 1, n) \in Seq(Since(t))
<1>1. /\ DOMAIN q = 1 .. Len(q) /\ DOMAIN SubSeq(q, 1, n) = 1 .. n
      /\ \A i \in 1 .. n : SubSeq(q, 1, n)[i] = q[i] /\ i \in 1 .. Len(q)
  BY SubSeqProperties
<1>2. InOrder(SubSeq(q, 1, n))  BY <1>1 DEF InOrder
<1> QED  BY <1>2, QueueSteps

\* What a step of session s does to its way to the agent.
Sent(s) ==
  \/ down' = down
  \/ \E msgs \in Seq(IssuedAt(now)) : down' = [down EXCEPT ![s] = @ \o msgs]
  \/ \E n \in 0 .. Len(down[s]) : down' = [down EXCEPT ![s] = SubSeq(@, 1, n)]

LEMMA SessionSends ==
  ASSUME TypeOK, NEW s \in Sessions, SessionNext(s)
  PROVE  Sent(s)
<1>1. now \in Nat /\ \A msgs \in Seq(IssuedAt(now)) : Push(s, msgs) => Sent(s)
  BY DEF TypeOK, HistoryTypeOK, Push, Sent
<1>2. \A k \in {"deploy", "revoke"} : <<Msg(k, NoLease)>> \in Seq(IssuedAt(now))
  BY SentMsgs
<1>3. \A l \in Leases(MaxGrants) : l.at = now =>
        /\ <<Msg("lease", l)>> \in Seq(IssuedAt(now))
        /\ <<Msg("lease", l), Msg("credential", NoLease)>> \in Seq(IssuedAt(now))
  BY SentMsgs
<1>4. ASSUME IssueInitialLease(s) PROVE Sent(s)
  <2> DEFINE l == [id |-> grants[s] + 1, at |-> now]
  <2>1. l \in Leases(MaxGrants) /\ l.at = now
    BY <1>1, <1>4, LeaseAssumption DEF IssueInitialLease, TypeOK, SessionTypeOK, Leases
  <2>2. Push(s, <<Msg("lease", l), Msg("credential", NoLease)>>)
    BY <1>4 DEF IssueInitialLease
  <2> QED  BY <1>1, <1>3, <2>1, <2>2
<1>5. ASSUME OnRefreshRequest(s) PROVE Sent(s)
  <2> DEFINE extended == [id |-> Head(up[s]).lease.id, at |-> now]
  <2>1. Head(up[s]) \in AllMsgs
    <3>1. up[s] \in Seq(AllMsgs) /\ up[s] # <<>>
      BY <1>5 DEF OnRefreshRequest, TypeOK, WireTypeOK, AllMsgs
    <3> QED  BY <3>1, QueueSteps
  <2>2. extended \in Leases(MaxGrants) /\ extended.at = now
    BY <1>1, <2>1 DEF AllMsgs, Msgs, Leases
  <2>3. \/ Push(s, <<Msg("revoke", NoLease)>>) \/ down' = down
        \/ Push(s, <<Msg("lease", extended)>>)
    BY <1>5 DEF OnRefreshRequest
  <2> QED  BY <1>1, <1>2, <1>3, <2>2, <2>3 DEF Sent
<1>6. OnRegister(s) \/ OnDisconnect(s) => Sent(s)
  BY DEF OnRegister, OnDisconnect, wire_vars, Sent
<1>7. FinishRegister(s) \/ OnGranted(s) => Sent(s)
  BY <1>4 DEF FinishRegister, OnGranted, Sent
<1>8. OnRevoked(s) \/ PumpCommand(s) => Sent(s)
  BY <1>1, <1>2 DEF OnRevoked, PumpCommand, Sent
<1>9. LinkBreak(s) => Sent(s)  BY DEF LinkBreak, Sent
<1> QED  BY <1>5, <1>6, <1>7, <1>8, <1>9 DEF SessionNext

LEMMA RisingSession ==
  ASSUME TypeOK, Dated, Rising, NEW s \in Sessions, SessionNext(s)
  PROVE  Rising'
<1> SUFFICES ASSUME mode = "session"
             PROVE  InOrder(down'[cur]) /\ down'[cur] \in Seq(Since(lease.at))
  <2>1. UNCHANGED agent_vars
    BY DEF SessionNext, OnRegister, FinishRegister, OnGranted, OnRevoked,
       OnRefreshRequest, PumpCommand, OnDisconnect, LinkBreak
  <2> QED  BY <2>1 DEF Rising, agent_vars
<1>1. /\ cur \in Sessions /\ down \in [Sessions -> Seq(AllMsgs)] /\ now \in Nat
      /\ down[cur] \in Seq(AllMsgs) /\ lease.at \in Nat
  BY ViewTypes
<1>2. InOrder(down[cur]) /\ down[cur] \in Seq(Since(lease.at))  BY DEF Rising
<1>3. down[cur] \in Seq(Before(now)) /\ lease.at <= now  BY <1>1 DEF Dated
<1>4. CASE s # cur \/ down' = down
  <2>1. down'[cur] = down[cur]  BY <1>1, <1>4, SessionSends DEF Sent
  <2> QED  BY <1>2, <2>1
<1>5. ASSUME s = cur, NEW msgs \in Seq(IssuedAt(now)), down' = [down EXCEPT ![s] = @ \o msgs]
      PROVE  InOrder(down'[cur]) /\ down'[cur] \in Seq(Since(lease.at))
  <2>1. down'[cur] = down[cur] \o msgs  BY <1>1, <1>5
  <2> QED  BY <1>1, <1>2, <1>3, <2>1, RisingSend
<1>6. ASSUME s = cur, NEW n \in 0 .. Len(down[s]),
             down' = [down EXCEPT ![s] = SubSeq(@, 1, n)]
      PROVE  InOrder(down'[cur]) /\ down'[cur] \in Seq(Since(lease.at))
  <2>1. down'[cur] = SubSeq(down[cur], 1, n)  BY <1>1, <1>6
  <2> QED  BY <1>1, <1>2, <1>6, <2>1, RisingCut
<1> QED  BY <1>4, <1>5, <1>6, SessionSends DEF Sent

\* The agent takes a lease that is no older than its own, or starts over.
LEMMA RisingAgent ==
  ASSUME TypeOK, Unopened, Rising, AgentNext
  PROVE  Rising'
<1>1. ASSUME Connect PROVE Rising'
  <2>1. /\ cur' = cur + 1 /\ cur + 1 \in Sessions /\ cur + 1 > cur /\ lease' = NoLease
        /\ down' = down
    BY <1>1, LeaseAssumption DEF Connect, TypeOK, AgentTypeOK, Sessions
  <2>2. down'[cur'] = <<>>  BY <2>1 DEF Unopened
  <2> QED  BY <2>2 DEF Rising, InOrder
<1>2. ASSUME mode' # "session" PROVE Rising'  BY <1>2 DEF Rising
<1>3. ASSUME UNCHANGED <<mode, cur, lease, down>> PROVE Rising'  BY <1>3 DEF Rising
<1>4. ASSUME NEW l, NEW e, mode = "session", down[cur] # <<>>, Applied(l, e), cur' = cur,
             l = lease \/ (Head(down[cur]).type = "lease" /\ l = Head(down[cur]).lease)
      PROVE  Rising'
  <2>1. CASE lease' = l /\ down' = [down EXCEPT ![cur] = Tail(@)]
    <3>1. /\ cur \in Sessions /\ down \in [Sessions -> Seq(AllMsgs)]
          /\ down[cur] \in Seq(AllMsgs)
      BY <1>4, ViewTypes
    <3>2. down'[cur] = Tail(down[cur])  BY <2>1, <3>1
    <3>3. InOrder(down[cur]) /\ down[cur] \in Seq(Since(lease.at))  BY <1>4 DEF Rising
    <3>4. InOrder(Tail(down[cur])) /\ Tail(down[cur]) \in Seq(Since(l.at))
      BY <1>4, <3>1, <3>3, RisingTake
    <3> QED  BY <1>4, <2>1, <3>2, <3>4 DEF Rising
  <2> QED  BY <1>2, <1>4, <2>1 DEF Applied, TransportError, LoseAuthority
<1>5. ASSUME InstallLease PROVE Rising'
  BY <1>4, <1>5 DEF InstallLease, Receive
<1>6. ASSUME PushCredential \/ SetDesiredStrategies PROVE Rising'
  BY <1>4, <1>6 DEF PushCredential, SetDesiredStrategies, Receive
<1>7. ASSUME OnLeaseRevoke \/ OnTransportClosed \/ Interrupt PROVE Rising'
  BY <1>2, <1>7 DEF OnLeaseRevoke, OnTransportClosed, Interrupt, LoseAuthority
<1>8. ASSUME Timeout \/ EngineQuotes PROVE Rising'
  BY <1>2, <1>3, <1>8 DEF Timeout, EngineQuotes, LoseAuthority, TransportError, wire_vars
<1> QED  BY <1>1, <1>5, <1>6, <1>7, <1>8 DEF AgentNext

LEMMA RisingHolds == Spec => [](Unopened /\ Rising)
<1>1. Init => Unopened /\ Rising  BY DEF Init, Unopened, Rising
<1>2. TypeOK /\ Dated /\ Unopened /\ Rising /\ [Next]_vars => (Unopened /\ Rising)'
  <2> SUFFICES ASSUME TypeOK, Dated, Unopened, Rising, [Next]_vars PROVE (Unopened /\ Rising)'
    OBVIOUS
  <2>1. Unopened'  BY UnopenedStep
  <2>2. ASSUME HttpNext \/ Tick \/ UNCHANGED vars PROVE Rising'
    <3>1. UNCHANGED <<mode, cur, lease, down>>
      BY <2>2 DEF HttpNext, AcceptAgent, RejectAgent, RevokeAgent, Decide, PreApprove,
         DeleteApproval, SendLifecycle, PreValidateDeploy, SendDeploy, Tick, vars,
         wire_vars, agent_vars
    <3> QED  BY <3>1 DEF Rising
  <2> QED  BY <2>1, <2>2, RisingSession, RisingAgent DEF Next
<1> QED  BY <1>1, <1>2, DatedHolds, LeaseTypeCorrect, PTL DEF Spec

\* Steps that leave the agent's belongings and its process alone.
LEMMA SamePromise ==
  ASSUME UNCHANGED <<now, everAccepted, mode, lease, creds, slot, detached>>
  PROVE  UNCHANGED Promise!vars
BY DEF Promise!vars, AgentNow, Until, Equipment

\* A handler's acceptance is Accept; no other request matters.
LEMMA HttpPromise ==
  ASSUME TypeOK, HttpNext
  PROVE  [Promise!Next]_(Promise!vars)
<1>1. UNCHANGED <<now, mode, lease, creds, slot, detached>>
  BY DEF HttpNext, AcceptAgent, RejectAgent, RevokeAgent, Decide, PreApprove,
     DeleteApproval, SendLifecycle, PreValidateDeploy, SendDeploy, agent_vars
<1>2. everAccepted \in BOOLEAN  BY DEF TypeOK, HistoryTypeOK
<1>3. everAccepted' = TRUE \/ everAccepted' = everAccepted
  BY <1>2, Zenon DEF HttpNext, AcceptAgent, RejectAgent, RevokeAgent, Decide, PreApprove,
     DeleteApproval, SendLifecycle, PreValidateDeploy, SendDeploy
<1>4. CASE everAccepted' = TRUE
  <2>1. Promise!Accept  BY <1>1, <1>4 DEF Promise!Accept, AgentNow, Until, Equipment
  <2> QED  BY <2>1 DEF Promise!Next
<1>5. CASE everAccepted' = everAccepted  BY <1>1, <1>5, SamePromise
<1> QED  BY <1>3, <1>4, <1>5

\* The agent gives up, or loses its session and goes on.
LEMMA LossPromise ==
  ASSUME UNCHANGED <<now, everAccepted>>, lease' = NoLease, mode # "dead"
  PROVE  /\ mode' = "dead" => Promise!End
         /\ mode' # "dead" /\ Equipment' \ Equipment \subseteq
              (IF everAccepted THEN {"credential"} ELSE {}) => Promise!Disconnect
<1>1. Until' = 0 /\ AgentNow' = AgentNow  BY DEF Until, AgentNow
<1>2. mode' = "dead" => Promise!End
  BY <1>1 DEF Promise!End, Promise!NoLease, Equipment
<1>3. Equipment' \in SUBSET {"credential", "engine"}  BY DEF Equipment
<1> QED  BY <1>1, <1>2, <1>3 DEF Promise!Disconnect, Promise!NoLease, Promise!Tools

\* A lease that is installed is Obtain.
LEMMA InstallPromise ==
  ASSUME TypeOK, Dated, Rising, everAccepted, InstallLease, mode' = "session",
         lease' = Head(down[cur]).lease, lease' # NoLease, ~Expired(lease'),
         UNCHANGED <<slot, detached>>
  PROVE  Promise!Obtain
<1> DEFINE l == Head(down[cur]).lease
<1>1. /\ mode = "session" /\ down[cur] # <<>> /\ Head(down[cur]).type = "lease"
      /\ UNCHANGED <<now, everAccepted, creds>>
  BY DEF InstallLease, Receive
<1>2. /\ cur \in Sessions /\ now \in Nat /\ AgentNow = now + Skew /\ AgentNow \in Int
      /\ down[cur] \in Seq(AllMsgs) /\ lease.at \in Nat
  BY <1>1, ViewTypes
<1>3. InOrder(down[cur]) /\ down[cur] \in Seq(Since(lease.at))  BY <1>1 DEF Rising
<1>4. lease.at <= l.at  BY <1>1, <1>2, <1>3, RisingTake
<1>5. l.at \in Nat /\ l.at <= now
  <2>1. down[cur] \in Seq(Before(now))  BY <1>2 DEF Dated
  <2>2. Head(down[cur]) \in Before(now)  BY <1>1, <2>1, QueueSteps
  <2> QED  BY <2>2 DEF Before, AllMsgs, Msgs, Leases
<1>6. Ttl \in Nat /\ Ttl > 0 /\ Skew \in Int  BY LeaseAssumption
<1>7. Until' = l.at + Ttl  BY DEF Until
<1>8. Until <= l.at + Ttl  BY <1>2, <1>4, <1>5, <1>6 DEF Until
<1>9. AgentNow < l.at + Ttl  BY <1>2, <1>5, <1>6 DEF Expired
<1>10. l.at + Ttl <= AgentNow - Skew + Ttl /\ l.at + Ttl # 0  BY <1>2, <1>5, <1>6
<1>11. AgentNow' = AgentNow /\ Equipment' = Equipment
  BY <1>1 DEF AgentNow, Equipment
<1> QED
  BY <1>1, <1>2, <1>5, <1>6, <1>7, <1>8, <1>9, <1>10, <1>11
     DEF Promise!Obtain, Promise!NoLease

LEMMA AgentPromise ==
  ASSUME TypeOK, Dated, Rising, AdmissionInv, AgentNext
  PROVE  [Promise!Next]_(Promise!vars)
<1> USE DEF Promise!Next
<1>0. /\ creds \in BOOLEAN /\ detached \in BOOLEAN
      /\ Equipment \subseteq {"credential", "engine"}
  BY DEF TypeOK, AgentTypeOK, Equipment
<1>1. ASSUME TransportError, mode = "session", UNCHANGED <<now, everAccepted>>,
             creds' = creds \/ (everAccepted /\ creds' = TRUE)
      PROVE  Promise!Next
  <2>1. lease' = NoLease /\ mode' = "idle" /\ slot' = "empty" /\ detached' = detached
    BY <1>1 DEF TransportError
  <2>2. Equipment' \ Equipment \subseteq IF everAccepted THEN {"credential"} ELSE {}
    BY <1>1, <2>1 DEF Equipment
  <2> QED  BY <1>1, <2>1, <2>2, LossPromise
<1>2. ASSUME NEW r, NEW l, LoseAuthority(r, l), mode = "session", UNCHANGED <<now, everAccepted>>
      PROVE  Promise!Next
  BY <1>2, LossPromise DEF LoseAuthority
\* Only an accepted agent finds a lease or a credential in its queue.
<1>3. InstallLease \/ PushCredential => everAccepted
  <2> SUFFICES ASSUME InstallLease \/ PushCredential, Admission PROVE FALSE
    BY DEF AdmissionInv
  <2>1. mode = "session" /\ down[cur] # <<>> /\ Head(down[cur]).type \in {"lease", "credential"}
    BY DEF InstallLease, PushCredential, Receive
  <2>2. down[cur] \in Seq(PlainMsgs)  BY <2>1, ViewTypes DEF Admission
  <2>3. Head(down[cur]) \in PlainMsgs  BY <2>1, <2>2, QueueSteps
  <2> QED  BY <2>1, <2>3 DEF PlainMsgs
<1>4. ASSUME Connect PROVE [Promise!Next]_(Promise!vars)
  <2>1. /\ lease' = NoLease /\ mode = "idle" /\ mode' = "session"
        /\ UNCHANGED <<now, everAccepted, creds, slot, detached>>
    BY <1>4 DEF Connect
  <2>2. Equipment' = Equipment  BY <2>1 DEF Equipment
  <2> QED  BY <2>1, <2>2, LossPromise
<1>5. ASSUME InstallLease PROVE [Promise!Next]_(Promise!vars)
  <2> DEFINE l == Head(down[cur]).lease
  <2>1. mode = "session" /\ Applied(l, slot) /\ UNCHANGED <<now, everAccepted, creds>>
    BY <1>5 DEF InstallLease, Receive
  <2>2. CASE /\ lease' = l /\ ~Expired(l) /\ slot' = slot /\ UNCHANGED <<mode, detached>>
    <3>1. CASE l = NoLease
      <4>1. Equipment' = Equipment  BY <2>1, <2>2 DEF Equipment
      <4> QED  BY <2>1, <2>2, <3>1, <4>1, LossPromise
    <3>2. CASE l # NoLease
      <4>1. ~Expired(lease') /\ mode' = "session"  BY <2>1, <2>2
      <4> QED  BY <1>3, <1>5, <2>2, <3>2, <4>1, InstallPromise
    <3> QED  BY <3>1, <3>2
  <2> QED  BY <1>1, <1>2, <2>1, <2>2 DEF Applied
<1>6. ASSUME PushCredential PROVE [Promise!Next]_(Promise!vars)
  <2>1. /\ mode = "session" /\ Applied(lease, slot) /\ UNCHANGED <<now, everAccepted>>
        /\ creds' = TRUE /\ everAccepted
    BY <1>3, <1>6 DEF PushCredential, Receive
  <2>2. CASE lease' = lease /\ slot' = slot /\ UNCHANGED <<mode, detached>>
    <3>1. Equipment \subseteq Equipment' /\ Equipment' \in SUBSET {"credential", "engine"}
      BY <2>1, <2>2 DEF Equipment
    <3>2. Promise!Equip
      BY <2>1, <2>2, <3>1 DEF Promise!Equip, Promise!Tools, AgentNow, Until
    <3> QED  BY <3>2
  <2> QED  BY <1>1, <1>2, <2>1, <2>2 DEF Applied
<1>7. ASSUME SetDesiredStrategies PROVE [Promise!Next]_(Promise!vars)
  <2> DEFINE e == IF slot # "empty" THEN slot ELSE IF creds THEN "engine" ELSE "noop"
  <2>1. mode = "session" /\ Applied(lease, e) /\ UNCHANGED <<now, everAccepted, creds>>
    BY <1>7 DEF SetDesiredStrategies, Receive
  <2>2. CASE lease' = lease /\ slot' = e /\ UNCHANGED <<mode, detached>>
    <3>1. Equipment \subseteq Equipment' /\ Equipment' \in SUBSET {"credential", "engine"}
      BY <2>1, <2>2 DEF Equipment
    <3>2. CASE everAccepted
      <4>1. Promise!Equip
        BY <2>1, <2>2, <3>1, <3>2 DEF Promise!Equip, Promise!Tools, AgentNow, Until
      <4> QED  BY <4>1
    <3>3. CASE ~everAccepted
      <4>1. creds = FALSE /\ slot # "engine"  BY <3>3 DEF AdmissionInv, Admission
      <4>2. slot' # "engine"  BY <2>2, <4>1
      <4>3. Equipment' = Equipment  BY <2>1, <2>2, <4>1, <4>2 DEF Equipment
      <4> QED  BY <2>1, <2>2, <4>3 DEF Promise!vars, AgentNow, Until
    <3> QED  BY <3>2, <3>3
  <2> QED  BY <1>1, <1>2, <2>1, <2>2 DEF Applied
<1>8. ASSUME OnLeaseRevoke PROVE Promise!Next
  BY <1>2, <1>8 DEF OnLeaseRevoke, Receive
<1>9. ASSUME Timeout PROVE [Promise!Next]_(Promise!vars)
  <2>1. mode = "session" /\ UNCHANGED <<now, everAccepted, creds>>  BY <1>9 DEF Timeout
  <2>2. CASE UNCHANGED <<mode, lease, slot, detached>>  BY <2>1, <2>2, SamePromise
  <2> QED  BY <1>1, <1>2, <1>9, <2>1, <2>2 DEF Timeout
<1>10. ASSUME OnTransportClosed PROVE [Promise!Next]_(Promise!vars)
  <2>1. mode = "session" /\ UNCHANGED <<now, everAccepted, creds>>
    BY <1>10 DEF OnTransportClosed
  <2>2. CASE /\ mode' = "idle" /\ slot' = "empty" /\ lease' = lease
             /\ detached' = (detached \/ slot = "engine")
    <3>1. Equipment' = Equipment  BY <2>1, <2>2 DEF Equipment
    <3> QED  BY <2>1, <2>2, <3>1 DEF Promise!vars, AgentNow, Until
  <2> QED  BY <1>2, <1>10, <2>1, <2>2 DEF OnTransportClosed
<1>11. ASSUME Interrupt PROVE Promise!Next
  BY <1>11, LossPromise DEF Interrupt
<1>12. ASSUME EngineQuotes PROVE UNCHANGED Promise!vars
  BY <1>12, SamePromise DEF EngineQuotes
<1> QED
  BY <1>4, <1>5, <1>6, <1>7, <1>8, <1>9, <1>10, <1>11, <1>12 DEF AgentNext

\* ImplementsAuthority for every policy, skew and number of sessions, grants and
\* requests: every step of controller, wire and agent is a step of Authority or
\* none at all.
THEOREM LeaseRefines == Spec => ImplementsAuthority
<1>1. Init => Promise!Init
  <2> SUFFICES ASSUME Init PROVE Promise!Init  OBVIOUS
  <2>1. AgentNow = Skew  BY LeaseAssumption DEF Init, AgentNow
  <2>2. Until = 0 /\ Equipment = {}  BY DEF Init, Until, Equipment
  <2> QED  BY <2>1, <2>2 DEF Init, Promise!Init, Promise!NoLease
<1>2. TypeOK /\ Dated /\ Rising /\ AdmissionInv /\ [Next]_vars
      => [Promise!Next]_(Promise!vars)
  <2> SUFFICES ASSUME TypeOK, Dated, Rising, AdmissionInv, [Next]_vars
               PROVE  [Promise!Next]_(Promise!vars)
    OBVIOUS
  <2>1. ASSUME Tick PROVE Promise!Next
    <3>1. now \in Nat /\ AgentNow' = AgentNow + 1
      BY <2>1, LeaseAssumption DEF Tick, AgentNow, TypeOK, HistoryTypeOK
    <3>2. UNCHANGED <<everAccepted, mode, lease, creds, slot, detached>>
      BY <2>1 DEF Tick, agent_vars
    <3>3. Until' = Until /\ Equipment' = Equipment  BY <3>2 DEF Until, Equipment
    <3>4. Promise!Tick  BY <3>1, <3>2, <3>3 DEF Promise!Tick
    <3> QED  BY <3>4 DEF Promise!Next
  <2>2. ASSUME NEW s \in Sessions, SessionNext(s) PROVE UNCHANGED Promise!vars
    <3>1. UNCHANGED <<now, everAccepted, agent_vars>>
      BY <2>2 DEF SessionNext, OnRegister, FinishRegister, OnGranted, OnRevoked,
         OnRefreshRequest, PumpCommand, OnDisconnect, LinkBreak
    <3> QED  BY <3>1, SamePromise DEF agent_vars
  <2>3. ASSUME UNCHANGED vars PROVE UNCHANGED Promise!vars
    BY <2>3, SamePromise DEF vars, agent_vars
  <2> QED  BY <2>1, <2>2, <2>3, HttpPromise, AgentPromise DEF Next
<1> QED
  BY <1>1, <1>2, LeaseTypeCorrect, DatedHolds, RisingHolds, AdmissionHolds, PTL
     DEF Spec, ImplementsAuthority, Promise!Spec

-----------------------------------------------------------------------------
(* What a session knows, its agent is told.                                 *)

\* On a working connection the agent holds nothing before it is let in, and once its
\* session does not accept it, a revocation is on the wire or there is nothing to revoke,
\* neither held nor on the wire.
Notified ==
  mode = "session" /\ link[cur] =>
    /\ phase[cur] \in {"open", "entering"} => lease = NoLease /\ down[cur] = <<>>
    /\ phase[cur] = "live" /\ approval[cur] # "accepted" =>
         Has(down[cur], "revoke") \/ (lease = NoLease /\ ~Has(down[cur], "lease"))

\* A message that is no lease takes nothing away from it.
LEMMA PlainNotified ==
  ASSUME TypeOK, Notified, mode = "session", link[cur], phase[cur] = "live",
         NEW k \in {"revoke", "deploy"}, Push(cur, <<Msg(k, NoLease)>>),
         k = "revoke" \/ approval'[cur] = approval[cur],
         UNCHANGED <<mode, cur, lease, link>>, phase'[cur] = "live"
  PROVE  Notified'
<1>1. down'[cur] = down[cur] \o <<Msg(k, NoLease)>>  BY PushHere
<1>2. Msg(k, NoLease) \in AllMsgs /\ Msg(k, NoLease).type = k
  BY MsgTypes DEF Msg
<1>3. down[cur] \in Seq(AllMsgs)  BY ViewTypes
<1>4. \A q \in Seq(AllMsgs), m \in AllMsgs : \A t :
        Has(q \o <<m>>, t) <=> Has(q, t) \/ m.type = t
  BY HasSteps
<1>5. \A t : Has(down'[cur], t) <=> Has(down[cur], t) \/ k = t
  BY <1>1, <1>2, <1>3, <1>4
<1> QED  BY <1>5 DEF Notified

\* A send on a working connection does not end the session.
LEMMA SendsAndLives ==
  ASSUME TypeOK, mode = "session", link[cur], \E ok \in SendOk(cur) : Continue(cur, ok)
  PROVE  phase'[cur] = "live"
BY ViewTypes DEF SendOk, Continue

\* The agent's own session: admission, decisions, refreshes and commands.
LEMMA NotifiedOwn ==
  ASSUME TypeOK, Notified, mode = "session", link[cur], SessionNext(cur)
  PROVE  Notified'
<1>0. /\ cur \in Sessions /\ link \in [Sessions -> BOOLEAN]
      /\ approval \in [Sessions -> States]
      /\ phase \in [Sessions -> {"none", "open", "entering", "live", "ended"}]
  BY ViewTypes
<1>1. UNCHANGED <<mode, cur, lease>>
  BY DEF SessionNext, OnRegister, FinishRegister, OnGranted, OnRevoked,
     OnRefreshRequest, PumpCommand, OnDisconnect, LinkBreak, agent_vars
<1>2. ASSUME OnRegister(cur) PROVE Notified'
  <2>1. phase[cur] = "open" /\ phase'[cur] = "entering" /\ UNCHANGED <<link, down>>
    BY <1>0, <1>2 DEF OnRegister
  <2> QED  BY <1>1, <2>1 DEF Notified
<1>3. ASSUME FinishRegister(cur) PROVE Notified'
  <2>1. phase[cur] = "entering" /\ UNCHANGED <<approval, link>>  BY <1>3 DEF FinishRegister
  <2>2. lease = NoLease /\ down[cur] = <<>>  BY <2>1 DEF Notified
  <2>3. CASE approval[cur] = "accepted"
    <3>1. \E ok \in SendOk(cur) : Continue(cur, ok)
      BY <1>3, <2>3 DEF FinishRegister, IssueInitialLease
    <3>2. phase'[cur] = "live"  BY <3>1, SendsAndLives
    <3> QED  BY <1>1, <2>1, <2>3, <3>2 DEF Notified
  <2>4. CASE approval[cur] # "accepted"
    <3>1. phase'[cur] = "live" /\ down' = down  BY <1>0, <1>3, <2>4 DEF FinishRegister
    <3>2. ~Has(<<>>, "lease")  BY DEF Has
    <3> QED  BY <1>1, <2>1, <2>2, <3>1, <3>2 DEF Notified
  <2> QED  BY <2>3, <2>4
<1>4. ASSUME OnGranted(cur) PROVE Notified'
  <2>1. /\ phase[cur] = "live" /\ approval'[cur] = "accepted" /\ link' = link
        /\ phase' = phase \/ \E ok \in SendOk(cur) : Continue(cur, ok)
    BY <1>0, <1>4 DEF OnGranted, IssueInitialLease
  <2>2. phase'[cur] = "live"  BY <2>1, SendsAndLives
  <2> QED  BY <1>1, <2>1, <2>2 DEF Notified
<1>5. ASSUME OnRevoked(cur) PROVE Notified'
  <2>1. phase[cur] = "live" /\ approval'[cur] = "revoked" /\ link' = link
    BY <1>0, <1>5 DEF OnRevoked
  <2>2. CASE approval[cur] = "revoked"
    <3>1. UNCHANGED <<phase, down>>  BY <1>5, <2>2 DEF OnRevoked
    <3> QED  BY <1>1, <2>1, <2>2, <3>1 DEF Notified
  <2>3. CASE approval[cur] # "revoked"
    <3>1. Push(cur, <<Msg("revoke", NoLease)>>) /\ \E ok \in SendOk(cur) : Continue(cur, ok)
      BY <1>5, <2>3 DEF OnRevoked
    <3>2. phase'[cur] = "live"  BY <3>1, SendsAndLives
    <3> QED  BY <1>1, <2>1, <3>1, <3>2, PlainNotified
  <2> QED  BY <2>2, <2>3
<1>6. ASSUME OnRefreshRequest(cur) PROVE Notified'
  <2>1. phase[cur] = "live" /\ approval' = approval  BY <1>6 DEF OnRefreshRequest
  <2>2. CASE approval[cur] = "accepted"
    <3>1. link'[cur] = FALSE \/ phase' = phase \/ \E ok \in SendOk(cur) : Continue(cur, ok)
      BY <1>0, <1>6 DEF OnRefreshRequest
    <3>2. link'[cur] => phase'[cur] = "live"  BY <2>1, <3>1, SendsAndLives
    <3> QED  BY <1>1, <2>1, <2>2, <3>2 DEF Notified
  <2>3. CASE approval[cur] # "accepted"
    <3>1. /\ Push(cur, <<Msg("revoke", NoLease)>>) /\ link' = link
          /\ \E ok \in SendOk(cur) : Continue(cur, ok)
      BY <1>6, <2>3 DEF OnRefreshRequest, Refreshable
    <3>2. phase'[cur] = "live"  BY <3>1, SendsAndLives
    <3> QED  BY <1>1, <2>1, <3>1, <3>2, PlainNotified
  <2> QED  BY <2>2, <2>3
<1>7. ASSUME PumpCommand(cur) PROVE Notified'
  <2>1. /\ phase[cur] = "live" /\ approval' = approval /\ link' = link
        /\ Push(cur, <<Msg("deploy", NoLease)>>) /\ \E ok \in SendOk(cur) : Continue(cur, ok)
    BY <1>7 DEF PumpCommand
  <2>2. phase'[cur] = "live"  BY <2>1, SendsAndLives
  <2> QED  BY <1>1, <2>1, <2>2, PlainNotified
<1>8. ~OnDisconnect(cur)  BY DEF OnDisconnect
<1>9. ASSUME LinkBreak(cur) PROVE Notified'
  <2>1. link'[cur] = FALSE  BY <1>0, <1>9 DEF LinkBreak
  <2> QED  BY <1>1, <2>1 DEF Notified
<1> QED  BY <1>2, <1>3, <1>4, <1>5, <1>6, <1>7, <1>8, <1>9 DEF SessionNext

\* The agent takes what is on the wire, or starts over with nothing.
LEMMA NotifiedAgent ==
  ASSUME TypeOK, Unopened, Notified, AgentNext
  PROVE  Notified'
<1>1. ASSUME Connect PROVE Notified'
  <2>1. /\ cur' = cur + 1 /\ cur + 1 \in Sessions /\ cur + 1 > cur /\ lease' = NoLease
        /\ down' = down /\ phase' = [phase EXCEPT ![cur + 1] = "open"]
    BY <1>1, LeaseAssumption DEF Connect, TypeOK, AgentTypeOK, Sessions
  <2>2. down'[cur'] = <<>>  BY <2>1 DEF Unopened
  <2>3. phase'[cur'] = "open"  BY <2>1 DEF TypeOK, SessionTypeOK
  <2> QED  BY <2>1, <2>2, <2>3 DEF Notified
<1>2. ASSUME mode' # "session" PROVE Notified'  BY <1>2 DEF Notified
<1>3. ASSUME UNCHANGED <<mode, cur, lease, down, link, phase, approval>> PROVE Notified'
  BY <1>3 DEF Notified
<1>4. ASSUME NEW l, NEW e, mode = "session", down[cur] # <<>>, Applied(l, e),
             UNCHANGED <<cur, phase, approval>>,
             Head(down[cur]).type # "revoke",
             l = lease \/ Head(down[cur]).type = "lease"
      PROVE  Notified'
  <2>1. CASE lease' = l /\ down' = [down EXCEPT ![cur] = Tail(@)] /\ UNCHANGED <<mode, link>>
    <3>1. /\ cur \in Sessions /\ down \in [Sessions -> Seq(AllMsgs)]
          /\ down[cur] \in Seq(AllMsgs)
      BY <1>4, ViewTypes
    <3>2. down'[cur] = Tail(down[cur])  BY <2>1, <3>1
    <3>3. \A t : Has(down[cur], t) <=> Head(down[cur]).type = t \/ Has(down'[cur], t)
      BY <1>4, <3>1, <3>2, HasSteps
    <3> QED  BY <1>4, <2>1, <3>3 DEF Notified
  <2> QED  BY <1>2, <1>4, <2>1 DEF Applied, TransportError, LoseAuthority
<1>5. ASSUME InstallLease PROVE Notified'
  BY <1>4, <1>5 DEF InstallLease, Receive, session_vars
<1>6. ASSUME PushCredential \/ SetDesiredStrategies PROVE Notified'
  BY <1>4, <1>6 DEF PushCredential, SetDesiredStrategies, Receive, session_vars
<1>7. ASSUME OnLeaseRevoke \/ OnTransportClosed \/ Interrupt PROVE Notified'
  BY <1>2, <1>7 DEF OnLeaseRevoke, OnTransportClosed, Interrupt, LoseAuthority
<1>8. ASSUME Timeout \/ EngineQuotes PROVE Notified'
  BY <1>2, <1>3, <1>8 DEF Timeout, EngineQuotes, LoseAuthority, TransportError, wire_vars,
     session_vars
<1> QED  BY <1>1, <1>5, <1>6, <1>7, <1>8 DEF AgentNext

LEMMA NotifiedHolds == Spec => []Notified
<1>1. Init => Notified  BY DEF Init, Notified
<1>2. TypeOK /\ Unopened /\ Notified /\ [Next]_vars => Notified'
  <2> SUFFICES ASSUME TypeOK, Unopened, Notified, [Next]_vars PROVE Notified'  OBVIOUS
  <2>1. ASSUME HttpNext \/ Tick \/ UNCHANGED vars PROVE Notified'
    <3>1. UNCHANGED <<mode, cur, lease, down, link, phase, approval>>
      BY <2>1 DEF HttpNext, AcceptAgent, RejectAgent, RevokeAgent, Decide, PreApprove,
         DeleteApproval, SendLifecycle, PreValidateDeploy, SendDeploy, Tick, vars,
         wire_vars, agent_vars, session_vars
    <3> QED  BY <3>1 DEF Notified
  <2>2. ASSUME NEW s \in Sessions, SessionNext(s) PROVE Notified'
    <3>1. UNCHANGED <<mode, cur>>
      BY <2>2 DEF SessionNext, OnRegister, FinishRegister, OnGranted, OnRevoked,
         OnRefreshRequest, PumpCommand, OnDisconnect, LinkBreak, agent_vars
    <3>2. CASE mode # "session"  BY <3>1, <3>2 DEF Notified
    <3>3. CASE mode = "session" /\ s # cur
      <4>1. cur \in Sessions  BY <3>3, ViewTypes
      <4>2. UNCHANGED view  BY <2>2, <3>3, <4>1, OtherSession
      <4> QED  BY <4>2 DEF Notified, view
    <3>4. CASE mode = "session" /\ s = cur /\ link[cur]
      BY <2>2, <3>4, NotifiedOwn
    <3>5. CASE mode = "session" /\ s = cur /\ ~link[cur]
      <4>1. ~link'[cur]
        BY <2>2, <3>5, ViewTypes DEF SessionNext, OnRegister, FinishRegister, OnGranted,
           OnRevoked, OnRefreshRequest, PumpCommand, OnDisconnect, LinkBreak, wire_vars
      <4> QED  BY <3>1, <4>1 DEF Notified
    <3> QED  BY <3>2, <3>3, <3>4, <3>5
  <2> QED  BY <2>1, <2>2, NotifiedAgent DEF Next
<1> QED  BY <1>1, <1>2, RisingHolds, LeaseTypeCorrect, PTL DEF Spec

\* A decision that reached the session reaches the agent: with everything delivered, an
\* agent that holds authority is one its session accepts.  Of RevokedHoldsNoAuthority
\* this is the half that the session and the wire are responsible for.
AuthorityIsAccepted ==
  Settled /\ Authorised => approval[cur] = "accepted"

\* AuthorityIsAccepted holds for every policy, skew and number of sessions: the promise
\* of RevokedHoldsNoAuthority can only be broken between the store and the session,
\* where on_register looks at the store before it can be reached.
THEOREM DenialArrives == Spec => []AuthorityIsAccepted
<1>1. Notified => AuthorityIsAccepted
  BY DEF Notified, AuthorityIsAccepted, Settled, Authorised, Has
<1> QED  BY <1>1, NotifiedHolds, PTL

\* While an agent's connection works, its entry in the registry is lost only to an older
\* session of the same agent that is still running, whose registration or clean-up comes
\* late: the cause of every violation of RegistryReachesAgent.
EntryLostToOlder ==
  [][mode = "session" /\ link[cur] /\ registry = cur /\ registry' # cur =>
       \E s \in Sessions : s < cur /\ phase[s] \in {"entering", "live"} /\ phase'[s] # phase[s]]_vars

\* EntryLostToOlder, for any number of overlapping sessions (the clean-up of
\* run_until_disconnect is keyed by the agent, not by the session).
THEOREM OnlyOlderSessionsEvict == Spec => EntryLostToOlder
<1> DEFINE Evicts ==
      mode = "session" /\ link[cur] /\ registry = cur /\ registry' # cur =>
        \E s \in Sessions : s < cur /\ phase[s] \in {"entering", "live"} /\ phase'[s] # phase[s]
<1>1. ASSUME TypeOK, Unopened, [Next]_vars PROVE [Evicts]_vars
  <2> SUFFICES ASSUME mode = "session", link[cur], registry = cur, registry' # cur
               PROVE  \E s \in Sessions : /\ s < cur /\ phase[s] \in {"entering", "live"}
                                          /\ phase'[s] # phase[s]
    OBVIOUS
  <2>1. PICK s \in Sessions : FinishRegister(s) \/ OnDisconnect(s)
    <3>1. ~(HttpNext \/ Tick \/ UNCHANGED vars)
      BY DEF HttpNext, AcceptAgent, RejectAgent, RevokeAgent, Decide, PreApprove,
         DeleteApproval, SendLifecycle, PreValidateDeploy, SendDeploy, Tick, vars, http_vars
    <3>2. ~AgentNext
      BY DEF AgentNext, Connect, InstallLease, PushCredential, SetDesiredStrategies,
         OnLeaseRevoke, Timeout, OnTransportClosed, Interrupt, EngineQuotes, http_vars
    <3> QED
      BY <1>1, <3>1, <3>2 DEF Next, SessionNext, OnRegister, OnGranted, OnRevoked,
         OnRefreshRequest, PumpCommand, LinkBreak, http_vars
  <2>2. /\ cur \in Sessions /\ Sessions \subseteq Int
        /\ phase \in [Sessions -> {"none", "open", "entering", "live", "ended"}]
    BY <1>1, ViewTypes DEF Sessions
  <2>3. s # cur  BY <2>1 DEF FinishRegister, OnDisconnect
  <2>4. phase[s] # "none"  BY <2>1 DEF FinishRegister, OnDisconnect
  <2>5. s < cur  BY <1>1, <2>2, <2>3, <2>4 DEF Unopened
  <2>6. phase[s] \in {"entering", "live"} /\ phase'[s] # phase[s]
    BY <2>1, <2>2 DEF FinishRegister, OnDisconnect, IssueInitialLease, Continue
  <2> QED  BY <2>5, <2>6
<1>2. TypeOK /\ Unopened /\ [Next]_vars => [Evicts]_vars  BY <1>1
<1> QED  BY <1>2, RisingHolds, LeaseTypeCorrect, PTL DEF Spec, EntryLostToOlder

=============================================================================
