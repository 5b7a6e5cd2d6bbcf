-------------------------- MODULE PcpClient_proofs --------------------------
(***************************************************************************)
(* Type correctness of PcpClient, TransientIsServed, the invariants of     *)
(* server_machine and two_servers on pointers, timers and flows to be sent *)
(* (PInv), the life of a message buffer and the fall back to NAT-PMP, for  *)
(* any number of servers, requests, answers and faults.                    *)
(***************************************************************************)
EXTENDS PcpClient, PcpFlow_proofs

\* A server negotiates a version only with a next_version that the server's
\* message carried, and validate_pcp_msg lets no unknown version through.
NegotiatesVersion ==
    \A s \in Server : server[s].state = "version_negotiation" =>
                          server[s].next_version \in Version

\* An answer, or the record that stands for none.
Received == Answer \cup {NoAnswer}

-----------------------------------------------------------------------------
\* The fields of the records of the client.
LEMMA FlowParts ==
    ASSUME NEW f \in Flow
    PROVE  f[1] \in Request \cup Ann /\ f[2] \in Server /\ FlowOp(f) \in Op
BY SlotAssumption DEF Flow, FlowOp, Op

\* The fields of a server.
LEMMA ServerFields ==
    ASSUME NEW sv \in ServerRec
    PROVE  /\ sv.state \in ServerState /\ sv.next_timeout \in Timer
           /\ sv.pcp_version \in Version /\ sv.next_version \in Uint8
           /\ sv.epoch \in Epoch \cup {NoEpoch} /\ sv.ping_count \in 0 .. MaxPing
           /\ sv.ping_flow_msg \in Flow \cup {NoFlow}
           /\ sv.restart_flow_msg \in Flow \cup {NoFlow}
BY DEF ServerRec

\* The fields of an answer, and of the record that stands for none.
LEMMA ReceivedFields ==
    ASSUME NEW m \in Received
    PROVE  /\ m.result \in Result /\ m.lifetime \in 0 .. MaxLife
           /\ m.version \in Version /\ m.epoch \in Epoch \cup {NoEpoch}
           /\ m.key \in Flow \cup {NoFlow}
BY LifeAssumption DEF Received, Answer, NoAnswer, Result, Version

\* The context of a handler is a context.
LEMMA CtxType ==
    ASSUME NEW f \in Flow, NEW sv \in ServerRec, NEW o \in Outcome,
           NEW m, m.result \in Result, m.lifetime \in 0 .. MaxLife
    PROVE  Ctx(f, sv, m, o) \in Context
<1>1. FlowOp(f) \in Op
  BY FlowParts
<1>2. sv.pcp_version \in Version
  BY ServerFields
<1>3. o.faults \in SUBSET (1 .. MaxSends) /\ o.rand \in 0 .. RandMask
  BY EnvAssumption DEF Outcome
<1>4. [result |-> m.result, lifetime |-> m.lifetime] \in Msg
  BY DEF Msg
<1> QED
  BY <1>1, <1>2, <1>3, <1>4 DEF Ctx, Context

\* The record for "no answer" that the events of the library carry.
LEMMA NoMsgFields == NoMsg.result \in Result /\ NoMsg.lifetime \in 0 .. MaxLife
BY LifeAssumption DEF NoMsg, Result

\* handle_flow_event and handle_answer keep the type of a flow.
LEMMA EventType ==
    ASSUME NEW g \in FlowRec, NEW ev \in FirstEvent, NEW x \in Context
    PROVE  handle_flow_event(g, ev, x) \in FlowRec
<1>1. Sound(RunChain(g, ev, x, FALSE))
  BY RunChainResult
<1> QED
  BY <1>1, ChainFields DEF Sound, handle_flow_event

\* The loop keeps the type of a flow also when an answer starts it.
LEMMA AnswerType ==
    ASSUME NEW g \in FlowRec, NEW x \in Context
    PROVE  handle_answer(g, x) \in FlowRec
<1>1. x.msg.result \in FirstEvent
  BY ContextFields DEF FirstEvent
<1>2. Sound(RunChain(g, x.msg.result, x, TRUE))
  BY <1>1, RunChainResult
<1> QED
  BY <1>2, ChainFields DEF Sound, handle_answer

\* check_flow_timeout keeps the type of a flow.
LEMMA CheckType ==
    ASSUME NEW g \in FlowRec, NEW x \in Context
    PROVE  check_flow_timeout(g, x) \in FlowRec
<1>1. "flow_timedout" \in FirstEvent
  BY DEF FirstEvent
<1> QED
  BY <1>1, EventType DEF check_flow_timeout

\* flow_send_event_iter keeps the types of the flows.
LEMMA SendEventType ==
    ASSUME TypeOK, NEW s \in Server, NEW ev \in FirstEvent, NEW o \in [Flow -> Outcome]
    PROVE  SendEvent(s, ev, o) \in [Flow -> FlowRec]
<1>1. ASSUME NEW f \in Flow
      PROVE  LET x == Ctx(f, server[s], NoMsg, o[f])
             IN  check_flow_timeout(handle_flow_event(flow[f], ev, x), x) \in FlowRec
  <2>1. flow[f] \in FlowRec /\ server[s] \in ServerRec /\ o[f] \in Outcome
    BY DEF TypeOK
  <2>2. Ctx(f, server[s], NoMsg, o[f]) \in Context
    BY <2>1, NoMsgFields, CtxType
  <2> QED
    BY <2>1, <2>2, EventType, CheckType
<1> QED
  BY <1>1 DEF SendEvent, TypeOK

\* Processing an answer keeps the types of the flows, and finds a flow or none.
LEMMA ProcessType ==
    ASSUME TypeOK, NEW s \in Server, NEW m \in Received, NEW o \in Outcome
    PROVE  /\ server_process_rcvd_pcp_msg(s, m, o) \in [Flow -> FlowRec]
           /\ FlowOfAnswer(s, m) \in Flow \cup {NoFlow}
<1>1. server[s] \in ServerRec
  BY DEF TypeOK
<1>2. FlowOfAnswer(s, m) \in Flow \cup {NoFlow}
  BY <1>1, ServerFields DEF FlowOfAnswer, FlowsOf
<1>3. ASSUME NEW f \in Flow
      PROVE  handle_answer(flow[f], Ctx(f, server[s], m, o)) \in FlowRec
  BY <1>1, ReceivedFields, CtxType, AnswerType DEF TypeOK
<1> QED
  BY <1>2, <1>3 DEF server_process_rcvd_pcp_msg, TypeOK

-----------------------------------------------------------------------------
\* What every handler of server_sm does: it keeps the types and changes no other
\* server; a server that it leaves in a transient state is due, because the
\* handler has set the timer to now or has left a due timer alone.
Fits(s, sv) ==
    /\ sv \in ServerRec
    /\ sv.state = "version_negotiation" => sv.next_version \in Version
    /\ sv.state \in Transient =>
          \/ sv.next_timeout = 0
          \/ server[s].state \in Transient /\ sv.next_timeout = server[s].next_timeout

Served(s) == /\ flow' \in [Flow -> FlowRec]
             /\ \E sv : Fits(s, sv) /\ server' = [server EXCEPT ![s] = sv]

\* The states and the timers that the handlers assign.
LEMMA Constants0 ==
    /\ {"uninitialized", "allocated", "ping", "wait_ping_resp", "version_negotiation",
        "send_all_msgs", "wait_io", "wait_io_calc_nearest_timeout", "server_restart",
        "server_reping", "set_not_working", "not_working"} \subseteq ServerState
    /\ 0 \in Timer /\ NoTimer \in Timer /\ RetryDelay \in Timer
    /\ 0 \in 0 .. MaxPing
    /\ {"do_send", "flow_timedout", "server_initialized", "server_restarted",
        "do_fail"} \subseteq FirstEvent
BY EnvAssumption DEF ServerState, Timer, FirstEvent

\* All messages that waited for the server are sent.
LEMMA SendAllServed ==
    ASSUME TypeOK, NEW s \in Server, handle_send_all_msgs(s)
    PROVE  Served(s)
<1>1. flow' \in [Flow -> FlowRec]
  BY SendEventType, Constants0 DEF handle_send_all_msgs
<1> DEFINE sv == [server[s] EXCEPT !.next_timeout = 0,
                                   !.state = "wait_io_calc_nearest_timeout"]
<1>2. server' = [server EXCEPT ![s] = sv]
  BY DEF handle_send_all_msgs, Put
<1>3. Fits(s, sv)
  BY Constants0 DEF Fits, TypeOK, ServerRec
<1> QED
  BY <1>1, <1>2, <1>3 DEF Served

\* The flows of a server that has restarted are sent again.
LEMMA RestartServed ==
    ASSUME TypeOK, NEW s \in Server, handle_server_restart(s)
    PROVE  Served(s)
<1>1. flow' \in [Flow -> FlowRec]
  BY SendEventType, Constants0 DEF handle_server_restart
<1> DEFINE sv == [server[s] EXCEPT !.restart_flow_msg = NoFlow, !.next_timeout = 0,
                                   !.state = "wait_io_calc_nearest_timeout"]
<1>2. server' = [server EXCEPT ![s] = sv]
  BY DEF handle_server_restart, Put
<1>3. Fits(s, sv)
  BY Constants0 DEF Fits, TypeOK, ServerRec
<1> QED
  BY <1>1, <1>2, <1>3 DEF Served

\* A server is given up until the retry delay is over.
LEMMA SetNotWorkingServed ==
    ASSUME TypeOK, NEW s \in Server, handle_server_set_not_working(s)
    PROVE  Served(s)
<1>1. flow' \in [Flow -> FlowRec]
  BY SendEventType, Constants0 DEF handle_server_set_not_working
<1> DEFINE sv == [server[s] EXCEPT !.next_timeout = RetryDelay, !.state = "not_working"]
<1>2. server' = [server EXCEPT ![s] = sv]
  BY DEF handle_server_set_not_working, Put
<1>3. Fits(s, sv)
  BY Constants0 DEF Fits, TypeOK, ServerRec, Transient
<1> QED
  BY <1>1, <1>2, <1>3 DEF Served

\* A server that was given up is pinged again.
LEMMA RepingServed ==
    ASSUME TypeOK, NEW s \in Server, handle_server_reping(s)
    PROVE  Served(s)
<1>1. flow' \in [Flow -> FlowRec]
  BY DEF handle_server_reping, TypeOK
<1> DEFINE sv == [server[s] EXCEPT !.pcp_version = 2, !.next_timeout = 0, !.state = "ping"]
<1>2. server' = [server EXCEPT ![s] = sv]
  BY DEF handle_server_reping, Put
<1>3. 2 \in Version
  BY DEF Version
<1>4. Fits(s, sv)
  BY <1>3, Constants0 DEF Fits, TypeOK, ServerRec, Transient
<1> QED
  BY <1>1, <1>2, <1>4 DEF Served

\* A gateway without a source address ignores every event.
LEMMA IgnoreServed ==
    ASSUME TypeOK, NEW s \in Server, server[s].state = "allocated", ignore_events(s)
    PROVE  Served(s)
<1>1. flow' \in [Flow -> FlowRec]
  BY DEF ignore_events, TypeOK
<1> DEFINE sv == [server[s] EXCEPT !.next_timeout = NoTimer]
<1>2. server' = [server EXCEPT ![s] = sv]
  BY DEF ignore_events, Put
<1>3. Fits(s, sv)
  BY Constants0 DEF Fits, TypeOK, ServerRec, Transient
<1> QED
  BY <1>1, <1>2, <1>3 DEF Served

\* The sweep over the timers of all flows, and the timer that comes out of it.
LEMMA WaitIoTimeoutServed ==
    ASSUME TypeOK, NEW s \in Server, handle_wait_io_timeout(s)
    PROVE  Served(s)
<1> DEFINE fl(o) == [f \in Flow |->
                        IF Live(f)
                        THEN check_flow_timeout(flow[f],
                                 Ctx(f, server[ServerOf(f)], NoMsg, o[f]))
                        ELSE flow[f]]
<1>1. PICK o \in [Flow -> Outcome] :
         /\ flow' = fl(o)
         /\ \E d \in {0} \cup {fl(o)[f].timeout : f \in {g \in Flow : Armed(fl(o)[g])}} :
               Put(s, [server[s] EXCEPT !.next_timeout = IF d = 0 THEN NoTimer ELSE d,
                                        !.state = "wait_io"])
  BY DEF handle_wait_io_timeout
<1>2. fl(o) \in [Flow -> FlowRec]
  <2>1. ASSUME NEW f \in Flow
        PROVE  check_flow_timeout(flow[f], Ctx(f, server[ServerOf(f)], NoMsg, o[f]))
                  \in FlowRec
    <3>1. flow[f] \in FlowRec /\ server[ServerOf(f)] \in ServerRec /\ o[f] \in Outcome
      BY FlowParts DEF TypeOK, ServerOf
    <3>2. Ctx(f, server[ServerOf(f)], NoMsg, o[f]) \in Context
      BY <3>1, NoMsgFields, CtxType
    <3> QED
      BY <3>1, <3>2, CheckType
  <2> QED
    BY <2>1 DEF TypeOK
<1> HIDE DEF fl
<1>3. PICK d \in {0} \cup {fl(o)[f].timeout : f \in {g \in Flow : Armed(fl(o)[g])}} :
         server' = [server EXCEPT ![s] =
                      [server[s] EXCEPT !.next_timeout = IF d = 0 THEN NoTimer ELSE d,
                                        !.state = "wait_io"]]
  BY <1>1 DEF Put
<1> DEFINE t == IF d = 0 THEN NoTimer ELSE d
<1>4. t \in Timer
  <2>1. \A f \in Flow : fl(o)[f].timeout \in Timer
    BY <1>2, FlowFields
  <2> QED
    BY <2>1, Constants0
<1> DEFINE sv == [server[s] EXCEPT !.next_timeout = t, !.state = "wait_io"]
<1>5. server' = [server EXCEPT ![s] = sv]
  BY <1>3
<1> HIDE DEF t
<1>6. Fits(s, sv)
  BY <1>4, Constants0 DEF Fits, TypeOK, ServerRec, Transient
<1> QED
  BY <1>1, <1>2, <1>5, <1>6 DEF Served

\* The answer to a ping, or to a request of a server that is up.
LEMMA ReceiveServed ==
    ASSUME TypeOK, NEW s \in Server, NEW m \in Received,
           NEW after_io \in {"send_all_msgs", "wait_io_calc_nearest_timeout"},
           handle_wait_io_receive_msg(s, m, after_io)
    PROVE  Served(s)
<1>1. /\ m.version \in Version /\ m.version \in Uint8
      /\ m.epoch \in Epoch \cup {NoEpoch}
      /\ FlowOfAnswer(s, m) \in Flow \cup {NoFlow}
  <2>1. FlowOfAnswer(s, m) \in Flow \cup {NoFlow}
    BY ServerFields, ReceivedFields DEF FlowOfAnswer, FlowsOf, TypeOK
  <2>2. m.version \in Version /\ m.epoch \in Epoch \cup {NoEpoch}
    BY ReceivedFields
  <2>3. Version \subseteq Uint8
    BY DEF Version, Uint8
  <2> QED
    BY <2>1, <2>2, <2>3
<1>2. server[s] \in ServerRec
  BY DEF TypeOK
<1>3. flow' \in [Flow -> FlowRec]
  BY ProcessType DEF handle_wait_io_receive_msg, TypeOK
<1> DEFINE sv1 == [server[s] EXCEPT !.next_timeout = 0, !.next_version = m.version,
                                    !.state = "version_negotiation"]
           sv2 == [server[s] EXCEPT !.next_timeout = 0, !.state = "set_not_working"]
           sv3 == [server[s] EXCEPT !.epoch = m.epoch, !.next_timeout = 0,
                                    !.restart_flow_msg = FlowOfAnswer(s, m),
                                    !.state = "server_restart"]
           sv4 == [server[s] EXCEPT !.epoch = m.epoch, !.next_timeout = 0,
                                    !.state = after_io]
<1>4. \E sv \in {sv1, sv2, sv3, sv4} : server' = [server EXCEPT ![s] = sv]
  BY DEF handle_wait_io_receive_msg, Put
<1>5. Fits(s, sv1)
  BY <1>1, <1>2, Constants0 DEF Fits, ServerRec
<1>6. Fits(s, sv2)
  BY <1>2, Constants0 DEF Fits, ServerRec
<1>7. Fits(s, sv3)
  BY <1>1, <1>2, Constants0 DEF Fits, ServerRec
<1>8. Fits(s, sv4)
  BY <1>1, <1>2, Constants0 DEF Fits, ServerRec
<1> HIDE DEF sv1, sv2, sv3, sv4
<1> QED
  BY <1>3, <1>4, <1>5, <1>6, <1>7, <1>8 DEF Served

\* An answer of a server that was given up, and the end of its retry delay.
LEMMA NotWorkingServed ==
    ASSUME TypeOK, NEW s \in Server, NEW m \in Received,
           server[s].state = "not_working", handle_server_not_working(s, m)
    PROVE  Served(s)
<1>1. /\ m.epoch \in Epoch \cup {NoEpoch}
      /\ FlowOfAnswer(s, m) \in Flow \cup {NoFlow}
  BY ServerFields, ReceivedFields DEF FlowOfAnswer, FlowsOf, TypeOK
<1>2. server[s] \in ServerRec
  BY DEF TypeOK
<1>3. flow' \in [Flow -> FlowRec]
  BY ProcessType DEF handle_server_not_working, TypeOK
<1> DEFINE sv1 == server[s]
           sv2 == [server[s] EXCEPT !.epoch = m.epoch, !.next_timeout = 0,
                                    !.restart_flow_msg = FlowOfAnswer(s, m),
                                    !.state = "server_restart"]
           sv3 == [server[s] EXCEPT !.next_timeout = 0, !.state = "server_reping"]
<1>4. \E sv \in {sv1, sv2, sv3} : server' = [server EXCEPT ![s] = sv]
  BY DEF handle_server_not_working, Put, TypeOK
<1>5. Fits(s, sv1)
  BY <1>2 DEF Fits, Transient
<1>6. Fits(s, sv2)
  BY <1>1, <1>2, Constants0 DEF Fits, ServerRec
<1>7. Fits(s, sv3)
  BY <1>2, Constants0 DEF Fits, ServerRec
<1> HIDE DEF sv1, sv2, sv3
<1> QED
  BY <1>3, <1>4, <1>5, <1>6, <1>7 DEF Served

\* A ping that is not answered.
LEMMA PingTimeoutServed ==
    ASSUME TypeOK, NEW s \in Server, server[s].state = "wait_ping_resp",
           handle_wait_ping_resp_timeout(s)
    PROVE  Served(s)
<1> DEFINE n  == IF server[s].ping_count < MaxPing THEN server[s].ping_count + 1
                 ELSE MaxPing
           p  == server[s].ping_flow_msg
           sv == [server[s] EXCEPT !.ping_count = n]
<1>1. server[s] \in ServerRec /\ p \in Flow \cup {NoFlow} /\ n \in 0 .. MaxPing
  BY ServerFields, EnvAssumption DEF TypeOK
<1>2. sv = [server[s] EXCEPT !.ping_count = IF @ < MaxPing THEN @ + 1 ELSE MaxPing]
  OBVIOUS
<1> HIDE DEF n
<1>3. sv \in ServerRec /\ sv.state = "wait_ping_resp"
  BY <1>1 DEF ServerRec
<1>4. \/ UNCHANGED flow /\ Put(s, [sv EXCEPT !.next_timeout = 0,
                                              !.state = "set_not_working"])
      \/ UNCHANGED flow /\ Put(s, [sv EXCEPT !.next_timeout = 0, !.state = "ping"])
      \/ /\ p # NoFlow
         /\ \E o \in Outcome :
              LET g == handle_flow_event(flow[p], "flow_timedout", Ctx(p, sv, NoMsg, o))
              IN  /\ flow' = [flow EXCEPT ![p] = g]
                  /\ \/ Put(s, [sv EXCEPT !.next_timeout = 0,
                                          !.state = "set_not_working"])
                     \/ Put(s, [sv EXCEPT !.next_timeout = g.timeout])
  BY <1>2 DEF handle_wait_ping_resp_timeout
<1> HIDE DEF sv, p
<1>5. Fits(s, [sv EXCEPT !.next_timeout = 0, !.state = "set_not_working"])
  BY <1>3, Constants0 DEF Fits, ServerRec
<1>6. Fits(s, [sv EXCEPT !.next_timeout = 0, !.state = "ping"])
  BY <1>3, Constants0 DEF Fits, ServerRec, Transient
<1>7. ASSUME NEW t \in Timer
      PROVE  Fits(s, [sv EXCEPT !.next_timeout = t])
  BY <1>3 DEF Fits, ServerRec, Transient
<1>8. CASE UNCHANGED flow /\ \/ Put(s, [sv EXCEPT !.next_timeout = 0,
                                                  !.state = "set_not_working"])
                             \/ Put(s, [sv EXCEPT !.next_timeout = 0, !.state = "ping"])
  BY <1>5, <1>6, <1>8 DEF Served, Put, TypeOK
<1>9. ASSUME p # NoFlow, NEW o \in Outcome, NEW g,
             g = handle_flow_event(flow[p], "flow_timedout", Ctx(p, sv, NoMsg, o)),
             flow' = [flow EXCEPT ![p] = g],
             \/ Put(s, [sv EXCEPT !.next_timeout = 0, !.state = "set_not_working"])
             \/ Put(s, [sv EXCEPT !.next_timeout = g.timeout])
      PROVE  Served(s)
  <2>1. p \in Flow /\ flow[p] \in FlowRec
    BY <1>1, <1>9 DEF TypeOK
  <2>2. Ctx(p, sv, NoMsg, o) \in Context
    BY <2>1, <1>3, NoMsgFields, CtxType
  <2>3. g \in FlowRec /\ g.timeout \in Timer
    BY <2>1, <2>2, <1>9, EventType, FlowFields, Constants0
  <2>4. flow' \in [Flow -> FlowRec]
    BY <2>1, <2>3, <1>9 DEF TypeOK
  <2> QED
    BY <2>3, <2>4, <1>5, <1>7, <1>9 DEF Served, Put
<1> QED
  BY <1>4, <1>8, <1>9

\* A new flow and a free slot are flow records.
LEMMA NewFlowType == pcp_create_flow \in FlowRec /\ AbsentFlow \in FlowRec
BY RetxAssumption DEF pcp_create_flow, AbsentFlow, FlowRec, FlowState, Timer, Result, Version

\* The retransmission fields are reset before a ping.
LEMMA RetryReset ==
    ASSUME NEW g \in FlowRec
    PROVE  /\ [g EXCEPT !.retry_count = 0] \in FlowRec
           /\ [g EXCEPT !.retry_count = 0, !.resend_timeout = 0] \in FlowRec
<1>1. 0 \in 0 .. MRC /\ 0 \in Nat
  BY RetxAssumption
<1> QED
  BY <1>1 DEF FlowRec

\* The version that is tried next is one the library knows.
LEMMA NextVersionType ==
    ASSUME NEW v \in Version, NEW n \in Version
    PROVE  /\ NextVersion(v, n) \in Uint8
           /\ v # 0 => NextVersion(v, n) \in Version
BY DEF Version, Uint8, NextVersion

\* A version is negotiated: another one is tried, or the server is given up.
LEMMA NegotiationServed ==
    ASSUME TypeOK, NegotiatesVersion, NEW s \in Server,
           server[s].state = "version_negotiation", handle_version_negotiation(s)
    PROVE  Served(s)
<1> DEFINE v    == server[s].pcp_version
           next == NextVersion(v, server[s].next_version)
           sv   == [server[s] EXCEPT !.next_version = next]
           sw   == [sv EXCEPT !.pcp_version = next]
           Aside(f) == IF next = 0 /\ f = server[s].ping_flow_msg
                       THEN [flow[f] EXCEPT !.state = "wait_for_server_init",
                                            !.timeout = NoTimer]
                       ELSE flow[f]
           w(f)     == IF next = 0 THEN pcp_create_flow ELSE flow[f]
           g(f, o)  == handle_flow_event([w(f) EXCEPT !.retry_count = 0,
                                                      !.resend_timeout = 0],
                                         "do_send", Ctx(f, sw, NoMsg, o))
<1>1. /\ server[s] \in ServerRec /\ v \in Version
      /\ server[s].next_version \in Version
  BY ServerFields DEF TypeOK, NegotiatesVersion
<1>2. next \in Uint8 /\ (v # 0 => next \in Version)
  BY <1>1, NextVersionType
<1>3. \/ v = 0 /\ UNCHANGED flow /\ Put(s, [sv EXCEPT !.state = "set_not_working"])
      \/ /\ v # 0
         /\ \E f \in NegotiationPing(s, next), o \in Outcome :
              /\ flow' = [h \in Flow |-> IF h = f THEN g(f, o) ELSE Aside(h)]
              /\ \/ Put(s, [sw EXCEPT !.ping_flow_msg = f, !.state = "set_not_working"])
                 \/ Put(s, [sw EXCEPT !.ping_flow_msg = f,
                                      !.next_timeout = g(f, o).timeout,
                                      !.state = "wait_ping_resp"])
      \/ /\ v # 0 /\ UNCHANGED flow
         /\ Put(s, [sw EXCEPT !.next_timeout = NoTimer, !.state = "ping"])
  BY DEF handle_version_negotiation
<1>4. \A h \in Flow : Aside(h) \in FlowRec /\ w(h) \in FlowRec
  <2>1. "wait_for_server_init" \in FlowState
    BY DEF FlowState
  <2> QED
    BY <2>1, NewFlowType, Constants0 DEF TypeOK, FlowRec
<1>5. /\ sv \in ServerRec /\ sv.next_timeout = server[s].next_timeout
      /\ v # 0 => sw \in ServerRec /\ sw.next_timeout = server[s].next_timeout
  BY <1>1, <1>2 DEF ServerRec
<1>6. NegotiationPing(s, next) \subseteq Flow
  BY <1>1, ServerFields DEF NegotiationPing, FreeAnn, First, Pingable, FlowsOf, Flow
<1>7. ASSUME v # 0, NEW f \in Flow, NEW o \in Outcome
      PROVE  g(f, o) \in FlowRec
  <2>1. [w(f) EXCEPT !.retry_count = 0, !.resend_timeout = 0] \in FlowRec
    <3>1. w(f) \in FlowRec
      BY <1>4
    <3> HIDE DEF w
    <3> QED
      BY <3>1, RetryReset
  <2>2. Ctx(f, sw, NoMsg, o) \in Context
    BY <1>5, <1>7, NoMsgFields, CtxType
  <2> HIDE DEF w, sw
  <2> QED
    BY <2>1, <2>2, EventType, Constants0
<1>8. server[s].state \in Transient
  BY DEF Transient
<1> HIDE DEF next, sv, sw, Aside, g, w, v
<1>9. CASE v = 0 /\ UNCHANGED flow /\ Put(s, [sv EXCEPT !.state = "set_not_working"])
  <2>1. Fits(s, [sv EXCEPT !.state = "set_not_working"])
    BY <1>5, <1>8, Constants0 DEF Fits, ServerRec
  <2> QED
    BY <1>9, <2>1 DEF Served, Put, TypeOK
<1>10. ASSUME v # 0, NEW f \in NegotiationPing(s, next), NEW o \in Outcome,
              flow' = [h \in Flow |-> IF h = f THEN g(f, o) ELSE Aside(h)],
              \/ Put(s, [sw EXCEPT !.ping_flow_msg = f, !.state = "set_not_working"])
              \/ Put(s, [sw EXCEPT !.ping_flow_msg = f,
                                   !.next_timeout = g(f, o).timeout,
                                   !.state = "wait_ping_resp"])
       PROVE  Served(s)
  <2>1. f \in Flow /\ g(f, o) \in FlowRec /\ g(f, o).timeout \in Timer
    BY <1>6, <1>7, <1>10, FlowFields
  <2>2. flow' \in [Flow -> FlowRec]
    BY <1>4, <1>10, <2>1
  <2>3. Fits(s, [sw EXCEPT !.ping_flow_msg = f, !.state = "set_not_working"])
    BY <1>5, <1>8, <1>10, <2>1, Constants0 DEF Fits, ServerRec
  <2>4. Fits(s, [sw EXCEPT !.ping_flow_msg = f, !.next_timeout = g(f, o).timeout,
                           !.state = "wait_ping_resp"])
    BY <1>5, <1>10, <2>1, Constants0 DEF Fits, ServerRec, Transient
  <2> QED
    BY <1>10, <2>2, <2>3, <2>4 DEF Served, Put
<1>11. CASE v # 0 /\ UNCHANGED flow
            /\ Put(s, [sw EXCEPT !.next_timeout = NoTimer, !.state = "ping"])
  <2>1. Fits(s, [sw EXCEPT !.next_timeout = NoTimer, !.state = "ping"])
    BY <1>5, <1>11, Constants0 DEF Fits, ServerRec, Transient
  <2> QED
    BY <1>11, <2>1 DEF Served, Put, TypeOK
<1> QED
  BY <1>3, <1>9, <1>10, <1>11

\* A server is pinged with the first flow that can be sent, if there is one.
LEMMA PingServed ==
    ASSUME TypeOK, NEW s \in Server, server[s].state = "ping", handle_server_ping(s)
    PROVE  Served(s)
<1> DEFINE sv == [server[s] EXCEPT !.ping_count = 0]
           Ping(f, o) == handle_flow_event([flow[f] EXCEPT !.retry_count = 0],
                                           "do_send", Ctx(f, sv, NoMsg, o[f]))
           onway(o)   == {f \in Pingable(s) : Ping(f, o).state # "failed"}
<1>1. \E o \in [Flow -> Outcome] :
        \/ /\ flow' = [f \in Flow |-> IF f \in Pingable(s) THEN Ping(f, o) ELSE flow[f]]
           /\ Put(s, [sv EXCEPT !.ping_flow_msg = NoFlow, !.next_timeout = NoTimer])
        \/ \E p \in First(onway(o)) :
             /\ flow' = [f \in Flow |-> IF f \in Pingable(s) /\ Pos[f] <= Pos[p]
                                        THEN Ping(f, o) ELSE flow[f]]
             /\ Put(s, [sv EXCEPT !.ping_flow_msg = p,
                                  !.next_timeout = Ping(p, o).timeout,
                                  !.state = "wait_ping_resp"])
  BY DEF handle_server_ping
<1>2. sv \in ServerRec /\ sv.state = "ping"
  BY Constants0 DEF TypeOK, ServerRec
<1>3. ASSUME NEW o \in [Flow -> Outcome], NEW f \in Flow
      PROVE  Ping(f, o) \in FlowRec /\ Ping(f, o).timeout \in Timer
  <2>1. [flow[f] EXCEPT !.retry_count = 0] \in FlowRec
    <3>1. flow[f] \in FlowRec
      BY DEF TypeOK
    <3> QED
      BY <3>1, RetryReset
  <2>2. Ctx(f, sv, NoMsg, o[f]) \in Context
    BY <1>2, NoMsgFields, CtxType
  <2> HIDE DEF sv
  <2>3. Ping(f, o) \in FlowRec
    BY <2>1, <2>2, EventType, Constants0
  <2> QED
    BY <2>3, FlowFields
<1>4. \A o : First(onway(o)) \subseteq Flow
  BY DEF First, Pingable, FlowsOf
<1> HIDE DEF sv, Ping, onway
<1>5. ASSUME NEW o \in [Flow -> Outcome],
             flow' = [f \in Flow |-> IF f \in Pingable(s) THEN Ping(f, o) ELSE flow[f]],
             Put(s, [sv EXCEPT !.ping_flow_msg = NoFlow, !.next_timeout = NoTimer])
      PROVE  Served(s)
  <2>1. flow' \in [Flow -> FlowRec]
    BY <1>3, <1>5 DEF TypeOK
  <2>2. Fits(s, [sv EXCEPT !.ping_flow_msg = NoFlow, !.next_timeout = NoTimer])
    BY <1>2, Constants0 DEF Fits, ServerRec, Transient
  <2> QED
    BY <1>5, <2>1, <2>2 DEF Served, Put
<1>6. ASSUME NEW o \in [Flow -> Outcome], NEW p \in First(onway(o)),
             flow' = [f \in Flow |-> IF f \in Pingable(s) /\ Pos[f] <= Pos[p]
                                     THEN Ping(f, o) ELSE flow[f]],
             Put(s, [sv EXCEPT !.ping_flow_msg = p, !.next_timeout = Ping(p, o).timeout,
                               !.state = "wait_ping_resp"])
      PROVE  Served(s)
  <2>1. flow' \in [Flow -> FlowRec]
    BY <1>3, <1>6 DEF TypeOK
  <2>2. p \in Flow /\ Ping(p, o).timeout \in Timer
    BY <1>3, <1>4
  <2>3. Fits(s, [sv EXCEPT !.ping_flow_msg = p, !.next_timeout = Ping(p, o).timeout,
                           !.state = "wait_ping_resp"])
    BY <1>2, <2>2, Constants0 DEF Fits, ServerRec, Transient
  <2> QED
    BY <1>6, <2>1, <2>3 DEF Served, Put
<1> QED
  BY <1>1, <1>5, <1>6

\* All of server_sm.
LEMMA MachineServed ==
    ASSUME TypeOK, NegotiatesVersion, NEW s \in Server, NEW ev, NEW m \in Received,
           run_server_state_machine(s, ev, m)
    PROVE  Served(s)
BY PingServed, PingTimeoutServed, ReceiveServed, NegotiationServed, SendAllServed,
   WaitIoTimeoutServed, RestartServed, RepingServed, SetNotWorkingServed,
   NotWorkingServed, IgnoreServed
   DEF run_server_state_machine

-----------------------------------------------------------------------------
\* The inductive invariant.  TransientIsServed alone does not tell that the
\* version a server falls back to is known, so NegotiatesVersion carries it from
\* the answer to the handler.
IInv == TypeOK /\ NegotiatesVersion /\ TransientIsServed

\* The records of a context with nothing in it.
LEMMA InitTypes ==
    AbsentFlow \in FlowRec /\ UnusedServer \in ServerRec /\ Rest \in PulseRec
<1>1. 0 \in Version /\ 0 \in Uint8
  BY DEF Version, Uint8
<1>2. UnusedServer \in ServerRec
  BY <1>1, Constants0 DEF UnusedServer, ServerRec
<1>3. Rest \in PulseRec
  BY SlotAssumption DEF Rest, PulseRec, Server
<1> QED
  BY <1>2, <1>3, NewFlowType

\* In the initial state there is no server in use.
LEMMA InitIInv == Init => IInv
<1> SUFFICES ASSUME Init PROVE IInv
  OBVIOUS
<1>1. AbsentFlow \in FlowRec /\ UnusedServer \in ServerRec
  BY InitTypes
<1>2. Rest \in PulseRec
  BY InitTypes
<1>3. TypeOK
  BY <1>1, <1>2 DEF Init, TypeOK
<1>4. \A s \in Server : server[s].state = "uninitialized"
  BY DEF Init, UnusedServer
<1> QED
  BY <1>3, <1>4 DEF IInv, NegotiatesVersion, TransientIsServed, Transient

\* A step of server_sm inside a pulse that has just polled, or that goes on with
\* the same server.
LEMMA ServedStep ==
    ASSUME IInv, NEW s \in Server, Served(s),
           pulse' \in PulseRec, pulse'.at \in {"io", "scan"}, pulse'.s = s,
           CanPoll \/ pulse.s = s
    PROVE  IInv'
<1>1. PICK sv : Fits(s, sv) /\ server' = [server EXCEPT ![s] = sv]
  BY DEF Served
<1>2. sv \in ServerRec /\ server[s] \in ServerRec
  BY <1>1 DEF Fits, IInv, TypeOK
<1>3. TypeOK'
  BY <1>1, <1>2 DEF Served, IInv, TypeOK
<1>4. server'[s] = sv /\ \A t \in Server : t # s => server'[t] = server[t]
  BY <1>1 DEF IInv, TypeOK
<1>5. NegotiatesVersion'
  BY <1>1, <1>4 DEF Fits, IInv, NegotiatesVersion
<1>6. \A t \in Server : t # s => server[t].state \notin Transient
  BY DEF IInv, TransientIsServed, CanPoll
<1>7. server[s].state \in Transient => Expired(server[s].next_timeout)
  BY DEF IInv, TransientIsServed, Due
<1>8. sv.state \in Transient => Expired(sv.next_timeout) /\ sv.state # "uninitialized"
  BY <1>1, <1>7, NoTimerAssumption DEF Fits, Expired, Transient
<1>9. TransientIsServed'
  BY <1>4, <1>6, <1>8 DEF TransientIsServed, Due, InUse
<1> QED
  BY <1>3, <1>5, <1>9 DEF IInv

\* Between two calls, and before a poll, no server is in a transient state.
LEMMA QuietServers ==
    ASSUME IInv, CanPoll \/ ~Due(pulse.s)
    PROVE  \A s \in Server : server[s].state \notin Transient
BY DEF IInv, TransientIsServed, CanPoll

\* A step that leaves the servers quiet keeps the invariant, wherever it puts
\* the pulse.
LEMMA QuietStep ==
    ASSUME TypeOK', \A s \in Server : server'[s].state \notin Transient
    PROVE  IInv'
BY DEF IInv, NegotiatesVersion, TransientIsServed, Transient

\* Terminating leaves nothing behind.
LEMMA FreeIInv == Free => IInv'
<1> SUFFICES ASSUME Free PROVE IInv'
  OBVIOUS
<1>1. AbsentFlow \in FlowRec /\ UnusedServer \in ServerRec
  BY InitTypes
<1>2. Rest \in PulseRec
  BY InitTypes
<1>3. TypeOK'
  BY <1>1, <1>2 DEF Free, TypeOK
<1>4. \A s \in Server : server'[s].state = "uninitialized"
  BY DEF Free, UnusedServer
<1> QED
  BY <1>3, <1>4, QuietStep DEF Transient

-----------------------------------------------------------------------------
\* The steps of a pulse.
LEMMA PulseIInv == IInv /\ Pulse => IInv'
<1> SUFFICES ASSUME IInv, Pulse PROVE IInv'
  OBVIOUS
<1>1. ASSUME NEW s \in Server, NEW m \in Answers, pcp_pulse_recv(s, m)
      PROVE  IInv'
  <2>1. m \in Received
    BY AnswersAssumption DEF Received
  <2>2. Served(s)
    BY <1>1, <2>1, MachineServed DEF pcp_pulse_recv, IInv
  <2>3. pulse' \in PulseRec /\ pulse'.at = "io" /\ pulse'.s = s /\ CanPoll
    BY <1>1 DEF pcp_pulse_recv, IInv, TypeOK, PulseRec
  <2> QED
    BY <2>2, <2>3, ServedStep
<1>2. CASE pcp_pulse_no_msg
  <2>1. TypeOK'
    <3>1. 1 \in Server
      BY SlotAssumption DEF Server
    <3>2. pulse' \in PulseRec
      BY <1>2, <3>1 DEF pcp_pulse_no_msg, IInv, TypeOK, PulseRec
    <3> QED
      BY <1>2, <3>2 DEF pcp_pulse_no_msg, IInv, TypeOK
  <2> QED
    BY <1>2, <2>1, QuietServers, QuietStep DEF pcp_pulse_no_msg
<1>3. CASE hserver_iter
  <2>1. NoAnswer \in Received /\ pulse.s \in Server
    BY DEF Received, IInv, TypeOK, PulseRec
  <2>2. Served(pulse.s)
    BY <1>3, <2>1, MachineServed DEF hserver_iter, IInv
  <2>3. pulse' = pulse /\ pulse \in PulseRec /\ pulse.at \in {"io", "scan"}
    BY <1>3 DEF hserver_iter, IInv, TypeOK
  <2> QED
    BY <2>1, <2>2, <2>3, ServedStep
<1>4. CASE hserver_next
  <2>1. TypeOK'
    <3>1. Rest \in PulseRec /\ 1 \in Server
      BY SlotAssumption DEF Rest, PulseRec, Server
    <3>2. pulse.s < NServers => pulse.s + 1 \in Server
      BY SlotAssumption DEF IInv, TypeOK, PulseRec, Server
    <3>3. pulse' \in PulseRec
      BY <1>4, <3>1, <3>2 DEF hserver_next, IInv, TypeOK, PulseRec
    <3> QED
      BY <1>4, <3>3 DEF hserver_next, IInv, TypeOK
  <2> QED
    BY <1>4, <2>1, QuietServers, QuietStep DEF hserver_next
<1>5. CASE pcp_terminate_end
  BY <1>5, FreeIInv DEF pcp_terminate_end
<1> QED
  BY <1>1, <1>2, <1>3, <1>4, <1>5 DEF Pulse

-----------------------------------------------------------------------------
\* What the calls do to one flow and to one server keeps their types.
LEMMA UpdatedType ==
    ASSUME NEW g \in FlowRec
    PROVE  /\ pcp_flow_updated(g) \in FlowRec
           /\ pcp_close_flow_intern(g) \in FlowRec
           /\ \A life \in Nat : [pcp_flow_updated(g) EXCEPT !.lifetime = life] \in FlowRec
<1>1. {"send", "failed"} \subseteq FlowState /\ g.state \in FlowState
  BY FlowFields DEF FlowState
<1>2. pcp_flow_updated(g) \in FlowRec
  BY <1>1, Constants0 DEF pcp_flow_updated, FlowRec
<1>3. ASSUME NEW h \in FlowRec, NEW life \in Nat
      PROVE  [h EXCEPT !.lifetime = life] \in FlowRec
  BY DEF FlowRec
<1>4. [g EXCEPT !.state = "failed"] \in FlowRec
  BY <1>1 DEF FlowRec
<1> QED
  BY <1>2, <1>3, <1>4 DEF pcp_close_flow_intern

\* The flow that init_flow makes.
LEMMA NewRequestType ==
    ASSUME NEW life \in Nat, NEW st \in {"send", "wait_for_server_init"}
    PROVE  [pcp_create_flow EXCEPT !.lifetime = life, !.timeout = 0, !.state = st]
              \in FlowRec
<1>1. st \in FlowState
  BY DEF FlowState
<1> QED
  BY <1>1, NewFlowType, Constants0 DEF FlowRec

\* Setting the timer of a server, whatever state it is in.
LEMMA TimerSet ==
    ASSUME NEW sv \in ServerRec, NEW t \in Timer
    PROVE  /\ [sv EXCEPT !.next_timeout = t] \in ServerRec
           /\ [sv EXCEPT !.next_timeout = t].state = sv.state
           /\ [sv EXCEPT !.next_timeout = t].next_version = sv.next_version
           /\ [sv EXCEPT !.next_timeout = t].next_timeout = t
BY DEF ServerRec

\* Waking servers changes their timers only.
LEMMA WakeType ==
    ASSUME TypeOK, NEW fs, Wake(fs)
    PROVE  /\ server' \in [Server -> ServerRec]
           /\ \A s \in Server : server'[s].state = server[s].state
<1>1. \A s \in Server : /\ server[s] \in ServerRec
                        /\ [server[s] EXCEPT !.next_timeout = 0] \in ServerRec
                        /\ [server[s] EXCEPT !.next_timeout = 0].state = server[s].state
  BY TimerSet, Constants0 DEF TypeOK
<1> QED
  BY <1>1 DEF Wake

\* Closing flows keeps the types and the states of the servers.
LEMMA CloseAllType ==
    ASSUME TypeOK, NEW fs, CloseAll(fs)
    PROVE  /\ flow' \in [Flow -> FlowRec]
           /\ server' \in [Server -> ServerRec]
           /\ \A s \in Server : server'[s].state = server[s].state
<1>1. \A f \in Flow : flow[f] \in FlowRec /\ pcp_close_flow_intern(flow[f]) \in FlowRec
  BY UpdatedType DEF TypeOK
<1>2. flow' \in [Flow -> FlowRec]
  BY <1>1 DEF CloseAll
<1> QED
  BY <1>2, WakeType DEF CloseAll

\* The calls of the application: they are made between two pulses, when no
\* server is in a transient state, and put none into one.
LEMMA ApiIInv == IInv /\ API => IInv'
<1> SUFFICES ASSUME IInv, API PROVE IInv'
  OBVIOUS
<1> USE DEF Call
<1>1. TypeOK /\ (AtRest => \A s \in Server : server[s].state \notin Transient)
  BY QuietServers DEF IInv, AtRest, CanPoll
<1>2. ASSUME NEW gws, pcp_init(gws)
      PROVE  IInv'
  <2> DEFINE new(s) == [UnusedServer EXCEPT
                          !.state = IF gws[s] THEN "ping" ELSE "allocated",
                          !.pcp_version = 2]
  <2>1. 2 \in Version
    BY DEF Version
  <2>2. \A s : new(s) \in ServerRec /\ new(s).state \in {"ping", "allocated"}
    BY <2>1, InitTypes, Constants0 DEF ServerRec
  <2>3. server' = [s \in Server |-> IF s \in DOMAIN gws THEN new(s) ELSE UnusedServer]
    BY <1>2 DEF pcp_init
  <2> HIDE DEF new
  <2>4. TypeOK'
    <3>1. server' \in [Server -> ServerRec]
      BY <2>2, <2>3, InitTypes
    <3>2. flow' = flow /\ pulse' = pulse
      BY <1>2 DEF pcp_init
    <3> QED
      BY <1>1, <3>1, <3>2 DEF TypeOK
  <2>5. UnusedServer.state = "uninitialized"
    BY DEF UnusedServer
  <2> QED
    BY <2>2, <2>3, <2>4, <2>5, QuietStep DEF Transient
<1>3. ASSUME NEW s \in Server, NEW v \in AddVersions, NEW ok \in BOOLEAN,
             pcp_add_server(s, v, ok)
      PROVE  IInv'
  <2> DEFINE e  == IF InUse(s) THEN server[s].epoch ELSE NoEpoch
             sv == [server[s] EXCEPT !.epoch = e, !.pcp_version = v]
             sw == IF ok THEN [sv EXCEPT !.state = "ping", !.next_timeout = NoTimer]
                   ELSE [sv EXCEPT !.state = "uninitialized"]
  <2>1. server[s] \in ServerRec /\ e \in Epoch \cup {NoEpoch} /\ v \in Version
    BY <1>1, ServerFields, EnvAssumption DEF TypeOK
  <2>2. server' = [server EXCEPT ![s] = sw]
    BY <1>3 DEF pcp_add_server, Put
  <2> HIDE DEF e
  <2>3. sw \in ServerRec /\ sw.state \notin Transient
    BY <2>1, Constants0 DEF ServerRec, Transient
  <2> HIDE DEF sw
  <2>4. TypeOK'
    BY <1>1, <1>3, <2>2, <2>3 DEF TypeOK, pcp_add_server
  <2> QED
    BY <1>1, <1>3, <2>2, <2>3, <2>4, QuietStep DEF pcp_add_server, TypeOK
<1>4. ASSUME NEW r \in Request, NEW life \in Lifetimes, pcp_new_flow(r, life)
      PROVE  IInv'
  <2> DEFINE st(f)  == IF server[f[2]].state = "wait_io" THEN "send"
                       ELSE "wait_for_server_init"
             new(f) == [pcp_create_flow EXCEPT !.lifetime = life, !.timeout = 0,
                                               !.state = st(f)]
             due(s) == [server[s] EXCEPT !.next_timeout = 0]
  <2>1. life \in Nat
    BY EnvAssumption, LifeAssumption
  <2>2. \A f \in Flow : new(f) \in FlowRec
    BY <2>1, NewRequestType
  <2>3. \A s \in Server : due(s) \in ServerRec /\ due(s).state = server[s].state
    BY <1>1, TimerSet, Constants0 DEF TypeOK
  <2>4. /\ flow' = [f \in Flow |-> IF f[1] = r /\ Takes(f[2], r) THEN new(f) ELSE flow[f]]
        /\ server' = [s \in Server |-> IF Takes(s, r) THEN due(s) ELSE server[s]]
        /\ pulse' = pulse /\ AtRest
    BY <1>4 DEF pcp_new_flow
  <2> HIDE DEF new, due
  <2>5. TypeOK'
    BY <1>1, <2>2, <2>3, <2>4 DEF TypeOK
  <2> QED
    BY <1>1, <2>3, <2>4, <2>5, QuietStep
<1>5. ASSUME NEW r \in Request, NEW life \in Lifetimes, pcp_flow_set_lifetime(r, life)
      PROVE  IInv'
  <2>1. life \in Nat
    BY EnvAssumption, LifeAssumption
  <2>2. \A f \in Flow : [pcp_flow_updated(flow[f]) EXCEPT !.lifetime = life] \in FlowRec
    BY <1>1, <2>1, UpdatedType DEF TypeOK
  <2>3. flow' \in [Flow -> FlowRec]
    BY <1>1, <1>5, <2>2 DEF pcp_flow_set_lifetime, TypeOK
  <2> QED
    BY <1>1, <1>5, <2>3, WakeType, QuietStep DEF pcp_flow_set_lifetime, TypeOK
<1>6. ASSUME NEW r \in Request, pcp_flow_set_opt(r)
      PROVE  IInv'
  <2>1. \A f \in Flow : pcp_flow_updated(flow[f]) \in FlowRec
    BY <1>1, UpdatedType DEF TypeOK
  <2>2. flow' \in [Flow -> FlowRec]
    BY <1>1, <1>6, <2>1 DEF pcp_flow_set_opt, TypeOK
  <2> QED
    BY <1>1, <1>6, <2>2, WakeType, QuietStep DEF pcp_flow_set_opt, TypeOK
<1>7. ASSUME NEW r \in Request, pcp_close_flow(r)
      PROVE  IInv'
  <2>1. pulse' \in PulseRec
    BY <1>1, <1>7 DEF pcp_close_flow, TypeOK, PulseRec
  <2> QED
    BY <1>1, <1>7, <2>1, CloseAllType, QuietStep DEF pcp_close_flow, TypeOK
<1>8. ASSUME NEW r \in Request, pcp_delete_flow(r)
      PROVE  IInv'
  <2> DEFINE cut(s) == [server[s] EXCEPT !.ping_flow_msg = NoFlow]
  <2>1. \A s \in Server : cut(s) \in ServerRec /\ cut(s).state = server[s].state
    BY <1>1 DEF TypeOK, ServerRec
  <2>2. /\ flow' = [f \in Flow |-> IF f \in ChainOf(r) THEN AbsentFlow ELSE flow[f]]
        /\ server' = [s \in Server |->
                        IF InUse(s) /\ server[s].ping_flow_msg \in ChainOf(r)
                        THEN cut(s) ELSE server[s]]
        /\ pulse' = pulse /\ AtRest
    BY <1>8 DEF pcp_delete_flow
  <2> HIDE DEF cut
  <2>3. TypeOK'
    BY <1>1, <2>1, <2>2, InitTypes DEF TypeOK
  <2> QED
    BY <1>1, <2>1, <2>2, <2>3, QuietStep
<1>9. ASSUME NEW close_flows \in BOOLEAN, pcp_terminate(close_flows)
      PROVE  IInv'
  <2>1. CASE close_flows
    <3>1. /\ CloseAll({f \in Flow : Live(f)})
          /\ pulse' = [pulse EXCEPT !.at = "poll", !.then = "terminate"] /\ AtRest
      BY <1>9, <2>1 DEF pcp_terminate
    <3>2. pulse' \in PulseRec
      BY <1>1, <3>1 DEF TypeOK, PulseRec
    <3> QED
      BY <1>1, <3>1, <3>2, CloseAllType, QuietStep DEF TypeOK
  <2>2. CASE ~close_flows
    BY <1>9, <2>2, FreeIInv DEF pcp_terminate
  <2> QED
    BY <2>1, <2>2
<1> QED
  BY <1>2, <1>3, <1>4, <1>5, <1>6, <1>7, <1>8, <1>9 DEF API

-----------------------------------------------------------------------------
\* The clock: a timer that is due stays due.
LEMMA TickIInv == IInv /\ Tick => IInv'
<1> SUFFICES ASSUME IInv, Tick PROVE IInv'
  OBVIOUS
<1>1. \A t \in Timer : AgeTimer(t) \in Timer /\ (Expired(t) => Expired(AgeTimer(t)))
  BY NoTimerAssumption DEF Timer, AgeTimer, Expired
<1>2. \A n \in Int : AgeLife(n) \in Int
  BY DEF AgeLife
<1>3. ASSUME NEW f \in Flow
      PROVE  [flow[f] EXCEPT !.timeout = AgeTimer(@), !.recv_lifetime = AgeLife(@)]
                \in FlowRec
  <2>1. /\ flow[f] \in FlowRec /\ AgeTimer(flow[f].timeout) \in Timer
        /\ AgeLife(flow[f].recv_lifetime) \in Int
    BY <1>1, <1>2, FlowFields DEF IInv, TypeOK
  <2> QED
    BY <2>1 DEF FlowRec
<1> DEFINE aged(s) == [server[s] EXCEPT !.next_timeout = AgeTimer(server[s].next_timeout)]
<1>4. \A s \in Server : /\ aged(s) \in ServerRec
                        /\ aged(s).state = server[s].state
                        /\ aged(s).next_version = server[s].next_version
                        /\ aged(s).next_timeout = AgeTimer(server[s].next_timeout)
                        /\ server[s].next_timeout \in Timer
  BY <1>1, ServerFields, TimerSet DEF IInv, TypeOK
<1>5. server' = [s \in Server |-> aged(s)] /\ pulse' = pulse
  BY DEF Tick
<1> HIDE DEF aged
<1>6. flow' \in [Flow -> FlowRec]
  BY <1>3 DEF Tick
<1>7. TypeOK'
  BY <1>4, <1>5, <1>6 DEF IInv, TypeOK
<1>8. NegotiatesVersion'
  BY <1>4, <1>5 DEF IInv, NegotiatesVersion
<1>9. TransientIsServed'
  BY <1>1, <1>4, <1>5 DEF IInv, TransientIsServed, Due, InUse
<1> QED
  BY <1>7, <1>8, <1>9 DEF IInv

\* Every step of the library, and of the clock, keeps the invariant.
LEMMA NextIInv == IInv /\ [Next]_vars => IInv'
<1> SUFFICES ASSUME IInv, [Next]_vars PROVE IInv'
  OBVIOUS
<1>1. CASE UNCHANGED vars
  BY <1>1 DEF vars, IInv, TypeOK, NegotiatesVersion, TransientIsServed, Due, InUse
<1> QED
  BY <1>1, PulseIInv, ApiIInv, TickIInv DEF Next

\* The fields of every flow and of every server keep to their types, and the
\* version a server is asked with is always one of 0, 1 and 2, although
\* next_version is a uint8_t that is decremented without a check.
THEOREM TypeCorrect == Spec => []TypeOK
<1>1. IInv => TypeOK
  BY DEF IInv
<1> QED
  BY <1>1, InitIInv, NextIInv, PTL DEF Spec

\* No server is ever left behind in a state of server_sm that only leads on to
\* another: pcp_pulse serves it until it waits for something.
THEOREM NoServerLeftBehind == Spec => []TransientIsServed
<1>1. IInv => TransientIsServed
  BY DEF IInv
<1> QED
  BY <1>1, InitIInv, NextIInv, PTL DEF Spec
-----------------------------------------------------------------------------
(* The pointers of a server to flows, and the flows that are to be sent.    *)
(* The pointers are live because no handler frees a flow and a call that    *)
(* frees one runs between two pulses, when restart_flow_msg is NULL.  A     *)
(* handler leaves every flow alone, or in a state that handle_flow_event    *)
(* ends in, so that only a call leaves a flow in pfs_send; and a server     *)
(* comes back to wait_io only through a sweep that sends all of these.      *)
(* The flow a server is pinged with is moved by another server only in its  *)
(* sweep, and by that only as a ping is: it is sent again, or fails.        *)

PInv == /\ NoFlowMidway /\ RestartMarkIsLive /\ PingFlowIsLive /\ UpdateIsScheduled
        /\ PingFlowWaits /\ WaitingServerHasTimer

\* The states whose handlers do not read ping_flow_msg.
Unpinged == {"uninitialized", "allocated", "ping"}

\* What every handler does to the flows and to its own server.
Moves == \A f \in Flow : flow'[f] = flow[f] \/ flow'[f].state \in Settling

NoneToSend == \A f \in Flow : flow'[f].state # "send"

\* A flow as PingFlowWaits wants it, and what becomes of such flows of others.
Ringing(g) == g.state \in {"wait_resp", "send", "failed"}

Apart(s) == \A f \in Flow :
    ServerOf(f) # s /\ server[ServerOf(f)].state = "wait_ping_resp" /\ Ringing(flow[f])
        => Ringing(flow'[f])

Held(s, sv) ==
    /\ sv.restart_flow_msg # NoFlow => /\ sv.state = "server_restart"
                                       /\ sv.restart_flow_msg \in FlowsOf(s)'
    /\ sv.state \in Unpinged \/ sv.ping_flow_msg \in FlowsOf(s)' \cup {NoFlow}
    /\ sv.state = "wait_io" => NoneToSend
    /\ sv.state \in {"wait_ping_resp", "not_working"} => sv.next_timeout # NoTimer
    /\ sv.state = "wait_ping_resp" /\ sv.ping_flow_msg # NoFlow
          => Ringing(flow'[sv.ping_flow_msg])

Steered(s) == /\ Moves
              /\ Apart(s)
              /\ \E sv : Held(s, sv) /\ server' = [server EXCEPT ![s] = sv]

\* An event leaves a flow alone or in a state it can stay in; fev_do_send always
\* moves it, and so does the time-out of a flow that is to be sent.
LEMMA EventMoves ==
    ASSUME NEW g \in FlowRec, NEW ev \in FirstEvent, NEW x \in Context
    PROVE  LET h == handle_flow_event(g, ev, x)
           IN  /\ h = g \/ h.state \in Settling
               /\ ev = "do_send" => h.state \in Settling
               /\ ev = "flow_timedout" /\ g.state = "send" => h.state \in Settling
<1> DEFINE r == RunChain(g, ev, x, FALSE)
<1>1. Sound(r) /\ ((r.f = g /\ NextState(g.state, ev) = "absent") \/ Landed(r, x))
  BY RunChainResult
<1>2. handle_flow_event(g, ev, x) = r.f
  BY DEF handle_flow_event
<1>3. /\ NextState(g.state, "do_send") # "absent"
      /\ NextState("send", "flow_timedout") # "absent"
  BY DEF NextState
<1> HIDE DEF r
<1> QED
  BY <1>1, <1>2, <1>3 DEF Sound, Landed

\* A ping, and its time-out, leave a flow waiting with a timer, or failed.
LEMMA EventRings ==
    ASSUME NEW g \in FlowRec, NEW x \in Context, ~x.mark
    PROVE  /\ LET h == handle_flow_event(g, "do_send", x)
              IN  Ringing(h) /\ (h.state # "failed" => h.timeout \in Nat)
           /\ Ringing(g) =>
                 LET h == handle_flow_event(g, "flow_timedout", x)
                 IN  Ringing(h) /\ (h.state # "failed" => h.timeout \in Nat)
<1>1. /\ NextState(g.state, "do_send") = "send"
      /\ NextState("send", "flow_timedout") = "send"
      /\ NextState("wait_resp", "flow_timedout") = "send"
      /\ NextState("failed", "flow_timedout") = "absent"
  BY DEF NextState, ShortLifeError, LongLifeError
<1>2. {"do_send", "flow_timedout"} \subseteq FirstEvent
  BY DEF FirstEvent
<1>3. ASSUME NEW ev \in FirstEvent, NextState(g.state, ev) = "send"
      PROVE  LET h == handle_flow_event(g, ev, x)
             IN  Ringing(h) /\ (h.state # "failed" => h.timeout \in Nat)
  BY <1>3, SendEnds DEF handle_flow_event, Ringing
<1>4. ASSUME g.state = "failed"
      PROVE  handle_flow_event(g, "flow_timedout", x) = g
  BY <1>1, <1>2, <1>4, NoRowStays DEF handle_flow_event
<1> QED
  BY <1>1, <1>2, <1>3, <1>4 DEF Ringing

\* An answer leaves a flow alone or in a state it can stay in.
LEMMA AnswerMoves ==
    ASSUME NEW g \in FlowRec, NEW x \in Context
    PROVE  handle_answer(g, x) = g \/ handle_answer(g, x).state \in Settling
<1> DEFINE r == RunChain(g, x.msg.result, x, TRUE)
<1>1. x.msg.result \in FirstEvent
  BY ContextFields DEF FirstEvent
<1>2. Sound(r) /\ (r.f = g \/ Landed(r, x))
  BY <1>1, RunChainResult
<1>3. handle_answer(g, x) = r.f
  BY DEF handle_answer
<1> HIDE DEF r
<1> QED
  BY <1>2, <1>3 DEF Sound, Landed

\* And check_flow_timeout.
LEMMA CheckMoves ==
    ASSUME NEW g \in FlowRec, NEW x \in Context
    PROVE  LET h == check_flow_timeout(g, x)
           IN  /\ h = g \/ h.state \in Settling
               /\ g.state = "send" /\ Expired(g.timeout) => h.state \in Settling
<1>1. "flow_timedout" \in FirstEvent
  BY DEF FirstEvent
<1> QED
  BY <1>1, EventMoves DEF check_flow_timeout

\* flow_send_event_iter moves the flows it goes through.
LEMMA SendEventMoves ==
    ASSUME TypeOK, NEW s \in Server, NEW ev \in FirstEvent, NEW o \in [Flow -> Outcome],
           flow' = SendEvent(s, ev, o)
    PROVE  Moves /\ Apart(s)
<1>1. ASSUME NEW f \in Flow
      PROVE  LET x == Ctx(f, server[s], NoMsg, o[f])
                 h == check_flow_timeout(handle_flow_event(flow[f], ev, x), x)
             IN  h = flow[f] \/ h.state \in Settling
  <2>1. flow[f] \in FlowRec /\ server[s] \in ServerRec /\ o[f] \in Outcome
    BY DEF TypeOK
  <2>2. PICK x \in Context : x = Ctx(f, server[s], NoMsg, o[f])
    BY <2>1, NoMsgFields, CtxType
  <2>3. PICK g \in FlowRec : /\ g = handle_flow_event(flow[f], ev, x)
                             /\ g = flow[f] \/ g.state \in Settling
    BY <2>1, EventType, EventMoves
  <2>4. check_flow_timeout(g, x) = g \/ check_flow_timeout(g, x).state \in Settling
    BY CheckMoves
  <2> QED
    BY <2>2, <2>3, <2>4
<1> QED
  BY <1>1 DEF Moves, Apart, SendEvent, FlowsOf

\* Processing an answer moves the flow it belongs to.
LEMMA ProcessMoves ==
    ASSUME TypeOK, NEW s \in Server, NEW m \in Received, NEW o \in Outcome,
           flow' = server_process_rcvd_pcp_msg(s, m, o)
    PROVE  Moves
<1>1. FlowOfAnswer(s, m) \in Flow \cup {NoFlow}
  BY ProcessType
<1>2. ASSUME NEW f \in Flow
      PROVE  LET h == handle_answer(flow[f], Ctx(f, server[s], m, o))
             IN  h = flow[f] \/ h.state \in Settling
  <2>1. flow[f] \in FlowRec /\ server[s] \in ServerRec
    BY DEF TypeOK
  <2> QED
    BY <2>1, ReceivedFields, CtxType, AnswerMoves
<1> QED
  BY <1>1, <1>2 DEF server_process_rcvd_pcp_msg, Moves, TypeOK

\* A flow that only moves stays live.
LEMMA MovesKeepLive ==
    ASSUME Moves, NEW s \in Server
    PROVE  FlowsOf(s) \subseteq FlowsOf(s)'
BY DEF Moves, FlowsOf, Live, Settling

\* A handler that leaves ping_flow_msg alone, and no restart_flow_msg behind.
LEMMA PlainSteered ==
    ASSUME PInv, NEW s \in Server, Moves,
           NEW sv, server' = [server EXCEPT ![s] = sv],
           sv.ping_flow_msg = server[s].ping_flow_msg,
           sv.restart_flow_msg = NoFlow,
           sv.state \in Unpinged \/ server[s].state \notin Unpinged,
           sv.state = "wait_io" => NoneToSend,
           Apart(s), sv.state # "wait_ping_resp",
           sv.state = "not_working" => sv.next_timeout # NoTimer
    PROVE  Steered(s)
<1>1. FlowsOf(s) \subseteq FlowsOf(s)'
  BY MovesKeepLive
<1>2. Held(s, sv)
  BY <1>1 DEF Held, PInv, PingFlowIsLive, Unpinged
<1> QED
  BY <1>2 DEF Steered

\* Outside handle_server_restart there is no restart_flow_msg.
LEMMA NoMark ==
    ASSUME PInv, NEW s \in Server, server[s].state # "server_restart"
    PROVE  server[s].restart_flow_msg = NoFlow
BY DEF PInv, RestartMarkIsLive

\* The handlers that leave ping_flow_msg alone.
LEMMA SendingSteered ==
    ASSUME TypeOK, PInv, NEW s \in Server,
           \/ server[s].state = "send_all_msgs" /\ handle_send_all_msgs(s)
           \/ server[s].state = "server_restart" /\ handle_server_restart(s)
           \/ server[s].state = "set_not_working" /\ handle_server_set_not_working(s)
    PROVE  Steered(s)
<1>1. Moves /\ Apart(s)
  BY SendEventMoves, Constants0
     DEF handle_send_all_msgs, handle_server_restart, handle_server_set_not_working
<1>2. server[s] \in ServerRec /\ server[s].state \notin Unpinged
  BY DEF TypeOK, Unpinged
<1> DEFINE sv1 == [server[s] EXCEPT !.next_timeout = 0,
                                    !.state = "wait_io_calc_nearest_timeout"]
           sv2 == [server[s] EXCEPT !.restart_flow_msg = NoFlow, !.next_timeout = 0,
                                    !.state = "wait_io_calc_nearest_timeout"]
           sv3 == [server[s] EXCEPT !.next_timeout = RetryDelay, !.state = "not_working"]
<1>3. \E sv \in {sv1, sv2, sv3} :
         /\ server' = [server EXCEPT ![s] = sv]
         /\ sv # sv2 => server[s].restart_flow_msg = NoFlow
  BY NoMark DEF handle_send_all_msgs, handle_server_restart,
                handle_server_set_not_working, Put
<1>4. \A sv \in {sv1, sv2, sv3} :
         /\ sv.ping_flow_msg = server[s].ping_flow_msg
         /\ sv # sv2 => sv.restart_flow_msg = server[s].restart_flow_msg
         /\ sv.state # "wait_io" /\ sv.state # "wait_ping_resp"
         /\ sv.state = "not_working" => sv.next_timeout = RetryDelay
  BY <1>2 DEF ServerRec
<1>5. sv2.restart_flow_msg = NoFlow /\ RetryDelay # NoTimer
  BY <1>2, EnvAssumption, NoTimerAssumption DEF ServerRec
<1> HIDE DEF sv1, sv2, sv3
<1> QED
  BY <1>1, <1>2, <1>3, <1>4, <1>5, PlainSteered

\* The handlers that do not touch the flows at all.
LEMMA IdleSteered ==
    ASSUME TypeOK, PInv, NEW s \in Server,
           \/ server[s].state = "server_reping" /\ handle_server_reping(s)
           \/ server[s].state = "allocated" /\ ignore_events(s)
    PROVE  Steered(s)
<1>1. Moves /\ Apart(s)
  BY DEF handle_server_reping, ignore_events, Moves, Apart
<1>2. server[s] \in ServerRec /\ server[s].restart_flow_msg = NoFlow
  BY NoMark DEF TypeOK
<1> DEFINE sv1 == [server[s] EXCEPT !.pcp_version = 2, !.next_timeout = 0,
                                    !.state = "ping"]
           sv2 == [server[s] EXCEPT !.next_timeout = NoTimer]
<1>3. \/ server' = [server EXCEPT ![s] = sv1]
      \/ server[s].state = "allocated" /\ server' = [server EXCEPT ![s] = sv2]
  BY DEF handle_server_reping, ignore_events, Put
<1>4. /\ sv1.ping_flow_msg = server[s].ping_flow_msg /\ sv1.restart_flow_msg = NoFlow
      /\ sv1.state \in Unpinged
      /\ sv2.ping_flow_msg = server[s].ping_flow_msg /\ sv2.restart_flow_msg = NoFlow
      /\ sv2.state = server[s].state
      /\ "allocated" \in Unpinged
      /\ {"wait_io", "wait_ping_resp", "not_working"} \cap Unpinged = {}
  BY <1>2 DEF ServerRec, Unpinged
<1> HIDE DEF sv1, sv2
<1> QED
  BY <1>1, <1>3, <1>4, PlainSteered

\* The sweep over the timers of the flows of all servers.
LEMMA WaitIoTimeoutSteered ==
    ASSUME TypeOK, PInv, NEW s \in Server,
           server[s].state \in {"wait_io", "wait_io_calc_nearest_timeout"},
           handle_wait_io_timeout(s)
    PROVE  Steered(s)
<1> DEFINE swept(f, o) == check_flow_timeout(flow[f],
                              Ctx(f, server[ServerOf(f)], NoMsg, o[f]))
<1>1. PICK o \in [Flow -> Outcome] :
         /\ flow' = [f \in Flow |-> IF Live(f) THEN swept(f, o) ELSE flow[f]]
         /\ \E t : Put(s, [server[s] EXCEPT !.next_timeout = t, !.state = "wait_io"])
  BY DEF handle_wait_io_timeout
<1>2. Moves /\ NoneToSend /\ Apart(s)
  <2>1. ASSUME NEW f \in Flow
        PROVE  /\ swept(f, o) = flow[f] \/ swept(f, o).state \in Settling
               /\ flow[f].state = "send" => swept(f, o).state \in Settling
               /\ server[ServerOf(f)].state = "wait_ping_resp" /\ Ringing(flow[f])
                     => Ringing(swept(f, o))
    <3>1. flow[f] \in FlowRec /\ server[ServerOf(f)] \in ServerRec /\ o[f] \in Outcome
      BY FlowParts DEF TypeOK, ServerOf
    <3>2. Ctx(f, server[ServerOf(f)], NoMsg, o[f]) \in Context
      BY <3>1, NoMsgFields, CtxType
    <3>3. flow[f].state = "send" => Expired(flow[f].timeout)
      BY DEF PInv, UpdateIsScheduled
    <3>4. server[ServerOf(f)].state = "wait_ping_resp" =>
             ~Ctx(f, server[ServerOf(f)], NoMsg, o[f]).mark
      BY FlowParts, NoMark, SlotAssumption DEF Ctx, ServerOf
    <3>5. ASSUME server[ServerOf(f)].state = "wait_ping_resp", Ringing(flow[f])
          PROVE  Ringing(swept(f, o))
      BY <3>1, <3>2, <3>4, <3>5, EventRings DEF check_flow_timeout
    <3> QED
      BY <3>1, <3>2, <3>3, <3>5, CheckMoves
  <2> HIDE DEF swept
  <2> QED
    BY <1>1, <2>1 DEF Moves, NoneToSend, Apart, Live, Settling
<1>3. PICK t : server' = [server EXCEPT ![s] =
                            [server[s] EXCEPT !.next_timeout = t, !.state = "wait_io"]]
  BY <1>1 DEF Put
<1> DEFINE sv == [server[s] EXCEPT !.next_timeout = t, !.state = "wait_io"]
<1>4. server[s] \in ServerRec /\ server[s].restart_flow_msg = NoFlow
  BY NoMark DEF TypeOK
<1>5. /\ sv.ping_flow_msg = server[s].ping_flow_msg /\ sv.restart_flow_msg = NoFlow
      /\ sv.state = "wait_io"
  BY <1>4 DEF ServerRec
<1>6. server' = [server EXCEPT ![s] = sv] /\ server[s].state \notin Unpinged
  BY <1>3 DEF Unpinged
<1> HIDE DEF sv
<1> QED
  BY <1>2, <1>5, <1>6, PlainSteered

\* The flow of an answer is one of the server's that exists.
LEMMA AnswerOfLive ==
    ASSUME PInv, NEW s \in Server, NEW m, server[s].state \notin Unpinged
    PROVE  FlowOfAnswer(s, m) \in FlowsOf(s) \cup {NoFlow}
BY DEF FlowOfAnswer, PInv, PingFlowIsLive, Unpinged

\* An answer marks its flow when it reveals a restart.
LEMMA ReceiveSteered ==
    ASSUME TypeOK, PInv, NEW s \in Server, NEW m \in Received,
           NEW after_io \in {"send_all_msgs", "wait_io_calc_nearest_timeout"},
           server[s].state \in {"wait_ping_resp", "wait_io"},
           handle_wait_io_receive_msg(s, m, after_io)
    PROVE  Steered(s)
<1>1. Moves
  <2>1. UNCHANGED flow \/ \E o \in Outcome : flow' = server_process_rcvd_pcp_msg(s, m, o)
    BY DEF handle_wait_io_receive_msg
  <2> QED
    BY <2>1, ProcessMoves DEF Moves
<1>2. /\ server[s] \in ServerRec /\ server[s].restart_flow_msg = NoFlow
      /\ server[s].state \notin Unpinged
  BY NoMark DEF TypeOK, Unpinged
<1>2a. Apart(s)
  <2>1. UNCHANGED flow \/ \E o \in Outcome : flow' = server_process_rcvd_pcp_msg(s, m, o)
    BY DEF handle_wait_io_receive_msg
  <2>2. FlowOfAnswer(s, m) \in FlowsOf(s) \cup {NoFlow}
    BY <1>2, AnswerOfLive
  <2> QED
    BY <2>1, <2>2 DEF server_process_rcvd_pcp_msg, Apart, FlowsOf, TypeOK
<1>3. /\ FlowOfAnswer(s, m) \in FlowsOf(s)' \cup {NoFlow}
      /\ server[s].ping_flow_msg \in FlowsOf(s)' \cup {NoFlow}
  BY <1>1, <1>2, AnswerOfLive, MovesKeepLive DEF PInv, PingFlowIsLive, Unpinged
<1> DEFINE sv1 == [server[s] EXCEPT !.next_timeout = 0, !.next_version = m.version,
                                    !.state = "version_negotiation"]
           sv2 == [server[s] EXCEPT !.next_timeout = 0, !.state = "set_not_working"]
           sv3 == [server[s] EXCEPT !.epoch = m.epoch, !.next_timeout = 0,
                                    !.restart_flow_msg = FlowOfAnswer(s, m),
                                    !.state = "server_restart"]
           sv4 == [server[s] EXCEPT !.epoch = m.epoch, !.next_timeout = 0,
                                    !.state = after_io]
<1>4. \E sv \in {sv1, sv2, sv3, sv4} : server' = [server EXCEPT ![s] = sv]
  BY DEF handle_wait_io_receive_msg, Put
<1>5. Held(s, sv1) /\ Held(s, sv2) /\ Held(s, sv4)
  BY <1>2, <1>3 DEF Held, ServerRec
<1>6. Held(s, sv3)
  BY <1>2, <1>3 DEF Held, ServerRec
<1> HIDE DEF sv1, sv2, sv3, sv4
<1> QED
  BY <1>1, <1>2a, <1>4, <1>5, <1>6 DEF Steered

\* So does one that a server gives after it was given up.
LEMMA NotWorkingSteered ==
    ASSUME TypeOK, PInv, NEW s \in Server, NEW m \in Received,
           server[s].state = "not_working", handle_server_not_working(s, m)
    PROVE  Steered(s)
<1>1. Moves
  <2>1. UNCHANGED flow \/ \E o \in Outcome : flow' = server_process_rcvd_pcp_msg(s, m, o)
    BY DEF handle_server_not_working
  <2> QED
    BY <2>1, ProcessMoves DEF Moves
<1>2. /\ server[s] \in ServerRec /\ server[s].restart_flow_msg = NoFlow
      /\ server[s].state \notin Unpinged
  BY NoMark DEF TypeOK, Unpinged
<1>2a. Apart(s)
  <2>1. UNCHANGED flow \/ \E o \in Outcome : flow' = server_process_rcvd_pcp_msg(s, m, o)
    BY DEF handle_server_not_working
  <2>2. FlowOfAnswer(s, m) \in FlowsOf(s) \cup {NoFlow}
    BY <1>2, AnswerOfLive
  <2> QED
    BY <2>1, <2>2 DEF server_process_rcvd_pcp_msg, Apart, FlowsOf, TypeOK
<1>3. /\ FlowOfAnswer(s, m) \in FlowsOf(s)' \cup {NoFlow}
      /\ server[s].ping_flow_msg \in FlowsOf(s)' \cup {NoFlow}
  BY <1>1, <1>2, AnswerOfLive, MovesKeepLive DEF PInv, PingFlowIsLive, Unpinged
<1> DEFINE sv1 == server[s]
           sv2 == [server[s] EXCEPT !.epoch = m.epoch, !.next_timeout = 0,
                                    !.restart_flow_msg = FlowOfAnswer(s, m),
                                    !.state = "server_restart"]
           sv3 == [server[s] EXCEPT !.next_timeout = 0, !.state = "server_reping"]
<1>4. \E sv \in {sv1, sv2, sv3} : server' = [server EXCEPT ![s] = sv]
  BY DEF handle_server_not_working, Put, TypeOK
<1>5. Held(s, sv2) /\ Held(s, sv3)
  BY <1>2, <1>3 DEF Held, ServerRec
<1>6. Held(s, sv1)
  BY <1>2, <1>3 DEF Held, PInv, WaitingServerHasTimer
<1> HIDE DEF sv1, sv2, sv3
<1> QED
  BY <1>1, <1>2a, <1>4, <1>5, <1>6 DEF Steered

\* A ping that is not answered is sent again, or given up.
LEMMA PingTimeoutSteered ==
    ASSUME TypeOK, PInv, NEW s \in Server, server[s].state = "wait_ping_resp",
           handle_wait_ping_resp_timeout(s)
    PROVE  Steered(s)
<1> DEFINE n  == IF server[s].ping_count < MaxPing THEN server[s].ping_count + 1
                 ELSE MaxPing
           p  == server[s].ping_flow_msg
           sv == [server[s] EXCEPT !.ping_count = n]
           g(o) == handle_flow_event(flow[p], "flow_timedout", Ctx(p, sv, NoMsg, o))
           Off(st) == [sv EXCEPT !.next_timeout = 0, !.state = st]
<1>1. /\ server[s] \in ServerRec /\ server[s].restart_flow_msg = NoFlow
      /\ server[s].state \notin Unpinged
      /\ n \in 0 .. MaxPing /\ p \in FlowsOf(s) \cup {NoFlow}
      /\ p # NoFlow => Ringing(flow[p])
  <2>1. server[s] \in ServerRec /\ server[s].restart_flow_msg = NoFlow
    BY NoMark DEF TypeOK
  <2>2. n \in 0 .. MaxPing
    <3>1. server[s].ping_count \in 0 .. MaxPing /\ MaxPing \in Nat
      BY <2>1, ServerFields, EnvAssumption
    <3> QED
      BY <3>1
  <2>3. p \in FlowsOf(s) \cup {NoFlow} /\ (p # NoFlow => Ringing(flow[p]))
    BY DEF PInv, PingFlowIsLive, PingFlowWaits, Ringing
  <2> QED
    BY <2>1, <2>2, <2>3 DEF Unpinged
<1>2. sv = [server[s] EXCEPT !.ping_count = IF @ < MaxPing THEN @ + 1 ELSE MaxPing]
  OBVIOUS
<1>3. \/ UNCHANGED flow /\ \E st \in {"set_not_working", "ping"} : Put(s, Off(st))
      \/ /\ p # NoFlow
         /\ \E o \in Outcome :
              /\ flow' = [flow EXCEPT ![p] = g(o)]
              /\ \/ Put(s, Off("set_not_working"))
                 \/ /\ g(o).state # "failed"
                    /\ Put(s, [sv EXCEPT !.next_timeout = g(o).timeout])
  BY <1>2 DEF handle_wait_ping_resp_timeout
<1> HIDE DEF n
<1>4. /\ sv \in ServerRec /\ sv.state = "wait_ping_resp"
      /\ sv.ping_flow_msg = p /\ sv.restart_flow_msg = NoFlow
  BY <1>1 DEF ServerRec
<1> HIDE DEF sv
<1>5. \A st : /\ Off(st).ping_flow_msg = p /\ Off(st).restart_flow_msg = NoFlow
              /\ Off(st).state = st
  BY <1>4 DEF ServerRec
<1>6. ASSUME p # NoFlow, NEW o \in Outcome
      PROVE  /\ p \in Flow /\ ServerOf(p) = s /\ Ringing(g(o))
             /\ g(o) = flow[p] \/ g(o).state \in Settling
             /\ g(o).state # "failed" => g(o).timeout # NoTimer
  <2>1. p \in Flow /\ ServerOf(p) = s /\ flow[p] \in FlowRec /\ Ringing(flow[p])
    BY <1>1, <1>6 DEF FlowsOf, TypeOK
  <2>2. Ctx(p, sv, NoMsg, o) \in Context
    BY <1>4, <2>1, NoMsgFields, CtxType
  <2>3. ~Ctx(p, sv, NoMsg, o).mark
    BY <1>4, <1>6 DEF Ctx
  <2>4. NoTimer \notin Nat
    BY NoTimerAssumption
  <2> HIDE DEF p
  <2> QED
    BY <2>1, <2>2, <2>3, <2>4, EventRings, EventMoves, Constants0
<1> HIDE DEF g, Off
<1>7. ASSUME NEW st \in {"set_not_working", "ping"}, Put(s, Off(st)), Moves, Apart(s)
      PROVE  Steered(s)
  BY <1>1, <1>5, <1>7, PlainSteered DEF Put, p
<1>8. CASE UNCHANGED flow /\ \E st \in {"set_not_working", "ping"} : Put(s, Off(st))
  BY <1>7, <1>8 DEF Moves, Apart
<1>9. ASSUME p # NoFlow, NEW o \in Outcome, flow' = [flow EXCEPT ![p] = g(o)],
             \/ Put(s, Off("set_not_working"))
             \/ /\ g(o).state # "failed"
                /\ Put(s, [sv EXCEPT !.next_timeout = g(o).timeout])
      PROVE  Steered(s)
  <2>1. /\ p \in Flow /\ ServerOf(p) = s /\ Ringing(g(o))
        /\ g(o) = flow[p] \/ g(o).state \in Settling
        /\ g(o).state # "failed" => g(o).timeout # NoTimer
    BY <1>6, <1>9
  <2>2. flow'[p] = g(o) /\ \A f \in Flow : f # p => flow'[f] = flow[f]
    BY <1>9, <2>1 DEF TypeOK
  <2> HIDE DEF p
  <2>3. Moves /\ Apart(s)
    BY <2>1, <2>2 DEF Moves, Apart
  <2>4. CASE Put(s, Off("set_not_working"))
    BY <1>7, <2>3, <2>4
  <2>5. CASE g(o).state # "failed" /\ Put(s, [sv EXCEPT !.next_timeout = g(o).timeout])
    <3>1. p \in FlowsOf(s)'
      BY <2>1, <2>2 DEF FlowsOf, Live, Ringing
    <3>2. Held(s, [sv EXCEPT !.next_timeout = g(o).timeout])
      BY <1>4, <2>1, <2>2, <2>5, <3>1 DEF Held, ServerRec
    <3> QED
      BY <2>3, <2>5, <3>2 DEF Steered, Put
  <2> QED
    BY <1>9, <2>4, <2>5
<1> QED
  BY <1>3, <1>8, <1>9

\* A new version is tried with a flow that exists, or that is made for it.
LEMMA NegotiationSteered ==
    ASSUME TypeOK, NegotiatesVersion, PInv, NEW s \in Server,
           server[s].state = "version_negotiation", handle_version_negotiation(s)
    PROVE  Steered(s)
<1> DEFINE v    == server[s].pcp_version
           next == NextVersion(v, server[s].next_version)
           sv   == [server[s] EXCEPT !.next_version = next]
           sw   == [sv EXCEPT !.pcp_version = next]
           Aside(f) == IF next = 0 /\ f = server[s].ping_flow_msg
                       THEN [flow[f] EXCEPT !.state = "wait_for_server_init",
                                            !.timeout = NoTimer]
                       ELSE flow[f]
           w(f)     == IF next = 0 THEN pcp_create_flow ELSE flow[f]
           g(f, o)  == handle_flow_event([w(f) EXCEPT !.retry_count = 0,
                                                      !.resend_timeout = 0],
                                         "do_send", Ctx(f, sw, NoMsg, o))
<1>1. /\ server[s] \in ServerRec /\ v \in Version
      /\ server[s].next_version \in Version /\ server[s].restart_flow_msg = NoFlow
      /\ server[s].ping_flow_msg \in FlowsOf(s) \cup {NoFlow}
      /\ server[s].state \notin Unpinged
  BY ServerFields, NoMark DEF TypeOK, NegotiatesVersion, PInv, PingFlowIsLive, Unpinged
<1>2. next \in Uint8 /\ (v # 0 => next \in Version)
  BY <1>1, NextVersionType
<1>3. \/ UNCHANGED flow /\ Put(s, [sv EXCEPT !.state = "set_not_working"])
      \/ /\ v # 0
         /\ \E f \in NegotiationPing(s, next), o \in Outcome :
              /\ flow' = [h \in Flow |-> IF h = f THEN g(f, o) ELSE Aside(h)]
              /\ \/ Put(s, [sw EXCEPT !.ping_flow_msg = f, !.state = "set_not_working"])
                 \/ /\ g(f, o).state # "failed"
                    /\ Put(s, [sw EXCEPT !.ping_flow_msg = f,
                                         !.next_timeout = g(f, o).timeout,
                                         !.state = "wait_ping_resp"])
      \/ /\ UNCHANGED flow
         /\ Put(s, [sw EXCEPT !.next_timeout = NoTimer, !.state = "ping"])
  BY DEF handle_version_negotiation
<1>4. /\ sv \in ServerRec /\ sv.restart_flow_msg = NoFlow
      /\ sv.ping_flow_msg = server[s].ping_flow_msg
      /\ sw.restart_flow_msg = NoFlow /\ sw.ping_flow_msg = server[s].ping_flow_msg
      /\ DOMAIN sw = DOMAIN server[s]
      /\ v # 0 => sw \in ServerRec
  BY <1>1, <1>2 DEF ServerRec
<1>5. \A f \in NegotiationPing(s, next) : f \in Flow /\ ServerOf(f) = s
  BY <1>1 DEF NegotiationPing, FreeAnn, First, Pingable, FlowsOf, Flow, ServerOf
<1>6. ASSUME v # 0, NEW f \in Flow, NEW o \in Outcome
      PROVE  /\ g(f, o).state \in Settling /\ Ringing(g(f, o))
             /\ g(f, o).state # "failed" => g(f, o).timeout # NoTimer
  <2>1. w(f) \in FlowRec
    BY NewFlowType DEF TypeOK
  <2> HIDE DEF w
  <2>2. [w(f) EXCEPT !.retry_count = 0, !.resend_timeout = 0] \in FlowRec
    BY <2>1, RetryReset
  <2>3. Ctx(f, sw, NoMsg, o) \in Context
    BY <1>4, <1>6, NoMsgFields, CtxType
  <2>4. ~Ctx(f, sw, NoMsg, o).mark /\ NoTimer \notin Nat
    <3>1. f # NoFlow
      BY SlotAssumption
    <3>2. NoTimer \notin Nat
      BY NoTimerAssumption
    <3> HIDE DEF sw
    <3> QED
      BY <1>4, <1>6, <3>1, <3>2 DEF Ctx
  <2> HIDE DEF sw
  <2> QED
    BY <2>2, <2>3, <2>4, EventMoves, EventRings, Constants0
<1>7. \A h \in Flow : /\ Aside(h) = flow[h] \/ Aside(h).state \in Settling
                      /\ ServerOf(h) # s => Aside(h) = flow[h]
  <2>1. ASSUME NEW h \in Flow
        PROVE  [flow[h] EXCEPT !.state = "wait_for_server_init", !.timeout = NoTimer].state
                  \in Settling
    BY DEF TypeOK, FlowRec, Settling
  <2>2. \A h \in Flow : h = server[s].ping_flow_msg => ServerOf(h) = s
    BY <1>1, SlotAssumption DEF FlowsOf
  <2> QED
    BY <2>1, <2>2
<1> HIDE DEF next, sv, sw, Aside, g, w, v
<1>8. CASE UNCHANGED flow /\ Put(s, [sv EXCEPT !.state = "set_not_working"])
  <2>1. Moves /\ Apart(s)
    BY <1>8 DEF Moves, Apart
  <2>2. /\ [sv EXCEPT !.state = "set_not_working"].ping_flow_msg = server[s].ping_flow_msg
        /\ [sv EXCEPT !.state = "set_not_working"].restart_flow_msg = NoFlow
        /\ [sv EXCEPT !.state = "set_not_working"].state = "set_not_working"
    BY <1>4 DEF ServerRec
  <2> QED
    BY <1>1, <1>8, <2>1, <2>2, PlainSteered DEF Put
<1>9. ASSUME v # 0, NEW f \in NegotiationPing(s, next), NEW o \in Outcome,
             flow' = [h \in Flow |-> IF h = f THEN g(f, o) ELSE Aside(h)],
             \/ Put(s, [sw EXCEPT !.ping_flow_msg = f, !.state = "set_not_working"])
             \/ /\ g(f, o).state # "failed"
                /\ Put(s, [sw EXCEPT !.ping_flow_msg = f,
                                     !.next_timeout = g(f, o).timeout,
                                     !.state = "wait_ping_resp"])
      PROVE  Steered(s)
  <2>1. /\ f \in Flow /\ ServerOf(f) = s /\ g(f, o).state \in Settling
        /\ Ringing(g(f, o))
        /\ g(f, o).state # "failed" => g(f, o).timeout # NoTimer
    BY <1>5, <1>6, <1>9
  <2>2. Moves /\ Apart(s)
    BY <1>7, <1>9, <2>1 DEF Moves, Apart
  <2>3. f \in FlowsOf(s)'
    BY <1>9, <2>1 DEF FlowsOf, Live, Settling
  <2>4. sw \in ServerRec /\ sw.restart_flow_msg = NoFlow
    BY <1>4, <1>9
  <2>5. Held(s, [sw EXCEPT !.ping_flow_msg = f, !.state = "set_not_working"])
    BY <2>3, <2>4 DEF Held, ServerRec
  <2>6. ASSUME g(f, o).state # "failed"
        PROVE  Held(s, [sw EXCEPT !.ping_flow_msg = f, !.next_timeout = g(f, o).timeout,
                                  !.state = "wait_ping_resp"])
    BY <1>9, <2>1, <2>3, <2>4, <2>6 DEF Held, ServerRec
  <2> QED
    BY <1>9, <2>2, <2>5, <2>6 DEF Steered, Put
<1>10. CASE /\ UNCHANGED flow
            /\ Put(s, [sw EXCEPT !.next_timeout = NoTimer, !.state = "ping"])
  <2> DEFINE sx == [sw EXCEPT !.next_timeout = NoTimer, !.state = "ping"]
  <2>1. Moves /\ Apart(s)
    BY <1>10 DEF Moves, Apart
  <2>2. /\ sx.restart_flow_msg = NoFlow /\ sx.ping_flow_msg = server[s].ping_flow_msg
        /\ sx.state \in Unpinged /\ sx.state = "ping"
    BY <1>1, <1>4 DEF ServerRec, Unpinged
  <2>3. server' = [server EXCEPT ![s] = sx]
    BY <1>10 DEF Put
  <2> HIDE DEF sx
  <2> QED
    BY <2>1, <2>2, <2>3, PlainSteered
<1> QED
  BY <1>3, <1>8, <1>9, <1>10

\* A server is pinged with a flow of its own that waits for it.
LEMMA PingSteered ==
    ASSUME TypeOK, PInv, NEW s \in Server, server[s].state = "ping",
           handle_server_ping(s)
    PROVE  Steered(s)
<1> DEFINE sv == [server[s] EXCEPT !.ping_count = 0]
           Ping(f, o) == handle_flow_event([flow[f] EXCEPT !.retry_count = 0],
                                           "do_send", Ctx(f, sv, NoMsg, o[f]))
           onway(o)   == {f \in Pingable(s) : Ping(f, o).state # "failed"}
<1>1. \E o \in [Flow -> Outcome] :
        \/ /\ flow' = [f \in Flow |-> IF f \in Pingable(s) THEN Ping(f, o) ELSE flow[f]]
           /\ Put(s, [sv EXCEPT !.ping_flow_msg = NoFlow, !.next_timeout = NoTimer])
        \/ \E p \in First(onway(o)) :
             /\ flow' = [f \in Flow |-> IF f \in Pingable(s) /\ Pos[f] <= Pos[p]
                                        THEN Ping(f, o) ELSE flow[f]]
             /\ Put(s, [sv EXCEPT !.ping_flow_msg = p,
                                  !.next_timeout = Ping(p, o).timeout,
                                  !.state = "wait_ping_resp"])
  BY DEF handle_server_ping
<1>2. sv \in ServerRec /\ sv.state = "ping" /\ sv.restart_flow_msg = NoFlow
  BY NoMark, Constants0 DEF TypeOK, ServerRec
<1>3. ASSUME NEW o \in [Flow -> Outcome], NEW f \in Flow
      PROVE  /\ Ping(f, o).state \in Settling /\ Ringing(Ping(f, o))
             /\ Ping(f, o).state # "failed" => Ping(f, o).timeout # NoTimer
  <2>1. [flow[f] EXCEPT !.retry_count = 0] \in FlowRec
    <3>1. flow[f] \in FlowRec
      BY DEF TypeOK
    <3> QED
      BY <3>1, RetryReset
  <2>2. Ctx(f, sv, NoMsg, o[f]) \in Context
    BY <1>2, NoMsgFields, CtxType
  <2>3. ~Ctx(f, sv, NoMsg, o[f]).mark /\ NoTimer \notin Nat
    <3>1. f # NoFlow
      BY SlotAssumption
    <3>2. NoTimer \notin Nat
      BY NoTimerAssumption
    <3> HIDE DEF sv
    <3> QED
      BY <1>2, <3>1, <3>2 DEF Ctx
  <2> HIDE DEF sv
  <2> QED
    BY <2>1, <2>2, <2>3, EventMoves, EventRings, Constants0
<1>4. /\ \A o : \A p \in First(onway(o)) : /\ p \in FlowsOf(s) /\ p \in Pingable(s)
                                           /\ Ping(p, o).state # "failed"
      /\ \A f \in Pingable(s) : f \in Flow /\ ServerOf(f) = s
  BY DEF First, Pingable, FlowsOf
<1> HIDE DEF sv, Ping, onway
<1>5. ASSUME NEW o \in [Flow -> Outcome],
             flow' = [f \in Flow |-> IF f \in Pingable(s) THEN Ping(f, o) ELSE flow[f]],
             Put(s, [sv EXCEPT !.ping_flow_msg = NoFlow, !.next_timeout = NoTimer])
      PROVE  Steered(s)
  <2>1. Moves /\ Apart(s)
    BY <1>3, <1>4, <1>5 DEF Moves, Apart
  <2>2. Held(s, [sv EXCEPT !.ping_flow_msg = NoFlow, !.next_timeout = NoTimer])
    BY <1>2 DEF Held, ServerRec, Unpinged
  <2> QED
    BY <1>5, <2>1, <2>2 DEF Steered, Put
<1>6. ASSUME NEW o \in [Flow -> Outcome], NEW p \in First(onway(o)),
             flow' = [f \in Flow |-> IF f \in Pingable(s) /\ Pos[f] <= Pos[p]
                                     THEN Ping(f, o) ELSE flow[f]],
             Put(s, [sv EXCEPT !.ping_flow_msg = p, !.next_timeout = Ping(p, o).timeout,
                               !.state = "wait_ping_resp"])
      PROVE  Steered(s)
  <2>1. Moves /\ Apart(s)
    BY <1>3, <1>4, <1>6 DEF Moves, Apart
  <2>2. p \in FlowsOf(s)'
    BY <1>4, <2>1, MovesKeepLive
  <2>3. flow'[p] = Ping(p, o) /\ Ringing(Ping(p, o)) /\ Ping(p, o).timeout # NoTimer
    <3>1. p \in Flow /\ p \in Pingable(s) /\ Ping(p, o).state # "failed"
      BY <1>4
    <3>2. Pos[p] <= Pos[p]
      BY <3>1, SlotAssumption
    <3> QED
      BY <1>3, <1>6, <3>1, <3>2
  <2>4. Held(s, [sv EXCEPT !.ping_flow_msg = p, !.next_timeout = Ping(p, o).timeout,
                           !.state = "wait_ping_resp"])
    BY <1>2, <2>2, <2>3 DEF Held, ServerRec
  <2> QED
    BY <1>6, <2>1, <2>4 DEF Steered, Put
<1> QED
  BY <1>1, <1>5, <1>6

\* All of server_sm.
LEMMA MachineSteered ==
    ASSUME TypeOK, NegotiatesVersion, PInv, NEW s \in Server, NEW ev,
           NEW m \in Received, run_server_state_machine(s, ev, m)
    PROVE  Steered(s)
BY PingSteered, PingTimeoutSteered, ReceiveSteered, NegotiationSteered, SendingSteered,
   WaitIoTimeoutSteered, NotWorkingSteered, IdleSteered
   DEF run_server_state_machine

-----------------------------------------------------------------------------
\* A step of server_sm: what it does to the flows leaves the pointers of the
\* other servers live.
LEMMA SteeredStep ==
    ASSUME TypeOK, PInv, NEW s \in Server, Steered(s)
    PROVE  PInv'
<1>1. PICK sv : Held(s, sv) /\ server' = [server EXCEPT ![s] = sv]
  BY DEF Steered
<1>2. server'[s] = sv /\ \A t \in Server : t # s => server'[t] = server[t]
  BY <1>1 DEF TypeOK
<1>3. \A t \in Server : FlowsOf(t) \subseteq FlowsOf(t)'
  BY MovesKeepLive DEF Steered
<1>4. NoFlowMidway'
  BY DEF Steered, Moves, PInv, NoFlowMidway, Settling
<1>5. RestartMarkIsLive'
  BY <1>1, <1>2, <1>3 DEF Held, PInv, RestartMarkIsLive
<1>6. PingFlowIsLive'
  BY <1>1, <1>2, <1>3 DEF Held, PInv, PingFlowIsLive, Unpinged
<1>7. UpdateIsScheduled'
  <2> SUFFICES ASSUME NEW f \in Flow, flow'[f].state = "send"
               PROVE  /\ Expired(flow'[f].timeout)
                      /\ server'[ServerOf(f)].state = "wait_io" => Due(ServerOf(f))'
    BY DEF UpdateIsScheduled
  <2>1. flow'[f] = flow[f] /\ ServerOf(f) \in Server
    BY FlowParts DEF Steered, Moves, Settling, ServerOf
  <2>2. ServerOf(f) = s => server'[s].state # "wait_io"
    BY <1>1, <1>2 DEF Held, NoneToSend
  <2> QED
    BY <1>2, <2>1, <2>2 DEF PInv, UpdateIsScheduled, Due, InUse
<1>8. PingFlowWaits'
  <2> SUFFICES ASSUME NEW t \in Server, server'[t].state = "wait_ping_resp",
                      server'[t].ping_flow_msg # NoFlow
               PROVE  Ringing(flow'[server'[t].ping_flow_msg])
    BY DEF PingFlowWaits, Ringing
  <2>1. CASE t = s
    BY <1>1, <1>2, <2>1 DEF Held
  <2>2. CASE t # s
    <3>1. PICK p : p = server[t].ping_flow_msg
      OBVIOUS
    <3>2. p \in FlowsOf(t) /\ Ringing(flow[p]) /\ server[t].state = "wait_ping_resp"
      BY <1>2, <2>2, <3>1 DEF PInv, PingFlowIsLive, PingFlowWaits, Ringing
    <3>3. Ringing(flow'[p])
      BY <2>2, <3>2 DEF Steered, Apart, FlowsOf
    <3> QED
      BY <1>2, <2>2, <3>1, <3>3
  <2> QED
    BY <2>1, <2>2
<1>9. WaitingServerHasTimer'
  BY <1>1, <1>2 DEF Held, PInv, WaitingServerHasTimer
<1> QED
  BY <1>4, <1>5, <1>6, <1>7, <1>8, <1>9 DEF PInv

\* A step that leaves the states and the pointers of the servers alone, takes no
\* timer away, and keeps live flows live and pings under way.
LEMMA KeptStep ==
    ASSUME PInv, NoFlowMidway', UpdateIsScheduled',
           \A f \in Flow : Live(f) => Live(f)',
           \A f \in Flow : Ringing(flow[f]) => Ringing(flow'[f]),
           \A s \in Server : /\ server'[s].state = server[s].state
                             /\ server'[s].ping_flow_msg = server[s].ping_flow_msg
                             /\ server'[s].restart_flow_msg = server[s].restart_flow_msg
                             /\ server[s].next_timeout # NoTimer =>
                                   server'[s].next_timeout # NoTimer
    PROVE  PInv'
<1>1. \A s \in Server : FlowsOf(s) \subseteq FlowsOf(s)'
  BY DEF FlowsOf
<1>2. RestartMarkIsLive' /\ PingFlowIsLive'
  BY <1>1 DEF PInv, RestartMarkIsLive, PingFlowIsLive
<1>3. PingFlowWaits'
  <2>1. ASSUME NEW s \in Server, server[s].state = "wait_ping_resp",
               server[s].ping_flow_msg # NoFlow
        PROVE  server[s].ping_flow_msg \in Flow
    BY <2>1 DEF PInv, PingFlowIsLive, FlowsOf
  <2> QED
    BY <2>1 DEF PInv, PingFlowWaits, Ringing
<1>4. WaitingServerHasTimer'
  BY DEF PInv, WaitingServerHasTimer
<1> QED
  BY <1>2, <1>3, <1>4 DEF PInv

\* A context with nothing in it has no pointers.
LEMMA EmptyServers ==
    UnusedServer.state = "uninitialized" /\ UnusedServer.restart_flow_msg = NoFlow
BY DEF UnusedServer

\* Init, and pcp_terminate.
LEMMA InitPInv == Init => PInv
<1> SUFFICES ASSUME Init PROVE PInv
  OBVIOUS
<1>1. \A f \in Flow : flow[f].state = "absent"
  BY DEF Init, AbsentFlow
<1>2. \A s \in Server : /\ server[s].state = "uninitialized"
                        /\ server[s].restart_flow_msg = NoFlow
  BY EmptyServers DEF Init
<1>3. (NoFlowMidway /\ UpdateIsScheduled)
  BY <1>1 DEF NoFlowMidway, UpdateIsScheduled
<1>4. (RestartMarkIsLive /\ PingFlowIsLive)
  BY <1>2 DEF RestartMarkIsLive, PingFlowIsLive
<1>5. (PingFlowWaits /\ WaitingServerHasTimer)
  BY <1>2 DEF PingFlowWaits, WaitingServerHasTimer
<1> QED
  BY <1>3, <1>4, <1>5 DEF PInv

LEMMA FreePInv == Free => PInv'
<1> SUFFICES ASSUME Free PROVE PInv'
  OBVIOUS
<1>1. \A f \in Flow : flow'[f].state = "absent"
  BY DEF Free, AbsentFlow
<1>2. \A s \in Server : /\ server'[s].state = "uninitialized"
                        /\ server'[s].restart_flow_msg = NoFlow
  BY EmptyServers DEF Free
<1>3. (NoFlowMidway /\ UpdateIsScheduled)'
  BY <1>1 DEF NoFlowMidway, UpdateIsScheduled
<1>4. (RestartMarkIsLive /\ PingFlowIsLive)'
  BY <1>2 DEF RestartMarkIsLive, PingFlowIsLive
<1>5. (PingFlowWaits /\ WaitingServerHasTimer)'
  BY <1>2 DEF PingFlowWaits, WaitingServerHasTimer
<1> QED
  BY <1>3, <1>4, <1>5 DEF PInv

\* The steps of a pulse.
LEMMA PulsePInv == IInv /\ PInv /\ Pulse => PInv'
<1> SUFFICES ASSUME IInv, PInv, Pulse PROVE PInv'
  OBVIOUS
<1>1. ASSUME NEW s \in Server, NEW m \in Answers, pcp_pulse_recv(s, m)
      PROVE  PInv'
  <2>1. m \in Received
    BY AnswersAssumption DEF Received
  <2>2. Steered(s)
    BY <1>1, <2>1, MachineSteered DEF pcp_pulse_recv, IInv
  <2> QED
    BY <2>2, SteeredStep DEF IInv
<1>2. CASE hserver_iter
  <2>1. NoAnswer \in Received /\ pulse.s \in Server
    BY DEF Received, IInv, TypeOK, PulseRec
  <2>2. Steered(pulse.s)
    BY <1>2, <2>1, MachineSteered DEF hserver_iter, IInv
  <2> QED
    BY <2>1, <2>2, SteeredStep DEF IInv
<1>3. CASE pcp_pulse_no_msg \/ hserver_next
  BY <1>3, KeptStep DEF pcp_pulse_no_msg, hserver_next, Live, PInv, NoFlowMidway,
                        UpdateIsScheduled, Due, InUse
<1>4. CASE pcp_terminate_end
  BY <1>4, FreePInv DEF pcp_terminate_end
<1> QED
  BY <1>1, <1>2, <1>3, <1>4 DEF Pulse

\* Setting the timer of a server leaves the rest of it alone.
LEMMA TimerKeeps ==
    ASSUME NEW sv \in ServerRec, NEW t
    PROVE  /\ [sv EXCEPT !.next_timeout = t].state = sv.state
           /\ [sv EXCEPT !.next_timeout = t].ping_flow_msg = sv.ping_flow_msg
           /\ [sv EXCEPT !.next_timeout = t].restart_flow_msg = sv.restart_flow_msg
BY DEF ServerRec

\* Waking servers makes them due, and does not touch their pointers.
LEMMA WakeKeeps ==
    ASSUME TypeOK, NEW fs, Wake(fs)
    PROVE  /\ \A s \in Server :
                 /\ server'[s].state = server[s].state
                 /\ server'[s].ping_flow_msg = server[s].ping_flow_msg
                 /\ server'[s].restart_flow_msg = server[s].restart_flow_msg
                 /\ Due(s) => Due(s)'
                 /\ server[s].next_timeout # NoTimer => server'[s].next_timeout # NoTimer
           /\ \A f \in fs : ServerOf(f) \in Server /\ InUse(ServerOf(f)) => Due(ServerOf(f))'
<1>1. \A s \in Server : server[s] \in ServerRec
  BY DEF TypeOK
<1>2. \A s \in Server : [server[s] EXCEPT !.next_timeout = 0].next_timeout = 0
  BY <1>1 DEF ServerRec
<1>3. Expired(0)
  BY NoTimerAssumption DEF Expired
<1> QED
  BY <1>1, <1>2, <1>3, TimerKeeps DEF Wake, Due, InUse, Expired

\* What a call may do to one flow: if it is to be sent, its timer is due.
Updates(g, h) == /\ h.state \in {g.state, "send", "failed"}
                 /\ h.state = "send" => h.timeout = 0 /\ g.state \notin Dormant

LEMMA UpdatedState ==
    ASSUME NEW g \in FlowRec
    PROVE  /\ Updates(g, pcp_flow_updated(g))
           /\ Updates(g, pcp_close_flow_intern(g))
           /\ \A life : Updates(g, [pcp_flow_updated(g) EXCEPT !.lifetime = life])
<1>1. Updates(g, pcp_flow_updated(g))
  BY DEF pcp_flow_updated, FlowRec, Dormant, Updates
<1>2. pcp_flow_updated(g) \in FlowRec
  BY UpdatedType
<1>3. \A h \in FlowRec : \A life : /\ [h EXCEPT !.lifetime = life].state = h.state
                                     /\ [h EXCEPT !.lifetime = life].timeout = h.timeout
  BY DEF FlowRec
<1>4. [g EXCEPT !.state = "failed"].state = "failed"
  BY DEF FlowRec
<1>5. \A life : Updates(g, [pcp_flow_updated(g) EXCEPT !.lifetime = life])
  BY <1>1, <1>2, <1>3 DEF Updates
<1>6. Updates(g, [g EXCEPT !.state = "failed"])
  BY <1>4 DEF Updates
<1> QED
  BY <1>1, <1>5, <1>6 DEF pcp_close_flow_intern

\* Updating some of the flows.
LEMMA UpdateStep ==
    ASSUME TypeOK, PInv, NEW fs \in SUBSET {f \in Flow : Live(f)},
           NEW ws, Wake(ws), \A f \in fs : flow[f].state \notin Dormant => f \in ws,
           NEW new, \A f \in Flow : Updates(flow[f], new[f]),
           flow' = [f \in Flow |-> IF f \in fs THEN new[f] ELSE flow[f]]
    PROVE  PInv'
<1>1. \A f \in Flow : flow'[f].state \in {flow[f].state, "send", "failed"}
  BY DEF Updates
<1>2. /\ NoFlowMidway'
      /\ \A f \in Flow : (Live(f) => Live(f)') /\ (Ringing(flow[f]) => Ringing(flow'[f]))
  BY <1>1 DEF Live, PInv, NoFlowMidway, Ringing
<1>3. UpdateIsScheduled'
  <2> SUFFICES ASSUME NEW f \in Flow, flow'[f].state = "send"
               PROVE  /\ Expired(flow'[f].timeout)
                      /\ server'[ServerOf(f)].state = "wait_io" => Due(ServerOf(f))'
    BY DEF UpdateIsScheduled
  <2>1. ServerOf(f) \in Server
    BY FlowParts DEF ServerOf
  <2>2. CASE f \in fs
    <3>1. flow'[f].timeout = 0 /\ f \in ws
      BY <2>2 DEF Updates
    <3>2. Expired(0)
      BY NoTimerAssumption DEF Expired
    <3>3. server'[ServerOf(f)].state = "wait_io" => InUse(ServerOf(f))
      BY <2>1, WakeKeeps DEF InUse
    <3> QED
      BY <2>1, <3>1, <3>2, <3>3, WakeKeeps
  <2>3. CASE f \notin fs
    BY <2>1, <2>3, WakeKeeps DEF PInv, UpdateIsScheduled
  <2> QED
    BY <2>2, <2>3
<1> QED
  BY <1>2, <1>3, WakeKeeps, KeptStep

\* Closing some of the flows.
LEMMA CloseStep ==
    ASSUME TypeOK, PInv, NEW fs \in SUBSET {f \in Flow : Live(f)}, CloseAll(fs)
    PROVE  PInv'
<1> DEFINE new == [f \in Flow |-> pcp_close_flow_intern(flow[f])]
<1>1. \A f \in Flow : Updates(flow[f], new[f])
  BY UpdatedState DEF TypeOK
<1>2. flow' = [f \in Flow |-> IF f \in fs THEN new[f] ELSE flow[f]]
  BY DEF CloseAll
<1>3. Wake({f \in fs : flow[f].state \notin Dormant})
  BY DEF CloseAll
<1> HIDE DEF new
<1> QED
  BY <1>1, <1>2, <1>3, UpdateStep

\* The calls of the application.
LEMMA ApiPInv == IInv /\ PInv /\ API => PInv'
<1> SUFFICES ASSUME IInv, PInv, API PROVE PInv'
  OBVIOUS
<1>1. TypeOK /\ (AtRest => \A s \in Server : server[s].state \notin Transient)
  BY QuietServers DEF IInv, AtRest, CanPoll
<1>2. AtRest => \A s \in Server : server[s].restart_flow_msg = NoFlow
  BY <1>1, NoMark DEF Transient
<1>3. \A r \in Request : ChainOf(r) \in SUBSET {f \in Flow : Live(f)}
  BY DEF ChainOf, Flow
<1>4. ASSUME NEW gws, pcp_init(gws)
      PROVE  PInv'
  <2> DEFINE new(s) == [UnusedServer EXCEPT
                          !.state = IF gws[s] THEN "ping" ELSE "allocated",
                          !.pcp_version = 2]
  <2>1. \A s : new(s).state \in Unpinged /\ new(s).restart_flow_msg = NoFlow
    BY DEF UnusedServer, Unpinged
  <2>2. server' = [s \in Server |-> IF s \in DOMAIN gws THEN new(s) ELSE UnusedServer]
    BY <1>4 DEF pcp_init
  <2>3. flow' = flow /\ \A f \in Flow : flow[f].state = "absent"
    BY <1>4 DEF pcp_init, Live
  <2> HIDE DEF new
  <2>4. \A s \in Server : /\ server'[s].state \in Unpinged
                          /\ server'[s].restart_flow_msg = NoFlow
    BY <2>1, <2>2, EmptyServers DEF Unpinged
  <2> QED
    BY <2>3, <2>4 DEF PInv, NoFlowMidway, RestartMarkIsLive, PingFlowIsLive, Unpinged,
                      UpdateIsScheduled, PingFlowWaits, WaitingServerHasTimer
<1>5. ASSUME NEW s \in Server, NEW v \in AddVersions, NEW ok \in BOOLEAN,
             pcp_add_server(s, v, ok)
      PROVE  PInv'
  <2> DEFINE e  == IF InUse(s) THEN server[s].epoch ELSE NoEpoch
             sv == [server[s] EXCEPT !.epoch = e, !.pcp_version = v]
             sw == IF ok THEN [sv EXCEPT !.state = "ping", !.next_timeout = NoTimer]
                   ELSE [sv EXCEPT !.state = "uninitialized"]
  <2>1. server[s] \in ServerRec /\ server[s].restart_flow_msg = NoFlow
    BY <1>1, <1>2, <1>5 DEF TypeOK, pcp_add_server, Call
  <2>2. server' = [server EXCEPT ![s] = sw] /\ flow' = flow
    BY <1>5 DEF pcp_add_server, Put
  <2> HIDE DEF e
  <2>3. sw.state \in Unpinged /\ sw.state # "wait_io" /\ sw.restart_flow_msg = NoFlow
    BY <2>1 DEF ServerRec, Unpinged
  <2> HIDE DEF sw
  <2>4. Steered(s)
    BY <2>2, <2>3 DEF Steered, Held, Moves, Apart, Unpinged
  <2> QED
    BY <1>1, <2>4, SteeredStep
<1>6. ASSUME NEW r \in Request, NEW life \in Lifetimes, pcp_new_flow(r, life)
      PROVE  PInv'
  <2> DEFINE st(f)  == IF server[f[2]].state = "wait_io" THEN "send"
                       ELSE "wait_for_server_init"
             new(f) == [pcp_create_flow EXCEPT !.lifetime = life, !.timeout = 0,
                                               !.state = st(f)]
             due(s) == [server[s] EXCEPT !.next_timeout = 0]
  <2>1. \A f : new(f).state \in {"send", "wait_for_server_init"} /\ new(f).timeout = 0
    BY DEF pcp_create_flow, AbsentFlow
  <2>2. \A s \in Server : /\ due(s).state = server[s].state
                          /\ due(s).ping_flow_msg = server[s].ping_flow_msg
                          /\ due(s).restart_flow_msg = server[s].restart_flow_msg
                          /\ due(s).next_timeout = 0
    BY <1>1, TimerKeeps DEF TypeOK, ServerRec
  <2>3. /\ flow' = [f \in Flow |-> IF f[1] = r /\ Takes(f[2], r) THEN new(f) ELSE flow[f]]
        /\ server' = [s \in Server |-> IF Takes(s, r) THEN due(s) ELSE server[s]]
    BY <1>6 DEF pcp_new_flow
  <2> HIDE DEF new, due
  <2>4. /\ NoFlowMidway'
        /\ \A f \in Flow : (Live(f) => Live(f)') /\ (Ringing(flow[f]) => Ringing(flow'[f]))
    <3>1. \A f \in Flow : f[1] = r => flow[f].state = "absent"
      BY <1>6 DEF pcp_new_flow, ChainOf, Flow, Live
    <3> QED
      BY <2>1, <2>3, <3>1 DEF Live, PInv, NoFlowMidway, Ringing
  <2>5. UpdateIsScheduled'
    <3>1. Expired(0)
      BY NoTimerAssumption DEF Expired
    <3>2. \A s \in Server : /\ server'[s].state = server[s].state
                            /\ Due(s) => Due(s)'
                            /\ Takes(s, r) => Due(s)'
      BY <2>2, <2>3, <3>1 DEF Due, InUse, Takes
    <3>3. \A f \in Flow : f[2] \in Server /\ ServerOf(f) = f[2]
      BY FlowParts DEF ServerOf
    <3>4. \A f \in Flow : \/ flow'[f].timeout = 0 /\ Takes(f[2], r)
                          \/ flow'[f] = flow[f]
      BY <2>1, <2>3
    <3> QED
      BY <3>1, <3>2, <3>3, <3>4 DEF PInv, UpdateIsScheduled
  <2>6. 0 # NoTimer
    BY NoTimerAssumption
  <2> QED
    BY <2>2, <2>3, <2>4, <2>5, <2>6, KeptStep
<1>7. ASSUME NEW r \in Request, NEW life \in Lifetimes, pcp_flow_set_lifetime(r, life)
      PROVE  PInv'
  <2> DEFINE new == [f \in Flow |-> [pcp_flow_updated(flow[f]) EXCEPT !.lifetime = life]]
  <2>1. \A f \in Flow : Updates(flow[f], new[f])
    BY <1>1, UpdatedState DEF TypeOK
  <2>2. flow' = [f \in Flow |-> IF f \in ChainOf(r) THEN new[f] ELSE flow[f]]
    BY <1>7 DEF pcp_flow_set_lifetime
  <2>3. Wake(ChainOf(r))
    BY <1>7 DEF pcp_flow_set_lifetime
  <2> HIDE DEF new
  <2> QED
    BY <1>1, <1>3, <2>1, <2>2, <2>3, UpdateStep
<1>8. ASSUME NEW r \in Request, pcp_flow_set_opt(r)
      PROVE  PInv'
  <2> DEFINE new == [f \in Flow |-> pcp_flow_updated(flow[f])]
  <2>1. \A f \in Flow : Updates(flow[f], new[f])
    BY <1>1, UpdatedState DEF TypeOK
  <2>2. flow' = [f \in Flow |-> IF f \in ChainOf(r) THEN new[f] ELSE flow[f]]
    BY <1>8 DEF pcp_flow_set_opt
  <2>3. Wake(ChainOf(r))
    BY <1>8 DEF pcp_flow_set_opt
  <2> HIDE DEF new
  <2> QED
    BY <1>1, <1>3, <2>1, <2>2, <2>3, UpdateStep
<1>9. ASSUME NEW r \in Request, pcp_close_flow(r)
      PROVE  PInv'
  BY <1>1, <1>3, <1>9, CloseStep DEF pcp_close_flow
<1>10. ASSUME NEW r \in Request, pcp_delete_flow(r)
       PROVE  PInv'
  <2> DEFINE cut(s) == [server[s] EXCEPT !.ping_flow_msg = NoFlow]
  <2>1. \A s \in Server : /\ cut(s).state = server[s].state
                          /\ cut(s).ping_flow_msg = NoFlow
                          /\ cut(s).restart_flow_msg = server[s].restart_flow_msg
                          /\ cut(s).next_timeout = server[s].next_timeout
    BY <1>1 DEF TypeOK, ServerRec
  <2>2. /\ flow' = [f \in Flow |-> IF f \in ChainOf(r) THEN AbsentFlow ELSE flow[f]]
        /\ server' = [s \in Server |->
                        IF InUse(s) /\ server[s].ping_flow_msg \in ChainOf(r)
                        THEN cut(s) ELSE server[s]]
        /\ AtRest
    BY <1>10 DEF pcp_delete_flow, Call
  <2> HIDE DEF cut
  <2>3. NoFlowMidway'
    BY <2>2 DEF AbsentFlow, PInv, NoFlowMidway
  <2>4. RestartMarkIsLive'
    BY <1>2, <2>1, <2>2 DEF RestartMarkIsLive
  <2>5. \A s \in Server : FlowsOf(s) \ ChainOf(r) \subseteq FlowsOf(s)'
    BY <2>2 DEF FlowsOf, Live
  <2>6. PingFlowIsLive'
    BY <2>1, <2>2, <2>5 DEF PInv, PingFlowIsLive, InUse
  <2>7. UpdateIsScheduled'
    <3>1. \A s \in Server : server'[s].state = server[s].state /\ (Due(s) => Due(s)')
      BY <2>1, <2>2 DEF Due, InUse
    <3>2. \A f \in Flow : flow'[f].state = "send" => flow'[f] = flow[f]
      BY <2>2 DEF AbsentFlow
    <3>3. \A f \in Flow : ServerOf(f) \in Server
      BY FlowParts DEF ServerOf
    <3> QED
      BY <3>1, <3>2, <3>3 DEF PInv, UpdateIsScheduled
  <2>8. PingFlowWaits' /\ WaitingServerHasTimer'
    <3>1. WaitingServerHasTimer'
      BY <2>1, <2>2 DEF PInv, WaitingServerHasTimer
    <3>2. ASSUME NEW s \in Server, server'[s].state = "wait_ping_resp",
                 server'[s].ping_flow_msg # NoFlow
          PROVE  Ringing(flow'[server'[s].ping_flow_msg])
      <4>1. /\ server'[s] = server[s] /\ server[s].ping_flow_msg \notin ChainOf(r)
            /\ server[s].ping_flow_msg \in FlowsOf(s)
        BY <2>1, <2>2, <3>2 DEF InUse, PInv, PingFlowIsLive
      <4>2. flow'[server[s].ping_flow_msg] = flow[server[s].ping_flow_msg]
        BY <2>2, <4>1 DEF FlowsOf
      <4> QED
        BY <3>2, <4>1, <4>2 DEF PInv, PingFlowWaits, Ringing
    <3> QED
      BY <3>1, <3>2 DEF PingFlowWaits, Ringing
  <2> QED
    BY <2>3, <2>4, <2>6, <2>7, <2>8 DEF PInv
<1>11. ASSUME NEW close_flows \in BOOLEAN, pcp_terminate(close_flows)
       PROVE  PInv'
  BY <1>1, <1>11, CloseStep, FreePInv DEF pcp_terminate
<1> QED
  BY <1>4, <1>5, <1>6, <1>7, <1>8, <1>9, <1>10, <1>11 DEF API

\* The clock moves no flow and no pointer.
LEMMA TickPInv == IInv /\ PInv /\ Tick => PInv'
<1> SUFFICES ASSUME IInv, PInv, Tick PROVE PInv'
  OBVIOUS
<1>1. \A f \in Flow : flow'[f].state = flow[f].state
  BY DEF Tick, IInv, TypeOK, FlowRec
<1>2. \A s \in Server : /\ server'[s].state = server[s].state
                        /\ server'[s].ping_flow_msg = server[s].ping_flow_msg
                        /\ server'[s].restart_flow_msg = server[s].restart_flow_msg
  BY TimerKeeps DEF Tick, IInv, TypeOK
<1>3. /\ NoFlowMidway'
      /\ \A f \in Flow : (Live(f) => Live(f)') /\ (Ringing(flow[f]) => Ringing(flow'[f]))
  BY <1>1 DEF Live, PInv, NoFlowMidway, Ringing
<1>4. UpdateIsScheduled'
  <2>1. \A t \in Timer : Expired(t) => Expired(AgeTimer(t))
    BY NoTimerAssumption DEF Timer, AgeTimer, Expired
  <2>2. \A f \in Flow : /\ flow'[f].timeout = AgeTimer(flow[f].timeout)
                        /\ flow[f].timeout \in Timer /\ ServerOf(f) \in Server
    BY FlowParts DEF Tick, IInv, TypeOK, FlowRec, ServerOf
  <2>3. \A s \in Server : /\ server'[s].next_timeout = AgeTimer(server[s].next_timeout)
                          /\ server[s].next_timeout \in Timer
    BY DEF Tick, IInv, TypeOK, ServerRec
  <2>4. \A s \in Server : Due(s) => Due(s)'
    BY <1>2, <2>1, <2>3 DEF Due, InUse
  <2> QED
    BY <1>1, <1>2, <2>1, <2>2, <2>4 DEF PInv, UpdateIsScheduled
<1>5. \A s \in Server : server[s].next_timeout # NoTimer => server'[s].next_timeout # NoTimer
  <2>1. \A t \in Timer : t # NoTimer => AgeTimer(t) # NoTimer
    BY NoTimerAssumption DEF Timer, AgeTimer
  <2> QED
    BY <2>1 DEF Tick, IInv, TypeOK, ServerRec
<1> QED
  BY <1>2, <1>3, <1>4, <1>5, KeptStep

\* Every step keeps the pointers, the timers and what is to be sent.
LEMMA NextPInv == IInv /\ PInv /\ [Next]_vars => PInv'
<1> SUFFICES ASSUME IInv, PInv, [Next]_vars PROVE PInv'
  OBVIOUS
<1>1. CASE UNCHANGED vars
  BY <1>1, KeptStep DEF vars, Live, PInv, NoFlowMidway, UpdateIsScheduled, Due, InUse
<1> QED
  BY <1>1, PulsePInv, ApiPInv, TickPInv DEF Next

\* A server never keeps a ping_flow_msg to a deleted flow, or to one of another
\* server, where a handler may follow it.
THEOREM PingPointerHolds == Spec => []PingFlowIsLive
<1>1. PInv => PingFlowIsLive
  BY DEF PInv
<1> QED
  BY <1>1, InitIInv, NextIInv, InitPInv, NextPInv, PTL DEF Spec

\* restart_flow_msg is NULL except on the way to handle_server_restart, and then
\* it points to a flow of this server that exists.
THEOREM RestartPointerHolds == Spec => []RestartMarkIsLive
<1>1. PInv => RestartMarkIsLive
  BY DEF PInv
<1> QED
  BY <1>1, InitIInv, NextIInv, InitPInv, NextPInv, PTL DEF Spec

\* What a call has asked to be sent is not forgotten: the flow is due, and so is
\* its server if that server is up, whatever else happens before the next sweep.
THEOREM UpdatesAreScheduled == Spec => []UpdateIsScheduled
<1>1. PInv => UpdateIsScheduled
  BY DEF PInv
<1> QED
  BY <1>1, InitIInv, NextIInv, InitPInv, NextPInv, PTL DEF Spec

\* While a server waits for the answer to a ping, the flow it was pinged with is
\* under way, to be sent again or given up, whatever the other servers' sweeps
\* and the calls of the application do to it.
THEOREM PingsStayUnderWay == Spec => []PingFlowWaits
<1>1. PInv => PingFlowWaits
  BY DEF PInv
<1> QED
  BY <1>1, InitIInv, NextIInv, InitPInv, NextPInv, PTL DEF Spec

\* A server that waits for an answer to a ping, or for the end of the retry
\* delay, never loses its timer.
THEOREM WaitsAreTimed == Spec => []WaitingServerHasTimer
<1>1. PInv => WaitingServerHasTimer
  BY DEF PInv
<1> QED
  BY <1>1, InitIInv, NextIInv, InitPInv, NextPInv, PTL DEF Spec

\* handle_flow_event, its callers and the calls of the application leave no flow
\* in pfs_idle or pfs_send_renew.
THEOREM FlowsComeToRest == Spec => []NoFlowMidway
<1>1. PInv => NoFlowMidway
  BY DEF PInv
<1> QED
  BY <1>1, InitIInv, NextIInv, InitPInv, NextPInv, PTL DEF Spec

-----------------------------------------------------------------------------
(* The message buffers.  Only a flow that is its server's restart_flow_msg  *)
(* can be left with one, and that mark is set only for handle_server_restart;*)
(* the sweep that follows sends the renewal again from the same buffer.     *)

NoBufs == \A f \in Flow : flow[f].buf = NoBuf

\* An event, an answer and a time-out leave no buffer to a flow without a mark.
LEMMA EventFrees ==
    ASSUME NEW g \in FlowRec, NEW ev \in FirstEvent, NEW x \in Context, ~x.mark,
           g.buf = NoBuf \/ NextState(g.state, ev) = "send_renew"
    PROVE  handle_flow_event(g, ev, x).buf = NoBuf
BY RunChainBuf DEF handle_flow_event

LEMMA AnswerFrees ==
    ASSUME NEW g \in FlowRec, NEW x \in Context, ~x.mark, g.buf = NoBuf
    PROVE  handle_answer(g, x).buf = NoBuf
<1>1. x.msg.result \in FirstEvent
  BY ContextFields DEF FirstEvent
<1> QED
  BY <1>1, RunChainBuf DEF handle_answer

LEMMA CheckFrees ==
    ASSUME NEW g \in FlowRec, NEW x \in Context, ~x.mark,
           \/ g.buf = NoBuf
           \/ g.state = "wait_for_lifetime_renew" /\ Expired(g.timeout)
    PROVE  check_flow_timeout(g, x).buf = NoBuf
<1>1. "flow_timedout" \in FirstEvent
  BY DEF FirstEvent
<1>2. NextState("wait_for_lifetime_renew", "flow_timedout") = "send_renew"
  BY DEF NextState, ShortLifeError, LongLifeError
<1> QED
  BY <1>1, <1>2, EventFrees DEF check_flow_timeout

\* The flow that has the mark is left with a buffer only when its timer was due
\* and its renewal was not sent; the timer is then due still.
LEMMA RestartBuf ==
    ASSUME NEW g \in FlowRec, NEW x \in Context, g.buf = NoBuf
    PROVE  LET h == check_flow_timeout(handle_flow_event(g, "server_restarted", x), x)
           IN  h.buf # NoBuf => /\ h.state = "wait_for_lifetime_renew"
                                /\ Expired(h.timeout)
                                /\ h.buf = x.version
<1>1. {"server_restarted", "flow_timedout"} \subseteq FirstEvent
  BY DEF FirstEvent
<1>2. NextState(g.state, "server_restarted") = "send"
  BY DEF NextState, ShortLifeError, LongLifeError
<1>3. PICK k \in FlowRec : k = handle_flow_event(g, "server_restarted", x)
  BY <1>1, EventType
<1>4. k.buf = NoBuf
  BY <1>1, <1>2, <1>3, RunChainBuf DEF handle_flow_event
<1>5. CASE ~Expired(k.timeout)
  BY <1>3, <1>4, <1>5 DEF check_flow_timeout
<1>6. CASE Expired(k.timeout)
  <2>1. check_flow_timeout(k, x) = RunChain(k, "flow_timedout", x, FALSE).f
    BY <1>6 DEF check_flow_timeout, handle_flow_event
  <2> DEFINE r == RunChain(k, "flow_timedout", x, FALSE)
  <2>2. r.f.buf # NoBuf => /\ r.f.state = "wait_for_lifetime_renew"
                           /\ r.f.timeout = k.timeout /\ r.f.buf = x.version
    <3>1. "flow_timedout" \in FirstEvent /\ FALSE \in BOOLEAN
      BY <1>1
    <3> QED
      BY <1>4, <3>1, RunChainBuf
  <2> HIDE DEF r
  <2> QED
    BY <1>3, <1>6, <2>1, <2>2 DEF r
<1> QED
  BY <1>5, <1>6

\* A context without a mark.
LEMMA Unmarked ==
    ASSUME NEW f \in Flow, NEW sv, sv.restart_flow_msg = NoFlow, NEW m, NEW o
    PROVE  ~Ctx(f, sv, m, o).mark
<1>1. f # NoFlow
  BY SlotAssumption
<1> QED
  BY <1>1 DEF Ctx

\* The handlers of server_sm, other than handle_server_restart and the sweep,
\* leave no buffer where there was none.
LEMMA SendEventFrees ==
    ASSUME TypeOK, NoBufs, NEW s \in Server, server[s].restart_flow_msg = NoFlow,
           NEW ev \in FirstEvent, NEW o \in [Flow -> Outcome],
           flow' = SendEvent(s, ev, o)
    PROVE  NoBufs'
<1>1. ASSUME NEW f \in Flow
      PROVE  LET x == Ctx(f, server[s], NoMsg, o[f])
             IN  check_flow_timeout(handle_flow_event(flow[f], ev, x), x).buf = NoBuf
  <2>1. flow[f] \in FlowRec /\ server[s] \in ServerRec /\ o[f] \in Outcome
        /\ flow[f].buf = NoBuf
    BY DEF TypeOK, NoBufs
  <2>2. PICK x \in Context : x = Ctx(f, server[s], NoMsg, o[f])
    BY <2>1, NoMsgFields, CtxType
  <2>3. ~x.mark
    BY <2>2, Unmarked
  <2>4. PICK g \in FlowRec : g = handle_flow_event(flow[f], ev, x)
    BY <2>1, EventType
  <2>5. g.buf = NoBuf
    BY <2>1, <2>3, <2>4, EventFrees
  <2>6. check_flow_timeout(g, x).buf = NoBuf
    BY <2>3, <2>5, CheckFrees
  <2> QED
    BY <2>2, <2>4, <2>6
<1> QED
  BY <1>1 DEF SendEvent, NoBufs

LEMMA ProcessFrees ==
    ASSUME TypeOK, NoBufs, NEW s \in Server, server[s].restart_flow_msg = NoFlow,
           NEW m \in Received, NEW o \in Outcome,
           flow' = server_process_rcvd_pcp_msg(s, m, o)
    PROVE  NoBufs'
<1>1. ASSUME NEW f \in Flow
      PROVE  handle_answer(flow[f], Ctx(f, server[s], m, o)).buf = NoBuf
  <2>1. flow[f] \in FlowRec /\ server[s] \in ServerRec /\ flow[f].buf = NoBuf
    BY DEF TypeOK, NoBufs
  <2>2. PICK x \in Context : x = Ctx(f, server[s], m, o)
    BY <2>1, ReceivedFields, CtxType
  <2>3. ~x.mark
    BY <2>2, Unmarked
  <2> QED
    BY <2>1, <2>2, <2>3, AnswerFrees
<1> QED
  BY <1>1 DEF server_process_rcvd_pcp_msg, NoBufs, TypeOK

\* The sweep leaves no buffer at all: the one that may be there is sent.
LEMMA SweepFrees ==
    ASSUME TypeOK, BufferIsFreed, NEW s \in Server, handle_wait_io_timeout(s),
           \A t \in Server : server[t].restart_flow_msg = NoFlow
    PROVE  NoBufs'
<1> DEFINE swept(f, o) == check_flow_timeout(flow[f],
                              Ctx(f, server[ServerOf(f)], NoMsg, o[f]))
<1>1. PICK o \in [Flow -> Outcome] :
         flow' = [f \in Flow |-> IF Live(f) THEN swept(f, o) ELSE flow[f]]
  BY DEF handle_wait_io_timeout
<1>2. ASSUME NEW f \in Flow
      PROVE  swept(f, o).buf = NoBuf
  <2>1. /\ flow[f] \in FlowRec /\ server[ServerOf(f)] \in ServerRec /\ o[f] \in Outcome
        /\ ServerOf(f) \in Server
    BY FlowParts DEF TypeOK, ServerOf
  <2>2. PICK x \in Context : x = Ctx(f, server[ServerOf(f)], NoMsg, o[f])
    BY <2>1, NoMsgFields, CtxType
  <2>3. ~x.mark
    BY <2>1, <2>2, Unmarked
  <2>4. \/ flow[f].buf = NoBuf
        \/ flow[f].state = "wait_for_lifetime_renew" /\ Expired(flow[f].timeout)
    BY DEF BufferIsFreed
  <2> QED
    BY <2>1, <2>2, <2>3, <2>4, CheckFrees
<1>3. ASSUME NEW f \in Flow, ~Live(f)
      PROVE  flow[f].buf = NoBuf
  BY <1>3 DEF BufferIsFreed, Live
<1> HIDE DEF swept
<1> QED
  BY <1>1, <1>2, <1>3 DEF NoBufs

\* Setting the retransmission fields, or putting a flow aside, touches no buffer.
LEMMA ResetKeepsBuf ==
    ASSUME NEW g \in FlowRec
    PROVE  /\ [g EXCEPT !.retry_count = 0].buf = g.buf
           /\ [g EXCEPT !.retry_count = 0, !.resend_timeout = 0].buf = g.buf
           /\ [g EXCEPT !.state = "wait_for_server_init", !.timeout = NoTimer].buf = g.buf
BY DEF FlowRec

LEMMA PingTimeoutFrees ==
    ASSUME TypeOK, NoBufs, NEW s \in Server, server[s].restart_flow_msg = NoFlow,
           handle_wait_ping_resp_timeout(s)
    PROVE  NoBufs'
<1> DEFINE n  == IF server[s].ping_count < MaxPing THEN server[s].ping_count + 1
                 ELSE MaxPing
           p  == server[s].ping_flow_msg
           sv == [server[s] EXCEPT !.ping_count = n]
<1>1. server[s] \in ServerRec /\ p \in Flow \cup {NoFlow} /\ n \in 0 .. MaxPing
  BY ServerFields, EnvAssumption DEF TypeOK
<1>2. sv = [server[s] EXCEPT !.ping_count = IF @ < MaxPing THEN @ + 1 ELSE MaxPing]
  OBVIOUS
<1> HIDE DEF n
<1>3. sv \in ServerRec /\ sv.restart_flow_msg = NoFlow
  BY <1>1 DEF ServerRec
<1>4. \/ UNCHANGED flow
      \/ /\ p # NoFlow
         /\ \E o \in Outcome :
              flow' = [flow EXCEPT ![p] = handle_flow_event(flow[p], "flow_timedout",
                                                            Ctx(p, sv, NoMsg, o))]
  BY <1>2 DEF handle_wait_ping_resp_timeout
<1> HIDE DEF sv, p
<1>5. ASSUME p # NoFlow, NEW o \in Outcome
      PROVE  handle_flow_event(flow[p], "flow_timedout", Ctx(p, sv, NoMsg, o)).buf = NoBuf
  <2>1. p \in Flow /\ flow[p] \in FlowRec /\ flow[p].buf = NoBuf
    BY <1>1, <1>5 DEF TypeOK, NoBufs
  <2>2. PICK x \in Context : x = Ctx(p, sv, NoMsg, o)
    BY <2>1, <1>3, NoMsgFields, CtxType
  <2>3. ~x.mark
    BY <1>3, <2>1, <2>2, Unmarked
  <2> QED
    BY <2>1, <2>2, <2>3, EventFrees, Constants0
<1> QED
  BY <1>4, <1>5 DEF NoBufs, TypeOK

LEMMA PingFrees ==
    ASSUME TypeOK, NoBufs, NEW s \in Server, server[s].restart_flow_msg = NoFlow,
           handle_server_ping(s)
    PROVE  NoBufs'
<1> DEFINE sv == [server[s] EXCEPT !.ping_count = 0]
           Ping(f, o) == handle_flow_event([flow[f] EXCEPT !.retry_count = 0],
                                           "do_send", Ctx(f, sv, NoMsg, o[f]))
<1>1. PICK o \in [Flow -> Outcome] :
         \A f \in Flow : flow'[f] = flow[f] \/ flow'[f] = Ping(f, o)
  BY DEF handle_server_ping
<1>2. sv \in ServerRec /\ sv.restart_flow_msg = NoFlow
  BY Constants0 DEF TypeOK, ServerRec
<1>3. ASSUME NEW f \in Flow
      PROVE  Ping(f, o).buf = NoBuf
  <2>1. flow[f] \in FlowRec /\ flow[f].buf = NoBuf /\ o[f] \in Outcome
    BY DEF TypeOK, NoBufs
  <2>2. PICK g \in FlowRec : g = [flow[f] EXCEPT !.retry_count = 0]
    BY <2>1, RetryReset
  <2>3. g.buf = NoBuf
    BY <2>1, <2>2, ResetKeepsBuf
  <2>4. PICK x \in Context : x = Ctx(f, sv, NoMsg, o[f])
    BY <1>2, <2>1, NoMsgFields, CtxType
  <2>5. ~x.mark
    BY <1>2, <2>4, Unmarked
  <2> QED
    BY <2>2, <2>3, <2>4, <2>5, EventFrees, Constants0
<1> HIDE DEF Ping
<1> QED
  BY <1>1, <1>3 DEF NoBufs

LEMMA NegotiationFrees ==
    ASSUME TypeOK, NoBufs, NegotiatesVersion, NEW s \in Server,
           server[s].state = "version_negotiation",
           server[s].restart_flow_msg = NoFlow, handle_version_negotiation(s)
    PROVE  NoBufs'
<1> DEFINE v    == server[s].pcp_version
           next == NextVersion(v, server[s].next_version)
           sv   == [server[s] EXCEPT !.next_version = next]
           sw   == [sv EXCEPT !.pcp_version = next]
           Aside(f) == IF next = 0 /\ f = server[s].ping_flow_msg
                       THEN [flow[f] EXCEPT !.state = "wait_for_server_init",
                                            !.timeout = NoTimer]
                       ELSE flow[f]
           w(f)     == IF next = 0 THEN pcp_create_flow ELSE flow[f]
           g(f, o)  == handle_flow_event([w(f) EXCEPT !.retry_count = 0,
                                                      !.resend_timeout = 0],
                                         "do_send", Ctx(f, sw, NoMsg, o))
<1>1. /\ server[s] \in ServerRec /\ v \in Version
      /\ server[s].next_version \in Version
  BY ServerFields DEF TypeOK, NegotiatesVersion
<1>2. next \in Uint8 /\ (v # 0 => next \in Version)
  BY <1>1, NextVersionType
<1>3. \/ UNCHANGED flow
      \/ /\ v # 0
         /\ \E f \in NegotiationPing(s, next), o \in Outcome :
              flow' = [h \in Flow |-> IF h = f THEN g(f, o) ELSE Aside(h)]
  BY DEF handle_version_negotiation
<1>4. v # 0 => sw \in ServerRec /\ sw.restart_flow_msg = NoFlow
  BY <1>1, <1>2 DEF ServerRec
<1>5. NegotiationPing(s, next) \subseteq Flow
  BY <1>1, ServerFields DEF NegotiationPing, FreeAnn, First, Pingable, FlowsOf, Flow
<1>6. pcp_create_flow.buf = NoBuf
  BY DEF pcp_create_flow, AbsentFlow
<1>7. \A h \in Flow : /\ Aside(h).buf = NoBuf
                      /\ w(h) \in FlowRec /\ w(h).buf = NoBuf
  <2>1. \A h \in Flow : flow[h] \in FlowRec /\ flow[h].buf = NoBuf
    BY DEF TypeOK, NoBufs
  <2> QED
    BY <1>6, <2>1, NewFlowType, ResetKeepsBuf
<1> HIDE DEF next, sv, sw, Aside, w, v
<1>8. ASSUME v # 0, NEW f \in Flow, NEW o \in Outcome
      PROVE  g(f, o).buf = NoBuf
  <2>1. PICK k \in FlowRec : k = [w(f) EXCEPT !.retry_count = 0, !.resend_timeout = 0]
    BY <1>7, RetryReset
  <2>2. k.buf = NoBuf
    BY <1>7, <2>1, ResetKeepsBuf
  <2>3. PICK x \in Context : x = Ctx(f, sw, NoMsg, o)
    BY <1>4, <1>8, NoMsgFields, CtxType
  <2>4. ~x.mark
    BY <1>4, <1>8, <2>3, Unmarked
  <2> QED
    BY <2>1, <2>2, <2>3, <2>4, EventFrees, Constants0
<1> HIDE DEF g
<1> QED
  BY <1>3, <1>5, <1>7, <1>8 DEF NoBufs

\* Whatever handler runs, the server it serves is the only one that can have a
\* flow with a buffer, and only in the state after a restart.
LEMMA AllFreed ==
    ASSUME IInv, BufferIsFreed, NEW s \in Server, CanPoll \/ pulse.s = s,
           server[s].state # "wait_io_calc_nearest_timeout"
    PROVE  NoBufs
<1> SUFFICES ASSUME NEW f \in Flow, flow[f].buf # NoBuf PROVE FALSE
  BY DEF NoBufs
<1>1. /\ ServerOf(f) \in Server
      /\ server[ServerOf(f)].state = "wait_io_calc_nearest_timeout"
  BY FlowParts DEF BufferIsFreed, ServerOf
<1>2. pulse.at \in {"io", "scan"} /\ pulse.s = ServerOf(f)
  BY <1>1 DEF IInv, TransientIsServed, Transient
<1> QED
  BY <1>1, <1>2 DEF CanPoll

\* While another server is served, or none, no server has a mark.
LEMMA NoMarks ==
    ASSUME IInv, PInv, NEW s \in Server, CanPoll \/ pulse.s = s,
           server[s].state # "server_restart"
    PROVE  \A t \in Server : server[t].restart_flow_msg = NoFlow
<1>1. \A t \in Server : server[t].state # "server_restart"
  BY DEF IInv, TransientIsServed, Transient, CanPoll
<1> QED
  BY <1>1, NoMark

LEMMA NoBufsFreed == ASSUME NoBufs' PROVE BufferIsFreed'
BY DEF NoBufs, BufferIsFreed

\* The flows of a server that has restarted.
LEMMA RestartFrees ==
    ASSUME TypeOK, NoBufs, NEW s \in Server, handle_server_restart(s)
    PROVE  BufferIsFreed'
<1>1. PICK o \in [Flow -> Outcome] : flow' = SendEvent(s, "server_restarted", o)
  BY DEF handle_server_restart
<1> DEFINE sv == [server[s] EXCEPT !.restart_flow_msg = NoFlow, !.next_timeout = 0,
                                   !.state = "wait_io_calc_nearest_timeout"]
<1>2. server' = [server EXCEPT ![s] = sv]
  BY DEF handle_server_restart, Put
<1>3. sv.state = "wait_io_calc_nearest_timeout" /\ sv.pcp_version = server[s].pcp_version
  BY DEF TypeOK, ServerRec
<1> HIDE DEF sv
<1>4. server'[s] = sv
  BY <1>2 DEF TypeOK
<1> SUFFICES ASSUME NEW f \in Flow, flow'[f].buf # NoBuf
             PROVE  /\ server'[ServerOf(f)].state = "wait_io_calc_nearest_timeout"
                    /\ flow'[f].state = "wait_for_lifetime_renew"
                    /\ Expired(flow'[f].timeout)
                    /\ flow'[f].buf = server'[ServerOf(f)].pcp_version
  BY DEF BufferIsFreed
<1>5. flow[f] \in FlowRec /\ flow[f].buf = NoBuf /\ server[s] \in ServerRec
      /\ o[f] \in Outcome
  BY DEF TypeOK, NoBufs
<1>6. f \in FlowsOf(s)
  BY <1>1, <1>5 DEF SendEvent
<1>7. ServerOf(f) = s
  BY <1>6 DEF FlowsOf
<1>8. PICK x \in Context : x = Ctx(f, server[s], NoMsg, o[f])
  BY <1>5, NoMsgFields, CtxType
<1>9. flow'[f] = check_flow_timeout(handle_flow_event(flow[f], "server_restarted", x), x)
  BY <1>1, <1>6, <1>8 DEF SendEvent
<1>10. x.version = server[s].pcp_version
  BY <1>8 DEF Ctx
<1>11. /\ flow'[f].state = "wait_for_lifetime_renew"
       /\ Expired(flow'[f].timeout) /\ flow'[f].buf = x.version
  BY <1>5, <1>9, RestartBuf
<1> QED
  BY <1>3, <1>4, <1>7, <1>10, <1>11

\* All of server_sm.
LEMMA MachineFrees ==
    ASSUME IInv, PInv, BufferIsFreed, NEW s \in Server, CanPoll \/ pulse.s = s,
           NEW ev, NEW m \in Received, run_server_state_machine(s, ev, m)
    PROVE  BufferIsFreed'
<1>1. TypeOK /\ NegotiatesVersion
  BY DEF IInv
<1>2. server[s].state # "wait_io_calc_nearest_timeout" => NoBufs
  BY AllFreed
<1>3. server[s].state # "server_restart" =>
         \A t \in Server : server[t].restart_flow_msg = NoFlow
  BY NoMarks
<1>4. {"server_initialized", "do_fail"} \subseteq FirstEvent
  BY Constants0
<1>5. CASE server[s].state = "server_restart" /\ handle_server_restart(s)
  BY <1>1, <1>2, <1>5, RestartFrees
<1>6. CASE /\ server[s].state \in {"wait_io", "wait_io_calc_nearest_timeout"}
           /\ handle_wait_io_timeout(s)
  BY <1>1, <1>3, <1>6, SweepFrees, NoBufsFreed
<1>7. CASE server[s].state = "ping" /\ handle_server_ping(s)
  BY <1>1, <1>2, <1>3, <1>7, PingFrees, NoBufsFreed
<1>8. CASE server[s].state = "wait_ping_resp" /\ handle_wait_ping_resp_timeout(s)
  BY <1>1, <1>2, <1>3, <1>8, PingTimeoutFrees, NoBufsFreed
<1>9. CASE /\ server[s].state \in {"wait_ping_resp", "wait_io"}
           /\ \E after_io : handle_wait_io_receive_msg(s, m, after_io)
  <2>1. UNCHANGED flow \/ \E o \in Outcome : flow' = server_process_rcvd_pcp_msg(s, m, o)
    BY <1>9 DEF handle_wait_io_receive_msg
  <2>2. NoBufs'
    BY <1>1, <1>2, <1>3, <1>9, <2>1, ProcessFrees DEF NoBufs
  <2> QED
    BY <2>2, NoBufsFreed
<1>10. CASE server[s].state = "version_negotiation" /\ handle_version_negotiation(s)
  BY <1>1, <1>2, <1>3, <1>10, NegotiationFrees, NoBufsFreed
<1>11. CASE server[s].state = "send_all_msgs" /\ handle_send_all_msgs(s)
  BY <1>1, <1>2, <1>3, <1>4, <1>11, SendEventFrees, NoBufsFreed DEF handle_send_all_msgs
<1>12. CASE server[s].state = "set_not_working" /\ handle_server_set_not_working(s)
  BY <1>1, <1>2, <1>3, <1>4, <1>12, SendEventFrees, NoBufsFreed
     DEF handle_server_set_not_working
<1>13. CASE server[s].state = "not_working" /\ handle_server_not_working(s, m)
  <2>1. UNCHANGED flow \/ \E o \in Outcome : flow' = server_process_rcvd_pcp_msg(s, m, o)
    BY <1>13 DEF handle_server_not_working
  <2>2. NoBufs'
    BY <1>1, <1>2, <1>3, <1>13, <2>1, ProcessFrees DEF NoBufs
  <2> QED
    BY <2>2, NoBufsFreed
<1>14. CASE \/ server[s].state = "server_reping" /\ handle_server_reping(s)
            \/ server[s].state = "allocated" /\ ignore_events(s)
  BY <1>2, <1>14, NoBufsFreed DEF handle_server_reping, ignore_events, NoBufs
<1> QED
  BY <1>5, <1>6, <1>7, <1>8, <1>9, <1>10, <1>11, <1>12, <1>13, <1>14
     DEF run_server_state_machine

\* Between two pulses no flow has a buffer, and the calls of the application
\* make none.
LEMMA ApiFrees == IInv /\ BufferIsFreed /\ API => BufferIsFreed'
<1> SUFFICES ASSUME IInv, BufferIsFreed, API PROVE BufferIsFreed'
  OBVIOUS
<1>1. TypeOK /\ (AtRest => NoBufs)
  <2>1. AtRest => \A s \in Server : server[s].state \notin Transient
    BY QuietServers DEF AtRest, CanPoll
  <2>2. \A f \in Flow : ServerOf(f) \in Server
    BY FlowParts DEF ServerOf
  <2> QED
    BY <2>1, <2>2 DEF IInv, NoBufs, BufferIsFreed, Transient
<1>2. AtRest
  BY DEF API, Call, pcp_init, pcp_add_server, pcp_new_flow, pcp_flow_set_lifetime,
         pcp_flow_set_opt, pcp_close_flow, pcp_delete_flow, pcp_terminate
<1>3. \A f \in Flow : flow[f] \in FlowRec /\ flow[f].buf = NoBuf
  BY <1>1, <1>2 DEF TypeOK, NoBufs
<1> DEFINE made(l, st)  == [pcp_create_flow EXCEPT !.lifetime = l, !.timeout = 0,
                                                   !.state = st]
           lasting(g, l) == [pcp_flow_updated(g) EXCEPT !.lifetime = l]
<1>4. AbsentFlow.buf = NoBuf /\ \A l, st : made(l, st).buf = NoBuf
  BY DEF AbsentFlow, pcp_create_flow
<1>5. ASSUME NEW g \in FlowRec
      PROVE  /\ pcp_flow_updated(g).buf = NoBuf
             /\ \A l : lasting(g, l).buf = NoBuf
             /\ [g EXCEPT !.state = "failed"].buf = g.buf
  BY DEF FlowRec, pcp_flow_updated
<1>6. \A f \in Flow : pcp_close_flow_intern(flow[f]).buf = NoBuf
  BY <1>3, <1>5 DEF pcp_close_flow_intern
<1>7. \A f \in Flow : \/ flow'[f] = flow[f]
                      \/ flow'[f] = AbsentFlow
                      \/ \E l, st : flow'[f] = made(l, st)
                      \/ flow'[f] = pcp_flow_updated(flow[f])
                      \/ \E l : flow'[f] = lasting(flow[f], l)
                      \/ flow'[f] = pcp_close_flow_intern(flow[f])
  <2>1. CASE (\E gws : pcp_init(gws)) \/ \E s, v, ok : pcp_add_server(s, v, ok)
    BY <2>1 DEF pcp_init, pcp_add_server
  <2>2. ASSUME NEW r, NEW l, pcp_new_flow(r, l)
        PROVE  \A f \in Flow : flow'[f] = flow[f] \/ \E st : flow'[f] = made(l, st)
    BY <2>2 DEF pcp_new_flow
  <2>3. CASE \E r, l : pcp_flow_set_lifetime(r, l)
    BY <2>3 DEF pcp_flow_set_lifetime
  <2>4. CASE \E r : pcp_flow_set_opt(r) \/ pcp_close_flow(r) \/ pcp_delete_flow(r)
    BY <2>4 DEF pcp_flow_set_opt, pcp_close_flow, pcp_delete_flow, CloseAll
  <2>5. CASE \E c : pcp_terminate(c)
    BY <2>5 DEF pcp_terminate, CloseAll, Free
  <2> QED
    BY <2>1, <2>2, <2>3, <2>4, <2>5 DEF API
<1> HIDE DEF made, lasting
<1>8. NoBufs'
  BY <1>3, <1>4, <1>5, <1>6, <1>7 DEF NoBufs
<1> QED
  BY <1>8, NoBufsFreed

\* Every step keeps it.
LEMMA NextFrees == IInv /\ PInv /\ BufferIsFreed /\ [Next]_vars => BufferIsFreed'
<1> SUFFICES ASSUME IInv, PInv, BufferIsFreed, [Next]_vars PROVE BufferIsFreed'
  OBVIOUS
<1>1. CASE UNCHANGED vars \/ pcp_pulse_no_msg \/ hserver_next
  BY <1>1 DEF vars, pcp_pulse_no_msg, hserver_next, BufferIsFreed
<1>2. ASSUME NEW s \in Server, NEW m \in Answers, pcp_pulse_recv(s, m)
      PROVE  BufferIsFreed'
  <2>1. m \in Received /\ CanPoll /\ run_server_state_machine(s, "io", m)
    BY <1>2, AnswersAssumption DEF Received, pcp_pulse_recv
  <2> QED
    BY <2>1, MachineFrees
<1>3. CASE hserver_iter
  <2>1. NoAnswer \in Received /\ pulse.s \in Server
    BY DEF Received, IInv, TypeOK, PulseRec
  <2> QED
    BY <1>3, <2>1, MachineFrees DEF hserver_iter
<1>4. CASE pcp_terminate_end
  <2>1. AbsentFlow.buf = NoBuf
    BY DEF AbsentFlow
  <2>2. NoBufs'
    BY <1>4, <2>1 DEF pcp_terminate_end, Free, NoBufs
  <2> QED
    BY <2>2, NoBufsFreed
<1>5. CASE Tick
  <2>1. \A t \in Timer : Expired(t) => Expired(AgeTimer(t))
    BY NoTimerAssumption DEF Timer, AgeTimer, Expired
  <2>2. \A f \in Flow : /\ flow'[f].timeout = AgeTimer(flow[f].timeout)
                        /\ flow'[f].state = flow[f].state /\ flow'[f].buf = flow[f].buf
                        /\ flow[f].timeout \in Timer /\ ServerOf(f) \in Server
    BY <1>5, FlowParts DEF Tick, IInv, TypeOK, FlowRec, ServerOf
  <2>3. \A s \in Server : /\ server'[s].state = server[s].state
                          /\ server'[s].pcp_version = server[s].pcp_version
    BY <1>5 DEF Tick, IInv, TypeOK, ServerRec
  <2> QED
    BY <2>1, <2>2, <2>3 DEF BufferIsFreed
<1> QED
  BY <1>1, <1>2, <1>3, <1>4, <1>5, ApiFrees DEF Next, Pulse

\* A message buffer outlives the event it was built in only on the flow whose
\* answer revealed a restart, and then no longer than until the sweep that ends
\* the same pulse, which sends it in the version it was built for.
THEOREM BuffersAreFreed == Spec => []BufferIsFreed
<1>1. Init => BufferIsFreed
  <2>1. AbsentFlow.buf = NoBuf
    BY DEF AbsentFlow
  <2> QED
    BY <2>1 DEF Init, BufferIsFreed
<1> QED
  BY <1>1, InitIInv, NextIInv, InitPInv, NextPInv, NextFrees, PTL DEF Spec

-----------------------------------------------------------------------------
(* Falling back to NAT-PMP.  Version 0 is reached only by negotiation, which *)
(* pings with a new ANNOUNCE flow at once, and is given up before the server *)
(* is pinged with anything else: a server in pss_ping speaks PCP.  No call   *)
(* of the application can delete an ANNOUNCE flow.                           *)

\* What FallbackPingsWithAnnounce rests on for the record sv of the server s,
\* the ANNOUNCE slots of free being unused.
FallsBack(s, sv, free) ==
    /\ sv.state = "ping" => sv.pcp_version # 0
    /\ sv.state = "wait_ping_resp" /\ sv.pcp_version = 0
          => sv.ping_flow_msg \in Ann \X {s}
    /\ sv.state = "version_negotiation" /\ sv.pcp_version # 0
       /\ NextVersion(sv.pcp_version, sv.next_version) = 0 => free # {}

FallbackInv == \A s \in Server : FallsBack(s, server[s], FreeAnn(s))

\* A step of the machine of s that leaves sv behind.
LEMMA FallbackServed ==
    ASSUME IInv, FallbackInv, NEW s \in Server, CanPoll \/ pulse.s = s,
           NEW sv, server' = [server EXCEPT ![s] = sv], FallsBack(s, sv, FreeAnn(s)')
    PROVE  FallbackInv'
<1>1. server'[s] = sv /\ \A t \in Server : t # s => server'[t] = server[t]
  BY DEF IInv, TypeOK
<1>2. \A t \in Server : t # s => server[t].state \notin Transient
  BY DEF IInv, TransientIsServed, CanPoll
<1> QED
  BY <1>1, <1>2 DEF FallbackInv, FallsBack, Transient

\* A step that changes no state, version or ANNOUNCE pointer, between pulses or
\* while the flows stay as they are.
LEMMA FallbackKept ==
    ASSUME FallbackInv,
           \A s \in Server :
              /\ server'[s].state = server[s].state
              /\ server'[s].pcp_version = server[s].pcp_version
              /\ server'[s].next_version = server[s].next_version
              /\ \/ server'[s].ping_flow_msg = server[s].ping_flow_msg
                 \/ server[s].ping_flow_msg \notin Ann \X {s}
              /\ \/ server[s].state # "version_negotiation"
                 \/ FreeAnn(s)' = FreeAnn(s)
    PROVE  FallbackInv'
<1> SUFFICES ASSUME NEW s \in Server
             PROVE  FallsBack(s, server'[s], FreeAnn(s)')
  BY DEF FallbackInv
<1>1. FallsBack(s, server[s], FreeAnn(s))
  BY DEF FallbackInv
<1> QED
  BY <1>1 DEF FallsBack

\* All of server_sm; an answer that leads to NAT-PMP comes while there is an
\* ANNOUNCE slot left.
LEMMA MachineFallsBack ==
    ASSUME IInv, FallbackInv, NEW s \in Server, CanPoll \/ pulse.s = s,
           NEW ev \in {"io", "timeout"}, NEW m \in Received,
           ev = "io" => WithinAnn(s, m),
           run_server_state_machine(s, ev, m)
    PROVE  FallbackInv'
<1>1. /\ server[s] \in ServerRec /\ server[s].pcp_version \in Version
      /\ FallsBack(s, server[s], FreeAnn(s))
  BY ServerFields DEF IInv, TypeOK, FallbackInv
<1> DEFINE Leaves(sv) == server' = [server EXCEPT ![s] = sv]
           Elsewhere == {"set_not_working", "send_all_msgs", "server_restart", "wait_io",
                         "wait_io_calc_nearest_timeout", "not_working", "server_reping",
                         "allocated"}
<1>2. ASSUME NEW sv, Leaves(sv), FallsBack(s, sv, FreeAnn(s)')
      PROVE  FallbackInv'
  BY <1>2, FallbackServed
<1>3. ASSUME NEW sv, Leaves(sv), sv.state \in Elsewhere
      PROVE  FallbackInv'
  BY <1>2, <1>3 DEF FallsBack
<1> HIDE DEF Elsewhere
<1>4. CASE server[s].state = "ping" /\ handle_server_ping(s)
  <2> DEFINE sv1(p, t) == [server[s] EXCEPT !.ping_count = 0, !.ping_flow_msg = p,
                                            !.next_timeout = t]
             sv2(p, t) == [server[s] EXCEPT !.ping_count = 0, !.ping_flow_msg = p,
                                            !.next_timeout = t,
                                            !.state = "wait_ping_resp"]
  <2>1. \E p, t : Leaves(sv1(p, t)) \/ Leaves(sv2(p, t))
    BY <1>1, <1>4 DEF handle_server_ping, Put
  <2>2. ASSUME NEW p, NEW t
        PROVE  FallsBack(s, sv1(p, t), FreeAnn(s)') /\ FallsBack(s, sv2(p, t), FreeAnn(s)')
    BY <1>1, <1>4 DEF FallsBack, ServerRec
  <2> HIDE DEF sv1, sv2
  <2> QED
    BY <1>2, <2>1, <2>2
<1>5. CASE server[s].state = "wait_ping_resp" /\ handle_wait_ping_resp_timeout(s)
  <2> DEFINE n  == IF server[s].ping_count < MaxPing THEN server[s].ping_count + 1
                   ELSE MaxPing
             sv == [server[s] EXCEPT !.ping_count = n]
             sv1 == [sv EXCEPT !.next_timeout = 0, !.state = "set_not_working"]
             sv2 == [sv EXCEPT !.next_timeout = 0, !.state = "ping"]
             sv3(t) == [sv EXCEPT !.next_timeout = t]
  <2>1. sv = [server[s] EXCEPT !.ping_count = IF @ < MaxPing THEN @ + 1 ELSE MaxPing]
    OBVIOUS
  <2>2. \/ Leaves(sv1)
        \/ server[s].ping_flow_msg = NoFlow /\ Leaves(sv2)
        \/ \E t : Leaves(sv3(t))
    BY <1>5, <2>1 DEF handle_wait_ping_resp_timeout, Put
  <2> HIDE DEF n
  <2>3. NoFlow \notin Ann \X {s}
    BY SlotAssumption DEF Flow
  <2>4. sv1.state \in Elsewhere
    BY <1>1 DEF ServerRec, Elsewhere
  <2>5. ASSUME server[s].ping_flow_msg = NoFlow
        PROVE  FallsBack(s, sv2, FreeAnn(s)')
    BY <1>1, <1>5, <2>3, <2>5 DEF FallsBack, ServerRec
  <2>6. \A t : FallsBack(s, sv3(t), FreeAnn(s)')
    BY <1>1, <1>5 DEF FallsBack, ServerRec
  <2> HIDE DEF sv, sv1, sv2, sv3
  <2> QED
    BY <1>2, <1>3, <2>2, <2>4, <2>5, <2>6
<1>6. CASE /\ ev = "io"
           /\ \E after_io \in {"send_all_msgs", "wait_io_calc_nearest_timeout"} :
                 handle_wait_io_receive_msg(s, m, after_io)
  <2> DEFINE sv1 == [server[s] EXCEPT !.next_timeout = 0, !.next_version = m.version,
                                      !.state = "version_negotiation"]
  <2>1. \/ UNCHANGED flow /\ m.result = "unsupp_version" /\ Leaves(sv1)
        \/ Leaves([server[s] EXCEPT !.next_timeout = 0, !.state = "set_not_working"])
        \/ Leaves([server[s] EXCEPT !.epoch = m.epoch, !.next_timeout = 0,
                                    !.restart_flow_msg = FlowOfAnswer(s, m),
                                    !.state = "server_restart"])
        \/ \E a \in {"send_all_msgs", "wait_io_calc_nearest_timeout"} :
              Leaves([server[s] EXCEPT !.epoch = m.epoch, !.next_timeout = 0, !.state = a])
    BY <1>6 DEF handle_wait_io_receive_msg, Put
  <2>2. /\ [server[s] EXCEPT !.next_timeout = 0, !.state = "set_not_working"].state
             \in Elsewhere
        /\ [server[s] EXCEPT !.epoch = m.epoch, !.next_timeout = 0,
                             !.restart_flow_msg = FlowOfAnswer(s, m),
                             !.state = "server_restart"].state \in Elsewhere
        /\ \A a \in {"send_all_msgs", "wait_io_calc_nearest_timeout"} :
              [server[s] EXCEPT !.epoch = m.epoch, !.next_timeout = 0, !.state = a].state
                 \in Elsewhere
    BY <1>1 DEF ServerRec, Elsewhere
  <2>3. ASSUME UNCHANGED flow, m.result = "unsupp_version"
        PROVE  FallsBack(s, sv1, FreeAnn(s)')
    <3>1. FreeAnn(s)' = FreeAnn(s)
      BY <2>3 DEF FreeAnn, Live
    <3>2. /\ sv1.state = "version_negotiation" /\ sv1.next_version = m.version
          /\ sv1.pcp_version = server[s].pcp_version
      BY <1>1 DEF ServerRec
    <3>3. m.version \in Version
      BY ReceivedFields
    <3>4. ASSUME server[s].pcp_version # 0,
                 NextVersion(server[s].pcp_version, m.version) = 0
          PROVE  FreeAnn(s) # {}
      <4>1. m.version = 0 \/ (m.version = 1 /\ server[s].pcp_version = 1)
        <5>1. server[s].pcp_version \in Version
          BY <1>1 DEF ServerRec
        <5> QED
          BY <3>3, <3>4, <5>1 DEF NextVersion, Version
      <4> QED
        BY <1>6, <2>3, <3>4, <4>1 DEF WithinAnn
    <3> QED
      BY <3>1, <3>2, <3>4 DEF FallsBack
  <2> HIDE DEF sv1
  <2> QED
    BY <1>2, <1>3, <2>1, <2>2, <2>3
<1>7. CASE server[s].state = "version_negotiation" /\ handle_version_negotiation(s)
  <2> DEFINE v    == server[s].pcp_version
             next == NextVersion(v, server[s].next_version)
             sv   == [server[s] EXCEPT !.next_version = next]
             sw   == [sv EXCEPT !.pcp_version = next]
  <2>1. \/ Leaves([sv EXCEPT !.state = "set_not_working"])
        \/ \E f \in NegotiationPing(s, next) :
              \/ Leaves([sw EXCEPT !.ping_flow_msg = f, !.state = "set_not_working"])
              \/ \E t : Leaves([sw EXCEPT !.ping_flow_msg = f, !.next_timeout = t,
                                          !.state = "wait_ping_resp"])
        \/ /\ v # 0 /\ NegotiationPing(s, next) = {}
           /\ Leaves([sw EXCEPT !.next_timeout = NoTimer, !.state = "ping"])
    BY <1>7 DEF handle_version_negotiation, Put
  <2>2. next = 0 => NegotiationPing(s, next) = FreeAnn(s)
    BY DEF NegotiationPing
  <2>3. FreeAnn(s) \subseteq Ann \X {s}
    BY DEF FreeAnn
  <2>4. v # 0 /\ next = 0 => FreeAnn(s) # {}
    BY <1>1, <1>7 DEF FallsBack
  <2> HIDE DEF next
  <2>5. /\ [sv EXCEPT !.state = "set_not_working"].state \in Elsewhere
        /\ \A f : [sw EXCEPT !.ping_flow_msg = f, !.state = "set_not_working"].state
                     \in Elsewhere
    BY <1>1 DEF ServerRec, Elsewhere
  <2>6. ASSUME NEW f \in NegotiationPing(s, next), NEW t
        PROVE  FallsBack(s, [sw EXCEPT !.ping_flow_msg = f, !.next_timeout = t,
                                       !.state = "wait_ping_resp"], FreeAnn(s)')
    BY <1>1, <2>2, <2>3 DEF FallsBack, ServerRec
  <2>7. ASSUME v # 0, NegotiationPing(s, next) = {}
        PROVE  FallsBack(s, [sw EXCEPT !.next_timeout = NoTimer, !.state = "ping"],
                         FreeAnn(s)')
    BY <1>1, <2>2, <2>4, <2>7 DEF FallsBack, ServerRec
  <2> HIDE DEF sv, sw, v
  <2> QED
    BY <1>2, <1>3, <2>1, <2>5, <2>6, <2>7
<1>8. CASE server[s].state = "server_reping" /\ handle_server_reping(s)
  <2> DEFINE sv == [server[s] EXCEPT !.pcp_version = 2, !.next_timeout = 0,
                                     !.state = "ping"]
  <2>1. Leaves(sv)
    BY <1>8 DEF handle_server_reping, Put
  <2>2. sv.state = "ping" /\ sv.pcp_version = 2
    BY <1>1 DEF ServerRec
  <2> HIDE DEF sv
  <2>3. FallsBack(s, sv, FreeAnn(s)')
    BY <2>2 DEF FallsBack
  <2> QED
    BY <1>2, <2>1, <2>3
<1>9. CASE handle_send_all_msgs(s) \/ handle_server_restart(s)
  <2> DEFINE sv1 == [server[s] EXCEPT !.next_timeout = 0,
                                      !.state = "wait_io_calc_nearest_timeout"]
             sv2 == [server[s] EXCEPT !.restart_flow_msg = NoFlow, !.next_timeout = 0,
                                      !.state = "wait_io_calc_nearest_timeout"]
  <2>1. Leaves(sv1) \/ Leaves(sv2)
    BY <1>9 DEF handle_send_all_msgs, handle_server_restart, Put
  <2>2. sv1.state \in Elsewhere /\ sv2.state \in Elsewhere
    BY <1>1 DEF ServerRec, Elsewhere
  <2> HIDE DEF sv1, sv2
  <2> QED
    BY <1>3, <2>1, <2>2
<1>10. CASE handle_server_set_not_working(s) \/ handle_wait_io_timeout(s)
  <2> DEFINE sv(t, st) == [server[s] EXCEPT !.next_timeout = t, !.state = st]
  <2>1. \E t, st : st \in {"not_working", "wait_io"} /\ Leaves(sv(t, st))
    BY <1>10 DEF handle_server_set_not_working, handle_wait_io_timeout, Put
  <2>2. \A t, st : st \in {"not_working", "wait_io"} => sv(t, st).state \in Elsewhere
    BY <1>1 DEF ServerRec, Elsewhere
  <2> HIDE DEF sv
  <2> QED
    BY <1>3, <2>1, <2>2
<1>11. CASE server[s].state = "not_working" /\ handle_server_not_working(s, m)
  <2> DEFINE sv1 == [server[s] EXCEPT !.epoch = m.epoch, !.next_timeout = 0,
                                      !.restart_flow_msg = FlowOfAnswer(s, m),
                                      !.state = "server_restart"]
             sv2 == [server[s] EXCEPT !.next_timeout = 0, !.state = "server_reping"]
  <2>1. Leaves(server[s]) \/ Leaves(sv1) \/ Leaves(sv2)
    BY <1>11 DEF handle_server_not_working, Put, IInv, TypeOK
  <2>2. /\ sv1.state \in Elsewhere /\ sv2.state \in Elsewhere
        /\ server[s].state \in Elsewhere
    BY <1>1, <1>11 DEF ServerRec, Elsewhere
  <2> HIDE DEF sv1, sv2
  <2> QED
    BY <1>3, <2>1, <2>2
<1>12. CASE server[s].state = "allocated" /\ ignore_events(s)
  <2> DEFINE sv == [server[s] EXCEPT !.next_timeout = NoTimer]
  <2>1. Leaves(sv)
    BY <1>12 DEF ignore_events, Put
  <2>2. sv.state \in Elsewhere
    BY <1>1, <1>12 DEF ServerRec, Elsewhere
  <2> HIDE DEF sv
  <2> QED
    BY <1>3, <2>1, <2>2
<1> QED
  BY <1>4, <1>5, <1>6, <1>7, <1>8, <1>9, <1>10, <1>11, <1>12 DEF run_server_state_machine

\* The calls of the application: they ask for no server with version 0, and
\* delete only flows of requests.
LEMMA ApiFallsBack ==
    ASSUME IInv, FallbackInv, 0 \notin AddVersions, API
    PROVE  FallbackInv'
<1>1. TypeOK /\ \A s \in Server : server[s] \in ServerRec
  BY DEF IInv, TypeOK
<1>2. AtRest => \A s \in Server : server[s].state # "version_negotiation"
  BY QuietServers DEF AtRest, CanPoll, Transient
<1>3. AtRest
  BY DEF API, Call, pcp_init, pcp_add_server, pcp_new_flow, pcp_flow_set_lifetime,
         pcp_flow_set_opt, pcp_close_flow, pcp_delete_flow, pcp_terminate
<1> DEFINE woken(s) == [server[s] EXCEPT !.next_timeout = 0]
<1>4. \A s \in Server : /\ woken(s).state = server[s].state
                        /\ woken(s).pcp_version = server[s].pcp_version
                        /\ woken(s).next_version = server[s].next_version
                        /\ woken(s).ping_flow_msg = server[s].ping_flow_msg
  BY <1>1 DEF ServerRec
<1> HIDE DEF woken
<1>5. ASSUME \A s \in Server : server'[s] = server[s] \/ server'[s] = woken(s)
      PROVE  FallbackInv'
  <2>1. \A s \in Server : /\ server'[s].state = server[s].state
                          /\ server'[s].pcp_version = server[s].pcp_version
                          /\ server'[s].next_version = server[s].next_version
                          /\ server'[s].ping_flow_msg = server[s].ping_flow_msg
    BY <1>4, <1>5
  <2> QED
    BY <1>2, <1>3, <2>1, FallbackKept
<1>6. ASSUME \A s \in Server : server'[s].state \in {"ping", "allocated", "uninitialized"},
             \A s \in Server : server'[s].state = "ping" => server'[s].pcp_version # 0
      PROVE  FallbackInv'
  BY <1>6 DEF FallbackInv, FallsBack
<1>7. UnusedServer.state = "uninitialized"
  BY DEF UnusedServer
<1>8. ASSUME NEW gws, pcp_init(gws)
      PROVE  FallbackInv'
  <2> DEFINE new(st) == [UnusedServer EXCEPT !.state = st, !.pcp_version = 2]
  <2>1. \A st : new(st).state = st /\ new(st).pcp_version = 2
    BY DEF UnusedServer
  <2>2. \A s \in Server : server'[s] \in {UnusedServer, new("ping"), new("allocated")}
    BY <1>8 DEF pcp_init
  <2> HIDE DEF new
  <2> QED
    BY <1>6, <1>7, <2>1, <2>2
<1>9. ASSUME NEW s \in Server, NEW v \in AddVersions, NEW ok \in BOOLEAN,
             pcp_add_server(s, v, ok)
      PROVE  FallbackInv'
  <2> DEFINE sv  == [server[s] EXCEPT !.epoch = IF InUse(s) THEN @ ELSE NoEpoch,
                                      !.pcp_version = v]
             sv1 == [sv EXCEPT !.state = "ping", !.next_timeout = NoTimer]
             sv2 == [sv EXCEPT !.state = "uninitialized"]
  <2>1. \E w \in {sv1, sv2} : server' = [server EXCEPT ![s] = w]
    BY <1>9 DEF pcp_add_server, Put
  <2>2. sv1.state = "ping" /\ sv1.pcp_version = v /\ sv2.state = "uninitialized"
    BY <1>1 DEF ServerRec
  <2>3. v # 0
    OBVIOUS
  <2> HIDE DEF sv, sv1, sv2
  <2>4. \A w \in {sv1, sv2} : FallsBack(s, w, FreeAnn(s)')
    BY <2>2, <2>3 DEF FallsBack
  <2> QED
    BY <1>3, <2>1, <2>4, FallbackServed DEF AtRest, CanPoll
<1>10. ASSUME NEW r \in Request, pcp_delete_flow(r)
       PROVE  FallbackInv'
  <2>1. \A s \in Server : server[s].ping_flow_msg \in ChainOf(r) =>
                             server[s].ping_flow_msg \notin Ann \X {s}
    BY SlotAssumption DEF ChainOf
  <2>2. \A s \in Server :
           LET sv == [server[s] EXCEPT !.ping_flow_msg = NoFlow]
           IN  /\ sv.state = server[s].state /\ sv.pcp_version = server[s].pcp_version
               /\ sv.next_version = server[s].next_version
    BY <1>1 DEF ServerRec
  <2>3. \A s \in Server :
           \/ server'[s] = server[s]
           \/ /\ server[s].ping_flow_msg \in ChainOf(r)
              /\ server'[s] = [server[s] EXCEPT !.ping_flow_msg = NoFlow]
    BY <1>10 DEF pcp_delete_flow
  <2> QED
    BY <1>2, <1>3, <2>1, <2>2, <2>3, FallbackKept
<1>11. CASE \E r \in Request, life \in Lifetimes :
               pcp_new_flow(r, life) \/ pcp_flow_set_lifetime(r, life)
  BY <1>5, <1>11 DEF pcp_new_flow, pcp_flow_set_lifetime, Wake, woken
<1>12. CASE \E r \in Request : pcp_flow_set_opt(r) \/ pcp_close_flow(r)
  BY <1>5, <1>12 DEF pcp_flow_set_opt, pcp_close_flow, CloseAll, Wake, woken
<1>13. ASSUME NEW c \in BOOLEAN, pcp_terminate(c)
       PROVE  FallbackInv'
  <2>1. CASE c
    BY <1>5, <1>13, <2>1 DEF pcp_terminate, CloseAll, Wake, woken
  <2>2. CASE ~c
    BY <1>6, <1>7, <1>13, <2>2 DEF pcp_terminate, Free
  <2> QED
    BY <2>1, <2>2
<1> QED
  BY <1>8, <1>9, <1>10, <1>11, <1>12, <1>13 DEF API

\* Every step keeps it.
LEMMA NextFallsBack ==
    ASSUME IInv, FallbackInv, 0 \notin AddVersions, [Next]_vars
    PROVE  FallbackInv'
<1>1. CASE UNCHANGED vars \/ pcp_pulse_no_msg \/ hserver_next
  BY <1>1 DEF vars, pcp_pulse_no_msg, hserver_next, FallbackInv, FreeAnn, Live
<1>2. ASSUME NEW s \in Server, NEW m \in Answers, pcp_pulse_recv(s, m)
      PROVE  FallbackInv'
  <2>1. /\ m \in Received /\ CanPoll /\ WithinAnn(s, m)
        /\ run_server_state_machine(s, "io", m)
    BY <1>2, AnswersAssumption DEF Received, pcp_pulse_recv
  <2> QED
    BY <2>1, MachineFallsBack
<1>3. CASE hserver_iter
  <2>1. NoAnswer \in Received /\ pulse.s \in Server
    BY DEF Received, IInv, TypeOK, PulseRec
  <2> QED
    BY <1>3, <2>1, MachineFallsBack DEF hserver_iter
<1>4. CASE pcp_terminate_end
  <2>1. \A s \in Server : server'[s].state = "uninitialized"
    BY <1>4 DEF pcp_terminate_end, Free, UnusedServer
  <2> QED
    BY <2>1 DEF FallbackInv, FallsBack
<1>5. CASE Tick
  <2>1. \A f \in Flow : flow'[f].state = flow[f].state
    BY <1>5 DEF Tick, IInv, TypeOK, FlowRec
  <2>2. \A s \in Server : /\ server'[s].state = server[s].state
                          /\ server'[s].pcp_version = server[s].pcp_version
                          /\ server'[s].next_version = server[s].next_version
                          /\ server'[s].ping_flow_msg = server[s].ping_flow_msg
    BY <1>5 DEF Tick, IInv, TypeOK, ServerRec
  <2>3. \A s \in Server : FreeAnn(s)' = FreeAnn(s)
    BY <2>1 DEF FreeAnn, Live, Flow
  <2> QED
    BY <2>2, <2>3, FallbackKept
<1> QED
  BY <1>1, <1>2, <1>3, <1>4, <1>5, ApiFallsBack DEF Next, Pulse

\* A server that was not added with version 0 is asked in version 0 only after
\* a fall back, and then it is an ANNOUNCE that it is waited for, whatever the
\* application does to its flows meanwhile.
THEOREM FallbacksAnnounce ==
    ASSUME 0 \notin AddVersions
    PROVE  Spec => []FallbackPingsWithAnnounce
<1>1. Init => FallbackInv
  <2>1. Init => \A s \in Server : server[s].state = "uninitialized"
    BY DEF Init, UnusedServer
  <2> QED
    BY <2>1 DEF FallbackInv, FallsBack
<1>2. IInv /\ FallbackInv /\ [Next]_vars => FallbackInv'
  BY NextFallsBack
<1>3. FallbackInv => FallbackPingsWithAnnounce
  BY DEF FallbackInv, FallsBack, FallbackPingsWithAnnounce, FlowOp
<1> QED
  BY <1>1, <1>2, <1>3, InitIInv, NextIInv, PTL DEF Spec

=============================================================================
