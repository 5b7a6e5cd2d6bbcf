--------------------------- MODULE Renewal_proofs ---------------------------
(***************************************************************************)
(* TimerCoversFlows and MappingIsAlive in the environment of Renewal, for  *)
(* any requests, lifetimes, faults of sendto and retransmission intervals. *)
(***************************************************************************)
EXTENDS Renewal, PcpClient_proofs

\* A flow that holds a mapping has a timer, which is due before the mapping ends.
Alive(g) == g.state = "wait_for_lifetime_renew" =>
                /\ g.timeout # NoTimer
                /\ g.timeout >= 0
                /\ g.timeout < g.recv_lifetime

\* A flow that was given up has no timer.
Spent(g) == g.state = "failed" => g.timeout = NoTimer

Healthy(g) == Alive(g) /\ Spent(g)

\* The timer of a flow is not set, or ahead.
Ahead(g) == g.timeout # NoTimer => g.timeout > 0

\* The context of a flow whose server has not restarted.
Steady(x) == x \in Context /\ ~x.mark /\ (IRT >= 2 \/ x.rand <= 1024)

-----------------------------------------------------------------------------
(* One flow.                                                                *)

\* An interval before a request is sent again takes some time.
LEMMA IntervalAhead ==
    ASSUME NEW x, Steady(x), NEW t \in Interval(x)
    PROVE  t \in Nat /\ t # NoTimer /\ t > 0
<1>1. x \in Context /\ (IRT >= 2 \/ x.rand <= 1024) /\ x.rand \in 0 .. RandMask
  BY ContextFields DEF Steady
<1>2. t \in Nat /\ t # NoTimer
  BY <1>1, IntervalType, NoTimerAssumption
<1>3. ASSUME NEW rt \in Nat PROVE PCP_RT(rt, x.rand) > 0
  <2>1. Clamp(2 * rt) \in Nat /\ Clamp(2 * rt) >= IRT /\ IRT \in Nat /\ IRT >= 1
    BY RetxAssumption DEF Clamp
  <2>2. 8192 + (1024 - x.rand) \in Nat /\ 8192 + (1024 - x.rand) >= 7169
        /\ (x.rand <= 1024 => 8192 + (1024 - x.rand) >= 8192)
    <3>1. PICK n \in 0 .. RandMask : n = x.rand
      BY <1>1
    <3>2. /\ 8192 + (1024 - n) \in Nat /\ 8192 + (1024 - n) >= 7169
          /\ n <= 1024 => 8192 + (1024 - n) >= 8192
      BY DEF RandMask
    <3> QED
      BY <3>1, <3>2
  <2>3. ASSUME NEW a \in Nat, NEW b \in Nat, (a >= 8192 /\ b >= 1) \/ (a >= 7169 /\ b >= 2)
        PROVE  (a * b) \div 8192 > 0
    <3>1. a * b \in Nat /\ a * b >= 8192
      <4>1. CASE a >= 8192 /\ b >= 1
        <5>1. a * b >= a * 1
          BY <4>1
        <5> QED
          BY <4>1, <5>1
      <4>2. CASE a >= 7169 /\ b >= 2
        <5>1. a * b >= a * 2
          BY <4>2
        <5> QED
          BY <4>2, <5>1
      <4> QED
        BY <2>3, <4>1, <4>2
    <3>2. \A n \in Nat : n >= 8192 => n \div 8192 > 0
      OBVIOUS
    <3> QED
      BY <3>1, <3>2
  <2>4. ((8192 + (1024 - x.rand)) * Clamp(2 * rt)) \div 8192 > 0
    BY <1>1, <2>1, <2>2, <2>3
  <2> QED
    BY <2>4 DEF PCP_RT
<1>4. IRT > 0
  BY RetxAssumption
<1> QED
  BY <1>2, <1>3, <1>4 DEF Interval

\* The handler of a renewal keeps what was granted, and half of it is the timer.
LEMMA RenewGrant ==
    ASSUME NEW c \in Chain, NEW x \in Context
    PROVE  LET e == fhndl_send_renew(c, x)
               t == c.f.recv_lifetime \div 2
           IN  e.ev = "msg_sent" => /\ e.f.recv_lifetime = c.f.recv_lifetime
                                    /\ e.f.timeout = t /\ t # 0
<1> DEFINE t == c.f.recv_lifetime \div 2
           d == pcp_flow_send_msg(c, x)
<1>1. d \in Chain /\ d.f.recv_lifetime = c.f.recv_lifetime
  BY SendMsg, ChainFields DEF pcp_flow_send_msg, Chain, FlowRec
<1>2. fhndl_send_renew(c, x) =
        IF ~x.present THEN Raise(c, "do_fail")
        ELSE IF ~SendOk(c, x) THEN Raise(d, "do_fail")
        ELSE IF t = 0 THEN WithTimeout(d, "do_fail", 0)
        ELSE WithTimeout(d, "msg_sent", t)
  BY DEF fhndl_send_renew, WithTimeout
<1> HIDE DEF t, d
<1>3. Raise(c, "do_fail").ev = "do_fail" /\ Raise(d, "do_fail").ev = "do_fail"
  BY <1>1, RaiseKeeps, EventNames
<1>4. /\ WithTimeout(d, "do_fail", 0).ev = "do_fail"
      /\ WithTimeout(d, "msg_sent", t).f.recv_lifetime = d.f.recv_lifetime
      /\ WithTimeout(d, "msg_sent", t).f.timeout = t
  BY <1>1, ChainFields DEF WithTimeout, Chain, FlowRec
<1> QED
  BY <1>1, <1>2, <1>3, <1>4 DEF t

\* A renewal that cannot be sent, or that has no time left, becomes a new
\* request; one that was sent leaves the mapping with a later timer.
LEMMA RenewEnds ==
    ASSUME NEW f \in FlowRec, NEW ev \in FirstEvent, NEW x \in Context, ~x.mark,
           NEW answered \in BOOLEAN, NextState(f.state, ev) = "send_renew",
           f.recv_lifetime > 0
    PROVE  LET r == RunChain(f, ev, x, answered)
           IN  \/ r.f.state \in {"wait_resp", "failed"}
               \/ /\ r.f.state = "wait_for_lifetime_renew"
                  /\ r.f.timeout \in Int /\ r.f.timeout > 0
                  /\ r.f.timeout < r.f.recv_lifetime
<1> SUFFICES ASSUME NEW c0, c0 = StartChain(f, ev),
                    NEW c1, c1 = Step(c0, x, answered),
                    NEW c2, c2 = Step(c1, x, answered),
                    NEW r, r = Step(c2, x, answered)
             PROVE  \/ r.f.state \in {"wait_resp", "failed"}
                    \/ /\ r.f.state = "wait_for_lifetime_renew"
                       /\ r.f.timeout \in Int /\ r.f.timeout > 0
                       /\ r.f.timeout < r.f.recv_lifetime
  BY DEF RunChain
<1>1. ev \in FlowEvent /\ ev # "none"
  BY FlowFields, FirstEventNext
<1>2. /\ Sound(c0) /\ c0.ev = ev /\ c0.sends = 0 /\ c0.cur = f.state /\ c0 \in Chain
      /\ c0.f = f
  BY <1>1, StartSound DEF Sound
<1> DEFINE d == Enter(c0, "send_renew")
<1>3. /\ d \in Chain /\ d.cur = "send_renew" /\ d.f.state = "send_renew"
      /\ d.f.recv_lifetime = f.recv_lifetime
  <2>1. "send_renew" \in FlowState
    BY DEF FlowState
  <2>2. d.f.recv_lifetime = c0.f.recv_lifetime
    BY <1>2, ChainFields DEF Enter, Chain, FlowRec
  <2> QED
    BY <1>2, <2>1, <2>2, EnterState
<1>4. c1 = fhndl_send_renew(d, x)
  <2>1. c1 = Transition(d, c0.cur, "send_renew", x, answered)
    BY <1>1, <1>2 DEF Step, Enter
  <2> QED
    BY <2>1 DEF Transition
<1> HIDE DEF d
<1>5. /\ c1 \in Chain /\ c1.cur = "send_renew" /\ c1.f.state = "send_renew"
      /\ c1.ev \in {"do_fail", "msg_sent"}
  BY <1>3, <1>4, RenewHandler DEF Keeps
<1>6. CASE c1.ev = "do_fail"
  <2>1. NextState(c1.cur, c1.ev) = "send" /\ c1.ev # "none" /\ "send" \in FlowState
    BY <1>5, <1>6, RaisedEventNext DEF FlowState
  <2>2. Handled(Enter(c1, "send"), c2, "send", x)
    BY <1>5, <2>1, StepCases
  <2>3. Enter(c1, "send").cur = "send" /\ Enter(c1, "send").f.state = "send"
    BY <1>5, <2>1, EnterState
  <2>4. /\ Sound(c2) /\ Sending(c2) /\ Timed(c2, x)
        /\ c2.cur = "send" /\ c2.ev \in {"do_fail", "msg_sent"}
    BY <2>2, <2>3 DEF Handled, Keeps, Sound, Sending
  <2>5. Sound(r) /\ r.cur = NextState(c2.cur, c2.ev)
    BY <2>4, RoundAfterSend
  <2> QED
    BY <2>4, <2>5, RaisedEventNext DEF Sound
<1>7. CASE c1.ev = "msg_sent"
  <2>1. /\ NextState(c1.cur, c1.ev) = "wait_for_lifetime_renew" /\ c1.ev # "none"
        /\ "wait_for_lifetime_renew" \in FlowState
    BY <1>5, <1>7, RaisedEventNext DEF FlowState
  <2> DEFINE e == Enter(c1, "wait_for_lifetime_renew")
  <2>2. /\ e \in Chain /\ e.f.state = "wait_for_lifetime_renew"
        /\ e.f.timeout = c1.f.timeout /\ e.f.recv_lifetime = c1.f.recv_lifetime
    <3>1. e.f.recv_lifetime = c1.f.recv_lifetime
      BY <1>5, ChainFields DEF Enter, Chain, FlowRec
    <3> QED
      BY <1>5, <2>1, <3>1, EnterState
  <2>3. c2 = Raise(e, "none")
    <3>1. c2 = Transition(e, c1.cur, "wait_for_lifetime_renew", x, answered)
      BY <2>1 DEF Step, Enter
    <3> QED
      BY <1>5, <3>1 DEF Transition
  <2> HIDE DEF e
  <2>4. c2.f = e.f /\ Over(c2)
    BY <2>2, <2>3, RaiseKeeps, EventNames DEF Over
  <2>5. r = c2
    BY <2>4, OverStays
  <2>6. f.recv_lifetime \in Int
    BY FlowFields
  <2>7. c1.f.recv_lifetime = f.recv_lifetime
        /\ c1.f.timeout = f.recv_lifetime \div 2 /\ c1.f.timeout # 0
    BY <1>3, <1>4, <1>7, RenewGrant
  <2>8. \A n \in Int : n > 0 => n \div 2 \in Int /\ n \div 2 >= 0 /\ n \div 2 < n
    OBVIOUS
  <2> QED
    BY <2>2, <2>4, <2>5, <2>6, <2>7, <2>8
<1> QED
  BY <1>5, <1>6, <1>7

\* A transition to a state that a flow stays in ends the loop at once.
LEMMA EndsThere ==
    ASSUME NEW f \in FlowRec, NEW ev \in FirstEvent, NEW x \in Context,
           NEW answered \in BOOLEAN, NEW to \in Settling \ {"wait_resp"},
           NextState(f.state, ev) = to
    PROVE  LET c == Step(StartChain(f, ev), x, answered)
           IN  RunChain(f, ev, x, answered) = c /\ c.f.state = to
<1> SUFFICES ASSUME NEW c0, c0 = StartChain(f, ev),
                    NEW c1, c1 = Step(c0, x, answered)
             PROVE  /\ Step(Step(c1, x, answered), x, answered) = c1
                    /\ c1.f.state = to
  BY DEF RunChain
<1>1. ev \in FlowEvent /\ ev # "none"
  BY FlowFields, FirstEventNext
<1>2. c0.ev = ev /\ c0.cur = f.state /\ c0 \in Chain
  BY <1>1, StartSound DEF Sound
<1>3. to \in FlowState /\ to # "absent" /\ to \in Settling
  BY DEF Settling, FlowState
<1>4. Handled(Enter(c0, to), c1, to, x)
  BY <1>1, <1>2, <1>3, StepCases
<1>5. Enter(c0, to).f.state = to
  BY <1>2, <1>3, EnterState
<1>6. c1.f.state = to /\ Over(c1)
  BY <1>4, <1>5 DEF Handled, Keeps, Over
<1> QED
  BY <1>6, OverStays

\* A grant of some time arms the timer before its end.
LEMMA GrantEnds ==
    ASSUME NEW f \in FlowRec, NEW x \in Context, x.msg.result = "success",
           x.msg.lifetime > 0, f.state \in {"wait_resp", "wait_for_lifetime_renew"}
    PROVE  Alive(handle_answer(f, x))
<1> DEFINE c == StartChain(f, "success")
           d == Enter(c, "wait_for_lifetime_renew")
           l == x.msg.lifetime
           t == IF l = 0 THEN NoTimer ELSE l \div 2
           e == WithGrant(d, l, "success", t)
<1>1. "success" \in FirstEvent /\ "success" \in FlowEvent
  BY DEF FirstEvent, FlowEvent, Result
<1>2. c \in Chain /\ c.cur = f.state /\ c.ev = "success"
  BY <1>1, StartSound DEF Sound
<1>3. NextState(f.state, "success") = "wait_for_lifetime_renew"
  BY DEF NextState, ShortLifeError, LongLifeError
<1>4. /\ "wait_for_lifetime_renew" \in Settling \ {"wait_resp"}
      /\ "wait_for_lifetime_renew" \in FlowState
  BY DEF Settling, FlowState
<1>5. d \in Chain
  BY <1>2, <1>4, EnterState
<1>6. Step(c, x, TRUE) = e
  <2>1. Step(c, x, TRUE) = Transition(d, f.state, "wait_for_lifetime_renew", x, TRUE)
    BY <1>2, <1>3 DEF Step, Enter
  <2>2. Transition(d, f.state, "wait_for_lifetime_renew", x, TRUE) =
            fhndl_received_success(d, x)
    BY DEF Transition
  <2> QED
    BY <2>1, <2>2 DEF fhndl_received_success, WithGrant
<1>7. handle_answer(f, x) = e.f
  <2>1. RunChain(f, "success", x, TRUE) = Step(c, x, TRUE)
    BY <1>1, <1>3, <1>4, EndsThere
  <2> QED
    BY <1>6, <2>1 DEF handle_answer
<1>8. l \in Nat /\ l > 0
  BY ContextFields
<1> HIDE DEF c, d, l, t
<1>9. e.f.timeout = t /\ e.f.recv_lifetime = l
  BY <1>5, ChainFields DEF WithGrant, Chain, FlowRec
<1>10. t = l \div 2 /\ l \div 2 \in Nat /\ l \div 2 < l
  BY <1>8 DEF t
<1>11. t # NoTimer /\ t >= 0 /\ t < l
  BY <1>8, <1>10, NoTimerAssumption
<1> HIDE DEF e
<1> QED
  BY <1>7, <1>9, <1>11 DEF Alive

\* Where an event of the library leads.
LEMMA LibraryEventNext ==
    ASSUME NEW st \in FlowState, st # "send_renew",
           NEW ev \in {"flow_timedout", "server_initialized", "do_send", "do_fail"}
    PROVE  /\ NextState(st, ev) \in {"absent", "send", "send_renew", "failed"}
           /\ NextState(st, ev) = "send_renew" =>
                 ev = "flow_timedout" /\ st = "wait_for_lifetime_renew"
BY DEF NextState, FlowState, ShortLifeError, LongLifeError

\* A flow that a library event moves is on its way with a timer ahead, has
\* failed without one, or holds a mapping that is renewed.
LEMMA EventOutcome ==
    ASSUME NEW f \in FlowRec, f.state # "send_renew", Healthy(f), NEW x, Steady(x),
           NEW ev \in {"flow_timedout", "server_initialized", "do_send", "do_fail"}
    PROVE  LET g == handle_flow_event(f, ev, x)
           IN  \/ g = f /\ NextState(f.state, ev) = "absent"
               \/ /\ Healthy(g) /\ Ahead(g)
                  /\ \/ g.state \in {"wait_resp", "failed"}
                     \/ /\ g.state = "wait_for_lifetime_renew"
                        /\ ev = "flow_timedout" /\ f.state = "wait_for_lifetime_renew"
<1> DEFINE r == RunChain(f, ev, x, FALSE)
           to == NextState(f.state, ev)
<1>1. x \in Context /\ ~x.mark /\ ev \in FirstEvent /\ f.state \in FlowState
  BY FlowFields DEF Steady, FirstEvent
<1>2. to \in {"absent", "send", "send_renew", "failed"}
      /\ (to = "send_renew" => ev = "flow_timedout" /\ f.state = "wait_for_lifetime_renew")
  BY <1>1, LibraryEventNext
<1>3. Sound(r) /\ ((r.f = f /\ to = "absent") \/ Landed(r, x))
  BY <1>1, RunChainResult
<1>4. handle_flow_event(f, ev, x) = r.f
  BY DEF handle_flow_event
<1>5. to = "send" => r.f.state \in {"wait_resp", "failed"}
  BY <1>1, SendEnds
<1>6. to = "failed" => r.f.state = "failed"
  <2>1. "failed" \in Settling \ {"wait_resp"}
    BY DEF Settling
  <2>2. ASSUME NextState(f.state, ev) = "failed"
        PROVE  LET c == Step(StartChain(f, ev), x, FALSE)
               IN  RunChain(f, ev, x, FALSE) = c /\ c.f.state = "failed"
    BY <1>1, <2>1, <2>2, EndsThere
  <2> QED
    BY <2>2
<1>7. to = "send_renew" =>
         \/ r.f.state \in {"wait_resp", "failed"}
         \/ /\ r.f.state = "wait_for_lifetime_renew"
            /\ r.f.timeout \in Int /\ r.f.timeout > 0
            /\ r.f.timeout < r.f.recv_lifetime
  <2>1. ASSUME to = "send_renew" PROVE f.recv_lifetime > 0
    <3>1. f.timeout # NoTimer /\ f.timeout >= 0 /\ f.timeout < f.recv_lifetime
      BY <1>2, <2>1 DEF Healthy, Alive
    <3>2. f.timeout \in Int /\ f.recv_lifetime \in Int
      BY <3>1, FlowFields DEF Timer
    <3> QED
      BY <3>1, <3>2
  <2> QED
    BY <1>1, <2>1, RenewEnds
<1> HIDE DEF r, to
<1>8. ASSUME Landed(r, x), r.f.state = "wait_resp" PROVE Healthy(r.f) /\ Ahead(r.f)
  <2>1. r.f.timeout \in Interval(x)
    BY <1>3, <1>8 DEF Landed, Sound
  <2> QED
    BY <1>8, <2>1, IntervalAhead DEF Healthy, Alive, Spent, Ahead
<1>9. ASSUME Landed(r, x), r.f.state = "failed" PROVE Healthy(r.f) /\ Ahead(r.f)
  <2>1. r.f.timeout = NoTimer
    BY <1>3, <1>9 DEF Landed, Sound
  <2> QED
    BY <1>9, <2>1 DEF Healthy, Alive, Spent, Ahead
<1>10. ASSUME r.f.state = "wait_for_lifetime_renew", r.f.timeout \in Int, r.f.timeout > 0,
              r.f.timeout < r.f.recv_lifetime
       PROVE  Healthy(r.f) /\ Ahead(r.f)
  BY <1>10, NoTimerAssumption DEF Healthy, Alive, Spent, Ahead
<1>11. CASE to = "absent" /\ r.f = f
  BY <1>4, <1>11 DEF to
<1>12. CASE Landed(r, x) /\ to \in {"send", "failed"}
  BY <1>4, <1>5, <1>6, <1>8, <1>9, <1>12
<1>13. CASE Landed(r, x) /\ to = "send_renew"
  BY <1>2, <1>4, <1>7, <1>8, <1>9, <1>10, <1>13
<1>14. CASE Landed(r, x) /\ to = "absent"
  <2>1. r.f = f
    BY <1>1, <1>14, NoRowStays DEF r, to
  <2> QED
    BY <1>4, <1>14, <2>1 DEF to
<1> QED
  BY <1>2, <1>3, <1>11, <1>12, <1>13, <1>14

\* Where an answer leads.
LEMMA AnswerNext ==
    ASSUME NEW st \in FlowState, st # "send_renew", NEW ev \in Result,
           ev # "unsupp_version"
    PROVE  LET to == NextState(st, ev)
           IN  /\ to \in {"absent", "wait_for_lifetime_renew", "send_renew", "failed",
                          "wait_after_short_life_error"}
               /\ to = "wait_for_lifetime_renew" =>
                     ev = "success" /\ st \in {"wait_resp", "wait_for_lifetime_renew"}
               /\ to = "send_renew" => st = "wait_for_lifetime_renew"
BY DEF NextState, FlowState, Result, ShortLifeError, LongLifeError

\* An answer that is not about the version leaves a flow as it was, or as healthy.
LEMMA AnswerOutcome ==
    ASSUME NEW f \in FlowRec, f.state # "send_renew", Healthy(f), NEW x, Steady(x),
           x.msg.result # "unsupp_version",
           x.msg.result = "success" => x.msg.lifetime > 0
    PROVE  LET g == handle_answer(f, x)
           IN  \/ g = f
               \/ /\ Healthy(g)
                  /\ g.state \in {"wait_resp", "failed", "wait_for_lifetime_renew",
                                  "wait_after_short_life_error"}
<1> DEFINE ev == x.msg.result
           r  == RunChain(f, ev, x, TRUE)
           to == NextState(f.state, ev)
<1>1. x \in Context /\ ~x.mark /\ ev \in Result /\ ev \in FirstEvent /\ f.state \in FlowState
  BY FlowFields, ContextFields DEF Steady, FirstEvent
<1>2. /\ to \in {"absent", "wait_for_lifetime_renew", "send_renew", "failed",
                 "wait_after_short_life_error"}
      /\ to = "wait_for_lifetime_renew" =>
            ev = "success" /\ f.state \in {"wait_resp", "wait_for_lifetime_renew"}
      /\ to = "send_renew" => f.state = "wait_for_lifetime_renew"
  BY <1>1, AnswerNext
<1>3. Sound(r) /\ ((r.f = f /\ to = "absent") \/ Landed(r, x))
  BY <1>1, RunChainResult
<1>4. handle_answer(f, x) = r.f
  BY DEF handle_answer
<1>5. ASSUME to \in {"failed", "wait_for_lifetime_renew", "wait_after_short_life_error"}
      PROVE  r.f.state = to
  <2>1. to \in Settling \ {"wait_resp"}
    BY <1>5 DEF Settling
  <2>2. ASSUME NEW e \in FirstEvent, NEW st \in Settling \ {"wait_resp"},
               NextState(f.state, e) = st
        PROVE  RunChain(f, e, x, TRUE).f.state = st
    <3>1. x \in Context
      BY <1>1
    <3> HIDE DEF ev, r, to
    <3>2. LET c == Step(StartChain(f, e), x, TRUE)
          IN  RunChain(f, e, x, TRUE) = c /\ c.f.state = st
      BY <2>2, <3>1, EndsThere
    <3> QED
      BY <3>2
  <2> QED
    BY <1>1, <2>1, <2>2
<1>6. ASSUME to = "wait_for_lifetime_renew" PROVE Alive(r.f)
  BY <1>1, <1>2, <1>4, <1>6, GrantEnds
<1>7. ASSUME to = "send_renew"
      PROVE  \/ r.f.state \in {"wait_resp", "failed"}
             \/ r.f.state = "wait_for_lifetime_renew" /\ Alive(r.f)
  <2>1. f.timeout # NoTimer /\ f.timeout >= 0 /\ f.timeout < f.recv_lifetime
    BY <1>2, <1>7 DEF Healthy, Alive
  <2>2. f.timeout \in Int /\ f.recv_lifetime \in Int
    BY <2>1, FlowFields DEF Timer
  <2>3. f.recv_lifetime > 0
    BY <2>1, <2>2
  <2>4. \/ r.f.state \in {"wait_resp", "failed"}
        \/ /\ r.f.state = "wait_for_lifetime_renew"
           /\ r.f.timeout \in Int /\ r.f.timeout > 0
           /\ r.f.timeout < r.f.recv_lifetime
    BY <1>1, <1>7, <2>3, RenewEnds
  <2> HIDE DEF r
  <2> QED
    BY <2>4, NoTimerAssumption DEF Alive
<1>8. CASE to = "absent"
  BY <1>1, <1>4, <1>8, NoRowStays
<1> HIDE DEF r, to, ev
<1>9. ASSUME Landed(r, x), r.f.state = "failed" PROVE r.f.timeout = NoTimer
  BY <1>3, <1>9 DEF Landed, Sound
<1>10. CASE Landed(r, x) /\ to \in {"failed", "wait_for_lifetime_renew",
                                    "wait_after_short_life_error"}
  BY <1>4, <1>5, <1>6, <1>9, <1>10 DEF Healthy, Spent, Alive
<1>11. CASE Landed(r, x) /\ to = "send_renew"
  <2>1. CASE r.f.state \in {"wait_resp", "failed"}
    BY <1>4, <1>9, <1>11, <2>1 DEF Healthy, Spent, Alive
  <2>2. CASE r.f.state = "wait_for_lifetime_renew" /\ Alive(r.f)
    BY <1>4, <2>2 DEF Healthy, Spent
  <2> QED
    BY <1>7, <1>11, <2>1, <2>2
<1> QED
  BY <1>2, <1>3, <1>8, <1>10, <1>11

\* The states in which the time-out of a flow does nothing.
LEMMA TimeoutNext ==
    ASSUME NEW st \in FlowState, NextState(st, "flow_timedout") = "absent"
    PROVE  st \in {"absent", "idle", "wait_for_server_init", "failed"}
BY DEF NextState, FlowState, ShortLifeError, LongLifeError

\* check_flow_timeout leaves a flow that acts on its timer with a timer ahead.
LEMMA CheckOutcome ==
    ASSUME NEW f \in FlowRec, f.state # "send_renew", Healthy(f), NEW x, Steady(x)
    PROVE  LET g == check_flow_timeout(f, x)
           IN  /\ Healthy(g)
               /\ g = f \/ g.state \in {"wait_resp", "failed"} \/ g.state = f.state
               /\ f.state \notin {"absent", "idle", "wait_for_server_init"} => Ahead(g)
<1> DEFINE g == handle_flow_event(f, "flow_timedout", x)
<1>1. f.state \in FlowState /\ f.timeout \in Timer
  BY FlowFields
<1>2. \/ g = f /\ NextState(f.state, "flow_timedout") = "absent"
      \/ /\ Healthy(g) /\ Ahead(g)
         /\ g.state \in {"wait_resp", "failed"} \/ g.state = f.state
  BY EventOutcome
<1>3. CASE ~Expired(f.timeout)
  <2>1. check_flow_timeout(f, x) = f
    BY <1>3 DEF check_flow_timeout
  <2>2. Ahead(f)
    BY <1>1, <1>3 DEF Expired, Ahead, Timer
  <2> QED
    BY <2>1, <2>2
<1>4. CASE Expired(f.timeout)
  <2>1. check_flow_timeout(f, x) = g
    BY <1>4 DEF check_flow_timeout
  <2> HIDE DEF g
  <2>2. CASE g = f /\ NextState(f.state, "flow_timedout") = "absent"
    <3>1. f.state \in {"absent", "idle", "wait_for_server_init", "failed"}
      BY <1>1, <2>2, TimeoutNext
    <3>2. f.state = "failed" => f.timeout = NoTimer
      BY DEF Healthy, Spent
    <3> QED
      BY <1>4, <2>1, <2>2, <3>1, <3>2 DEF Expired
  <2> QED
    BY <1>2, <2>1, <2>2
<1> QED
  BY <1>3, <1>4

\* flow_send_event_iter with fev_server_initialized: no flow waits any longer.
LEMMA InitializedOutcome ==
    ASSUME NEW f \in FlowRec, f.state # "send_renew", Healthy(f), NEW x, Steady(x)
    PROVE  LET g == check_flow_timeout(handle_flow_event(f, "server_initialized", x), x)
           IN  /\ Healthy(g)
               /\ g.state # "wait_for_server_init"
<1>1. NextState("wait_for_server_init", "server_initialized") = "send"
  BY DEF NextState, ShortLifeError, LongLifeError
<1>2. "server_initialized" \in FirstEvent /\ x \in Context
  BY DEF FirstEvent, Steady
<1>3. PICK h \in FlowRec : h = handle_flow_event(f, "server_initialized", x)
  BY <1>2, EventType
<1>4. /\ Healthy(h)
      /\ h.state \notin {"send_renew", "wait_for_server_init"}
  BY <1>1, <1>3, EventOutcome
<1> QED
  BY <1>3, <1>4, CheckOutcome

\* flow_send_event_iter with fev_failed: no flow holds a mapping any longer.
LEMMA FailOutcome ==
    ASSUME NEW f \in FlowRec, f.state # "send_renew", Healthy(f), NEW x, Steady(x)
    PROVE  LET g == check_flow_timeout(handle_flow_event(f, "do_fail", x), x)
           IN  /\ Healthy(g)
               /\ g.state # "wait_for_lifetime_renew"
<1>1. NextState(f.state, "do_fail") # "absent"
  BY DEF NextState, ShortLifeError, LongLifeError
<1>2. "do_fail" \in FirstEvent /\ x \in Context
  BY DEF FirstEvent, Steady
<1>3. PICK h \in FlowRec : h = handle_flow_event(f, "do_fail", x)
  BY <1>2, EventType
<1>4. Healthy(h) /\ h.state \in {"wait_resp", "failed"}
  BY <1>1, <1>3, EventOutcome
<1> QED
  BY <1>3, <1>4, CheckOutcome

-----------------------------------------------------------------------------
(* The invariant.  A flow gets a mapping only by an answer, whose pulse ends *)
(* with a sweep if the server is up: in wait_io every timer is ahead or the  *)
(* server is due.  No flow waits for the server then, and a flow that failed *)
(* has no timer, so that no timer is left behind by the sweep and the search *)
(* for the nearest one finds it.  A server that is given up takes the        *)
(* mappings back before anything else is done.                               *)

\* The server states in which a flow may hold a mapping.
Holding == {"wait_io", "wait_io_calc_nearest_timeout", "send_all_msgs",
            "set_not_working"}

\* A flow g as its server sv has it.
Suits(g, sv) ==
    /\ Healthy(g)
    /\ g.state = "wait_for_lifetime_renew" => sv.state \in Holding
    /\ sv.state \in {"wait_io", "wait_io_calc_nearest_timeout"} =>
          g.state # "wait_for_server_init"
    /\ sv.state = "wait_io" /\ g.state # "absent" /\ g.timeout # NoTimer =>
          /\ g.timeout >= 0
          /\ sv.next_timeout # NoTimer /\ sv.next_timeout <= g.timeout

\* The server states that only another version or epoch leads to.
Undisturbed(sv) == sv.state \notin {"server_restart", "version_negotiation"}

\* pcp_terminate closes the flows before its last pulse; nothing is left then.
RInv == /\ AtRest => pulse.then = "return"
        /\ \A s \in Server : Undisturbed(server[s])
        /\ pulse.then = "return" =>
              \A f \in Flow : Suits(flow[f], server[ServerOf(f)])

\* What every handler does.
Suited(s) == \E sv : /\ server' = [server EXCEPT ![s] = sv]
                     /\ Undisturbed(sv)
                     /\ pulse.then = "return" => \A f \in Flow : Suits(flow'[f], sv)

\* There is one server.
LEMMA OneServer ==
    ASSUME NEW s \in Server, NEW f \in Flow
    PROVE  ServerOf(f) = s
BY OneServerAssumption, FlowParts DEF Server, ServerOf

\* The context of a flow in this environment.
LEMMA CtxSteady ==
    ASSUME NEW f \in Flow, NEW sv \in ServerRec, sv.restart_flow_msg = NoFlow,
           NEW o \in Outcome, NEW m, m.result \in Result, m.lifetime \in 0 .. MaxLife
    PROVE  Steady(Ctx(f, sv, m, o))
<1>1. Ctx(f, sv, m, o) \in Context /\ ~Ctx(f, sv, m, o).mark
  BY CtxType, Unmarked
<1>2. o.rand \in Rand /\ Ctx(f, sv, m, o).rand = o.rand
  BY DEF Outcome, Ctx
<1> QED
  BY <1>1, <1>2, SpreadAssumption DEF Steady

\* What the handlers find.
LEMMA Found0 ==
    ASSUME IInv, PInv, RInv, NEW s \in Server
    PROVE  /\ server[s] \in ServerRec /\ server[s].restart_flow_msg = NoFlow
           /\ \A f \in Flow : /\ flow[f] \in FlowRec
                              /\ flow[f].state \notin {"idle", "send_renew"}
                              /\ pulse.then = "return" => Suits(flow[f], server[s])
<1>1. server[s].state # "server_restart"
  BY DEF RInv, Undisturbed
<1> QED
  BY <1>1, NoMark, OneServer DEF IInv, TypeOK, PInv, NoFlowMidway, RInv

\* All messages that waited for the server are sent.
LEMMA SendAllSuited ==
    ASSUME IInv, PInv, RInv, NEW s \in Server, handle_send_all_msgs(s)
    PROVE  Suited(s)
<1> DEFINE sv == [server[s] EXCEPT !.next_timeout = 0,
                                   !.state = "wait_io_calc_nearest_timeout"]
<1>1. PICK o \in [Flow -> Outcome] : flow' = SendEvent(s, "server_initialized", o)
  BY DEF handle_send_all_msgs
<1>2. server' = [server EXCEPT ![s] = sv]
  BY DEF handle_send_all_msgs, Put
<1>3. sv.state = "wait_io_calc_nearest_timeout"
  BY Found0 DEF ServerRec
<1>4. ASSUME pulse.then = "return", NEW f \in Flow
      PROVE  Healthy(flow'[f]) /\ flow'[f].state # "wait_for_server_init"
  <2>1. /\ flow[f] \in FlowRec /\ flow[f].state # "send_renew" /\ Healthy(flow[f])
        /\ server[s] \in ServerRec /\ server[s].restart_flow_msg = NoFlow
        /\ o[f] \in Outcome
    BY <1>4, Found0 DEF Suits
  <2>2. Steady(Ctx(f, server[s], NoMsg, o[f]))
    BY <2>1, CtxSteady, NoMsgFields
  <2>3. CASE f \in FlowsOf(s)
    <3>1. flow'[f] = LET x == Ctx(f, server[s], NoMsg, o[f])
                     IN  check_flow_timeout(
                             handle_flow_event(flow[f], "server_initialized", x), x)
      BY <1>1, <2>3 DEF SendEvent
    <3> QED
      BY <2>1, <2>2, <3>1, InitializedOutcome
  <2>4. CASE f \notin FlowsOf(s)
    BY <1>1, <2>1, <2>4, OneServer DEF SendEvent, FlowsOf, Live
  <2> QED
    BY <2>3, <2>4
<1> HIDE DEF sv
<1>5. ASSUME pulse.then = "return", NEW f \in Flow PROVE Suits(flow'[f], sv)
  BY <1>3, <1>4, <1>5 DEF Suits, Holding
<1> QED
  BY <1>2, <1>3, <1>5 DEF Suited, Undisturbed

\* A server is given up, and its flows with it.
LEMMA SetNotWorkingSuited ==
    ASSUME IInv, PInv, RInv, NEW s \in Server, handle_server_set_not_working(s)
    PROVE  Suited(s)
<1> DEFINE sv == [server[s] EXCEPT !.next_timeout = RetryDelay, !.state = "not_working"]
<1>1. PICK o \in [Flow -> Outcome] : flow' = SendEvent(s, "do_fail", o)
  BY DEF handle_server_set_not_working
<1>2. server' = [server EXCEPT ![s] = sv]
  BY DEF handle_server_set_not_working, Put
<1>3. sv.state = "not_working"
  BY Found0 DEF ServerRec
<1>4. ASSUME pulse.then = "return", NEW f \in Flow
      PROVE  Healthy(flow'[f]) /\ flow'[f].state # "wait_for_lifetime_renew"
  <2>1. /\ flow[f] \in FlowRec /\ flow[f].state # "send_renew" /\ Healthy(flow[f])
        /\ server[s] \in ServerRec /\ server[s].restart_flow_msg = NoFlow
        /\ o[f] \in Outcome
    BY <1>4, Found0 DEF Suits
  <2>2. Steady(Ctx(f, server[s], NoMsg, o[f]))
    BY <2>1, CtxSteady, NoMsgFields
  <2>3. CASE f \in FlowsOf(s)
    <3>1. flow'[f] = LET x == Ctx(f, server[s], NoMsg, o[f])
                     IN  check_flow_timeout(handle_flow_event(flow[f], "do_fail", x), x)
      BY <1>1, <2>3 DEF SendEvent
    <3> QED
      BY <2>1, <2>2, <3>1, FailOutcome
  <2>4. CASE f \notin FlowsOf(s)
    BY <1>1, <2>1, <2>4, OneServer DEF SendEvent, FlowsOf, Live
  <2> QED
    BY <2>3, <2>4
<1> HIDE DEF sv
<1>5. ASSUME pulse.then = "return", NEW f \in Flow PROVE Suits(flow'[f], sv)
  BY <1>3, <1>4, <1>5 DEF Suits, Holding
<1> QED
  BY <1>2, <1>3, <1>5 DEF Suited, Undisturbed

\* If every armed timer is ahead, the search finds one that none is before.
LEMMA NearestIsLeast ==
    ASSUME NEW fl \in [Flow -> FlowRec], NEW d, NearestTimeout(fl, d),
           \A f \in Flow : fl[f].state # "absent" => Ahead(fl[f]),
           NEW g \in Flow, fl[g].state # "absent", fl[g].timeout # NoTimer
    PROVE  d \in Int /\ d # 0 /\ d <= fl[g].timeout
<1> DEFINE armed == {f \in Flow : fl[f].state # "absent" /\ Armed(fl[f])}
           late  == {f \in armed : Remaining(fl[f]) = 0}
           after == {f \in armed : \A z \in late : Pos[z] < Pos[f]}
<1>1. \A f \in armed : /\ fl[f].timeout \in Int /\ fl[f].timeout > 0
                       /\ Remaining(fl[f]) = fl[f].timeout
  <2>1. \A f \in Flow : fl[f].timeout \in Timer
    BY FlowFields
  <2> QED
    BY <2>1 DEF Armed, Ahead, Timer, Remaining
<1>2. late = {}
  BY <1>1
<1>3. after = armed /\ g \in armed
  BY <1>2 DEF Armed
<1>4. \/ d = 0 /\ after = {}
      \/ /\ \E f \in after : d = Remaining(fl[f])
         /\ \A f \in after : d <= Remaining(fl[f])
  BY DEF NearestTimeout
<1> HIDE DEF armed, late, after
<1> QED
  BY <1>1, <1>3, <1>4

\* The sweep leaves every timer ahead, and the timer of the server is the nearest.
LEMMA SweepSuited ==
    ASSUME IInv, PInv, RInv, NEW s \in Server, handle_wait_io_timeout(s),
           server[s].state \in {"wait_io", "wait_io_calc_nearest_timeout"}
    PROVE  Suited(s)
<1> DEFINE fl(o) == [f \in Flow |->
                        IF Live(f)
                        THEN check_flow_timeout(flow[f],
                                 Ctx(f, server[ServerOf(f)], NoMsg, o[f]))
                        ELSE flow[f]]
           sv(d) == [server[s] EXCEPT !.next_timeout = IF d = 0 THEN NoTimer ELSE d,
                                      !.state = "wait_io"]
<1>1. PICK o \in [Flow -> Outcome] :
         /\ flow' = fl(o)
         /\ \E d : NearestTimeout(fl(o), d) /\ Put(s, sv(d))
  BY DEF handle_wait_io_timeout
<1>2. PICK d : NearestTimeout(flow', d) /\ server' = [server EXCEPT ![s] = sv(d)]
  BY <1>1 DEF Put
<1>3. sv(d).state = "wait_io"
      /\ sv(d).next_timeout = IF d = 0 THEN NoTimer ELSE d
  BY Found0 DEF ServerRec
<1>4. flow' \in [Flow -> FlowRec]
  BY WaitIoTimeoutServed DEF IInv, Served
<1>5. ASSUME pulse.then = "return", NEW f \in Flow
      PROVE  /\ Healthy(flow'[f]) /\ flow'[f].state # "wait_for_server_init"
             /\ flow'[f].state # "absent" => Ahead(flow'[f])
  <2>1. /\ flow[f] \in FlowRec /\ flow[f].state \notin {"idle", "send_renew"}
        /\ Healthy(flow[f]) /\ flow[f].state # "wait_for_server_init"
        /\ server[s] \in ServerRec /\ server[s].restart_flow_msg = NoFlow
        /\ o[f] \in Outcome
    BY <1>5, Found0 DEF Suits
  <2>2. Steady(Ctx(f, server[s], NoMsg, o[f]))
    BY <2>1, CtxSteady, NoMsgFields
  <2>3. CASE Live(f)
    <3>1. flow'[f] = check_flow_timeout(flow[f], Ctx(f, server[s], NoMsg, o[f]))
      BY <1>1, <2>3, OneServer
    <3>2. flow[f].state # "absent"
      BY <2>3 DEF Live
    <3>3. PICK x : Steady(x) /\ flow'[f] = check_flow_timeout(flow[f], x)
      BY <2>2, <3>1
    <3> QED
      BY <2>1, <3>2, <3>3, CheckOutcome
  <2>4. CASE ~Live(f)
    BY <1>1, <2>1, <2>4 DEF Live
  <2> QED
    BY <2>3, <2>4
<1> HIDE DEF sv, fl
<1>6. ASSUME pulse.then = "return", NEW f \in Flow PROVE Suits(flow'[f], sv(d))
  <2>1. ASSUME flow'[f].state # "absent", flow'[f].timeout # NoTimer
        PROVE  d \in Int /\ d # 0 /\ d <= flow'[f].timeout
    BY <1>2, <1>4, <1>5, <1>6, <2>1, NearestIsLeast
  <2>2. ASSUME flow'[f].state # "absent", flow'[f].timeout # NoTimer
        PROVE  /\ flow'[f].timeout >= 0
               /\ sv(d).next_timeout # NoTimer /\ sv(d).next_timeout <= flow'[f].timeout
    <3>1. flow'[f].timeout \in Int /\ flow'[f].timeout > 0
      BY <1>4, <1>5, <1>6, <2>2, FlowFields DEF Ahead, Timer
    <3> QED
      BY <1>3, <2>1, <2>2, <3>1, NoTimerAssumption
  <2> QED
    BY <1>3, <1>5, <1>6, <2>2 DEF Suits, Holding
<1> QED
  BY <1>2, <1>3, <1>6 DEF Suited, Undisturbed

\* The answer to a ping, or to a request of a server that is up.
LEMMA ReceiveSuited ==
    ASSUME IInv, PInv, RInv, NEW s \in Server, NEW m \in Answers, NEW after_io,
           handle_wait_io_receive_msg(s, m, after_io),
           \/ server[s].state = "wait_ping_resp" /\ after_io = "send_all_msgs"
           \/ server[s].state = "wait_io" /\ after_io = "wait_io_calc_nearest_timeout"
    PROVE  Suited(s)
<1>1. /\ m \in Received /\ m.result # "unsupp_version" /\ m.epoch \in Epoch
      /\ m.result = "success" => m.lifetime > 0
  BY AnswersAssumption, SteadyServerAssumption DEF Received, Answer
<1>2. ~compare_epochs(s, m)
  <2>1. server[s].epoch \in Epoch \cup {NoEpoch}
    BY Found0, ServerFields
  <2> QED
    BY <1>1, <2>1, SteadyServerAssumption DEF compare_epochs
<1>3. CASE m.result = "address_mismatch"
  <2> DEFINE sv == [server[s] EXCEPT !.next_timeout = 0, !.state = "set_not_working"]
  <2>1. server' = [server EXCEPT ![s] = sv] /\ flow' = flow
    BY <1>1, <1>3 DEF handle_wait_io_receive_msg, Put
  <2>2. sv.state = "set_not_working"
    BY Found0 DEF ServerRec
  <2> HIDE DEF sv
  <2>3. ASSUME pulse.then = "return", NEW f \in Flow PROVE Suits(flow'[f], sv)
    BY <2>1, <2>2, <2>3, Found0 DEF Suits, Holding
  <2> QED
    BY <2>1, <2>2, <2>3 DEF Suited, Undisturbed
<1>4. CASE m.result # "address_mismatch"
  <2> DEFINE sv == [server[s] EXCEPT !.epoch = m.epoch, !.next_timeout = 0,
                                     !.state = after_io]
  <2>1. PICK o \in Outcome : flow' = server_process_rcvd_pcp_msg(s, m, o)
    BY <1>1, <1>4 DEF handle_wait_io_receive_msg
  <2>2. server' = [server EXCEPT ![s] = sv]
    BY <1>1, <1>2, <1>4 DEF handle_wait_io_receive_msg, Put
  <2>3. sv.state = after_io
    BY Found0 DEF ServerRec
  <2>4. ASSUME pulse.then = "return", NEW f \in Flow
        PROVE  /\ Healthy(flow'[f])
               /\ flow'[f].state = "wait_for_server_init" =>
                     flow[f].state = "wait_for_server_init"
    <3>1. /\ flow[f] \in FlowRec /\ flow[f].state # "send_renew" /\ Healthy(flow[f])
          /\ server[s] \in ServerRec /\ server[s].restart_flow_msg = NoFlow
      BY <2>4, Found0 DEF Suits
    <3> DEFINE x == Ctx(f, server[s], m, o)
    <3>2. Steady(x)
      BY <1>1, <3>1, CtxSteady, ReceivedFields
    <3>3. x.msg.result = m.result /\ x.msg.lifetime = m.lifetime
      BY DEF Ctx
    <3>4. \/ handle_answer(flow[f], x) = flow[f]
          \/ /\ Healthy(handle_answer(flow[f], x))
             /\ handle_answer(flow[f], x).state # "wait_for_server_init"
      <4> HIDE DEF x
      <4> QED
        BY <1>1, <3>1, <3>2, <3>3, AnswerOutcome
    <3>5. flow'[f] = flow[f] \/ flow'[f] = handle_answer(flow[f], x)
      BY <2>1 DEF server_process_rcvd_pcp_msg, IInv, TypeOK
    <3> QED
      BY <3>1, <3>4, <3>5
  <2> HIDE DEF sv
  <2>5. ASSUME pulse.then = "return", NEW f \in Flow PROVE Suits(flow'[f], sv)
    <3>1. server[s].state = "wait_io" => flow[f].state # "wait_for_server_init"
      BY <2>5, Found0 DEF Suits
    <3> QED
      BY <2>3, <2>4, <2>5, <3>1 DEF Suits, Holding
  <2> QED
    BY <2>2, <2>3, <2>5 DEF Suited, Undisturbed
<1> QED
  BY <1>3, <1>4

\* A server that does not hold mappings goes to a state that is not wait_io.
LEMMA IdleSuited ==
    ASSUME IInv, PInv, RInv, NEW s \in Server, NEW sv,
           server' = [server EXCEPT ![s] = sv], UNCHANGED flow,
           server[s].state \notin Holding,
           sv.state \in {"ping", "allocated", "server_reping", "not_working",
                         "set_not_working"}
    PROVE  Suited(s)
<1>1. ASSUME pulse.then = "return", NEW f \in Flow PROVE Suits(flow'[f], sv)
  BY <1>1, Found0 DEF Suits, Holding
<1> QED
  BY <1>1 DEF Suited, Undisturbed

\* The end of the retry delay, the new ping, and the server that ignores events.
LEMMA QuietSuited ==
    ASSUME IInv, PInv, RInv, NEW s \in Server, NEW m,
           \/ server[s].state = "not_working" /\ Due(s) /\ handle_server_not_working(s, m)
           \/ server[s].state = "server_reping" /\ handle_server_reping(s)
           \/ server[s].state = "allocated" /\ ignore_events(s)
    PROVE  Suited(s)
<1>1. server[s] \in ServerRec
  BY Found0
<1>2. CASE server[s].state = "not_working" /\ Due(s) /\ handle_server_not_working(s, m)
  <2> DEFINE sv == [server[s] EXCEPT !.next_timeout = 0, !.state = "server_reping"]
  <2>1. ~(server[s].next_timeout # NoTimer /\ server[s].next_timeout > 0)
    <3>1. server[s].next_timeout \in Timer /\ server[s].next_timeout # NoTimer
          /\ server[s].next_timeout <= 0
      BY <1>1, <1>2, ServerFields DEF Due, Expired
    <3> QED
      BY <3>1 DEF Timer
  <2>2. server' = [server EXCEPT ![s] = sv] /\ UNCHANGED flow
    BY <1>2, <2>1 DEF handle_server_not_working, Put
  <2>3. sv.state = "server_reping"
    BY <1>1 DEF ServerRec
  <2> HIDE DEF sv
  <2> QED
    BY <1>2, <2>2, <2>3, IdleSuited DEF Holding
<1>3. CASE server[s].state = "server_reping" /\ handle_server_reping(s)
  <2> DEFINE sv == [server[s] EXCEPT !.pcp_version = 2, !.next_timeout = 0, !.state = "ping"]
  <2>1. server' = [server EXCEPT ![s] = sv] /\ UNCHANGED flow
    BY <1>3 DEF handle_server_reping, Put
  <2>2. sv.state = "ping"
    BY <1>1 DEF ServerRec
  <2> HIDE DEF sv
  <2> QED
    BY <1>3, <2>1, <2>2, IdleSuited DEF Holding
<1>4. CASE server[s].state = "allocated" /\ ignore_events(s)
  <2> DEFINE sv == [server[s] EXCEPT !.next_timeout = NoTimer]
  <2>1. server' = [server EXCEPT ![s] = sv] /\ UNCHANGED flow
    BY <1>4 DEF ignore_events, Put
  <2>2. sv.state = "allocated"
    BY <1>1, <1>4 DEF ServerRec
  <2> HIDE DEF sv
  <2> QED
    BY <1>4, <2>1, <2>2, IdleSuited DEF Holding
<1> QED
  BY <1>2, <1>3, <1>4

\* A server is pinged: the flows that are tried are on their way or failed.
LEMMA PingSuited ==
    ASSUME IInv, PInv, RInv, NEW s \in Server, server[s].state = "ping",
           handle_server_ping(s)
    PROVE  Suited(s)
<1> DEFINE sv == [server[s] EXCEPT !.ping_count = 0]
           Ping(f, o) == handle_flow_event([flow[f] EXCEPT !.retry_count = 0],
                                           "do_send", Ctx(f, sv, NoMsg, o[f]))
<1>1. PICK o \in [Flow -> Outcome] :
         /\ \A f \in Flow : flow'[f] = flow[f] \/ flow'[f] = Ping(f, o)
         /\ \/ Put(s, [sv EXCEPT !.ping_flow_msg = NoFlow, !.next_timeout = NoTimer])
            \/ \E p : Put(s, [sv EXCEPT !.ping_flow_msg = p,
                                        !.next_timeout = Ping(p, o).timeout,
                                        !.state = "wait_ping_resp"])
  BY DEF handle_server_ping
<1>2. sv \in ServerRec /\ sv.restart_flow_msg = NoFlow /\ sv.state = "ping"
  BY Found0, Constants0 DEF ServerRec
<1>3. ASSUME pulse.then = "return", NEW f \in Flow
      PROVE  Healthy(flow'[f]) /\ flow'[f].state # "wait_for_lifetime_renew"
  <2>1. /\ flow[f] \in FlowRec /\ flow[f].state # "send_renew" /\ o[f] \in Outcome
        /\ Healthy(flow[f]) /\ flow[f].state # "wait_for_lifetime_renew"
    BY <1>3, Found0 DEF Suits, Holding
  <2>2. PICK g \in FlowRec : g = [flow[f] EXCEPT !.retry_count = 0]
    BY <2>1, RetryReset
  <2>3. g.state = flow[f].state /\ g.timeout = flow[f].timeout
        /\ g.recv_lifetime = flow[f].recv_lifetime
    BY <2>1, <2>2 DEF FlowRec
  <2>4. g.state # "send_renew" /\ Healthy(g)
    BY <2>1, <2>3 DEF Healthy, Alive, Spent
  <2>5. PICK x : x = Ctx(f, sv, NoMsg, o[f]) /\ Steady(x)
    BY <1>2, <2>1, NoMsgFields, CtxSteady
  <2>6. NextState(g.state, "do_send") # "absent"
    BY DEF NextState
  <2>7. /\ Healthy(handle_flow_event(g, "do_send", x))
        /\ handle_flow_event(g, "do_send", x).state \in {"wait_resp", "failed"}
    BY <2>4, <2>5, <2>6, EventOutcome
  <2>8. Ping(f, o) = handle_flow_event(g, "do_send", x)
    BY <2>2, <2>5
  <2> HIDE DEF Ping
  <2> QED
    BY <1>1, <2>1, <2>7, <2>8
<1> HIDE DEF sv, Ping
<1>4. ASSUME NEW sw, sw.state \in {"ping", "wait_ping_resp"},
             Put(s, sw)
      PROVE  Suited(s)
  <2>1. ASSUME pulse.then = "return", NEW f \in Flow PROVE Suits(flow'[f], sw)
    BY <1>3, <1>4, <2>1 DEF Suits, Holding
  <2> QED
    BY <1>4, <2>1 DEF Suited, Undisturbed, Put
<1>5. CASE Put(s, [sv EXCEPT !.ping_flow_msg = NoFlow, !.next_timeout = NoTimer])
  <2> DEFINE sw == [sv EXCEPT !.ping_flow_msg = NoFlow, !.next_timeout = NoTimer]
  <2>1. sw.state = "ping" /\ Put(s, sw)
    BY <1>2, <1>5 DEF ServerRec
  <2> HIDE DEF sw
  <2> QED
    BY <1>4, <2>1
<1>6. ASSUME NEW p, Put(s, [sv EXCEPT !.ping_flow_msg = p,
                                      !.next_timeout = Ping(p, o).timeout,
                                      !.state = "wait_ping_resp"])
      PROVE  Suited(s)
  <2> DEFINE sw == [sv EXCEPT !.ping_flow_msg = p, !.next_timeout = Ping(p, o).timeout,
                              !.state = "wait_ping_resp"]
  <2>1. sw.state = "wait_ping_resp" /\ Put(s, sw)
    BY <1>2, <1>6 DEF ServerRec
  <2> HIDE DEF sw
  <2> QED
    BY <1>4, <2>1
<1> QED
  BY <1>1, <1>5, <1>6

\* No answer to a ping: it is sent again, or the server is given up.
LEMMA PingTimeoutSuited ==
    ASSUME IInv, PInv, RInv, NEW s \in Server, server[s].state = "wait_ping_resp",
           handle_wait_ping_resp_timeout(s)
    PROVE  Suited(s)
<1> DEFINE n  == IF server[s].ping_count < MaxPing THEN server[s].ping_count + 1
                 ELSE MaxPing
           p  == server[s].ping_flow_msg
           sv == [server[s] EXCEPT !.ping_count = n]
           down  == [sv EXCEPT !.next_timeout = 0, !.state = "set_not_working"]
           again == [sv EXCEPT !.next_timeout = 0, !.state = "ping"]
           wait(t) == [sv EXCEPT !.next_timeout = t]
<1>1. server[s] \in ServerRec /\ p \in Flow \cup {NoFlow} /\ n \in 0 .. MaxPing
      /\ server[s].restart_flow_msg = NoFlow
  BY Found0, ServerFields, EnvAssumption
<1>2. sv = [server[s] EXCEPT !.ping_count = IF @ < MaxPing THEN @ + 1 ELSE MaxPing]
  OBVIOUS
<1> HIDE DEF n
<1>3. sv \in ServerRec /\ sv.state = "wait_ping_resp" /\ sv.restart_flow_msg = NoFlow
  BY <1>1 DEF ServerRec
<1>4. \/ UNCHANGED flow /\ Put(s, down)
      \/ UNCHANGED flow /\ Put(s, again)
      \/ /\ p # NoFlow
         /\ \E o \in Outcome :
              LET g == handle_flow_event(flow[p], "flow_timedout", Ctx(p, sv, NoMsg, o))
              IN  /\ flow' = [flow EXCEPT ![p] = g]
                  /\ \/ Put(s, down)
                     \/ Put(s, wait(g.timeout))
  BY <1>2 DEF handle_wait_ping_resp_timeout
<1> HIDE DEF sv, p
<1> DEFINE Kept == \A f \in Flow : pulse.then = "return" =>
                Healthy(flow'[f]) /\ flow'[f].state # "wait_for_lifetime_renew"
<1>5. ASSUME Kept, NEW sw, sw.state \in {"ping", "wait_ping_resp", "set_not_working"}, Put(s, sw)
      PROVE  Suited(s)
  <2>1. ASSUME pulse.then = "return", NEW f \in Flow PROVE Suits(flow'[f], sw)
    BY <1>5, <2>1 DEF Suits, Holding
  <2> QED
    BY <1>5, <2>1 DEF Suited, Undisturbed, Put
<1>6. \A f \in Flow : pulse.then = "return" =>
          Healthy(flow[f]) /\ flow[f].state # "wait_for_lifetime_renew"
  BY Found0 DEF Suits, Holding
<1>7. /\ down.state = "set_not_working" /\ again.state = "ping"
      /\ \A t : wait(t).state = "wait_ping_resp"
  BY <1>3 DEF ServerRec
<1> HIDE DEF down, again, wait
<1>8. CASE UNCHANGED flow /\ \/ Put(s, down)
                             \/ Put(s, again)
  <2>1. PICK sw : sw.state \in {"ping", "wait_ping_resp", "set_not_working"} /\ Put(s, sw)
    BY <1>7, <1>8
  <2>2. Kept
    BY <1>6, <1>8
  <2> HIDE DEF Kept
  <2> QED
    BY <1>5, <2>1, <2>2
<1>9. ASSUME p # NoFlow, NEW o \in Outcome, NEW g,
             g = handle_flow_event(flow[p], "flow_timedout", Ctx(p, sv, NoMsg, o)),
             flow' = [flow EXCEPT ![p] = g],
             \/ Put(s, down)
             \/ Put(s, wait(g.timeout))
      PROVE  Suited(s)
  <2>1. p \in Flow /\ flow[p] \in FlowRec /\ flow[p].state # "send_renew"
    BY <1>1, <1>9, Found0
  <2>2. PICK x : x = Ctx(p, sv, NoMsg, o) /\ Steady(x)
    BY <2>1, <1>3, NoMsgFields, CtxSteady
  <2>3. ASSUME pulse.then = "return"
        PROVE  Healthy(g) /\ g.state # "wait_for_lifetime_renew"
    <3>1. Healthy(flow[p]) /\ flow[p].state # "wait_for_lifetime_renew"
      BY <1>6, <2>1, <2>3
    <3>2. g = handle_flow_event(flow[p], "flow_timedout", x)
      BY <1>9, <2>2
    <3> QED
      BY <2>1, <2>2, <3>1, <3>2, EventOutcome
  <2>4. \A f \in Flow : flow'[f] = IF f = p THEN g ELSE flow[f]
    BY <1>9 DEF IInv, TypeOK
  <2>5. Kept
    BY <1>6, <2>3, <2>4
  <2>6. PICK sw : sw.state \in {"ping", "wait_ping_resp", "set_not_working"} /\ Put(s, sw)
    BY <1>7, <1>9
  <2> HIDE DEF Kept
  <2> QED
    BY <1>5, <2>5, <2>6
<1> QED
  BY <1>4, <1>8, <1>9

\* All of server_sm: an answer is never one for a server that was given up, and
\* an event of hserver_iter finds the server due.
LEMMA MachineSuited ==
    ASSUME IInv, PInv, RInv, NEW s \in Server, NEW ev, NEW m,
           run_server_state_machine(s, ev, m),
           \/ ev = "io" /\ m \in Answers /\ server[s].state # "not_working"
           \/ ev = "timeout" /\ Due(s)
    PROVE  Suited(s)
<1>1. server[s].state \notin {"server_restart", "version_negotiation"}
  BY DEF RInv, Undisturbed
<1>2. CASE ev = "io" /\ m \in Answers /\ server[s].state # "not_working"
  BY <1>1, <1>2, PingSuited, ReceiveSuited, SendAllSuited, SweepSuited, QuietSuited,
     SetNotWorkingSuited DEF run_server_state_machine
<1>3. CASE ev = "timeout" /\ Due(s)
  BY <1>1, <1>3, PingSuited, PingTimeoutSuited, SendAllSuited, SweepSuited, QuietSuited,
     SetNotWorkingSuited DEF run_server_state_machine
<1> QED
  BY <1>2, <1>3

-----------------------------------------------------------------------------
(* The steps.                                                               *)

\* A step of server_sm inside a pulse.
LEMMA SuitedStep ==
    ASSUME IInv, RInv, NEW s \in Server, Suited(s), pulse'.then = pulse.then, ~AtRest'
    PROVE  RInv'
<1>1. PICK sv : /\ server' = [server EXCEPT ![s] = sv]
                /\ Undisturbed(sv)
                /\ pulse.then = "return" => \A f \in Flow : Suits(flow'[f], sv)
  BY DEF Suited
<1>2. server'[s] = sv /\ \A t \in Server : t # s => server'[t] = server[t]
  BY <1>1 DEF IInv, TypeOK
<1>3. \A f \in Flow : ServerOf(f) = s
  BY OneServer
<1> QED
  BY <1>1, <1>2, <1>3 DEF RInv

\* A context with nothing in it.
LEMMA EmptySuited == Suits(AbsentFlow, UnusedServer) /\ Undisturbed(UnusedServer)
BY DEF Suits, Undisturbed, Healthy, Alive, Spent, AbsentFlow, UnusedServer, Holding

LEMMA InitRInv == Init => RInv
<1> SUFFICES ASSUME Init PROVE RInv
  OBVIOUS
<1>1. \A f \in Flow : ServerOf(f) \in Server
  BY FlowParts DEF ServerOf
<1> QED
  BY <1>1, EmptySuited DEF Init, RInv, Rest

LEMMA FreeRInv == Free => RInv'
<1> SUFFICES ASSUME Free PROVE RInv'
  OBVIOUS
<1>1. \A f \in Flow : ServerOf(f) \in Server
  BY FlowParts DEF ServerOf
<1> QED
  BY <1>1, EmptySuited DEF Free, RInv, Rest

\* The steps of a pulse.
LEMMA PulseRInv == IInv /\ PInv /\ RInv /\ Pulse => RInv'
<1> SUFFICES ASSUME IInv, PInv, RInv, Pulse PROVE RInv'
  OBVIOUS
<1>1. ASSUME NEW s \in Server, NEW m \in Answers, pcp_pulse_recv(s, m)
      PROVE  RInv'
  <2>1. server[s].state # "not_working" /\ run_server_state_machine(s, "io", m)
    BY <1>1, TimelyAssumption DEF pcp_pulse_recv
  <2>2. Suited(s)
    BY <2>1, MachineSuited
  <2>3. pulse'.then = pulse.then /\ ~AtRest'
    BY <1>1 DEF pcp_pulse_recv, AtRest, IInv, TypeOK, PulseRec
  <2> QED
    BY <2>2, <2>3, SuitedStep
<1>2. CASE pcp_pulse_no_msg
  <2>1. pulse'.then = pulse.then /\ ~AtRest'
    BY <1>2 DEF pcp_pulse_no_msg, AtRest, IInv, TypeOK, PulseRec
  <2> QED
    BY <1>2, <2>1 DEF pcp_pulse_no_msg, RInv
<1>3. CASE hserver_iter
  <2>1. pulse.s \in Server /\ Due(pulse.s)
        /\ run_server_state_machine(pulse.s, "timeout", NoAnswer)
    BY <1>3 DEF hserver_iter, IInv, TypeOK, PulseRec
  <2>2. PICK s \in Server : Due(s) /\ run_server_state_machine(s, "timeout", NoAnswer)
    BY <2>1
  <2>3. Suited(s)
    BY <2>2, MachineSuited
  <2>4. pulse' = pulse /\ ~AtRest'
    BY <1>3 DEF hserver_iter, AtRest
  <2> QED
    BY <2>3, <2>4, SuitedStep
<1>4. CASE hserver_next
  <2>1. \/ pulse'.then = pulse.then /\ ~AtRest'
        \/ pulse.then = "return" /\ pulse'.then = "return"
    <3>1. pulse \in PulseRec /\ pulse.at \in {"io", "scan"}
      BY <1>4 DEF hserver_next, IInv, TypeOK
    <3>2. CASE pulse' = [pulse EXCEPT !.at = "scan", !.s = 1]
      BY <3>1, <3>2 DEF AtRest, PulseRec
    <3>3. ASSUME NEW t, pulse' = [pulse EXCEPT !.s = t]
          PROVE  pulse'.then = pulse.then /\ ~AtRest'
      BY <3>1, <3>3 DEF AtRest, PulseRec
    <3>4. CASE pulse.then = "return" /\ pulse' = Rest
      BY <3>4 DEF Rest
    <3> QED
      BY <1>4, <3>2, <3>3, <3>4 DEF hserver_next
  <2> QED
    BY <1>4, <2>1 DEF hserver_next, RInv
<1>5. CASE pcp_terminate_end
  BY <1>5, FreeRInv DEF pcp_terminate_end
<1> QED
  BY <1>1, <1>2, <1>3, <1>4, <1>5 DEF Pulse

\* The calls an application makes when it only requests and deletes flows.
LEMMA ApiRInv == IInv /\ PInv /\ RInv /\ API => RInv'
<1> SUFFICES ASSUME IInv, PInv, RInv, API PROVE RInv'
  OBVIOUS
<1>1. TypeOK /\ \A f \in Flow : ServerOf(f) \in Server /\ ServerOf(f) = f[2]
  BY FlowParts DEF ServerOf, IInv
<1>2. AtRest => /\ pulse.then = "return"
                /\ \A s \in Server : Undisturbed(server[s])
                /\ \A f \in Flow : Suits(flow[f], server[ServerOf(f)])
  BY DEF RInv
<1>3. \A s \in Server, v \in AddVersions, ok \in BOOLEAN : ~pcp_add_server(s, v, ok)
  BY PlainCallsAssumption DEF pcp_add_server, Call
<1>4. \A r \in Request : /\ \A life \in Lifetimes : ~pcp_flow_set_lifetime(r, life)
                         /\ ~pcp_flow_set_opt(r) /\ ~pcp_close_flow(r)
  BY PlainCallsAssumption DEF pcp_flow_set_lifetime, pcp_flow_set_opt, pcp_close_flow, Call
<1>5. ASSUME NEW gws, pcp_init(gws)
      PROVE  RInv'
  <2> DEFINE new(s) == [UnusedServer EXCEPT
                          !.state = IF gws[s] THEN "ping" ELSE "allocated",
                          !.pcp_version = 2]
  <2>1. \A s : new(s).state \in {"ping", "allocated"}
    BY DEF UnusedServer
  <2>2. /\ server' = [s \in Server |-> IF s \in DOMAIN gws THEN new(s) ELSE UnusedServer]
        /\ flow' = flow /\ pulse' = pulse /\ AtRest
        /\ \A f \in Flow : flow[f].state = "absent"
    BY <1>5 DEF pcp_init, Live, Call
  <2> HIDE DEF new
  <2>3. \A s \in Server : server'[s].state \in {"ping", "allocated", "uninitialized"}
    BY <2>1, <2>2 DEF UnusedServer
  <2>4. \A f \in Flow : Suits(flow'[f], server'[ServerOf(f)])
    BY <1>1, <2>2, <2>3 DEF Suits, Healthy, Alive, Spent
  <2> QED
    BY <1>2, <2>2, <2>3, <2>4 DEF RInv, Undisturbed
<1>6. ASSUME NEW r \in Request, NEW life \in Lifetimes, pcp_new_flow(r, life)
      PROVE  RInv'
  <2> DEFINE st(f)  == IF server[f[2]].state = "wait_io" THEN "send"
                       ELSE "wait_for_server_init"
             new(f) == [pcp_create_flow EXCEPT !.lifetime = life, !.timeout = 0,
                                               !.state = st(f)]
             due(s) == [server[s] EXCEPT !.next_timeout = 0]
  <2>1. \A f : new(f).state = st(f) /\ new(f).timeout = 0
    BY DEF pcp_create_flow, AbsentFlow
  <2>2. \A s \in Server : due(s).state = server[s].state /\ due(s).next_timeout = 0
    BY <1>1, TimerKeeps DEF TypeOK, ServerRec
  <2>3. /\ flow' = [f \in Flow |-> IF f[1] = r /\ Takes(f[2], r) THEN new(f) ELSE flow[f]]
        /\ server' = [s \in Server |-> IF Takes(s, r) THEN due(s) ELSE server[s]]
        /\ pulse' = pulse /\ AtRest
    BY <1>6 DEF pcp_new_flow, Call
  <2> HIDE DEF new, due
  <2>4. \A s \in Server : /\ server'[s].state = server[s].state
                          /\ \/ server'[s] = server[s] /\ ~Takes(s, r)
                             \/ server'[s].next_timeout = 0
    BY <2>2, <2>3
  <2>5. \A s \in Server : server[s].state # "wait_io_calc_nearest_timeout"
    BY <2>3, QuietServers DEF AtRest, CanPoll, Transient
  <2>6. ASSUME NEW f \in Flow PROVE Suits(flow'[f], server'[ServerOf(f)])
    <3>1. ServerOf(f) \in Server /\ ServerOf(f) = f[2] /\ Suits(flow[f], server[ServerOf(f)])
          /\ flow[f].timeout \in Timer
      BY <1>1, <1>2, <2>3, FlowFields DEF TypeOK
    <3>2. CASE f[1] = r /\ Takes(f[2], r)
      <4>1. flow'[f].state = st(f) /\ flow'[f].timeout = 0
        BY <2>1, <2>3, <3>2
      <4>2. server'[f[2]].next_timeout = 0
        BY <2>2, <2>3, <3>1, <3>2
      <4>3. flow'[f].state \in {"send", "wait_for_server_init"} /\ flow'[f].timeout = 0
        BY <4>1
      <4>4. Healthy(flow'[f])
        BY <4>3 DEF Healthy, Alive, Spent
      <4>5. server'[ServerOf(f)].state \in {"wait_io", "wait_io_calc_nearest_timeout"} =>
               flow'[f].state # "wait_for_server_init"
        BY <2>4, <2>5, <3>1, <4>1
      <4> QED
        <5>1. server'[ServerOf(f)].next_timeout = 0 /\ 0 # NoTimer
          BY <3>1, <4>2, NoTimerAssumption
        <5> QED
          BY <4>3, <4>4, <4>5, <5>1 DEF Suits
    <3>3. CASE ~(f[1] = r /\ Takes(f[2], r))
      <4>1. flow'[f] = flow[f]
        BY <2>3, <3>3
      <4>2. CASE server'[ServerOf(f)] = server[ServerOf(f)]
        BY <3>1, <4>1, <4>2
      <4>3. CASE server'[ServerOf(f)].next_timeout = 0
        <5>1. server'[ServerOf(f)].state = server[ServerOf(f)].state
          BY <2>4, <3>1
        <5> QED
          BY <3>1, <4>1, <4>3, <5>1, NoTimerAssumption DEF Suits
      <4> QED
        BY <2>4, <3>1, <4>2, <4>3
    <3> QED
      BY <3>2, <3>3
  <2> QED
    BY <1>2, <2>3, <2>4, <2>6 DEF RInv, Undisturbed
<1>7. ASSUME NEW r \in Request, pcp_delete_flow(r)
      PROVE  RInv'
  <2> DEFINE cut(s) == [server[s] EXCEPT !.ping_flow_msg = NoFlow]
  <2>1. \A s \in Server : /\ cut(s).state = server[s].state
                          /\ cut(s).next_timeout = server[s].next_timeout
    BY <1>1 DEF TypeOK, ServerRec
  <2>2. /\ flow' = [f \in Flow |-> IF f \in ChainOf(r) THEN AbsentFlow ELSE flow[f]]
        /\ server' = [s \in Server |->
                        IF InUse(s) /\ server[s].ping_flow_msg \in ChainOf(r)
                        THEN cut(s) ELSE server[s]]
        /\ pulse' = pulse /\ AtRest
    BY <1>7 DEF pcp_delete_flow, Call
  <2> HIDE DEF cut
  <2>3. \A s \in Server : /\ server'[s].state = server[s].state
                          /\ server'[s].next_timeout = server[s].next_timeout
    BY <2>1, <2>2
  <2>4. \A f \in Flow : flow'[f] = flow[f] \/ flow'[f].state = "absent"
    BY <2>2 DEF AbsentFlow
  <2>5. ASSUME NEW f \in Flow PROVE Suits(flow'[f], server'[ServerOf(f)])
    <3>1. /\ Suits(flow[f], server[ServerOf(f)])
          /\ server'[ServerOf(f)].state = server[ServerOf(f)].state
          /\ server'[ServerOf(f)].next_timeout = server[ServerOf(f)].next_timeout
      BY <1>1, <1>2, <2>2, <2>3
    <3>2. CASE flow'[f] = flow[f]
      BY <3>1, <3>2 DEF Suits
    <3>3. CASE flow'[f].state = "absent"
      BY <3>3 DEF Suits, Healthy, Alive, Spent
    <3> QED
      BY <2>4, <3>2, <3>3
  <2> QED
    BY <1>2, <2>2, <2>3, <2>5 DEF RInv, Undisturbed
<1>8. ASSUME NEW close_flows \in BOOLEAN, pcp_terminate(close_flows)
      PROVE  RInv'
  <2>1. CASE Free
    BY <2>1, FreeRInv
  <2>2. CASE /\ CloseAll({f \in Flow : Live(f)})
             /\ pulse' = [pulse EXCEPT !.at = "poll", !.then = "terminate"]
    <3>1. pulse'.at = "poll" /\ pulse'.then = "terminate"
      BY <1>1, <2>2 DEF TypeOK, PulseRec
    <3>2. \A s \in Server : server'[s].state = server[s].state
      BY <1>1, <2>2, TimerKeeps DEF CloseAll, Wake, TypeOK
    <3> QED
      BY <3>1, <3>2 DEF RInv, Undisturbed, AtRest
  <2> QED
    BY <1>8, <2>1, <2>2 DEF pcp_terminate
<1> QED
  BY <1>3, <1>4, <1>5, <1>6, <1>7, <1>8 DEF API

\* Ageing a timer.
LEMMA AgeOne ==
    ASSUME NEW t \in Timer
    PROVE  /\ AgeTimer(t) = NoTimer <=> t = NoTimer
           /\ t # NoTimer /\ t > 0 => AgeTimer(t) = t - 1
BY NoTimerAssumption DEF AgeTimer, Timer

\* The clock moves only when no server is due, and then no flow of it is: the
\* timers, and the lifetimes behind them, lose the same second.
LEMMA TickRInv == IInv /\ PInv /\ RInv /\ Tick => RInv'
<1> SUFFICES ASSUME IInv, PInv, RInv, Tick PROVE RInv'
  OBVIOUS
<1>1. AtRest /\ pulse' = pulse /\ pulse.then = "return" /\ \A s \in Server : ~Due(s)
  BY TimelyAssumption DEF Tick, RInv
<1>2. \A s \in Server : server[s].state \notin Transient
  BY <1>1, QuietServers DEF AtRest, CanPoll
<1>3. \A f \in Flow : /\ flow'[f].state = flow[f].state
                      /\ flow'[f].timeout = AgeTimer(flow[f].timeout)
                      /\ flow'[f].recv_lifetime = AgeLife(flow[f].recv_lifetime)
                      /\ flow[f].timeout \in Timer
  BY DEF Tick, IInv, TypeOK, FlowRec
<1>4. \A s \in Server : /\ server'[s].state = server[s].state
                        /\ server'[s].next_timeout = AgeTimer(server[s].next_timeout)
                        /\ server[s].next_timeout \in Timer
  BY DEF Tick, IInv, TypeOK, ServerRec
<1>5. ASSUME NEW f \in Flow PROVE Suits(flow'[f], server'[ServerOf(f)])
  <2>1. ServerOf(f) \in Server /\ Suits(flow[f], server[ServerOf(f)])
    BY <1>1, FlowParts DEF ServerOf, RInv
  <2> DEFINE t  == flow[f].timeout
             n  == server[ServerOf(f)].next_timeout
             l  == flow[f].recv_lifetime
             up == server[ServerOf(f)].state = "wait_io"
  <2>2. t \in Timer /\ n \in Timer /\ l \in Int
    BY <1>3, <1>4, <2>1, FlowFields DEF IInv, TypeOK
  <2>3. up /\ flow[f].state # "absent" /\ t # NoTimer =>
            /\ t >= 0 /\ n # NoTimer /\ n <= t /\ n > 0
    <3>1. up /\ n # NoTimer => ~(n <= 0)
      BY <1>1, <2>1 DEF Due, InUse, Expired
    <3> QED
      BY <2>1, <2>2, <3>1, NoTimerAssumption DEF Suits, Timer
  <2>4. flow[f].state = "wait_for_lifetime_renew" => up /\ t # NoTimer /\ t >= 0 /\ t < l
    BY <1>2, <2>1 DEF Suits, Healthy, Alive, Holding, Transient
  <2>5. flow[f].state = "failed" => t = NoTimer
    BY <2>1 DEF Suits, Healthy, Spent
  <2>6. up => flow[f].state # "wait_for_server_init"
    BY <2>1 DEF Suits
  <2>7. server'[ServerOf(f)].state = server[ServerOf(f)].state
        /\ server'[ServerOf(f)].next_timeout = AgeTimer(n)
        /\ flow'[f].state = flow[f].state /\ flow'[f].timeout = AgeTimer(t)
        /\ flow'[f].recv_lifetime = AgeLife(l)
    BY <1>3, <1>4, <2>1
  <2>8. server[ServerOf(f)].state # "wait_io_calc_nearest_timeout"
    BY <1>2, <2>1 DEF Transient
  <2> HIDE DEF t, n, l
  <2>9. up /\ flow[f].state # "absent" /\ t # NoTimer =>
            /\ AgeTimer(t) \in Int /\ AgeTimer(t) >= 0
            /\ AgeTimer(n) # NoTimer /\ AgeTimer(n) <= AgeTimer(t)
    BY <2>2, <2>3, AgeOne, NoTimerAssumption DEF Timer
  <2>10. flow[f].state = "wait_for_lifetime_renew" => AgeTimer(t) < AgeLife(l)
    BY <2>2, <2>3, <2>4, AgeOne DEF Timer, AgeLife
  <2>11. AgeTimer(t) = NoTimer <=> t = NoTimer
    BY <2>2, AgeOne
  <2>12. Healthy(flow'[f])
    BY <2>4, <2>5, <2>7, <2>9, <2>10, <2>11 DEF Healthy, Alive, Spent
  <2>13. flow'[f].state = "wait_for_lifetime_renew" => server'[ServerOf(f)].state \in Holding
    BY <2>4, <2>7 DEF Holding
  <2> QED
    BY <2>6, <2>7, <2>8, <2>9, <2>11, <2>12, <2>13 DEF Suits
<1> QED
  BY <1>1, <1>4, <1>5 DEF RInv, Undisturbed

LEMMA NextRInv == IInv /\ PInv /\ RInv /\ [Next]_vars => RInv'
<1> SUFFICES ASSUME IInv, PInv, RInv, [Next]_vars PROVE RInv'
  OBVIOUS
<1>1. CASE UNCHANGED vars
  BY <1>1 DEF vars, RInv, AtRest
<1> QED
  BY <1>1, PulseRInv, ApiRInv, TickRInv DEF Next

\* Between two calls no server is on its way, and what RInv says of the flows
\* holds.
LEMMA RestSuits ==
    ASSUME IInv, RInv, AtRest, NEW f \in Flow
    PROVE  /\ Suits(flow[f], server[ServerOf(f)]) /\ ServerOf(f) \in Server
           /\ server[ServerOf(f)].state \notin Transient
<1>1. ServerOf(f) \in Server
  BY FlowParts DEF ServerOf
<1> QED
  BY <1>1, QuietServers DEF RInv, AtRest, CanPoll

\* pcp_pulse returns with the timer of a server that is up no later than that of
\* any of its flows which still acts on its timer: the sweep, the answers and
\* the calls in between never leave a flow behind the time the application was
\* told to come back at.
THEOREM TimersCoverFlows == Spec => []TimerCoversFlows
<1>1. IInv /\ RInv => TimerCoversFlows
  <2> SUFFICES ASSUME IInv, RInv, AtRest, NEW s \in Server, server[s].state = "wait_io",
                      NEW f \in FlowsOf(s), flow[f].timeout # NoTimer
               PROVE  server[s].next_timeout # NoTimer
                      /\ server[s].next_timeout <= flow[f].timeout
    BY DEF TimerCoversFlows
  <2>1. f \in Flow /\ ServerOf(f) = s /\ flow[f].state # "absent"
    BY DEF FlowsOf, Live
  <2> QED
    BY <2>1, RestSuits DEF Suits
<1> QED
  BY <1>1, InitIInv, NextIInv, InitPInv, NextPInv, InitRInv, NextRInv, PTL DEF Spec

\* A flow reported as succeeded holds a mapping whose lifetime is not over, and
\* has a timer for its renewal: whatever is requested, refused, answered late,
\* deleted or given up meanwhile, the renewals of handle_wait_io_timeout come in
\* time, given that the server is steady and the application pulses when told.
THEOREM MappingsStayAlive == Spec => []MappingIsAlive
<1>1. IInv /\ RInv => MappingIsAlive
  <2> SUFFICES ASSUME IInv, RInv, AtRest, NEW f \in Flow,
                      flow[f].state = "wait_for_lifetime_renew"
               PROVE  flow[f].recv_lifetime > 0 /\ flow[f].timeout # NoTimer
    BY DEF MappingIsAlive
  <2>1. /\ flow[f].timeout # NoTimer /\ flow[f].timeout >= 0
        /\ flow[f].timeout < flow[f].recv_lifetime
    BY RestSuits DEF Suits, Healthy, Alive
  <2>2. flow[f].timeout \in Int /\ flow[f].recv_lifetime \in Int
    BY <2>1, FlowFields DEF IInv, TypeOK, Timer
  <2> QED
    BY <2>1, <2>2
<1> QED
  BY <1>1, InitIInv, NextIInv, InitPInv, NextPInv, InitRInv, NextRInv, PTL DEF Spec
=============================================================================
