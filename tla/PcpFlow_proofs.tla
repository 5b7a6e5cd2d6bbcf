--------------------------- MODULE PcpFlow_proofs ---------------------------
(***************************************************************************)
(* What one round of handle_flow_event does to a flow of any kind: facts   *)
(* about the handlers of PcpFlow, for the proofs of FlowChain and of       *)
(* PcpClient.                                                              *)
(***************************************************************************)
EXTENDS PcpFlow, TLAPS

\* The events a caller of handle_flow_event may raise.
FirstEvent == {"flow_timedout", "server_initialized", "do_send", "do_fail",
               "server_restarted"} \cup Result

\* A loop that has just run fhndl_send or fhndl_resend, one that has just run
\* fhndl_send_renew, and one that is over.
Sending(c)  == c.cur = "send" /\ c.ev \in {"do_fail", "ignored", "msg_sent"}
Renewing(c) == c.cur = "send_renew" /\ c.ev \in {"do_fail", "msg_sent"}
Over(c)     == c.ev = "none"

\* The states that handle_flow_event leaves a flow in.
Settling == {"wait_resp", "wait_after_short_life_error", "wait_for_lifetime_renew",
             "wait_for_server_init", "failed"}

\* The intervals after which a request is sent again.
Interval(x) == {IRT} \cup {PCP_RT(rt, x.rand) : rt \in Nat}

\* A flow whose request was just handed to sendto has a timer.
Timed(c, x) == c.ev = "msg_sent" => c.f.timeout \in Interval(x)

-----------------------------------------------------------------------------
\* PCP_RT yields a time: clamping keeps the doubled interval positive and the
\* random factor is positive.
LEMMA RetxType ==
    ASSUME NEW rt \in Nat, NEW rand \in Nat, rand <= RandMask
    PROVE  PCP_RT(rt, rand) \in Nat
<1>1. Clamp(2 * rt) \in Nat
  BY RetxAssumption DEF Clamp
<1>2. 8192 + (1024 - rand) \in Nat
  BY DEF RandMask
<1>3. \A a, b \in Nat : a * b \in Nat /\ a * b >= 0
  OBVIOUS
<1>4. (8192 + (1024 - rand)) * Clamp(2 * rt) \in Nat
  BY <1>1, <1>2, <1>3
<1>5. \A a \in Nat : a \div 8192 \in Nat
  OBVIOUS
<1> QED
  BY <1>4, <1>5 DEF PCP_RT

\* flow_events_sm leads to a state of a flow, and never back to pfs_idle.
LEMMA NextStateType ==
    ASSUME NEW st \in FlowState, NEW ev \in FlowEvent
    PROVE  NextState(st, ev) \in Settling \cup {"absent", "send", "send_renew"}
BY DEF NextState, FlowState, Settling

\* The fields of the records that the handlers work on.
LEMMA ChainFields ==
    ASSUME NEW c \in Chain
    PROVE  c.f \in FlowRec /\ c.cur \in FlowState /\ c.ev \in FlowEvent /\ c.sends \in Nat
BY DEF Chain

\* The fields of a flow.
LEMMA FlowFields ==
    ASSUME NEW f \in FlowRec
    PROVE  /\ f.state \in FlowState /\ f.timeout \in Timer /\ f.resend_timeout \in Nat
           /\ f.retry_count \in 0 .. MRC /\ f.recv_lifetime \in Int
           /\ f.recv_result \in Result /\ f.buf \in Version \cup {NoBuf}
BY DEF FlowRec

\* The fields of a context.
LEMMA ContextFields ==
    ASSUME NEW x \in Context
    PROVE  /\ x.present \in BOOLEAN /\ x.mark \in BOOLEAN /\ x.version \in Version
           /\ x.rand \in 0 .. RandMask /\ x.msg.result \in Result
           /\ x.msg.lifetime \in 0 .. MaxLife /\ x.msg.lifetime \in Nat
BY LifeAssumption DEF Context, Msg

\* The updates that the handlers are made of.
WithBuf(c, n, v)       == [c EXCEPT !.sends = n, !.f.buf = v]
WithTimers(c, ev, r, t) == [c EXCEPT !.ev = ev, !.f.resend_timeout = r, !.f.timeout = t]

\* Replacing the message buffer of the flow of a chain.
LEMMA PutBuf ==
    ASSUME NEW c \in Chain, NEW v \in Version \cup {NoBuf}, NEW n \in Nat
    PROVE  /\ WithBuf(c, n, v) \in Chain
           /\ WithBuf(c, n, v).cur = c.cur
           /\ WithBuf(c, n, v).f.state = c.f.state
           /\ WithBuf(c, n, v).sends = n
BY ChainFields DEF Chain, FlowRec, WithBuf

\* Setting both timers of the flow of a chain.
LEMMA PutTimers ==
    ASSUME NEW c \in Chain, NEW ev \in FlowEvent, NEW r \in Nat, NEW t \in Timer
    PROVE  /\ WithTimers(c, ev, r, t) \in Chain
           /\ WithTimers(c, ev, r, t).cur = c.cur
           /\ WithTimers(c, ev, r, t).f.state = c.f.state
           /\ WithTimers(c, ev, r, t).sends = c.sends
           /\ WithTimers(c, ev, r, t).ev = ev
           /\ WithTimers(c, ev, r, t).f.timeout = t
BY ChainFields DEF Chain, FlowRec, WithTimers

\* pcp_flow_send_msg keeps everything but the buffer and the count of sends.
LEMMA SendMsg ==
    ASSUME NEW c \in Chain, NEW x \in Context
    PROVE  /\ pcp_flow_send_msg(c, x) \in Chain
           /\ pcp_flow_send_msg(c, x).cur = c.cur
           /\ pcp_flow_send_msg(c, x).f.state = c.f.state
           /\ pcp_flow_send_msg(c, x).sends = c.sends + 1
<1> DEFINE buf == IF SendOk(c, x) THEN NoBuf
                  ELSE IF c.f.buf = NoBuf THEN x.version ELSE c.f.buf
<1>1. buf \in Version \cup {NoBuf}
  BY ChainFields, FlowFields, ContextFields
<1>2. pcp_flow_send_msg(c, x) = WithBuf(c, c.sends + 1, buf)
  BY DEF pcp_flow_send_msg, WithBuf
<1>3. c.sends + 1 \in Nat
  BY ChainFields
<1> HIDE DEF buf
<1> QED
  BY <1>1, <1>2, <1>3, PutBuf

\* What a handler must keep: the type, the state it was called in, and that at
\* most one message is sent.
Keeps(c, d) == /\ d \in Chain
               /\ d.cur = c.cur
               /\ d.f.state = c.f.state
               /\ d.sends \in {c.sends, c.sends + 1}

\* Raising an event changes nothing else.
LEMMA RaiseKeeps ==
    ASSUME NEW c \in Chain, NEW ev \in FlowEvent
    PROVE  Keeps(c, Raise(c, ev)) /\ Raise(c, ev).ev = ev /\ Raise(c, ev).f = c.f
           /\ Raise(c, ev).sends = c.sends
BY ChainFields DEF Raise, Chain, Keeps

\* The events that the handlers raise are events.
LEMMA EventNames ==
    {"do_fail", "ignored", "msg_sent", "none"} \subseteq FlowEvent
BY DEF FlowEvent

\* An interval is a time, and so it is taken for a timer in the future.
LEMMA IntervalType ==
    ASSUME NEW x \in Context, NEW t \in Interval(x)
    PROVE  t \in Nat /\ t \in Timer
<1>1. x.rand \in Nat /\ x.rand <= RandMask
  <2>1. RandMask \in Nat
    BY DEF RandMask
  <2> QED
    BY <2>1, ContextFields
<1>2. \A rt \in Nat : PCP_RT(rt, x.rand) \in Nat
  BY <1>1, RetxType
<1>3. t \in Nat
  BY <1>2, RetxAssumption DEF Interval
<1> QED
  BY <1>3 DEF Timer

\* Both ways to send a request end by failing, by being ignored, or with a timer.
LEMMA SendHandler ==
    ASSUME NEW c \in Chain, NEW x \in Context
    PROVE  /\ Keeps(c, fhndl_send(c, x))
           /\ fhndl_send(c, x).ev \in {"do_fail", "ignored", "msg_sent"}
           /\ fhndl_send(c, x).ev = "ignored" => x.mark
           /\ fhndl_send(c, x).ev = "msg_sent" => fhndl_send(c, x).f.timeout \in Interval(x)
<1> DEFINE d == pcp_flow_send_msg(c, x)
<1>1. Keeps(c, d)
  BY SendMsg DEF Keeps
<1>2. d \in Chain
  BY SendMsg
<1>3. CASE ~x.present
  BY <1>3, RaiseKeeps, EventNames DEF fhndl_send
<1>4. CASE x.present /\ x.mark
  BY <1>4, RaiseKeeps, EventNames DEF fhndl_send
<1>5. CASE x.present /\ ~x.mark /\ ~SendOk(c, x)
  <2>1. fhndl_send(c, x) = Raise(d, "do_fail")
    BY <1>5 DEF fhndl_send
  <2> HIDE DEF d
  <2>2. Keeps(d, Raise(d, "do_fail")) /\ Raise(d, "do_fail").ev = "do_fail"
        /\ Raise(d, "do_fail").sends = d.sends
    BY <1>2, RaiseKeeps, EventNames
  <2> QED
    BY <2>1, <2>2, <1>1 DEF Keeps
<1>6. CASE x.present /\ ~x.mark /\ SendOk(c, x)
  <2>1. fhndl_send(c, x) = WithTimers(d, "msg_sent", IRT, IRT)
    BY <1>6 DEF fhndl_send, WithTimers
  <2>2. IRT \in Nat /\ IRT \in Timer
    BY RetxAssumption DEF Timer
  <2> HIDE DEF d
  <2> DEFINE e == WithTimers(d, "msg_sent", IRT, IRT)
  <2>3. Keeps(d, e) /\ e.ev = "msg_sent" /\ e.f.timeout = IRT /\ e.sends = d.sends
    BY <2>2, <1>2, PutTimers, EventNames DEF Keeps
  <2> HIDE DEF e
  <2>4. fhndl_send(c, x) = e
    BY <2>1 DEF e
  <2> QED
    BY <2>2, <2>3, <2>4, <1>1 DEF Keeps, Interval
<1> QED
  BY <1>3, <1>4, <1>5, <1>6

\* Two steps that each keep the flow valid keep it valid together.
LEMMA KeepsTrans ==
    ASSUME NEW c, NEW d, NEW e, Keeps(c, d), Keeps(d, e), e.sends = d.sends
    PROVE  Keeps(c, e)
BY DEF Keeps

WithRetry(c, n) == [c EXCEPT !.f.retry_count = n]

\* Replacing the retry counter of the flow of a chain.
LEMMA PutRetry ==
    ASSUME NEW c \in Chain, NEW n \in 0 .. MRC
    PROVE  /\ Keeps(c, WithRetry(c, n))
           /\ WithRetry(c, n).sends = c.sends
           /\ WithRetry(c, n).f.retry_count = n
BY ChainFields DEF Chain, FlowRec, WithRetry, Keeps

\* What fhndl_resend leaves behind.
LEMMA ResendHandler ==
    ASSUME NEW c \in Chain, NEW x \in Context
    PROVE  /\ Keeps(c, fhndl_resend(c, x))
           /\ fhndl_resend(c, x).ev \in {"do_fail", "msg_sent"}
           /\ fhndl_resend(c, x).ev = "msg_sent" =>
                 fhndl_resend(c, x).f.timeout \in Interval(x)
<1> DEFINE n     == IF c.f.retry_count < MRC THEN c.f.retry_count + 1 ELSE MRC
           tried == WithRetry(c, n)
           d     == pcp_flow_send_msg(tried, x)
           rt    == PCP_RT(c.f.resend_timeout, x.rand)
<1>1. n \in 0 .. MRC
  BY ChainFields, FlowFields, RetxAssumption
<1>2. rt \in Nat /\ rt \in Timer /\ rt \in Interval(x)
  <2>1. c.f.resend_timeout \in Nat
    BY ChainFields, FlowFields
  <2>2. PCP_RT(c.f.resend_timeout, x.rand) \in Interval(x)
    BY <2>1 DEF Interval
  <2> HIDE DEF n, tried, d
  <2> QED
    BY <2>2, IntervalType DEF rt
<1>3. tried = [c EXCEPT !.f.retry_count = IF @ < MRC THEN @ + 1 ELSE MRC]
  BY DEF WithRetry
<1>4. fhndl_resend(c, x) =
        IF ~x.present THEN Raise(c, "do_fail")
        ELSE IF tried.f.retry_count >= MRC THEN Raise(tried, "do_fail")
        ELSE IF ~SendOk(c, x) THEN Raise(d, "do_fail")
        ELSE WithTimers(d, "msg_sent", rt, rt)
  BY <1>3 DEF fhndl_resend, WithTimers
<1> HIDE DEF n, rt
<1>5. Keeps(c, tried) /\ tried \in Chain /\ tried.sends = c.sends
  BY <1>1, PutRetry DEF Keeps
<1> HIDE DEF tried
<1>6. Keeps(tried, d) /\ d \in Chain
  BY <1>5, SendMsg DEF Keeps
<1> HIDE DEF d
<1>7. Keeps(c, d)
  BY <1>5, <1>6 DEF Keeps
<1>8. Keeps(c, Raise(c, "do_fail")) /\ Raise(c, "do_fail").ev = "do_fail"
  BY RaiseKeeps, EventNames
<1>9. Keeps(tried, Raise(tried, "do_fail")) /\ Raise(tried, "do_fail").ev = "do_fail"
      /\ Raise(tried, "do_fail").sends = tried.sends
  BY <1>5, RaiseKeeps, EventNames
<1>10. Keeps(d, Raise(d, "do_fail")) /\ Raise(d, "do_fail").ev = "do_fail"
       /\ Raise(d, "do_fail").sends = d.sends
  BY <1>6, RaiseKeeps, EventNames
<1> DEFINE e == WithTimers(d, "msg_sent", rt, rt)
<1>11. Keeps(d, e) /\ e.ev = "msg_sent" /\ e.f.timeout = rt /\ e.sends = d.sends
  BY <1>2, <1>6, PutTimers, EventNames DEF Keeps
<1>12. Keeps(c, Raise(tried, "do_fail")) /\ Keeps(c, Raise(d, "do_fail")) /\ Keeps(c, e)
  BY <1>5, <1>7, <1>9, <1>10, <1>11, KeepsTrans
<1> QED
  BY <1>2, <1>4, <1>8, <1>9, <1>10, <1>11, <1>12

WithTimeout(c, ev, t) == [c EXCEPT !.ev = ev, !.f.timeout = t]

\* Replacing the timer of the flow of a chain.
LEMMA PutTimeout ==
    ASSUME NEW c \in Chain, NEW ev \in FlowEvent, NEW t \in Timer
    PROVE  /\ Keeps(c, WithTimeout(c, ev, t))
           /\ WithTimeout(c, ev, t).sends = c.sends
           /\ WithTimeout(c, ev, t).ev = ev
BY ChainFields DEF Chain, FlowRec, WithTimeout, Keeps

\* What fhndl_send_renew leaves behind.
LEMMA RenewHandler ==
    ASSUME NEW c \in Chain, NEW x \in Context
    PROVE  /\ Keeps(c, fhndl_send_renew(c, x))
           /\ fhndl_send_renew(c, x).ev \in {"do_fail", "msg_sent"}
<1> DEFINE t == c.f.recv_lifetime \div 2
           d == pcp_flow_send_msg(c, x)
<1>1. t \in Timer /\ 0 \in Timer
  BY ChainFields, FlowFields DEF Timer
<1>2. Keeps(c, d) /\ d \in Chain
  BY SendMsg DEF Keeps
<1>3. fhndl_send_renew(c, x) =
        IF ~x.present THEN Raise(c, "do_fail")
        ELSE IF ~SendOk(c, x) THEN Raise(d, "do_fail")
        ELSE IF t = 0 THEN WithTimeout(d, "do_fail", 0)
        ELSE WithTimeout(d, "msg_sent", t)
  BY DEF fhndl_send_renew, WithTimeout
<1> HIDE DEF t, d
<1>4. Keeps(c, Raise(c, "do_fail")) /\ Raise(c, "do_fail").ev = "do_fail"
  BY RaiseKeeps, EventNames
<1>5. Keeps(d, Raise(d, "do_fail")) /\ Raise(d, "do_fail").ev = "do_fail"
      /\ Raise(d, "do_fail").sends = d.sends
  BY <1>2, RaiseKeeps, EventNames
<1> DEFINE e == WithTimeout(d, "do_fail", 0)
           g == WithTimeout(d, "msg_sent", t)
<1>6. /\ Keeps(d, e) /\ e.ev = "do_fail" /\ e.sends = d.sends
      /\ Keeps(d, g) /\ g.ev = "msg_sent" /\ g.sends = d.sends
  BY <1>1, <1>2, PutTimeout, EventNames
<1> HIDE DEF e, g
<1>7. Keeps(c, Raise(d, "do_fail")) /\ Keeps(c, e) /\ Keeps(c, g)
  BY <1>2, <1>5, <1>6, KeepsTrans
<1> QED
  BY <1>3, <1>4, <1>5, <1>6, <1>7 DEF e, g

WithResult(c, r, t) == [c EXCEPT !.ev = "none", !.f.recv_result = r, !.f.timeout = t]
WithGrant(c, l, r, t) == [c EXCEPT !.ev = "none", !.f.recv_lifetime = l,
                                   !.f.recv_result = r, !.f.timeout = t]
WithClear(c, r) == [c EXCEPT !.ev = "none", !.f.recv_result = r, !.f.buf = NoBuf,
                             !.f.timeout = NoTimer]

\* A handler that ends the loop.
Ends(c, d) == Keeps(c, d) /\ d.ev = "none" /\ d.sends = c.sends

\* What fhndl_shortlifeerror leaves behind.
LEMMA ShortLifeHandler ==
    ASSUME NEW c \in Chain, NEW x \in Context
    PROVE  Ends(c, fhndl_shortlifeerror(c, x))
<1>1. fhndl_shortlifeerror(c, x) = WithResult(c, x.msg.result, x.msg.lifetime)
  BY DEF fhndl_shortlifeerror, WithResult
<1>2. \A r \in Result, t \in Timer : Ends(c, WithResult(c, r, t))
  BY ChainFields, EventNames DEF Ends, Keeps, WithResult, Chain, FlowRec
<1>3. x.msg.result \in Result /\ x.msg.lifetime \in Timer
  BY ContextFields DEF Timer
<1> QED
  BY <1>1, <1>2, <1>3

\* What fhndl_received_success leaves behind.
LEMMA SuccessHandler ==
    ASSUME NEW c \in Chain, NEW x \in Context
    PROVE  Ends(c, fhndl_received_success(c, x))
<1> DEFINE t == IF x.msg.lifetime = 0 THEN NoTimer ELSE x.msg.lifetime \div 2
<1>1. fhndl_received_success(c, x) = WithGrant(c, x.msg.lifetime, x.msg.result, t)
  BY DEF fhndl_received_success, WithGrant
<1>2. ASSUME NEW l \in Int, NEW r \in Result, NEW u \in Timer
      PROVE  Ends(c, WithGrant(c, l, r, u))
  <2>1. WithGrant(c, l, r, u) \in Chain
    BY ChainFields, EventNames DEF WithGrant, Chain, FlowRec
  <2> QED
    BY <2>1, ChainFields DEF Ends, Keeps, WithGrant, Chain, FlowRec
<1>3. x.msg.result \in Result /\ x.msg.lifetime \in Int /\ t \in Timer
  BY ContextFields DEF Timer
<1> HIDE DEF t
<1> QED
  BY <1>1, <1>2, <1>3

\* What fhndl_clear_timeouts leaves behind.
LEMMA ClearHandler ==
    ASSUME NEW c \in Chain, NEW x \in Context, NEW answered \in BOOLEAN
    PROVE  /\ Ends(c, fhndl_clear_timeouts(c, x, answered))
           /\ fhndl_clear_timeouts(c, x, answered).f.timeout = NoTimer
           /\ fhndl_clear_timeouts(c, x, answered).f.buf = NoBuf
<1> DEFINE r == IF answered THEN x.msg.result ELSE c.f.recv_result
<1>1. fhndl_clear_timeouts(c, x, answered) = WithClear(c, r)
  BY DEF fhndl_clear_timeouts, WithClear
<1>2. r \in Result
  BY ContextFields, ChainFields, FlowFields
<1> HIDE DEF r
<1>3. Ends(c, WithClear(c, r)) /\ WithClear(c, r).f.timeout = NoTimer
      /\ WithClear(c, r).f.buf = NoBuf
  BY <1>2, ChainFields, EventNames DEF Ends, Keeps, WithClear, Chain, FlowRec, Timer
<1> QED
  BY <1>1, <1>3

\* What fhndl_waitresp leaves behind.
LEMMA WaitHandler ==
    ASSUME NEW c \in Chain
    PROVE  /\ Keeps(c, fhndl_waitresp(c))
           /\ fhndl_waitresp(c).f = c.f /\ fhndl_waitresp(c).sends = c.sends
           /\ fhndl_waitresp(c).ev \in {"none", "do_fail"}
           /\ c.f.timeout \in Nat => fhndl_waitresp(c).ev = "none"
<1>1. fhndl_waitresp(c) = Raise(c, "none") \/ fhndl_waitresp(c) = Raise(c, "do_fail")
  BY DEF fhndl_waitresp
<1>2. c.f.timeout \in Nat => fhndl_waitresp(c) = Raise(c, "none")
  BY NoTimerAssumption DEF fhndl_waitresp
<1> QED
  BY <1>1, <1>2, RaiseKeeps, EventNames

-----------------------------------------------------------------------------
\* What the handler of a transition to state to does, by that state.
Handled(d, e, to, x) ==
    /\ Keeps(d, e)
    /\ to = "send" =>
          /\ e.ev \in {"do_fail", "ignored", "msg_sent"}
          /\ e.ev = "ignored" => x.mark
          /\ Timed(e, x)
    /\ to = "send_renew" => e.ev \in {"do_fail", "msg_sent"}
    /\ to = "wait_resp" =>
          /\ e.f = d.f /\ e.sends = d.sends
          /\ e.ev \in {"none", "do_fail"}
          /\ d.f.timeout \in Nat => e.ev = "none"
    /\ to \in Settling \ {"wait_resp"} => e.ev = "none" /\ e.sends = d.sends
    /\ to = "failed" => e.f.timeout = NoTimer /\ e.f.buf = NoBuf

\* Every row of flow_transitions does what its handler does.
LEMMA TransitionHandled ==
    ASSUME NEW d \in Chain, NEW from \in FlowState,
           NEW to \in Settling \cup {"send", "send_renew"},
           NEW x \in Context, NEW answered \in BOOLEAN
    PROVE  Handled(d, Transition(d, from, to, x, answered), to, x)
<1> DEFINE e == Transition(d, from, to, x, answered)
<1>1. CASE to = "wait_resp"
  <2>1. e = fhndl_waitresp(d)
    BY <1>1 DEF Transition
  <2> QED
    BY <1>1, <2>1, WaitHandler DEF Handled, Settling
<1>2. CASE to = "send" /\ from = "wait_resp"
  <2>1. e = fhndl_resend(d, x)
    BY <1>2 DEF Transition
  <2> QED
    BY <1>2, <2>1, ResendHandler DEF Handled, Settling, Timed
<1>3. CASE to = "send" /\ from # "wait_resp"
  <2>1. e = fhndl_send(d, x)
    BY <1>3 DEF Transition
  <2> QED
    BY <1>3, <2>1, SendHandler DEF Handled, Settling, Timed
<1>4. CASE to = "send_renew"
  <2>1. e = fhndl_send_renew(d, x)
    BY <1>4 DEF Transition
  <2> QED
    BY <1>4, <2>1, RenewHandler DEF Handled, Settling
<1>5. CASE to = "wait_after_short_life_error"
  <2>1. e = fhndl_shortlifeerror(d, x)
    BY <1>5 DEF Transition
  <2> QED
    BY <1>5, <2>1, ShortLifeHandler DEF Handled, Ends
<1>6. CASE to = "wait_for_lifetime_renew"
  <2>1. e = fhndl_received_success(d, x) \/ e = Raise(d, "none")
    BY <1>6 DEF Transition
  <2>2. Ends(d, Raise(d, "none"))
    BY RaiseKeeps, EventNames DEF Ends
  <2> QED
    BY <1>6, <2>1, <2>2, SuccessHandler DEF Handled, Ends
<1>7. CASE to \in {"wait_for_server_init", "failed"}
  <2>1. e = fhndl_clear_timeouts(d, x, answered)
    BY <1>7 DEF Transition
  <2> QED
    BY <1>7, <2>1, ClearHandler DEF Handled, Ends
<1> QED
  BY <1>1, <1>2, <1>3, <1>4, <1>5, <1>6, <1>7 DEF Settling

\* The chain with the next state entered in it, before its handler runs.
Enter(c, to) == [c EXCEPT !.f.state = to, !.cur = to]

\* Entering a state changes the state of the flow and cur_state.
LEMMA EnterState ==
    ASSUME NEW c \in Chain, NEW to \in FlowState
    PROVE  /\ Enter(c, to) \in Chain
           /\ Enter(c, to).cur = to /\ Enter(c, to).f.state = to
           /\ Enter(c, to).f.timeout = c.f.timeout
           /\ Enter(c, to).sends = c.sends
BY ChainFields DEF Enter, Chain, FlowRec

\* One round: nothing, or the handler of the transition.
LEMMA StepCases ==
    ASSUME NEW c \in Chain, NEW x \in Context, NEW answered \in BOOLEAN
    PROVE  LET to == NextState(c.cur, c.ev)
               e  == Step(c, x, answered)
           IN  \/ c.ev = "none" /\ e = c
               \/ c.ev # "none" /\ to = "absent" /\ e = Raise(c, "none")
               \/ /\ c.ev # "none"
                  /\ to \in Settling \cup {"send", "send_renew"}
                  /\ Enter(c, to) \in Chain
                  /\ Handled(Enter(c, to), e, to, x)
<1> DEFINE to == NextState(c.cur, c.ev)
           e  == Step(c, x, answered)
<1>1. c.cur \in FlowState /\ c.ev \in FlowEvent
  BY ChainFields
<1>2. to \in Settling \cup {"absent", "send", "send_renew"}
  BY <1>1, NextStateType
<1>3. CASE c.ev # "none" /\ to # "absent"
  <2>1. to \in Settling \cup {"send", "send_renew"} /\ to \in FlowState
    BY <1>2, <1>3 DEF Settling, FlowState
  <2>2. e = Transition(Enter(c, to), c.cur, to, x, answered)
    BY <1>3 DEF Step, Enter
  <2>3. Enter(c, to) \in Chain
    BY <2>1, EnterState
  <2> HIDE DEF to
  <2>4. Handled(Enter(c, to), Transition(Enter(c, to), c.cur, to, x, answered), to, x)
    BY <1>1, <2>1, <2>3, TransitionHandled
  <2> QED
    BY <1>3, <2>1, <2>2, <2>3, <2>4 DEF to
<1>4. CASE c.ev # "none" /\ to = "absent"
  BY <1>4 DEF Step
<1>5. CASE c.ev = "none"
  BY <1>5 DEF Step
<1> QED
  BY <1>3, <1>4, <1>5

-----------------------------------------------------------------------------
\* What flow_events_sm says of the events that start a loop and of the ones the
\* handlers raise.
LEMMA FirstEventNext ==
    ASSUME NEW st \in FlowState, NEW ev \in FirstEvent
    PROVE  /\ ev # "none" /\ ev \in FlowEvent
           /\ NextState(st, ev) # "wait_resp"
BY DEF NextState, FlowState, FirstEvent, FlowEvent, Result, ShortLifeError, LongLifeError

\* Where the events that the handlers raise lead.
LEMMA RaisedEventNext ==
    /\ NextState("send", "do_fail") = "failed"
    /\ NextState("send", "ignored") = "wait_for_lifetime_renew"
    /\ NextState("send", "msg_sent") = "wait_resp"
    /\ NextState("send_renew", "do_fail") = "send"
    /\ NextState("send_renew", "msg_sent") = "wait_for_lifetime_renew"
BY DEF NextState, ShortLifeError, LongLifeError

\* A chain between two rounds.
Sound(c) == c \in Chain /\ c.f.state = c.cur

\* A loop that is over left the flow in a state it can stay in.
Landed(c, x) == /\ Over(c)
                /\ c.cur \in Settling
                /\ c.cur = "wait_resp" => c.f.timeout \in Interval(x)
                /\ c.cur = "failed" => c.f.timeout = NoTimer /\ c.f.buf = NoBuf

\* The first round ends the loop, or has run fhndl_send, fhndl_resend or
\* fhndl_send_renew.
LEMMA FirstRound ==
    ASSUME NEW c, Sound(c), c.ev \in FirstEvent, c.sends = 0,
           NEW x \in Context, NEW answered \in BOOLEAN
    PROVE  LET e == Step(c, x, answered)
           IN  /\ Sound(e)
               /\ e.sends \in 0 .. 1
               /\ \/ Over(e) /\ e.f = c.f /\ NextState(c.cur, c.ev) = "absent"
                  \/ Landed(e, x)
                  \/ Sending(e) /\ Timed(e, x)
                  \/ Renewing(e)
<1> SUFFICES ASSUME NEW e, e = Step(c, x, answered),
                    NEW to, to = NextState(c.cur, c.ev)
             PROVE  /\ Sound(e)
                    /\ e.sends \in 0 .. 1
                    /\ \/ Over(e) /\ e.f = c.f /\ to = "absent"
                       \/ Landed(e, x)
                       \/ Sending(e) /\ Timed(e, x)
                       \/ Renewing(e)
  OBVIOUS
<1>1. c \in Chain /\ c.cur \in FlowState
  BY ChainFields DEF Sound
<1>2. c.ev # "none" /\ to # "wait_resp"
  BY <1>1, FirstEventNext
<1>3. CASE to = "absent" /\ e = Raise(c, "none")
  <2>1. "none" \in FlowEvent
    BY EventNames
  <2>2. /\ Raise(c, "none") \in Chain /\ Raise(c, "none").cur = c.cur
        /\ Raise(c, "none").f = c.f /\ Raise(c, "none").ev = "none"
        /\ Raise(c, "none").sends = c.sends
    BY <1>1, <2>1, RaiseKeeps DEF Keeps
  <2> QED
    BY <1>3, <2>2 DEF Sound, Over
<1>4. CASE /\ to \in Settling \cup {"send", "send_renew"}
           /\ Enter(c, to) \in Chain
           /\ Handled(Enter(c, to), e, to, x)
  <2>1. to \in FlowState
    BY <1>4 DEF Settling, FlowState
  <2>2. Enter(c, to).cur = to /\ Enter(c, to).f.state = to /\ Enter(c, to).sends = 0
    BY <1>1, <2>1, EnterState
  <2>3. Sound(e) /\ e.cur = to /\ e.sends \in 0 .. 1
    BY <1>4, <2>2 DEF Handled, Keeps, Sound
  <2>4. CASE to = "send"
    BY <1>4, <2>3, <2>4 DEF Handled, Sending
  <2>5. CASE to = "send_renew"
    BY <1>4, <2>3, <2>5 DEF Handled, Renewing
  <2>6. CASE to \in Settling
    BY <1>2, <1>4, <2>3, <2>6 DEF Handled, Landed, Over
  <2> QED
    BY <1>4, <2>3, <2>4, <2>5, <2>6
<1> QED
  BY <1>1, <1>2, <1>3, <1>4, StepCases

\* The round after fhndl_send or fhndl_resend ends the loop without sending.
LEMMA RoundAfterSend ==
    ASSUME NEW c, Sound(c), NEW x \in Context, Sending(c), Timed(c, x),
           NEW answered \in BOOLEAN
    PROVE  LET e == Step(c, x, answered)
           IN  /\ Sound(e) /\ e.sends = c.sends /\ Landed(e, x)
               /\ e.cur = NextState(c.cur, c.ev)
<1> SUFFICES ASSUME NEW e, e = Step(c, x, answered),
                    NEW to, to = NextState(c.cur, c.ev)
             PROVE  Sound(e) /\ e.sends = c.sends /\ Landed(e, x) /\ e.cur = to
  OBVIOUS
<1>1. c \in Chain /\ c.ev # "none"
  BY DEF Sound, Sending
<1>2. /\ to \in {"failed", "wait_for_lifetime_renew", "wait_resp"}
      /\ to = "wait_resp" => c.ev = "msg_sent"
  BY RaisedEventNext DEF Sending
<1>3. to \in FlowState /\ to \in Settling /\ to # "absent"
  BY <1>2 DEF FlowState, Settling
<1>4. Handled(Enter(c, to), e, to, x)
  BY <1>1, <1>3, StepCases
<1>5. /\ Enter(c, to).cur = to /\ Enter(c, to).f.state = to
      /\ Enter(c, to).sends = c.sends /\ Enter(c, to).f.timeout = c.f.timeout
  BY <1>1, <1>3, EnterState
<1>6. Sound(e) /\ e.cur = to
  BY <1>4, <1>5 DEF Handled, Keeps, Sound
<1>7. CASE to = "wait_resp"
  <2>1. c.f.timeout \in Interval(x) /\ c.f.timeout \in Nat
    BY <1>2, <1>7, IntervalType DEF Timed
  <2> QED
    BY <1>3, <1>4, <1>5, <1>6, <1>7, <2>1 DEF Handled, Landed, Over
<1>8. CASE to # "wait_resp"
  BY <1>3, <1>4, <1>5, <1>6, <1>8 DEF Handled, Landed, Over
<1> QED
  BY <1>6, <1>7, <1>8

\* The round after fhndl_send_renew ends the loop, or has run fhndl_send.
LEMMA RoundAfterRenew ==
    ASSUME NEW c, Sound(c), NEW x \in Context, Renewing(c), NEW answered \in BOOLEAN
    PROVE  LET e == Step(c, x, answered)
           IN  /\ Sound(e)
               /\ e.sends \in {c.sends, c.sends + 1}
               /\ Landed(e, x) \/ (Sending(e) /\ Timed(e, x))
<1> SUFFICES ASSUME NEW e, e = Step(c, x, answered),
                    NEW to, to = NextState(c.cur, c.ev)
             PROVE  /\ Sound(e)
                    /\ e.sends \in {c.sends, c.sends + 1}
                    /\ Landed(e, x) \/ (Sending(e) /\ Timed(e, x))
  OBVIOUS
<1>1. c \in Chain /\ c.ev # "none"
  BY DEF Sound, Renewing
<1>2. to \in {"send", "wait_for_lifetime_renew"}
  BY RaisedEventNext DEF Renewing
<1>3. to \in FlowState /\ to \in Settling \cup {"send"} /\ to # "absent"
  BY <1>2 DEF FlowState, Settling
<1>4. Handled(Enter(c, to), e, to, x)
  BY <1>1, <1>3, StepCases
<1>5. /\ Enter(c, to).cur = to /\ Enter(c, to).f.state = to
      /\ Enter(c, to).sends = c.sends
  BY <1>1, <1>3, EnterState
<1>6. Sound(e) /\ e.cur = to /\ e.sends \in {c.sends, c.sends + 1}
  BY <1>4, <1>5 DEF Handled, Keeps, Sound
<1>7. Landed(e, x) \/ (Sending(e) /\ Timed(e, x))
  BY <1>2, <1>3, <1>4, <1>6 DEF Handled, Landed, Over, Sending
<1> QED
  BY <1>6, <1>7

\* A chain with no pending event does not move.
LEMMA OverStays ==
    ASSUME NEW c, Over(c), NEW x, NEW answered
    PROVE  Step(c, x, answered) = c
BY DEF Over, Step

\* The chain a caller starts is sound.
LEMMA StartSound ==
    ASSUME NEW f \in FlowRec, NEW ev \in FlowEvent
    PROVE  LET c == StartChain(f, ev)
           IN  Sound(c) /\ c.f = f /\ c.ev = ev /\ c.sends = 0
BY FlowFields DEF StartChain, Sound, Chain

\* handle_flow_event as PcpClient uses it: MaxRounds rounds end the loop, and
\* leave the flow as it was, for want of a row in flow_transitions, or in a state
\* it can stay in.
LEMMA RunChainResult ==
    ASSUME NEW f \in FlowRec, NEW ev \in FirstEvent, NEW x \in Context,
           NEW answered \in BOOLEAN
    PROVE  LET r == RunChain(f, ev, x, answered)
           IN  /\ Sound(r) /\ Over(r)
               /\ (r.f = f /\ NextState(f.state, ev) = "absent") \/ Landed(r, x)
<1> SUFFICES ASSUME NEW c0, c0 = StartChain(f, ev),
                    NEW c1, c1 = Step(c0, x, answered),
                    NEW c2, c2 = Step(c1, x, answered),
                    NEW r, r = Step(c2, x, answered)
             PROVE  /\ Sound(r) /\ Over(r)
                    /\ (r.f = f /\ NextState(f.state, ev) = "absent") \/ Landed(r, x)
  BY DEF RunChain
<1>1. ev \in FlowEvent
  BY DEF FirstEvent, FlowEvent
<1>2. Sound(c0) /\ c0.f = f /\ c0.ev = ev /\ c0.sends = 0 /\ c0.cur = f.state
  BY <1>1, StartSound DEF Sound
<1>3. /\ Sound(c1)
      /\ \/ Over(c1) /\ c1.f = f /\ NextState(f.state, ev) = "absent"
         \/ Landed(c1, x)
         \/ Sending(c1) /\ Timed(c1, x)
         \/ Renewing(c1)
  BY <1>2, FirstRound
<1>4. \A c : Landed(c, x) => Over(c)
  BY DEF Landed
<1>5. CASE Over(c1) /\ ((c1.f = f /\ NextState(f.state, ev) = "absent") \/ Landed(c1, x))
  <2>1. c2 = c1
    BY <1>5, OverStays
  <2>2. r = c2
    BY <1>5, <2>1, OverStays
  <2> QED
    BY <1>3, <1>5, <2>1, <2>2
<1>6. CASE Sending(c1) /\ Timed(c1, x)
  <2>1. Sound(c2) /\ Landed(c2, x)
    BY <1>3, <1>6, RoundAfterSend
  <2>2. r = c2
    BY <1>4, <2>1, OverStays
  <2> QED
    BY <1>4, <2>1, <2>2
<1>7. CASE Renewing(c1)
  <2>1. Sound(c2) /\ (Landed(c2, x) \/ (Sending(c2) /\ Timed(c2, x)))
    BY <1>3, <1>7, RoundAfterRenew
  <2>2. CASE Landed(c2, x)
    <3>1. r = c2
      BY <1>4, <2>2, OverStays
    <3> QED
      BY <1>4, <2>1, <2>2, <3>1
  <2>3. CASE Sending(c2) /\ Timed(c2, x)
    BY <1>4, <2>1, <2>3, RoundAfterSend
  <2> QED
    BY <2>1, <2>2, <2>3
<1> QED
  BY <1>3, <1>4, <1>5, <1>6, <1>7

\* A flow that is sent and that is not its server's restart_flow_msg waits for
\* the answer with a timer, or has failed.
LEMMA SendEnds ==
    ASSUME NEW f \in FlowRec, NEW ev \in FirstEvent, NEW x \in Context, ~x.mark,
           NEW answered \in BOOLEAN, NextState(f.state, ev) = "send"
    PROVE  LET r == RunChain(f, ev, x, answered)
           IN  \/ r.f.state = "wait_resp" /\ r.f.timeout \in Nat
               \/ r.f.state = "failed"
<1> SUFFICES ASSUME NEW c0, c0 = StartChain(f, ev),
                    NEW c1, c1 = Step(c0, x, answered),
                    NEW c2, c2 = Step(c1, x, answered),
                    NEW r, r = Step(c2, x, answered)
             PROVE  \/ r.f.state = "wait_resp" /\ r.f.timeout \in Nat
                    \/ r.f.state = "failed"
  BY DEF RunChain
<1>1. ev \in FlowEvent /\ ev # "none"
  BY FlowFields, FirstEventNext
<1>2. Sound(c0) /\ c0.ev = ev /\ c0.sends = 0 /\ c0.cur = f.state /\ c0 \in Chain
  BY <1>1, StartSound DEF Sound
<1>3. Handled(Enter(c0, "send"), c1, "send", x)
  <2>1. NextState(c0.cur, c0.ev) = "send" /\ c0.ev # "none"
    BY <1>1, <1>2
  <2> QED
    BY <1>2, <2>1, StepCases
<1>4. "send" \in FlowState
  BY DEF FlowState
<1>5. Enter(c0, "send").cur = "send" /\ Enter(c0, "send").f.state = "send"
  BY <1>2, <1>4, EnterState
<1>6. /\ Sound(c1) /\ Sending(c1) /\ Timed(c1, x)
      /\ c1.cur = "send" /\ c1.ev \in {"do_fail", "msg_sent"}
  BY <1>3, <1>5 DEF Handled, Keeps, Sound, Sending
<1>7. Sound(c2) /\ Landed(c2, x) /\ c2.cur \in {"failed", "wait_resp"}
  <2>1. Sound(c2) /\ Landed(c2, x) /\ c2.cur = NextState(c1.cur, c1.ev)
    BY <1>6, RoundAfterSend
  <2> QED
    BY <1>6, <2>1, RaisedEventNext
<1>8. r = c2
  BY <1>7, OverStays DEF Landed
<1> QED
  BY <1>7, <1>8, IntervalType DEF Sound, Landed

\* An event that flow_transitions has no row for leaves the flow alone.
LEMMA NoRowStays ==
    ASSUME NEW f \in FlowRec, NEW ev \in FirstEvent, NEW x \in Context,
           NEW answered \in BOOLEAN, NextState(f.state, ev) = "absent"
    PROVE  RunChain(f, ev, x, answered).f = f
<1> SUFFICES ASSUME NEW c0, c0 = StartChain(f, ev),
                    NEW c1, c1 = Step(c0, x, answered)
             PROVE  Step(Step(c1, x, answered), x, answered).f = f
  BY DEF RunChain
<1>1. ev \in FlowEvent /\ ev # "none"
  BY FlowFields, FirstEventNext
<1>2. c0.f = f /\ c0.ev = ev /\ c0.cur = f.state /\ c0 \in Chain
  BY <1>1, StartSound DEF Sound
<1>3. c1 = Raise(c0, "none")
  BY <1>1, <1>2 DEF Step
<1>4. c1.f = f /\ Over(c1)
  BY <1>2, <1>3, RaiseKeeps, EventNames DEF Over
<1> QED
  BY <1>4, OverStays

-----------------------------------------------------------------------------
(* The message buffer.                                                      *)

\* What the handler of a transition does to the buffer: a message that was sent
\* is freed, one that was not is kept, in the version it was built for, and goes
\* with the flow when it fails.
BufAfter(d, e, from, to, x) ==
    /\ d.f.buf = NoBuf => e.f.buf \in {NoBuf, x.version}
    /\ to \in {"send", "send_renew"} =>
          /\ e.ev = "msg_sent" => e.f.buf = NoBuf
          /\ e.ev = "ignored" => e.f = d.f
    /\ to = "send_renew" /\ e.f.buf # NoBuf => e.f.timeout = d.f.timeout
    /\ to \in Settling \ {"failed", "wait_for_server_init"} => e.f.buf = d.f.buf
    /\ to = "wait_for_lifetime_renew" /\ from = "send" => e.f = d.f
    /\ to \in {"failed", "wait_for_server_init"} => e.f.buf = NoBuf

\* pcp_flow_send_msg frees the buffer if and only if the message was sent.
LEMMA SendMsgBuf ==
    ASSUME NEW c \in Chain, NEW x \in Context
    PROVE  LET d == pcp_flow_send_msg(c, x)
           IN  /\ SendOk(c, x) => d.f.buf = NoBuf
               /\ c.f.buf = NoBuf => d.f.buf \in {NoBuf, x.version}
               /\ d.f.timeout = c.f.timeout
<1>1. c.f \in FlowRec
  BY ChainFields
<1> QED
  BY <1>1 DEF pcp_flow_send_msg, Chain, FlowRec

\* Setting the timers, and the counter of retries, leaves the buffer alone.
LEMMA TimersKeepBuf ==
    ASSUME NEW c \in Chain, NEW ev, NEW r, NEW t
    PROVE  /\ WithTimers(c, ev, r, t).f.buf = c.f.buf
           /\ WithTimers(c, ev, r, t).ev = ev
           /\ WithTimeout(c, ev, t).f.buf = c.f.buf
           /\ WithTimeout(c, ev, t).ev = ev
           /\ WithRetry(c, r).f.buf = c.f.buf
           /\ WithRetry(c, r).f.timeout = c.f.timeout
           /\ WithResult(c, r, t).f.buf = c.f.buf
           /\ WithGrant(c, ev, r, t).f.buf = c.f.buf
BY ChainFields DEF Chain, FlowRec, WithTimers, WithTimeout, WithRetry, WithResult, WithGrant

\* fhndl_send.
LEMMA SendBuf ==
    ASSUME NEW d \in Chain, NEW x \in Context
    PROVE  LET e == fhndl_send(d, x)
           IN  /\ d.f.buf = NoBuf => e.f.buf \in {NoBuf, x.version}
               /\ e.ev = "msg_sent" => e.f.buf = NoBuf
               /\ e.ev = "ignored" => e.f = d.f
<1> DEFINE m == pcp_flow_send_msg(d, x)
<1>1. m \in Chain /\ (SendOk(d, x) => m.f.buf = NoBuf)
      /\ (d.f.buf = NoBuf => m.f.buf \in {NoBuf, x.version})
  BY SendMsg, SendMsgBuf
<1>2. \A ev \in {"do_fail", "ignored"} :
         /\ Raise(d, ev).f = d.f /\ Raise(d, ev).ev = ev
         /\ Raise(m, ev).f = m.f /\ Raise(m, ev).ev = ev
  BY <1>1, RaiseKeeps, EventNames
<1>3. \/ fhndl_send(d, x) = Raise(d, "do_fail")
      \/ fhndl_send(d, x) = Raise(d, "ignored")
      \/ fhndl_send(d, x) = Raise(m, "do_fail")
      \/ SendOk(d, x) /\ fhndl_send(d, x) = WithTimers(m, "msg_sent", IRT, IRT)
  BY DEF fhndl_send, WithTimers
<1> HIDE DEF m
<1>4. /\ WithTimers(m, "msg_sent", IRT, IRT).f.buf = m.f.buf
      /\ WithTimers(m, "msg_sent", IRT, IRT).ev = "msg_sent"
  BY <1>1, TimersKeepBuf
<1> QED
  BY <1>1, <1>2, <1>3, <1>4

\* fhndl_resend.
LEMMA ResendBuf ==
    ASSUME NEW d \in Chain, NEW x \in Context
    PROVE  LET e == fhndl_resend(d, x)
           IN  /\ d.f.buf = NoBuf => e.f.buf \in {NoBuf, x.version}
               /\ e.ev = "msg_sent" => e.f.buf = NoBuf
               /\ e.ev \in {"do_fail", "msg_sent"}
<1> DEFINE n  == IF d.f.retry_count < MRC THEN d.f.retry_count + 1 ELSE MRC
           t  == WithRetry(d, n)
           rt == PCP_RT(d.f.resend_timeout, x.rand)
           m  == pcp_flow_send_msg(t, x)
<1>1. n \in 0 .. MRC
  BY ChainFields, FlowFields, RetxAssumption
<1>2. t = [d EXCEPT !.f.retry_count = IF @ < MRC THEN @ + 1 ELSE MRC]
  BY DEF WithRetry
<1>3. \/ fhndl_resend(d, x) = Raise(d, "do_fail")
      \/ fhndl_resend(d, x) = Raise(t, "do_fail")
      \/ fhndl_resend(d, x) = Raise(m, "do_fail")
      \/ SendOk(d, x) /\ fhndl_resend(d, x) = WithTimers(m, "msg_sent", rt, rt)
  BY <1>2 DEF fhndl_resend, WithTimers
<1> HIDE DEF n
<1>4. t \in Chain /\ t.f.buf = d.f.buf /\ t.sends = d.sends
  BY <1>1, PutRetry, TimersKeepBuf DEF Keeps
<1>5. SendOk(d, x) => SendOk(t, x)
  BY <1>4 DEF SendOk
<1> HIDE DEF t
<1>6. m \in Chain /\ (SendOk(t, x) => m.f.buf = NoBuf)
      /\ (t.f.buf = NoBuf => m.f.buf \in {NoBuf, x.version})
  BY <1>4, SendMsg, SendMsgBuf
<1> HIDE DEF m
<1>7. \A c \in Chain : Raise(c, "do_fail").f = c.f /\ Raise(c, "do_fail").ev = "do_fail"
  BY RaiseKeeps, EventNames
<1>8. /\ WithTimers(m, "msg_sent", rt, rt).f.buf = m.f.buf
      /\ WithTimers(m, "msg_sent", rt, rt).ev = "msg_sent"
  BY <1>6, TimersKeepBuf
<1> HIDE DEF rt
<1> QED
  BY <1>3, <1>4, <1>5, <1>6, <1>7, <1>8

\* fhndl_send_renew.
LEMMA RenewBuf ==
    ASSUME NEW d \in Chain, NEW x \in Context
    PROVE  LET e == fhndl_send_renew(d, x)
           IN  /\ d.f.buf = NoBuf => e.f.buf \in {NoBuf, x.version}
               /\ e.ev = "msg_sent" => e.f.buf = NoBuf
               /\ e.ev \in {"do_fail", "msg_sent"}
               /\ e.f.buf # NoBuf => e.f.timeout = d.f.timeout
<1> DEFINE m == pcp_flow_send_msg(d, x)
           t == d.f.recv_lifetime \div 2
<1>1. /\ m \in Chain /\ (SendOk(d, x) => m.f.buf = NoBuf)
      /\ d.f.buf = NoBuf => m.f.buf \in {NoBuf, x.version}
      /\ m.f.timeout = d.f.timeout
  BY SendMsg, SendMsgBuf
<1>2. \A c \in Chain : Raise(c, "do_fail").f = c.f /\ Raise(c, "do_fail").ev = "do_fail"
  BY RaiseKeeps, EventNames
<1>3. \/ fhndl_send_renew(d, x) = Raise(d, "do_fail")
      \/ fhndl_send_renew(d, x) = Raise(m, "do_fail")
      \/ SendOk(d, x) /\ fhndl_send_renew(d, x) = WithTimeout(m, "do_fail", 0)
      \/ SendOk(d, x) /\ fhndl_send_renew(d, x) = WithTimeout(m, "msg_sent", t)
  BY DEF fhndl_send_renew, WithTimeout
<1> HIDE DEF m, t
<1>4. \A ev \in {"do_fail", "msg_sent"}, u \in {0, t} :
         WithTimeout(m, ev, u).f.buf = m.f.buf /\ WithTimeout(m, ev, u).ev = ev
  BY <1>1, TimersKeepBuf
<1> QED
  BY <1>1, <1>2, <1>3, <1>4

\* Every row of flow_transitions treats the buffer so.
LEMMA TransitionBuf ==
    ASSUME NEW d \in Chain, NEW from \in FlowState,
           NEW to \in Settling \cup {"send", "send_renew"},
           NEW x \in Context, NEW answered \in BOOLEAN
    PROVE  BufAfter(d, Transition(d, from, to, x, answered), from, to, x)
<1> SUFFICES ASSUME NEW e, e = Transition(d, from, to, x, answered)
             PROVE  BufAfter(d, e, from, to, x)
  OBVIOUS
<1>1. \A ev \in FlowEvent : Raise(d, ev).f = d.f
  BY RaiseKeeps
<1>2. CASE to = "wait_resp"
  <2>1. e = fhndl_waitresp(d)
    BY <1>2 DEF Transition
  <2>2. e.f = d.f
    BY <1>1, <2>1, EventNames DEF fhndl_waitresp
  <2> QED
    BY <1>2, <2>2 DEF BufAfter
<1>3. CASE to = "send" /\ from = "wait_resp"
  <2>1. e = fhndl_resend(d, x)
    BY <1>3 DEF Transition
  <2> QED
    BY <1>3, <2>1, ResendBuf DEF BufAfter, Settling
<1>4. CASE to = "send" /\ from # "wait_resp"
  <2>1. e = fhndl_send(d, x)
    BY <1>4 DEF Transition
  <2> QED
    BY <1>4, <2>1, SendBuf DEF BufAfter, Settling
<1>5. CASE to = "send_renew"
  <2>1. e = fhndl_send_renew(d, x)
    BY <1>5 DEF Transition
  <2> QED
    BY <1>5, <2>1, RenewBuf DEF BufAfter, Settling
<1>6. CASE to = "wait_after_short_life_error"
  <2>1. e = fhndl_shortlifeerror(d, x)
    BY <1>6 DEF Transition
  <2>2. e = WithResult(d, x.msg.result, x.msg.lifetime)
    BY <2>1 DEF fhndl_shortlifeerror, WithResult
  <2>3. e.f.buf = d.f.buf
    BY <2>2, TimersKeepBuf
  <2> QED
    BY <1>6, <2>3 DEF BufAfter
<1>7. CASE to = "wait_for_lifetime_renew" /\ from \in {"wait_resp", "wait_for_lifetime_renew"}
  <2>1. e = fhndl_received_success(d, x)
    BY <1>7 DEF Transition
  <2>2. PICK t : e = WithGrant(d, x.msg.lifetime, x.msg.result, t)
    BY <2>1 DEF fhndl_received_success, WithGrant
  <2>3. e.f.buf = d.f.buf
    BY <2>2, TimersKeepBuf
  <2> QED
    BY <1>7, <2>3 DEF BufAfter
<1>8. CASE to = "wait_for_lifetime_renew" /\ from \notin {"wait_resp", "wait_for_lifetime_renew"}
  <2>1. e = Raise(d, "none")
    BY <1>8 DEF Transition
  <2>2. e.f = d.f
    BY <1>1, <2>1, EventNames
  <2> QED
    BY <1>8, <2>2 DEF BufAfter
<1>9. CASE to \in {"wait_for_server_init", "failed"}
  <2>1. e = fhndl_clear_timeouts(d, x, answered)
    BY <1>9 DEF Transition
  <2>2. e.f.buf = NoBuf
    BY <2>1, ClearHandler
  <2> QED
    BY <1>9, <2>2 DEF BufAfter
<1> QED
  BY <1>2, <1>3, <1>4, <1>5, <1>6, <1>7, <1>8, <1>9 DEF Settling

\* One round with a row for it: what it does to the buffer.
LEMMA StepBuf ==
    ASSUME NEW c \in Chain, NEW x \in Context, NEW answered \in BOOLEAN,
           NEW to \in Settling \cup {"send", "send_renew"},
           c.ev # "none", to = NextState(c.cur, c.ev)
    PROVE  LET e == Step(c, x, answered)
           IN  /\ Handled(Enter(c, to), e, to, x)
               /\ BufAfter(Enter(c, to), e, c.cur, to, x)
               /\ Enter(c, to).f.buf = c.f.buf /\ Enter(c, to).f.timeout = c.f.timeout
               /\ e \in Chain /\ e.cur = to /\ e.f.state = to
<1>1. to # "absent" /\ to \in FlowState
  BY DEF Settling, FlowState
<1>2. Step(c, x, answered) = Transition(Enter(c, to), c.cur, to, x, answered)
  BY <1>1 DEF Step, Enter
<1>3. Enter(c, to) \in Chain /\ c.cur \in FlowState
  BY <1>1, EnterState, ChainFields
<1>4. Handled(Enter(c, to), Step(c, x, answered), to, x)
  BY <1>2, <1>3, TransitionHandled
<1>5. BufAfter(Enter(c, to), Step(c, x, answered), c.cur, to, x)
  BY <1>2, <1>3, TransitionBuf
<1>6. Enter(c, to).f.buf = c.f.buf /\ Enter(c, to).f.timeout = c.f.timeout
      /\ Enter(c, to).cur = to /\ Enter(c, to).f.state = to
  BY <1>1, ChainFields DEF Enter, Chain, FlowRec
<1> QED
  BY <1>4, <1>5, <1>6 DEF Handled, Keeps

\* The round after fhndl_send or fhndl_resend frees the buffer, unless the request
\* was ignored.
LEMMA SendRoundBuf ==
    ASSUME NEW c, Sound(c), NEW x \in Context, Sending(c), Timed(c, x),
           NEW answered \in BOOLEAN, c.ev = "msg_sent" => c.f.buf = NoBuf
    PROVE  LET e == Step(c, x, answered)
           IN  /\ Over(e)
               /\ e.f.buf # NoBuf => /\ c.ev = "ignored"
                                     /\ e.f.buf = c.f.buf
                                     /\ e.f.timeout = c.f.timeout
                                     /\ e.f.state = "wait_for_lifetime_renew"
<1> SUFFICES ASSUME NEW e, e = Step(c, x, answered)
             PROVE  /\ Over(e)
                    /\ e.f.buf # NoBuf => /\ c.ev = "ignored"
                                          /\ e.f.buf = c.f.buf
                                          /\ e.f.timeout = c.f.timeout
                                          /\ e.f.state = "wait_for_lifetime_renew"
  OBVIOUS
<1>1. Over(e)
  BY RoundAfterSend DEF Landed
<1>2. c \in Chain /\ c.ev # "none" /\ c.cur = "send"
  BY DEF Sound, Sending
<1>3. CASE c.ev = "do_fail"
  <2>1. NextState(c.cur, c.ev) = "failed" /\ "failed" \in Settling
    BY <1>2, <1>3, RaisedEventNext DEF Settling
  <2>2. BufAfter(Enter(c, "failed"), e, c.cur, "failed", x)
    BY <1>2, <2>1, StepBuf
  <2> QED
    BY <1>1, <2>2 DEF BufAfter
<1>4. CASE c.ev = "msg_sent"
  <2>1. NextState(c.cur, c.ev) = "wait_resp" /\ "wait_resp" \in Settling
    BY <1>2, <1>4, RaisedEventNext DEF Settling
  <2>2. BufAfter(Enter(c, "wait_resp"), e, c.cur, "wait_resp", x)
        /\ Enter(c, "wait_resp").f.buf = c.f.buf
    BY <1>2, <2>1, StepBuf
  <2> QED
    BY <1>1, <1>4, <2>1, <2>2 DEF BufAfter
<1>5. CASE c.ev = "ignored"
  <2> DEFINE wflr == "wait_for_lifetime_renew"
  <2>1. NextState(c.cur, c.ev) = wflr /\ wflr \in Settling
    BY <1>2, <1>5, RaisedEventNext DEF Settling
  <2>2. /\ BufAfter(Enter(c, wflr), e, c.cur, wflr, x)
        /\ Enter(c, wflr).f.buf = c.f.buf /\ Enter(c, wflr).f.timeout = c.f.timeout
        /\ e.f.state = wflr
    BY <1>2, <2>1, StepBuf
  <2>3. e.f = Enter(c, wflr).f
    BY <1>2, <2>2 DEF BufAfter
  <2> QED
    BY <1>1, <1>5, <2>2, <2>3
<1> QED
  BY <1>3, <1>4, <1>5 DEF Sending

\* The loop leaves a message buffer only to a flow that is its server's
\* restart_flow_msg, whose renewal could not be sent and whose new request was
\* then ignored; the flow is left with the timer that ended the renewal.
LEMMA RunChainBuf ==
    ASSUME NEW f \in FlowRec, NEW ev \in FirstEvent, NEW x \in Context,
           NEW answered \in BOOLEAN,
           f.buf = NoBuf \/ NextState(f.state, ev) = "send_renew"
    PROVE  LET r == RunChain(f, ev, x, answered)
           IN  r.f.buf # NoBuf =>
                  /\ x.mark /\ NextState(f.state, ev) = "send_renew"
                  /\ r.f.state = "wait_for_lifetime_renew"
                  /\ r.f.timeout = f.timeout
                  /\ f.buf = NoBuf => r.f.buf = x.version
<1> SUFFICES ASSUME NEW c0, c0 = StartChain(f, ev),
                    NEW c1, c1 = Step(c0, x, answered),
                    NEW c2, c2 = Step(c1, x, answered),
                    NEW r, r = Step(c2, x, answered),
                    r.f.buf # NoBuf
             PROVE  /\ x.mark /\ NextState(f.state, ev) = "send_renew"
                    /\ r.f.state = "wait_for_lifetime_renew"
                    /\ r.f.timeout = f.timeout
                    /\ f.buf = NoBuf => r.f.buf = x.version
  BY DEF RunChain
<1> DEFINE to == NextState(f.state, ev)
<1>1. ev \in FlowEvent /\ ev # "none" /\ to # "wait_resp"
  BY FlowFields, FirstEventNext
<1>2. c0 \in Chain /\ c0.f = f /\ c0.ev = ev /\ c0.cur = f.state
  BY <1>1, StartSound DEF Sound
<1>3. to \in Settling \cup {"absent", "send", "send_renew"}
  BY <1>1, FlowFields, NextStateType
<1>4. CASE to = "absent"
  BY <1>4, NoRowStays DEF RunChain
<1> HIDE DEF to
<1>5. ASSUME to # "absent"
      PROVE  /\ Handled(Enter(c0, to), c1, to, x)
             /\ BufAfter(Enter(c0, to), c1, f.state, to, x)
             /\ Enter(c0, to).f.buf = f.buf /\ Enter(c0, to).f.timeout = f.timeout
             /\ c1 \in Chain /\ c1.cur = to /\ c1.f.state = to
  BY <1>1, <1>2, <1>3, <1>5, StepBuf DEF to
<1>6. CASE to \in Settling
  <2>1. to # "absent"
    BY <1>6 DEF Settling
  <2>2. c1.ev = "none" /\ c1.f.buf = NoBuf
    BY <1>1, <1>5, <1>6, <2>1 DEF Handled, BufAfter, to, Settling
  <2>3. r = c1
    BY <2>2, OverStays DEF Over
  <2> QED
    BY <2>2, <2>3
<1>7. CASE to = "send"
  <2>1. /\ f.buf = NoBuf /\ c1.ev \in {"do_fail", "ignored", "msg_sent"}
        /\ c1.ev # "do_fail" => c1.f.buf = NoBuf
    BY <1>5, <1>7 DEF Handled, BufAfter, to
  <2>2. Sound(c1) /\ Sending(c1) /\ Timed(c1, x)
    BY <1>5, <1>7, <2>1 DEF Handled, Sound, Sending
  <2>3. Over(c2) /\ (c2.f.buf # NoBuf => c1.ev = "ignored" /\ c2.f.buf = c1.f.buf)
    BY <2>1, <2>2, SendRoundBuf
  <2>4. r = c2
    BY <2>3, OverStays
  <2> QED
    BY <2>1, <2>3, <2>4
<1>8. CASE to = "send_renew"
  <2>1. /\ c1.ev \in {"do_fail", "msg_sent"}
        /\ c1.ev = "msg_sent" => c1.f.buf = NoBuf
        /\ c1.f.buf # NoBuf => c1.f.timeout = f.timeout
        /\ f.buf = NoBuf => c1.f.buf \in {NoBuf, x.version}
    BY <1>5, <1>8 DEF Handled, BufAfter
  <2>2. CASE c1.ev = "msg_sent"
    <3> DEFINE wflr == "wait_for_lifetime_renew"
    <3>1. NextState(c1.cur, c1.ev) = wflr /\ wflr \in Settling /\ c1.ev # "none"
      BY <1>5, <1>8, <2>2, RaisedEventNext DEF Settling
    <3>2. /\ Handled(Enter(c1, wflr), c2, wflr, x)
          /\ BufAfter(Enter(c1, wflr), c2, c1.cur, wflr, x)
          /\ Enter(c1, wflr).f.buf = c1.f.buf
      BY <1>5, <1>8, <3>1, StepBuf
    <3>3. c2.ev = "none" /\ c2.f.buf = NoBuf
      BY <2>1, <2>2, <3>1, <3>2 DEF Handled, BufAfter
    <3>4. r = c2
      BY <3>3, OverStays DEF Over
    <3> QED
      BY <3>3, <3>4
  <2>3. CASE c1.ev = "do_fail"
    <3>1. NextState(c1.cur, c1.ev) = "send" /\ c1.ev # "none"
      BY <1>5, <1>8, <2>3, RaisedEventNext
    <3>2. /\ Handled(Enter(c1, "send"), c2, "send", x)
          /\ BufAfter(Enter(c1, "send"), c2, c1.cur, "send", x)
          /\ Enter(c1, "send").f.buf = c1.f.buf
          /\ Enter(c1, "send").f.timeout = c1.f.timeout
          /\ c2 \in Chain /\ c2.cur = "send" /\ c2.f.state = "send"
      BY <1>5, <1>8, <3>1, StepBuf
    <3>3. /\ c2.ev \in {"do_fail", "ignored", "msg_sent"} /\ Timed(c2, x)
          /\ c2.ev = "msg_sent" => c2.f.buf = NoBuf
          /\ c2.ev = "ignored" => x.mark /\ c2.f.buf = c1.f.buf
                                         /\ c2.f.timeout = c1.f.timeout
      BY <3>2 DEF Handled, BufAfter
    <3>4. Sound(c2) /\ Sending(c2)
      BY <3>2, <3>3 DEF Sound, Sending
    <3>5. /\ c2.ev = "ignored" /\ r.f.buf = c2.f.buf /\ r.f.timeout = c2.f.timeout
          /\ r.f.state = "wait_for_lifetime_renew"
      BY <3>3, <3>4, SendRoundBuf
    <3> QED
      BY <1>8, <2>1, <3>3, <3>5 DEF to
  <2> QED
    BY <1>8, <2>1, <2>2, <2>3
<1> QED
  BY <1>3, <1>4, <1>6, <1>7, <1>8

=============================================================================
