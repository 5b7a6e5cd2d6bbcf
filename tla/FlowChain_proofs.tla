-------------------------- MODULE FlowChain_proofs --------------------------
(***************************************************************************)
(* The loop of handle_flow_event ends, for every flow, every event that a  *)
(* caller raises, every server answer and every outcome of sendto.         *)
(***************************************************************************)
EXTENDS FlowChain, PcpFlow_proofs

\* What is known after so many rounds: the loop is over, or one of the three
\* sending handlers has run last, and never fhndl_send_renew twice.
Progress ==
    \/ round = 0 /\ c.ev \in FirstEvent /\ c.sends = 0 /\ c.f = start
    \/ round \in 1 .. MaxRounds /\ Over(c) /\ (c.f = start \/ Landed(c, x))
    \/ round = 1 /\ Renewing(c)
    \/ round \in 1 .. 2 /\ Sending(c) /\ Timed(c, x)

IInv == /\ x \in Context /\ answered \in BOOLEAN /\ round \in Nat
        /\ Sound(c)
        /\ c.sends \in 0 .. 2
        /\ round = 1 => c.sends \in 0 .. 1
        /\ Progress

\* A chain that has landed has no pending event.
LEMMA LandedIsOver == \A d, y : Landed(d, y) => Over(d)
BY DEF Landed

\* The loop starts with no round run and the first event pending.
LEMMA InitIInv == Init => IInv
<1> SUFFICES ASSUME Init PROVE IInv
  OBVIOUS
<1>1. x \in Context /\ start \in FlowRec
  BY FlowsAssumption DEF Init
<1>2. PICK ev \in FirstEvent : c = StartChain(start, ev)
  BY <1>1, ContextFields DEF Init, FirstEvent, LibraryEvent
<1>3. ev \in FlowEvent
  BY DEF FirstEvent, FlowEvent
<1>4. Sound(c) /\ c.f = start /\ c.ev = ev /\ c.sends = 0
  BY <1>1, <1>2, <1>3, StartSound
<1> QED
  BY <1>1, <1>2, <1>4 DEF Init, IInv, Progress

\* Each round moves the chain from one stage of Progress to a later one.
LEMMA NextIInv == IInv /\ [Next]_vars => IInv'
<1> SUFFICES ASSUME IInv, [Next]_vars PROVE IInv'
  OBVIOUS
<1>1. CASE UNCHANGED vars
  BY <1>1 DEF vars, IInv, Progress
<1>2. CASE Next
  <2>1. /\ ~Over(c) /\ c' = Step(c, x, answered) /\ round' = round + 1
        /\ x' = x /\ answered' = answered /\ start' = start
    BY <1>2 DEF Next, handle_flow_event_round, Over
  <2>2. CASE round = 0
    <3>1. c.ev \in FirstEvent /\ c.sends = 0 /\ c.f = start
      BY <2>2, <2>1 DEF IInv, Progress
    <3>2. /\ Sound(c') /\ c'.sends \in 0 .. 1
          /\ \/ Over(c') /\ c'.f = c.f
             \/ Landed(c', x)
             \/ Sending(c') /\ Timed(c', x)
             \/ Renewing(c')
      BY <2>1, <3>1, FirstRound DEF IInv
    <3> QED
      BY <2>1, <2>2, <3>1, <3>2, LandedIsOver DEF IInv, Progress, MaxRounds
  <2>3. CASE round = 1 /\ Renewing(c)
    <3>1. /\ Sound(c') /\ c'.sends \in {c.sends, c.sends + 1}
          /\ Landed(c', x) \/ (Sending(c') /\ Timed(c', x))
      BY <2>1, <2>3, RoundAfterRenew DEF IInv
    <3> QED
      BY <2>1, <2>3, <3>1, LandedIsOver DEF IInv, Progress, MaxRounds
  <2>4. CASE round \in 1 .. 2 /\ Sending(c) /\ Timed(c, x)
    <3>1. Sound(c') /\ c'.sends = c.sends /\ Landed(c', x)
      BY <2>1, <2>4, RoundAfterSend DEF IInv
    <3> QED
      BY <2>1, <2>4, <3>1, LandedIsOver DEF IInv, Progress, MaxRounds
  <2> QED
    BY <2>1, <2>2, <2>3, <2>4 DEF IInv, Progress
<1> QED
  BY <1>1, <1>2 DEF Next

\* The induction: IInv holds in every state of the loop.
LEMMA InvariantHolds == Spec => []IInv
BY InitIInv, NextIInv, PTL DEF Spec

\* With a unit of time of which the first interval takes at least two, an
\* interval is not rounded down to nothing.
LEMMA IntervalPositive ==
    ASSUME NEW y \in Context, NEW t \in Interval(y)
    PROVE  t > 0
<1>1. y.rand \in Nat /\ y.rand <= RandMask
  <2>1. RandMask \in Nat
    BY DEF RandMask
  <2> QED
    BY <2>1, ContextFields
<1>2. ASSUME NEW rt \in Nat
      PROVE  PCP_RT(rt, y.rand) > 0
  <2> DEFINE a == 8192 + (1024 - y.rand)
             k == Clamp(2 * rt)
  <2>1. a \in Nat /\ a >= 7169
    BY <1>1 DEF RandMask
  <2>2. k \in Nat /\ k >= 2
    BY RetxAssumption, TimeUnitAssumption DEF Clamp
  <2>3. PCP_RT(rt, y.rand) = (a * k) \div 8192
    BY DEF PCP_RT
  <2> HIDE DEF a, k
  <2>4. PICK m \in Nat : k = m + 2
    BY <2>2
  <2>5. a * k = a * m + (a + a) /\ a * m \in Nat
    BY <2>1, <2>4
  <2>6. a * k \in Nat /\ a * k >= 8192
    BY <2>1, <2>5
  <2>7. \A n \in Nat : n >= 8192 => n \div 8192 > 0
    OBVIOUS
  <2> QED
    BY <2>3, <2>6, <2>7
<1> QED
  BY <1>2, TimeUnitAssumption, RetxAssumption DEF Interval

\* handle_flow_event returns: its loop runs at most MaxRounds times, and so
\* PcpClient loses nothing by running it that many times.
THEOREM LoopEnds == Spec => []ChainEnds
<1>1. IInv => ChainEnds
  <2> SUFFICES ASSUME IInv PROVE ChainEnds
    OBVIOUS
  <2>1. MaxRounds = 3
    BY DEF MaxRounds
  <2>2. round \in 0 .. MaxRounds
    BY <2>1 DEF IInv, Progress
  <2>3. round = MaxRounds => c.ev = "none"
    BY <2>1 DEF IInv, Progress, Over
  <2> QED
    BY <2>1, <2>2, <2>3 DEF ChainEnds
<1> QED
  BY <1>1, InvariantHolds, PTL

\* One event costs at most two messages.
THEOREM FewSends == Spec => []AtMostTwoSends
<1>1. IInv => AtMostTwoSends
  BY DEF IInv, AtMostTwoSends, MaxSends
<1> QED
  BY <1>1, InvariantHolds, PTL

\* handle_flow_event leaves the flow as it was or in a state it can stay in.
THEOREM FlowLands == Spec => []LoopLands
<1>1. IInv => LoopLands
  <2> SUFFICES ASSUME IInv, c.ev = "none" PROVE c.f = start \/ c.f.state \in Landing
    BY DEF LoopLands
  <2>1. c.f = start \/ Landed(c, x)
    BY DEF IInv, Progress, Sending, Renewing
  <2>2. c.f.state = c.cur
    BY DEF IInv, Sound
  <2> QED
    BY <2>1, <2>2 DEF Landed, Landing, Settling
<1> QED
  BY <1>1, InvariantHolds, PTL

\* A flow that waits for an answer because a request was sent has a timer that
\* lies in the future.
THEOREM SentIsTimed == Spec => []SentHasTimer
<1>1. IInv => SentHasTimer
  <2> SUFFICES ASSUME IInv, c.ev = "none", c.f.state = "wait_resp", c.f # start
               PROVE  c.f.timeout # NoTimer /\ c.f.timeout > 0
    BY DEF SentHasTimer
  <2>1. Landed(c, x) /\ c.cur = "wait_resp" /\ x \in Context
    BY DEF IInv, Progress, Sending, Renewing, Sound
  <2>2. c.f.timeout \in Interval(x)
    BY <2>1 DEF Landed
  <2> QED
    BY <2>1, <2>2, IntervalType, IntervalPositive, NoTimerAssumption
<1> QED
  BY <1>1, InvariantHolds, PTL

\* A flow that fails is left without a timer and without a message buffer.
THEOREM FailureClears == Spec => []FailedIsClear
<1>1. IInv => FailedIsClear
  <2> SUFFICES ASSUME IInv, c.ev = "none", c.f.state = "failed", c.f # start
               PROVE  c.f.timeout = NoTimer /\ c.f.buf = NoBuf
    BY DEF FailedIsClear
  <2>1. Landed(c, x) /\ c.cur = "failed"
    BY DEF IInv, Progress, Sending, Renewing, Sound
  <2> QED
    BY <2>1 DEF Landed
<1> QED
  BY <1>1, InvariantHolds, PTL
=============================================================================
