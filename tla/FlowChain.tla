------------------------------ MODULE FlowChain ------------------------------
(***************************************************************************)
(* The loop of handle_flow_event, one round per step: an event is looked   *)
(* up in flow_events_sm, the handler of the transition runs and raises the *)
(* next event, until one raises none.  PcpClient takes the whole loop in   *)
(* one step, as MaxRounds rounds; here the loop runs freely, from every    *)
(* flow in Flows, also from those no execution leads to.                   *)
(***************************************************************************)
EXTENDS PcpFlow

CONSTANTS Flows,      \* the flows to start from
          Contexts    \* the contexts to run in

ASSUME FlowsAssumption == Flows \subseteq FlowRec /\ Contexts \subseteq Context
\* The first timeout is 3000 milliseconds; an eighth less of it is still a time.
ASSUME TimeUnitAssumption == IRT >= 2

VARIABLES c,          \* the loop's state
          x,          \* the context
          answered,   \* whether the first event is an answer
          start,      \* the flow as it was given
          round       \* how many rounds have been run

vars == <<c, x, answered, start, round>>

\* The events that the callers of handle_flow_event raise on their own.
LibraryEvent == {"flow_timedout", "server_initialized", "do_send", "do_fail",
                 "server_restarted"}

Init == /\ x \in Contexts
        /\ answered \in BOOLEAN
        /\ start \in Flows
        /\ \E ev \in IF answered THEN {x.msg.result} ELSE LibraryEvent :
              c = StartChain(start, ev)
        /\ round = 0

handle_flow_event_round ==
    /\ c.ev # "none"
    /\ c' = Step(c, x, answered)
    /\ round' = round + 1
    /\ UNCHANGED <<x, answered, start>>

Next == handle_flow_event_round

Spec == Init /\ [][Next]_vars

-----------------------------------------------------------------------------
\* The loop of handle_flow_event ends within MaxRounds rounds, whatever the flow
\* and the event.
ChainEnds == round <= MaxRounds /\ (round = MaxRounds => c.ev = "none")

\* One event makes a flow send at most two messages: a renewal that cannot be
\* sent, or comes too late, and the new request that replaces it.
AtMostTwoSends == c.sends <= MaxSends

\* The loop leaves the flow alone, or in a state that an answer or a timer ends
\* or that is final: never in pfs_send or pfs_send_renew.
Landing == {"wait_resp", "wait_after_short_life_error", "wait_for_lifetime_renew",
            "wait_for_server_init", "failed"}
LoopLands == c.ev = "none" => c.f = start \/ c.f.state \in Landing

\* A flow that fhndl_send or fhndl_resend leaves waiting for an answer has a
\* timer in the future, so that the loss of the answer will be noticed.
SentHasTimer ==
    c.ev = "none" /\ c.f.state = "wait_resp" =>
        c.f = start \/ (c.f.timeout # NoTimer /\ c.f.timeout > 0)

\* A flow that the loop makes fail is left with no timer and no message buffer.
FailedIsClear ==
    c.ev = "none" /\ c.f.state = "failed" =>
        c.f = start \/ (c.f.timeout = NoTimer /\ c.f.buf = NoBuf)
=============================================================================
