------------------------------- MODULE PcpFlow -------------------------------
(***************************************************************************)
(* One flow (a MAP, PEER or NAT-PMP ANNOUNCE transaction with one server)  *)
(* of the client: the two tables of lib/src/pcp_event_handler.c, the       *)
(* transition handlers, and handle_flow_event, which runs them until a     *)
(* handler raises no further event.  Everything here is a function of the  *)
(* flow and of the context it runs in; PcpClient makes actions of it.      *)
(*                                                                         *)
(* A timer is the time left until it fires, 0 or -1 once it has fired      *)
(* (-1 stands for every instant before now), or NoTimer for the struct     *)
(* timeval {0, 0} that the code uses for "not armed".                      *)
(***************************************************************************)
EXTENDS Integers

CONSTANTS
    NoTimer,   \* a timeval that is {0, 0}
    NoBuf,     \* pcp_msg_buffer == NULL
    IRT,       \* PCP_RETX_IRT
    MRT,       \* PCP_RETX_MRT
    MRC,       \* PCP_RETX_MRC
    MaxLife    \* bound: the largest lifetime a request or an answer carries

ASSUME NoTimerAssumption == NoTimer \notin Int
ASSUME NoBufAssumption   == NoBuf \notin Int
ASSUME RetxAssumption    == /\ IRT \in Nat \ {0}
                            /\ MRT \in Nat \ {0}
                            /\ MRC \in Nat \ {0}
                            /\ IRT <= MRT
ASSUME LifeAssumption    == MaxLife \in Nat

Timer   == Int \cup {NoTimer}
Version == 0 .. 2                   \* 0 is NAT-PMP, 1 and 2 are PCP
Op      == {"map", "peer", "announce"}

FlowState == {"absent", "idle", "wait_for_server_init", "send", "wait_resp",
              "wait_after_short_life_error", "wait_for_lifetime_renew",
              "send_renew", "failed"}

ShortLifeError == {"network_failure", "no_resources",
                   "exc_remote_peers", "user_ex_quota"}
LongLifeError  == {"not_authorized", "malformed_request", "unsupp_opcode",
                   "unsupp_option", "unsupp_protocol", "cant_provide_ext",
                   "address_mismatch"}
Result         == {"success", "unsupp_version", "malformed_option"}
                    \cup ShortLifeError \cup LongLifeError

FlowEvent == {"flow_timedout", "server_initialized", "do_send", "msg_sent",
              "do_fail", "none", "server_restarted", "ignored"} \cup Result

\* struct pcp_flow_s: the fields that steer the flow.
FlowRec == [state          : FlowState,
            timeout        : Timer,
            resend_timeout : Nat,
            retry_count    : 0 .. MRC,
            lifetime       : Nat,          \* requested
            recv_lifetime  : Int,          \* time left of what was granted
            recv_result    : Result,
            buf            : Version \cup {NoBuf}]

\* A zeroed flow that is in no list: the slot is free.
AbsentFlow == [state |-> "absent", timeout |-> NoTimer, resend_timeout |-> 0,
               retry_count |-> 0, lifetime |-> 0, recv_lifetime |-> -1,
               recv_result |-> "success", buf |-> NoBuf]

\* pcp_create_flow: calloc leaves every field zero, and pfs_idle is zero.
pcp_create_flow == [AbsentFlow EXCEPT !.state = "idle"]

-----------------------------------------------------------------------------
(* The context of one call: whether get_pcp_server finds the flow's server, *)
(* whether the flow is that server's restart_flow_msg, the server's         *)
(* version, the flow's opcode, which of the sendto calls fail, the value of *)
(* rand() & 2047, and the answer that is being handled.                     *)

MaxSends == 2       \* one chain of handlers sends at most twice
RandMask == 2047    \* PCP_RT uses rand() & 2047

Msg == [result : Result, lifetime : 0 .. MaxLife]

Context == [present : BOOLEAN, mark : BOOLEAN, version : Version, op : Op,
            faults : SUBSET (1 .. MaxSends), rand : 0 .. RandMask, msg : Msg]

\* A run of handle_flow_event: the flow, cur_state, the pending event and the
\* number of messages handed to sendto.
Chain == [f : FlowRec, cur : FlowState, ev : FlowEvent, sends : Nat]

-----------------------------------------------------------------------------
(* flow_events_sm: the next state, first matching row; "absent" is no row.  *)

\* Mutant: a request that cannot be sent is sent again, from any state.
NextState_FailSends(st, ev) ==
    CASE ev \in {"do_send", "server_restarted", "do_fail"} -> "send"
      [] ev = "flow_timedout" /\ st \in {"wait_for_lifetime_renew", "send_renew"} ->
            "send_renew"
      [] ev = "msg_sent" /\ st = "send" -> "wait_resp"
      [] \/ ev = "msg_sent" /\ st = "send_renew"
         \/ ev = "ignored" /\ st = "send" -> "wait_for_lifetime_renew"
      [] OTHER -> "absent"

NextState(st, ev) ==
    CASE ev \in {"do_send", "server_restarted"} -> "send"
      [] ev = "do_fail" ->
            IF st \in {"wait_for_lifetime_renew", "send_renew"}
            THEN "send" ELSE "failed"
      [] ev = "server_initialized"
            /\ st \in {"wait_for_server_init", "wait_resp", "send"} -> "send"
      [] ev = "flow_timedout"
            /\ st \in {"wait_resp", "send", "wait_after_short_life_error"} -> "send"
      [] ev = "flow_timedout"
            /\ st \in {"wait_for_lifetime_renew", "send_renew"} -> "send_renew"
      [] ev = "msg_sent" /\ st = "send" -> "wait_resp"
      [] ev = "msg_sent" /\ st = "send_renew" -> "wait_for_lifetime_renew"
      [] ev = "ignored" /\ st = "send" -> "wait_for_lifetime_renew"
      [] ev = "success"
            /\ st \in {"wait_resp", "wait_for_lifetime_renew"} -> "wait_for_lifetime_renew"
      [] ev = "unsupp_version"
            /\ st \in {"wait_resp", "wait_for_lifetime_renew"} -> "wait_for_server_init"
      [] ev \in ShortLifeError /\ st = "wait_resp" -> "wait_after_short_life_error"
      [] ev \in ShortLifeError /\ st = "wait_for_lifetime_renew" -> "send_renew"
      [] ev \in LongLifeError
            /\ st \in {"wait_resp", "wait_for_lifetime_renew"} -> "failed"
      [] OTHER -> "absent"

-----------------------------------------------------------------------------
(* The transition handlers, on a chain c in context x.                      *)

Raise(c, ev) == [c EXCEPT !.ev = ev]

\* pcp_flow_send_msg: build a message for the server's version unless a
\* buffer is left over, hand it to sendto, and free it once it is sent.  A
\* NAT-PMP server has no PEER: build_natpmp_msg returns a positive code, which
\* build_pcp_msg takes for success, and a message of length 0 is "sent" without
\* a call of sendto.
SendOk(c, x) == \/ x.op = "peer" /\ x.version = 0 /\ c.f.buf = NoBuf
                \/ c.sends + 1 \notin x.faults

pcp_flow_send_msg(c, x) ==
    [c EXCEPT !.sends = @ + 1,
              !.f.buf = IF SendOk(c, x) THEN NoBuf
                        ELSE IF @ = NoBuf THEN x.version ELSE @]

\* Mutant: the timer of the flow is left as it was.
fhndl_send_untimed(c, x) ==
    IF ~x.present \/ ~SendOk(c, x) THEN Raise(c, "do_fail")
    ELSE [pcp_flow_send_msg(c, x) EXCEPT !.ev = "msg_sent",
                                         !.f.resend_timeout = IRT]

fhndl_send(c, x) ==
    IF ~x.present THEN Raise(c, "do_fail")
    ELSE IF x.mark THEN Raise(c, "ignored")
    ELSE IF ~SendOk(c, x) THEN Raise(pcp_flow_send_msg(c, x), "do_fail")
    ELSE [pcp_flow_send_msg(c, x) EXCEPT !.ev = "msg_sent",
                                         !.f.resend_timeout = IRT,
                                         !.f.timeout = IRT]

\* PCP_RT: double, clamp to IRT .. MRT, and spread by up to an eighth.
Clamp(rt) == IF rt < IRT THEN IRT ELSE IF rt > MRT THEN MRT ELSE rt

PCP_RT(rt, rand) == ((8192 + (1024 - rand)) * Clamp(2 * rt)) \div 8192

\* The counter is only ever compared with MRC, so it stops there.
fhndl_resend(c, x) ==
    LET tried == [c EXCEPT !.f.retry_count = IF @ < MRC THEN @ + 1 ELSE MRC]
        rt    == PCP_RT(c.f.resend_timeout, x.rand)
    IN  IF ~x.present THEN Raise(c, "do_fail")
        ELSE IF tried.f.retry_count >= MRC THEN Raise(tried, "do_fail")
        ELSE IF ~SendOk(c, x) THEN Raise(pcp_flow_send_msg(tried, x), "do_fail")
        ELSE [pcp_flow_send_msg(tried, x) EXCEPT !.ev = "msg_sent",
                                                 !.f.resend_timeout = rt,
                                                 !.f.timeout = rt]

fhndl_shortlifeerror(c, x) ==
    [c EXCEPT !.ev = "none",
              !.f.recv_result = x.msg.result,
              !.f.timeout = x.msg.lifetime]

\* Mutant: the renewal is due only when the lifetime ends.
fhndl_received_success_late(c, x) ==
    [c EXCEPT !.ev = "none",
              !.f.recv_lifetime = x.msg.lifetime,
              !.f.recv_result = x.msg.result,
              !.f.timeout = IF x.msg.lifetime = 0 THEN NoTimer ELSE x.msg.lifetime]

\* The renewal is due half way to the end of what was granted.
fhndl_received_success(c, x) ==
    [c EXCEPT !.ev = "none",
              !.f.recv_lifetime = x.msg.lifetime,
              !.f.recv_result = x.msg.result,
              !.f.timeout = IF x.msg.lifetime = 0 THEN NoTimer
                            ELSE x.msg.lifetime \div 2]

\* Mutant: a renewal that was sent raises no event.
fhndl_send_renew_quiet(c, x) ==
    IF ~x.present \/ ~SendOk(c, x) THEN Raise(c, "do_fail")
    ELSE [pcp_flow_send_msg(c, x) EXCEPT !.ev = "none",
                                         !.f.timeout = c.f.recv_lifetime \div 2]

\* timeout_add is an arithmetic shift: it is negative once the lifetime is
\* over, and the timer is then armed in the past.
fhndl_send_renew(c, x) ==
    LET timeout_add == c.f.recv_lifetime \div 2
    IN  IF ~x.present THEN Raise(c, "do_fail")
        ELSE IF ~SendOk(c, x) THEN Raise(pcp_flow_send_msg(c, x), "do_fail")
        ELSE IF timeout_add = 0
             THEN [pcp_flow_send_msg(c, x) EXCEPT !.ev = "do_fail",
                                                  !.f.timeout = 0]
             ELSE [pcp_flow_send_msg(c, x) EXCEPT !.ev = "msg_sent",
                                                  !.f.timeout = timeout_add]

\* Mutant: the buffer is not freed.
fhndl_clear_timeouts_keep(c, x, answered) ==
    [c EXCEPT !.ev = "none",
              !.f.recv_result = IF answered THEN x.msg.result ELSE @,
              !.f.timeout = NoTimer]

fhndl_clear_timeouts(c, x, answered) ==
    [c EXCEPT !.ev = "none",
              !.f.recv_result = IF answered THEN x.msg.result ELSE @,
              !.f.buf = NoBuf,
              !.f.timeout = NoTimer]

fhndl_waitresp(c) ==
    Raise(c, IF c.f.timeout # NoTimer /\ c.f.timeout >= 0 THEN "none" ELSE "do_fail")

\* flow_transitions: the handler of a transition, first matching row.  The
\* two ways into wait_for_lifetime_renew that are not in the table end the chain.
Transition(c, from, to, x, answered) ==
    CASE to = "wait_resp" -> fhndl_waitresp(c)
      [] to = "send" /\ from = "wait_resp" -> fhndl_resend(c, x)
      [] to = "send" /\ from # "wait_resp" -> fhndl_send(c, x)
      [] to = "wait_after_short_life_error" -> fhndl_shortlifeerror(c, x)
      [] to = "wait_for_lifetime_renew"
            /\ from \in {"wait_resp", "wait_for_lifetime_renew"} ->
                fhndl_received_success(c, x)
      [] to = "send_renew" -> fhndl_send_renew(c, x)
      [] to \in {"wait_for_server_init", "failed"} ->
                fhndl_clear_timeouts(c, x, answered)
      [] OTHER -> Raise(c, "none")

-----------------------------------------------------------------------------
(* handle_flow_event.  Step is one round of its loop and the identity once  *)
(* the loop has ended; a chain ends within MaxRounds rounds.                *)

Step(c, x, answered) ==
    LET to == NextState(c.cur, c.ev)
    IN  IF c.ev = "none" THEN c
        ELSE IF to = "absent" THEN Raise(c, "none")
        ELSE Transition([c EXCEPT !.f.state = to, !.cur = to],
                        c.cur, to, x, answered)

MaxRounds == 3

StartChain(f, ev) == [f |-> f, cur |-> f.state, ev |-> ev, sends |-> 0]

RunChain(f, ev, x, answered) ==
    Step(Step(Step(StartChain(f, ev), x, answered), x, answered), x, answered)

\* An event raised by the library, and one raised by an answer.
handle_flow_event(f, ev, x) == RunChain(f, ev, x, FALSE).f
handle_answer(f, x)         == RunChain(f, x.msg.result, x, TRUE).f

-----------------------------------------------------------------------------
(* check_flow_timeout, without the search for the nearest timer, which      *)
(* PcpClient does over all flows at once.                                   *)

Armed(f)   == f.timeout # NoTimer
Expired(t) == t # NoTimer /\ t <= 0

check_flow_timeout(f, x) ==
    IF Expired(f.timeout) THEN handle_flow_event(f, "flow_timedout", x) ELSE f

\* timeval_subtract yields {0, 0} for a timer that is not in the future.
Remaining(f) == IF f.timeout <= 0 THEN 0 ELSE f.timeout
=============================================================================
