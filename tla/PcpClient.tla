------------------------------ MODULE PcpClient ------------------------------
(***************************************************************************)
(* The client library: the flows and the PCP servers of one pcp_ctx_t, the *)
(* server state machine and pcp_pulse of lib/src/pcp_event_handler.c, the  *)
(* API calls of lib/src/pcp_api.c and the server registration of           *)
(* lib/src/pcp_server_discovery.c.                                         *)
(*                                                                         *)
(* The library has no thread of its own: it moves only inside API calls    *)
(* and pcp_pulse.  A pulse is a sequence of steps, one per handler that    *)
(* run_server_state_machine calls, and the clock may move between them.    *)
(* The servers and the network are the environment: any answer of Answers  *)
(* may be in the socket when a pulse polls it, whether it is fresh, late,  *)
(* duplicated or out of order.                                             *)
(***************************************************************************)
EXTENDS PcpFlow

CONSTANTS
    NServers,      \* slots 1 .. NServers of pcp_db.pcp_servers
    Request,       \* what pcp_new_flow may be asked for
    Ann,           \* bound: the ANNOUNCE flows a server may be given
    OpOf,          \* the opcode of a request
    Reaches,       \* the servers whose address family and scope fit a request
    Pos,           \* where pcp_db_foreach_flow meets a flow
    NoFlow,        \* a NULL flow pointer
    NoEpoch,       \* epoch == ~0
    Epoch,         \* the epochs of a server: one per restart
    Answers,       \* the answers the environment may deliver
    Lifetimes,     \* the lifetimes the application asks for
    AddVersions,   \* the versions the application registers a server with
    Calls,         \* the API calls the application makes
    Faults,        \* which sendto calls of one chain may fail
    Rand,          \* values of rand() & 2047
    RetryDelay,    \* PCP_SERVER_DISCOVERY_RETRY_DELAY
    MaxPing,       \* PCP_MAX_PING_COUNT
    LateAnswers,   \* whether a server that was given up may still answer
    SlowPulse,     \* whether the clock may move during a pulse
    Prompt         \* whether the application pulses as soon as a timer is due

VARIABLES
    flow,          \* the flows, by slot
    server,        \* the servers, by index
    pulse          \* how far the running pcp_pulse is

vars == <<flow, server, pulse>>

Server == 1 .. NServers

\* A flow is the part of a request that goes to one server; the chain of a
\* request (next_child) is its flows in the order of the servers.
Flow == (Request \cup Ann) \X Server

ServerOf(f) == f[2]
FlowOp(f)   == IF f[1] \in Ann THEN "announce" ELSE OpOf[f[1]]

ASSUME SlotAssumption ==
    /\ NServers \in Nat \ {0}
    /\ Request \cap Ann = {}
    /\ OpOf \in [Request -> {"map", "peer"}]
    /\ Reaches \in [Request -> SUBSET Server]
    /\ Pos \in [Flow -> Nat]
    /\ \A f, g \in Flow : Pos[f] = Pos[g] => f = g
    /\ NoFlow \notin Flow
ASSUME EnvAssumption ==
    /\ NoEpoch \notin Epoch
    /\ Lifetimes \subseteq 0 .. MaxLife
    /\ AddVersions \subseteq Version
    /\ Faults \subseteq SUBSET (1 .. MaxSends)
    /\ Rand \subseteq 0 .. RandMask
    /\ RetryDelay \in Nat \ {0}
    /\ MaxPing \in Nat \ {0}
    /\ LateAnswers \in BOOLEAN
    /\ SlowPulse \in BOOLEAN
    /\ Prompt \in BOOLEAN

\* An answer of a server: the flow its key names (or none), whether it is a
\* NAT-PMP announcement, and what it carries.
Answer == [key : Flow \cup {NoFlow}, announce : BOOLEAN, version : Version,
           result : Result, lifetime : 0 .. MaxLife, epoch : Epoch]

ASSUME AnswersAssumption == Answers \subseteq Answer

ServerState == {"uninitialized", "allocated", "ping", "wait_ping_resp",
                "version_negotiation", "send_all_msgs", "wait_io",
                "wait_io_calc_nearest_timeout", "server_restart",
                "server_reping", "set_not_working", "not_working"}

Uint8 == 0 .. 255

\* struct pcp_server.
ServerRec == [state            : ServerState,
              next_timeout     : Timer,
              pcp_version      : Version,
              next_version     : Uint8,
              epoch            : Epoch \cup {NoEpoch},
              ping_count       : 0 .. MaxPing,
              ping_flow_msg    : Flow \cup {NoFlow},
              restart_flow_msg : Flow \cup {NoFlow}]

UnusedServer == [state |-> "uninitialized", next_timeout |-> NoTimer,
                 pcp_version |-> 0, next_version |-> 0, epoch |-> NoEpoch,
                 ping_count |-> 0, ping_flow_msg |-> NoFlow,
                 restart_flow_msg |-> NoFlow]

\* at: "rest" between calls, "poll" when a call has still to pulse, "io" while
\* hserver_iter serves the server an answer came from, "scan" while it goes
\* through all servers; then: what the call does once the pulse is over.
PulseRec == [at : {"rest", "poll", "io", "scan"}, s : Server,
             then : {"return", "terminate"}]

Rest       == [at |-> "rest", s |-> 1, then |-> "return"]
AtRest     == pulse.at = "rest"
CanPoll    == pulse.at \in {"rest", "poll"}
InUse(s)   == server[s].state # "uninitialized"
Live(f)    == flow[f].state # "absent"
FlowsOf(s) == {f \in Flow : ServerOf(f) = s /\ Live(f)}

NoMsg == [result |-> "success", lifetime |-> 0]

-----------------------------------------------------------------------------
(* The context a flow's handlers run in, given its server's record sv, the  *)
(* answer m and the outcome o of sendto and rand().                         *)

Outcome == [faults : Faults, rand : Rand]

Ctx(f, sv, m, o) ==
    [present |-> sv.state # "uninitialized",
     mark    |-> sv.restart_flow_msg = f,
     version |-> sv.pcp_version,
     op      |-> FlowOp(f),
     faults  |-> o.faults,
     rand    |-> o.rand,
     msg     |-> [result |-> m.result, lifetime |-> m.lifetime]]

\* flow_send_event_iter over the flows of s: the event, then the timer.
SendEvent(s, ev, o) ==
    [f \in Flow |->
        IF f \in FlowsOf(s)
        THEN LET x == Ctx(f, server[s], NoMsg, o[f])
             IN  check_flow_timeout(handle_flow_event(flow[f], ev, x), x)
        ELSE flow[f]]

\* The server a handler leaves behind, and the flows.
Put(s, sv) == server' = [server EXCEPT ![s] = sv]

-----------------------------------------------------------------------------
(* The handlers of server_sm.                                               *)

Pingable(s) == {f \in FlowsOf(s) :
                    flow[f].state \in {"idle", "wait_for_server_init", "send"}}

\* The one of fs that pcp_db_foreach_flow meets first.
First(fs) == {f \in fs : \A g \in fs : Pos[f] <= Pos[g]}

\* Mutant: a server is waited for although there was nothing to ping it with.
handle_server_ping_empty(s) ==
    LET sv == [server[s] EXCEPT !.ping_count = 0, !.state = "wait_ping_resp"]
    IN  \/ /\ Pingable(s) = {}
           /\ Put(s, [sv EXCEPT !.ping_flow_msg = NoFlow, !.next_timeout = 0])
           /\ UNCHANGED flow
        \/ \E p \in First(Pingable(s)), o \in Outcome :
             LET g == handle_flow_event(flow[p], "do_send", Ctx(p, sv, NoMsg, o))
             IN  /\ flow' = [flow EXCEPT ![p] = g]
                 /\ Put(s, [sv EXCEPT !.ping_flow_msg = p, !.next_timeout = g.timeout])

\* get_ping_msg and handle_server_ping: try the waiting flows in order until
\* one of them is on its way; the ones that cannot be sent fail.
handle_server_ping(s) ==
    \E o \in [Flow -> Outcome] :
        LET sv      == [server[s] EXCEPT !.ping_count = 0]
            Ping(f) == handle_flow_event([flow[f] EXCEPT !.retry_count = 0],
                                         "do_send", Ctx(f, sv, NoMsg, o[f]))
            onway   == {f \in Pingable(s) : Ping(f).state # "failed"}
        IN  \/ /\ onway = {}
               /\ flow' = [f \in Flow |-> IF f \in Pingable(s) THEN Ping(f) ELSE flow[f]]
               /\ Put(s, [sv EXCEPT !.ping_flow_msg = NoFlow,
                                    !.next_timeout = NoTimer])
            \/ \E p \in First(onway) :
                 /\ flow' = [f \in Flow |-> IF f \in Pingable(s) /\ Pos[f] <= Pos[p]
                                            THEN Ping(f) ELSE flow[f]]
                 /\ Put(s, [sv EXCEPT !.ping_flow_msg = p,
                                      !.next_timeout = Ping(p).timeout,
                                      !.state = "wait_ping_resp"])

\* Mutant: a ping flow that has failed is waited for like any other.
handle_wait_ping_resp_timeout_blind(s) ==
    LET p == server[s].ping_flow_msg
    IN  \/ /\ p = NoFlow
           /\ Put(s, [server[s] EXCEPT !.next_timeout = 0, !.state = "ping"])
           /\ UNCHANGED flow
        \/ /\ p # NoFlow
           /\ \E o \in Outcome :
                LET g == handle_flow_event(flow[p], "flow_timedout",
                                           Ctx(p, server[s], NoMsg, o))
                IN  /\ flow' = [flow EXCEPT ![p] = g]
                    /\ Put(s, [server[s] EXCEPT !.next_timeout = g.timeout])

\* ping_count is only ever compared with MaxPing, so it stops there.
handle_wait_ping_resp_timeout(s) ==
    LET p  == server[s].ping_flow_msg
        sv == [server[s] EXCEPT !.ping_count = IF @ < MaxPing THEN @ + 1 ELSE MaxPing]
    IN  \/ /\ sv.ping_count >= MaxPing
           /\ Put(s, [sv EXCEPT !.next_timeout = 0, !.state = "set_not_working"])
           /\ UNCHANGED flow
        \/ /\ sv.ping_count < MaxPing
           /\ p = NoFlow
           /\ Put(s, [sv EXCEPT !.next_timeout = 0, !.state = "ping"])
           /\ UNCHANGED flow
        \/ /\ sv.ping_count < MaxPing
           /\ p # NoFlow
           /\ \E o \in Outcome :
                LET g == handle_flow_event(flow[p], "flow_timedout",
                                           Ctx(p, sv, NoMsg, o))
                IN  /\ flow' = [flow EXCEPT ![p] = g]
                    /\ IF g.state = "failed"
                       THEN Put(s, [sv EXCEPT !.next_timeout = 0,
                                              !.state = "set_not_working"])
                       ELSE Put(s, [sv EXCEPT !.next_timeout = g.timeout])

\* server_process_rcvd_pcp_msg: the flow an answer belongs to.  A NAT-PMP
\* announcement belongs to the ANNOUNCE flow the server is pinged with.
FlowOfAnswer(s, m) ==
    LET p == server[s].ping_flow_msg
    IN  IF m.version = 0 /\ m.announce
        THEN IF server[s].pcp_version = 0 /\ p # NoFlow /\ FlowOp(p) = "announce"
             THEN p ELSE NoFlow
        ELSE IF m.key \in FlowsOf(s) THEN m.key ELSE NoFlow

server_process_rcvd_pcp_msg(s, m, o) ==
    LET f == FlowOfAnswer(s, m)
    IN  IF f = NoFlow THEN flow
        ELSE [flow EXCEPT ![f] = handle_answer(flow[f], Ctx(f, server[s], m, o))]

\* compare_epochs: an epoch that is not the one recorded is a restart; the
\* first epoch heard is recorded.
compare_epochs(s, m) == server[s].epoch # NoEpoch /\ server[s].epoch # m.epoch

\* Mutant: the server's timer is left alone when its restart is noticed.
handle_wait_io_receive_msg_untimed(s, m, after_io) ==
    /\ \E o \in Outcome : flow' = server_process_rcvd_pcp_msg(s, m, o)
    /\ IF compare_epochs(s, m)
       THEN Put(s, [server[s] EXCEPT !.epoch = m.epoch,
                                     !.restart_flow_msg = FlowOfAnswer(s, m),
                                     !.state = "server_restart"])
       ELSE Put(s, [server[s] EXCEPT !.epoch = m.epoch, !.next_timeout = 0,
                                     !.state = after_io])

\* Mutant: an answer to a ping does not end the wait for it.
handle_wait_io_receive_msg_stay(s, m, after_io) ==
    /\ \E o \in Outcome : flow' = server_process_rcvd_pcp_msg(s, m, o)
    /\ Put(s, [server[s] EXCEPT !.epoch = m.epoch])

\* handle_wait_io_receive_msg; after_io is where an ordinary answer leads:
\* handle_wait_ping_resp_recv sends all messages that wait for the server.
handle_wait_io_receive_msg(s, m, after_io) ==
    \/ /\ m.result = "unsupp_version"
       /\ Put(s, [server[s] EXCEPT !.next_timeout = 0,
                                   !.next_version = m.version,
                                   !.state = "version_negotiation"])
       /\ UNCHANGED flow
    \/ /\ m.result = "address_mismatch"
       /\ Put(s, [server[s] EXCEPT !.next_timeout = 0,
                                   !.state = "set_not_working"])
       /\ UNCHANGED flow
    \/ /\ m.result \notin {"unsupp_version", "address_mismatch"}
       /\ \E o \in Outcome : flow' = server_process_rcvd_pcp_msg(s, m, o)
       /\ IF compare_epochs(s, m)
          THEN Put(s, [server[s] EXCEPT !.epoch = m.epoch,
                                        !.next_timeout = 0,
                                        !.restart_flow_msg = FlowOfAnswer(s, m),
                                        !.state = "server_restart"])
          ELSE Put(s, [server[s] EXCEPT !.epoch = m.epoch,
                                        !.next_timeout = 0,
                                        !.state = after_io])

\* handle_version_negotiation.  Falling back to NAT-PMP puts the ping flow
\* aside and pings with a new ANNOUNCE flow; otherwise the ping flow is sent
\* again, or the first flow that waits if there is none.
FreeAnn(s) == {f \in Ann \X {s} : ~Live(f)}

\* Mutant: NAT-PMP is pinged with the flow that PCP was pinged with.
NegotiationPing_same(s, next) ==
    LET p == server[s].ping_flow_msg
    IN  IF p # NoFlow THEN {p} ELSE First(Pingable(s))

NegotiationPing(s, next) ==
    LET p == server[s].ping_flow_msg
    IN  IF next = 0 THEN FreeAnn(s) ELSE IF p # NoFlow THEN {p} ELSE First(Pingable(s))

\* Mutant: next_version is a signed integer.
NextVersion_signed(v, n) == IF n = v THEN n - 1 ELSE n

\* Mutant: the version offered by the server is never tried itself.
NextVersion_below(v, n) == IF n = 0 THEN 0 ELSE n - 1

\* next_version is a uint8_t.
NextVersion(v, n) == IF n = v THEN (n - 1) % 256 ELSE n

handle_version_negotiation(s) ==
    LET v    == server[s].pcp_version
        next == NextVersion(v, server[s].next_version)
        sv   == [server[s] EXCEPT !.next_version = next]
        sw   == [sv EXCEPT !.pcp_version = next]
        Aside(f) == IF next = 0 /\ f = server[s].ping_flow_msg
                    THEN [flow[f] EXCEPT !.state = "wait_for_server_init",
                                         !.timeout = NoTimer]
                    ELSE flow[f]
    IN  \/ /\ v = 0
           /\ Put(s, [sv EXCEPT !.state = "set_not_working"])
           /\ UNCHANGED flow
        \/ /\ v # 0
           /\ \E f \in NegotiationPing(s, next), o \in Outcome :
                LET w == IF next = 0 THEN pcp_create_flow ELSE flow[f]
                    g == handle_flow_event([w EXCEPT !.retry_count = 0,
                                                     !.resend_timeout = 0],
                                           "do_send", Ctx(f, sw, NoMsg, o))
                IN  /\ flow' = [h \in Flow |-> IF h = f THEN g ELSE Aside(h)]
                    /\ Put(s, IF g.state = "failed"
                              THEN [sw EXCEPT !.ping_flow_msg = f,
                                              !.state = "set_not_working"]
                              ELSE [sw EXCEPT !.ping_flow_msg = f,
                                              !.next_timeout = g.timeout,
                                              !.state = "wait_ping_resp"])
        \/ /\ v # 0
           /\ NegotiationPing(s, next) = {}
           /\ Put(s, [sw EXCEPT !.next_timeout = NoTimer, !.state = "ping"])
           /\ UNCHANGED flow

handle_send_all_msgs(s) ==
    /\ \E o \in [Flow -> Outcome] : flow' = SendEvent(s, "server_initialized", o)
    /\ Put(s, [server[s] EXCEPT !.next_timeout = 0,
                                !.state = "wait_io_calc_nearest_timeout"])

\* Mutant: the mark of the answered flow outlives the restart.
handle_server_restart_marked(s) ==
    /\ \E o \in [Flow -> Outcome] : flow' = SendEvent(s, "server_restarted", o)
    /\ Put(s, [server[s] EXCEPT !.next_timeout = 0,
                                !.state = "wait_io_calc_nearest_timeout"])

handle_server_restart(s) ==
    /\ \E o \in [Flow -> Outcome] : flow' = SendEvent(s, "server_restarted", o)
    /\ Put(s, [server[s] EXCEPT !.restart_flow_msg = NoFlow,
                                !.next_timeout = 0,
                                !.state = "wait_io_calc_nearest_timeout"])

\* Mutant: any timer will do.
NearestTimeout_any(fl, d) ==
    LET armed == {f \in Flow : fl[f].state # "absent" /\ Armed(fl[f])}
    IN  \/ d = 0 /\ armed = {}
        \/ \E f \in armed : d = Remaining(fl[f])

\* The fold of check_flow_timeout over the flows fl, whose accumulator is 0 both
\* before the first timer and after one that is not in the future: d is the
\* smallest timer met after the last timer that is not in the future, or 0.
NearestTimeout(fl, d) ==
    LET armed == {f \in Flow : fl[f].state # "absent" /\ Armed(fl[f])}
        late  == {f \in armed : Remaining(fl[f]) = 0}
        after == {f \in armed : \A z \in late : Pos[z] < Pos[f]}
    IN  \/ d = 0 /\ after = {}
        \/ /\ \E f \in after : d = Remaining(fl[f])
           /\ \A f \in after : d <= Remaining(fl[f])

\* handle_wait_io_timeout serves the timers of the flows of ALL servers.
handle_wait_io_timeout(s) ==
    \E o \in [Flow -> Outcome] :
        LET fl == [f \in Flow |->
                      IF Live(f)
                      THEN check_flow_timeout(flow[f],
                               Ctx(f, server[ServerOf(f)], NoMsg, o[f]))
                      ELSE flow[f]]
        IN  /\ flow' = fl
            /\ \E d \in {0} \cup {fl[f].timeout : f \in {g \in Flow : Armed(fl[g])}} :
                 /\ NearestTimeout(fl, d)
                 /\ Put(s, [server[s] EXCEPT
                              !.next_timeout = IF d = 0 THEN NoTimer ELSE d,
                              !.state = "wait_io"])

\* Mutant: the retry is not scheduled.
handle_server_set_not_working_forever(s) ==
    /\ \E o \in [Flow -> Outcome] : flow' = SendEvent(s, "do_fail", o)
    /\ Put(s, [server[s] EXCEPT !.next_timeout = NoTimer, !.state = "not_working"])

\* Mutant: the flows of the server are not told.
handle_server_set_not_working_silent(s) ==
    /\ Put(s, [server[s] EXCEPT !.next_timeout = RetryDelay, !.state = "not_working"])
    /\ UNCHANGED flow

handle_server_set_not_working(s) ==
    /\ \E o \in [Flow -> Outcome] : flow' = SendEvent(s, "do_fail", o)
    /\ Put(s, [server[s] EXCEPT !.next_timeout = RetryDelay,
                                !.state = "not_working"])

\* Before the delay is over only an answer can bring the server here: it is
\* processed, and the server taken for restarted.
handle_server_not_working(s, m) ==
    LET early == server[s].next_timeout # NoTimer /\ server[s].next_timeout > 0
    IN  \/ /\ early
           /\ m.result \in {"unsupp_version", "address_mismatch"}
           /\ UNCHANGED <<flow, server>>
        \/ /\ early
           /\ m.result \notin {"unsupp_version", "address_mismatch"}
           /\ \E o \in Outcome : flow' = server_process_rcvd_pcp_msg(s, m, o)
           /\ Put(s, [server[s] EXCEPT !.epoch = m.epoch,
                                       !.next_timeout = 0,
                                       !.restart_flow_msg = FlowOfAnswer(s, m),
                                       !.state = "server_restart"])
        \/ /\ ~early
           /\ Put(s, [server[s] EXCEPT !.next_timeout = 0,
                                       !.state = "server_reping"])
           /\ UNCHANGED flow

handle_server_reping(s) ==
    /\ Put(s, [server[s] EXCEPT !.pcp_version = 2,
                                !.next_timeout = 0,
                                !.state = "ping"])
    /\ UNCHANGED flow

ignore_events(s) ==
    /\ Put(s, [server[s] EXCEPT !.next_timeout = NoTimer])
    /\ UNCHANGED flow

\* server_sm, with the answer m for an io event.
run_server_state_machine(s, ev, m) ==
    \/ server[s].state = "ping" /\ handle_server_ping(s)
    \/ server[s].state = "wait_ping_resp" /\ ev = "timeout"
         /\ handle_wait_ping_resp_timeout(s)
    \/ server[s].state = "wait_ping_resp" /\ ev = "io"
         /\ handle_wait_io_receive_msg(s, m, "send_all_msgs")
    \/ server[s].state = "version_negotiation" /\ handle_version_negotiation(s)
    \/ server[s].state = "send_all_msgs" /\ handle_send_all_msgs(s)
    \/ server[s].state = "wait_io" /\ ev = "io"
         /\ handle_wait_io_receive_msg(s, m, "wait_io_calc_nearest_timeout")
    \/ server[s].state = "wait_io" /\ ev = "timeout" /\ handle_wait_io_timeout(s)
    \/ server[s].state = "wait_io_calc_nearest_timeout" /\ handle_wait_io_timeout(s)
    \/ server[s].state = "server_restart" /\ handle_server_restart(s)
    \/ server[s].state = "server_reping" /\ handle_server_reping(s)
    \/ server[s].state = "set_not_working" /\ handle_server_set_not_working(s)
    \/ server[s].state = "not_working" /\ handle_server_not_working(s, m)
    \/ server[s].state = "allocated" /\ ignore_events(s)

-----------------------------------------------------------------------------
(* pcp_pulse.                                                               *)

NoAnswer == [key |-> NoFlow, announce |-> FALSE, version |-> 0,
             result |-> "success", lifetime |-> 0, epoch |-> NoEpoch]

\* bound: no more falls back to NAT-PMP than there are ANNOUNCE slots left
WithinAnn(s, m) ==
    LET v == server[s].pcp_version
    IN  m.result = "unsupp_version" /\ v # 0 /\ (m.version = 0 \/ (m.version = 1 /\ v = 1))
            => FreeAnn(s) # {}

\* read_msg finds an answer of server s: hserver_iter with pcpe_io_event.
pcp_pulse_recv(s, m) ==
    /\ CanPoll
    /\ InUse(s)
    /\ server[s].state = "not_working" => LateAnswers
    /\ WithinAnn(s, m)
    /\ run_server_state_machine(s, "io", m)
    /\ pulse' = [pulse EXCEPT !.at = "io", !.s = s]

\* read_msg finds nothing, or nothing that is valid and from a known server.
pcp_pulse_no_msg ==
    /\ CanPoll
    /\ pulse' = [pulse EXCEPT !.at = "scan", !.s = 1]
    /\ UNCHANGED <<flow, server>>

Due(s) == InUse(s) /\ Expired(server[s].next_timeout)

\* hserver_iter runs the machine until the server's timer is unset or ahead.
hserver_iter ==
    /\ pulse.at \in {"io", "scan"}
    /\ Due(pulse.s)
    /\ run_server_state_machine(pulse.s, "timeout", NoAnswer)
    /\ UNCHANGED pulse

hserver_next ==
    /\ pulse.at \in {"io", "scan"}
    /\ ~Due(pulse.s)
    /\ \/ pulse.at = "io" /\ pulse' = [pulse EXCEPT !.at = "scan", !.s = 1]
       \/ /\ pulse.at = "scan" /\ pulse.s < NServers
          /\ pulse' = [pulse EXCEPT !.s = @ + 1]
       \/ /\ pulse.at = "scan" /\ pulse.s = NServers
          /\ pulse.then = "return"
          /\ pulse' = Rest
    /\ UNCHANGED <<flow, server>>

-----------------------------------------------------------------------------
(* The API calls.  The application keeps the head of a request's chain and  *)
(* gives it to the calls, which go through the whole chain.                 *)

Call(c) == AtRest /\ c \in Calls

\* psd_add_gws, in pcp_init with autodiscovery: the gateways take the first
\* slots; one whose source address is not found stays allocated.
pcp_init(gws) ==
    /\ Call("init")
    /\ \A s \in Server : server[s] = UnusedServer
    /\ \A f \in Flow : ~Live(f)
    /\ server' = [s \in Server |->
                     IF s \in DOMAIN gws
                     THEN [UnusedServer EXCEPT
                             !.state = IF gws[s] THEN "ping" ELSE "allocated",
                             !.pcp_version = 2]
                     ELSE UnusedServer]
    /\ UNCHANGED <<flow, pulse>>

\* psd_add_pcp_server: a new address takes the first unused slot, a known
\* one keeps its slot; ok is whether the source address is found.
pcp_add_server(s, v, ok) ==
    /\ Call("add_server")
    /\ InUse(s) \/ \A t \in Server : t < s => InUse(t)
    /\ LET sv == [server[s] EXCEPT
                     !.epoch = IF InUse(s) THEN @ ELSE NoEpoch,
                     !.pcp_version = v]
       IN  Put(s, IF ok THEN [sv EXCEPT !.state = "ping", !.next_timeout = NoTimer]
                  ELSE [sv EXCEPT !.state = "uninitialized"])
    /\ UNCHANGED <<flow, pulse>>

ChainOf(r) == {f \in {r} \X Server : Live(f)}

\* chain_and_assign_src_ip and init_flow for every server that fits.
Takes(s, r) == /\ InUse(s)
               /\ server[s].state # "not_working"
               /\ s \in Reaches[r]

pcp_new_flow(r, life) ==
    /\ Call("new_flow")
    /\ ChainOf(r) = {}
    /\ \E s \in Server : Takes(s, r)
    /\ flow' = [f \in Flow |->
                   IF f[1] = r /\ Takes(f[2], r)
                   THEN [pcp_create_flow EXCEPT
                           !.lifetime = life,
                           !.timeout = 0,
                           !.state = IF server[f[2]].state = "wait_io" THEN "send"
                                     ELSE "wait_for_server_init"]
                   ELSE flow[f]]
    /\ server' = [s \in Server |->
                     IF Takes(s, r) THEN [server[s] EXCEPT !.next_timeout = 0]
                     ELSE server[s]]
    /\ UNCHANGED pulse

Dormant == {"wait_for_server_init", "idle", "failed"}

\* pcp_flow_updated on the flows of fs: the flow record, and their servers.
pcp_flow_updated(f) ==
    [f EXCEPT !.buf = NoBuf,
              !.timeout = 0,
              !.state = IF @ \in Dormant THEN @ ELSE "send"]

\* Mutant: the server's timer is left alone.
Wake_no(fs) == UNCHANGED server

Wake(fs) == server' = [s \in Server |->
                IF InUse(s) /\ \E f \in fs : ServerOf(f) = s
                THEN [server[s] EXCEPT !.next_timeout = 0] ELSE server[s]]

pcp_flow_set_lifetime(r, life) ==
    /\ Call("set_lifetime")
    /\ ChainOf(r) # {}
    /\ flow' = [f \in Flow |->
                   IF f \in ChainOf(r)
                   THEN [pcp_flow_updated(flow[f]) EXCEPT !.lifetime = life]
                   ELSE flow[f]]
    /\ Wake(ChainOf(r))
    /\ UNCHANGED pulse

\* The setters of an option, which is not part of the model.
pcp_flow_set_opt(r) ==
    /\ Call("set_opt")
    /\ ChainOf(r) # {}
    /\ flow' = [f \in Flow |-> IF f \in ChainOf(r) THEN pcp_flow_updated(flow[f])
                               ELSE flow[f]]
    /\ Wake(ChainOf(r))
    /\ UNCHANGED pulse

\* pcp_close_flow_intern leaves the timer of a dormant flow alone.
pcp_close_flow_intern(f) ==
    IF f.state \in Dormant THEN [f EXCEPT !.state = "failed"]
    ELSE [pcp_flow_updated(f) EXCEPT !.lifetime = 0]

CloseAll(fs) ==
    /\ flow' = [f \in Flow |-> IF f \in fs THEN pcp_close_flow_intern(flow[f])
                               ELSE flow[f]]
    /\ Wake({f \in fs : flow[f].state \notin Dormant})

pcp_close_flow(r) ==
    /\ Call("close_flow")
    /\ ChainOf(r) # {}
    /\ CloseAll(ChainOf(r))
    /\ pulse' = [pulse EXCEPT !.at = "poll"]

\* Mutant: the server keeps the pointer to the freed flow.
pcp_delete_flow_dangling(r) ==
    /\ Call("delete_flow")
    /\ ChainOf(r) # {}
    /\ flow' = [f \in Flow |-> IF f \in ChainOf(r) THEN AbsentFlow ELSE flow[f]]
    /\ UNCHANGED <<server, pulse>>

\* pcp_delete_flow_intern takes the flow out of its server's ping_flow_msg.
pcp_delete_flow(r) ==
    /\ Call("delete_flow")
    /\ ChainOf(r) # {}
    /\ flow' = [f \in Flow |-> IF f \in ChainOf(r) THEN AbsentFlow ELSE flow[f]]
    /\ server' = [s \in Server |->
                     IF InUse(s) /\ server[s].ping_flow_msg \in ChainOf(r)
                     THEN [server[s] EXCEPT !.ping_flow_msg = NoFlow]
                     ELSE server[s]]
    /\ UNCHANGED pulse

\* Deleting all flows and freeing the servers leaves a context with nothing
\* in it; closing the flows takes a pulse before that.
Free == /\ flow' = [f \in Flow |-> AbsentFlow]
        /\ server' = [s \in Server |-> UnusedServer]
        /\ pulse' = Rest

pcp_terminate(close_flows) ==
    /\ Call("terminate")
    /\ IF close_flows
       THEN /\ CloseAll({f \in Flow : Live(f)})
            /\ pulse' = [pulse EXCEPT !.at = "poll", !.then = "terminate"]
       ELSE Free

pcp_terminate_end ==
    /\ pulse.at = "scan" /\ pulse.s = NServers /\ ~Due(pulse.s)
    /\ pulse.then = "terminate"
    /\ Free

-----------------------------------------------------------------------------
(* Time.  Whether a timer fires now or fired earlier is never told apart,   *)
(* so it stays at 0; whether a lifetime has ended is, so it goes to -1.     *)

AgeTimer(t) == IF t = NoTimer \/ t <= 0 THEN t ELSE t - 1
AgeLife(t)  == IF t < 0 THEN t ELSE t - 1

Tick ==
    /\ AtRest \/ SlowPulse
    /\ Prompt /\ AtRest => \A s \in Server : ~Due(s)
    /\ flow' = [f \in Flow |-> [flow[f] EXCEPT
                   !.timeout = AgeTimer(@), !.recv_lifetime = AgeLife(@)]]
    /\ server' = [s \in Server |-> [server[s] EXCEPT !.next_timeout = AgeTimer(@)]]
    /\ UNCHANGED pulse

-----------------------------------------------------------------------------
Init == /\ flow = [f \in Flow |-> AbsentFlow]
        /\ server = [s \in Server |-> UnusedServer]
        /\ pulse = Rest

Pulse == \/ \E s \in Server, m \in Answers : pcp_pulse_recv(s, m)
         \/ pcp_pulse_no_msg
         \/ hserver_iter
         \/ hserver_next
         \/ pcp_terminate_end

API == \/ \E gws \in UNION {[1 .. n -> BOOLEAN] : n \in Server} : pcp_init(gws)
       \/ \E s \in Server, v \in AddVersions, ok \in BOOLEAN : pcp_add_server(s, v, ok)
       \/ \E r \in Request, life \in Lifetimes :
              pcp_new_flow(r, life) \/ pcp_flow_set_lifetime(r, life)
       \/ \E r \in Request : pcp_flow_set_opt(r) \/ pcp_close_flow(r) \/ pcp_delete_flow(r)
       \/ \E close_flows \in BOOLEAN : pcp_terminate(close_flows)

Next == Pulse \/ API \/ Tick

Spec == Init /\ [][Next]_vars

\* The application keeps calling pcp_pulse, as the select loop in pcpnatpmp.h
\* does, and the clock keeps moving.  Some step of Pulse is possible in every
\* state (a poll that finds nothing starts one), so the first conjunct is weak
\* fairness of Pulse, in a form that needs no ENABLED.
Fairness == []<><<Pulse>>_vars /\ SF_vars(Tick)
FairSpec == Spec /\ Fairness

-----------------------------------------------------------------------------
(* Properties.                                                              *)

\* Every field keeps to its C type and to the values the code gives it.
TypeOK == /\ flow \in [Flow -> FlowRec]
          /\ server \in [Server -> ServerRec]
          /\ pulse \in PulseRec

Transient == {"version_negotiation", "send_all_msgs", "wait_io_calc_nearest_timeout",
              "server_restart", "server_reping", "set_not_working"}

\* A server is in a state that only leads on to another one (server_sm calls
\* its handler for any event) only inside a pulse that is serving this very
\* server, with its timer due: hserver_iter cannot return before it has left it.
TransientIsServed ==
    \A s \in Server : server[s].state \in Transient =>
        /\ pulse.at \in {"io", "scan"}
        /\ pulse.s = s
        /\ Due(s)

\* restart_flow_msg is set only between the answer that reveals a restart and
\* handle_server_restart, and then it points to a flow of this server that exists.
RestartMarkIsLive ==
    \A s \in Server : server[s].restart_flow_msg # NoFlow =>
        /\ server[s].state = "server_restart"
        /\ server[s].restart_flow_msg \in FlowsOf(s)

\* Wherever a handler may dereference ping_flow_msg it is NULL or points to a
\* flow of this server that has not been deleted.
PingFlowIsLive ==
    \A s \in Server :
        \/ server[s].state \in {"uninitialized", "allocated", "ping"}
        \/ server[s].ping_flow_msg \in FlowsOf(s) \cup {NoFlow}

\* While a server waits for the answer to a ping, the flow it was pinged with
\* is under way, asked to be sent again, or given up: nothing else has happened
\* to it, neither through another server's sweep nor through an API call.
PingFlowWaits ==
    \A s \in Server :
        server[s].state = "wait_ping_resp" /\ server[s].ping_flow_msg # NoFlow =>
            flow[server[s].ping_flow_msg].state \in {"wait_resp", "send", "failed"}

\* A server that waits for an answer to a ping, or for the end of the retry
\* delay, has a timer: next_timeout, which doubles as "none", is not {0, 0}.
WaitingServerHasTimer ==
    \A s \in Server : server[s].state \in {"wait_ping_resp", "not_working"} =>
        server[s].next_timeout # NoTimer

\* A flow that an API call has put in pfs_send is not forgotten: its timer is
\* due, and so is its server if that server is up.
UpdateIsScheduled ==
    \A f \in Flow : flow[f].state = "send" =>
        /\ Expired(flow[f].timeout)
        /\ server[ServerOf(f)].state = "wait_io" => Due(ServerOf(f))

\* handle_flow_event never returns with a flow in pfs_idle or pfs_send_renew.
NoFlowMidway == \A f \in Flow : flow[f].state \notin {"idle", "send_renew"}

\* A server that has fallen back to NAT-PMP waits for the answer to an ANNOUNCE,
\* the only request whose answer carries the external address.
FallbackPingsWithAnnounce ==
    \A s \in Server :
        server[s].state = "wait_ping_resp" /\ server[s].pcp_version = 0
          /\ server[s].ping_flow_msg # NoFlow
            => FlowOp(server[s].ping_flow_msg) = "announce"

\* The timer of a server that is up is no later than that of any of its flows
\* that still acts on its timer: pcp_pulse returns the nearest time-out.
TimerCoversFlows ==
    AtRest =>
    \A s \in Server : server[s].state = "wait_io" =>
        \A f \in FlowsOf(s) :
            flow[f].state \notin Dormant /\ flow[f].timeout # NoTimer =>
                /\ server[s].next_timeout # NoTimer
                /\ server[s].next_timeout <= flow[f].timeout

\* A flow that is reported as succeeded was granted a mapping whose lifetime is
\* not over, and has a timer for its renewal: the renewals come in time.
MappingIsAlive ==
    AtRest =>
    \A f \in Flow : flow[f].state = "wait_for_lifetime_renew" =>
        flow[f].recv_lifetime > 0 /\ flow[f].timeout # NoTimer

\* A message buffer outlives handle_flow_event only on the flow whose answer
\* revealed a restart and whose due renewal then could not be sent: the flow stays
\* due, so that the sweep of the same pulse sends the buffer, and it is still in
\* the version of the server.  No message is sent in a version given up since.
BufferIsFreed ==
    \A f \in Flow : flow[f].buf # NoBuf =>
        /\ server[ServerOf(f)].state = "wait_io_calc_nearest_timeout"
        /\ flow[f].state = "wait_for_lifetime_renew"
        /\ Expired(flow[f].timeout)
        /\ flow[f].buf = server[ServerOf(f)].pcp_version

\* No message is outstanding on a server that is disabled.
DisabledIsQuiet ==
    \A s \in Server : server[s].state = "not_working" =>
        \A f \in FlowsOf(s) : flow[f].state # "wait_resp"

\* The comment on handle_server_ping in server_sm: a ping leads to
\* wait_ping_resp or to set_not_working.
PingLeadsOn ==
    [][LET s == pulse.s
       IN  pulse.at \in {"io", "scan"} /\ pulse' = pulse /\ server[s].state = "ping"
             => server'[s].state \in {"wait_ping_resp", "set_not_working"}]_vars

\* pcp_pulse returns.
PulseReturns == ~AtRest ~> AtRest

\* A ping is answered, retried a bounded number of times or given up.
ProbeEnds ==
    \A s \in Server : server[s].state = "wait_ping_resp"
                        ~> server[s].state # "wait_ping_resp"

\* A disabled server is tried again (or answers, or is removed).
DisabledIsRetried ==
    \A s \in Server : server[s].state = "not_working" ~> server[s].state # "not_working"

\* A request on a server that can be reached gets a result or is deleted.
Settled(f) == flow[f].state \in {"absent", "wait_for_lifetime_renew", "failed",
                                 "wait_after_short_life_error"}
RequestSettles ==
    \A f \in Flow :
        flow[f].state = "wait_for_server_init" /\ server[ServerOf(f)].state # "allocated"
            ~> Settled(f)

=============================================================================
