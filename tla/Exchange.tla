------------------------------ MODULE Exchange ------------------------------
(***************************************************************************)
(* The client of PcpClient and a server, joined by the messages of PcpMsg: *)
(* what the client sends is what build_pcp_msg makes of the flow and of    *)
(* the version the client has for the server at that moment, and what it   *)
(* receives is what parse_response makes of the server's answer.  The      *)
(* servers hold no state but their version, so one bag stands for requests *)
(* and answers in flight.                                                  *)
(***************************************************************************)
EXTENDS PcpClient, Bags, FiniteSets

CONSTANTS Zero, Garbage, NatPmp,
          Peers,        \* the kinds of server: a version, or NatPmp
          MaxNet,       \* bound: messages in flight; a further one is lost
          Patient,      \* whether the application leaves a server that is being
                        \* pinged alone
          Late          \* whether a message may be in flight for longer than the
                        \* retransmission timer runs

VARIABLES net,          \* the messages in flight
          peer,         \* the kind of the server
          lossy         \* whether the network loses messages

world == <<peer, lossy>>
xvars == <<flow, server, pulse, net, peer, lossy>>

W == INSTANCE TestReply

\* What build_pcp_msg reads of a flow.
FlowData(f) ==
    [op |-> FlowOp(f), protocol |-> W!TCP, src_port |-> f[1],
     dst |-> IF FlowOp(f) = "peer" THEN "dst" ELSE Zero,
     nonce |-> "nonce", ext |-> Zero, opts |-> {}, md |-> <<>>, name |-> 0]

\* The answer the client gets for a request that left in version v.
Reply(f, v) ==
    LET req == W!build_pcp_msg(FlowData(f), v)
    IN  W!Received(IF peer = NatPmp THEN W!NatPmpRespond(req)
                   ELSE W!Respond(req, peer, "computed"), "nonce")

\* The flow of server s that the key of an answer names.
Named(s, key) ==
    LET fs == {f \in Request \X {s} : W!KeyOf(FlowData(f)) = key}
    IN  IF fs = {} THEN NoFlow ELSE CHOOSE f \in fs : TRUE

AnswerTo(q) ==
    LET p == Reply(q.f, q.v)
    IN  [key |-> Named(ServerOf(q.f), p.key), announce |-> p.key.op = 0,
         version |-> p.version, result |-> p.result, lifetime |-> q.life, epoch |-> 1]

-----------------------------------------------------------------------------
\* The flows that a step of the client has sent: they have changed and wait
\* for an answer, or they are the ones the negotiated version is tried with.
Sent == {f \in Flow :
            LET s == ServerOf(f)
            IN  \/ flow'[f] # flow[f]
                   /\ flow'[f].state \in {"wait_resp", "wait_for_lifetime_renew"}
                \/ /\ server[s].state = "version_negotiation"
                   /\ server'[s].state = "wait_ping_resp"
                   /\ server'[s].ping_flow_msg = f}

\* NAT-PMP has no message for a PEER flow: nothing leaves.
Messages == {[f |-> f, v |-> server'[ServerOf(f)].pcp_version, life |-> flow'[f].lifetime] :
                f \in {g \in Sent : W!build_pcp_msg(FlowData(g),
                                      server'[ServerOf(g)].pcp_version).len > 0}}

Client == /\ hserver_iter
          /\ net' = IF BagCardinality(net) + Cardinality(Messages) > MaxNet THEN net
                    ELSE net (+) SetToBag(Messages)
          /\ UNCHANGED world

Quiet == /\ \/ pcp_pulse_no_msg
            \/ hserver_next
            \/ \E s \in Server, v \in AddVersions : ~InUse(s) /\ pcp_add_server(s, v, TRUE)
            \/ \E r \in Request, life \in Lifetimes :
                  /\ Patient => \A s \in Server : server[s].state # "wait_ping_resp"
                  /\ pcp_new_flow(r, life)
         /\ UNCHANGED <<net, world>>

\* One message arrives, as the answer to it; what the client cannot parse is
\* read and dropped.
Deliver(q) ==
    /\ net' = net (-) SetToBag({q})
    /\ IF Reply(q.f, q.v).ok THEN pcp_pulse_recv(ServerOf(q.f), AnswerTo(q))
       ELSE pcp_pulse_no_msg
    /\ UNCHANGED world

Lose(q) == /\ lossy
           /\ net' = net (-) SetToBag({q})
           /\ UNCHANGED <<flow, server, pulse, world>>

\* Unless answers may be late, one that is not lost comes before the
\* retransmission timer runs out.
Wait == /\ Late \/ BagToSet(net) = {}
        /\ Tick
        /\ UNCHANGED <<net, world>>

XInit == Init /\ net = EmptyBag /\ peer \in Peers /\ lossy \in BOOLEAN

XNext == \/ Client \/ Quiet \/ Wait
         \/ \E q \in BagToSet(net) : Deliver(q) \/ Lose(q)

XSpec == XInit /\ [][XNext]_xvars

Arrival == \E q \in BagToSet(net) : Deliver(q)

\* The application keeps pulsing, the clock moves on, and every message in
\* flight arrives or is lost.
XFairness == /\ []<><<Client \/ Quiet \/ Arrival>>_xvars
             /\ SF_xvars(Wait)
             /\ []<>(net = EmptyBag)

-----------------------------------------------------------------------------
\* Version negotiation stops at the version of the server: the client is
\* never below it.  (handle_version_negotiation; the test of version
\* negotiation asserts it.)  It holds for an application that is Patient and
\* answers that are not Late.  Otherwise a version is refused twice, and
\* handle_version_negotiation, which compares next_version with the version the
\* client has by now, takes the second refusal for one of that version.
VersionIsServed ==
    \A s \in Server : InUse(s) /\ peer # NatPmp => server[s].pcp_version >= peer

\* A request that reaches a server on a network that loses nothing ends up as
\* a mapping, whatever version the server speaks: negotiation converges and
\* the answers find their flows.  NAT-PMP cannot serve a PEER flow.  Like the
\* property before it this one is about a Patient application and answers that
\* are not Late.
RequestIsMapped ==
    \A f \in Request \X Server :
        (Live(f) /\ ~lossy /\ ~(peer = NatPmp /\ FlowOp(f) = "peer"))
            ~> flow[f].state = "wait_for_lifetime_renew"
=============================================================================
