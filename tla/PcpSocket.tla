------------------------------ MODULE PcpSocket ------------------------------
(***************************************************************************)
(* The socket of a context, lib/src/net/pcp_socket.c, between pcp_init and *)
(* pcp_terminate (lib/src/pcp_api.c): its creation, which may fail at any  *)
(* call, the search for a port, the loop of pcp_flow_send_msg that hands a *)
(* message over in parts, and the end of the context.                      *)
(***************************************************************************)
EXTENDS Naturals, Sequences, FiniteSets

CONSTANTS PortCount,    \* 2^16
          FirstPort,    \* 5350
          MsgLen        \* the length of a message

ASSUME SocketAssumption ==
    /\ PortCount \in Nat \ {0} /\ FirstPort \in 1..(PortCount - 1)
    /\ MsgLen \in Nat \ {0}

Port == 0..(PortCount - 1)

VARIABLES ctx,      \* "none", "init", "ready", or "terminated"
          sock,     \* "none", "open" or "bound"
          port,     \* the port tried or bound
          busy,     \* the ports of other sockets
          buf,      \* the message buffer of a flow: how much is to be sent
          wire      \* the bytes of the message that were handed over

socketvars == <<ctx, sock, port, busy, buf, wire>>
Flow == <<buf, wire>>

-----------------------------------------------------------------------------
\* pcp_init: calloc, then pcp_socket_create_impl; other sockets hold any ports,
\* all of them included.
pcp_init ==
    /\ ctx \in {"none", "terminated"}
    /\ busy' \in SUBSET (Port \ {0})
    /\ \/ ctx' = "init" /\ sock' = "open" /\ port' = FirstPort
       \/ ctx' = "none" /\ UNCHANGED <<sock, port>>    \* socket() fails
    /\ UNCHANGED Flow

\* fcntl or setsockopt fails, or bind does for another reason than a port in use:
\* the socket is closed and pcp_init returns NULL. The failure of IP_PKTINFO is
\* only logged.
Refused ==
    /\ ctx = "init"
    /\ ctx' = "none" /\ sock' = "none"
    /\ UNCHANGED <<port, busy, Flow>>

\* htons(ntohs(sin6_port) + 1): 16 bits.
NextPort(p) == (p + 1) % PortCount

\* The ports bind can give to a socket that asks for p: any for 0, where the
\* kernel chooses.
Granted(p) == (IF p = 0 THEN Port \ {0} ELSE {p}) \ busy

\* EADDRINUSE, for port 0 when none is left, and the next port is tried.
Bind ==
    /\ ctx = "init"
    /\ \/ /\ Granted(port) = {}
          /\ port' = NextPort(port)
          /\ UNCHANGED <<ctx, sock>>
       \/ /\ port' \in Granted(port)
          /\ ctx' = "ready" /\ sock' = "bound"
    /\ UNCHANGED <<busy, Flow>>

-----------------------------------------------------------------------------
\* build_pcp_msg and the first part of pcp_flow_send_msg.
BuildMsg ==
    /\ ctx = "ready" /\ buf = 0
    /\ buf' = MsgLen /\ wire' = <<>>
    /\ UNCHANGED <<ctx, sock, port, busy>>

\* Mutant: every part starts at the beginning of the buffer.
SendTo_again(n) == wire' = wire \o [i \in 1..n |-> i] /\ buf' = buf - n

\* One pass of the loop: sock_sendto takes n of the bytes that are left, from
\* pcp_msg_buffer + pcp_msg_len - to_send_count.
SendTo(n) == wire' = wire \o [i \in 1..n |-> MsgLen - buf + i] /\ buf' = buf - n

pcp_flow_send_msg ==
    /\ ctx = "ready" /\ buf > 0
    /\ \E n \in 1..buf : SendTo(n)
    /\ UNCHANGED <<ctx, sock, port, busy>>

\* sock_sendto fails: PCP_ERR_SEND_FAILED; the buffer is built again or freed.
SendFailed ==
    /\ ctx = "ready" /\ buf > 0
    /\ buf' = 0 /\ wire' = <<>>
    /\ UNCHANGED <<ctx, sock, port, busy>>

\* pcp_terminate: flows and servers are freed, the socket is closed.
pcp_terminate ==
    /\ ctx = "ready"
    /\ ctx' = "terminated" /\ sock' = "none"
    /\ buf' = 0 /\ wire' = <<>>
    /\ UNCHANGED <<port, busy>>

SocketInit == /\ ctx = "none" /\ sock = "none" /\ port = 0 /\ busy = {}
              /\ buf = 0 /\ wire = <<>>

SocketNext == \/ pcp_init \/ Refused \/ Bind
              \/ BuildMsg \/ pcp_flow_send_msg \/ SendFailed
              \/ pcp_terminate

SocketSpec == SocketInit /\ [][SocketNext]_socketvars

\* pcp_init runs to its end.
SocketFairness == WF_socketvars(Bind)

-----------------------------------------------------------------------------
\* Without a context there is no socket: whatever fails in pcp_init, and after
\* pcp_terminate, it is closed.
NoSocketLeaks == (sock = "none") <=> (ctx \in {"none", "terminated"})

\* What was handed over when the loop ends is the message, once and in order.
MessageIsWhole ==
    ctx = "ready" /\ buf = 0 /\ wire # <<>> => wire = [i \in 1..MsgLen |-> i]

\* The search for a port ends if there is a free one, also when every port from
\* the first one up is taken: the 16 bits wrap to port 0. With none left it goes
\* round for ever.
BindEnds == (ctx = "init" /\ Port \ {0} # busy) ~> ctx # "init"
=============================================================================
