------------------------------ MODULE Gateways -------------------------------
(***************************************************************************)
(* getgateways of lib/src/net/gateway.c, for the three systems it knows:   *)
(* a netlink dump read datagram by datagram into a buffer of fixed size,   *)
(* the forward table of Windows, and the sysctl dump of the BSDs. Every    *)
(* call to the system may fail.                                            *)
(*                                                                         *)
(* A route of the dump takes RouteSize units of the buffer, so a datagram  *)
(* may be cut in the middle of a route.                                    *)
(***************************************************************************)
EXTENDS Integers, Sequences, FiniteSets

CONSTANTS BUFSIZE,      \* the buffer, in units
          RouteSize,    \* a route of the dump, in units
          Routes,       \* the routes a system may have: family, whether the
                        \* main table has it, and gateway
          MaxRoutes     \* bound on the routes of a system

DoneSize  == 1          \* NLMSG_DONE, in units
NoGateway == "none"     \* the gw of a route without; "any" is unspecified

ASSUME BufferAssumption == BUFSIZE \in Nat /\ RouteSize \in Nat \ {0} /\ MaxRoutes \in Nat

System == {"netlink", "win32", "bsd"}

SEND_FAILED == -4
RECV_FAILED == -5
NO_MEM      == -7
UNKNOWN     == -9

VARIABLES sys, gpc,
          queue,     \* netlink: the routes the kernel has still to give
          routes,    \* all routes of the system, in order
          msgBuf,    \* the routes read
          msgLen,    \* in units
          gws,       \* the list so far
          held,      \* what is allocated or open
          gret       \* what getgateways returns

gatewayvars == <<sys, gpc, queue, routes, msgBuf, msgLen, gws, held, gret>>

End(r, h)  == gpc' = "done" /\ gret' = r /\ held' = h
SameRoutes == UNCHANGED <<sys, queue, routes>>

-----------------------------------------------------------------------------
\* socket, and send of the request.
NetlinkOpen ==
    /\ gpc = "start" /\ sys = "netlink"
    /\ \/ End(UNKNOWN, {})
       \/ End(SEND_FAILED, {})
       \/ gpc' = "read" /\ held' = {"socket"} /\ UNCHANGED gret
    /\ SameRoutes /\ UNCHANGED <<msgBuf, msgLen, gws>>

\* Every way out closes the socket.
recv_failed == End(RECV_FAILED, {})

\* How many of n routes fit into the rest of the buffer.
Fit(n, room) == IF RouteSize * n <= room THEN n ELSE room \div RouteSize

\* recv of a datagram with the next n routes: what fits of it is in the buffer.
Recv(n, room) ==
    /\ msgBuf' = msgBuf \o SubSeq(queue, 1, Fit(n, room))
    /\ msgLen' = msgLen + IF RouteSize * n <= room THEN RouteSize * n ELSE room
    /\ queue' = SubSeq(queue, n + 1, Len(queue))

\* Mutant: the sequence number of the answer matches the one it is compared with.
readNlSock_match(room) ==
    /\ gpc' = "parse"
    /\ IF queue = <<>> THEN UNCHANGED <<queue, msgBuf, msgLen>>
       ELSE \E n \in 1..Len(queue) : Recv(n, room)
    /\ UNCHANGED <<held, gret>>

\* recv into the rest of the buffer, and the first header of what it gave; a
\* kernel with no route left gives NLMSG_DONE. The answer has the number of the
\* request, one less than seqNum: the loop goes on to NLMSG_DONE.
readNlSock(room) ==
    IF queue = <<>>
    THEN /\ IF room >= DoneSize THEN gpc' = "parse" /\ UNCHANGED <<held, gret>>
            ELSE recv_failed
         /\ UNCHANGED <<queue, msgBuf, msgLen>>
    ELSE /\ IF room >= RouteSize THEN UNCHANGED <<gpc, held, gret>> ELSE recv_failed
         /\ \E n \in 1..Len(queue) : Recv(n, room)

NetlinkRead ==
    /\ gpc = "read"
    /\ \/ recv_failed /\ UNCHANGED <<queue, msgBuf, msgLen>>
       \/ readNlSock(BUFSIZE - msgLen)
    /\ UNCHANGED <<sys, routes, gws>>

\* The forward table of Windows; the array has room for all of it.
Win32Open ==
    /\ gpc = "start" /\ sys = "win32"
    /\ \/ End(UNKNOWN, {}) /\ UNCHANGED msgBuf
       \/ End(NO_MEM, {"table"}) /\ UNCHANGED msgBuf
       \/ gpc' = "parse" /\ held' = {"table"} /\ msgBuf' = routes /\ UNCHANGED gret
    /\ SameRoutes /\ UNCHANGED <<msgLen, gws>>

\* net_rt_dump: sysctl for the size, malloc, sysctl for the routes.
BsdOpen ==
    /\ gpc = "start" /\ sys = "bsd"
    /\ \/ End(UNKNOWN, {}) /\ UNCHANGED msgBuf
       \/ End(UNKNOWN, {"buf"}) /\ UNCHANGED msgBuf
       \/ gpc' = "parse" /\ held' = {"buf"} /\ msgBuf' = routes /\ UNCHANGED gret
    /\ SameRoutes /\ UNCHANGED <<msgLen, gws>>

-----------------------------------------------------------------------------
\* Whether a route gives a gateway, on each system.
Inet(r) == r.fam \in {"v4", "v6"}

IsGateway(r) ==
    /\ Inet(r)
    /\ CASE sys = "netlink" -> r.main /\ r.gw # NoGateway
         [] sys = "win32"   -> r.gw \notin {NoGateway, "any"}
         [] sys = "bsd"     -> r.gw # NoGateway

\* The array grows by one on netlink and BSD, and may not get the memory; BSD
\* makes room before it looks at the family.
Grows(r) == \/ sys = "netlink" /\ IsGateway(r)
            \/ sys = "bsd" /\ r.gw # NoGateway

ParseRoute ==
    /\ gpc = "parse" /\ msgBuf # <<>>
    /\ msgBuf' = Tail(msgBuf)
    /\ \/ /\ IsGateway(Head(msgBuf))
          /\ gws' = Append(gws, Head(msgBuf).gw)
          /\ UNCHANGED <<gpc, held, gret>>
       \/ /\ Grows(Head(msgBuf))
          /\ gws' = <<>>
          /\ End(NO_MEM, {})
       \/ /\ ~IsGateway(Head(msgBuf))
          /\ UNCHANGED <<gpc, gws, held, gret>>
    /\ SameRoutes /\ UNCHANGED msgLen

\* close, FreeMibTable or free.
Finish ==
    /\ gpc = "parse" /\ msgBuf = <<>>
    /\ End(Len(gws), {})
    /\ SameRoutes /\ UNCHANGED <<msgBuf, msgLen, gws>>

\* A call of getgateways, on any system and with any routes.
getgateways ==
    /\ gpc = "idle"
    /\ gpc' = "start" /\ sys' \in System
    /\ routes' \in UNION {[1..n -> Routes] : n \in 0..MaxRoutes}
    /\ queue' = routes'
    /\ UNCHANGED <<msgBuf, msgLen, gws, held, gret>>

GatewayInit ==
    /\ sys = "netlink" /\ gpc = "idle"
    /\ queue = <<>> /\ routes = <<>>
    /\ msgBuf = <<>> /\ msgLen = 0 /\ gws = <<>> /\ held = {} /\ gret = 0

GatewayNext == \/ getgateways \/ NetlinkOpen \/ NetlinkRead \/ Win32Open \/ BsdOpen
               \/ ParseRoute \/ Finish

GatewaySpec == GatewayInit /\ [][GatewayNext]_gatewayvars

-----------------------------------------------------------------------------
Ended == gpc = "done"

\* How many of the first n routes give a gateway.
GatewaysIn(n) == Cardinality({j \in 1..n : IsGateway(routes[j])})

\* The list is complete and in the order of the routes, or there is none: a
\* routing table that does not fit the buffer gives an error, not the gateways
\* that happened to fit.
CompleteOrNone ==
    Ended =>
        IF gret < 0 THEN gws = <<>>
        ELSE /\ gret = Len(gws) /\ gret = GatewaysIn(Len(routes))
             /\ \A i \in 1..Len(routes) :
                    IsGateway(routes[i]) => gws[GatewaysIn(i)] = routes[i].gw

\* Nothing stays open or allocated, but for two error paths: the table when
\* calloc fails on Windows, and the buffer when the second sysctl fails.
Released ==
    Ended =>
        \/ held = {}
        \/ sys = "win32" /\ gret = NO_MEM
        \/ sys = "bsd" /\ gret = UNKNOWN

\* getgateways ends with the whole list or none, and with what it took released.
EndsWhole == CompleteOrNone /\ Released
=============================================================================
