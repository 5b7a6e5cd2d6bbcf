----------------------------- MODULE Net_proofs ------------------------------
(***************************************************************************)
(* Proofs about what lies between the library and the network. Addressing, *)
(* for any addresses and interfaces: an answer finds its flow. Gateways,   *)
(* for any routes and any sizes of buffer and route: the table is whole or *)
(* there is none. PcpSocket, the socket of a context, for any number of    *)
(* ports and any message length.                                           *)
(***************************************************************************)
EXTENDS PcpSocket, Gateways, Addressing, FiniteSetTheorems, SequenceTheorems, TLAPS

(* The addresses of a flow and of its answer.                               *)

\* The key of a flow has a source of the host with the scope of the server, and
\* an answer arrives on the interface of that scope.
KeyFits ==
    /\ kd \in [ip : Ip \ AnyAddr, scope : Interfaces \cup {0}]
    /\ kd.scope = dest.scope /\ kd.scope \in ScopeIds(kd.ip)

AddressInv ==
    /\ PktInfo \in SUBSET PktInfos
    /\ leg \in {"idle", "start", "flow", "answered", "received", "unknown_server"}
    /\ leg # "idle" => dest \in Servers
    /\ leg \notin {"idle", "start"} => KeyFits
    /\ leg = "answered" =>
          \E i \in Interfaces :
              /\ dest.scope \in {0, i}
              /\ reply = [from |-> dest.ip, to |-> pcp_socket_sendto_impl, on |-> i]
    /\ AnswerFindsItsFlow

\* An address that has the scope id of a server has it again on any interface
\* that the server's answer arrives on.
LEMMA SameScope ==
    ASSUME NEW ip \in Ip, NEW sc \in ScopeIds(ip), NEW i \in Interfaces, sc \in {0, i}
    PROVE  KernelScope(ip, i) = sc
<1>1. PICK j \in Interfaces : sc = KernelScope(ip, j)
  BY DEF ScopeIds
<1>2. j # 0 /\ i # 0
  BY AddressAssumption
<1>. QED
  BY <1>1, <1>2 DEF KernelScope

\* pcp_fill_in6_addr keeps the address and the scope of a sockaddr.
LEMMA FilledIn ==
    ASSUME NEW a \in Sockaddr
    PROVE  /\ pcp_fill_in6_addr(a) = [ip |-> a.ip, scope |-> a.scope]
           /\ a.ip \in Ip /\ a.scope \in Interfaces \cup {0} /\ a.scope \in ScopeIds(a.ip)
<1>1. /\ a.ip \in Ip /\ a.scope \in Interfaces \cup {0} /\ a.scope \in ScopeIds(a.ip)
      /\ a.af = AF(a.ip)
  BY DEF Sockaddr
<1>2. CASE a.ip \in Inet4
  <2>1. a.ip \notin LinkLocal
    BY <1>2, AddressAssumption
  <2>2. a.scope = 0
    BY <1>1, <2>1 DEF ScopeIds, KernelScope
  <2>. QED
    BY <1>1, <1>2, <2>2 DEF pcp_fill_in6_addr, AF
<1>3. CASE a.ip \notin Inet4
  BY <1>1, <1>3 DEF pcp_fill_in6_addr, AF
<1>. QED
  BY <1>2, <1>3

\* pcp_new_flow goes to the servers with an address and a scope of its own.
LEMMA SourceFits ==
    ASSUME NEW src \in Sockaddr, NEW to \in Ip \cup {NoAddress}, NEW from \in Sources(src, to)
    PROVE  from \in [ip : Ip, scope : Interfaces \cup {0}] /\ from.scope \in ScopeIds(from.ip)
<1>1. \E a \in Sockaddr : from = pcp_fill_in6_addr(a)
  <2>1. from = pcp_fill_in6_addr(src) \/ from \in findsaddr(to)
    BY DEF Sources
  <2>. QED
    BY <2>1 DEF findsaddr
<1>2. PICK a \in Sockaddr : from = pcp_fill_in6_addr(a)
  BY <1>1
<1>. QED
  BY <1>2, FilledIn

\* The invariant is inductive.
LEMMA NextAddress == AddressInv /\ [AddressNext]_addressvars => AddressInv'
<1>. SUFFICES ASSUME AddressInv, [AddressNext]_addressvars PROVE AddressInv'
  OBVIOUS
<1>. USE DEF AddressInv
<1>1. ASSUME NEW src \in Sockaddr, NEW to \in Ip \cup {NoAddress}, NewFlow_key(src, to)
      PROVE  AddressInv'
  <2>1. PICK from \in Sources(src, to) :
            /\ Assigned(from).scope = dest.scope
            /\ kd' = Assigned(from)
    BY <1>1 DEF NewFlow_key
  <2>2. /\ leg = "start" /\ leg' = "flow"
        /\ PktInfo' = PktInfo /\ dest' = dest /\ dest \in Servers
    BY <1>1 DEF NewFlow_key
  <2>3. from \in [ip : Ip, scope : Interfaces \cup {0}] /\ from.scope \in ScopeIds(from.ip)
    BY SourceFits
  <2>4. /\ dest.src \in Ip \ AnyAddr /\ dest.scope \in Interfaces \cup {0}
        /\ dest.scope \in ScopeIds(dest.src)
    BY <2>2 DEF Servers
  <2>5. KeyFits'
    BY <2>1, <2>2, <2>3, <2>4 DEF KeyFits, Assigned, ScopeIds, KernelScope
  <2>. QED
    BY <2>2, <2>5 DEF AnswerFindsItsFlow
<1>2. CASE Answered
  <2>1. /\ leg = "flow" /\ leg' = "answered"
        /\ UNCHANGED <<PktInfo, dest, kd, rkey>>
    BY <1>2 DEF Answered
  <2>2. KeyFits'
    BY <2>1 DEF KeyFits, ScopeIds, KernelScope
  <2>3. \E i \in Interfaces :
            /\ dest.scope \in {0, i}
            /\ reply' = [from |-> dest.ip, to |-> pcp_socket_sendto_impl, on |-> i]
    BY <1>2 DEF Answered
  <2>4. pcp_socket_sendto_impl' = pcp_socket_sendto_impl
    BY <2>1 DEF pcp_socket_sendto_impl
  <2>. QED
    BY <2>1, <2>2, <2>3, <2>4 DEF AnswerFindsItsFlow
<1>3. CASE Received
  <2>1. leg = "answered" /\ UNCHANGED <<PktInfo, dest, kd, reply>>
    BY <1>3 DEF Received
  <2>2. KeyFits /\ KeyFits' /\ dest \in Servers
    BY <2>1 DEF KeyFits, ScopeIds, KernelScope
  <2>3. PICK i \in Interfaces :
            /\ dest.scope \in {0, i}
            /\ reply = [from |-> dest.ip, to |-> pcp_socket_sendto_impl, on |-> i]
    BY <2>1
  <2>4. dest.ip \in Ip /\ dest.scope \in ScopeIds(dest.ip)
    BY <2>2 DEF Servers
  <2>5. KernelScope(dest.ip, i) = dest.scope
    BY <2>3, <2>4, SameScope
  <2>6. KernelScope(kd.ip, i) = kd.scope
    BY <2>2, <2>3, SameScope DEF KeyFits
  <2>7. /\ leg' = "received"
        /\ rkey' = LET t == pcp_fill_in6_addr(rcvd_to_addr(pcp_socket_sendto_impl, i))
                   IN  IF t.ip \in AnyAddr THEN [ip |-> dest.src, scope |-> dest.scope] ELSE t
    BY <1>3, <2>3, <2>5 DEF Received
  <2>8. kd = [ip |-> kd.ip, scope |-> kd.scope] /\ kd.ip \notin AnyAddr /\ kd.scope = dest.scope
    BY <2>2 DEF KeyFits
  <2>9. CASE PktInfo = PktInfos
    <3>1. pcp_fill_in6_addr(rcvd_to_addr(pcp_socket_sendto_impl, i)) = kd
      BY <2>6, <2>8, <2>9 DEF pcp_fill_in6_addr, rcvd_to_addr, pcp_socket_sendto_impl, PktInfos
    <3>2. rkey' = kd
      BY <2>7, <2>8, <3>1
    <3>. QED
      BY <2>1, <2>2, <2>7, <3>2 DEF AnswerFindsItsFlow
  <2>10. CASE PktInfo # PktInfos
    <3>1. pcp_fill_in6_addr(rcvd_to_addr(pcp_socket_sendto_impl, i)).ip \in AnyAddr
      BY <2>10 DEF pcp_fill_in6_addr, rcvd_to_addr, Unspec, AnyAddr
    <3>2. kd.ip = dest.src => rkey' = kd
      BY <2>7, <2>8, <3>1
    <3>. QED
      BY <2>1, <2>2, <2>7, <2>10, <3>2 DEF AnswerFindsItsFlow
  <2>. QED
    BY <2>9, <2>10
<1>4. CASE NewContext
  BY <1>4 DEF NewContext, AnswerFindsItsFlow
<1>5. CASE UNCHANGED addressvars
  BY <1>5 DEF addressvars, AnswerFindsItsFlow, KeyFits, ScopeIds, KernelScope, pcp_socket_sendto_impl
<1>. QED
  BY <1>1, <1>2, <1>3, <1>4, <1>5 DEF AddressNext

\* The answer to a flow's request finds the flow, for any addresses and any
\* interfaces of the host: pcp_pulse makes the key that chain_and_assign_src_ip
\* gave the flow.
THEOREM AnswersFindTheirFlows == AddressSpec => []AnswerFindsItsFlow
<1>1. AddressInit => AddressInv
  BY DEF AddressInit, AddressInv, AnswerFindsItsFlow
<1>2. AddressInv => AnswerFindsItsFlow
  BY DEF AddressInv
<1>. QED
  BY <1>1, <1>2, NextAddress, PTL DEF AddressSpec

-----------------------------------------------------------------------------
(* getgateways.                                                             *)

\* A further route adds one to the gateways, or none.
LEMMA OneMore ==
    ASSUME NEW k \in Nat
    PROVE  /\ GatewaysIn(0) = 0
           /\ GatewaysIn(k) \in Nat
           /\ IsGateway(routes[k + 1]) => GatewaysIn(k + 1) = GatewaysIn(k) + 1
           /\ ~IsGateway(routes[k + 1]) => GatewaysIn(k + 1) = GatewaysIn(k)
<1> DEFINE G(n) == {j \in 1..n : IsGateway(routes[j])}
<1>1. G(0) = {}
  OBVIOUS
<1>2. IsFiniteSet(1..k) /\ G(k) \subseteq 1..k
  BY FS_Interval
<1>3. IsFiniteSet(G(k)) /\ Cardinality(G(k)) \in Nat
  BY <1>2, FS_Subset, FS_CardinalityType
<1>4. k + 1 \notin G(k)
  OBVIOUS
<1>5. 1..(k + 1) = (1..k) \cup {k + 1}
  OBVIOUS
<1>6. IsGateway(routes[k + 1]) => G(k + 1) = G(k) \cup {k + 1}
  BY <1>5
<1>7. ~IsGateway(routes[k + 1]) => G(k + 1) = G(k)
  BY <1>5
<1>8. GatewaysIn(0) = Cardinality(G(0)) /\ GatewaysIn(k) = Cardinality(G(k))
      /\ GatewaysIn(k + 1) = Cardinality(G(k + 1))
  BY DEF GatewaysIn
<1> HIDE DEF G
<1>9. Cardinality(G(k) \cup {k + 1}) = Cardinality(G(k)) + 1
  BY <1>3, <1>4, FS_AddElement
<1> QED
  BY <1>1, <1>3, <1>6, <1>7, <1>8, <1>9, FS_EmptySet

\* The place of a gateway in the list.
LEMMA GatewayPlace ==
    ASSUME NEW k \in Nat, NEW i \in 1..k, IsGateway(routes[i])
    PROVE  GatewaysIn(i) \in 1..GatewaysIn(k)
<1> DEFINE G(n) == {j \in 1..n : IsGateway(routes[j])}
<1>1. G(i) \subseteq G(k) /\ i \in G(i) /\ G(k) \subseteq 1..k /\ IsFiniteSet(1..k)
  BY FS_Interval
<1>2. IsFiniteSet(G(k))
  BY <1>1, FS_Subset
<1>3. GatewaysIn(i) = Cardinality(G(i)) /\ GatewaysIn(k) = Cardinality(G(k))
  BY DEF GatewaysIn
<1> HIDE DEF G
<1>4. IsFiniteSet(G(i)) /\ Cardinality(G(i)) <= Cardinality(G(k))
  BY <1>1, <1>2, FS_Subset
<1>5. Cardinality(G(i)) \in Nat /\ Cardinality(G(i)) # 0 /\ Cardinality(G(k)) \in Nat
  BY <1>1, <1>2, <1>4, FS_CardinalityType, FS_EmptySet
<1> QED
  BY <1>3, <1>4, <1>5

\* The count depends on the system and its routes only.
LEMMA SameCount ==
    ASSUME UNCHANGED <<sys, routes>>
    PROVE  /\ \A n : GatewaysIn(n)' = GatewaysIn(n)
           /\ \A r : IsGateway(r)' <=> IsGateway(r)
<1>1. \A r : IsGateway(r)' <=> IsGateway(r)
  BY DEF IsGateway, Inet
<1> QED
  BY <1>1 DEF GatewaysIn

\* What the kernel has still to give follows what is in the buffer.
Whole == /\ Len(msgBuf) + Len(queue) = Len(routes)
         /\ \A i \in 1..Len(msgBuf) : msgBuf[i] = routes[i]
         /\ \A i \in 1..Len(queue) : queue[i] = routes[Len(msgBuf) + i]

\* The routes that are not parsed yet are the last ones of all.
Unparsed == /\ Len(msgBuf) <= Len(routes)
            /\ \A i \in 1..Len(msgBuf) :
                  msgBuf[i] = routes[Len(routes) - Len(msgBuf) + i]

\* The list has the gateways of the first k routes.
Listed(k) == /\ Len(gws) = GatewaysIn(k)
             /\ \A i \in 1..k : IsGateway(routes[i]) =>
                    gws[GatewaysIn(i)] = routes[i].gw

GatewayType ==
    /\ queue \in Seq(Routes) /\ routes \in Seq(Routes) /\ msgBuf \in Seq(Routes)
    /\ gws \in Seq({r.gw : r \in Routes})
    /\ msgLen \in 0..BUFSIZE

\* A buffer that could not take a whole datagram is full, and stays so.
GatewayInv ==
    /\ GatewayType
    /\ gpc \in {"idle", "start"} => msgBuf = <<>> /\ queue = routes
    /\ gpc \in {"idle", "start", "read"} => gws = <<>>
    /\ gpc = "read" => msgLen = BUFSIZE \/ Whole
    /\ gpc = "parse" => Unparsed /\ Listed(Len(routes) - Len(msgBuf))
    /\ CompleteOrNone
    /\ Released

\* An error before the first route is parsed leaves no list.
LEMMA EndsWithError ==
    ASSUME GatewayInv, GatewayType', gpc \in {"start", "read"}, gws' = gws, sys' = sys,
           NEW r \in {UNKNOWN, SEND_FAILED, RECV_FAILED, NO_MEM}, NEW h, End(r, h),
           h = {} \/ (sys = "win32" /\ r = NO_MEM) \/ (sys = "bsd" /\ r = UNKNOWN)
    PROVE  GatewayInv'
<1>1. gpc' = "done" /\ gret' = r /\ held' = h /\ gws' = <<>>
  BY DEF End, GatewayInv
<1>2. r < 0
  BY DEF UNKNOWN, SEND_FAILED, RECV_FAILED, NO_MEM
<1>3. CompleteOrNone' /\ Released'
  BY <1>1, <1>2 DEF CompleteOrNone, Released
<1> QED
  BY <1>1, <1>3 DEF GatewayInv

\* Parsing begins with all routes and no gateway.
LEMMA ParsingBegins ==
    ASSUME GatewayInv, GatewayType', gpc \in {"start", "read"}, gpc' = "parse", gws' = gws,
           UNCHANGED <<sys, routes>>, msgBuf' = routes
    PROVE  GatewayInv'
<1>1. gws' = <<>> /\ Len(routes') - Len(msgBuf') = 0 /\ routes' \in Seq(Routes)
  BY DEF GatewayInv, GatewayType
<1>2. Unparsed'
  BY <1>1 DEF Unparsed
<1>3. GatewaysIn(0)' = 0
  BY SameCount, OneMore
<1>4. Listed(0)'
  BY <1>1, <1>3 DEF Listed
<1> QED
  BY <1>1, <1>2, <1>4 DEF GatewayInv, CompleteOrNone, Released, Ended

\* No more routes fit than there are.
LEMMA FitBound ==
    ASSUME NEW n \in Nat, NEW room \in Nat
    PROVE  Fit(n, room) \in 0..n /\ (RouteSize * n <= room => Fit(n, room) = n)
<1>1. PICK a \in Nat \ {0} : a = RouteSize
  BY BufferAssumption
<1>2. a * n \in Nat
  OBVIOUS
<1>3. ASSUME room < a * n PROVE room \div a \in 0..n
  <2> DEFINE q == room \div a
  <2>1. q \in Nat /\ a * q <= room
    OBVIOUS
  <2> HIDE DEF q
  <2>2. ASSUME q > n PROVE FALSE
    <3>1. a * q >= a * n
      BY <2>1, <2>2
    <3> QED
      BY <1>2, <1>3, <2>1, <3>1
  <2>3. q \in 0..n
    BY <2>1, <2>2
  <2> QED
    BY <2>3 DEF q
<1> QED
  BY <1>1, <1>2, <1>3 DEF Fit

\* A datagram is in the buffer with all its routes, or the buffer is full.
LEMMA DatagramRead ==
    ASSUME GatewayType, msgLen = BUFSIZE \/ Whole,
           NEW n \in 1..Len(queue), Recv(n, BUFSIZE - msgLen),
           routes' = routes, gws' = gws
    PROVE  GatewayType' /\ (msgLen' = BUFSIZE \/ Whole')
<1> DEFINE room == BUFSIZE - msgLen
           k    == Fit(n, room)
           a    == SubSeq(queue, 1, k)
           z    == SubSeq(queue, n + 1, Len(queue))
<1>1. /\ queue \in Seq(Routes) /\ routes \in Seq(Routes) /\ msgBuf \in Seq(Routes)
      /\ msgLen \in Nat /\ BUFSIZE \in Nat /\ room \in Nat /\ n \in Nat /\ n >= 1
      /\ Len(queue) \in Nat /\ n <= Len(queue) /\ msgLen + room = BUFSIZE
  BY BufferAssumption DEF GatewayType
<1>2. /\ msgBuf' = msgBuf \o a /\ queue' = z
      /\ msgLen' = msgLen + IF RouteSize * n <= room THEN RouteSize * n ELSE room
  BY DEF Recv
<1>3. k \in 0..n /\ (RouteSize * n <= room => k = n)
  BY <1>1, FitBound
<1>4. RouteSize * n \in Nat
  BY <1>1, BufferAssumption
<1> HIDE DEF k, room
<1>5. a \in Seq(Routes) /\ Len(a) = k /\ \A i \in 1..k : a[i] = queue[i]
  BY <1>1, <1>3, SubSeqProperties
<1>6. z \in Seq(Routes) /\ Len(z) = Len(queue) - n
      /\ \A i \in 1..(Len(queue) - n) : z[i] = queue[n + i]
  BY <1>1, SubSeqProperties
<1> HIDE DEF a, z
<1>7. /\ msgBuf' \in Seq(Routes) /\ Len(msgBuf') = Len(msgBuf) + k
      /\ \A i \in 1..(Len(msgBuf) + k) :
            msgBuf'[i] = IF i <= Len(msgBuf) THEN msgBuf[i] ELSE a[i - Len(msgBuf)]
  <2>1. /\ msgBuf \o a \in Seq(Routes) /\ Len(msgBuf \o a) = Len(msgBuf) + Len(a)
        /\ \A i \in 1..(Len(msgBuf) + Len(a)) :
              (msgBuf \o a)[i] = IF i <= Len(msgBuf) THEN msgBuf[i] ELSE a[i - Len(msgBuf)]
    BY <1>1, <1>5, ConcatProperties
  <2> QED
    BY <1>2, <1>5, <2>1
<1>8. msgLen' \in 0..BUFSIZE /\ (RouteSize * n > room => msgLen' = BUFSIZE)
  BY <1>1, <1>2, <1>4
<1>9. GatewayType'
  BY <1>2, <1>6, <1>7, <1>8 DEF GatewayType
<1>10. ASSUME Whole, RouteSize * n <= room PROVE Whole'
  <2>1. k = n /\ Len(msgBuf) \in Nat /\ Len(queue') = Len(queue) - n
        /\ Len(msgBuf') = Len(msgBuf) + n
    BY <1>1, <1>2, <1>3, <1>6, <1>7, <1>10
  <2>2. ASSUME NEW i \in 1..Len(msgBuf') PROVE msgBuf'[i] = routes'[i]
    <3>1. i \in Int /\ 1 <= i /\ i <= Len(msgBuf) + n
      BY <2>1
    <3>2. CASE i <= Len(msgBuf)
      BY <1>7, <1>10, <2>1, <3>1, <3>2 DEF Whole
    <3>3. CASE i > Len(msgBuf)
      <4>1. i - Len(msgBuf) \in 1..n /\ i - Len(msgBuf) \in 1..Len(queue)
            /\ Len(msgBuf) + (i - Len(msgBuf)) = i
        BY <1>1, <2>1, <3>1, <3>3
      <4>2. msgBuf'[i] = queue[i - Len(msgBuf)]
        BY <1>5, <1>7, <2>1, <3>1, <3>3, <4>1
      <4> QED
        BY <1>10, <4>1, <4>2 DEF Whole
    <3> QED
      BY <2>1, <3>1, <3>2, <3>3
  <2>3. ASSUME NEW i \in 1..Len(queue') PROVE queue'[i] = routes'[Len(msgBuf') + i]
    <3>1. n + i \in 1..Len(queue) /\ Len(msgBuf) + (n + i) = Len(msgBuf) + n + i
          /\ i \in 1..(Len(queue) - n)
      BY <1>1, <2>1
    <3> QED
      BY <1>2, <1>6, <1>10, <2>1, <3>1 DEF Whole
  <2>4. Len(msgBuf') + Len(queue') = Len(routes')
    <3>1. Len(msgBuf) + Len(queue) = Len(routes) /\ Len(routes') = Len(routes)
      BY <1>10 DEF Whole
    <3>2. n \in Nat /\ Len(queue) \in Nat
      BY <1>1
    <3> QED
      BY <2>1, <3>1, <3>2
  <2> QED
    BY <2>2, <2>3, <2>4 DEF Whole
<1> QED
  BY <1>1, <1>4, <1>8, <1>9, <1>10, <1>2

\* The next route is parsed: its gateway is the next of the list.
LEMMA RouteParsed ==
    ASSUME GatewayInv, ParseRoute, gpc' = "parse"
    PROVE  GatewayInv'
<1> DEFINE r == Head(msgBuf)
<1>1. PICK k : k = Len(routes) - Len(msgBuf)
  OBVIOUS
<1>2. /\ routes \in Seq(Routes) /\ msgBuf \in Seq(Routes) /\ msgBuf # <<>>
      /\ Unparsed /\ Listed(k) /\ gws \in Seq({x.gw : x \in Routes})
      /\ UNCHANGED <<sys, queue, routes, msgLen>> /\ msgBuf' = Tail(msgBuf)
  BY <1>1 DEF ParseRoute, GatewayInv, GatewayType, SameRoutes
<1>3. /\ r \in Routes /\ r = msgBuf[1] /\ Len(msgBuf) \in Nat /\ Len(msgBuf) >= 1
      /\ msgBuf' \in Seq(Routes) /\ Len(msgBuf') = Len(msgBuf) - 1
      /\ \A i \in 1..Len(msgBuf') : msgBuf'[i] = msgBuf[i + 1]
  BY <1>2, HeadTailProperties
<1>4. /\ k \in Nat /\ k + 1 = Len(routes') - Len(msgBuf') /\ Len(routes) \in Nat
      /\ k + 1 <= Len(routes) /\ r = routes[k + 1]
  <2>1. Len(routes') = Len(routes) /\ Len(routes) \in Nat /\ Len(msgBuf) <= Len(routes)
    BY <1>2 DEF Unparsed
  <2>2. k \in Nat /\ k + 1 = Len(routes') - Len(msgBuf') /\ k + 1 <= Len(routes)
    BY <1>1, <1>3, <2>1
  <2>3. 1 \in 1..Len(msgBuf)
    BY <1>3
  <2> QED
    BY <1>1, <1>2, <1>3, <2>1, <2>2, <2>3 DEF Unparsed
<1>5. Unparsed'
  <2>1. Len(msgBuf') <= Len(routes')
    BY <1>2, <1>3, <1>4
  <2>2. ASSUME NEW i \in 1..Len(msgBuf')
        PROVE  msgBuf'[i] = routes'[Len(routes') - Len(msgBuf') + i]
    <3>1. i + 1 \in 1..Len(msgBuf) /\ k + (i + 1) = Len(routes') - Len(msgBuf') + i
      <4>1. i \in Nat /\ 1 <= i /\ i <= Len(msgBuf) - 1 /\ Len(msgBuf) \in Nat
        BY <1>3
      <4>2. Len(routes') - Len(msgBuf') = k + 1 /\ k \in Nat
        BY <1>4
      <4>3. i + 1 \in 1..Len(msgBuf)
        BY <4>1
      <4>4. k + (i + 1) = k + 1 + i
        BY <4>1, <4>2
      <4> QED
        BY <4>2, <4>3, <4>4
    <3> QED
      BY <1>1, <1>2, <1>3, <3>1 DEF Unparsed
  <2> QED
    BY <2>1, <2>2 DEF Unparsed
<1>6. \/ IsGateway(r) /\ gws' = Append(gws, r.gw)
      \/ ~IsGateway(r) /\ gws' = gws
  BY DEF ParseRoute, End
<1> HIDE DEF r
<1>7. GatewayType'
  <2>1. r.gw \in {x.gw : x \in Routes}
    BY <1>3
  <2>2. gws' \in Seq({x.gw : x \in Routes})
    <3> DEFINE S == {x.gw : x \in Routes}
    <3>1. gws \in Seq(S) /\ r.gw \in S
      BY <1>2, <2>1
    <3> HIDE DEF S
    <3>2. gws' \in Seq(S)
      BY <1>6, <3>1, AppendProperties
    <3> QED
      BY <3>2 DEF S
  <2> QED
    BY <1>2, <1>3, <2>2 DEF GatewayType, GatewayInv
<1>8. GatewaysIn(k) \in Nat /\ Len(gws) = GatewaysIn(k)
      /\ (IsGateway(r) => GatewaysIn(k + 1) = GatewaysIn(k) + 1)
      /\ (~IsGateway(r) => GatewaysIn(k + 1) = GatewaysIn(k))
  BY <1>2, <1>4, OneMore DEF Listed
<1>9. ASSUME NEW i \in 1..k, IsGateway(routes[i])
      PROVE  GatewaysIn(i) \in 1..GatewaysIn(k) /\ gws[GatewaysIn(i)] = routes[i].gw
  BY <1>2, <1>4, <1>9, GatewayPlace DEF Listed
<1>10. /\ Len(gws') = GatewaysIn(k + 1)
      /\ \A i \in 1..(k + 1) : IsGateway(routes[i]) => gws'[GatewaysIn(i)] = routes[i].gw
  <2>1. CASE IsGateway(r) /\ gws' = Append(gws, r.gw)
    <3>1. /\ Len(gws') = Len(gws) + 1
          /\ \A j \in 1..Len(gws) : gws'[j] = gws[j]
          /\ gws'[Len(gws) + 1] = r.gw
      BY <1>2, <2>1, AppendProperties
    <3>2. ASSUME NEW i \in 1..(k + 1), IsGateway(routes[i])
          PROVE  gws'[GatewaysIn(i)] = routes[i].gw
      <4>1. CASE i = k + 1
        BY <1>4, <1>8, <2>1, <3>1, <4>1
      <4>2. CASE i # k + 1
        <5>1. i \in 1..k
          BY <1>4, <4>2
        <5> QED
          BY <1>8, <1>9, <3>1, <3>2, <5>1
      <4> QED
        BY <4>1, <4>2
    <3> QED
      BY <1>8, <2>1, <3>1, <3>2
  <2>2. CASE ~IsGateway(r) /\ gws' = gws
    <3>1. ASSUME NEW i \in 1..(k + 1), IsGateway(routes[i])
          PROVE  gws'[GatewaysIn(i)] = routes[i].gw
      <4>1. i \in 1..k
        BY <1>4, <2>2, <3>1
      <4> QED
        BY <1>9, <2>2, <3>1, <4>1
    <3> QED
      BY <1>8, <2>2, <3>1
  <2> QED
    BY <1>6, <2>1, <2>2
<1>11. Listed(k + 1)'
  BY <1>2, <1>10, SameCount DEF Listed
<1>12. Listed(Len(routes) - Len(msgBuf))'
  BY <1>4, <1>11 DEF Listed
<1> QED
  BY <1>5, <1>7, <1>12 DEF GatewayInv, CompleteOrNone, Released, Ended

LEMMA InitGateway == GatewayInit => GatewayInv
<1> SUFFICES ASSUME GatewayInit PROVE GatewayInv
  OBVIOUS
<1>1. GatewayType
  BY BufferAssumption, EmptySeq DEF GatewayInit, GatewayType
<1> QED
  BY <1>1 DEF GatewayInit, GatewayInv, CompleteOrNone, Released, Ended

LEMMA NextGateway == GatewayInv /\ [GatewayNext]_gatewayvars => GatewayInv'
<1> SUFFICES ASSUME GatewayInv, [GatewayNext]_gatewayvars PROVE GatewayInv'
  OBVIOUS
<1>1. GatewayType
  BY DEF GatewayInv
<1>2. CASE getgateways
  <2>1. routes' \in Seq(Routes) /\ queue' = routes' /\ gpc' = "start"
        /\ UNCHANGED <<msgBuf, msgLen, gws, held, gret>>
    <3>1. PICK n \in 0..MaxRoutes : routes' \in [1..n -> Routes]
      BY <1>2 DEF getgateways
    <3>2. n \in Nat
      BY BufferAssumption
    <3> QED
      BY <1>2, <3>1, <3>2 DEF getgateways
  <2>2. GatewayType'
    BY <1>1, <2>1 DEF GatewayType
  <2>3. msgBuf = <<>> /\ gws = <<>>
    BY <1>2 DEF getgateways, GatewayInv
  <2> QED
    BY <2>1, <2>2, <2>3 DEF GatewayInv, CompleteOrNone, Released, Ended
<1>3. CASE NetlinkOpen
  <2>1. gpc = "start" /\ UNCHANGED <<sys, queue, routes, msgBuf, msgLen, gws>>
    BY <1>3 DEF NetlinkOpen, SameRoutes
  <2>2. GatewayType'
    BY <1>1, <2>1 DEF GatewayType
  <2>3. CASE gpc' = "read"
    <3>1. msgBuf = <<>> /\ queue = routes /\ gws = <<>> /\ routes \in Seq(Routes)
      BY <1>1, <2>1 DEF GatewayInv, GatewayType
    <3>2. Whole'
      BY <2>1, <3>1 DEF Whole
    <3> QED
      BY <2>1, <2>2, <2>3, <3>1, <3>2 DEF GatewayInv, CompleteOrNone, Released, Ended
  <2>4. CASE End(UNKNOWN, {}) \/ End(SEND_FAILED, {})
    BY <2>1, <2>2, <2>4, EndsWithError
  <2> QED
    BY <1>3, <2>3, <2>4 DEF NetlinkOpen
<1>4. CASE NetlinkRead
  <2>1. gpc = "read" /\ UNCHANGED <<sys, routes, gws>> /\ (msgLen = BUFSIZE \/ Whole)
        /\ gws = <<>>
    BY <1>4 DEF NetlinkRead, GatewayInv
  <2>2. ASSUME UNCHANGED <<queue, msgBuf, msgLen>> PROVE GatewayType'
    BY <1>1, <2>1, <2>2 DEF GatewayType
  <2>3. CASE recv_failed /\ UNCHANGED <<queue, msgBuf, msgLen>>
    BY <2>1, <2>2, <2>3, EndsWithError DEF recv_failed
  <2>4. CASE readNlSock(BUFSIZE - msgLen) /\ queue = <<>>
    <3>1. UNCHANGED <<queue, msgBuf, msgLen>>
      BY <2>4 DEF readNlSock
    <3>2. CASE recv_failed
      BY <2>3, <3>1, <3>2
    <3>3. CASE BUFSIZE - msgLen >= DoneSize /\ gpc' = "parse"
      <4>1. msgLen # BUFSIZE
        BY <1>1, <3>3, BufferAssumption DEF DoneSize, GatewayType
      <4>2. Whole
        BY <2>1, <4>1
      <4>3. /\ msgBuf \in Seq(Routes) /\ routes \in Seq(Routes) /\ Len(queue) = 0
            /\ Len(msgBuf) + Len(queue) = Len(routes)
            /\ \A i \in 1..Len(msgBuf) : msgBuf[i] = routes[i]
        BY <1>1, <2>4, <4>2 DEF Whole, GatewayType
      <4>4. Len(msgBuf) = Len(routes)
        BY <4>3
      <4>5. msgBuf = routes
        BY <4>3, <4>4, SeqEqual
      <4> QED
        BY <2>1, <2>2, <3>1, <3>3, <4>5, ParsingBegins
    <3> QED
      BY <2>4, <3>2, <3>3 DEF readNlSock
  <2>5. CASE readNlSock(BUFSIZE - msgLen) /\ queue # <<>>
    <3>1. PICK n \in 1..Len(queue) : Recv(n, BUFSIZE - msgLen)
      BY <2>5 DEF readNlSock
    <3>2. GatewayType' /\ (msgLen' = BUFSIZE \/ Whole')
      BY <1>1, <2>1, <3>1, DatagramRead
    <3>3. CASE recv_failed
      BY <2>1, <3>2, <3>3, EndsWithError DEF recv_failed
    <3>4. CASE gpc' = gpc
      BY <2>1, <3>2, <3>4 DEF GatewayInv, CompleteOrNone, Released, Ended
    <3> QED
      BY <2>5, <3>3, <3>4 DEF readNlSock
  <2> QED
    BY <1>4, <2>3, <2>4, <2>5 DEF NetlinkRead
<1>5. CASE Win32Open \/ BsdOpen
  <2>1. gpc = "start" /\ UNCHANGED <<sys, queue, routes, msgLen, gws>>
    BY <1>5 DEF Win32Open, BsdOpen, SameRoutes
  <2>2. CASE gpc' = "parse" /\ msgBuf' = routes
    <3>1. GatewayType'
      BY <1>1, <2>1, <2>2 DEF GatewayType
    <3> QED
      BY <2>1, <2>2, <3>1, ParsingBegins
  <2>3. CASE UNCHANGED msgBuf
    <3>1. GatewayType'
      BY <1>1, <2>1, <2>3 DEF GatewayType
    <3>2. CASE sys = "win32" /\ (End(UNKNOWN, {}) \/ End(NO_MEM, {"table"}))
      BY <2>1, <3>1, <3>2, EndsWithError
    <3>3. CASE sys = "bsd" /\ (End(UNKNOWN, {}) \/ End(UNKNOWN, {"buf"}))
      BY <2>1, <3>1, <3>3, EndsWithError
    <3> QED
      BY <1>5, <2>2, <3>2, <3>3 DEF Win32Open, BsdOpen
  <2> QED
    BY <1>5, <2>2, <2>3 DEF Win32Open, BsdOpen
<1>6. CASE ParseRoute
  <2>1. CASE gpc' = "parse"
    BY <1>6, <2>1, RouteParsed
  <2>2. CASE End(NO_MEM, {}) /\ gws' = <<>>
    <3>1. /\ UNCHANGED <<sys, queue, routes, msgLen>> /\ msgBuf' = Tail(msgBuf)
          /\ msgBuf \in Seq(Routes) /\ msgBuf # <<>>
      BY <1>1, <1>6 DEF ParseRoute, SameRoutes, GatewayType
    <3>2. msgBuf' \in Seq(Routes)
      BY <3>1, HeadTailProperties
    <3>3. GatewayType'
      BY <1>1, <2>2, <3>1, <3>2, EmptySeq DEF GatewayType
    <3>4. gpc' = "done" /\ gret' = -7 /\ held' = {}
      BY <2>2 DEF End, NO_MEM
    <3>5. CompleteOrNone' /\ Released'
      BY <2>2, <3>4 DEF CompleteOrNone, Released
    <3> QED
      BY <3>3, <3>4, <3>5 DEF GatewayInv
  <2> QED
    BY <1>6, <2>1, <2>2 DEF ParseRoute
<1>7. CASE Finish
  <2>1. /\ gpc = "parse" /\ msgBuf = <<>> /\ gpc' = "done" /\ gret' = Len(gws) /\ held' = {}
        /\ UNCHANGED <<sys, queue, routes, msgBuf, msgLen, gws>>
    BY <1>7 DEF Finish, End, SameRoutes
  <2>2. GatewayType'
    BY <1>1, <2>1 DEF GatewayType
  <2>3. Len(routes) - Len(msgBuf) = Len(routes) /\ gret' \in Nat
    BY <1>1, <2>1 DEF GatewayType
  <2>4. Listed(Len(routes))
    BY <2>1, <2>3 DEF GatewayInv
  <2>5. CompleteOrNone'
    BY <2>1, <2>3, <2>4, SameCount DEF Listed, CompleteOrNone
  <2> QED
    BY <2>1, <2>2, <2>5 DEF GatewayInv, Released
<1>8. CASE UNCHANGED gatewayvars
  <2>1. UNCHANGED <<sys, gpc, queue, routes, msgBuf, msgLen, gws, held, gret>>
    BY <1>8 DEF gatewayvars
  <2>2. GatewayType' /\ (Whole <=> Whole') /\ (Unparsed <=> Unparsed')
    BY <1>1, <2>1 DEF GatewayType, Whole, Unparsed
  <2>3. Listed(Len(routes) - Len(msgBuf)) => Listed(Len(routes) - Len(msgBuf))'
    BY <2>1, SameCount DEF Listed
  <2>4. CompleteOrNone'
    BY <2>1, SameCount DEF GatewayInv, CompleteOrNone, Ended
  <2> QED
    BY <2>1, <2>2, <2>3, <2>4 DEF GatewayInv, Released, Ended
<1> QED
  BY <1>2, <1>3, <1>4, <1>5, <1>6, <1>7, <1>8 DEF GatewayNext

\* Whatever the routes, the size of the buffer and of a route, the datagrams the
\* kernel makes of them and the call that fails, getgateways ends with every
\* gateway in the order of the routes or with an error and no list, and has
\* released what it took but for the two error paths of Released.
THEOREM GatewaysAreWhole == GatewaySpec => []EndsWhole
<1>1. GatewayInv => EndsWhole
  BY DEF GatewayInv, EndsWhole
<1> QED
  BY <1>1, InitGateway, NextGateway, PTL DEF GatewaySpec

-----------------------------------------------------------------------------
(* The socket of the client.                                                *)

Prefix(k) == [i \in 1..k |-> i]

\* What is left to send and what was handed over make up the message; an idle
\* buffer with nothing handed over is one that failed or was never used.
Parts == /\ buf \in 0..MsgLen
         /\ wire = Prefix(MsgLen - buf) \/ (buf = 0 /\ wire = <<>>)

SocketInv == Parts /\ NoSocketLeaks

\* Appending the next n bytes of the message to its first k gives the first
\* k + n.
LEMMA PrefixGrows ==
    ASSUME NEW k \in Nat, NEW n \in Nat
    PROVE  Prefix(k) \o [i \in 1..n |-> k + i] = Prefix(k + n)
<1> DEFINE a == Prefix(k)
           b == [i \in 1..n |-> k + i]
           c == Prefix(k + n)
<1>1. a \in Seq(Nat) /\ Len(a) = k /\ \A i \in 1..k : a[i] = i
  BY DEF Prefix
<1>2. b \in Seq(Nat) /\ Len(b) = n /\ \A i \in 1..n : b[i] = k + i
  OBVIOUS
<1>3. c \in Seq(Nat) /\ Len(c) = k + n /\ \A i \in 1..(k + n) : c[i] = i
  BY DEF Prefix
<1> HIDE DEF a, b, c
<1>4. /\ a \o b \in Seq(Nat)
      /\ Len(a \o b) = k + n
      /\ \A i \in 1..(k + n) : (a \o b)[i] = IF i <= k THEN a[i] ELSE b[i - k]
  BY <1>1, <1>2, ConcatProperties
<1>5. \A i \in 1..(k + n) : (a \o b)[i] = c[i]
  BY <1>1, <1>2, <1>3, <1>4
<1>6. a \o b = c
  BY <1>3, <1>4, <1>5, SeqEqual
<1> QED
  BY <1>6 DEF a, b, c

\* A pass of the loop of pcp_flow_send_msg keeps the parts of the message
\* together.
LEMMA SendToParts ==
    ASSUME Parts, buf > 0, NEW n \in 1..buf, SendTo(n)
    PROVE  Parts'
<1> USE SocketAssumption
<1>1. buf \in Nat /\ buf <= MsgLen /\ MsgLen \in Nat /\ n \in Nat /\ n <= buf
  BY DEF Parts
<1>2. wire = Prefix(MsgLen - buf)
  BY <1>1 DEF Parts
<1>3. MsgLen - buf \in Nat /\ MsgLen - buf + n = MsgLen - (buf - n)
  BY <1>1
<1>4. wire' = Prefix(MsgLen - buf + n)
  BY <1>1, <1>2, <1>3, PrefixGrows DEF SendTo
<1>5. buf' = buf - n /\ buf' \in 0..MsgLen
  BY <1>1 DEF SendTo
<1> QED
  BY <1>3, <1>4, <1>5 DEF Parts

LEMMA InitSocket ==
    ASSUME SocketInit
    PROVE  SocketInv
<1>1. Parts
  BY SocketAssumption DEF SocketInit, Parts
<1> QED
  BY <1>1 DEF SocketInit, SocketInv, NoSocketLeaks

LEMMA NextSocket ==
    ASSUME SocketInv, [SocketNext]_socketvars
    PROVE  SocketInv'
<1> USE SocketAssumption
<1>1. CASE pcp_init
  BY <1>1 DEF pcp_init, Flow, SocketInv, Parts, NoSocketLeaks
<1>2. CASE Refused
  BY <1>2 DEF Refused, Flow, SocketInv, Parts, NoSocketLeaks
<1>3. CASE Bind
  BY <1>3 DEF Bind, Flow, SocketInv, Parts, NoSocketLeaks
<1>4. CASE BuildMsg
  <2>1. Prefix(0) = <<>>
    BY DEF Prefix
  <2>2. buf' \in 0..MsgLen /\ MsgLen - buf' = 0 /\ wire' = <<>>
    BY <1>4 DEF BuildMsg
  <2>3. Parts'
    BY <2>1, <2>2 DEF Parts
  <2> QED
    BY <1>4, <2>3 DEF BuildMsg, SocketInv, NoSocketLeaks
<1>5. CASE pcp_flow_send_msg
  <2>1. PICK n \in 1..buf : SendTo(n)
    BY <1>5 DEF pcp_flow_send_msg
  <2>2. Parts'
    BY <1>5, <2>1, SendToParts DEF pcp_flow_send_msg, SocketInv
  <2> QED
    BY <1>5, <2>2 DEF pcp_flow_send_msg, SocketInv, NoSocketLeaks
<1>6. CASE SendFailed
  BY <1>6 DEF SendFailed, SocketInv, Parts, NoSocketLeaks
<1>7. CASE pcp_terminate
  BY <1>7 DEF pcp_terminate, SocketInv, Parts, NoSocketLeaks
<1>8. CASE UNCHANGED socketvars
  BY <1>8 DEF socketvars, SocketInv, Parts, NoSocketLeaks
<1> QED
  BY <1>1, <1>2, <1>3, <1>4, <1>5, <1>6, <1>7, <1>8 DEF SocketNext

LEMMA SocketInvHolds == SocketSpec => []SocketInv
<1>1. SocketInit => SocketInv
  BY InitSocket
<1>2. SocketInv /\ [SocketNext]_socketvars => SocketInv'
  BY NextSocket
<1> QED
  BY <1>1, <1>2, PTL DEF SocketSpec

\* pcp_init and pcp_terminate never leave a socket open, and never have a
\* context without one, whichever call fails.
THEOREM SocketsClosed == SocketSpec => []NoSocketLeaks
<1>1. SocketInv => NoSocketLeaks
  BY DEF SocketInv
<1> QED
  BY <1>1, SocketInvHolds, PTL

\* However sock_sendto splits a message of any length, what pcp_flow_send_msg
\* has handed over at the end of its loop is the message.
THEOREM MessagesAreWhole == SocketSpec => []MessageIsWhole
<1>1. SocketInv => MessageIsWhole
  <2> SUFFICES ASSUME SocketInv, buf = 0, wire # <<>> PROVE wire = [i \in 1..MsgLen |-> i]
    BY DEF MessageIsWhole
  <2>1. MsgLen - 0 = MsgLen
    BY SocketAssumption
  <2> QED
    BY <2>1 DEF SocketInv, Parts, Prefix
<1> QED
  BY <1>1, SocketInvHolds, PTL
=============================================================================
