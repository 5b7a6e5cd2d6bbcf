----------------------------- MODULE Addressing ------------------------------
(***************************************************************************)
(* The addresses of one flow on their way through the library: what        *)
(* pcp_new_flow and chain_and_assign_src_ip (lib/src/pcp_api.c) put into   *)
(* the flow's key, the source the request is sent from, and the key that   *)
(* pcp_socket_recvfrom_impl (lib/src/net/pcp_socket.c) and pcp_pulse       *)
(* (lib/src/pcp_event_handler.c) make of the answer's addresses. A flow is *)
(* found by its key alone, so the two must agree.                          *)
(***************************************************************************)
EXTENDS Naturals

CONSTANTS Inet4, Inet6,        \* the addresses of the two families
          LinkLocal,     \* those with IN6_IS_ADDR_LINKLOCAL
          Interfaces     \* the indices of the host's interfaces

ASSUME AddressAssumption ==
    /\ Inet4 \cap Inet6 = {} /\ "0.0.0.0" \in Inet4 /\ "::" \in Inet6
    /\ LinkLocal \subseteq Inet6 \ {"::"}
    /\ Interfaces \subseteq Nat \ {0}

NoAddress == "none"
AnyAddr   == {"0.0.0.0", "::"}
Ip        == Inet4 \cup Inet6
AF(ip)    == IF ip \in Inet4 THEN "AF_INET" ELSE "AF_INET6"

\* The scope id that the kernel gives with an address of interface i.
KernelScope(ip, i) == IF ip \in LinkLocal THEN i ELSE 0

\* A sockaddr names the interface of a link-local address, and of no other.
ScopeIds(ip) == {KernelScope(ip, i) : i \in Interfaces}

Sockaddr == {a \in [af : {"AF_INET", "AF_INET6"}, ip : Ip, scope : Interfaces \cup {0}] :
                 a.af = AF(a.ip) /\ a.scope \in ScopeIds(a.ip)}
Unspec   == [af |-> "AF_UNSPEC", ip |-> "::", scope |-> 0]

\* pcp_fill_in6_addr: an IPv4 address becomes a mapped one without a scope,
\* another family changes nothing.
pcp_fill_in6_addr(a) == [ip |-> a.ip, scope |-> IF a.af = "AF_INET6" THEN a.scope ELSE 0]

\* A server of the table, as psd_fill_pcp_server_src leaves one that has a
\* source of its own kind.
Servers ==
    {x \in [ip : Ip \ AnyAddr, scope : Interfaces \cup {0}, src : Ip \ AnyAddr] :
        AF(x.ip) = AF(x.src) /\ x.scope \in ScopeIds(x.ip) \cap ScopeIds(x.src)}

\* The control messages a system may define.
PktInfos == {"IPV6_PKTINFO", "IP_PKTINFO"}

VARIABLES PktInfo,    \* those of the system the library is built for
          leg,        \* how far the flow's addresses have come
          dest,       \* the server
          kd,         \* source address and scope in the flow's key
          reply,      \* the answer: from where, to where, on which interface
          rkey        \* source address and scope in the key of the answer

addressvars == <<PktInfo, leg, dest, kd, reply, rkey>>

NoServer == [ip |-> "::", scope |-> 0, src |-> "::"]
NoKey    == [ip |-> "::", scope |-> 0]
NoReply  == [from |-> NoAddress, to |-> NoAddress, on |-> 0]

-----------------------------------------------------------------------------
\* findsaddr and findsaddr6: an address of the host for a destination.
findsaddr(to) == {pcp_fill_in6_addr(a) : a \in {b \in Sockaddr : b.af = AF(to) /\ b.ip \notin AnyAddr}}

\* pcp_new_flow: the sources and scopes it goes to the servers with. An error
\* of findsaddr is not looked at.
Sources(src, to) ==
    LET given == pcp_fill_in6_addr(src)
    IN  CASE to = NoAddress -> {given}
          [] to # NoAddress /\ src.af = "AF_INET" ->
                IF src.ip # "0.0.0.0" THEN {given}
                ELSE {given} \cup (IF to \in Inet4 THEN findsaddr(to) ELSE {})
          [] to # NoAddress /\ src.af # "AF_INET" /\ src.ip \in AnyAddr ->
                {given} \cup findsaddr(to)
          [] to # NoAddress /\ src.af # "AF_INET" /\ src.ip \notin AnyAddr ->
                IF AF(to) = src.af THEN {given} ELSE {}

\* chain_and_assign_src_ip: a flow without a source gets the server's.
Assigned(from) == IF from.ip \in AnyAddr THEN [ip |-> dest.src, scope |-> dest.scope] ELSE from

NewFlow_key(src, to) ==
    /\ leg = "start"
    /\ \E from \in Sources(src, to) :
          /\ AF(Assigned(from).ip) = AF(dest.src)
          /\ Assigned(from).scope = dest.scope
          /\ kd' = Assigned(from)
    /\ leg' = "flow"
    /\ UNCHANGED <<PktInfo, dest, reply, rkey>>

\* The address the request leaves from, which is where the answer goes:
\* pcp_socket_sendto_impl with or without IPV6_PKTINFO.
pcp_socket_sendto_impl == IF "IPV6_PKTINFO" \in PktInfo THEN kd.ip ELSE dest.src

\* A server answers on the interface of its scope, one without a scope on any.
Answered ==
    /\ leg = "flow"
    /\ \E i \in Interfaces :
          /\ dest.scope \in {0, i}
          /\ reply' = [from |-> dest.ip, to |-> pcp_socket_sendto_impl, on |-> i]
    /\ leg' = "answered"
    /\ UNCHANGED <<PktInfo, dest, kd, rkey>>

\* Mutant: the interface is given for every address.
rcvd_to_addr_all(to, i) == [af |-> "AF_INET6", ip |-> to, scope |-> i]

\* pcp_socket_recvfrom_impl: where the answer went to, from the control message,
\* which takes both.
rcvd_to_addr(to, i) ==
    IF PktInfo = PktInfos THEN [af |-> "AF_INET6", ip |-> to, scope |-> KernelScope(to, i)]
    ELSE Unspec

\* pcp_pulse: get_pcp_server_by_ip, then the key.
Received ==
    LET scope == KernelScope(reply.from, reply.on)
        to    == pcp_fill_in6_addr(rcvd_to_addr(reply.to, reply.on))
    IN  /\ leg = "answered"
        /\ leg' = IF scope = dest.scope THEN "received" ELSE "unknown_server"
        /\ rkey' = IF scope # dest.scope THEN rkey
                   ELSE IF to.ip \in AnyAddr THEN [ip |-> dest.src, scope |-> scope] ELSE to
        /\ UNCHANGED <<PktInfo, dest, kd, reply>>

AddressInit == /\ PktInfo = PktInfos
               /\ leg = "idle" /\ dest = NoServer
               /\ kd = NoKey /\ rkey = NoKey /\ reply = NoReply

\* A context of any build with one server; pcp_terminate ends the one before.
NewContext == /\ leg \in {"idle", "received", "unknown_server"}
              /\ PktInfo' \in SUBSET PktInfos
              /\ leg' = "start" /\ dest' \in Servers
              /\ kd' = NoKey /\ rkey' = NoKey /\ reply' = NoReply

AddressNext ==
    \/ \E src \in Sockaddr, to \in Ip \cup {NoAddress} : to \notin AnyAddr /\ NewFlow_key(src, to)
    \/ Answered \/ Received \/ NewContext

AddressSpec == AddressInit /\ [][AddressNext]_addressvars

-----------------------------------------------------------------------------
\* The answer to a flow's request finds the flow: its key is made of the
\* addresses of the answer. Without the control message this is so for flows
\* that have their server's source.
AnswerFindsItsFlow ==
    leg \in {"received", "unknown_server"} /\ (PktInfo = PktInfos \/ kd.ip = dest.src) =>
        leg = "received" /\ rkey = kd
=============================================================================
