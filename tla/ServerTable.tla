----------------------------- MODULE ServerTable -----------------------------
(***************************************************************************)
(* The table of PCP servers of lib/src/pcp_client_db.c and the ways a      *)
(* server gets into it, lib/src/pcp_server_discovery.c and                 *)
(* lib/src/net/findsaddr-udp.c: slots that are reused, an array that grows,*)
(* look-up by address and scope, and a source address that the kernel      *)
(* chooses or refuses.                                                     *)
(*                                                                         *)
(* A slot in state "ping" stands for every state the server machine takes  *)
(* from there.                                                             *)
(***************************************************************************)
EXTENDS Integers, SequencesExt

CONSTANTS InitCount,      \* PCP_INIT_SERVER_COUNT
          MaxLength,      \* bound on the length of the array
          Ips,            \* addresses, of the kinds "v4", "global",
                          \* "link_local" and "loopback", and the wildcards
          Scopes,         \* interfaces, as scope ids
          AskedVersions,  \* versions the application asks for
          MaxFlows,       \* bound on the number of flows
          Ipv6Socket,     \* built with PCP_USE_IPV6_SOCKET
          LinkSource,     \* the kernel may choose an interface: a link-local
                          \* source where the server's address has no scope
          Steady          \* a server of the table has a source when it is
                          \* added again

ASSUME TableAssumption == InitCount \in Nat \ {0}

NoAddr  == {"0.0.0.0", "::"}
V4      == {"v4", "0.0.0.0"}
Scope   == Scopes \cup {0}
PCP_MAX_SUPPORTED_VERSION == 2

PCP_ERR_UNSUP_VERSION == -6
PCP_ERR_NO_MEM        == -7
PCP_ERR_UNKNOWN       == -9

VARIABLES servers,    \* the array, its first slot has the index 0
          flows,      \* the server of each flow: its index and, from the key,
                      \* its address
          last        \* the last call and what it returned

tablevars == <<servers, flows, last>>

Unused  == [state |-> "unitialized", ip |-> "::", scope |-> 0, version |-> 0]
NoCall  == [call |-> "none", ip |-> "::", scope |-> 0, ret |-> 0, gws |-> <<>>]
Indices == 1..Len(servers)

\* get_pcp_server.
InUse(t, i) == i \in 1..Len(t) /\ t[i].state # "unitialized"

ScopeOf(ip, scope) == IF ip = "link_local" THEN scope ELSE 0

\* Mutant: the scope of an address that has none is compared as well.
get_pcp_server_by_ip_raw(t, ip, scope) ==
    SelectInSeq(t, LAMBDA s : s.state # "unitialized" /\ s.ip = ip /\ s.scope = scope)

\* The first server with this address and scope, 0 if there is none:
\* pcp_db_foreach_server with find_ip.
get_pcp_server_by_ip(t, ip, scope) ==
    SelectInSeq(t, LAMBDA s : /\ s.state # "unitialized"
                              /\ s.ip = ip /\ s.scope = ScopeOf(ip, scope))

-----------------------------------------------------------------------------
\* pcp_new_server: the array and the slot it gives, 0 without memory.
Free(t)   == SelectInSeq(t, LAMBDA s : s.state = "unitialized")
Blank(n)  == [i \in 1..n |-> Unused]
NewServer(ip, scope) == [state |-> "allocated", ip |-> ip, scope |-> ScopeOf(ip, scope),
                         version |-> PCP_MAX_SUPPORTED_VERSION]

\* Mutant: after growing, the new server goes to the first slot.
pcp_new_server_moved(t, ip, scope, mem) ==
    LET first == IF t = <<>> /\ mem THEN Blank(InitCount) ELSE t
        grown == IF Free(first) = 0 /\ mem THEN first \o Blank(Len(first)) ELSE first
        i     == IF Free(first) = 0 /\ mem THEN 1 ELSE Free(grown)
    IN  IF i = 0 THEN [t |-> first, i |-> 0]
        ELSE [t |-> [grown EXCEPT ![i] = NewServer(ip, scope)], i |-> i]

pcp_new_server(t, ip, scope, mem) ==
    LET first == IF t = <<>> /\ mem THEN Blank(InitCount) ELSE t
        grown == IF Free(first) = 0 /\ mem THEN first \o Blank(Len(first)) ELSE first
        i     == Free(grown)
    IN  IF i = 0 THEN [t |-> first, i |-> 0]
        ELSE [t |-> [grown EXCEPT ![i] = NewServer(ip, scope)], i |-> i]

\* The sources that findsaddr6 may find for a server: the scope of a link-local
\* source, 0 for any other.
findsaddr6(ip, scope) ==
    CASE ip = "link_local" -> IF scope # 0 THEN {scope}
                              ELSE IF LinkSource THEN Scopes ELSE {}
      [] ip = "global"     -> {0} \cup (IF LinkSource THEN Scopes ELSE {})
      [] OTHER             -> {0}

\* Whether it may find none: no socket, no route, no name.
NoSource(ip, known) == ip # "loopback" /\ ~(Steady /\ known)

\* psd_fill_pcp_server_src: the slots that may come of slot s.
psd_fill_pcp_server_src(s) ==
    IF ~Ipv6Socket /\ s.ip \notin V4 THEN {}
    ELSE {[s EXCEPT !.state = "ping", !.scope = IF @ = 0 THEN src ELSE @] :
              src \in findsaddr6(s.ip, s.scope)}

-----------------------------------------------------------------------------
\* psd_add_pcp_server.
Lookup(ip, scope, mem) ==
    LET i == get_pcp_server_by_ip(servers, ip, scope)
    IN  IF i # 0 THEN [t |-> servers, i |-> i]
        ELSE pcp_new_server(servers, ip, scope, mem)

Fits(t) == Len(t) <= MaxLength
Done(ip, scope, ret) == last' = [call |-> "add", ip |-> ip, scope |-> scope,
                                 ret |-> ret, gws |-> <<>>]

\* The slot is given back.
Failed(t, i) == [t EXCEPT ![i].state = "unitialized"]

\* pcp_add_server, for a version it knows.
psd_add_pcp_server(ip, scope, version, mem) ==
    LET at    == Lookup(ip, scope, mem)
        known == InUse(servers, at.i)
        slot  == [at.t[at.i] EXCEPT !.version = version]
        fills == psd_fill_pcp_server_src(slot)
    IN  \/ /\ at.i = 0
           /\ servers' = at.t
           /\ Done(ip, scope, PCP_ERR_UNKNOWN)
        \/ /\ at.i # 0
           /\ fills = {} \/ NoSource(ip, known)
           /\ servers' = Failed([at.t EXCEPT ![at.i] = slot], at.i)
           /\ Done(ip, scope, PCP_ERR_UNKNOWN)
        \/ /\ at.i # 0
           /\ \E filled \in fills : servers' = [at.t EXCEPT ![at.i] = filled]
           /\ Done(ip, scope, at.i - 1)

pcp_add_server(ip, scope, version, mem) ==
    /\ IF version > PCP_MAX_SUPPORTED_VERSION
       THEN Done(ip, scope, PCP_ERR_UNSUP_VERSION) /\ UNCHANGED servers
       ELSE psd_add_pcp_server(ip, scope, version, mem)
    /\ Fits(servers')
    /\ UNCHANGED flows

\* One gateway of psd_add_gws: the arrays that may come of it. A server without
\* a source address stays "allocated".
AddGateway(t, gw, mem) ==
    IF gw.ip \in NoAddr \/ get_pcp_server_by_ip(t, gw.ip, gw.scope) # 0 THEN {t}
    ELSE LET at == pcp_new_server(t, gw.ip, gw.scope, mem)
         IN  IF at.i = 0 THEN {at.t}
             ELSE {[at.t EXCEPT ![at.i] = s] :
                       s \in {at.t[at.i]} \cup psd_fill_pcp_server_src(at.t[at.i])}

\* The loop over the gateways; bound: two of them.
AfterGateways(t, gws, mem) ==
    UNION {AddGateway(u, gws[2], mem) : u \in AddGateway(t, gws[1], mem)}

\* psd_add_gws, in pcp_init: the table is empty.
psd_add_gws(gws, mem) ==
    /\ servers' \in AfterGateways(servers, gws, mem)
    /\ Fits(servers')
    /\ last' = [NoCall EXCEPT !.call = "gws", !.ret = IF mem THEN 0 ELSE PCP_ERR_NO_MEM,
                              !.gws = gws]
    /\ UNCHANGED flows

\* chain_and_assign_src_ip: a flow for a server of the table.
NewFlow(i) ==
    /\ InUse(servers, i) /\ Cardinality(flows) < MaxFlows
    /\ flows' = flows \cup {[indx |-> i, ip |-> servers[i].ip]}
    /\ last' = NoCall
    /\ UNCHANGED servers

\* pcp_terminate: the flows go first, then pcp_db_free_pcp_servers.
pcp_db_free_pcp_servers ==
    /\ servers # <<>>
    /\ servers' = <<>> /\ flows' = {} /\ last' = NoCall

TableInit == servers = <<>> /\ flows = {} /\ last = NoCall

\* The kernel gives the interface of every link-local gateway.
Gateway == {g \in [ip : Ips \ {"loopback"}, scope : Scope] :
                g.ip = "link_local" => g.scope # 0}

TableNext ==
    \/ \E ip \in Ips \ NoAddr, scope \in Scope, v \in AskedVersions, mem \in BOOLEAN :
          pcp_add_server(ip, scope, v, mem)
    \/ \E g, h \in Gateway, mem \in BOOLEAN :
          servers = <<>> /\ last = NoCall /\ psd_add_gws(<<g, h>>, mem)
    \/ \E i \in Indices : NewFlow(i)
    \/ pcp_db_free_pcp_servers

TableSpec == TableInit /\ [][TableNext]_tablevars

-----------------------------------------------------------------------------
\* No address and scope has two servers, so an answer belongs to one of them.
NoTwins ==
    \A i, j \in Indices : InUse(servers, i) /\ InUse(servers, j) /\ i # j =>
        <<servers[i].ip, servers[i].scope>> # <<servers[j].ip, servers[j].scope>>

\* A server that was added is found by the address it was added with (what
\* test_server_discovery.c expects of a second pcp_add_server).
AddIsFound ==
    last.call = "add" /\ last.ret >= 0 =>
        get_pcp_server_by_ip(servers, last.ip, last.scope) = last.ret + 1

\* The messages of a flow go to the server its key names: slots are reused and
\* the array grows, an index in use stays the index of its server.
FlowKeepsServer == \A f \in flows : servers[f.indx].ip = f.ip

\* Every gateway that is an address becomes a server that is found by it.
GatewaysAreServers ==
    last.call = "gws" /\ last.ret = 0 =>
        \A k \in DOMAIN last.gws : last.gws[k].ip \notin NoAddr =>
            get_pcp_server_by_ip(servers, last.gws[k].ip, last.gws[k].scope) # 0

\* What was added is found, and it alone: by pcp_add_server, by discovery, and by
\* the address of an answer.
ServersAreFound == AddIsFound /\ GatewaysAreServers /\ NoTwins
=============================================================================
