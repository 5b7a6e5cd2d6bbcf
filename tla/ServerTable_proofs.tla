------------------------- MODULE ServerTable_proofs --------------------------
(***************************************************************************)
(* Proofs about ServerTable, for any addresses, interfaces and versions,   *)
(* any number of slots and any failing allocation: a flow keeps its server *)
(* while slots are reused and the array grows, and a server that was added *)
(* is found again.                                                         *)
(***************************************************************************)
EXTENDS ServerTable, WellFoundedInduction, SequenceTheorems, TLAPS

Slot == [state : {"unitialized", "allocated", "ping"}, ip : Ips \cup {"::"},
         scope : Scope, version : AskedVersions \cup {0, PCP_MAX_SUPPORTED_VERSION}]

\* Whatever was in use in t has its address and its index in u.
Kept(t, u) == \A i \in 1..Len(t) : InUse(t, i) => InUse(u, i) /\ u[i].ip = t[i].ip

-----------------------------------------------------------------------------
(* SelectInSeq.                                                             *)

\* A set of natural numbers has a smallest element.
LEMMA LeastIndex ==
    ASSUME NEW T, T \subseteq Nat, T # {}
    PROVE  \E m \in T : \A k \in T : m <= k
<1>1. PICK m \in T : \A k \in T : ~(<<k, m>> \in OpToRel(<, Nat))
  BY WFMin, NatLessThanWellFounded, Zenon
<1>2. \A k \in T : k \in Nat /\ m \in Nat
  OBVIOUS
<1>3. \A k \in T : ~(k < m)
  BY <1>1, <1>2, Zenon DEF OpToRel
<1> QED
  BY <1>2, <1>3

\* An index of a sequence is not 0.
LEMMA IndexPositive ==
    ASSUME NEW n \in Nat, NEW I, I \subseteq 1..n, NEW i \in I
    PROVE  i # 0 /\ i \in 0..n
OBVIOUS

\* The least index of a set of indices, 0 if it is empty.
LEMMA FirstIndex ==
    ASSUME NEW n \in Nat, NEW I, I \subseteq 1..n,
           NEW i, i = IF I # {} THEN CHOOSE x \in I : \A y \in I : x <= y ELSE 0
    PROVE  /\ i \in 0..n
           /\ i # 0 => i \in I
           /\ \A j \in I : i # 0 /\ i <= j
<1>1. CASE I = {}
  BY <1>1
<1>2. CASE I # {}
  <2>1. I \subseteq Nat
    OBVIOUS
  <2>2. \E m \in I : \A k \in I : m <= k
    BY <1>2, <2>1, LeastIndex
  <2>3. i \in I /\ \A j \in I : i <= j
    BY <1>2, <2>2
  <2> QED
    BY <2>3, IndexPositive
<1> QED
  BY <1>1, <1>2

\* pcp_new_server finds an unused slot if there is one.
LEMMA FreeSlot ==
    ASSUME NEW t \in Seq(Slot)
    PROVE  /\ Free(t) \in 0..Len(t)
           /\ Free(t) # 0 => t[Free(t)].state = "unitialized"
           /\ Free(t) = 0 => \A i \in 1..Len(t) : t[i].state # "unitialized"
<1> DEFINE I == {i \in 1..Len(t) : t[i].state = "unitialized"}
<1>1. Free(t) = IF I # {} THEN CHOOSE x \in I : \A y \in I : x <= y ELSE 0
  BY DEF Free, SelectInSeq, Min
<1>2. I \subseteq 1..Len(t) /\ Len(t) \in Nat
  OBVIOUS
<1>3. \A i \in I : t[i].state = "unitialized"
  OBVIOUS
<1>4. \A i \in 1..Len(t) : t[i].state = "unitialized" => i \in I
  OBVIOUS
<1> HIDE DEF I
<1> QED
  BY <1>1, <1>2, <1>3, <1>4, FirstIndex

\* get_pcp_server_by_ip finds a server with the address and the scope if there
\* is one, and the first of them.
LEMMA LookedUp ==
    ASSUME NEW t \in Seq(Slot), NEW ip, NEW scope,
           NEW i, i = get_pcp_server_by_ip(t, ip, scope)
    PROVE  /\ i \in 0..Len(t)
           /\ i # 0 => InUse(t, i) /\ t[i].ip = ip /\ t[i].scope = ScopeOf(ip, scope)
           /\ \A j \in 1..Len(t) :
                 InUse(t, j) /\ t[j].ip = ip /\ t[j].scope = ScopeOf(ip, scope)
                     => i # 0 /\ i <= j
<1> DEFINE Hit(j) == InUse(t, j) /\ t[j].ip = ip /\ t[j].scope = ScopeOf(ip, scope)
           I == {j \in 1..Len(t) : /\ t[j].state # "unitialized"
                                   /\ t[j].ip = ip /\ t[j].scope = ScopeOf(ip, scope)}
<1>1. i = IF I # {} THEN CHOOSE x \in I : \A y \in I : x <= y ELSE 0
  BY DEF get_pcp_server_by_ip, SelectInSeq, Min
<1>2. I \subseteq 1..Len(t) /\ Len(t) \in Nat
  OBVIOUS
<1>3. \A j \in 1..Len(t) : j \in I <=> Hit(j)
  BY DEF InUse
<1> HIDE DEF I, Hit
<1>4. /\ i \in 0..Len(t)
      /\ i # 0 => i \in I
      /\ \A j \in I : i # 0 /\ i <= j
  BY <1>1, <1>2, FirstIndex
<1>5. /\ i \in 0..Len(t)
      /\ i # 0 => Hit(i)
      /\ \A j \in 1..Len(t) : Hit(j) => i # 0 /\ i <= j
  BY <1>2, <1>3, <1>4
<1> QED
  BY <1>5 DEF Hit

-----------------------------------------------------------------------------
(* pcp_new_server.                                                          *)

\* u is t with more unused slots.
Extends(t, u) ==
    /\ Len(t) <= Len(u)
    /\ \A j \in 1..Len(u) : InUse(u, j) <=> InUse(t, j)
    /\ \A j \in 1..Len(u) : InUse(t, j) => u[j] = t[j]

\* Unused slots.
LEMMA BlankSlots ==
    ASSUME NEW n \in Nat
    PROVE  /\ Blank(n) \in Seq(Slot) /\ Len(Blank(n)) = n
           /\ \A j \in 1..n : Blank(n)[j].state = "unitialized"
<1>1. Unused \in Slot
  BY DEF Unused, Slot, Scope
<1> QED
  BY <1>1 DEF Blank, Unused

\* The array it looks for a slot in is the old one with unused slots behind it.
LEMMA Widened ==
    ASSUME NEW t \in Seq(Slot), NEW n \in Nat
    PROVE  /\ t \o Blank(n) \in Seq(Slot)
           /\ Len(t \o Blank(n)) = Len(t) + n
           /\ Extends(t, t \o Blank(n))
           /\ n # 0 => Free(t \o Blank(n)) # 0
<1> DEFINE b == Blank(n)
           u == t \o b
<1>0. b \in Seq(Slot) /\ Len(b) = n
  BY BlankSlots
<1> HIDE DEF b
<1>1. u \in Seq(Slot) /\ Len(u) = Len(t) + n
  BY <1>0
<1>2. /\ \A j \in 1..Len(t) : u[j] = t[j]
      /\ \A j \in Len(t) + 1 .. Len(t) + n : u[j] = b[j - Len(t)]
  BY <1>0
<1> USE DEF b
<1>3. \A j \in Len(t) + 1 .. Len(t) + n : u[j].state = "unitialized"
  BY <1>2, BlankSlots
<1> HIDE DEF u
<1>4. Extends(t, u)
  BY <1>1, <1>2, <1>3 DEF Extends, InUse
<1>5. n # 0 => Free(u) # 0
  BY <1>1, <1>3, FreeSlot
<1> QED
  BY <1>1, <1>4, <1>5 DEF u

\* The slot it gives was not in use, the others are as they were, and with memory
\* there always is one.
LEMMA NewSlot ==
    ASSUME NEW t \in Seq(Slot), NEW ip \in Ips, NEW scope \in Scope,
           NEW mem \in BOOLEAN,
           NEW r, r = pcp_new_server(t, ip, scope, mem)
    PROVE  /\ r.t \in Seq(Slot) /\ r.i \in 0..Len(r.t) /\ Len(t) <= Len(r.t)
           /\ \A j \in 1..Len(r.t) : j # r.i => (InUse(r.t, j) <=> InUse(t, j))
           /\ \A j \in 1..Len(r.t) : j # r.i /\ InUse(t, j) => r.t[j] = t[j]
           /\ r.i # 0 => ~InUse(t, r.i) /\ r.t[r.i] = NewServer(ip, scope)
           /\ mem => r.i # 0
<1> DEFINE first == IF t = <<>> /\ mem THEN Blank(InitCount) ELSE t
           grown == IF Free(first) = 0 /\ mem THEN first \o Blank(Len(first)) ELSE first
           i     == Free(grown)
<1>1. r = IF i = 0 THEN [t |-> first, i |-> 0]
          ELSE [t |-> [grown EXCEPT ![i] = NewServer(ip, scope)], i |-> i]
  BY DEF pcp_new_server
<1>2. first \in Seq(Slot) /\ Extends(t, first) /\ (mem => Len(first) # 0)
  <2>1. CASE t = <<>> /\ mem
    BY <2>1, TableAssumption, BlankSlots DEF Extends, InUse
  <2>2. CASE ~(t = <<>> /\ mem)
    BY <2>2 DEF Extends
  <2> QED
    BY <2>1, <2>2
<1> HIDE DEF first
<1>3. grown \in Seq(Slot) /\ Extends(first, grown) /\ (mem => Free(grown) # 0)
  <2>1. CASE Free(first) = 0 /\ mem
    BY <1>2, <2>1, Widened
  <2>2. CASE ~(Free(first) = 0 /\ mem)
    BY <1>2, <2>2 DEF Extends
  <2> QED
    BY <2>1, <2>2
<1>4. Extends(t, grown)
  BY <1>2, <1>3 DEF Extends, InUse
<1>5. i \in 0..Len(grown) /\ (i # 0 => grown[i].state = "unitialized")
  BY <1>3, FreeSlot
<1>6. NewServer(ip, scope) \in Slot /\ NewServer(ip, scope).state = "allocated"
  BY DEF NewServer, Slot, ScopeOf, Scope
<1> HIDE DEF grown, i
<1>7. CASE i = 0
  BY <1>1, <1>2, <1>3, <1>5, <1>7 DEF Extends, i
<1>8. CASE i # 0
  <2> DEFINE u == [grown EXCEPT ![i] = NewServer(ip, scope)]
  <2>1. r.t = u /\ r.i = i
    BY <1>1, <1>8
  <2>2. i \in 1..Len(grown)
    BY <1>3, <1>5, <1>8
  <2>3. /\ u \in Seq(Slot) /\ Len(u) = Len(grown) /\ u[i] = NewServer(ip, scope)
        /\ \A j \in 1..Len(u) : j # i => u[j] = grown[j]
    BY <1>3, <1>6, <2>2, ExceptSeq
  <2> HIDE DEF u
  <2>4. ~InUse(t, i)
    BY <1>3, <1>4, <1>5, <1>8 DEF Extends, InUse
  <2>5. \A j \in 1..Len(u) : j # i => /\ InUse(u, j) <=> InUse(t, j)
                                      /\ InUse(t, j) => u[j] = t[j]
    BY <1>4, <2>3 DEF Extends, InUse
  <2>6. Len(t) <= Len(u) /\ i \in 0..Len(u)
    BY <1>4, <1>5, <2>3 DEF Extends
  <2> QED
    BY <1>8, <2>1, <2>3, <2>4, <2>5, <2>6
<1> QED
  BY <1>7, <1>8

-----------------------------------------------------------------------------
(* What a call does to the table.                                           *)

\* A link-local server has a scope, or a source can be found without one.
HasScope(s) == s.ip = "link_local" => s.scope # 0 \/ (LinkSource /\ Scopes # {})

\* Slot i of u is for the address ip and the scope, and was so in t or was unused
\* while no slot of t was; the other slots in use are the same in both.
Puts(t, u, i, ip, scope) ==
    /\ u \in Seq(Slot) /\ i \in 0..Len(u) /\ Len(t) <= Len(u)
    /\ \A j \in 1..Len(u) : j # i => (InUse(u, j) <=> InUse(t, j))
    /\ \A j \in 1..Len(u) : j # i /\ InUse(t, j) => u[j] = t[j]
    /\ i # 0 =>
          /\ u[i].ip = ip
          /\ InUse(t, i) => t[i].ip = ip /\ t[i].scope = ScopeOf(ip, scope)
          /\ ~InUse(t, i) => \A j \in 1..Len(t) :
                ~(InUse(t, j) /\ t[j].ip = ip /\ t[j].scope = ScopeOf(ip, scope))
          /\ InUse(u, i) => /\ HasScope(u[i])
                            /\ ~LinkSource => u[i].scope = ScopeOf(ip, scope)

Sourced(t)  == \A i \in 1..Len(t) : InUse(t, i) => HasScope(t[i])
Distinct(t) == \A i, j \in 1..Len(t) : InUse(t, i) /\ InUse(t, j) /\ i # j =>
                   <<t[i].ip, t[i].scope>> # <<t[j].ip, t[j].scope>>

TableInv(t) == t \in Seq(Slot) /\ Sourced(t) /\ (~LinkSource => Distinct(t))

\* Such a step keeps the table in order.
LEMMA PutsKeepsOrder ==
    ASSUME NEW t, NEW u, NEW i, NEW ip, NEW scope,
           TableInv(t), Puts(t, u, i, ip, scope)
    PROVE  TableInv(u)
<1>1. ASSUME NEW j \in 1..Len(u), InUse(u, j) PROVE HasScope(u[j])
  <2>1. CASE j = i
    BY <1>1, <2>1 DEF Puts
  <2>2. CASE j # i
    <3>1. InUse(t, j) /\ u[j] = t[j]
      BY <1>1, <2>2 DEF Puts
    <3>2. j \in 1..Len(t)
      BY <3>1 DEF InUse
    <3> QED
      BY <3>1, <3>2 DEF TableInv, Sourced
  <2> QED
    BY <2>1, <2>2
<1>2. ASSUME ~LinkSource PROVE Distinct(u)
  <2> SUFFICES ASSUME NEW j \in 1..Len(u), NEW k \in 1..Len(u),
                      InUse(u, j), InUse(u, k), j # k,
                      u[j].ip = u[k].ip, u[j].scope = u[k].scope
               PROVE  FALSE
    BY DEF Distinct
  <2>1. CASE j # i /\ k # i
    <3>1. InUse(t, j) /\ InUse(t, k) /\ u[j] = t[j] /\ u[k] = t[k]
      BY <2>1 DEF Puts
    <3> QED
      BY <1>2, <3>1 DEF TableInv, Distinct, InUse
  <2>2. ASSUME NEW l \in 1..Len(u), l # i, InUse(u, l), i # 0, InUse(u, i),
               u[l].ip = u[i].ip, u[l].scope = u[i].scope
        PROVE  FALSE
    <3>1. InUse(t, l) /\ t[l].ip = ip /\ t[l].scope = ScopeOf(ip, scope)
      BY <1>2, <2>2 DEF Puts
    <3>2. InUse(t, i) /\ t[i].ip = ip /\ t[i].scope = ScopeOf(ip, scope)
      BY <2>2, <3>1 DEF Puts, InUse
    <3> QED
      BY <1>2, <2>2, <3>1, <3>2 DEF TableInv, Distinct, InUse
  <2> QED
    BY <2>1, <2>2
<1> QED
  BY <1>1, <1>2 DEF TableInv, Sourced, Puts

\* Unless it gives up the slot, whatever was in use stays where it is.
LEMMA PutsKeeps ==
    ASSUME NEW t \in Seq(Slot), NEW u, NEW i, NEW ip, NEW scope,
           Puts(t, u, i, ip, scope), i # 0 /\ InUse(t, i) => InUse(u, i)
    PROVE  Kept(t, u)
BY DEF Puts, Kept, InUse

\* The fields of a slot.
LEMMA SlotFields ==
    ASSUME NEW s \in Slot
    PROVE  /\ s.state \in {"unitialized", "allocated", "ping"}
           /\ s.ip \in Ips \cup {"::"} /\ s.scope \in Scope
BY DEF Slot

\* psd_fill_pcp_server_src keeps the address, and the scope if there is one.
LEMMA Filled ==
    ASSUME NEW s \in Slot, NEW z \in psd_fill_pcp_server_src(s)
    PROVE  /\ z \in Slot /\ z.ip = s.ip /\ z.state = "ping" /\ HasScope(z)
           /\ ~LinkSource => z.scope = s.scope
<1>1. PICK src \in findsaddr6(s.ip, s.scope) :
          z = [s EXCEPT !.state = "ping", !.scope = IF @ = 0 THEN src ELSE @]
  BY DEF psd_fill_pcp_server_src
<1>2. src \in Scope
  BY SlotFields DEF findsaddr6, Scope
<1>3. /\ z \in Slot /\ z.ip = s.ip /\ z.state = "ping"
      /\ z.scope = IF s.scope = 0 THEN src ELSE s.scope
  BY <1>1, <1>2 DEF Slot
<1>4. s.ip = "link_local" /\ s.scope = 0 => LinkSource /\ Scopes # {}
  BY DEF findsaddr6
<1>5. ~LinkSource /\ s.scope = 0 => src = 0
  BY <1>4 DEF findsaddr6
<1> QED
  BY <1>3, <1>4, <1>5 DEF HasScope

\* It finds a source, if not the kernel but only the address can prevent it.
LEMMA Fillable ==
    ASSUME NEW s \in Slot, Ipv6Socket \/ s.ip \in V4, HasScope(s)
    PROVE  psd_fill_pcp_server_src(s) # {}
<1>1. findsaddr6(s.ip, s.scope) # {}
  BY DEF findsaddr6, HasScope
<1> QED
  BY <1>1 DEF psd_fill_pcp_server_src

-----------------------------------------------------------------------------
(* pcp_add_server and psd_add_gws.                                          *)

\* The array and the slot of at are for the address ip and the scope: the slot
\* that has them in t, or a new one if none has.
Found(t, at, ip, scope) ==
    /\ at.t \in Seq(Slot) /\ at.i \in 0..Len(at.t) /\ Len(t) <= Len(at.t)
    /\ \A j \in 1..Len(at.t) : j # at.i => (InUse(at.t, j) <=> InUse(t, j))
    /\ \A j \in 1..Len(at.t) : j # at.i /\ InUse(t, j) => at.t[j] = t[j]
    /\ at.i # 0 =>
          /\ at.t[at.i].ip = ip /\ at.t[at.i].scope = ScopeOf(ip, scope)
          /\ InUse(t, at.i) => at.t[at.i] = t[at.i]
          /\ ~InUse(t, at.i) => \A j \in 1..Len(t) :
                ~(InUse(t, j) /\ t[j].ip = ip /\ t[j].scope = ScopeOf(ip, scope))

\* A server that is looked up in vain gets a new slot.
LEMMA NewIsFound ==
    ASSUME NEW t \in Seq(Slot), NEW ip \in Ips, NEW scope \in Scope,
           NEW mem \in BOOLEAN,
           get_pcp_server_by_ip(t, ip, scope) = 0,
           NEW at, at = pcp_new_server(t, ip, scope, mem)
    PROVE  Found(t, at, ip, scope)
<1>1. \A j \in 1..Len(t) :
          ~(InUse(t, j) /\ t[j].ip = ip /\ t[j].scope = ScopeOf(ip, scope))
  BY LookedUp
<1>2. NewServer(ip, scope).ip = ip /\ NewServer(ip, scope).scope = ScopeOf(ip, scope)
  BY DEF NewServer
<1>3. /\ at.t \in Seq(Slot) /\ at.i \in 0..Len(at.t) /\ Len(t) <= Len(at.t)
      /\ \A j \in 1..Len(at.t) : j # at.i => (InUse(at.t, j) <=> InUse(t, j))
      /\ \A j \in 1..Len(at.t) : j # at.i /\ InUse(t, j) => at.t[j] = t[j]
      /\ at.i # 0 => ~InUse(t, at.i) /\ at.t[at.i] = NewServer(ip, scope)
  BY NewSlot
<1> QED
  BY <1>1, <1>2, <1>3 DEF Found

\* The start of psd_add_pcp_server.
LEMMA LookupIsFound ==
    ASSUME servers \in Seq(Slot), NEW ip \in Ips, NEW scope \in Scope,
           NEW mem \in BOOLEAN,
           NEW at, at = Lookup(ip, scope, mem)
    PROVE  Found(servers, at, ip, scope)
<1> DEFINE i == get_pcp_server_by_ip(servers, ip, scope)
<1>1. CASE i = 0
  BY <1>1, NewIsFound DEF Lookup
<1>2. CASE i # 0
  <2>1. at = [t |-> servers, i |-> i]
    BY <1>2 DEF Lookup
  <2>2. /\ i \in 0..Len(servers) /\ InUse(servers, i)
        /\ servers[i].ip = ip /\ servers[i].scope = ScopeOf(ip, scope)
    BY <1>2, LookedUp
  <2> HIDE DEF i
  <2> QED
    BY <2>1, <2>2 DEF Found
<1> QED
  BY <1>1, <1>2

\* What is put into the slot.
LEMMA FoundIsPut ==
    ASSUME NEW t, NEW at, NEW ip, NEW scope, Found(t, at, ip, scope), at.i # 0,
           NEW z \in Slot, z.ip = ip,
           z.state # "unitialized" =>
               HasScope(z) /\ (~LinkSource => z.scope = ScopeOf(ip, scope)),
           NEW u, u = [at.t EXCEPT ![at.i] = z]
    PROVE  Puts(t, u, at.i, ip, scope) /\ at.i \in 1..Len(u) /\ u[at.i] = z
<1>1. at.t \in Seq(Slot) /\ at.i \in 1..Len(at.t)
  BY DEF Found
<1>2. /\ u \in Seq(Slot) /\ Len(u) = Len(at.t) /\ u[at.i] = z
      /\ \A j \in 1..Len(u) : j # at.i => u[j] = at.t[j]
  BY <1>1, ExceptSeq
<1>3. \A j \in 1..Len(u) : j # at.i =>
          (InUse(u, j) <=> InUse(t, j)) /\ (InUse(t, j) => u[j] = t[j])
  BY <1>2 DEF Found, InUse
<1>4. InUse(u, at.i) => z.state # "unitialized"
  BY <1>2 DEF InUse
<1>5. Len(t) <= Len(u) /\ at.i \in 0..Len(u)
  BY <1>2 DEF Found
<1>6. /\ InUse(t, at.i) => t[at.i].ip = ip /\ t[at.i].scope = ScopeOf(ip, scope)
      /\ ~InUse(t, at.i) => \A j \in 1..Len(t) :
            ~(InUse(t, j) /\ t[j].ip = ip /\ t[j].scope = ScopeOf(ip, scope))
  BY DEF Found
<1> QED
  BY <1>1, <1>2, <1>3, <1>4, <1>5, <1>6 DEF Puts

\* Without memory there is no slot.
LEMMA NoneIsPut ==
    ASSUME NEW t, NEW at, NEW ip, NEW scope, Found(t, at, ip, scope), at.i = 0
    PROVE  Puts(t, at.t, 0, ip, scope)
BY DEF Found, Puts

\* psd_add_pcp_server: the slot it is about, which it gives up only if no source
\* is found.
LEMMA ServerIsPut ==
    ASSUME NEW ip \in Ips, NEW scope \in Scope, NEW version \in AskedVersions,
           NEW mem \in BOOLEAN, TableInv(servers),
           psd_add_pcp_server(ip, scope, version, mem)
    PROVE  \E i \in Nat :
              /\ Puts(servers, servers', i, ip, scope)
              /\ Steady /\ (Ipv6Socket \/ ip \in V4) /\ i # 0 /\ InUse(servers, i)
                    => InUse(servers', i)
              /\ \/ Done(ip, scope, PCP_ERR_UNKNOWN)
                 \/ i # 0 /\ InUse(servers', i) /\ Done(ip, scope, i - 1)
<1> DEFINE at    == Lookup(ip, scope, mem)
           slot  == [at.t[at.i] EXCEPT !.version = version]
           fills == psd_fill_pcp_server_src(slot)
           lost  == [slot EXCEPT !.state = "unitialized"]
<1>1. Found(servers, at, ip, scope)
  BY LookupIsFound DEF TableInv
<1>2. \/ at.i = 0 /\ servers' = at.t /\ Done(ip, scope, PCP_ERR_UNKNOWN)
      \/ /\ at.i # 0 /\ (fills = {} \/ NoSource(ip, InUse(servers, at.i)))
         /\ servers' = Failed([at.t EXCEPT ![at.i] = slot], at.i)
         /\ Done(ip, scope, PCP_ERR_UNKNOWN)
      \/ /\ at.i # 0 /\ \E filled \in fills : servers' = [at.t EXCEPT ![at.i] = filled]
         /\ Done(ip, scope, at.i - 1)
  BY DEF psd_add_pcp_server
<1> HIDE DEF at
<1>3. at.i \in Nat /\ at.t \in Seq(Slot) /\ (at.i # 0 => at.i \in 1..Len(at.t))
  BY <1>1 DEF Found
<1>4. CASE at.i = 0
  <2>1. servers' = at.t /\ Done(ip, scope, PCP_ERR_UNKNOWN)
    BY <1>2, <1>4
  <2> QED
    BY <1>1, <1>3, <1>4, <2>1, NoneIsPut
<1>5. CASE at.i # 0
  <2>1. at.t[at.i] \in Slot /\ at.t[at.i].ip = ip /\ at.t[at.i].scope = ScopeOf(ip, scope)
    BY <1>1, <1>3, <1>5 DEF Found
  <2>2. slot \in Slot /\ slot.ip = ip /\ slot.scope = ScopeOf(ip, scope)
    BY <2>1 DEF Slot
  <2>3. lost \in Slot /\ lost.ip = ip /\ lost.state = "unitialized"
    BY <2>1 DEF Slot
  <2>4. Failed([at.t EXCEPT ![at.i] = slot], at.i) = [at.t EXCEPT ![at.i] = lost]
    BY <1>3, <1>5 DEF Failed
  <2>5. InUse(servers, at.i) => HasScope(slot)
    <3>1. InUse(servers, at.i) => HasScope(servers[at.i]) /\ at.t[at.i] = servers[at.i]
      BY <1>1, <1>5 DEF Found, TableInv, Sourced, InUse
    <3> QED
      BY <2>1, <2>2, <3>1 DEF HasScope
  <2> HIDE DEF slot, lost
  <2>6. CASE /\ fills = {} \/ NoSource(ip, InUse(servers, at.i))
             /\ servers' = Failed([at.t EXCEPT ![at.i] = slot], at.i)
             /\ Done(ip, scope, PCP_ERR_UNKNOWN)
    <3>1. Puts(servers, servers', at.i, ip, scope)
      BY <1>1, <1>5, <2>3, <2>4, <2>6, FoundIsPut
    <3>2. ~(Steady /\ (Ipv6Socket \/ ip \in V4) /\ InUse(servers, at.i))
      BY <2>2, <2>5, <2>6, Fillable DEF NoSource
    <3> QED
      BY <1>3, <2>6, <3>1, <3>2
  <2>7. CASE /\ \E filled \in fills : servers' = [at.t EXCEPT ![at.i] = filled]
             /\ Done(ip, scope, at.i - 1)
    <3>1. PICK filled \in fills : servers' = [at.t EXCEPT ![at.i] = filled]
      BY <2>7
    <3>2. /\ filled \in Slot /\ filled.ip = ip /\ filled.state = "ping" /\ HasScope(filled)
          /\ ~LinkSource => filled.scope = ScopeOf(ip, scope)
      BY <2>2, Filled
    <3>3. /\ Puts(servers, servers', at.i, ip, scope)
          /\ at.i \in 1..Len(servers') /\ servers'[at.i] = filled
      BY <1>1, <1>5, <3>1, <3>2, FoundIsPut
    <3>4. InUse(servers', at.i)
      BY <3>2, <3>3 DEF InUse
    <3> QED
      BY <1>3, <1>5, <2>7, <3>3, <3>4
  <2> QED
    BY <1>2, <1>5, <2>6, <2>7
<1> QED
  BY <1>4, <1>5

\* A server has the address and the scope of gateway gw.
Serves(t, gw) ==
    \E i \in 1..Len(t) : /\ InUse(t, i) /\ t[i].ip = gw.ip
                         /\ t[i].scope = ScopeOf(gw.ip, gw.scope)

\* The slots in use are the same in u.
Same(t, u) == \A i \in 1..Len(t) : InUse(t, i) => InUse(u, i) /\ u[i] = t[i]

\* One gateway leaves the servers alone; with memory it is one afterwards, if it is
\* an address.
LEMMA GatewayIsPut ==
    ASSUME NEW t, TableInv(t), NEW gw \in Gateway, NEW mem \in BOOLEAN,
           NEW u \in AddGateway(t, gw, mem)
    PROVE  /\ TableInv(u) /\ Same(t, u)
           /\ ~LinkSource /\ mem /\ gw.ip \notin NoAddr => Serves(u, gw)
<1>0. /\ gw.ip \in Ips /\ gw.scope \in Scope /\ t \in Seq(Slot)
      /\ gw.ip = "link_local" => gw.scope # 0
  BY DEF Gateway, TableInv
<1>1. CASE gw.ip \in NoAddr \/ get_pcp_server_by_ip(t, gw.ip, gw.scope) # 0
  <2>1. u = t
    BY <1>1 DEF AddGateway
  <2>2. Same(t, t)
    BY DEF Same
  <2>3. gw.ip \notin NoAddr => Serves(t, gw)
    BY <1>0, <1>1, LookedUp DEF InUse, Serves
  <2> QED
    BY <2>1, <2>2, <2>3
<1>2. CASE gw.ip \notin NoAddr /\ get_pcp_server_by_ip(t, gw.ip, gw.scope) = 0
  <2> DEFINE at == pcp_new_server(t, gw.ip, gw.scope, mem)
  <2>1. Found(t, at, gw.ip, gw.scope)
    BY <1>0, <1>2, NewIsFound
  <2>2. (mem => at.i # 0) /\ (at.i # 0 => ~InUse(t, at.i) /\ at.t[at.i] = NewServer(gw.ip, gw.scope))
    BY <1>0, NewSlot
  <2>3. \/ at.i = 0 /\ u = at.t
        \/ /\ at.i # 0
           /\ \E z \in {at.t[at.i]} \cup psd_fill_pcp_server_src(at.t[at.i]) :
                 u = [at.t EXCEPT ![at.i] = z]
    BY <1>2 DEF AddGateway
  <2> HIDE DEF at
  <2>4. CASE at.i = 0
    <3>1. Puts(t, u, 0, gw.ip, gw.scope)
      BY <2>1, <2>3, <2>4, NoneIsPut
    <3>2. Same(t, u)
      BY <1>0, <3>1 DEF Puts, Same, InUse
    <3> QED
      BY <2>2, <2>4, <3>1, <3>2, PutsKeepsOrder
  <2>5. CASE at.i # 0
    <3> DEFINE new == NewServer(gw.ip, gw.scope)
    <3>1. /\ new \in Slot /\ new.ip = gw.ip /\ new.state = "allocated"
          /\ new.scope = ScopeOf(gw.ip, gw.scope) /\ HasScope(new)
      BY <1>0 DEF NewServer, Slot, ScopeOf, Scope, HasScope
    <3> HIDE DEF new
    <3>2. PICK z \in {new} \cup psd_fill_pcp_server_src(new) : u = [at.t EXCEPT ![at.i] = z]
      BY <2>2, <2>3, <2>5 DEF new
    <3>3. /\ z \in Slot /\ z.ip = gw.ip /\ z.state # "unitialized" /\ HasScope(z)
          /\ ~LinkSource => z.scope = ScopeOf(gw.ip, gw.scope)
      BY <3>1, Filled
    <3>4. Puts(t, u, at.i, gw.ip, gw.scope) /\ at.i \in 1..Len(u) /\ u[at.i] = z
      BY <2>1, <2>5, <3>2, <3>3, FoundIsPut
    <3>5. ~LinkSource => Serves(u, gw)
      BY <3>3, <3>4 DEF InUse, Serves
    <3>6. Same(t, u)
      BY <1>0, <2>2, <2>5, <3>4 DEF Puts, Same, InUse
    <3> QED
      BY <3>4, <3>5, <3>6, PutsKeepsOrder
  <2> QED
    BY <2>4, <2>5
<1> QED
  BY <1>1, <1>2

-----------------------------------------------------------------------------
\* A flow has the index of a slot that is in use, with the address of its key.
FlowsFit == \A f \in flows : InUse(servers, f.indx) /\ servers[f.indx].ip = f.ip

\* pcp_init puts the gateways into the table.
LEMMA GatewaysArePut ==
    ASSUME NEW g \in Gateway, NEW h \in Gateway, NEW mem \in BOOLEAN,
           TableInv(servers), psd_add_gws(<<g, h>>, mem)
    PROVE  /\ TableInv(servers)' /\ Kept(servers, servers')
           /\ ~LinkSource => GatewaysAreServers'
<1>1. PICK u \in AddGateway(servers, g, mem) : servers' \in AddGateway(u, h, mem)
  BY DEF psd_add_gws, AfterGateways
<1>2. /\ TableInv(u) /\ Same(servers, u)
      /\ ~LinkSource /\ mem /\ g.ip \notin NoAddr => Serves(u, g)
  BY <1>1, GatewayIsPut
<1>3. /\ TableInv(servers') /\ Same(u, servers')
      /\ ~LinkSource /\ mem /\ h.ip \notin NoAddr => Serves(servers', h)
  BY <1>1, <1>2, GatewayIsPut
<1>4. Kept(servers, servers')
  BY <1>2, <1>3 DEF Kept, Same, InUse
<1>5. ~LinkSource /\ mem /\ g.ip \notin NoAddr => Serves(servers', g)
  BY <1>2, <1>3 DEF Serves, Same, InUse
<1>6. last'.gws = <<g, h>> /\ (last'.ret = 0 => mem)
  BY DEF psd_add_gws, NoCall, PCP_ERR_NO_MEM
<1>7. \A e \in Gateway : Serves(servers', e) => get_pcp_server_by_ip(servers', e.ip, e.scope) # 0
  BY <1>3, LookedUp DEF Serves, TableInv
<1>8. ~LinkSource => GatewaysAreServers'
  BY <1>3, <1>5, <1>6, <1>7 DEF GatewaysAreServers
<1> QED
  BY <1>3, <1>4, <1>8 DEF TableInv, Sourced, Distinct, InUse, HasScope

\* A call that puts one server into the table.
LEMMA AddIsPut ==
    ASSUME NEW ip \in Ips \ NoAddr, NEW scope \in Scope, NEW v \in AskedVersions,
           NEW mem \in BOOLEAN, TableInv(servers), pcp_add_server(ip, scope, v, mem)
    PROVE  /\ TableInv(servers')
           /\ Steady /\ (Ipv6Socket \/ ip \in V4) => Kept(servers, servers')
           /\ ~LinkSource => AddIsFound'
           /\ last'.call = "add" /\ flows' = flows
<1>1. CASE v > PCP_MAX_SUPPORTED_VERSION
  <2>1. servers' = servers /\ flows' = flows /\ Done(ip, scope, PCP_ERR_UNSUP_VERSION)
    BY <1>1 DEF pcp_add_server
  <2>2. last'.call = "add" /\ ~(last'.ret >= 0)
    BY <2>1 DEF Done, PCP_ERR_UNSUP_VERSION
  <2> QED
    BY <2>1, <2>2 DEF Kept, AddIsFound
<1>2. CASE ~(v > PCP_MAX_SUPPORTED_VERSION)
  <2>1. psd_add_pcp_server(ip, scope, v, mem) /\ flows' = flows
    BY <1>2 DEF pcp_add_server
  <2>2. PICK i \in Nat :
            /\ Puts(servers, servers', i, ip, scope)
            /\ Steady /\ (Ipv6Socket \/ ip \in V4) /\ i # 0 /\ InUse(servers, i)
                  => InUse(servers', i)
            /\ \/ Done(ip, scope, PCP_ERR_UNKNOWN)
               \/ i # 0 /\ InUse(servers', i) /\ Done(ip, scope, i - 1)
    BY <2>1, ServerIsPut
  <2>3. TableInv(servers')
    BY <2>2, PutsKeepsOrder
  <2>4. Steady /\ (Ipv6Socket \/ ip \in V4) => Kept(servers, servers')
    BY <2>2, PutsKeeps DEF TableInv
  <2>5. CASE Done(ip, scope, PCP_ERR_UNKNOWN)
    <3>1. last'.call = "add" /\ ~(last'.ret >= 0)
      BY <2>5 DEF Done, PCP_ERR_UNKNOWN
    <3> QED
      BY <2>1, <2>3, <2>4, <3>1 DEF AddIsFound
  <2>6. CASE i # 0 /\ InUse(servers', i) /\ Done(ip, scope, i - 1)
    <3>1. last'.call = "add" /\ last'.ret = i - 1 /\ last'.ip = ip /\ last'.scope = scope
      BY <2>6 DEF Done
    <3>2. ASSUME ~LinkSource PROVE get_pcp_server_by_ip(servers', ip, scope) = i
      <4>1. servers'[i].ip = ip /\ servers'[i].scope = ScopeOf(ip, scope) /\ i \in 1..Len(servers')
        BY <2>2, <2>6, <3>2 DEF Puts
      <4> DEFINE k == get_pcp_server_by_ip(servers', ip, scope)
      <4>2. /\ k \in 0..Len(servers') /\ k # 0 /\ InUse(servers', k)
            /\ servers'[k].ip = ip /\ servers'[k].scope = ScopeOf(ip, scope)
        BY <2>3, <2>6, <4>1, LookedUp DEF TableInv
      <4> HIDE DEF k
      <4>3. k = i
        BY <2>3, <2>6, <3>2, <4>1, <4>2 DEF TableInv, Distinct, InUse
      <4> QED
        BY <4>3 DEF k
    <3>3. ~LinkSource => AddIsFound'
      BY <3>1, <3>2 DEF AddIsFound
    <3> QED
      BY <2>1, <2>3, <2>4, <3>1, <3>3
  <2> QED
    BY <2>2, <2>5, <2>6
<1> QED
  BY <1>1, <1>2

\* The table is in order, and what the last call promised holds.
OrderInv == TableInv(servers) /\ (~LinkSource => AddIsFound /\ GatewaysAreServers)

\* It is so in an empty table.
LEMMA EmptyOrder == TableInit => OrderInv /\ FlowsFit
BY DEF TableInit, OrderInv, FlowsFit, TableInv, Sourced, Distinct, InUse, AddIsFound,
       GatewaysAreServers, NoCall

\* Every step keeps it, and the slots of the flows if a known server has a source.
LEMMA NextOrder ==
    ASSUME OrderInv, [TableNext]_tablevars
    PROVE  /\ OrderInv'
           /\ FlowsFit /\ Steady /\ (Ipv6Socket \/ Ips \subseteq V4) => FlowsFit'
<1>1. ASSUME NEW ip \in Ips \ NoAddr, NEW scope \in Scope, NEW v \in AskedVersions,
             NEW mem \in BOOLEAN, pcp_add_server(ip, scope, v, mem)
      PROVE  /\ OrderInv'
             /\ FlowsFit /\ Steady /\ (Ipv6Socket \/ Ips \subseteq V4) => FlowsFit'
  <2>1. /\ TableInv(servers')
        /\ Steady /\ (Ipv6Socket \/ ip \in V4) => Kept(servers, servers')
        /\ ~LinkSource => AddIsFound'
        /\ last'.call = "add" /\ flows' = flows
    BY <1>1, AddIsPut DEF OrderInv
  <2>2. GatewaysAreServers'
    BY <2>1 DEF GatewaysAreServers
  <2>3. FlowsFit /\ Kept(servers, servers') => FlowsFit'
    BY <2>1 DEF FlowsFit, Kept, InUse
  <2> QED
    BY <2>1, <2>2, <2>3 DEF OrderInv
<1>2. ASSUME NEW g \in Gateway, NEW h \in Gateway, NEW mem \in BOOLEAN,
             psd_add_gws(<<g, h>>, mem)
      PROVE  OrderInv' /\ (FlowsFit => FlowsFit')
  <2>1. /\ TableInv(servers)' /\ Kept(servers, servers')
        /\ ~LinkSource => GatewaysAreServers'
    BY <1>2, GatewaysArePut DEF OrderInv
  <2>2. last'.call = "gws" /\ flows' = flows
    BY <1>2 DEF psd_add_gws, NoCall
  <2>3. AddIsFound'
    BY <2>2 DEF AddIsFound
  <2>4. FlowsFit => FlowsFit'
    BY <2>1, <2>2 DEF FlowsFit, Kept, InUse
  <2> QED
    BY <2>1, <2>3, <2>4 DEF OrderInv
<1>3. ASSUME NEW i \in Indices, NewFlow(i)
      PROVE  OrderInv' /\ (FlowsFit => FlowsFit')
  <2>1. servers' = servers /\ last' = NoCall
    BY <1>3 DEF NewFlow
  <2>2. AddIsFound' /\ GatewaysAreServers'
    BY <2>1 DEF AddIsFound, GatewaysAreServers, NoCall
  <2>3. FlowsFit => FlowsFit'
    BY <1>3, <2>1 DEF FlowsFit, NewFlow
  <2> QED
    BY <2>1, <2>2, <2>3 DEF OrderInv
<1>4. ASSUME pcp_db_free_pcp_servers PROVE OrderInv' /\ FlowsFit'
  <2>1. servers' = <<>> /\ flows' = {} /\ last' = NoCall
    BY <1>4 DEF pcp_db_free_pcp_servers
  <2> QED
    BY <2>1 DEF OrderInv, FlowsFit, TableInv, Sourced, Distinct, InUse, AddIsFound,
                GatewaysAreServers, NoCall
<1>5. ASSUME UNCHANGED tablevars PROVE OrderInv' /\ (FlowsFit => FlowsFit')
  <2>1. servers' = servers /\ flows' = flows /\ last' = last
    BY <1>5 DEF tablevars
  <2>2. AddIsFound' <=> AddIsFound
    BY <2>1 DEF AddIsFound
  <2>3. GatewaysAreServers' <=> GatewaysAreServers
    BY <2>1 DEF GatewaysAreServers
  <2> QED
    BY <2>1, <2>2, <2>3 DEF OrderInv, FlowsFit
<1> QED
  BY <1>1, <1>2, <1>3, <1>4, <1>5 DEF TableNext

\* pcp_add_server and discovery: a server that was added is found by its address
\* and scope, every gateway is found by its own, and no two servers have the same
\* address and scope, as long as the kernel chooses no interface by itself.
THEOREM AddedAreFound == ASSUME ~LinkSource PROVE TableSpec => []ServersAreFound
<1>1. OrderInv => ServersAreFound
  BY DEF OrderInv, TableInv, Distinct, ServersAreFound, NoTwins, Indices
<1> QED
  BY <1>1, EmptyOrder, NextOrder, PTL DEF TableSpec

\* The index that a flow keeps is that of its server, however slots are reused and
\* the array grows, if a server that has had a source address has one whenever it
\* is added again, and a socket that is not an IPv6 one meets no IPv6 address.
THEOREM FlowsKeepTheirServer ==
    ASSUME Steady, Ipv6Socket \/ Ips \subseteq V4
    PROVE  TableSpec => []FlowKeepsServer
<1>1. OrderInv /\ FlowsFit /\ [TableNext]_tablevars => (OrderInv /\ FlowsFit)'
  BY NextOrder
<1>2. FlowsFit => FlowKeepsServer
  BY DEF FlowsFit, FlowKeepsServer
<1> QED
  BY <1>1, <1>2, EmptyOrder, PTL DEF TableSpec

=============================================================================
