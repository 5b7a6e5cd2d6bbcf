---------------------------- MODULE FlowDb_proofs ----------------------------
(***************************************************************************)
(* Proofs about FlowDb, for any number of buckets, flows, keys and servers *)
(* and any hash: the chains stay sound, a lookup finds the oldest flow     *)
(* with its key as long as no nonce is rewritten, and the database         *)
(* implements FlowSet. And about NearestTimer, the search that goes        *)
(* through it, for any number of flows and any timers.                     *)
(***************************************************************************)
EXTENDS FlowDb, NearestTimer, TLAPS

\* Along a chain the flows get younger, and exactly the stored ones have an age.
AgesRise ==
    /\ \A f \in Flow : /\ born[f] <= clock
                       /\ born[f] # 0 <=> f \in Stored
    /\ \A b \in Bucket : \A i, j \in Pos(b) :
          i < j => born[flows[b][i]] < born[flows[b][j]]

\* The flow pcp_db_foreach_flow saved before a callback is in the chain that is
\* being walked.
CursorIsLinked ==
    it.status = "busy" /\ it.next # NoFlow => key_bucket[it.next] = it.indx

\* The callback's flow is in the chain being walked, in front of the saved one.
CursorOrder ==
    /\ it.status # "busy" => it = Off(it.status)
    /\ it.calling <=> it.cur # NoFlow
    /\ it.cur # NoFlow =>
          /\ it.cur \in Stored /\ key_bucket[it.cur] = it.indx
          /\ it.cur # it.next

\* Flows are where their key hashes to, unless their nonce was set.
Placed == \A f \in Stored \ rekeyed : key_bucket[f] = Hash[kd[f]]

IInv == /\ TypeOK /\ ChainsMatchBuckets /\ CursorIsLinked
        /\ AgesRise /\ CursorOrder /\ Placed

-----------------------------------------------------------------------------
\* The filler of a free address is a key and a server.
LEMMA Fillers == NoKey \in Key /\ NoServer \in Server
BY SomeAssumption DEF NoKey, NoServer

\* Unlinking keeps the other flows of the chain, in their order.
LEMMA UnlinkFacts ==
    ASSUME NEW c \in Seq(Flow), NEW i \in 1 .. Len(c)
    PROVE  /\ Unlink(c, i) \in Seq(Flow)
           /\ Len(Unlink(c, i)) = Len(c) - 1
           /\ \A j \in 1 .. Len(c) - 1 :
                 Unlink(c, i)[j] = IF j < i THEN c[j] ELSE c[j + 1]
<1> DEFINE n == Len(c) - 1
<1>1. n \in Nat /\ Len(c) \in Nat  OBVIOUS
<1>2. \A j \in 1 .. n : (IF j < i THEN c[j] ELSE c[j + 1]) \in Flow
  BY <1>1
<1>3. Unlink(c, i) \in [1 .. n -> Flow]
  BY <1>2 DEF Unlink
<1>4. Unlink(c, i) \in Seq(Flow)
  BY <1>1, <1>3
<1>5. Len(Unlink(c, i)) = n
  BY <1>1, <1>3, <1>4
<1> QED BY <1>4, <1>5 DEF Unlink

\* Appending keeps every flow of the chain where it is.
LEMMA AppendFacts ==
    ASSUME NEW c \in Seq(Flow), NEW f \in Flow
    PROVE  /\ Append(c, f) \in Seq(Flow)
           /\ Len(Append(c, f)) = Len(c) + 1
           /\ Append(c, f)[Len(c) + 1] = f
           /\ \A j \in 1 .. Len(c) : Append(c, f)[j] = c[j]
OBVIOUS

\* A flow of a chain is a flow, stored in that bucket.
LEMMA Linked ==
    ASSUME TypeOK, ChainsMatchBuckets
    PROVE  /\ \A b \in Bucket : /\ Len(flows[b]) \in Nat
                                /\ \A i \in Pos(b) : /\ flows[b][i] \in Flow
                                                     /\ flows[b][i] \in Stored
           /\ \A f \in Stored : key_bucket[f] \in Bucket /\ f \in Flow
BY NoneAssumption DEF TypeOK, ChainsMatchBuckets, Stored, Pos

\* pcp_db_rem_flow unlinks the flow from the place where it is.
LEMMA RemUnlinks ==
    ASSUME TypeOK, ChainsMatchBuckets, NEW f \in Stored, pcp_db_rem_flow(f)
    PROVE  \E i \in Pos(key_bucket[f]) :
              /\ flows[key_bucket[f]][i] = f
              /\ flows' = [flows EXCEPT ![key_bucket[f]] = Unlink(flows[key_bucket[f]], i)]
BY DEF pcp_db_rem_flow, ChainsMatchBuckets

\* What a removal leaves of the chains: one shorter, the others in order.
LEMMA RemChains ==
    ASSUME TypeOK, ChainsMatchBuckets, NEW f \in Stored,
           NEW i \in Pos(key_bucket[f]), flows[key_bucket[f]][i] = f,
           flows' = [flows EXCEPT ![key_bucket[f]] = Unlink(flows[key_bucket[f]], i)]
    PROVE  /\ flows' \in [Bucket -> Seq(Flow)]
           /\ \A b \in Bucket : b # key_bucket[f] => flows'[b] = flows[b]
           /\ Len(flows'[key_bucket[f]]) = Len(flows[key_bucket[f]]) - 1
           /\ \A j \in 1 .. Len(flows[key_bucket[f]]) - 1 :
                 flows'[key_bucket[f]][j] = IF j < i THEN flows[key_bucket[f]][j]
                                            ELSE flows[key_bucket[f]][j + 1]
<1> DEFINE b == key_bucket[f]
<1>1. b \in Bucket /\ flows[b] \in Seq(Flow)  BY Linked DEF TypeOK
<1>2. i \in 1 .. Len(flows[b])  BY DEF Pos
<1> DEFINE c == flows[b]
<1>3. flows' = [flows EXCEPT ![b] = Unlink(c, i)]  OBVIOUS
<1> HIDE DEF b, c
<1>4. flows'[b] = Unlink(c, i)  BY <1>1, <1>3 DEF TypeOK
<1>5. c \in Seq(Flow) /\ i \in 1 .. Len(c)  BY <1>1, <1>2 DEF b, c
<1>6. /\ Unlink(c, i) \in Seq(Flow) /\ Len(Unlink(c, i)) = Len(c) - 1
      /\ \A j \in 1 .. Len(c) - 1 : Unlink(c, i)[j] = IF j < i THEN c[j] ELSE c[j + 1]
  BY <1>5, UnlinkFacts
<1>7. flows' \in [Bucket -> Seq(Flow)] /\ \A x \in Bucket : x # b => flows'[x] = flows[x]
  BY <1>1, <1>3, <1>6 DEF TypeOK
<1> QED BY <1>4, <1>6, <1>7 DEF b, c

\* What an addition does to the chains.
LEMMA AddChains ==
    ASSUME TypeOK, NEW f \in Flow, NEW k \in Key, NEW s \in Server,
           pcp_db_add_flow(f, k, s)
    PROVE  /\ Hash[k] \in Bucket
           /\ flows' \in [Bucket -> Seq(Flow)]
           /\ \A b \in Bucket : b # Hash[k] => flows'[b] = flows[b]
           /\ Len(flows[Hash[k]]) \in Nat
           /\ Len(flows'[Hash[k]]) = Len(flows[Hash[k]]) + 1
           /\ flows'[Hash[k]][Len(flows[Hash[k]]) + 1] = f
           /\ \A j \in 1 .. Len(flows[Hash[k]]) : flows'[Hash[k]][j] = flows[Hash[k]][j]
<1> DEFINE h == Hash[k]
<1> DEFINE c == flows[h]
<1>1. h \in Bucket  BY HashAssumption
<1>2. c \in Seq(Flow)  BY <1>1 DEF TypeOK
<1>3. flows' = [flows EXCEPT ![h] = Append(c, f)]
  BY DEF pcp_db_add_flow
<1> HIDE DEF h, c
<1>4. flows'[h] = Append(c, f)  BY <1>1, <1>3 DEF TypeOK
<1>5. /\ Append(c, f) \in Seq(Flow) /\ Len(Append(c, f)) = Len(c) + 1
      /\ Append(c, f)[Len(c) + 1] = f /\ Len(c) \in Nat
      /\ \A j \in 1 .. Len(c) : Append(c, f)[j] = c[j]
  BY <1>2, AppendFacts
<1>6. flows' \in [Bucket -> Seq(Flow)] /\ \A b \in Bucket : b # h => flows'[b] = flows[b]
  BY <1>1, <1>3, <1>5 DEF TypeOK
<1> QED BY <1>1, <1>4, <1>5, <1>6 DEF h, c

-----------------------------------------------------------------------------
(* The invariant is inductive.                                              *)

LEMMA InitInv == Init => IInv
<1> SUFFICES ASSUME Init PROVE IInv  OBVIOUS
<1> USE DEF Init
<1>1. \A b \in Bucket : Len(flows[b]) = 0 /\ flows[b] \in Seq(Flow)  OBVIOUS
<1>2. TypeOK  BY <1>1, Fillers, HashAssumption DEF TypeOK, Iter, Off, Bucket
<1>3. Stored = {}  BY DEF Stored
<1>4. ChainsMatchBuckets /\ CursorIsLinked /\ AgesRise
  BY <1>1, <1>3 DEF ChainsMatchBuckets, CursorIsLinked, AgesRise, Pos, Off
<1>5. CursorOrder /\ Placed  BY <1>3 DEF CursorOrder, Placed, Off
<1> QED BY <1>2, <1>4, <1>5 DEF IInv

LEMMA AddInv ==
    ASSUME IInv, NEW f \in Flow, NEW k \in Key, NEW s \in Server,
           pcp_db_add_flow(f, k, s)
    PROVE  IInv'
<1> DEFINE h == Hash[k]
<1> DEFINE n == Len(flows[h])
<1>0. TypeOK /\ ChainsMatchBuckets  BY DEF IInv
<1>1. /\ h \in Bucket /\ flows' \in [Bucket -> Seq(Flow)] /\ n \in Nat
      /\ \A b \in Bucket : b # h => flows'[b] = flows[b]
      /\ Len(flows'[h]) = n + 1 /\ flows'[h][n + 1] = f
      /\ \A j \in 1 .. n : flows'[h][j] = flows[h][j]
  BY <1>0, AddChains
<1>2. /\ f \notin Stored
      /\ key_bucket' = [key_bucket EXCEPT ![f] = h]
      /\ born' = [born EXCEPT ![f] = clock + 1] /\ clock' = clock + 1 /\ it' = it
      /\ kd' = [kd EXCEPT ![f] = k] /\ indx' = [indx EXCEPT ![f] = s]
      /\ rekeyed' = rekeyed
  BY DEF pcp_db_add_flow
<1> HIDE DEF h, n
<1>3. TypeOK'
  BY <1>0, <1>1, <1>2 DEF TypeOK
<1>4. Stored' = Stored \cup {f} /\ \A g \in Stored : key_bucket'[g] = key_bucket[g]
  BY <1>0, <1>1, <1>2, NoneAssumption DEF TypeOK, Stored
<1>5. /\ \A b \in Bucket : \A i \in 1 .. Len(flows[b]) :
            flows[b][i] \in Flow /\ flows[b][i] \in Stored /\ flows[b][i] # f
      /\ \A b \in Bucket : Len(flows[b]) \in Nat
      /\ \A g \in Stored : key_bucket[g] \in Bucket
  BY <1>0, <1>2, Linked DEF Pos
<1>6. ChainsMatchBuckets'
  <2>1. \A b \in Bucket : \A i \in 1 .. Len(flows'[b]) : key_bucket'[flows'[b][i]] = b
    <3> SUFFICES ASSUME NEW b \in Bucket, NEW i \in 1 .. Len(flows'[b])
                 PROVE key_bucket'[flows'[b][i]] = b
      OBVIOUS
    <3>1. CASE i \in 1 .. Len(flows[b])
      <4>1. flows'[b][i] = flows[b][i]  BY <3>1, <1>1 DEF n
      <4>2. key_bucket[flows[b][i]] = b /\ flows[b][i] \in Stored
        BY <3>1, <1>0, <1>5 DEF ChainsMatchBuckets, Pos
      <4> QED BY <4>1, <4>2, <1>4
    <3>2. CASE i \notin 1 .. Len(flows[b])
      <4>1. b = h /\ i = n + 1  BY <3>2, <1>1, <1>5 DEF n
      <4> QED BY <4>1, <1>0, <1>1, <1>2 DEF TypeOK
    <3> QED BY <3>1, <3>2
  <2>2. \A g \in Stored' : \E i \in 1 .. Len(flows'[key_bucket'[g]]) :
           flows'[key_bucket'[g]][i] = g
    <3> SUFFICES ASSUME NEW g \in Stored'
                 PROVE \E i \in 1 .. Len(flows'[key_bucket'[g]]) : flows'[key_bucket'[g]][i] = g
      OBVIOUS
    <3>1. CASE g = f  BY <3>1, <1>0, <1>1, <1>2 DEF TypeOK
    <3>2. CASE g \in Stored
      <4>1. PICK i \in 1 .. Len(flows[key_bucket[g]]) : flows[key_bucket[g]][i] = g
        BY <3>2, <1>0 DEF ChainsMatchBuckets, Pos
      <4>2. key_bucket'[g] = key_bucket[g] /\ key_bucket[g] \in Bucket  BY <3>2, <1>4, <1>5
      <4>3. i \in 1 .. Len(flows'[key_bucket[g]]) /\ flows'[key_bucket[g]][i] = g
        <5>1. CASE key_bucket[g] = h  BY <5>1, <4>1, <1>1 DEF n
        <5>2. CASE key_bucket[g] # h  BY <5>2, <4>1, <4>2, <1>1
        <5> QED BY <5>1, <5>2
      <4> QED BY <4>2, <4>3
    <3> QED BY <3>1, <3>2, <1>4
  <2>3. \A b \in Bucket : \A i, j \in 1 .. Len(flows'[b]) :
           i # j => flows'[b][i] # flows'[b][j]
    <3> SUFFICES ASSUME NEW b \in Bucket, NEW i \in 1 .. Len(flows'[b]),
                        NEW j \in 1 .. Len(flows'[b]), i # j
                 PROVE flows'[b][i] # flows'[b][j]
      OBVIOUS
    <3>1. \A x, y \in 1 .. Len(flows[b]) : x # y => flows[b][x] # flows[b][y]
      BY <1>0 DEF ChainsMatchBuckets, Pos
    <3>2. CASE b # h  BY <3>1, <3>2, <1>1
    <3>3. CASE b = h
      <4>1. \A x \in 1 .. n : flows[h][x] # f  BY <1>1, <1>5 DEF n
      <4> QED BY <3>1, <3>3, <4>1, <1>1 DEF n
    <3> QED BY <3>2, <3>3
  <2> QED BY <2>1, <2>2, <2>3 DEF ChainsMatchBuckets, Pos
<1>7. CursorIsLinked' /\ CursorOrder'
  <2>1. it.status = "busy" /\ it.next # NoFlow => it.next \in Stored /\ key_bucket[it.next] = it.indx
    BY <1>0, NoneAssumption DEF IInv, CursorIsLinked, Stored, TypeOK, Iter
  <2>2. CursorIsLinked'  BY <2>1, <1>2, <1>4 DEF CursorIsLinked
  <2>3. CursorOrder'  BY <1>2, <1>4 DEF IInv, CursorOrder
  <2> QED BY <2>2, <2>3
<1>8. AgesRise'
  <2>1. \A g \in Flow : born'[g] <= clock' /\ (born'[g] # 0 <=> g \in Stored')
    BY <1>0, <1>2, <1>4 DEF IInv, AgesRise, TypeOK
  <2>2. \A b \in Bucket : \A i, j \in 1 .. Len(flows'[b]) :
           i < j => born'[flows'[b][i]] < born'[flows'[b][j]]
    <3> SUFFICES ASSUME NEW b \in Bucket, NEW i \in 1 .. Len(flows'[b]),
                        NEW j \in 1 .. Len(flows'[b]), i < j
                 PROVE born'[flows'[b][i]] < born'[flows'[b][j]]
      OBVIOUS
    <3>1. \A x, y \in 1 .. Len(flows[b]) : x < y => born[flows[b][x]] < born[flows[b][y]]
      BY DEF IInv, AgesRise, Pos
    <3>2. \A x \in 1 .. Len(flows[b]) : /\ born'[flows[b][x]] = born[flows[b][x]]
                                         /\ born[flows[b][x]] <= clock
      BY <1>0, <1>2, <1>5 DEF TypeOK, IInv, AgesRise
    <3>3. born'[f] = clock + 1 /\ clock \in Nat  BY <1>0, <1>2 DEF TypeOK
    <3>4. CASE b # h
      <4>1. flows'[b] = flows[b]  BY <3>4, <1>1
      <4> QED BY <3>1, <3>2, <4>1
    <3>5. CASE b = h /\ j \in 1 .. n
      <4>1. i \in 1 .. n  BY <3>5, <1>1
      <4>2. flows'[b][i] = flows[b][i] /\ flows'[b][j] = flows[b][j]
        BY <3>5, <4>1, <1>1
      <4>3. i \in 1 .. Len(flows[b]) /\ j \in 1 .. Len(flows[b])
        BY <3>5, <4>1 DEF n
      <4> QED BY <3>1, <3>2, <4>2, <4>3
    <3>6. CASE b = h /\ j = n + 1
      <4>1. i \in 1 .. n  BY <3>6, <1>1
      <4>2. born'[flows'[b][i]] <= clock  BY <3>2, <3>6, <4>1, <1>1 DEF n
      <4>3. born'[flows'[b][i]] \in Nat
        BY <4>1, <3>6, <1>0, <1>1, <1>3, <1>5 DEF TypeOK, n
      <4> QED BY <3>3, <3>6, <4>2, <4>3, <1>1
    <3> QED BY <3>4, <3>5, <3>6, <1>1
  <2> QED BY <2>1, <2>2 DEF AgesRise, Pos
<1>9. Placed'
  BY <1>0, <1>2, <1>4 DEF IInv, Placed, TypeOK, h, Stored
<1> QED BY <1>3, <1>6, <1>7, <1>8, <1>9 DEF IInv

\* What a deletion does to a traversal: nothing if it will not use the flow, and
\* nothing that matters if its callback ends with the flow it was given.
DeleteMoves(f) ==
    \/ (it.status = "busy" => f \notin {it.cur, it.next}) /\ it' = it
    \/ it.status = "busy" /\ f \in {it.cur, it.next} /\ it' = Off("undefined")
    \/ /\ it.status = "busy" /\ it.cur = f
       /\ it' = [it EXCEPT !.calling = FALSE, !.cur = NoFlow]

LEMMA Deletions ==
    /\ \A f \in Flow : pcp_delete_flow(f) => Delete(f) /\ DeleteMoves(f)
    /\ IInv /\ delete_flow_iter =>
          it.cur \in Flow /\ Delete(it.cur) /\ DeleteMoves(it.cur)
<1>1. \A f \in Flow : pcp_delete_flow(f) => Delete(f) /\ DeleteMoves(f)
  BY DEF pcp_delete_flow, DeleteMoves
<1>2. IInv /\ delete_flow_iter =>
         it.cur \in Flow /\ Delete(it.cur) /\ DeleteMoves(it.cur)
  BY DEF delete_flow_iter, DeleteMoves, IInv, TypeOK, Iter
<1> QED BY <1>1, <1>2

LEMMA DeleteInv ==
    ASSUME IInv, NEW f \in Flow, Delete(f), DeleteMoves(f)
    PROVE  IInv'
<1> DEFINE h == key_bucket[f]
<1> DEFINE n == Len(flows[h])
<1>0. TypeOK /\ ChainsMatchBuckets /\ f \in Stored  BY DEF IInv, Delete
<1>1. PICK i \in 1 .. n :
         /\ flows[h][i] = f /\ flows' = [flows EXCEPT ![h] = Unlink(flows[h], i)]
  BY <1>0, RemUnlinks DEF Delete, Pos
<1>2. /\ h \in Bucket /\ n \in Nat /\ flows' \in [Bucket -> Seq(Flow)]
      /\ \A b \in Bucket : b # h => flows'[b] = flows[b]
      /\ Len(flows'[h]) = n - 1
      /\ \A j \in 1 .. n - 1 : flows'[h][j] = IF j < i THEN flows[h][j] ELSE flows[h][j + 1]
  BY <1>0, <1>1, RemChains, Linked DEF Pos
<1>3. /\ key_bucket' = [key_bucket EXCEPT ![f] = EMPTY]
      /\ born' = [born EXCEPT ![f] = 0] /\ clock' = clock
      /\ kd' = [kd EXCEPT ![f] = NoKey] /\ indx' = [indx EXCEPT ![f] = NoServer]
      /\ rekeyed' = rekeyed \ {f}
  BY DEF Delete
<1>4. it' \in Iter
  <2>1. Off("undefined") \in Iter  BY HashAssumption DEF Off, Iter, Bucket
  <2>2. it \in Iter  BY DEF IInv, TypeOK
  <2>3. [it EXCEPT !.calling = FALSE, !.cur = NoFlow] \in Iter  BY <2>2 DEF Iter
  <2> QED BY <2>1, <2>2, <2>3 DEF DeleteMoves
<1> HIDE DEF h, n
<1>5. TypeOK'
  BY <1>0, <1>2, <1>3, <1>4, Fillers DEF TypeOK
<1>6. /\ Stored' = Stored \ {f}
      /\ \A g \in Stored : g # f => key_bucket'[g] = key_bucket[g] /\ born'[g] = born[g]
  BY <1>0, <1>3 DEF TypeOK, Stored
<1>7. /\ \A b \in Bucket : \A j \in 1 .. Len(flows[b]) :
            flows[b][j] \in Stored /\ key_bucket[flows[b][j]] = b
      /\ \A b \in Bucket : Len(flows[b]) \in Nat
      /\ \A g \in Stored : key_bucket[g] \in Bucket
      /\ \A b \in Bucket : \A x, y \in 1 .. Len(flows[b]) :
            x # y => flows[b][x] # flows[b][y]
  BY <1>0, Linked DEF Pos, ChainsMatchBuckets
\* Where the j-th flow of the new chain was before.
<1> DEFINE old(b, j) == IF b = h /\ j >= i THEN j + 1 ELSE j
<1>8. \A b \in Bucket : \A j \in 1 .. Len(flows'[b]) :
         /\ old(b, j) \in 1 .. Len(flows[b])
         /\ flows'[b][j] = flows[b][old(b, j)]
         /\ flows'[b][j] # f
  <2> SUFFICES ASSUME NEW b \in Bucket, NEW j \in 1 .. Len(flows'[b])
               PROVE /\ old(b, j) \in 1 .. Len(flows[b])
                     /\ flows'[b][j] = flows[b][old(b, j)]
                     /\ flows'[b][j] # f
    OBVIOUS
  <2>1. CASE b # h
    <3>1. key_bucket[f] = h  BY DEF h
    <3> QED BY <2>1, <3>1, <1>2, <1>7
  <2>2. CASE b = h
    <3>1. j \in 1 .. n - 1  BY <2>2, <1>2
    <3>2. old(b, j) \in 1 .. n /\ old(b, j) # i  BY <2>2, <3>1, <1>1, <1>2
    <3>3. flows'[b][j] = flows[b][old(b, j)]  BY <2>2, <3>1, <1>1, <1>2
    <3> QED BY <2>2, <3>2, <3>3, <1>1, <1>7, <1>2 DEF n
  <2> QED BY <2>1, <2>2
<1>9. \A b \in Bucket : \A x, y \in 1 .. Len(flows'[b]) :
         /\ x # y => old(b, x) # old(b, y)
         /\ x < y => old(b, x) < old(b, y)
  BY <1>1, <1>2
<1>10. \A g \in Stored : g # f =>
          \E j \in 1 .. Len(flows'[key_bucket[g]]) : flows'[key_bucket[g]][j] = g
  <2> SUFFICES ASSUME NEW g \in Stored, g # f
               PROVE \E j \in 1 .. Len(flows'[key_bucket[g]]) : flows'[key_bucket[g]][j] = g
    OBVIOUS
  <2>1. PICK x \in 1 .. Len(flows[key_bucket[g]]) : flows[key_bucket[g]][x] = g
    BY <1>0 DEF ChainsMatchBuckets, Pos
  <2>2. key_bucket[g] \in Bucket  BY <1>7
  <2>3. CASE key_bucket[g] # h  BY <2>1, <2>2, <2>3, <1>2
  <2>4. CASE key_bucket[g] = h
    <3>1. x \in 1 .. n /\ x # i  BY <2>1, <2>4, <1>1 DEF n
    <3>2. CASE x < i
      <4>1. x \in 1 .. n - 1 /\ flows'[h][x] = g  BY <2>1, <2>4, <3>1, <3>2, <1>1, <1>2
      <4> QED BY <4>1, <2>4, <1>2
    <3>3. CASE x > i
      <4>1. x - 1 \in 1 .. n - 1 /\ ~(x - 1 < i) /\ (x - 1) + 1 = x
        BY <3>1, <3>3, <1>1, <1>2
      <4>2. flows'[h][x - 1] = g  BY <2>1, <2>4, <4>1, <1>2
      <4> QED BY <4>1, <4>2, <2>4, <1>2
    <3> QED BY <3>1, <3>2, <3>3, <1>1, <1>2
  <2> QED BY <2>3, <2>4
<1> HIDE DEF old
<1>11. ChainsMatchBuckets'
  <2>1. \A b \in Bucket : \A j \in 1 .. Len(flows'[b]) : key_bucket'[flows'[b][j]] = b
    BY <1>6, <1>7, <1>8
  <2>2. \A g \in Stored' : \E j \in 1 .. Len(flows'[key_bucket'[g]]) :
           flows'[key_bucket'[g]][j] = g
    BY <1>6, <1>10
  <2>3. \A b \in Bucket : \A x, y \in 1 .. Len(flows'[b]) :
           x # y => flows'[b][x] # flows'[b][y]
    <3> SUFFICES ASSUME NEW b \in Bucket, NEW x \in 1 .. Len(flows'[b]),
                        NEW y \in 1 .. Len(flows'[b]), x # y
                 PROVE flows'[b][x] # flows'[b][y]
      OBVIOUS
    <3>1. /\ old(b, x) \in 1 .. Len(flows[b]) /\ old(b, y) \in 1 .. Len(flows[b])
          /\ flows'[b][x] = flows[b][old(b, x)] /\ flows'[b][y] = flows[b][old(b, y)]
      BY <1>8
    <3>2. old(b, x) # old(b, y)  BY <1>9
    <3> QED BY <3>1, <3>2, <1>7
  <2> QED BY <2>1, <2>2, <2>3 DEF ChainsMatchBuckets, Pos
<1>12. CursorIsLinked' /\ CursorOrder'
  <2>1. it.status = "busy" /\ it.next # NoFlow => it.next \in Stored /\ key_bucket[it.next] = it.indx
    BY <1>0, NoneAssumption DEF IInv, CursorIsLinked, Stored, TypeOK, Iter
  <2>2. CASE (it.status = "busy" => f \notin {it.cur, it.next}) /\ it' = it
    <3>1. CASE it.status # "busy"
      <4>1. it = Off(it.status)  BY <3>1 DEF IInv, CursorOrder
      <4>2. it.cur = NoFlow  BY <4>1 DEF Off
      <4> QED BY <2>2, <3>1, <4>2 DEF IInv, CursorIsLinked, CursorOrder
    <3>2. CASE it.status = "busy"
      BY <2>1, <2>2, <3>2, <1>6 DEF IInv, CursorIsLinked, CursorOrder
    <3> QED BY <3>1, <3>2
  <2>3. CASE it' = Off("undefined")
    BY <2>3 DEF Off, CursorIsLinked, CursorOrder
  <2>4. CASE /\ it.status = "busy" /\ it.cur = f
             /\ it' = [it EXCEPT !.calling = FALSE, !.cur = NoFlow]
    <3>1. /\ it'.status = it.status /\ it'.next = it.next /\ it'.indx = it.indx
          /\ it'.calling = FALSE /\ it'.cur = NoFlow
      BY <2>4 DEF IInv, TypeOK, Iter
    <3>2. it.next # f  BY <2>4, NoneAssumption DEF IInv, CursorOrder
    <3>3. CursorIsLinked'  BY <2>1, <3>1, <3>2, <1>6 DEF CursorIsLinked
    <3> QED BY <2>4, <3>1, <3>3 DEF CursorOrder
  <2> QED BY <2>2, <2>3, <2>4 DEF DeleteMoves
<1>13. AgesRise'
  <2>1. \A g \in Flow : born'[g] <= clock' /\ (born'[g] # 0 <=> g \in Stored')
    BY <1>0, <1>3, <1>6 DEF IInv, AgesRise, TypeOK
  <2>2. \A b \in Bucket : \A x, y \in 1 .. Len(flows'[b]) :
           x < y => born'[flows'[b][x]] < born'[flows'[b][y]]
    <3>1. \A b \in Bucket : \A x, y \in 1 .. Len(flows[b]) :
             x < y => born[flows[b][x]] < born[flows[b][y]]
      BY DEF IInv, AgesRise, Pos
    <3> SUFFICES ASSUME NEW b \in Bucket, NEW x \in 1 .. Len(flows'[b]),
                        NEW y \in 1 .. Len(flows'[b]), x < y
                 PROVE born'[flows'[b][x]] < born'[flows'[b][y]]
      OBVIOUS
    <3>2. /\ old(b, x) \in 1 .. Len(flows[b]) /\ old(b, y) \in 1 .. Len(flows[b])
          /\ flows'[b][x] = flows[b][old(b, x)] /\ flows'[b][y] = flows[b][old(b, y)]
          /\ flows'[b][x] # f /\ flows'[b][y] # f
      BY <1>8
    <3>3. old(b, x) < old(b, y)  BY <1>9
    <3>4. /\ born'[flows'[b][x]] = born[flows'[b][x]]
          /\ born'[flows'[b][y]] = born[flows'[b][y]]
      BY <3>2, <1>6, <1>7
    <3> QED BY <3>1, <3>2, <3>3, <3>4
  <2> QED BY <2>1, <2>2 DEF AgesRise, Pos
<1>14. Placed'
  BY <1>0, <1>3, <1>6 DEF IInv, Placed, TypeOK, Stored
<1> QED BY <1>5, <1>11, <1>12, <1>13, <1>14 DEF IInv

LEMMA NonceInv ==
    ASSUME IInv, NEW f \in Flow, NEW n \in Nonce, pcp_flow_set_nonce(f, n)
    PROVE  IInv'
<1>1. kd' \in [Flow -> Key]
  <2>1. kd[f] \in Body \X Nonce  BY DEF IInv, TypeOK, Key
  <2>2. <<kd[f][1], n>> \in Key  BY <2>1 DEF Key
  <2> QED BY <2>2 DEF IInv, TypeOK, pcp_flow_set_nonce
<1>2. /\ UNCHANGED <<flows, indx, key_bucket, it, born, clock>>
      /\ rekeyed' = rekeyed \cup {f} /\ \A g \in Flow \ {f} : kd'[g] = kd[g]
  BY DEF pcp_flow_set_nonce, IInv, TypeOK
<1>3. Stored' = Stored /\ \A b : Pos(b)' = Pos(b)  BY <1>2 DEF Stored, Pos
<1>4. TypeOK'  BY <1>1, <1>2 DEF IInv, TypeOK
<1>5. (ChainsMatchBuckets /\ CursorIsLinked)'
  BY <1>2, <1>3 DEF IInv, ChainsMatchBuckets, CursorIsLinked
<1>6. (AgesRise /\ CursorOrder)'  BY <1>2, <1>3 DEF IInv, AgesRise, CursorOrder
<1>7. Placed'  BY <1>2, <1>3 DEF IInv, Placed, Stored
<1> QED BY <1>4, <1>5, <1>6, <1>7 DEF IInv

\* The steps of a traversal only move its cursor.
LEMMA CursorInv ==
    ASSUME IInv, UNCHANGED <<flows, kd, indx, key_bucket, born, clock, rekeyed>>,
           it' \in Iter, CursorIsLinked', CursorOrder'
    PROVE  IInv'
<1>1. Stored' = Stored /\ \A b : Pos(b)' = Pos(b)  BY DEF Stored, Pos
<1>2. TypeOK' /\ ChainsMatchBuckets' /\ AgesRise' /\ Placed'
  BY <1>1 DEF IInv, TypeOK, ChainsMatchBuckets, AgesRise, Placed
<1> QED BY <1>2 DEF IInv

\* A call at place i of chain b leaves the cursor on linked flows.
LEMMA CallAtInv ==
    ASSUME IInv, UNCHANGED <<flows, kd, indx, key_bucket, born, clock, rekeyed>>,
           NEW b \in Bucket, NEW i \in 1 .. Len(flows[b]), CallAt(b, i)
    PROVE  IInv'
<1> DEFINE c == flows[b]
<1>1. /\ \A j \in 1 .. Len(c) : c[j] \in Stored /\ key_bucket[c[j]] = b /\ c[j] \in Flow
      /\ \A x, y \in 1 .. Len(c) : x # y => c[x] # c[y]
      /\ Len(c) \in Nat
  BY Linked DEF IInv, ChainsMatchBuckets, Pos
<1>2. /\ it'.status = "busy" /\ it'.calling = TRUE /\ it'.indx = b /\ it'.cur = c[i]
      /\ it'.next = IF i = Len(c) THEN NoFlow ELSE c[i + 1]
      /\ it' = [status |-> "busy", calling |-> TRUE, indx |-> b, cur |-> c[i],
                next |-> IF i = Len(c) THEN NoFlow ELSE c[i + 1]]
  BY DEF CallAt
<1> HIDE DEF c
<1>3. i \in 1 .. Len(c) /\ (i # Len(c) => i + 1 \in 1 .. Len(c))  BY <1>1 DEF c
<1>4. it'.next \in Flow \cup {NoFlow} /\ it'.cur \in Flow  BY <1>1, <1>2, <1>3
<1>5. it' \in Iter  BY <1>2, <1>4 DEF Iter
<1>6. Stored' = Stored  BY DEF Stored
<1>7. CursorIsLinked'  BY <1>1, <1>2, <1>3 DEF CursorIsLinked
<1>8. it'.cur # it'.next
  <2>1. CASE i = Len(c)  BY <2>1, <1>2, <1>4, NoneAssumption
  <2>2. CASE i # Len(c)
    <3>1. i + 1 \in 1 .. Len(c) /\ i + 1 # i  BY <2>2, <1>1, <1>3
    <3> QED BY <2>2, <3>1, <1>1, <1>2, <1>3
  <2> QED BY <2>1, <2>2
<1>9. CursorOrder'
  <2>1. it'.cur # NoFlow  BY <1>4, NoneAssumption
  <2>2. it'.calling <=> it'.cur # NoFlow  BY <2>1, <1>2
  <2> QED BY <2>2, <1>1, <1>2, <1>3, <1>6, <1>8 DEF CursorOrder
<1> QED BY <1>5, <1>7, <1>9, CursorInv

LEMMA ForeachInv ==
    ASSUME IInv, \/ ForeachBegin \/ ForeachCall \/ ForeachReturn
                 \/ ForeachEnd \/ ForeachUndefined
    PROVE  IInv'
<1>0. 0 \in Bucket /\ Buckets \in Nat /\ NoFlow \notin Flow
  BY HashAssumption, NoneAssumption DEF Bucket
<1>1. \A st \in {"idle", "busy", "found", "not_found", "undefined"} :
         /\ Off(st) \in Iter /\ Off(st).next = NoFlow /\ Off(st).cur = NoFlow
         /\ Off(st).status = st
  BY <1>0 DEF Off, Iter
<1>2. CASE ForeachBegin
  <2>1. flows[0] # <<>> =>
           flows[0][1] \in Flow /\ key_bucket[flows[0][1]] = 0
    <3>1. flows[0] \in Seq(Flow)  BY <1>0 DEF IInv, TypeOK
    <3>2. flows[0] # <<>> => 1 \in 1 .. Len(flows[0])  BY <3>1
    <3> QED BY <1>0, <3>1, <3>2 DEF IInv, ChainsMatchBuckets, Pos
  <2>2. /\ it' \in Iter /\ it'.status = "busy" /\ it'.indx = 0 /\ it'.cur = NoFlow
        /\ it'.calling = FALSE
        /\ it'.next = IF flows[0] = <<>> THEN NoFlow ELSE flows[0][1]
    BY <1>2, <1>0, <2>1 DEF ForeachBegin, Off, Iter
  <2>3. UNCHANGED <<flows, kd, indx, key_bucket, born, clock, rekeyed>>  BY <1>2 DEF ForeachBegin
  <2>4. CursorIsLinked' /\ CursorOrder'
    BY <2>1, <2>2, <2>3 DEF CursorIsLinked, CursorOrder
  <2> QED BY <2>2, <2>3, <2>4, CursorInv
<1>3. CASE ForeachCall
  <2>1. PICK b \in Bucket : \E i \in 1 .. Len(flows[b]) : CallAt(b, i)
    <3>1. CASE it.next # NoFlow
      BY <1>3, <3>1 DEF ForeachCall, Pos, IInv, TypeOK, Iter
    <3>2. CASE it.next = NoFlow
      <4>1. PICK b \in it.indx + 1 .. Buckets : flows[b] # <<>> /\ CallAt(b, 1)
        BY <1>3, <3>2 DEF ForeachCall
      <4>2. it.indx \in Bucket  BY DEF IInv, TypeOK, Iter
      <4>3. b \in Bucket  BY <1>0, <4>1, <4>2 DEF Bucket
      <4>4. flows[b] \in Seq(Flow)  BY <4>3 DEF IInv, TypeOK
      <4>5. 1 \in 1 .. Len(flows[b])  BY <4>1, <4>4
      <4> QED BY <4>1, <4>3, <4>5
    <3> QED BY <3>1, <3>2
  <2>2. UNCHANGED <<flows, kd, indx, key_bucket, born, clock, rekeyed>>  BY <1>3 DEF ForeachCall
  <2> QED BY <2>1, <2>2, CallAtInv
<1>4. CASE ForeachReturn
  <2>1. UNCHANGED <<flows, kd, indx, key_bucket, born, clock, rekeyed>>  BY <1>4 DEF ForeachReturn
  <2>2. CASE it' = Off("found")
    <3>1. CursorIsLinked' /\ CursorOrder'
      BY <1>1, <2>2 DEF CursorIsLinked, CursorOrder, Off
    <3> QED BY <1>1, <2>1, <2>2, <3>1, CursorInv
  <2>3. CASE it' = [it EXCEPT !.calling = FALSE, !.cur = NoFlow]
    <3>1. /\ it' \in Iter /\ it'.status = "busy" /\ it'.cur = NoFlow
          /\ it'.next = it.next /\ it'.indx = it.indx /\ it'.calling = FALSE
      BY <1>4, <2>3 DEF ForeachReturn, IInv, TypeOK, Iter
    <3>2. CursorIsLinked' /\ CursorOrder'
      BY <1>4, <2>1, <3>1 DEF ForeachReturn, IInv, CursorIsLinked, CursorOrder
    <3> QED BY <2>1, <3>1, <3>2, CursorInv
  <2> QED BY <1>4, <2>2, <2>3 DEF ForeachReturn
<1>5. CASE ForeachEnd
  <2>1. UNCHANGED <<flows, kd, indx, key_bucket, born, clock, rekeyed>> /\ it' = Off("not_found")
    BY <1>5 DEF ForeachEnd
  <2>2. CursorIsLinked' /\ CursorOrder'
    BY <1>1, <2>1 DEF CursorIsLinked, CursorOrder, Off
  <2> QED BY <1>1, <2>1, <2>2, CursorInv
<1>6. CASE ForeachUndefined
  <2>1. /\ UNCHANGED <<flows, kd, indx, key_bucket, born, clock, rekeyed>>
        /\ it' \in {Off("found"), Off("not_found")}
    BY <1>6 DEF ForeachUndefined
  <2>2. CursorIsLinked' /\ CursorOrder'
    BY <1>1, <2>1 DEF CursorIsLinked, CursorOrder, Off
  <2> QED BY <1>1, <2>1, <2>2, CursorInv
<1> QED BY <1>2, <1>3, <1>4, <1>5, <1>6

LEMMA StepInv == IInv /\ [Next]_vars => IInv'
<1> SUFFICES ASSUME IInv, [Next]_vars PROVE IInv'  OBVIOUS
<1>1. CASE \E f \in Flow, k \in Key, s \in Server : pcp_db_add_flow(f, k, s)
  BY <1>1, AddInv
<1>2. CASE (\E f \in Flow : pcp_delete_flow(f)) \/ delete_flow_iter
  BY <1>2, Deletions, DeleteInv
<1>3. CASE \E f \in Flow, n \in Nonce : pcp_flow_set_nonce(f, n)  BY <1>3, NonceInv
<1>4. CASE \/ ForeachBegin \/ ForeachCall \/ ForeachReturn
           \/ ForeachEnd \/ ForeachUndefined
  BY <1>4, ForeachInv
<1>5. CASE UNCHANGED vars
  <2>1. Stored' = Stored /\ \A b : Pos(b)' = Pos(b)  BY <1>5 DEF Stored, Pos, vars
  <2>2. TypeOK'  BY <1>5 DEF vars, IInv, TypeOK
  <2>3. ChainsMatchBuckets' /\ CursorIsLinked'
    BY <1>5, <2>1 DEF vars, IInv, ChainsMatchBuckets, CursorIsLinked
  <2>4. AgesRise'  BY <1>5, <2>1 DEF vars, IInv, AgesRise
  <2>5. CursorOrder' /\ Placed'
    BY <1>5, <2>1 DEF vars, IInv, CursorOrder, Placed
  <2> QED BY <2>2, <2>3, <2>4, <2>5 DEF IInv
<1> QED BY <1>1, <1>2, <1>3, <1>4, <1>5 DEF Next

LEMMA Invariance == Spec => []IInv
BY InitInv, StepInv, PTL DEF Spec

\* For any hash, and whatever is added, deleted or given another nonce between
\* traversals or during a callback, a flow sits in the one chain that its
\* key_bucket names, once: pcp_db_rem_flow, which looks only there, finds it.
THEOREM ChainsStaySound == Spec => []ChainsMatchBuckets
<1>1. IInv => ChainsMatchBuckets  BY DEF IInv
<1> QED BY <1>1, Invariance, PTL

-----------------------------------------------------------------------------
(* Lookup.                                                                  *)

LEMMA OldestFound ==
    ASSUME IInv, NEW f \in Flow, NEW k \in Key, NEW s \in Server,
           \A g \in rekeyed : kd[g] # k
    PROVE  pcp_get_flow(f, k, s) <=> S!IsOldest(f, k, s)
<1> DEFINE h == Hash[k]
<1> DEFINE c == flows[h]
<1>1. h \in Bucket  BY HashAssumption
<1>2. /\ Len(c) \in Nat
      /\ \A i \in 1 .. Len(c) : c[i] \in Flow /\ c[i] \in Stored
      /\ \A i, j \in 1 .. Len(c) : i < j => born[c[i]] < born[c[j]]
  BY <1>1, Linked DEF IInv, AgesRise, Pos
<1>3. S!Live = Stored  BY DEF S!Live, IInv, AgesRise, Stored
<1>4. \A g \in Stored : /\ g \in Flow /\ born[g] \in Nat
                        /\ kd[g] = k => \E j \in 1 .. Len(c) : c[j] = g
  <2>1. \A g \in Stored : g \in Flow /\ born[g] \in Nat  BY DEF IInv, Stored, TypeOK
  <2>2. \A g \in Stored : kd[g] = k => key_bucket[g] = h  BY DEF IInv, Placed
  <2>3. \A g \in Stored : \E j \in 1 .. Len(flows[key_bucket[g]]) : flows[key_bucket[g]][j] = g
    BY DEF IInv, ChainsMatchBuckets, Pos
  <2> HIDE DEF h
  <2>4. ASSUME NEW g \in Stored, kd[g] = k PROVE \E j \in 1 .. Len(c) : c[j] = g
    BY <2>2, <2>3, <2>4
  <2> QED BY <2>1, <2>4
<1> HIDE DEF h, c
<1>5. ASSUME pcp_get_flow(f, k, s) PROVE S!IsOldest(f, k, s)
  <2>1. PICK i \in 1 .. Len(c) :
           /\ c[i] = f /\ Matches(f, k, s)
           /\ \A j \in 1 .. i - 1 : ~Matches(c[j], k, s)
    BY <1>5 DEF pcp_get_flow, Pos, c, h
  <2>2. ASSUME NEW g \in Stored, kd[g] = k, indx[g] = s PROVE born[f] <= born[g]
    <3>1. PICK j \in 1 .. Len(c) : c[j] = g  BY <2>2, <1>4
    <3>2. ~(j < i)  BY <2>1, <2>2, <3>1, <1>2 DEF Matches
    <3>3. j = i \/ i < j  BY <3>2, <1>2
    <3> QED BY <2>1, <3>1, <3>3, <1>2, <1>4
  <2> QED BY <2>1, <2>2, <1>2, <1>3 DEF S!IsOldest, Matches
<1>6. ASSUME S!IsOldest(f, k, s) PROVE pcp_get_flow(f, k, s)
  <2>1. /\ f \in Stored /\ kd[f] = k /\ indx[f] = s
        /\ \A g \in Stored : kd[g] = k /\ indx[g] = s => born[f] <= born[g]
    BY <1>6, <1>3 DEF S!IsOldest
  <2>2. PICK i \in 1 .. Len(c) : c[i] = f  BY <2>1, <1>4
  <2>3. ASSUME NEW j \in 1 .. i - 1, Matches(c[j], k, s) PROVE FALSE
    <3>1. j \in 1 .. Len(c) /\ j < i  BY <1>2, <2>2, <2>3
    <3>2. born[c[j]] < born[f] /\ c[j] \in Stored  BY <3>1, <2>2, <1>2
    <3>3. born[f] <= born[c[j]]  BY <3>2, <2>1, <2>3 DEF Matches
    <3> QED BY <3>2, <3>3, <2>1, <1>4
  <2> QED BY <2>1, <2>2, <2>3 DEF pcp_get_flow, Matches, Pos, c, h
<1> QED BY <1>5, <1>6

\* For a key that no flow got from pcp_flow_set_nonce, pcp_get_flow returns the
\* oldest flow of the server with that key, and NULL only if there is none.
THEOREM LookupFindsOldest == Spec => []LookupIsOldest
<1>1. IInv => LookupIsOldest  BY OldestFound DEF LookupIsOldest
<1> QED BY <1>1, Invariance, PTL

-----------------------------------------------------------------------------
(* Refinement.  Along a chain place and age agree, so what is left to show  *)
(* can be told by ages.                                                     *)

TodoByAge ==
    IF it.status # "busy" THEN {}
    ELSE {f \in Stored :
            \/ key_bucket[f] > it.indx
            \/ /\ key_bucket[f] = it.indx /\ it.next # NoFlow
               /\ born[it.next] <= born[f]}

LEMMA TodoAge == IInv => Todo = TodoByAge
<1> SUFFICES ASSUME IInv, it.status = "busy" PROVE Todo = TodoByAge
  BY DEF Todo, TodoByAge
<1> DEFINE c == flows[it.indx]
<1>1. it.indx \in Bucket  BY DEF IInv, TypeOK, Iter
<1>2. /\ Len(c) \in Nat
      /\ \A i \in 1 .. Len(c) : c[i] \in Flow /\ born[c[i]] \in Nat
      /\ \A i, j \in 1 .. Len(c) : i < j => born[c[i]] < born[c[j]]
  BY <1>1, Linked DEF IInv, AgesRise, Pos, TypeOK
<1>3. \A g \in Stored : key_bucket[g] = it.indx => \E j \in 1 .. Len(c) : c[j] = g
  BY DEF IInv, ChainsMatchBuckets, Pos
<1>4. it.next # NoFlow => it.next \in Stored /\ key_bucket[it.next] = it.indx
  BY NoneAssumption, <1>1 DEF IInv, CursorIsLinked, Stored, TypeOK, Iter
<1> HIDE DEF c
<1>5. ASSUME NEW f \in Stored, key_bucket[f] = it.indx, it.next # NoFlow
      PROVE (\E i, j \in 1 .. Len(c) : c[i] = it.next /\ c[j] = f /\ i <= j)
              <=> born[it.next] <= born[f]
  <2>1. PICK x \in 1 .. Len(c) : c[x] = it.next  BY <1>3, <1>4, <1>5
  <2>2. PICK y \in 1 .. Len(c) : c[y] = f  BY <1>3, <1>5
  <2>3. x < y \/ x = y \/ y < x  BY <1>2
  <2>4. CASE x <= y
    BY <2>1, <2>2, <2>4, <1>2
  <2>5. CASE y < x
    <3>1. born[f] < born[it.next]  BY <2>1, <2>2, <2>5, <1>2
    <3>2. \A i, j \in 1 .. Len(c) : c[i] = it.next /\ c[j] = f => i = x /\ j = y
      <4> SUFFICES ASSUME NEW i \in 1 .. Len(c), NEW j \in 1 .. Len(c),
                          c[i] = it.next, c[j] = f
                   PROVE i = x /\ j = y
        OBVIOUS
      <4>1. ~(i < x) /\ ~(x < i)  BY <2>1, <1>2
      <4>2. ~(j < y) /\ ~(y < j)  BY <2>2, <1>2
      <4> QED BY <4>1, <4>2, <1>2
    <3> QED BY <2>1, <2>2, <2>5, <3>1, <3>2, <1>2
  <2> QED BY <2>4, <2>5, <1>2
<1> QED BY <1>5 DEF Todo, TodoByAge, Pos, c

LEMMA TodoAgeNext == IInv' => (Todo = TodoByAge)'
BY TodoAge, PTL

\* An addition: the new flow may come to lie behind the cursor.
LEMMA AddSim ==
    ASSUME IInv, IInv', NEW f \in Flow, NEW k \in Key, NEW s \in Server,
           pcp_db_add_flow(f, k, s)
    PROVE  S!Add(f, k, s)
<1> DEFINE h == Hash[k]
<1>1. h \in Bucket  BY HashAssumption
<1>2. /\ f \notin Stored /\ it' = it
      /\ key_bucket' = [key_bucket EXCEPT ![f] = h]
      /\ born' = [born EXCEPT ![f] = clock + 1] /\ clock' = clock + 1
      /\ kd' = [kd EXCEPT ![f] = k] /\ indx' = [indx EXCEPT ![f] = s]
  BY DEF pcp_db_add_flow
<1> HIDE DEF h
<1>3. Stored' = Stored \cup {f}
  BY <1>1, <1>2, NoneAssumption DEF IInv, TypeOK, Stored
<1>4. f \notin S!Live  BY <1>2 DEF S!Live, IInv, AgesRise
<1>5. \A g \in Stored : /\ key_bucket'[g] = key_bucket[g] /\ born'[g] = born[g]
                        /\ born[g] <= clock /\ born[g] \in Nat /\ g # f
  BY <1>2 DEF IInv, TypeOK, Stored, AgesRise
<1>6. /\ key_bucket'[f] = h /\ born'[f] = clock + 1 /\ clock \in Nat
      /\ h \in Nat /\ it.indx \in Nat
  BY <1>1, <1>2 DEF IInv, TypeOK, Bucket, Iter
<1>7. it.status = "busy" /\ it.next # NoFlow => it.next \in Stored
  BY NoneAssumption DEF IInv, CursorIsLinked, Stored, TypeOK, Iter
<1>8. TodoByAge' \in {TodoByAge, TodoByAge \cup {f}}
  <2>1. CASE it.status # "busy"  BY <2>1, <1>2 DEF TodoByAge
  <2>2. CASE it.status = "busy"
    <3>1. \A g \in Stored : g \in TodoByAge' <=> g \in TodoByAge
      BY <2>2, <1>2, <1>3, <1>5, <1>7 DEF TodoByAge
    <3>2. TodoByAge' \subseteq Stored \cup {f} /\ TodoByAge \subseteq Stored
      BY <1>3 DEF TodoByAge
    <3> QED BY <3>1, <3>2
  <2> QED BY <2>1, <2>2
<1>9. Todo' \in {Todo, Todo \cup {f}}  BY <1>8, TodoAge, TodoAgeNext
<1> QED BY <1>2, <1>4, <1>9 DEF S!Add

LEMMA DeleteSim ==
    ASSUME IInv, IInv', NEW f \in Flow, Delete(f), DeleteMoves(f)
    PROVE  S!Remove(f)
<1>1. /\ f \in Stored /\ clock' = clock
      /\ key_bucket' = [key_bucket EXCEPT ![f] = EMPTY]
      /\ born' = [born EXCEPT ![f] = 0]
      /\ kd' = [kd EXCEPT ![f] = NoKey] /\ indx' = [indx EXCEPT ![f] = NoServer]
  BY DEF Delete
<1>2. f \in S!Live  BY <1>1 DEF S!Live, IInv, AgesRise
<1>3. /\ Stored' = Stored \ {f}
      /\ \A g \in Stored : g # f => key_bucket'[g] = key_bucket[g] /\ born'[g] = born[g]
  BY <1>1 DEF IInv, TypeOK, Stored
<1>4. /\ it.status = "busy" /\ it.next # NoFlow =>
            it.next \in Stored /\ key_bucket[it.next] = it.indx
      /\ f # NoFlow
  BY NoneAssumption DEF IInv, CursorIsLinked, Stored, TypeOK, Iter
\* A deletion that leaves the saved flow alone.
<1>5. ASSUME it.status = "busy" => it.next # f,
             it'.status = it.status, it'.next = it.next, it'.indx = it.indx
      PROVE  Todo' = Todo \ {f}
  <2>1. CASE it.status # "busy"  BY <2>1, <1>5 DEF Todo
  <2>2. CASE it.status = "busy"
    <3>1. \A g \in Stored : g # f => (g \in TodoByAge' <=> g \in TodoByAge)
      BY <2>2, <1>3, <1>4, <1>5 DEF TodoByAge
    <3>2. TodoByAge' \subseteq Stored \ {f} /\ TodoByAge \subseteq Stored
      BY <1>3 DEF TodoByAge
    <3>3. TodoByAge' = TodoByAge \ {f}  BY <3>1, <3>2
    <3> QED BY <3>3, TodoAge, TodoAgeNext
  <2> QED BY <2>1, <2>2
<1>6. CASE (it.status = "busy" => f \notin {it.cur, it.next}) /\ it' = it
  <2>1. it.cur # f
    <3>1. CASE it.status # "busy"
      <4>1. it = Off(it.status)  BY <3>1 DEF IInv, CursorOrder
      <4> QED BY <4>1, <1>4 DEF Off
    <3> QED BY <3>1, <1>6
  <2>2. Todo' = Todo \ {f}  BY <1>5, <1>6
  <2> QED BY <1>1, <1>2, <1>6, <2>1, <2>2, Fillers DEF S!Remove
<1>7. CASE it.status = "busy" /\ f \in {it.cur, it.next} /\ it' = Off("undefined")
  <2>1. f \in Todo \cup {it.cur}
    <3>1. CASE f = it.next
      <4>1. born[f] <= born[f]  BY DEF IInv, TypeOK
      <4>2. f \in TodoByAge  BY <1>1, <1>4, <1>7, <3>1, <4>1 DEF TodoByAge
      <4> QED BY <4>2, TodoAge
    <3> QED BY <3>1, <1>7
  <2>2. /\ Todo' = {} /\ it'.status = "undefined" /\ it'.cur = NoFlow
    BY <1>7 DEF Off, Todo
  <2> QED BY <1>1, <1>2, <1>7, <2>1, <2>2, Fillers DEF S!Remove
<1>8. CASE /\ it.status = "busy" /\ it.cur = f
           /\ it' = [it EXCEPT !.calling = FALSE, !.cur = NoFlow]
  <2>1. /\ it'.status = it.status /\ it'.next = it.next /\ it'.indx = it.indx
        /\ it'.cur = NoFlow
    BY <1>8 DEF IInv, TypeOK, Iter
  <2>2. it.next # f  BY <1>4, <1>8 DEF IInv, CursorOrder
  <2>3. Todo' = Todo \ {f}  BY <1>5, <2>1, <2>2
  <2> QED BY <1>1, <1>2, <1>8, <2>1, <2>3, Fillers DEF S!Remove
<1> QED BY <1>6, <1>7, <1>8 DEF DeleteMoves

LEMMA NonceSim ==
    ASSUME IInv, NEW f \in Flow, NEW n \in Nonce, pcp_flow_set_nonce(f, n)
    PROVE  \E k \in Key : S!Rekey(f, k)
<1>1. kd[f] \in Body \X Nonce  BY DEF IInv, TypeOK, Key
<1>2. <<kd[f][1], n>> \in Key  BY <1>1 DEF Key
<1>3. /\ f \in Stored /\ kd' = [kd EXCEPT ![f] = <<kd[f][1], n>>]
      /\ UNCHANGED <<flows, indx, key_bucket, it, born, clock>>
  BY DEF pcp_flow_set_nonce
<1>4. f \in S!Live  BY <1>3 DEF S!Live, IInv, AgesRise
<1>5. Todo' = Todo  BY <1>3 DEF Todo, Stored, Pos
<1> QED BY <1>2, <1>3, <1>4, <1>5 DEF S!Rekey

\* A call shows the flow the cursor is at and moves on to what follows it.
LEMMA CallSim ==
    ASSUME IInv, IInv', ForeachCall
    PROVE  \E f \in Flow : S!Visit(f)
<1> DEFINE unch == UNCHANGED <<flows, kd, indx, key_bucket, born, clock, rekeyed>>
<1>0. it.status = "busy" /\ unch /\ it.indx \in Bucket /\ it.indx \in Nat /\ Buckets \in Nat
  BY HashAssumption DEF ForeachCall, IInv, TypeOK, Iter, Bucket
<1>15. it.cur = NoFlow  BY DEF ForeachCall, IInv, CursorOrder
<1>1. Stored' = Stored  BY <1>0 DEF Stored
<1>2. \A b \in Bucket : Len(flows[b]) \in Nat
  BY Linked DEF IInv
<1>3. \E b \in Bucket : \E i \in 1 .. Len(flows[b]) :
         /\ CallAt(b, i)
         /\ \A g \in Stored : g \in TodoByAge <=>
                (key_bucket[g] > b \/ (key_bucket[g] = b /\ born[flows[b][i]] <= born[g]))
  <2>1. CASE it.next # NoFlow
    <3>1. PICK i \in Pos(it.indx) : flows[it.indx][i] = it.next /\ CallAt(it.indx, i)
      BY <2>1 DEF ForeachCall
    <3>2. \A g \in Stored : g \in TodoByAge <=>
             \/ key_bucket[g] > it.indx
             \/ key_bucket[g] = it.indx /\ born[flows[it.indx][i]] <= born[g]
      BY <2>1, <3>1, <1>0 DEF TodoByAge
    <3> QED BY <3>1, <3>2, <1>0 DEF Pos
  <2>2. CASE it.next = NoFlow
    <3>1. PICK b \in it.indx + 1 .. Buckets :
             /\ flows[b] # <<>> /\ CallAt(b, 1)
             /\ \A c \in it.indx + 1 .. b - 1 : flows[c] = <<>>
      BY <2>2 DEF ForeachCall
    <3>2. b \in Bucket  BY <1>0, <3>1 DEF Bucket
    <3>3. flows[b] \in Seq(Flow)  BY <3>2 DEF IInv, TypeOK
    <3>4. 1 \in 1 .. Len(flows[b])  BY <3>1, <3>3
    <3>5. ASSUME NEW g \in Stored
          PROVE  g \in TodoByAge <=>
                 (key_bucket[g] > b \/ (key_bucket[g] = b /\ born[flows[b][1]] <= born[g]))
      <4>1. key_bucket[g] \in Bucket  BY Linked DEF IInv
      <4>2. key_bucket[g] \in Nat /\ key_bucket[g] <= Buckets  BY <4>1, <1>0 DEF Bucket
      <4>3. PICK j \in 1 .. Len(flows[key_bucket[g]]) : flows[key_bucket[g]][j] = g
        BY DEF IInv, ChainsMatchBuckets, Pos
      <4>4. flows[key_bucket[g]] # <<>>  BY <4>3
      <4>5. key_bucket[g] \notin it.indx + 1 .. b - 1  BY <3>1, <4>4
      <4>6. g \in TodoByAge <=> key_bucket[g] > it.indx  BY <2>2, <1>0 DEF TodoByAge
      <4>7. key_bucket[g] > it.indx <=> key_bucket[g] >= b
        BY <3>1, <4>2, <4>5, <1>0
      <4>8. key_bucket[g] = b => born[flows[b][1]] <= born[g]
        <5> SUFFICES ASSUME key_bucket[g] = b PROVE born[flows[b][1]] <= born[g]  OBVIOUS
        <5>1. j \in 1 .. Len(flows[b]) /\ flows[b][j] = g  BY <4>3
        <5>2. 1 < j => born[flows[b][1]] < born[flows[b][j]]
          BY <3>2, <3>4, <5>1 DEF IInv, AgesRise, Pos
        <5>3. born[flows[b][1]] \in Nat /\ born[g] \in Nat
          BY <3>2, <3>4, Linked DEF IInv, TypeOK, Pos, Stored
        <5> QED BY <5>1, <5>2, <5>3, <1>2, <3>2
      <4> QED BY <4>2, <4>6, <4>7, <4>8, <3>1, <1>0
    <3> QED BY <3>1, <3>2, <3>4, <3>5
  <2> QED BY <2>1, <2>2
<1>4. PICK b \in Bucket : \E i \in 1 .. Len(flows[b]) :
         /\ CallAt(b, i)
         /\ \A g \in Stored : g \in TodoByAge <=>
                (key_bucket[g] > b \/ (key_bucket[g] = b /\ born[flows[b][i]] <= born[g]))
  BY <1>3
<1>5. PICK i \in 1 .. Len(flows[b]) :
         /\ CallAt(b, i)
         /\ \A g \in Stored : g \in TodoByAge <=>
                (key_bucket[g] > b \/ (key_bucket[g] = b /\ born[flows[b][i]] <= born[g]))
  BY <1>4
<1> DEFINE c == flows[b]
<1>6. /\ Len(c) \in Nat
      /\ \A j \in 1 .. Len(c) : c[j] \in Stored /\ c[j] \in Flow /\ born[c[j]] \in Nat
                                /\ key_bucket[c[j]] = b
      /\ \A x, y \in 1 .. Len(c) : x < y => born[c[x]] < born[c[y]]
      /\ \A g \in Stored : key_bucket[g] = b => \E j \in 1 .. Len(c) : c[j] = g
  <2>1. Len(c) \in Nat
    BY Linked DEF IInv
  <2>2. \A j \in 1 .. Len(c) : c[j] \in Stored /\ c[j] \in Flow /\ born[c[j]] \in Nat
                               /\ key_bucket[c[j]] = b
    BY Linked DEF IInv, ChainsMatchBuckets, Pos, TypeOK
  <2>3. \A x, y \in 1 .. Len(c) : x < y => born[c[x]] < born[c[y]]
    BY DEF IInv, AgesRise, Pos
  <2>4. \A g \in Stored : key_bucket[g] = b => \E j \in 1 .. Len(c) : c[j] = g
    BY DEF IInv, ChainsMatchBuckets, Pos
  <2> QED
    BY <2>1, <2>2, <2>3, <2>4
<1>7. /\ it'.status = "busy" /\ it'.indx = b /\ it'.cur = c[i]
      /\ it'.next = IF i = Len(c) THEN NoFlow ELSE c[i + 1]
  BY <1>5 DEF CallAt
<1>8. i \in 1 .. Len(c) /\ Len(c) \in Nat
  BY <1>5, Linked DEF IInv
<1> HIDE DEF c
<1>9. ASSUME NEW g \in Stored
      PROVE  g \in TodoByAge' <=> g \in TodoByAge /\ g # c[i]
  <2>1. g \in TodoByAge <=> (key_bucket[g] > b \/ (key_bucket[g] = b /\ born[c[i]] <= born[g]))
    BY <1>5 DEF c
  <2>2. g \in TodoByAge' <=>
           \/ key_bucket[g] > b
           \/ key_bucket[g] = b /\ it'.next # NoFlow /\ born[it'.next] <= born[g]
    BY <1>0, <1>1, <1>7 DEF TodoByAge
  <2>3. CASE key_bucket[g] # b  BY <2>1, <2>2, <2>3, <1>6, <1>8
  <2>4. CASE key_bucket[g] = b
    <3>1. PICK j \in 1 .. Len(c) : c[j] = g  BY <2>4, <1>6
    <3>2. ~(b > b)  BY DEF Bucket
    <3>3. CASE j <= i
      <4>1. j = i \/ born[g] < born[c[i]]
        <5>1. j = i \/ j < i  BY <3>3, <1>6, <1>8
        <5> QED BY <5>1, <3>1, <1>6, <1>8
      <4>2. ~(g \in TodoByAge /\ g # c[i])
        BY <4>1, <2>1, <2>4, <3>1, <3>2, <1>6, <1>8
      <4>3. i # Len(c) => born[g] < born[c[i + 1]]
        BY <3>1, <3>3, <1>6, <1>8
      <4>4. it'.next # NoFlow => i # Len(c) /\ it'.next = c[i + 1]
        BY <1>7
      <4>5. i # Len(c) => i + 1 \in 1 .. Len(c)  BY <1>6, <1>8
      <4>6. it'.next # NoFlow => ~(born[it'.next] <= born[g])
        BY <4>3, <4>4, <4>5, <1>6, <3>1
      <4> QED BY <4>2, <4>6, <2>2, <2>4, <3>2
    <3>4. CASE i < j
      <4>1. i # Len(c) /\ i + 1 \in 1 .. Len(c) /\ i + 1 <= j
        BY <3>4, <1>8
      <4>2. born[c[i]] < born[g] /\ g # c[i]
        <5>1. born[c[i]] < born[c[j]]  BY <3>4, <1>6, <1>8
        <5>2. born[c[i]] \in Nat  BY <1>6, <1>8
        <5> QED BY <5>1, <5>2, <3>1
      <4>3. born[c[i + 1]] <= born[g]
        <5>1. i + 1 = j \/ i + 1 < j  BY <4>1, <1>6
        <5> QED BY <5>1, <4>1, <3>1, <1>6
      <4>4. it'.next = c[i + 1] /\ it'.next # NoFlow
        BY <4>1, <1>6, <1>7, NoneAssumption
      <4> QED BY <4>2, <4>3, <4>4, <2>1, <2>2, <2>4, <1>6, <1>8, <3>1
    <3> QED BY <3>3, <3>4, <1>6, <1>8
  <2> QED BY <2>3, <2>4
<1>10. TodoByAge \subseteq Stored /\ TodoByAge' \subseteq Stored
  BY <1>1 DEF TodoByAge
<1>11. TodoByAge' = TodoByAge \ {c[i]}  BY <1>9, <1>10
<1>12. c[i] \in Stored /\ c[i] \in TodoByAge  BY <1>5, <1>6, <1>8 DEF c
<1>13. Todo' = Todo \ {c[i]} /\ c[i] \in Todo  BY <1>11, <1>12, TodoAge, TodoAgeNext
<1>14. S!Visit(c[i])  BY <1>0, <1>15, <1>7, <1>13 DEF S!Visit
<1> QED BY <1>14, <1>12, <1>6, <1>8

LEMMA StepSim == IInv /\ IInv' /\ [Next]_vars => [S!Next]_(S!vars)
<1> SUFFICES ASSUME IInv, IInv', [Next]_vars PROVE [S!Next]_(S!vars)  OBVIOUS
<1>0. S!Live = Stored  BY DEF S!Live, IInv, AgesRise, Stored
<1>1. CASE \E f \in Flow, k \in Key, s \in Server : pcp_db_add_flow(f, k, s)
  BY <1>1, AddSim DEF S!Next
<1>2. CASE (\E f \in Flow : pcp_delete_flow(f)) \/ delete_flow_iter
  BY <1>2, Deletions, DeleteSim DEF S!Next
<1>3. CASE \E f \in Flow, n \in Nonce : pcp_flow_set_nonce(f, n)
  BY <1>3, NonceSim DEF S!Next
<1>4. CASE ForeachBegin
  <2>0. it.cur = NoFlow /\ it'.cur = NoFlow
    <3>1. it = Off(it.status)  BY <1>4 DEF ForeachBegin, IInv, CursorOrder
    <3> QED BY <3>1, <1>4 DEF ForeachBegin, Off
  <2>1. /\ it.status \notin {"busy", "undefined"} /\ it'.status = "busy" /\ it'.indx = 0
        /\ it'.next = IF flows[0] = <<>> THEN NoFlow ELSE flows[0][1]
        /\ UNCHANGED <<flows, kd, indx, key_bucket, born, clock, rekeyed>>
    BY <1>4 DEF ForeachBegin, Off
  <2>2. 0 \in Bucket  BY HashAssumption DEF Bucket
  <2>3. Stored' = Stored  BY <2>1 DEF Stored
  <2>4. \A f \in Stored : f \in TodoByAge'
    <3> SUFFICES ASSUME NEW f \in Stored PROVE f \in TodoByAge'  OBVIOUS
    <3>1. key_bucket[f] \in Bucket  BY Linked DEF IInv
    <3>2. CASE key_bucket[f] # 0
      BY <3>1, <3>2, <2>1, <2>3, HashAssumption DEF TodoByAge, Bucket
    <3>3. CASE key_bucket[f] = 0
      <4>1. PICK j \in 1 .. Len(flows[0]) : flows[0][j] = f
        BY <3>3 DEF IInv, ChainsMatchBuckets, Pos
      <4>2. flows[0] \in Seq(Flow)  BY <2>2 DEF IInv, TypeOK
      <4>3. flows[0] # <<>> /\ 1 \in 1 .. Len(flows[0])  BY <4>1, <4>2
      <4>4. 1 < j => born[flows[0][1]] < born[f]
        BY <2>2, <4>1, <4>3 DEF IInv, AgesRise, Pos
      <4>5. flows[0][1] \in Flow /\ flows[0][1] # NoFlow  BY <4>2, <4>3, NoneAssumption
      <4>6. born[flows[0][1]] \in Nat /\ born[f] \in Nat
        BY <4>5 DEF IInv, TypeOK, Stored
      <4>7. born[flows[0][1]] <= born[f]  BY <4>1, <4>2, <4>4, <4>6
      <4> QED BY <2>1, <2>3, <3>3, <4>3, <4>5, <4>7 DEF TodoByAge
    <3> QED BY <3>2, <3>3
  <2>5. TodoByAge' = Stored  BY <2>1, <2>3, <2>4 DEF TodoByAge
  <2>6. Todo' = S!Live  BY <2>5, <1>0, TodoAge, TodoAgeNext
  <2> QED BY <2>0, <2>1, <2>6 DEF S!Next, S!Begin
<1>5. CASE ForeachCall  BY <1>5, CallSim DEF S!Next
<1>6. CASE ForeachReturn
  <2>1. /\ it.status = "busy" /\ it.cur # NoFlow
        /\ UNCHANGED <<flows, kd, indx, key_bucket, born, clock, rekeyed>>
    BY <1>6 DEF ForeachReturn, IInv, CursorOrder
  <2>2. CASE it' = Off("found")
    <3>1. it'.status = "found" /\ it'.cur = NoFlow /\ Todo' = {}  BY <2>2 DEF Off, Todo
    <3> QED BY <2>1, <3>1 DEF S!Next, S!Found
  <2>3. CASE it' = [it EXCEPT !.calling = FALSE, !.cur = NoFlow]
    <3>1. /\ it'.status = it.status /\ it'.next = it.next /\ it'.indx = it.indx
          /\ it'.cur = NoFlow
      BY <2>3 DEF IInv, TypeOK, Iter
    <3>2. Todo' = Todo  BY <2>1, <3>1 DEF Todo, Stored, Pos
    <3> QED BY <2>1, <3>1, <3>2 DEF S!Next, S!Return
  <2> QED BY <1>6, <2>2, <2>3 DEF ForeachReturn
<1>7. CASE ForeachEnd
  <2>1. /\ it.status = "busy" /\ it.next = NoFlow /\ it' = Off("not_found")
        /\ \A b \in it.indx + 1 .. Buckets : flows[b] = <<>>
        /\ UNCHANGED <<flows, kd, indx, key_bucket, born, clock, rekeyed>>
    BY <1>7 DEF ForeachEnd
  <2>0. it.cur = NoFlow  BY <1>7 DEF ForeachEnd, IInv, CursorOrder
  <2>2. it'.status = "not_found" /\ it'.cur = NoFlow /\ Todo' = {}  BY <2>1 DEF Off, Todo
  <2>3. ASSUME NEW f \in TodoByAge PROVE FALSE
    <3>1. f \in Stored /\ key_bucket[f] > it.indx  BY <2>1, <2>3 DEF TodoByAge
    <3>2. key_bucket[f] \in Bucket  BY <3>1, Linked DEF IInv
    <3>3. \E j \in 1 .. Len(flows[key_bucket[f]]) : flows[key_bucket[f]][j] = f
      BY <3>1 DEF IInv, ChainsMatchBuckets, Pos
    <3>4. key_bucket[f] \in it.indx + 1 .. Buckets
      <4>1. it.indx \in Bucket  BY DEF IInv, TypeOK, Iter
      <4>2. Buckets \in Nat  BY HashAssumption
      <4> QED BY <3>1, <3>2, <4>1, <4>2 DEF Bucket
    <3> QED BY <2>1, <3>3, <3>4
  <2>4. Todo = {}  BY <2>3, TodoAge
  <2> QED BY <2>0, <2>1, <2>2, <2>4 DEF S!Next, S!NotFound
<1>8. CASE ForeachUndefined
  <2>1. /\ it.status = "undefined" /\ it' \in {Off("found"), Off("not_found")}
        /\ UNCHANGED <<flows, kd, indx, key_bucket, born, clock, rekeyed>>
    BY <1>8 DEF ForeachUndefined
  <2>2. it = Off("undefined")  BY <2>1 DEF IInv, CursorOrder
  <2>3. it.cur = NoFlow /\ Todo = {}  BY <2>2 DEF Off, Todo
  <2>4. it'.status \in {"found", "not_found"} /\ it'.cur = NoFlow /\ Todo' = {}
    BY <2>1 DEF Off, Todo
  <2> QED BY <2>1, <2>3, <2>4 DEF S!Next, S!Undefined
<1>9. CASE UNCHANGED vars
  <2>1. Todo' = Todo  BY <1>9 DEF vars, Todo, Stored, Pos
  <2> QED BY <1>9, <2>1 DEF vars, S!vars
<1> QED BY <1>1, <1>2, <1>3, <1>4, <1>5, <1>6, <1>7, <1>8, <1>9 DEF Next

\* The flow database implements FlowSet, for every hash: chains, buckets and
\* the stored key_bucket of pcp_client_db.c cannot be told from a plain set of
\* flows, and pcp_db_foreach_flow shows every flow that was there once, whatever
\* is added, deleted or given another nonce meanwhile. FlowSet makes no promise to
\* an application that, from a notification, deletes the flow it is told of or
\* one that is yet to be shown.
THEOREM DbImplementsFlowSet == Spec => ImplementsFlowSet
<1>1. Init => S!Init
  <2> SUFFICES ASSUME Init PROVE S!Init  OBVIOUS
  <2>1. Todo = {} /\ it.status = "idle" /\ it.cur = NoFlow  BY DEF Init, Off, Todo
  <2> QED BY <2>1, Fillers DEF Init, S!Init
<1> QED BY <1>1, Invariance, StepSim, PTL DEF Spec, S!Spec, ImplementsFlowSet

-----------------------------------------------------------------------------
(* The search for the nearest timer.                                        *)

SearchType == /\ timer \in [1 .. N -> Span \cup {NoTimer}]
              /\ nth \in 1 .. N + 1
              /\ tout \in Nat

\* After nth - 1 flows tout is the closed form for those flows.
SearchInv == SearchType /\ IsNearest(nth - 1, tout)

\* The search keeps SearchInv: a late timer empties the set After, any other
\* timer joins it.
LEMMA SearchStep == SearchInv /\ [SearchNext]_searchvars => SearchInv'
<1> SUFFICES ASSUME SearchInv, [SearchNext]_searchvars
             PROVE  SearchInv'
    OBVIOUS
<1> USE NAssumption, SpanAssumption DEF SearchInv, SearchType
<1>1. CASE check_flow_timeout
  <2>1. SearchType'
      BY <1>1 DEF check_flow_timeout
  <2>2. timer' = timer /\ nth' - 1 = nth /\ nth \in 1 .. N
      BY <1>1 DEF check_flow_timeout
  <2>3. CASE timer[nth] = NoTimer
    <3>1. After(nth) = After(nth - 1)
        BY <2>2, <2>3 DEF After, Late, Armed
    <3>2. tout' = tout
        BY <1>1, <2>3 DEF check_flow_timeout
    <3>3. IsNearest(nth, tout)
        BY <3>1 DEF IsNearest
    <3> QED
        BY <2>1, <2>2, <3>2, <3>3 DEF IsNearest, After, Late, Armed
  <2>4. CASE timer[nth] = 0
    <3>1. tout' = 0
        BY <1>1, <2>4 DEF check_flow_timeout
    <3>2. After(nth) = {}
        BY <2>2, <2>4 DEF After, Late, Armed
    <3> QED
        BY <2>1, <2>2, <3>1, <3>2 DEF IsNearest, After, Late, Armed
  <2>5. CASE timer[nth] # NoTimer /\ timer[nth] # 0
    <3>1. After(nth) = After(nth - 1) \cup {nth}
        BY <2>2, <2>5 DEF After, Late, Armed
    <3>2. timer[nth] \in Nat \ {0} /\ \A k \in After(nth - 1) : timer[k] \in Nat \ {0}
      <4>1. timer[nth] \in Nat \ {0}
          BY <2>2, <2>5
      <4>2. ASSUME NEW k \in After(nth - 1)
            PROVE  timer[k] \in Nat \ {0}
        <5>1. k \in 1 .. N /\ timer[k] # NoTimer /\ k <= nth - 1
            BY <4>2 DEF After, Armed
        <5>2. k \notin Late
            BY <4>2, <5>1 DEF After
        <5> QED
            BY <5>1, <5>2 DEF Late, Armed
      <4> QED
          BY <4>1, <4>2
    <3>3. IsNearest(nth, tout')
        BY <1>1, <2>2, <2>5, <3>1, <3>2 DEF IsNearest, check_flow_timeout
    <3> QED
        BY <2>1, <2>2, <3>3 DEF IsNearest, After, Late, Armed
  <2> QED
      BY <2>3, <2>4, <2>5
<1>2. CASE UNCHANGED searchvars
    BY <1>2 DEF searchvars, IsNearest, After, Late, Armed
<1> QED
    BY <1>1, <1>2 DEF SearchNext, Done

\* The search computes the closed form, for any number of flows and timers.
THEOREM SearchCorrect == SearchSpec => []SearchIsClosedForm
<1>1. SearchInit => SearchInv
    BY NAssumption, SpanAssumption
    DEF SearchInit, SearchInv, SearchType, IsNearest, After, Armed
<1>2. SearchInv => SearchIsClosedForm
    BY NAssumption DEF SearchInv, SearchType, SearchIsClosedForm
<1> QED
    BY <1>1, <1>2, SearchStep, PTL DEF SearchSpec

\* Without late timers the search finds the nearest timer of all.
THEOREM NearestFound == SearchSpec => []NearestIfNoneLate
<1>1. SearchIsClosedForm => NearestIfNoneLate
    BY NAssumption DEF SearchIsClosedForm, NearestIfNoneLate, IsNearest, After, Armed
<1> QED
    BY <1>1, SearchCorrect, PTL
=============================================================================
