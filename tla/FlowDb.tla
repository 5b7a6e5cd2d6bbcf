------------------------------- MODULE FlowDb -------------------------------
(***************************************************************************)
(* The flow database of lib/src/pcp_client_db.c: an array of chains, the   *)
(* bucket each flow was put in, and the traversal that every part of the   *)
(* event handler uses.  A traversal hands a flow to a callback: that of    *)
(* pcp_terminate deletes the flow, others tell the application of it,      *)
(* which may add, change and delete any flows before it returns.           *)
(***************************************************************************)
EXTENDS Naturals, Sequences

CONSTANTS Flow, Server,
          Body,       \* struct flow_key_data without its nonce
          Nonce,
          Buckets,    \* the largest index of pcp_db.flows
          Hash,       \* compute_flow_key, a function on Key
          MaxAdds,    \* bound: additions in one behaviour
          NoFlow, EMPTY

Key    == Body \X Nonce
Bucket == 0 .. Buckets

ASSUME HashAssumption == /\ Buckets \in Nat /\ MaxAdds \in Nat
                         /\ Hash \in [Key -> Bucket]
ASSUME NoneAssumption == NoFlow \notin Flow /\ EMPTY \notin Bucket
ASSUME SomeAssumption == Key # {} /\ Server # {}

VARIABLES
    flows,       \* pcp_db.flows: the chain of each bucket
    kd, indx,    \* kd and pcp_server_indx of each flow
    key_bucket,  \* key_bucket of each flow, EMPTY outside the database
    it,          \* locals of the running pcp_db_foreach_flow
    born, clock, \* history: the number of each flow's addition
    rekeyed      \* history: the flows whose nonce was set

vars == <<flows, kd, indx, key_bucket, it, born, clock, rekeyed>>

\* indx is the local of that name, cur the flow the callback has (NoFlow
\* between callbacks), next is fdb_next. "undefined": the traversal is going to
\* use a flow that was freed.
Iter == [status : {"idle", "busy", "found", "not_found", "undefined"}, calling : BOOLEAN,
         indx : Bucket, cur : Flow \cup {NoFlow}, next : Flow \cup {NoFlow}]

Off(st) == [status |-> st, calling |-> FALSE, indx |-> 0,
            cur |-> NoFlow, next |-> NoFlow]

\* What an address holds that no flow occupies.
NoKey    == CHOOSE k \in Key : TRUE
NoServer == CHOOSE s \in Server : TRUE

Stored == {f \in Flow : key_bucket[f] # EMPTY}
Pos(b) == 1 .. Len(flows[b])

\* While a traversal runs nothing but its callback does.
MayCall == it.status = "busy" => it.calling

Init == /\ flows = [b \in Bucket |-> <<>>]
        /\ kd = [f \in Flow |-> NoKey] /\ indx = [f \in Flow |-> NoServer]
        /\ key_bucket = [f \in Flow |-> EMPTY]
        /\ it = Off("idle")
        /\ born = [f \in Flow |-> 0] /\ clock = 0 /\ rekeyed = {}

-----------------------------------------------------------------------------
(* pcp_create_flow and pcp_db_add_flow, which every caller calls together.  *)

\* Mutant: a new flow is put in front of its chain.
pcp_db_add_flow_front(f, k, s) ==
    LET b == Hash[k] IN
    /\ MayCall /\ f \notin Stored /\ clock < MaxAdds
    /\ kd' = [kd EXCEPT ![f] = k] /\ indx' = [indx EXCEPT ![f] = s]
    /\ key_bucket' = [key_bucket EXCEPT ![f] = b]
    /\ flows' = [flows EXCEPT ![b] = <<f>> \o @]
    /\ clock' = clock + 1 /\ born' = [born EXCEPT ![f] = clock + 1]
    /\ UNCHANGED <<it, rekeyed>>

pcp_db_add_flow(f, k, s) ==
    LET b == Hash[k] IN
    /\ MayCall /\ f \notin Stored /\ clock < MaxAdds
    /\ kd' = [kd EXCEPT ![f] = k] /\ indx' = [indx EXCEPT ![f] = s]
    /\ key_bucket' = [key_bucket EXCEPT ![f] = b]
    /\ flows' = [flows EXCEPT ![b] = Append(@, f)]
    /\ clock' = clock + 1 /\ born' = [born EXCEPT ![f] = clock + 1]
    /\ UNCHANGED <<it, rekeyed>>

(* pcp_db_rem_flow, called by pcp_delete_flow_intern: the chain is the one  *)
(* key_bucket names, whatever the key is by now.                            *)

Unlink(c, i) == [j \in 1 .. Len(c) - 1 |-> IF j < i THEN c[j] ELSE c[j + 1]]

\* Mutant: the chain is looked up by the key the flow has now.
pcp_db_rem_flow_rehash(f) ==
    LET b == Hash[kd[f]] IN
    flows' = IF \E i \in Pos(b) : flows[b][i] = f
             THEN [flows EXCEPT ![b] = Unlink(@, CHOOSE i \in Pos(b) : flows[b][i] = f)]
             ELSE flows

pcp_db_rem_flow(f) ==
    LET b == key_bucket[f] IN
    flows' = IF \E i \in Pos(b) : flows[b][i] = f
             THEN [flows EXCEPT ![b] = Unlink(@, CHOOSE i \in Pos(b) : flows[b][i] = f)]
             ELSE flows

\* pcp_delete_flow_intern: the flow is unlinked and freed.
Delete(f) ==
    /\ f \in Stored
    /\ pcp_db_rem_flow(f)
    /\ key_bucket' = [key_bucket EXCEPT ![f] = EMPTY]
    /\ born' = [born EXCEPT ![f] = 0]
    /\ kd' = [kd EXCEPT ![f] = NoKey] /\ indx' = [indx EXCEPT ![f] = NoServer]
    /\ rekeyed' = rekeyed \ {f}
    /\ UNCHANGED clock

\* The callback of pcp_terminate deletes the flow it was given and returns 0.
delete_flow_iter ==
    /\ it.status = "busy" /\ it.cur # NoFlow
    /\ Delete(it.cur)
    /\ it' = [it EXCEPT !.calling = FALSE, !.cur = NoFlow]

\* The application deletes a flow, between traversals or in a notification: one
\* instance, and the rest of a next_child chain by steps of the same kind. In a
\* notification handle_flow_event still reads the state of the flow it told of,
\* and the traversal goes on with fdb_next: neither may be among them.
pcp_delete_flow(f) ==
    /\ MayCall /\ Delete(f)
    /\ it' = IF it.status = "busy" /\ f \in {it.cur, it.next}
             THEN Off("undefined") ELSE it

\* pcp_flow_set_nonce writes the key of a flow that stays where it is.
pcp_flow_set_nonce(f, n) ==
    /\ MayCall /\ f \in Stored
    /\ kd' = [kd EXCEPT ![f] = <<@[1], n>>]
    /\ rekeyed' = rekeyed \cup {f}
    /\ UNCHANGED <<flows, indx, key_bucket, it, born, clock>>

-----------------------------------------------------------------------------
(* pcp_get_flow: f is the first match in the chain that the key hashes to.  *)

Matches(f, k, s) == indx[f] = s /\ kd[f] = k

pcp_get_flow(f, k, s) ==
    \E i \in Pos(Hash[k]) :
        /\ flows[Hash[k]][i] = f /\ Matches(f, k, s)
        /\ \A j \in 1 .. i - 1 : ~Matches(flows[Hash[k]][j], k, s)

-----------------------------------------------------------------------------
(* pcp_db_foreach_flow.                                                     *)

ForeachBegin ==
    /\ it.status \notin {"busy", "undefined"}
    /\ it' = [Off("busy") EXCEPT
                 !.next = IF flows[0] = <<>> THEN NoFlow ELSE flows[0][1]]
    /\ UNCHANGED <<flows, kd, indx, key_bucket, born, clock, rekeyed>>

\* fdb_next is saved before the callback gets the flow.
CallAt(b, i) ==
    it' = [status |-> "busy", calling |-> TRUE, indx |-> b, cur |-> flows[b][i],
           next |-> IF i = Len(flows[b]) THEN NoFlow ELSE flows[b][i + 1]]

\* fdb = fdb_next, or the head of the next chain that is not empty.
ForeachCall ==
    /\ it.status = "busy" /\ ~it.calling
    /\ \/ /\ it.next # NoFlow
          /\ \E i \in Pos(it.indx) :
                flows[it.indx][i] = it.next /\ CallAt(it.indx, i)
       \/ /\ it.next = NoFlow
          /\ \E b \in it.indx + 1 .. Buckets :
                /\ flows[b] # <<>> /\ CallAt(b, 1)
                /\ \A c \in it.indx + 1 .. b - 1 : flows[c] = <<>>
    /\ UNCHANGED <<flows, kd, indx, key_bucket, born, clock, rekeyed>>

\* The callback returns: nonzero ends the traversal.
ForeachReturn ==
    /\ it.status = "busy" /\ it.calling
    /\ it' \in {Off("found"), [it EXCEPT !.calling = FALSE, !.cur = NoFlow]}
    /\ UNCHANGED <<flows, kd, indx, key_bucket, born, clock, rekeyed>>

\* Mutant: the traversal ends with the first chain.
ForeachEnd_first ==
    /\ it.status = "busy" /\ ~it.calling /\ it.next = NoFlow
    /\ it' = Off("not_found")
    /\ UNCHANGED <<flows, kd, indx, key_bucket, born, clock, rekeyed>>

ForeachEnd ==
    /\ it.status = "busy" /\ ~it.calling /\ it.next = NoFlow
    /\ \A b \in it.indx + 1 .. Buckets : flows[b] = <<>>
    /\ it' = Off("not_found")
    /\ UNCHANGED <<flows, kd, indx, key_bucket, born, clock, rekeyed>>

\* After the use of a freed flow the traversal may end with either result, or not
\* at all.
ForeachUndefined ==
    /\ it.status = "undefined"
    /\ it' \in {Off("found"), Off("not_found")}
    /\ UNCHANGED <<flows, kd, indx, key_bucket, born, clock, rekeyed>>

Next == \/ \E f \in Flow, k \in Key, s \in Server : pcp_db_add_flow(f, k, s)
        \/ \E f \in Flow : pcp_delete_flow(f)
        \/ \E f \in Flow, n \in Nonce : pcp_flow_set_nonce(f, n)
        \/ delete_flow_iter
        \/ ForeachBegin \/ ForeachCall \/ ForeachReturn \/ ForeachEnd
        \/ ForeachUndefined

Spec == Init /\ [][Next]_vars

-----------------------------------------------------------------------------
(* The flows the traversal has still to show: the saved next flow and what  *)
(* follows it in its chain, and every later chain.                          *)
Todo ==
    IF it.status # "busy" THEN {}
    ELSE {f \in Stored :
            \/ key_bucket[f] > it.indx
            \/ /\ key_bucket[f] = it.indx /\ it.next # NoFlow
               /\ \E i, j \in Pos(it.indx) :
                     /\ flows[it.indx][i] = it.next /\ flows[it.indx][j] = f
                     /\ i <= j}

S == INSTANCE FlowSet WITH order <- born, todo <- Todo, cur <- it.cur,
                           status <- it.status

\* The database behaves as a set of flows with a traversal that shows each of
\* them once: chains, buckets and stored hashes are not observable, whatever is
\* added, deleted or given another key during a callback. The one exception is in
\* FlowSet: a notification that deletes the flow it is about, or one that was not
\* shown yet, may end the promise.
ImplementsFlowSet == S!Spec

-----------------------------------------------------------------------------
TypeOK == /\ flows \in [Bucket -> Seq(Flow)]
          /\ kd \in [Flow -> Key] /\ indx \in [Flow -> Server]
          /\ key_bucket \in [Flow -> Bucket \cup {EMPTY}]
          /\ it \in Iter
          /\ born \in [Flow -> Nat] /\ clock \in Nat
          /\ rekeyed \in SUBSET Flow

\* A flow is linked into one chain, the one its key_bucket names, and at one
\* place of it; so pcp_db_rem_flow, which only looks there, never misses it.
ChainsMatchBuckets ==
    /\ \A b \in Bucket : \A i \in Pos(b) : key_bucket[flows[b][i]] = b
    /\ \A f \in Stored : \E i \in Pos(key_bucket[f]) : flows[key_bucket[f]][i] = f
    /\ \A b \in Bucket : \A i, j \in Pos(b) : i # j => flows[b][i] # flows[b][j]

\* An answer is given to the oldest flow of its server with its key, and to
\* no flow only if there is none: pcp_get_flow agrees with the set. It need not
\* for a key that pcp_flow_set_nonce has given to a flow, which stays in the
\* bucket of its old key.
LookupIsOldest ==
    \A f \in Flow, k \in Key, s \in Server :
        (\A g \in rekeyed : kd[g] # k) => (pcp_get_flow(f, k, s) <=> S!IsOldest(f, k, s))
=============================================================================
