------------------------------- MODULE FlowSet -------------------------------
(***************************************************************************)
(* What the flow database of lib/src/pcp_client_db.c promises, with no     *)
(* buckets, no chains and no stored hash: a set of flows that remembers    *)
(* the order in which they were added, and a traversal that shows every    *)
(* flow of the set to a callback once.  FlowDb implements it.              *)
(***************************************************************************)
EXTENDS Naturals

CONSTANTS Flow,     \* the addresses calloc can return for a flow
          Key,      \* the values of struct flow_key_data
          Server,   \* the server indexes
          NoFlow

VARIABLES
    order,    \* for each flow the number of its addition, 0: not in the set
    kd,       \* the key of each flow
    indx,     \* the server of each flow
    clock,    \* number of additions so far
    todo,     \* flows the running traversal still has to show
    cur,      \* the flow its callback is given, NoFlow between callbacks
    status    \* "idle", "busy", what the last traversal returned, or
              \* "undefined": a traversal about which nothing is promised

vars == <<order, kd, indx, clock, todo, cur, status>>

Live == {f \in Flow : order[f] # 0}

\* The flow an answer with key k from server s belongs to.
IsOldest(f, k, s) ==
    /\ f \in Live /\ kd[f] = k /\ indx[f] = s
    /\ \A g \in Live : kd[g] = k /\ indx[g] = s => order[f] <= order[g]

Init == /\ order = [f \in Flow |-> 0]
        /\ kd \in [Flow -> Key] /\ indx \in [Flow -> Server]
        /\ clock = 0 /\ todo = {} /\ cur = NoFlow /\ status = "idle"

\* A flow added while a traversal runs may or may not be shown by it.
Add(f, k, s) ==
    /\ f \notin Live
    /\ clock' = clock + 1
    /\ order' = [order EXCEPT ![f] = clock + 1]
    /\ kd' = [kd EXCEPT ![f] = k] /\ indx' = [indx EXCEPT ![f] = s]
    /\ todo' \in {todo, todo \cup {f}}
    /\ UNCHANGED <<cur, status>>

\* A removal leaves the others alone. What a callback may remove is the flow it
\* was given, with which it ends, and, from within a notification, any flow that
\* was shown before: after the removal of one that is yet to be shown, or of the
\* one the notification is about, the traversal may be undefined.
Remove(f) ==
    /\ f \in Live
    /\ order' = [order EXCEPT ![f] = 0]
    /\ \E k \in Key, s \in Server : kd' = [kd EXCEPT ![f] = k] /\ indx' = [indx EXCEPT ![f] = s]
    /\ UNCHANGED clock
    /\ \/ /\ todo' = todo \ {f} /\ status' = status
          /\ cur' = IF cur = f THEN NoFlow ELSE cur
       \/ /\ status = "busy" /\ f \in todo \cup {cur}
          /\ todo' = {} /\ cur' = NoFlow /\ status' = "undefined"

\* A flow is given another key, by which it is then the one to find.
Rekey(f, k) ==
    /\ f \in Live
    /\ kd' = [kd EXCEPT ![f] = k]
    /\ UNCHANGED <<order, indx, clock, todo, cur, status>>

Begin == /\ status \notin {"busy", "undefined"} /\ status' = "busy"
         /\ todo' = Live
         /\ UNCHANGED <<order, kd, indx, clock, cur>>

\* The callback gets a flow, and returns.
Visit(f) == /\ status = "busy" /\ cur = NoFlow /\ f \in todo
            /\ todo' = todo \ {f} /\ cur' = f
            /\ UNCHANGED <<order, kd, indx, clock, status>>
Return   == /\ cur # NoFlow /\ cur' = NoFlow
            /\ UNCHANGED <<order, kd, indx, clock, todo, status>>

\* The callback returned nonzero, or there is no flow left to show.
Found    == /\ status = "busy" /\ status' = "found"
            /\ cur # NoFlow /\ cur' = NoFlow /\ todo' = {}
            /\ UNCHANGED <<order, kd, indx, clock>>
NotFound == /\ status = "busy" /\ status' = "not_found"
            /\ cur = NoFlow /\ todo = {}
            /\ UNCHANGED <<order, kd, indx, clock, cur, todo>>

Undefined == /\ status = "undefined" /\ status' \in {"found", "not_found"}
             /\ UNCHANGED <<order, kd, indx, clock, cur, todo>>

Next == \/ \E f \in Flow, k \in Key, s \in Server : Add(f, k, s)
        \/ \E f \in Flow, k \in Key : Rekey(f, k)
        \/ \E f \in Flow : Remove(f) \/ Visit(f)
        \/ Begin \/ Return \/ Found \/ NotFound \/ Undefined

Spec == Init /\ [][Next]_vars
=============================================================================
