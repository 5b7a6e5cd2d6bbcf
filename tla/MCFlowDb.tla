------------------------------ MODULE MCFlowDb ------------------------------
(***************************************************************************)
(* The flow database and the search for the nearest timer, two traversals  *)
(* that share no state: a behaviour is one of either.  Of the keys two     *)
(* share a bucket and one does not.                                        *)
(***************************************************************************)
EXTENDS FlowDb, NearestTimer, TLC

CONSTANTS b1, b2

MCHash == [k \in Key |-> IF k[1] = b2 THEN 1 ELSE k[2]]
MCSpan == 0 .. 3

MCSymmetry == Permutations(Flow)

VARIABLE part

MCInit == /\ part \in {"db", "search"}
          /\ Init /\ SearchInit
          /\ part = "db" => timer = [k \in 1 .. N |-> NoTimer]

MCNext == \/ part = "db" /\ Next /\ UNCHANGED <<part, searchvars>>
          \/ part = "search" /\ SearchNext /\ UNCHANGED <<part, vars>>

MCSpec == MCInit /\ [][MCNext]_<<part, vars, searchvars>>
=============================================================================
