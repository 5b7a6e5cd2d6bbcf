---------------------------- MODULE NearestTimer ----------------------------
(***************************************************************************)
(* The search for the nearest timer, step by step: pcp_db_foreach_flow     *)
(* calls check_flow_timeout on one flow after the other, and tout carries  *)
(* the result.  hserver_iter finds the nearest timer of the servers in the *)
(* same way.  PcpClient takes the result in one step, by the closed form   *)
(* that is checked and proved here (NearestTimeout).                       *)
(*                                                                         *)
(* A timer is what timeval_subtract leaves of it: the time to go, or 0 for *)
(* one that is not in the future.  {0, 0} is also how tout says "none".    *)
(***************************************************************************)
EXTENDS Integers

CONSTANTS N,         \* how many flows there are
          NoTimer,   \* a flow without a timer
          Span       \* the times to go

ASSUME NAssumption == N \in Nat
ASSUME SpanAssumption == Span \subseteq Nat /\ NoTimer \notin Nat

VARIABLES timer, nth, tout
searchvars == <<timer, nth, tout>>

SearchInit == /\ timer \in [1 .. N -> Span \cup {NoTimer}]
              /\ nth = 1
              /\ tout = 0

\* Mutant: tout is taken for a time from the start.
check_flow_timeout_least ==
    /\ nth <= N
    /\ nth' = nth + 1
    /\ tout' = IF timer[nth] # NoTimer /\ timer[nth] < tout THEN timer[nth] ELSE tout
    /\ UNCHANGED timer

\* Mutant: the comparison is the wrong way round.
check_flow_timeout_most ==
    /\ nth <= N
    /\ nth' = nth + 1
    /\ tout' = IF timer[nth] # NoTimer /\ (tout = 0 \/ timer[nth] > tout)
               THEN timer[nth] ELSE tout
    /\ UNCHANGED timer

check_flow_timeout ==
    /\ nth <= N
    /\ nth' = nth + 1
    /\ tout' = IF timer[nth] # NoTimer /\ (tout = 0 \/ timer[nth] < tout)
               THEN timer[nth] ELSE tout
    /\ UNCHANGED timer

Done == nth > N /\ UNCHANGED searchvars

SearchNext == check_flow_timeout \/ Done

SearchSpec == SearchInit /\ [][SearchNext]_searchvars

-----------------------------------------------------------------------------
Armed == {k \in 1 .. N : timer[k] # NoTimer}
Late  == {k \in Armed : timer[k] = 0}

\* The timers among the first n that come after the last late one of them.
After(n) == {k \in Armed : k <= n /\ \A z \in Late : z <= n => z < k}

\* d is the closed form of the search over the first n flows.
IsNearest(n, d) ==
    \/ d = 0 /\ After(n) = {}
    \/ /\ \E k \in After(n) : d = timer[k]
       /\ \A k \in After(n) : d <= timer[k]

\* The search computes the closed form that PcpClient uses: the smallest timer
\* met after the last one that is not in the future, or 0.
SearchIsClosedForm == nth = N + 1 => IsNearest(N, tout)

\* If every timer is in the future the search finds the nearest one, as
\* pcpnatpmp.h says of pcp_pulse; 0 then means that there is no timer.
NearestIfNoneLate ==
    nth = N + 1 /\ Late = {} =>
        IF Armed = {} THEN tout = 0
        ELSE /\ \E k \in Armed : tout = timer[k]
             /\ \A k \in Armed : tout <= timer[k]
=============================================================================
