------------------------------- MODULE PcpWait -------------------------------
(***************************************************************************)
(* What an application learns of a flow that has an instance per server:   *)
(* pcp_eval_flow_state, the blocking pcp_wait and pcp_flow_get_info of     *)
(* lib/src/pcp_api.c, the callback of handle_flow_event and                *)
(* flow_change_notify in lib/src/pcp_event_handler.c, and the exit code    *)
(* that cli-client/pcpnatpmpc.c makes of it.                               *)
(*                                                                         *)
(* An instance is one of the states that pcp_eval_flow_state tells apart;  *)
(* a pulse moves instances as flow_events_sm allows.                       *)
(***************************************************************************)
EXTENDS Integers, FiniteSets

CONSTANTS N,            \* the instances of the flow, in the order of next_child
          MaxTimeout    \* bound on the timeout of pcp_wait

\* A flow has an instance.
ASSUME WaitAssumption == N \in Nat \ {0}

Instance  == 1..N
FlowClass == {"processing", "succeeded", "short_lifetime_error", "failed"}
Exit      == FlowClass \ {"processing"}
FState    == FlowClass \cup {"partial_result"}
None      == "none"

VARIABLES st,       \* the state of each instance
          told,     \* the state of the chain from an instance on, as the callback
                    \* told it last or as the application changed it
          wait,     \* a pcp_wait: where it is, and its arguments
          left,     \* time until tout_end
          ret       \* what it has returned

waitvars == <<st, told, wait, left, ret>>

-----------------------------------------------------------------------------
\* pcp_eval_flow_state on the chain that starts at instance i.
From(i)       == {j \in Instance : j >= i}
ExitCount(s, i) == Cardinality({j \in From(i) : s[j] \in Exit})
Some(s, i, c) == \E j \in From(i) : s[j] = c

\* Mutant: an instance that failed outweighs one that succeeded.
pcp_eval_flow_state_worst(s, i) ==
    CASE Some(s, i, "processing") ->
            IF Some(s, i, "succeeded") THEN "partial_result" ELSE "processing"
      [] ~Some(s, i, "processing") /\ Some(s, i, "failed") -> "failed"
      [] OTHER -> "succeeded"

pcp_eval_flow_state(s, i) ==
    CASE Some(s, i, "processing") ->
            IF Some(s, i, "succeeded") THEN "partial_result" ELSE "processing"
      [] ~Some(s, i, "processing") /\ Some(s, i, "succeeded") -> "succeeded"
      [] ~Some(s, i, "processing") /\ ~Some(s, i, "succeeded") /\ Some(s, i, "failed") ->
            "failed"
      [] OTHER -> "short_lifetime_error"

\* The moves of flow_events_sm: only an instance that waits for an answer
\* takes a short lifetime error.
flow_events_sm(from, to) == to = "short_lifetime_error" => from \in {"processing", to}

\* handle_flow_event: the callback gets the state of the chain from i on, if
\* that has changed or a success has moved the external address.
handle_flow_event(i, to, moved) ==
    LET after == pcp_eval_flow_state([st EXCEPT ![i] = to], i)
    IN  /\ flow_events_sm(st[i], to)
        /\ moved => to = "succeeded"
        /\ st' = [st EXCEPT ![i] = to]
        /\ told' = [told EXCEPT ![i] = IF moved \/ pcp_eval_flow_state(st, i) # after
                                       THEN after ELSE @]

\* pcp_flow_updated, for all instances: no callback. The application may change
\* a flow between its calls and in its callback.
pcp_flow_updated ==
    /\ wait.at \in {"idle", "pulse"}
    /\ st' = [i \in Instance |-> IF st[i] = "failed" THEN "failed" ELSE "processing"]
    /\ told' = [i \in Instance |-> pcp_eval_flow_state(st', i)]
    /\ UNCHANGED <<wait, left, ret>>

-----------------------------------------------------------------------------
\* pcp_wait.
Call(timeout, partial) ==
    LET now == pcp_eval_flow_state(st, 1)
    IN  /\ wait.at = "idle"
        /\ wait' = [at |-> "check", partial |-> partial,
                    n |-> IF now \in {"partial_result", "processing"}
                          THEN ExitCount(st, 1) ELSE 0]
        /\ left' = timeout /\ ret' = None
        /\ UNCHANGED <<st, told>>

Return(state) == wait' = [wait EXCEPT !.at = "returned"] /\ ret' = state

\* Mutant: the time is not looked at.
Check_never ==
    /\ wait.at = "check"
    /\ wait' = [wait EXCEPT !.at = "pulse"]
    /\ UNCHANGED <<st, told, left, ret>>

Check ==
    /\ wait.at = "check"
    /\ IF left = 0 THEN Return("processing")
       ELSE wait' = [wait EXCEPT !.at = "pulse"] /\ UNCHANGED ret
    /\ UNCHANGED <<st, told, left>>

\* pcp_pulse: any number of events.
PulseEvent ==
    /\ wait.at = "pulse"
    /\ \E i \in Instance, to \in FlowClass, moved \in BOOLEAN :
            handle_flow_event(i, to, moved)
    /\ UNCHANGED <<wait, left, ret>>

\* The pulse is over.
Eval ==
    LET state == pcp_eval_flow_state(st, 1)
    IN  /\ wait.at = "pulse"
        /\ IF ExitCount(st, 1) > wait.n /\ (wait.partial \/ state # "partial_result")
           THEN Return(state)
           ELSE wait' = [wait EXCEPT !.at = "select"] /\ UNCHANGED ret
        /\ UNCHANGED <<st, told, left>>

\* select returns, for an answer, a timer or a signal.
Select == /\ wait.at = "select"
          /\ wait' = [wait EXCEPT !.at = "check"]
          /\ UNCHANGED <<st, told, left, ret>>

\* The application goes on.
Resume == /\ wait.at = "returned"
          /\ wait' = [wait EXCEPT !.at = "idle"]
          /\ UNCHANGED <<st, told, left, ret>>

Tick == /\ left > 0
        /\ left' = left - 1
        /\ UNCHANGED <<st, told, wait, ret>>

WaitInit == /\ st = [i \in Instance |-> "processing"]
            /\ told = [i \in Instance |-> "processing"]
            /\ wait = [at |-> "idle", partial |-> FALSE, n |-> 0]
            /\ left = 0 /\ ret = None

Waiting == Check \/ PulseEvent \/ Eval \/ Select

WaitNext == \/ \E t \in 0..MaxTimeout, p \in BOOLEAN : Call(t, p)
            \/ Waiting \/ Resume \/ pcp_flow_updated \/ Tick

WaitSpec == WaitInit /\ [][WaitNext]_waitvars

\* A pulse comes to an end and the clock moves.
WaitFairness == WF_waitvars(Check) /\ WF_waitvars(Eval) /\ WF_waitvars(Select) /\ WF_waitvars(Tick)

-----------------------------------------------------------------------------
\* pcp_flow_get_info: the result of each instance; and check_flow_info of the
\* command line client: the first instance that has a result decides.
pcp_flow_get_info == st

Code == [succeeded |-> 0, processing |-> 2, short_lifetime_error |-> 3, failed |-> 4]

check_flow_info ==
    LET done == {i \in Instance : pcp_flow_get_info[i] # "processing"}
    IN  IF done = {} THEN 2
        ELSE Code[pcp_flow_get_info[CHOOSE i \in done : \A j \in done : i <= j]]

\* Mutant: the exit code stays as it was after the time is over.
main_exit_unset ==
    CASE ret = "partial_result" -> check_flow_info
      [] ret = "processing"     -> 0
      [] OTHER                  -> Code[ret]

\* The exit code of main after pcp_wait.
main_exit == IF ret = "partial_result" THEN check_flow_info ELSE Code[ret]

-----------------------------------------------------------------------------
Returned == wait.at = "returned"

\* The result of pcp_wait says what is so: success means a mapping on some
\* server, failure none on any; and without exit_on_partial_res there is a
\* result only once every server has given one.
ResultIsTrue ==
    Returned =>
        /\ ret \in {"succeeded", "partial_result"} => Some(st, 1, "succeeded")
        /\ ret \in {"failed", "short_lifetime_error"} => ~Some(st, 1, "succeeded")
        /\ ~wait.partial /\ ret # "processing" => \A i \in Instance : st[i] \in Exit

\* The exit code of the command line client says what is so: 0 means a mapping;
\* without its fast return, an error code none on any server.
ExitCodeIsTrue ==
    Returned => /\ main_exit = 0 => Some(st, 1, "succeeded")
                /\ main_exit \in {3, 4} /\ ~wait.partial => ~Some(st, 1, "succeeded")

\* pcp_wait comes back: at the latest when its time is over.
WaitEnds == wait.at = "check" ~> Returned

\* The callback keeps an application, which knows its own changes, up to date
\* about the flow of a single server, and about the last instance of a chain.
LastIsTold == told[N] = pcp_eval_flow_state(st, N)
=============================================================================
