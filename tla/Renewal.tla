------------------------------- MODULE Renewal -------------------------------
(***************************************************************************)
(* The environment in which the mappings of the client stay alive: one     *)
(* server, which does not restart and does not change its version, and an  *)
(* application that pulses in time and that requests and deletes flows.    *)
(* Every one of these assumptions is needed (see README.md).               *)
(***************************************************************************)
EXTENDS PcpClient

\* handle_wait_io_timeout sweeps the flows of all servers for the timer of one.
ASSUME OneServerAssumption == NServers = 1

\* The application pulses when pcp_pulse told it to, a pulse takes no time, and
\* a server that was given up is silent until it is pinged again.
ASSUME TimelyAssumption == Prompt /\ ~SlowPulse /\ ~LateAnswers

\* The interval before a request is sent again does not round down to nothing;
\* with the 3000 ms of PCP_RETX_IRT it cannot.
ASSUME SpreadAssumption == \A r \in Rand : IRT >= 2 \/ r <= 1024

\* The calls that do not touch the timer of a flow that is failed or waiting,
\* and that do not register the server a second time.
ASSUME PlainCallsAssumption ==
    Calls \subseteq {"init", "new_flow", "delete_flow", "terminate"}

\* The server keeps its epoch and its version, and grants no empty lifetime.
ASSUME SteadyServerAssumption ==
    /\ \A e1, e2 \in Epoch : e1 = e2
    /\ \A m \in Answers : /\ m.result # "unsupp_version"
                          /\ m.result = "success" => m.lifetime > 0
=============================================================================
