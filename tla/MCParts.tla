------------------------------- MODULE MCParts -------------------------------
(***************************************************************************)
(* The parts of the library, the test server and the command line client   *)
(* that have a module of their own and share no state: in a behaviour one  *)
(* of them moves and the others rest, which shows all that each can do.    *)
(*   exchange   client and server over a network, down to the messages     *)
(*   wire       one request of any kind, and its answer                    *)
(*   wait       pcp_wait, the callback and the exit code                   *)
(*   servers    the table of servers                                       *)
(*   gateways   getgateways                                                *)
(*   addresses  the addresses of a flow and of its answer                  *)
(*   socket     the socket of a context                                    *)
(*   testserver the life of the test server                                *)
(*   cli        the command line client up to pcp_wait                     *)
(***************************************************************************)
EXTENDS PcpWait, PcpSocket, TestServer, ServerTable, CliClient, Gateways,
        Addressing

CONSTANTS NoTimer, NoBuf, NoFlow, NoEpoch, Zero, Garbage, NatPmp, r1, r2, a1,
          LateReplies

VARIABLES part,
          w_f, w_v, w_peer, w_stage, w_req, w_resp, w_got,
          x_flow, server, pulse, net, peer, lossy

wvars == <<w_f, w_v, w_peer, w_stage, w_req, w_resp, w_got>>
xvars == <<x_flow, server, pulse, net, peer, lossy>>
pvars == <<part, xvars, wvars, waitvars, tablevars, gatewayvars,
           addressvars, socketvars, servervars, clivars>>

-----------------------------------------------------------------------------
\* A MAP and a PEER request to a server of any kind.
Requests == {r1, r2}
Flows    == (Requests \cup {a1}) \X {1}

Link == INSTANCE Exchange WITH
    IRT <- 1, MRT <- 1, MRC <- 2, MaxLife <- 2, RetryDelay <- 1, MaxPing <- 2,
    NServers <- 1, Request <- Requests, Ann <- {a1}, Epoch <- {1},
    OpOf <- [r \in Requests |-> IF r = r1 THEN "map" ELSE "peer"],
    Reaches <- [r \in Requests |-> {1}],
    Pos <- [f \in Flows |-> CASE f[1] = r1 -> 1 [] f[1] = r2 -> 2 [] OTHER -> 3],
    Answers <- {}, Lifetimes <- {2}, AddVersions <- {2},
    Calls <- {"add_server", "new_flow"}, Faults <- {{}}, Rand <- {1024},
    LateAnswers <- TRUE, SlowPulse <- FALSE, Prompt <- TRUE,
    Peers <- {1, 2, NatPmp}, MaxNet <- 3, Patient <- TRUE, Late <- LateReplies,
    flow <- x_flow

\* Requests up to and past PCP_MAX_LEN: no option, each one, each pair and all.
W          == INSTANCE PcpMsg
AllOptions == {W!OptOrder[i] : i \in DOMAIN W!OptOrder}
Lengths    == {<<>>, <<5>>, <<3, 0, 8>>, <<421, 300>>, <<1036>>, <<1000, 700, 6>>}

Message == INSTANCE Wire WITH
    Protocols <- {6, 132}, OptionSets <- {o \in SUBSET AllOptions :
                                              Cardinality(o) <= 2 \/ o = AllOptions},
    Metadata <- Lengths, Names <- {0, 1, 2, 5, 254},
    f <- w_f, v <- w_v, peer <- w_peer, stage <- w_stage, req <- w_req,
    resp <- w_resp, got <- w_got

\* Routes with and without a gateway, of every kind the three systems tell apart.
SomeRoutes == {[fam |-> "v4", main |-> TRUE, gw |-> "a"],
               [fam |-> "v6", main |-> TRUE, gw |-> "b"],
               [fam |-> "v6", main |-> TRUE, gw |-> "any"],
               [fam |-> "v4", main |-> TRUE, gw |-> NoGateway],
               [fam |-> "v4", main |-> FALSE, gw |-> "c"],
               [fam |-> "other", main |-> TRUE, gw |-> "d"]}

\* The DSCP values of a flow priority are not 0, with which pcp_flow_set_flowp
\* sends no option.
CommandLine ==
    {"server", "disdisc", "tcp", "udp", "pfailure", "flowp", "dev_id",
     "location", "user_id", "sadscp_jit", "sadscp_app", "help", "unknown"}
        \X {"none"}
    \cup {"int", "peer", "ext", "filter", "thirdparty"} \X {"addr", "bad"}
    \cup {<<"peer", "any">>, <<"nonce", "none">>, <<"nonce", "bad">>,
          <<"lifetime", 1>>, <<"lifetime", 2>>, <<"md_id", 1>>, <<"md_id", 2>>}
    \cup {"version"} \X {1, 2, 3, 258}

-----------------------------------------------------------------------------
Parts == {"exchange", "wire", "wait", "servers", "gateways", "addresses",
          "socket", "testserver", "cli"}

PInit == /\ part \in Parts
         /\ Link!XInit /\ (part # "exchange" => peer = NatPmp /\ ~lossy)
         /\ Message!Init /\ WaitInit /\ TableInit /\ GatewayInit /\ AddressInit
         /\ SocketInit /\ ServerInit /\ CliInit

PNext ==
    \/ /\ part = "exchange" /\ Link!XNext
       /\ UNCHANGED <<part, wvars, waitvars, tablevars, gatewayvars,
                      addressvars, socketvars, servervars, clivars>>
    \/ /\ part = "wire" /\ Message!Next
       /\ UNCHANGED <<part, xvars, waitvars, tablevars, gatewayvars,
                      addressvars, socketvars, servervars, clivars>>
    \/ /\ part = "wait" /\ WaitNext
       /\ UNCHANGED <<part, xvars, wvars, tablevars, gatewayvars,
                      addressvars, socketvars, servervars, clivars>>
    \/ /\ part = "servers" /\ TableNext
       /\ UNCHANGED <<part, xvars, wvars, waitvars, gatewayvars,
                      addressvars, socketvars, servervars, clivars>>
    \/ /\ part = "gateways" /\ GatewayNext
       /\ UNCHANGED <<part, xvars, wvars, waitvars, tablevars,
                      addressvars, socketvars, servervars, clivars>>
    \/ /\ part = "addresses" /\ AddressNext
       /\ UNCHANGED <<part, xvars, wvars, waitvars, tablevars,
                      gatewayvars, socketvars, servervars, clivars>>
    \/ /\ part = "socket" /\ SocketNext
       /\ UNCHANGED <<part, xvars, wvars, waitvars, tablevars, gatewayvars,
                      addressvars, servervars, clivars>>
    \/ /\ part = "testserver" /\ ServerNext
       /\ UNCHANGED <<part, xvars, wvars, waitvars, tablevars, gatewayvars,
                      addressvars, socketvars, clivars>>
    \/ /\ part = "cli" /\ CliNext
       /\ UNCHANGED <<part, xvars, wvars, waitvars, tablevars, gatewayvars,
                      addressvars, socketvars, servervars>>

PSpec == PInit /\ [][PNext]_pvars

\* The client and a server alone.
ExchangeSpec == PInit /\ part = "exchange" /\ [][PNext]_pvars

\* The fairness of each part, see there. What a part at rest is in has no fair
\* step, except for the client of Exchange.
PFairSpec == /\ PSpec
             /\ WaitFairness /\ SocketFairness /\ ServerFairness
             /\ part = "exchange" => Link!XFairness

-----------------------------------------------------------------------------
\* The properties of the parts, by their names; each module says what its own
\* ones are about. Those of PcpWait, PcpSocket, TestServer, ServerTable, CliClient,
\* Gateways and Addressing come with them.

\* The version the client and a server agree on.
VersionIsServed == Link!VersionIsServed
\* A request on a network that loses nothing.
RequestIsMapped == Link!RequestIsMapped

\* Requests, as messages.
RequestIsAccepted  == Message!RequestIsAccepted
\* Answers, as messages.
AnswerIsUnderstood == Message!AnswerIsUnderstood

\* What blocks comes back: pcp_wait with a result or its time over, the search
\* for a port of pcp_init, and the test server with its time over.
CallsReturn == WaitEnds /\ BindEnds /\ ServerEnds
=============================================================================
