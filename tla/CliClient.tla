------------------------------ MODULE CliClient ------------------------------
(***************************************************************************)
(* The command line client, cli-client/pcpnatpmpc.c, up to pcp_wait: the   *)
(* options are parsed one by one in the order they are given, main checks  *)
(* them, starts the library, adds the servers, makes the flow and sets its *)
(* options.  What pcp_wait returns, and the exit code main makes of it,    *)
(* are in module PcpWait.                                                  *)
(*                                                                         *)
(* An option is a pair <<name, argument>>.  The argument of an address is  *)
(* what sock_pton makes of it: "addr", "any" (a wildcard) or "bad".        *)
(***************************************************************************)
EXTENDS Integers, Sequences

CONSTANTS Options,       \* the options the user may give
          MaxOptions,    \* how many of them
          MaxDiscovered  \* bound: gateways found by autodiscovery

VARIABLES given,  \* the options given so far
          params, \* struct pcp_params
          pc,     \* where main is
          table,  \* the versions of the servers in the library's table
          flow    \* the flow, or NullFlow

clivars == <<given, params, pc, table, flow>>

MaxVersion == 2     \* PCP_MAX_SUPPORTED_VERSION
NullFlow == [op |-> "none"]

(* The options parse_opt_* only records, each in a field of its own. *)
Addresses == {"int", "peer", "ext", "filter", "thirdparty"}
MapPeerFlags == {"pfailure", "nonce", "flowp"}
PlainFlags == {"dev_id", "location", "user_id"}
Tolerances == {"sadscp_jit", "sadscp_los", "sadscp_del", "sadscp_app"}
Protocol == [tcp |-> 6, udp |-> 17]
MapPeerNames == Addresses \cup MapPeerFlags \cup DOMAIN Protocol \cup {"md_id"}

(* An option is one of these, an address that is given is not "none", and  *)
(* a version is a number.  Left out are -f and -T, which only pcp_wait     *)
(* sees, -n, a protocol by its number, and the value of the metadata; the  *)
(* two options of a flow priority are one flag.                            *)
OptionNames ==
  MapPeerNames \cup PlainFlags \cup Tolerances
    \cup {"server", "version", "disdisc", "lifetime", "help", "unknown"}

ASSUME OptionsAssumption ==
  \A o \in Options : /\ o[1] \in OptionNames
                     /\ o[1] \in Addresses => o[2] # "none"
                     /\ o[1] = "version" => o[2] \in Int

-----------------------------------------------------------------------------
(* parse_params: the defaults, and one handler per option. *)

Defaults ==
  [addr |-> [k \in Addresses |-> "none"], flags |-> {}, protocol |-> 6, lifetime |-> 900,
   md |-> <<>>, version |-> MaxVersion, dis |-> FALSE,
   servers |-> <<>>, mappeer |-> FALSE, sadscp |-> FALSE]

parse_opt_server(q) ==
  [q EXCEPT !.servers = <<q.version>> \o @]

parse_opt_version(q, a) == [q EXCEPT !.version = a % 256]

parse_opt_addr(q, name, a) ==
  [q EXCEPT !.addr[name] = a, !.mappeer = TRUE]

parse_opt_flag(q, name) ==
  [q EXCEPT !.flags = @ \cup {name}, !.mappeer = TRUE]

(* One metadata option is kept: each replaces the one before. *)
parse_opt_md_id(q, a) == [q EXCEPT !.md = <<a>>, !.mappeer = TRUE]

parse_opt(q, o) ==
  LET name == o[1]
      a == o[2]
  IN  CASE name = "server"   -> parse_opt_server(q)
        [] name = "version"  -> parse_opt_version(q, a)
        [] name = "disdisc"  -> [q EXCEPT !.dis = TRUE]
        [] name \in Addresses -> parse_opt_addr(q, name, a)
        [] name \in DOMAIN Protocol ->
             [q EXCEPT !.protocol = Protocol[name], !.mappeer = TRUE]
        [] name = "lifetime" -> [q EXCEPT !.lifetime = a]
        [] name \in MapPeerFlags -> parse_opt_flag(q, name)
        [] name = "md_id"    -> parse_opt_md_id(q, a)
        [] name \in PlainFlags -> [q EXCEPT !.flags = @ \cup {name}]
        [] name \in Tolerances -> [q EXCEPT !.sadscp = TRUE]

(* The options that end the program where they are parsed: -h, one that is *)
(* not known, a nonce that is not 24 hex digits, a version above 2.        *)
Exits(o) ==
  \/ o[1] \in {"help", "unknown"}
  \/ o = <<"nonce", "bad">>
  \/ o[1] = "version" /\ o[2] % 256 > MaxVersion

Parse(o) ==
  /\ pc = "parse"
  /\ Len(given) < MaxOptions
  /\ given' = Append(given, o)
  /\ IF Exits(o) THEN pc' = "exit" /\ UNCHANGED params
     ELSE params' = parse_opt(params, o) /\ UNCHANGED pc
  /\ UNCHANGED <<table, flow>>

-----------------------------------------------------------------------------
(* The end of parse_params: the options are of one operation. *)
Mixed(q) == q.mappeer = q.sadscp

(* The checks of main. *)
ArgsRefused(q) ==
  \/ Mixed(q)
  \/ \E k \in Addresses : q.addr[k] = "bad"
  \/ /\ q.addr.peer # "none"
     /\ "pfailure" \in q.flags \/ q.addr.filter # "none"

(* pcp_init, with or without autodiscovery (n gateways, each added with    *)
(* the library's own version), then pcp_add_server for each server of the  *)
(* list.  It starts nothing when an argument is refused.                   *)
Start(n) ==
  /\ pc = "parse"
  /\ params.dis => n = 0
  /\ IF ArgsRefused(params)
     THEN pc' = "exit" /\ UNCHANGED table
     ELSE /\ pc' = "flow"
          /\ table' = [i \in 1..n |-> MaxVersion] \o params.servers
  /\ UNCHANGED <<given, params, flow>>

(* pcp_init returns NULL, which main does not look at: pcp_add_server and  *)
(* pcp_new_flow refuse it, pcp_learn_dscp runs into an assertion.          *)
InitFails ==
  /\ pc = "parse"
  /\ ~ArgsRefused(params)
  /\ pc' = IF params.mappeer THEN "exit" ELSE "abort"
  /\ UNCHANGED <<given, params, table, flow>>

(* The family of an address that was not given is that of the zeroed       *)
(* buffer, AF_UNSPEC.                                                      *)
Family(a) == IF a = "none" THEN "AF_UNSPEC" ELSE "AF_INET"

(* pcp_new_flow, with a server of the table: the external address takes    *)
(* the family of the source when none is given.                            *)
pcp_new_flow(q) ==
  IF \/ table = <<>>
     \/ q.addr.ext = "none" /\ Family(q.addr.int) = "AF_UNSPEC"
  THEN NullFlow
  ELSE [op |-> IF q.addr.peer = "addr" THEN "PEER" ELSE "MAP",
        protocol |-> q.protocol, lifetime |-> q.lifetime,
        flags |-> {}, md |-> <<>>]

(* pcp_learn_dscp: a flow for each server of the table. *)
pcp_learn_dscp == IF table = <<>> THEN NullFlow ELSE [op |-> "SADSCP"]

(* The options with an address. *)
Optional(q) == {k \in {"filter", "thirdparty"} : q.addr[k] # "none"}

(* Mutant: the third party is not set. *)
SetOptions_thirdparty(f, q) ==
  [f EXCEPT !.flags = q.flags \cup (Optional(q) \ {"thirdparty"}),
            !.md = q.md]

(* The pcp_flow_set_* calls of main. *)
SetOptions(f, q) ==
  [f EXCEPT !.flags = q.flags \cup Optional(q), !.md = q.md]

MakeFlow ==
  /\ pc = "flow"
  /\ IF params.mappeer
     THEN LET f == pcp_new_flow(params)
          IN  IF f = NullFlow THEN pc' = "exit" /\ UNCHANGED flow
              ELSE pc' = "wait" /\ flow' = SetOptions(f, params)
     ELSE /\ pc' = "wait"
          /\ flow' = pcp_learn_dscp
  /\ UNCHANGED <<given, params, table>>

CliInit ==
  /\ given = <<>>
  /\ params = Defaults
  /\ pc = "parse"
  /\ table = <<>>
  /\ flow = NullFlow

CliNext ==
  \/ \E o \in Options : Parse(o)
  \/ \E n \in 0..MaxDiscovered : Start(n)
  \/ InitFails
  \/ MakeFlow

CliSpec == CliInit /\ [][CliNext]_clivars

-----------------------------------------------------------------------------
Given == {given[i] : i \in DOMAIN given}
Names == {o[1] : o \in Given}

(* The value of the last option of a kind, or the default. *)
LastOption(names, value(_), default) ==
  LET at == {i \in DOMAIN given : given[i][1] \in names}
  IN  IF at = {} THEN default
      ELSE value(given[CHOOSE i \in at : \A j \in at : j <= i])

IsMapPeer == flow.op \in {"MAP", "PEER"}

(* The flow carries exactly the options of the command line, in whatever   *)
(* order they are given: the last protocol and lifetime, and each PCP      *)
(* option between parse_opt_* and the pcp_flow_set_* calls of main.        *)
OptionsReachFlow ==
  IsMapPeer =>
    /\ flow.flags = Names \cap (MapPeerFlags \cup PlainFlags
                                   \cup {"filter", "thirdparty"})
    /\ flow.protocol = LastOption(DOMAIN Protocol, LAMBDA o : Protocol[o[1]], 6)
    /\ flow.lifetime = LastOption({"lifetime"}, LAMBDA o : o[2], 900)

(* The options that PCP defines for MAP alone never go into a PEER: main   *)
(* refuses them, the library does not.                                     *)
MapOnlyOptions ==
  flow.op = "PEER" => flow.flags \cap {"pfailure", "filter"} = {}

(* The address that counts, the last one of its kind, is valid, and the    *)
(* options are of one operation, once a socket is opened and a server      *)
(* learns of this client: a bad command line ends before pcp_init.         *)
CheckedBeforeStart ==
  pc \in {"flow", "wait"} =>
    /\ \A k \in Addresses : LastOption({k}, LAMBDA o : o[2], "none") # "bad"
    /\ (Names \cap Tolerances = {})
         # (Names \cap MapPeerNames = {})

(* What runs is what the command line says, or nothing is started. *)
CommandLineIsKept == OptionsReachFlow /\ MapOnlyOptions /\ CheckedBeforeStart
=============================================================================
