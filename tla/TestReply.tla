------------------------------ MODULE TestReply ------------------------------
(***************************************************************************)
(* How the test server of test-server/pcp-server.c answers one request:    *)
(* printPCPreq judges it, create_response turns it into the response.  A   *)
(* NAT-PMP server, which the repository talks to and does not hold, is     *)
(* described by the message structures the client expects of it.           *)
(***************************************************************************)
EXTENDS PcpMsg

\* The verdict of print_PCP_options on one option.
OptionResult(o, seen, op) ==
    IF o.code \in seen THEN "malformed_option"
    ELSE IF o.code \in {"pfailure", "filter"} /\ op # OpCode["map"]
    THEN "malformed_request" ELSE "success"

\* One turn of the loop around print_PCP_options.
print_PCP_options(st, o, op) ==
    IF st.remain <= 0 THEN st
    ELSE [remain |-> st.remain - o.len,
          seen   |-> IF o.code \in {"third_party", "pfailure"} THEN st.seen \cup {o.code}
                     ELSE st.seen,
          result |-> OptionResult(o, st.seen, op)]

\* The loop: the verdict that counts is that of the last option; the zeroed
\* bytes behind the options are an option that is not recognised.
PrintOptions(m, remain) ==
    LET end == FoldLeft(LAMBDA st, o : print_PCP_options(st, o, m.op),
                        [remain |-> remain, seen |-> {}, result |-> "success"], m.opts)
    IN  IF end.remain > 0 THEN "success" ELSE end.result

\* What is taken off for the body; for PEER of version 1 the size of a MAP.
BodySize(m) ==
    CASE m.ver = 1 /\ m.op \in {OpCode["map"], OpCode["peer"]} -> 24
      [] m.ver = 2 /\ m.op = OpCode["map"] -> 36
      [] m.ver = 2 /\ m.op = OpCode["peer"] -> 56
      [] m.ver = 2 /\ m.op = OpCode["sadscp"] -> 14 + m.body.name

HasBody(m) == \/ m.ver = 1 /\ m.op \in {OpCode["map"], OpCode["peer"]}
              \/ m.ver = 2 /\ m.op \in {OpCode["map"], OpCode["peer"], OpCode["sadscp"]}

printPCPreq(m, version) ==
    CASE m.len > PCP_MAX_LEN \/ m.len < 4 \/ m.len % 4 # 0 -> "malformed_request"
      [] OTHER ->
          IF m.ver > version \/ m.ver \notin {1, 2} THEN "unsupp_version"
          ELSE IF ~HasBody(m) THEN "success"
          ELSE IF m.op # OpCode["sadscp"] /\ m.len < HeaderLen + BodySize(m)
          THEN "malformed_option"
          ELSE IF m.op = OpCode["sadscp"] /\ m.len < HeaderLen + 14
          THEN "malformed_request"
          ELSE PrintOptions(m, m.len - HeaderLen - BodySize(m))

\* The response is the request with the R bit, the result and, in a refusal
\* of its version, the version of the server.
create_response(m, code, version) ==
    [m EXCEPT !.r = TRUE, !.result = code,
              !.ver = IF code = "unsupp_version" THEN version ELSE @]

\* recvfrom leaves the last byte of the buffer free.
Recvfrom(m) == [m EXCEPT !.len = IF @ > PCP_MAX_LEN - 1 THEN PCP_MAX_LEN - 1 ELSE @]

\* pcp_test_server_pulse from the request to the response; default_result_code
\* 255 is "computed".
Respond(m, version, default_result_code) ==
    LET got == Recvfrom(m)
    IN  create_response(got, IF default_result_code = "computed"
                             THEN printPCPreq(got, version)
                             ELSE default_result_code, version)

\* A NAT-PMP server: it refuses any other version with a short response.
NatPmpRespond(m) ==
    CASE m.ver # 0 -> [m EXCEPT !.len = 8, !.ver = 0, !.r = TRUE,
                                !.result = "unsupp_version", !.layout = "none"]
      [] m.ver = 0 /\ m.op = 0 -> [m EXCEPT !.len = 12, !.r = TRUE]
      [] m.ver = 0 /\ m.op # 0 -> [m EXCEPT !.len = 16, !.r = TRUE]
=============================================================================
