-------------------------------- MODULE Wire --------------------------------
(***************************************************************************)
(* One request and its answer: build_pcp_msg, the server, and pcp_pulse up *)
(* to the lookup of the flow, for every kind of flow, every version of the *)
(* client and every version of the server.                                 *)
(***************************************************************************)
EXTENDS TestReply

CONSTANTS Protocols,      \* protocols of the MAP and PEER flows
          OptionSets,     \* sets of options
          Metadata,       \* sequences of lengths of metadata values
          Names,          \* lengths of application names
          NatPmp          \* the server that only speaks NAT-PMP

VARIABLES f,       \* the flow
          v,       \* the version the client has for the server
          peer,    \* the version of the test server, or NatPmp
          stage, req, resp, got

vars == <<f, v, peer, stage, req, resp, got>>

\* The flows pcp_new_flow and the option setters make; the nonce is the
\* server's.
Flows ==
    LET Base == [op |-> "map", protocol |-> Zero, src_port |-> "port", dst |-> Zero,
                 nonce |-> "nonce", ext |-> Zero, opts |-> {}, md |-> <<>>, name |-> 0]
    IN  {[Base EXCEPT !.op = op, !.protocol = p, !.opts = o, !.md = m,
                      !.dst = IF op = "peer" THEN "dst" ELSE Zero] :
            op \in {"map", "peer"}, p \in Protocols, o \in OptionSets, m \in Metadata}
        \cup {[Base EXCEPT !.op = "sadscp", !.src_port = Zero, !.opts = o, !.name = n] :
                 o \in OptionSets, n \in Names}
        \cup {[Base EXCEPT !.op = "announce", !.src_port = Zero, !.nonce = Zero]}

Init == /\ f = Zero /\ v = 0 /\ peer = NatPmp
        /\ stage = "idle"
        /\ req = NoMsg /\ resp = NoMsg /\ got = Unparsed

\* Any flow, client and server.
Begin == /\ stage = "idle"
         /\ f' \in Flows
         /\ v' \in 0..MaxVersion
         /\ peer' \in (0..MaxVersion) \cup {NatPmp}
         /\ stage' = "build"
         /\ UNCHANGED <<req, resp, got>>

\* pcp_flow_send_msg sends nothing for an empty message.
Build == /\ stage = "build"
         /\ req' = build_pcp_msg(f, v)
         /\ stage' = IF req'.len = 0 THEN "end" ELSE "sent"
         /\ UNCHANGED <<f, v, peer, resp, got>>

Serve == /\ stage = "sent"
         /\ stage' = "answered"
         /\ resp' = IF peer = NatPmp THEN NatPmpRespond(req)
                    ELSE Respond(req, peer, "computed")
         /\ UNCHANGED <<f, v, peer, req, got>>

Receive == /\ stage = "answered"
           /\ stage' = "end"
           /\ got' = Received(resp, "nonce")
           /\ UNCHANGED <<f, v, peer, req, resp>>

Next == Begin \/ Build \/ Serve \/ Receive

Spec == Init /\ [][Next]_vars

-----------------------------------------------------------------------------
Sent == req.len # 0

\* Every PCP request build_pcp_msg makes, with any options and as much
\* metadata as it is given, is one the protocol allows: a multiple of four
\* bytes, no shorter than the header and no longer than the buffer.
RequestFits == Sent /\ v # 0 => /\ req.len % 4 = 0
                                /\ req.len >= HeaderLen
                                /\ req.len <= PCP_MAX_LEN

\* An answer in the client's own version that is no refusal of the version
\* carries the key of the flow it answers, so pcp_get_flow finds the flow.
AnswerFindsFlow ==
    got.ok /\ got.version = v /\ f.op # "announce" /\ got.result # "unsupp_version"
    => got.key = KeyOf(f)

\* A request in a version the server speaks is answered by a message the client
\* parses.
AnswerIsParsed ==
    (Sent /\ stage = "end" /\ peer # NatPmp /\ req.len < PCP_MAX_LEN)
    => (v \in 1..peer => got.ok /\ got.version = v)

\* The refusal of a version reaches handle_version_negotiation with the version of
\* the server: that of a NAT-PMP server for a request of any kind, and that of a
\* test server of version 1 for any but SADSCP. A SADSCP request gets no further:
\* its refusal has a version and an opcode that parse_v1_resp takes for nothing.
RefusalIsUnderstood ==
    stage = "end" /\ Sent /\ v \in {1, 2} /\ req.len < PCP_MAX_LEN =>
    /\ peer = NatPmp => got.ok /\ got.result = "unsupp_version" /\ got.version = 0
    /\ peer = 1 /\ v = 2 =>
          IF f.op = "sadscp" THEN ~got.ok
          ELSE got.ok /\ got.result = "unsupp_version" /\ got.version = 1

\* A MAP request shorter than the longest one is accepted with all the
\* options the client may put into it: the test server walks them in step
\* with the client.
MapIsAccepted ==
    (stage = "end" /\ Sent /\ f.op = "map" /\ req.len < PCP_MAX_LEN /\ peer # NatPmp)
    => (v \in 1..peer => got.ok /\ got.result = "success")

\* Requests are good whatever options and metadata they carry: their length is
\* legal, and a MAP request is accepted.
RequestIsAccepted == RequestFits /\ MapIsAccepted

\* Answers are understood: in the client's version, with the key of the flow, and
\* as a refusal where they are one, with the exception that RefusalIsUnderstood
\* names.
AnswerIsUnderstood == AnswerFindsFlow /\ AnswerIsParsed /\ RefusalIsUnderstood
=============================================================================
