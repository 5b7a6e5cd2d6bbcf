------------------------------- MODULE PcpMsg -------------------------------
(***************************************************************************)
(* The messages of lib/src/pcp_msg.c: what build_pcp_msg writes for a flow *)
(* and a version, what validate_pcp_msg lets through and what              *)
(* parse_response reads.  A message is its length, the header fields, the  *)
(* body with the layout it was written in, and its options in order.  A    *)
(* field read in another layout than the one written is Garbage.           *)
(***************************************************************************)
EXTENDS Naturals, SequencesExt

CONSTANTS Zero,      \* the value of a key field that memset cleared
          Garbage    \* the value of a field read where another one was written

PCP_MAX_LEN == 1100
HeaderLen   == 24    \* sizeof(pcp_request_t) = sizeof(pcp_response_t)
MaxVersion  == 2     \* PCP_MAX_SUPPORTED_VERSION

TCP == 6
UDP == 17

\* The opcode byte without its R bit; NAT-PMP has opcodes of its own.
OpCode == [announce |-> 0, map |-> 1, peer |-> 2, sadscp |-> 3]
NATPMP_OPCODE_MAP_UDP == 1
NATPMP_OPCODE_MAP_TCP == 2

\* The flows: key fields, options that are present, lengths of the metadata
\* values and of the application's name.
\*   [op, protocol, src_port, dst, nonce, ext, opts, md, name]
KeyOf(f) == [op |-> OpCode[f.op], protocol |-> f.protocol, src_port |-> f.src_port,
             dst |-> f.dst, nonce |-> f.nonce]

-----------------------------------------------------------------------------
(* Options.                                                                 *)

OptLen == [flowp |-> 8, filter |-> 24, pfailure |-> 4, third_party |-> 20,
           deviceid |-> 36, userid |-> 516, location |-> 36]

\* The order of build_pcp_options.
OptOrder == <<"flowp", "filter", "pfailure", "third_party",
              "deviceid", "userid", "location">>

OptsLen(os) == FoldLeft(LAMBDA n, o : n + o.len, 0, os)

Pad(n) == (4 - (n % 4)) % 4

\* Mutant: the option's header is forgotten when the room is computed.
add_md_option_tight(os, at, n) ==
    LET o == [code |-> "metadata", len |-> 8 + n + Pad(n)]
    IN  IF at + OptsLen(os) + n + Pad(n) > PCP_MAX_LEN THEN os ELSE Append(os, o)

\* A metadata value that no longer fits is left out.
add_md_option(os, at, n) ==
    LET o == [code |-> "metadata", len |-> 8 + n + Pad(n)]
    IN  IF at + OptsLen(os) + o.len > PCP_MAX_LEN THEN os ELSE Append(os, o)

add_md_options(os, at, md) ==
    FoldLeft(LAMBDA done, n : IF n = 0 THEN done ELSE add_md_option(done, at, n), os, md)

\* The options of flow f, behind the first at bytes.
build_pcp_options(f, at) ==
    LET present == SelectSeq(OptOrder, LAMBDA o : o \in f.opts)
        fixed   == [i \in DOMAIN present |-> [code |-> present[i], len |-> OptLen[present[i]]]]
    IN  add_md_options(fixed, at, f.md)

-----------------------------------------------------------------------------
(* build_pcp_msg.  The buffer it writes to is new and zeroed: one that      *)
(* outlives its event (PcpClient, BufferIsFreed) is sent as it is, and no   *)
(* message is built into it again.                                          *)

\* The name is filled up to a multiple of 4 with the two bytes in front of it,
\* and its length is a uint8_t.
AppNameLen(n) == (n + Pad(n + 2)) % 256

BodyLen(layout, f) ==
    CASE layout = "map1" -> 24
      [] layout = "map2" -> 36
      [] layout = "peer1" -> 44
      [] layout = "peer2" -> 56
      [] layout = "sadscp" -> 14 + AppNameLen(f.name)
      [] layout = "announce" -> 0

NoMsg == [len |-> 0]    \* build_pcp_msg has freed the buffer
Empty == [len |-> 0, ver |-> 0, r |-> FALSE, op |-> 0, result |-> "success",
          layout |-> "none", body |-> [protocol |-> Zero], opts |-> <<>>]

BodyOf(f, layout) ==
    [protocol |-> f.protocol, src_port |-> f.src_port, ext |-> f.ext,
     dst      |-> IF layout \in {"peer1", "peer2"} THEN f.dst ELSE Zero,
     nonce    |-> IF layout \in {"map2", "peer2", "sadscp"} THEN f.nonce ELSE Zero,
     name     |-> IF layout = "sadscp" THEN AppNameLen(f.name) ELSE 0]

build_pcp(f, v, layout) ==
    LET at   == HeaderLen + BodyLen(layout, f)
        opts == IF layout = "announce" THEN <<>> ELSE build_pcp_options(f, at)
    IN  [len |-> at + OptsLen(opts), ver |-> v, r |-> FALSE, op |-> OpCode[f.op],
         result |-> "success", layout |-> layout, body |-> BodyOf(f, layout),
         opts |-> opts]

\* A protocol or an opcode NAT-PMP lacks makes build_natpmp_msg return a
\* positive code, which is no error to build_pcp_msg: the message stays empty.
build_natpmp_msg(f) ==
    CASE f.op = "announce" -> [Empty EXCEPT !.len = 2, !.layout = "natpmp_announce"]
      [] f.op = "map" /\ f.protocol \in {TCP, UDP} ->
            [Empty EXCEPT !.len = 12, !.layout = "natpmp_map",
                          !.op = IF f.protocol = TCP THEN NATPMP_OPCODE_MAP_TCP
                                 ELSE NATPMP_OPCODE_MAP_UDP,
                          !.body = BodyOf(f, "natpmp_map")]
      [] OTHER -> Empty

build_pcp_msg(f, v) ==
    CASE v = 0 -> build_natpmp_msg(f)
      [] v # 0 /\ f.op = "announce" -> build_pcp(f, v, "announce")
      [] v # 0 /\ f.op = "map"  -> build_pcp(f, v, IF v = 1 THEN "map1" ELSE "map2")
      [] v # 0 /\ f.op = "peer" -> build_pcp(f, v, IF v = 1 THEN "peer1" ELSE "peer2")
      [] v # 0 /\ f.op = "sadscp" ->
            IF v = 1 THEN NoMsg ELSE build_pcp(f, v, "sadscp")

-----------------------------------------------------------------------------
(* validate_pcp_msg and parse_response.                                     *)

validate_pcp_msg(m) ==
    /\ m.len % 4 = 0 /\ m.len >= 4 /\ m.len <= PCP_MAX_LEN
    /\ m.ver # 0 => m.r
    /\ m.ver <= MaxVersion

\* What a response that cannot be parsed yields, and one without a body.
Unparsed == [ok |-> FALSE]
NoKey(m) == [op |-> m.op, protocol |-> Zero, src_port |-> Zero, dst |-> Zero,
             nonce |-> Zero]
Header(m) == [ok |-> TRUE, version |-> m.ver, result |-> m.result, key |-> NoKey(m)]

Field(m, layout, name) == IF m.layout = layout THEN m.body[name] ELSE Garbage

\* Mutant: the nonce of the answer is not read.
parse_body_no_nonce(m, layout, size) ==
    IF m.len - HeaderLen < size THEN Unparsed
    ELSE [Header(m) EXCEPT !.key = [NoKey(m) EXCEPT
            !.src_port = Field(m, layout, "src_port"),
            !.protocol = Field(m, layout, "protocol"),
            !.dst = IF layout \in {"peer1", "peer2"} THEN Field(m, layout, "dst") ELSE Zero]]

\* parse_v1_map, parse_v2_map, parse_v1_peer and parse_v2_peer; options are
\* not parsed.
parse_body(m, layout, size) ==
    IF m.len - HeaderLen < size THEN Unparsed
    ELSE [Header(m) EXCEPT !.key = [NoKey(m) EXCEPT
            !.nonce = IF layout \in {"map2", "peer2"} THEN Field(m, layout, "nonce") ELSE Zero,
            !.src_port = Field(m, layout, "src_port"),
            !.protocol = Field(m, layout, "protocol"),
            !.dst = IF layout \in {"peer1", "peer2"} THEN Field(m, layout, "dst") ELSE Zero]]

parse_sadscp(m) ==
    IF m.len - HeaderLen < 16 THEN Unparsed
    ELSE [Header(m) EXCEPT !.key = [NoKey(m) EXCEPT !.nonce = Field(m, "sadscp", "nonce")]]

\* NAT-PMP answers are told apart by opcode and exact size.
parse_v0_resp(m) ==
    CASE m.op = 0 /\ m.len = 12 -> Header(m)
      [] m.op \in {NATPMP_OPCODE_MAP_UDP, NATPMP_OPCODE_MAP_TCP} /\ m.len = 16 ->
            [Header(m) EXCEPT !.key = [NoKey(m) EXCEPT
                !.op = OpCode["map"],
                !.src_port = Field(m, "natpmp_map", "src_port"),
                !.protocol = IF m.op = NATPMP_OPCODE_MAP_TCP THEN TCP ELSE UDP]]
      [] OTHER -> IF m.len = 8 THEN Header(m) ELSE Unparsed

parse_v1_resp(m) ==
    CASE m.len < HeaderLen -> Unparsed
      [] m.len >= HeaderLen /\ m.op = OpCode["announce"] -> Header(m)
      [] m.len >= HeaderLen /\ m.op = OpCode["map"] -> parse_body(m, "map1", 24)
      [] m.len >= HeaderLen /\ m.op = OpCode["peer"] -> parse_body(m, "peer1", 44)
      [] OTHER -> Unparsed

parse_v2_resp(m) ==
    CASE m.len < HeaderLen -> Unparsed
      [] m.len >= HeaderLen /\ m.op = OpCode["announce"] -> Header(m)
      [] m.len >= HeaderLen /\ m.op = OpCode["map"] -> parse_body(m, "map2", 36)
      [] m.len >= HeaderLen /\ m.op = OpCode["peer"] -> parse_body(m, "peer2", 56)
      [] m.len >= HeaderLen /\ m.op = OpCode["sadscp"] -> parse_sadscp(m)
      [] OTHER -> Unparsed

parse_response(m) ==
    CASE m.ver = 0 -> parse_v0_resp(m)
      [] m.ver = 1 -> parse_v1_resp(m)
      [] m.ver = 2 -> parse_v2_resp(m)

\* pcp_pulse: a message that is not valid or cannot be parsed is dropped; the
\* nonce of an answer of version 0 or 1 is the nonce of the server.
Received(m, server_nonce) ==
    IF ~validate_pcp_msg(m) THEN Unparsed
    ELSE LET p == parse_response(m)
         IN  IF p.ok /\ p.version < 2 THEN [p EXCEPT !.key.nonce = server_nonce] ELSE p
=============================================================================
