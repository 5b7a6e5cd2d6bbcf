# A TLA+ verification of libpcpnatpmp

libpcpnatpmp is the client side of PCP (RFC 6887) and NAT-PMP (RFC 6886): an
application asks it for port mappings, and it negotiates them with the PCP
servers it finds, retransmits, renews and gives up. This directory models the
library, the test server and the command line client of the repository, checks
them with TLC on small instances and proves part of it with TLAPS for instances
of every size.

## The system

The library has no thread of its own. It moves inside API calls and inside
`pcp_pulse`, which the application calls from its select loop. Two tables drive
it:

* **flows** (`pcp_flow_t`, one per request and server): `flow_events_sm` and
  `flow_transitions` in `lib/src/pcp_event_handler.c`. `handle_flow_event` looks
  an event up, runs the handler of the transition, and goes on with the event
  the handler raises;
* **servers** (`pcp_server_t`): `server_sm` in the same file.
  `run_server_state_machine` calls the handler of the server's state, which
  returns the next one; `hserver_iter` repeats that while the server's timer is
  due.

The two are tied together: a server's handler sends events to its flows, picks
a flow to ping with, and computes its own timer from the timers of the flows. A
setter of the API puts a flow back to sending and makes its server's timer due.
`{0, 0}` in a `struct timeval` means "no timer" throughout.

Around the two machines are the flow database (a hash table of chains, found by
the key of an answer), the table of servers with the discovery that fills it,
the building and parsing of messages, the socket, and what the application sees:
`pcp_wait`, the callback and `pcp_flow_get_info`.

### Inventory

| Part | Source | Module | State |
|---|---|---|---|
| Flow state machine | `pcp_event_handler.c` | PcpFlow, FlowChain, PcpWait | modelled |
| Server state machine | `pcp_event_handler.c` | PcpClient | modelled |
| Pulse, timer search | `pcp_event_handler.c` | PcpClient, NearestTimer, Renewal | modelled |
| Client API | `pcp_api.c` | PcpClient, PcpWait, FlowDb, Addressing, PcpSocket | modelled |
| Client database | `pcp_client_db.c` | FlowDb, FlowSet, ServerTable | modelled |
| Server discovery | `pcp_server_discovery.c` | ServerTable, PcpClient | modelled |
| Messages | `pcp_msg.c` | PcpMsg, Wire, Exchange | modelled |
| Time and epochs | `pcp_utils.h` | PcpFlow, PcpClient | partly |
| Sockets | `net/pcp_socket.c` | PcpSocket, Addressing | partly |
| Gateway lookup | `net/gateway.c` | Gateways | modelled |
| Source address lookup | `net/findsaddr-udp.c` | ServerTable, Addressing | modelled |
| Test server | `test-server/` | TestReply, TestServer, Wire, Exchange | partly |
| Command line client | `cli-client/` | CliClient, PcpWait | partly |
| Address text, logger, Windows support, example, scapy | | - | not modelled |

`PROJECT.json` says for each part what is left out and why, and lists the
hazards of the code at the line where they bite.

## The modules

**PcpFlow** is one flow, as functions of the flow and of the context a handler
runs in (`Context`: is the server there, is this flow its `restart_flow_msg`, its
version, which `sendto` calls fail, the value of `rand()`, the answer).
`NextState` is `flow_events_sm`, `Transition` is `flow_transitions`, the
`fhndl_*` operators are the handlers under their own names, `Step` is one round
of the loop of `handle_flow_event`. Both tables are searched from the top, and
the order of the CASE arms keeps the first match.

**FlowChain** is that loop as a state machine of its own, one round per step and
unbounded, from every flow of a set `Flows`. It justifies that PcpClient runs
the loop as three rounds in one step (`RunChain`, `MaxRounds`).

**NearestTimer** is the search for the nearest timer, one flow per step, as
`pcp_db_foreach_flow` and `check_flow_timeout` do it. It justifies the closed
form `NearestTimeout` of PcpClient.

**PcpClient** composes flows and servers. Its state is `flow` (slots, an absent
flow being a free one), `server` (the array of `pcp_server_t`) and `pulse` (how
far the running `pcp_pulse` is). There is one action for each handler call of a
pulse, each API call and the clock:

| Action | Code |
|---|---|
| `pcp_pulse_recv` | `read_msg` finds an answer, `hserver_iter` with `pcpe_io_event` |
| `pcp_pulse_no_msg` | nothing in the socket |
| `hserver_iter` | one round of the `while (1)` of `hserver_iter` |
| `hserver_next` | its end, and the next server |
| `pcp_init`, `pcp_add_server` | with `psd_add_gws`, `psd_add_pcp_server` |
| `pcp_new_flow`, `pcp_flow_set_lifetime`, `pcp_flow_set_opt`, `pcp_close_flow`, `pcp_delete_flow`, `pcp_terminate` | the calls of these names, over the chain of a request |
| `Tick` | the clock, also within a pulse if `SlowPulse` |

The network and the servers are the environment: `Answers` is the set of answers
that may be in the socket at any poll. An answer may therefore be late, repeated,
out of order or never come.

Abstractions. A timer is the time left, not an instant; a timer that has fired
stays at 0, since the code never asks how long ago. `recv_lifetime` is the time
left of the granted lifetime and goes on to -1. An address is a slot number and
a nonce is the slot of a flow, so an answer's `key` names a flow or none. Epochs
are opaque: `compare_epochs` tells only "the recorded one" from "another one".
The counters `retry_count` and `ping_count` stop at the limits they are compared
with. `next_version` keeps its 8 bits. Logging and callbacks are left out.

**Renewal** is PcpClient in the environment in which mappings stay alive, as five
ASSUMEs on its constants (see `Renewal_proofs` below). It has no definition of its
own.

**FlowDb** is the hash table of flows: `flows` (the chains), the stored
`key_bucket`, `kd` and the traversal `pcp_db_foreach_flow`, one callback per
step. The callback of `pcp_terminate` deletes the flow it is given
(`delete_flow_iter`); during any other callback the application may be notified
(`pcp_event_handler.c:640`) and call the library: it adds flows, deletes any of them
(`pcp_delete_flow`; a chain of instances is a deletion of each) and sets nonces.
Deleting the flow of the notification, which `handle_flow_event` reads again, or the
one that `pcp_db_foreach_flow` has saved as the next makes the rest of the traversal
undefined (`ForeachUndefined`). `pcp_flow_set_nonce` changes a key in place; `rekeyed`
records the flows it was used on. **FlowSet** is what the table promises: a set of
flows, a look-up that gives the oldest flow of a server with a key, and a traversal
that shows each flow that was there from its beginning to its end once. It
promises nothing of a traversal during which a notification deleted the flow it was
about, or one that was yet to be shown. `ImplementsFlowSet` is the refinement.

**PcpMsg** is `build_pcp_msg`, `validate_pcp_msg` and `parse_response` as
operators: a message is its version, its length, its body and its options;
fields that are neither a length nor part of a key are left out, and a field
that is read where another was written is `Garbage`. **TestReply** is what
`pcp-server.c` answers to such a message, and what a NAT-PMP server answers
(external). **Wire** takes one flow of any kind and options through request,
server and answer. **Exchange** puts PcpClient on top: the messages of PcpClient
travel as PcpMsg messages in a bag `net` to a server of a kind `peer`, which may
lose them (`lossy`), and the answer is what the client parses. Two constants restrict
it: with `Patient` the application makes no flow while a server is being pinged, and
without `Late` the clock stands still while a message is in flight, so that an answer
that is not lost comes before the retransmission timer runs out. **TestServer** is how
long the test server runs, and what it does at its limits.

**PcpWait** is a flow with `N` instances as the application sees it: the callback
of `handle_flow_event`, `pcp_eval_flow_state`, `pcp_wait` step by step (`Check`,
`PulseEvent`, `Eval`, `Select`) and the exit code `pcpnatpmpc.c` makes of it. `told` is what
the application knows: what the callback said last, or its own change.

**ServerTable** is the array of servers: growth, reuse of slots, look-up by
address and scope, and discovery with sources the kernel finds or refuses.
**Addressing** follows the addresses of one flow from `pcp_new_flow` through the
request and the answer to the key the flow is found by: any addresses of two
families, some of them link-local, on any interfaces. A link-local address has the
scope id of an interface, another has none; the answer of a server with a scope
arrives on its interface, that of another on any. **Gateways** is `getgateways` on
its three systems. On netlink the kernel decides with each `recv` how many of the
remaining routes the next datagram holds, and `Recv` keeps what fits into the rest
of the buffer. **PcpSocket** is the socket of a context.
**CliClient** is the command line client up to `pcp_wait`.

MCPcpClient, MCRenewal, MCFlowChain and MCFlowDb (FlowDb, or NearestTimer) give the
constants their values. MCParts does so for PcpWait, PcpSocket, TestServer, ServerTable,
CliClient, Gateways and Addressing, which it extends, and for Exchange and Wire, of
which it has instances: they share no variable, so it lets one of them move in each behaviour
(`part`) while the others rest, and one run checks them all.
Definitions marked `Mutant` are plausible bugs; no specification uses them. Each
is a replacement of the definition that follows it, under which the property
named in `PROJECT.json` fails.

## What is checked

| Run | Instance | Properties |
|---|---|---|
| `server_machine` | 1 server, 1 request, 2 epochs, all answers, all calls, a send may fail, slow pulses | `TransientIsServed`, `RestartMarkIsLive`, `PingFlowIsLive`, `WaitingServerHasTimer`, `UpdateIsScheduled`, `NoFlowMidway`, `BufferIsFreed` |
| `nat_pmp` | 1 server that refuses PCP, 1 ANNOUNCE flow | `TypeOK`, `FallbackPingsWithAnnounce` |
| `two_servers` | 2 servers, 1 request (2 flows) | `PingFlowWaits` |
| `renewal` | 1 server, 2 requests, lifetime 3, a prompt application (MCRenewal) | `TimerCoversFlows`, `MappingIsAlive` |
| `liveness` | 1 server, 1 request, answers but no refused version, fairness, slow pulses | `PulseReturns`, `ProbeEnds`, `DisabledIsRetried`, `RequestSettles` |
| `flow_loop` | every flow, event and context of a small grid | `ChainEnds`, `AtMostTwoSends`, `LoopLands`, `SentHasTimer`, `FailedIsClear` |
| `flow_db` | 2 servers, 2 nonces, 3 additions, callbacks that add, delete and set nonces; or the search, with 4 flows and timers 0 to 3 | `ChainsMatchBuckets`, `LookupIsOldest`, `ImplementsFlowSet`; `SearchIsClosedForm`, `NearestIfNoneLate` |
| `parts` | one of the following | |
| - Exchange | a MAP and a PEER request, servers of version 1, 2 and NAT-PMP, with and without loss, `Patient`, not `Late` | `VersionIsServed`, `RequestIsMapped` |
| - Wire | every opcode, no option, each, each pair and all, metadata up to and past the buffer, client and server of each version | `RequestIsAccepted`, `AnswerIsUnderstood` |
| - PcpWait | 2 servers, timeouts 0 to 2 | `ResultIsTrue`, `ExitCodeIsTrue`, `CallsReturn` |
| - ServerTable | an array that grows from 1 to 4, 2 interfaces, 2 gateways, memory that runs out | `ServersAreFound`, `FlowKeepsServer` |
| - Gateways | up to 4 routes in any datagrams, a buffer for 2 routes and a half | `EndsWhole` |
| - Addressing | two addresses of each kind, 2 interfaces, each set of control messages a build may have | `AnswerFindsItsFlow` |
| - PcpSocket | 7 ports, any of them taken, also all; messages of 3 bytes in any parts | `MessageIsWhole`, `CallsReturn` |
| - TestServer | limits 0 to 3 of requests and of time | `LimitsAreKept`, `CallsReturn` |
| - CliClient | every command line of up to 3 options | `CommandLineIsKept` |

What they show, in the words of the code:

* A server is never stranded in a state that only leads on to another one
  (`TransientIsServed`): every handler that enters one makes the timer due, so
  that `hserver_iter` goes on.
* The raw pointers `ping_flow_msg` and `restart_flow_msg` never dangle where a
  handler may follow them, whatever the application deletes and re-registers.
* A flow that a call has put back to sending has a timer that is due, and so has
  its server if it is waiting for events: the next sweep sends it
  (`UpdateIsScheduled`). This says nothing of a flow that has failed and stays so.
* If the application pulses as soon as a timer is due and no server answers
  after it was disabled, a flow that is reported as succeeded has a mapping
  whose lifetime is not over.
* A pulse returns, a ping ends, a disabled server is retried, and a request on a
  server that could be initialised gets a result. In that run no server refuses a
  version (`SettlingAnswers`): the model's answers come from nowhere, and refusals
  without end would keep a request from its result. Negotiation against a server
  that has a version is in Exchange.
* Whatever is added, deleted or given another nonce during a callback, the chains
  stay sound, and a traversal of the flows follows no freed flow and shows each
  flow once, unless a notification deletes the flow it is about or one not yet shown.
  An answer finds the oldest flow with its key.
* If the application makes no new flow while a server is being pinged, and
  answers that are not lost come before the retransmission timer runs out,
  negotiation stops at the version of the server, and on a network that loses
  nothing every request becomes a mapping. Without the second condition the first
  of these fails (`late_refusal`).
* Every request has a legal length, whatever options and metadata it is given.
  For requests below the maximal length, every answer of a server that speaks the
  client's version is parsed and carries the key of the flow it answers, through
  the addresses of every build. So is
  every refusal of a version, with one exception: a server of version 1 refuses a
  SADSCP request with an answer that `parse_v1_resp` does not parse.
* `pcp_wait` comes back, and what it returns, and the exit code made of it, is so.
  The search for a port ends if some port is free.
* A server that was added or discovered is found by its address, and it alone; an
  index of the table of servers stays the index of its server while a flow holds it.
* A list of gateways is complete or there is none, and what was opened is
  released, except on the two error paths that `Released` names.

### Disagreements with what the code says of itself

Four runs are expected to find a violation.

* `nearest_timeout`: `pcpnatpmp.h` says that `pcp_pulse` yields the nearest
  time-out. With two gateways, one of which has no source address, the flow of
  the latter keeps an expired timer. `check_flow_timeout` turns it into `{0, 0}`,
  which also means "nothing found yet", and so forgets the renewal timer of the
  mapping the first gateway granted. That server is left without a timer.
  `NearestIfNoneLate` shows that an expired timer is the only way for this to
  happen, and `renewal` that it does not happen with one server.
* `disabled_server`: disabling a server logs "Disabling sending of PCP messages
  to this server". A flow that waits for its renewal is nevertheless sent to it:
  `fev_failed` leads from `pfs_wait_for_lifetime_renew` to `pfs_send`.
* `ping_comment`: the comment on `pss_ping` in `server_sm` says that it leads to
  `wait_ping_resp` or `set_not_working`. With nothing to send, or if no send
  succeeds, the server stays in `pss_ping` with no timer.
* `late_refusal`: `tests/test_version_negotiation.c:91` expects version 1 after
  negotiation with a server of version 1. If the answer to the first ping is late,
  the ping is sent again and version 2 is refused twice. The first refusal takes
  the client to version 1. `handle_version_negotiation` (`pcp_event_handler.c:892`)
  compares the second with the version the client has by now, and takes it to
  version 0. It is the Exchange of `parts` with `Late`.

### Other deviations

These were met while modelling and have no run of their own. Where a constant
of the model shows them it is named.

| Where | What a document says | What the code does |
|---|---|---|
| `pcp_event_handler.c:892` | `tests/test_version_negotiation.c:91` expects version 1 with a server of version 1 | besides a late answer (`late_refusal`), a flow made while the first one pings makes the ping be sent twice, and the second refusal takes the client to version 0 (`Patient = FALSE` violates `VersionIsServed`) |
| `pcp_event_handler.c:644`, `pcp_client_db.c:221` | - | a notification that deletes the flow it is about, or the saved next one, leaves the caller with a freed flow (`ForeachUndefined`); no document says what a callback may delete |
| `pcp_msg.c:656` | - | a refusal of a SADSCP request in version 1 is not parsed, so that the version is not negotiated with such a request (`RefusalIsUnderstood`) |
| `pcp_api.c:511` | `pcpnatpmp.h:159`: the nonce setter renews "an existing mapping using a known nonce value" | the flow stays in the bucket of its old key, where the answer with the new nonce does not look; hence the condition on `rekeyed` in `LookupIsOldest` |
| `pcp_server_discovery.c:136` | `tests/test_server_discovery.c:66` expects the index of a server that is added again | the scope of a global address is overwritten by that of a link-local source, and the server is not found (`LinkSource = TRUE` violates `ServersAreFound`) |
| `pcp_server_discovery.c:234` | - | a known server that is added again while no source is found loses its slot, although flows hold its index (`Steady = FALSE` violates `FlowKeepsServer`) |
| `pcp_api.c:254` | `pcpnatpmp.h:327`: waits for "one of exit states or time-out" | with two servers, an instance that fails makes `pcp_wait` return `pcp_state_processing` at once |
| `pcp_event_handler.c:638` | `pcpnatpmp.h:274`: "called when flow state has changed" | an event of the second instance is told for that instance only; `LastIsTold` is about the last instance only |
| `pcp_api.c:81` | `pcpnatpmp.h:129`: `-1` for an error | `pcp_add_server` returns other negative values |
| `pcp_api.c:447` | `pcp_api.c:455`: "Socket family mismatch." | an IPv4 source with an IPv6 destination is not compared |
| `pcp_api.c:684` | `pcpnatpmp.h:134`: "frees all library buffers" | the context is not freed |
| `pcp_msg.c:315` | `pcp_msg.c:312`: "app name fill size to multiple of 4" | the padded length of a name of 255 bytes wraps |
| `pcp-server.c:480` | `pcp-server.c:398`: the result says whether the request is valid | the verdict of the last option replaces those before it |
| `pcp-server.c:722` | `pcp-server.c:414`: a request that exceeds the maximal length is discarded | one of exactly that length is cut and refused; hence the bound on the length in `RequestIsAccepted` |
| `pcpnatpmpc.c:688` | `:171`, `-v`: "Maximal PCP version to be used." | it counts only for the servers named after it |
| `pcpnatpmpc.c:695` | `:696`: "check if the version entered is supported or not" | the check comes after a cast to 8 bits: 258 passes as 2 |
| `pcpnatpmpc.c:770` | `:221`: "It's possible to add several metadata options" | the last one alone is sent |
| `pcp_api.c:477` | `pcpnatpmpc.c:184`, `-p`: "will cause sending a PEER operation" | without `-i` and `-e` the address family is unknown and there is no flow |

### Bounds

* One server is enough for the properties of one server's machine: servers
  interact only through the sweep of `handle_wait_io_timeout` over all flows and
  through the scan of `hserver_iter`. Two servers show that interaction.
* One request gives each server one flow, so a ping, a restart and a renewal can
  each meet it; two requests in `renewal` make the search for the nearest timer
  choose, and make one flow be answered while the other waits.
* `MRC = 2` and `MaxPing = 2` or `3` reach both "retry" and "give up". In
  `liveness` `MaxPing` exceeds `MRC`, so that a ping also ends by its flow failing.
* Lifetimes of 2 and 3 have renewals after 1 unit; with 3 a second renewal
  rounds to the shortest timer.
* Two epochs are one restart, and going back to the first is another.
* `Ann` bounds the falls back to NAT-PMP (`WithinAnn`); each takes one flow that
  is deleted only with the context.
* `Rand = {1024}` makes `PCP_RT` exact in PcpClient; `flow_loop` takes the
  extremes, and the proof every value.
* Three additions in `flow_db` put three flows into one chain, delete the first,
  the middle or the last, and let a callback change the chain before, at and
  behind the cursor. Flows are interchangeable, hence the symmetry.
* `MaxNet = 3` holds the messages of both requests and one more. In `late_refusal`
  a ping and its repetition are in flight together; without `Late` a message is
  never overtaken by its repetition.
* Two gateways in a discovery (`AfterGateways`): one may fail, or be a repetition of
  the other, also on another interface. `AddedAreFound` has this bound too: a loop over any
  number of them would be an induction over data.
* Four slots are two growths of the array; two interfaces tell link-local
  addresses apart.
* A buffer for two routes and a half cuts a datagram in the middle of a route, at
  its end and not at all.
* The 7 ports stand for 2^16, the first one tried has one above it: the search
  wraps. With all of them taken the search goes round for ever, which `CallsReturn`
  excludes.
* Three options are two of a kind and one they exclude.

### Fairness

`FairSpec` assumes that steps of `Pulse` happen again and again, and that the
clock moves (`SF_vars(Tick)`). The first is what the select loop in `pcpnatpmp.h`
does: it calls `pcp_pulse` for ever, and a pulse, once called, runs. It is
written `[]<><<Pulse>>_vars`. A step of `Pulse` that changes something is
possible in every state - between calls a poll that finds nothing starts a
pulse, and within one either the server is due and its handler runs, or the scan
goes on - so this is weak fairness of `Pulse`; the argument is by hand, not
checked. No fairness is assumed of answers, of sends or of the application's
other calls. Liveness under fairness is beyond TLAPS's reach and is only
model-checked.

In Exchange (`XFairness`) the same holds of the client and the clock, and in
addition the network is empty again and again: a message does not stay in it for
ever. `RequestIsMapped` is about behaviours without loss. In PcpWait the steps of
`pcp_wait` and the clock are fair, since they are one running function, and events
are not. In TestServer the steps of `execPCPServer` and the clock are fair, and
failing calls and requests are not. In PcpSocket the loop around `bind` is fair, and which ports are taken does
not change while it runs.

Deadlock is checked in all runs but `flow_loop`, whose loop really ends, and
`parts` and `late_refusal`, where programs end.

## What is proved

All for every value of the constants that the ASSUMEs in the modules admit.

**PcpFlow_proofs**: lemmas on the handlers: which type a chain keeps, that
`PCP_RT` stays a positive time for every `rand()`, what each transition leaves.

**FlowChain_proofs**: `LoopEnds`, `FewSends`, `FlowLands`, `SentIsTimed`,
`FailureClears`. That the loop ends after three rounds is not inductive by
itself. The invariant (`IInv` with `Progress`) orders the stages of a chain: it
has not begun; after the first round only it may be renewing (an event pending in
`pfs_send_renew`); after the first or the second it may be sending (one pending in
`pfs_send`, with the timer set if the message was sent); otherwise it is over.
It assumes `IRT >= 2` (the code has 3000 milliseconds): with a time unit as large
as `IRT` an eighth less would round to no time at all.

**PcpClient_proofs**: `TypeCorrect` (`TypeOK`) and `NoServerLeftBehind`
(`TransientIsServed`), for any number of servers, requests and ANNOUNCE flows,
any set of answers, any failing sends. The inductive invariant adds
`NegotiatesVersion` to the two: a server in `pss_version_negotiation` has been
told a known version, which is what keeps the decremented `next_version` from
becoming the server's version 255.

On that rest six more, for the same constants: `PingPointerHolds`
(`PingFlowIsLive`), `RestartPointerHolds` (`RestartMarkIsLive`),
`UpdatesAreScheduled` (`UpdateIsScheduled`), `PingsStayUnderWay` (`PingFlowWaits`),
`WaitsAreTimed` (`WaitingServerHasTimer`) and `FlowsComeToRest` (`NoFlowMidway`).
None is inductive alone, but their conjunction `PInv` is, together with the first
invariant: a ping's answer moves the right flow because its pointer is live; the
flow is still under way because `restart_flow_msg` is NULL, so that no send ignores
it; and a server in `pss_wait_io` has no flow to send but those a call made due,
because every way back to that state is a sweep that ends with none in `pfs_send`.
The argument goes handler by handler: each leaves a flow alone or where a chain of
events ends (`Moves`, from the lemmas of PcpFlow_proofs), does to a flow of another
server's ping only what the ping itself would (`Apart`), and gives its own server a
record whose pointers and timer fit (`Held`).

`BuffersAreFreed` (`BufferIsFreed`) says where a message buffer outlives its event.
Every chain of events ends with it freed but one: the due renewal of the flow that is
the server's `restart_flow_msg` is not sent, and the buffer stays. The server is
then in `pss_wait_io_calc_nearest_timeout`, whose sweep in the same pulse sends it,
before the version of the server can change. The property is inductive on top of
`PInv`; it rests on what a chain of PcpFlow leaves in the buffer (`RunChainBuf`).

`FallbacksAnnounce` (`FallbackPingsWithAnnounce`) holds if no server is added with
version 0 by the application, which asks such a server without an ANNOUNCE. The
invariant (`FallbackInv`) adds that a server in `pss_ping` is not at version 0,
and that a server that is about to fall back finds a slot for its ANNOUNCE flow:
the latter is the bound `WithinAnn` of the model, the code allocates one.

**Renewal_proofs**: `TimersCoverFlows` (`TimerCoversFlows`) and `MappingsStayAlive`
(`MappingIsAlive`), for any requests, lifetimes, retransmission intervals, failing
sends and bounds, in the environment of Renewal. The two are one argument. A flow
gets a mapping only by an answer, and its renewal timer is then shorter than the
lifetime (`Alive`); the timer stays ahead of the lifetime as long as the sweep runs
when it is due, hence as long as the server's timer is no later. The sweep leaves
every timer ahead, or the flow without one, so that no late timer makes the search
forget an earlier one (`NearestIsLeast`, the closed form of NearestTimer); for this a
flow that failed has no timer (`Spent`) and none waits for the server to come up.
A server that is given up fails its flows in the step after, before the clock can
move. `Suits` says this of a flow and its server, `RInv` of all; `RInv` is inductive
together with the two invariants of PcpClient_proofs. The proof has a lemma for what
each event leaves of a flow (`EventOutcome`, `AnswerOutcome`, `CheckOutcome`) and one
for each handler of the server (`SweepSuited`, `ReceiveSuited`, `PingSuited` ...).

Every assumption of Renewal is needed. On the instance of `renewal` with one
assumption dropped, each part of it taken alone, TLC violates `TimerCoversFlows` and
it violates `MappingIsAlive`. In most of the counterexamples a timer that is due or past
when the search passes it makes it forget the timers of other flows:

| Without | What happens in the counterexamples |
|---|---|
| one server (`OneServerAssumption`) | `handle_wait_io_timeout` searches the flows of all servers; the due timer of a flow whose server is not up yet leaves the other server without one |
| `~SlowPulse` (`TimelyAssumption`) | a timer runs out between its sweep and the search |
| `Prompt` (`TimelyAssumption`) | the application comes back after the lifetime is over |
| `~LateAnswers` (`TimelyAssumption`) | a server that was given up answers and is taken for restarted; the flow, failed meanwhile, waits for a renewal with no lifetime |
| intervals that do not round to 0 (`SpreadAssumption`) | a retransmission is due at once |
| no setter, no `pcp_close_flow` (`PlainCallsAssumption`) | a flow that failed is due; no sweep clears its timer |
| no second `pcp_add_server` (`PlainCallsAssumption`) | the server starts over with its flows granted, and they are not swept until it has answered a ping |
| one epoch (`SteadyServerAssumption`) | the restart moves a flow that has no mapping to the wait for a renewal |
| no refused version (`SteadyServerAssumption`) | the server pings again while mappings run out |
| no empty lifetime (`SteadyServerAssumption`) | a mapping is over when it is granted |

The bounds of that instance are no part of it: `3000` milliseconds and 32-bit
lifetimes are values of the constants.

**FlowDb_proofs**: `ChainsStaySound`, `LookupFindsOldest` and
`DbImplementsFlowSet`, for any flows, keys, servers, buckets and hash function.
The inductive invariant says that the chains hold each stored flow once and in
the chain of its `key_bucket`, in the order they were added; that a flow whose
nonce was not set is in the bucket of its key; that the flow a traversal goes on with
is linked (`CursorIsLinked`, which holds as long as the traversal is not undefined); and
what it has seen and has still to see, also of chains that callbacks change. For
the refinement a deletion (`Deletions`) is one of a flow that was shown, of the flow
`delete_flow_iter` is given, or one after which FlowSet promises nothing. In the same module are
`SearchCorrect` and `NearestFound` of NearestTimer, the search that goes through the
database: the invariant is that `tout` is the closed form of the flows seen so far.

**ServerTable_proofs**: for any addresses, interfaces and first size of the array,
wherever an allocation fails. `AddedAreFound` (`ServersAreFound`) assumes
`~LinkSource`, that no source address is a link-local one of an interface the kernel
chose by itself; `FlowsKeepTheirServer` (`FlowKeepsServer`) assumes `Steady`, that a
known server that is added again has a source, and that a socket without IPv6
meets no IPv6 address. TLC violates each theorem without its hypotheses; the first
two are in the table of deviations. The invariant (`OrderInv`, `FlowsFit`) says that a
server in use has the scope its address needs, that no two have the same address and
scope, so that the first match of the look-up is the only one, and that an index a
flow holds is a slot in use with the address of its key. `Puts` is what all calls
that add a server have in common: one slot is written, which was unused or that of
the same server, and the others stay where they are, also in an array that grows.

**Net_proofs**, what lies between the library and the network.

* `AnswersFindTheirFlows` of Addressing (`AnswerFindsItsFlow`), for any addresses and
  interfaces (`AddressAssumption`: the families are disjoint, link-local addresses are
  IPv6, an interface has no index 0). The invariant (`KeyFits`) is that the key of a
  flow has the scope of the server, and one that the kernel gives with its address on
  some interface. If the key's address is link-local the scope is not 0, so the server
  has that scope too and answers on that interface, and the control message gives the
  same scope again (`SameScope`).
* `GatewaysAreWhole` of Gateways (`EndsWhole`), for any routes, sizes of buffer and
  route (`BufferAssumption`) and any datagrams. While it reads, what is in the buffer
  and what the kernel has still to give are the table (`Whole`), or the last datagram
  was cut and no further route fits, so that the loop cannot end well; while it parses,
  the list is that of the routes parsed (`Listed`), the rest of the table is to come
  (`Unparsed`). A list is compared with the table by counting gateways (`GatewaysIn`),
  which needs no induction over the table.
* `SocketsClosed` and `MessagesAreWhole` of PcpSocket, for any number of ports and any
  message length; the invariant is that what was handed over is the prefix of the
  message that `buf` leaves.

**Programs_proofs**, the two programs of the repository. `LimitsHold` of TestServer,
for any limits; the invariant counts the requests to go against those answered, and
says that after a late answer the server is at the point where it looks at the clock.

`WaitIsTrue`, `CallbackIsCurrent` and `ExitCodeHolds` of PcpWait, for any number of
servers and any timeout. The invariant
is that what `pcp_wait` has returned is the state of the chain, which does not
change while it returns, and that the callback's state is current for the last
instance; it rests on the lemma that `pcp_eval_flow_state` looks at no earlier
instance. The exit code looks at the first instance of a kind; that there is one
comes from the well-foundedness of `<` (`LeastElement`).

`CommandLineKept` of CliClient (`CommandLineIsKept`), for options in any number and
order. The property compares the flow with the whole command line, and main knows
only what the handlers left in `struct pcp_params`; the invariant (`CliInv`) says what
that is (`Recorded`): the flags are the names given, an address, the protocol and the
lifetime are those of the last option of the kind, `has_mappeer_data` and
`has_sadscp_data` tell whether an option of that operation was given. `ParseOpt` is what
each handler adds, `RecordedStep` that the record stays true.

These last modules assume that a flow has an instance (`WaitAssumption`), a message a byte and
the ports a first one (`SocketAssumption`), natural limits (`ServerBounds`), an array
of servers of at least one slot (`TableAssumption`; the code has
`PCP_INIT_SERVER_COUNT`), and that an option is one of `FOREACH_OPTION` with an
argument of its kind (`OptionsAssumption`). `SocketsClosed` and `CallbackIsCurrent`
state properties that no run repeats: `NoSocketLeaks` and `LastIsTold`.

Only model-checked:

* all liveness, which is beyond the prover;
* `VersionIsServed`, `RequestIsAccepted` and `AnswerIsUnderstood`, whose messages
  are folds over sequences of options: inductions over data.

## Not modelled

* *Arithmetic*: `compare_epochs` with its 32-bit deltas and the `timeval`
  functions; PcpClient only tells "the recorded epoch" from "another one", and
  timers are the time left.
* *Address text, logger, Windows replacements*: no state that anything reads
  back.
* *Example, scapy*: a fixed sequence of calls, and a second description of the
  wire format.
* *Parsing of option text* in the command line client and in `test-server/main.c`: an
  argument is good or bad. Of the command line client `-f` and `-T`, which only
  `pcp_wait` sees, `-n`, which gives the protocol by its number, and the value of the
  metadata are left out, and the two options of a flow priority are one flag.
* *Callbacks in PcpClient*: callbacks that change flows are in FlowDb and PcpWait;
  in PcpClient the application moves between pulses. A callback that calls
  `pcp_pulse`, and so starts a traversal within one, is in no module.
* *A failing `setsockopt` of `IP_PKTINFO`*, which is only logged; PcpSocket has the
  failures that close the socket.
* *Memory*: a pointer is an index or a flow. That the array of servers moves
  while a handler up the stack holds a pointer into it (a callback that adds a
  server) has no outcome a model could be compared with.
