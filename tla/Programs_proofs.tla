--------------------------- MODULE Programs_proofs ---------------------------
(***************************************************************************)
(* Proofs about the two programs. The command line client: what main makes *)
(* of the command line (CliClient), for any options in any number, and     *)
(* what pcp_wait and the exit code tell (PcpWait), for a flow with any     *)
(* number of instances and any timeout. The test server (TestServer), for  *)
(* any limits and any number of requests that wait.                        *)
(***************************************************************************)
EXTENDS PcpWait, CliClient, TestServer, SequenceTheorems, WellFoundedInduction, TLAPS

\* A set of natural numbers has a smallest element.
LEMMA LeastElement ==
    ASSUME NEW T, T \subseteq Nat, T # {}
    PROVE  \E m \in T : \A k \in T : m <= k
<1>1. PICK m \in T : \A k \in T : ~(<<k, m>> \in OpToRel(<, Nat))
  BY WFMin, NatLessThanWellFounded, Zenon
<1>2. \A k \in T : k \in Nat /\ m \in Nat
  OBVIOUS
<1>3. \A k \in T : ~(k < m)
  BY <1>1, <1>2, Zenon DEF OpToRel
<1> QED
  BY <1>2, <1>3

-----------------------------------------------------------------------------
(* pcp_wait.                                                               *)

TypeW == st \in [Instance -> FlowClass] /\ told \in [Instance -> FState]

\* The record of the call has its fields.
Shape == wait = [at |-> wait.at, partial |-> wait.partial, n |-> wait.n]

\* What pcp_wait has returned is the state of the chain, or nothing is known.
Verdict == Returned => /\ ret = "processing" \/ ret = pcp_eval_flow_state(st, 1)
                       /\ ret = "partial_result" => wait.partial

IInv == TypeW /\ Shape /\ LastIsTold /\ Verdict

\* pcp_eval_flow_state gives one of the states of pcp_fstate_e.
LEMMA EvalType ==
    ASSUME NEW s \in [Instance -> FlowClass], NEW i \in Instance
    PROVE  pcp_eval_flow_state(s, i) \in FState
  BY DEF pcp_eval_flow_state, FState, FlowClass

\* pcp_eval_flow_state looks at no instance before the one it is given.
LEMMA EvalLast ==
    ASSUME NEW s, NEW u, NEW i \in Instance,
           \A j \in From(i) : s[j] = u[j]
    PROVE  pcp_eval_flow_state(s, i) = pcp_eval_flow_state(u, i)
<1>1. \A c : Some(s, i, c) = Some(u, i, c)
  BY DEF Some
<1> QED
  BY <1>1 DEF pcp_eval_flow_state

LEMMA InitInv ==
    ASSUME WaitInit
    PROVE  IInv
<1>1. N \in Instance /\ N \in From(N)
  BY WaitAssumption DEF Instance, From
<1>2. TypeW
  BY DEF WaitInit, TypeW, FlowClass, FState
<1>3. pcp_eval_flow_state(st, N) = "processing"
  <2>1. Some(st, N, "processing")
    BY <1>1 DEF WaitInit, Some
  <2>2. ~Some(st, N, "succeeded")
    BY DEF WaitInit, Some, From
  <2> QED
    BY <2>1, <2>2 DEF pcp_eval_flow_state
<1>4. LastIsTold
  BY <1>1, <1>3 DEF WaitInit, LastIsTold
<1>5. Verdict
  BY DEF WaitInit, Verdict, Returned
<1> QED
  BY <1>2, <1>4, <1>5 DEF WaitInit, Shape, IInv

\* An event of a pulse keeps the application up to date about the last instance.
LEMMA EventTells ==
    ASSUME TypeW, LastIsTold,
           NEW i \in Instance, NEW to \in FlowClass, NEW moved \in BOOLEAN,
           handle_flow_event(i, to, moved)
    PROVE  TypeW' /\ LastIsTold'
<1> DEFINE s == [st EXCEPT ![i] = to]
           after == pcp_eval_flow_state(s, i)
<1>1. s \in [Instance -> FlowClass] /\ st' = s
  BY DEF TypeW, handle_flow_event
<1>2. after \in FState
  BY <1>1, EvalType
<1>3. told' = [told EXCEPT ![i] = IF moved \/ pcp_eval_flow_state(st, i) # after
                                  THEN after ELSE @]
  BY DEF handle_flow_event
<1>4. N \in Instance
  BY WaitAssumption DEF Instance
<1>5. \A j \in Instance : j # i => s[j] = st[j]
  BY DEF TypeW
<1> HIDE DEF s, after
<1>6. TypeW'
  BY <1>1, <1>2, <1>3 DEF TypeW
<1>7. CASE i = N
  <2>1. told'[N] = after
    BY <1>3, <1>4, <1>7 DEF TypeW, LastIsTold
  <2> QED
    BY <1>1, <1>6, <1>7, <2>1 DEF LastIsTold, after
<1>8. CASE i # N
  <2>1. \A j \in From(N) : j \in Instance /\ j # i
    BY <1>8, WaitAssumption DEF From, Instance
  <2>2. pcp_eval_flow_state(s, N) = pcp_eval_flow_state(st, N)
    BY <1>4, <1>5, <2>1, EvalLast
  <2>3. told'[N] = told[N]
    BY <1>3, <1>4, <1>8 DEF TypeW
  <2> QED
    BY <1>1, <1>6, <2>2, <2>3 DEF LastIsTold
<1> QED
  BY <1>6, <1>7, <1>8

LEMMA NextInv ==
    ASSUME IInv, [WaitNext]_waitvars
    PROVE  IInv'
<1> USE DEF IInv
<1>1. ASSUME NEW t \in 0..MaxTimeout, NEW p \in BOOLEAN, Call(t, p) PROVE IInv'
  BY <1>1 DEF Call, Shape, TypeW, LastIsTold, Verdict, Returned
<1>2. CASE Check
  <2>1. UNCHANGED <<st, told>>
    BY <1>2 DEF Check
  <2>2. CASE left = 0
    BY <1>2, <2>1, <2>2 DEF Check, Return, Shape, Returned, TypeW, LastIsTold, Verdict
  <2>3. CASE left # 0
    <3>1. wait' = [wait EXCEPT !.at = "pulse"]
      BY <1>2, <2>3 DEF Check
    <3>2. Shape' /\ ~Returned'
      BY <3>1 DEF Shape, Returned
    <3> QED
      BY <2>1, <3>2 DEF TypeW, LastIsTold, Verdict
  <2> QED
    BY <2>2, <2>3
<1>3. CASE PulseEvent
  <2>1. PICK i \in Instance, to \in FlowClass, moved \in BOOLEAN :
             handle_flow_event(i, to, moved)
    BY <1>3 DEF PulseEvent
  <2>2. TypeW' /\ LastIsTold'
    BY <2>1, EventTells
  <2>3. ~Returned' /\ Shape'
    BY <1>3 DEF PulseEvent, Returned, Shape
  <2> QED
    BY <2>2, <2>3 DEF Verdict
<1>4. CASE Eval
  <2> DEFINE state == pcp_eval_flow_state(st, 1)
  <2>1. UNCHANGED <<st, told>>
    BY <1>4 DEF Eval
  <2>2. CASE ExitCount(st, 1) > wait.n /\ (wait.partial \/ state # "partial_result")
    <3>1. ret' = state /\ wait' = [wait EXCEPT !.at = "returned"]
      BY <1>4, <2>2 DEF Eval, Return
    <3>2. Shape' /\ wait'.partial = wait.partial
      BY <3>1 DEF Shape
    <3> QED
      BY <2>1, <2>2, <3>1, <3>2 DEF TypeW, LastIsTold, Verdict
  <2>3. CASE ~(ExitCount(st, 1) > wait.n /\ (wait.partial \/ state # "partial_result"))
    <3>1. wait' = [wait EXCEPT !.at = "select"]
      BY <1>4, <2>3 DEF Eval
    <3>2. Shape' /\ ~Returned'
      BY <3>1 DEF Shape, Returned
    <3> QED
      BY <2>1, <3>2 DEF TypeW, LastIsTold, Verdict
  <2> QED
    BY <2>2, <2>3
<1>5. CASE Select
  BY <1>5 DEF Select, Shape, TypeW, LastIsTold, Verdict, Returned
<1>6. CASE Resume
  BY <1>6 DEF Resume, Shape, TypeW, LastIsTold, Verdict, Returned
<1>7. CASE pcp_flow_updated
  <2>1. st' \in [Instance -> FlowClass]
    BY <1>7 DEF pcp_flow_updated, FlowClass
  <2>2. told' = [i \in Instance |-> pcp_eval_flow_state(st', i)]
    BY <1>7 DEF pcp_flow_updated
  <2>3. TypeW'
    BY <2>1, <2>2, EvalType DEF TypeW
  <2>4. LastIsTold'
    BY <2>2, WaitAssumption DEF LastIsTold, Instance
  <2>5. ~Returned' /\ Shape'
    BY <1>7 DEF pcp_flow_updated, Returned, Shape
  <2> QED
    BY <2>3, <2>4, <2>5 DEF Verdict
<1>8. CASE Tick
  BY <1>8 DEF Tick, Shape, TypeW, LastIsTold, Verdict, Returned
<1>9. CASE UNCHANGED waitvars
  BY <1>9 DEF waitvars, Shape, TypeW, LastIsTold, Verdict, Returned
<1> QED
  BY <1>1, <1>2, <1>3, <1>4, <1>5, <1>6, <1>7, <1>8, <1>9 DEF WaitNext, Waiting

LEMMA InvHolds == WaitSpec => []IInv
<1>1. WaitInit => IInv
  BY InitInv
<1>2. IInv /\ [WaitNext]_waitvars => IInv'
  BY NextInv
<1> QED
  BY <1>1, <1>2, PTL DEF WaitSpec

\* However many servers a flow has, pcp_wait reports success only with a mapping
\* on one of them and an error only without, and without exit_on_partial_res
\* it gives a result only when each of them has given one.
THEOREM WaitIsTrue == WaitSpec => []ResultIsTrue
<1>1. IInv => ResultIsTrue
  <2> SUFFICES ASSUME IInv, Returned, ret # "processing"
               PROVE  /\ ret \in {"succeeded", "partial_result"} => Some(st, 1, "succeeded")
                      /\ ret \in {"failed", "short_lifetime_error"} =>
                            ~Some(st, 1, "succeeded")
                      /\ ~wait.partial => \A i \in Instance : st[i] \in Exit
    BY DEF ResultIsTrue
  <2>1. ret = pcp_eval_flow_state(st, 1) /\ (ret = "partial_result" => wait.partial)
    BY DEF IInv, Verdict
  <2>2. ASSUME ~wait.partial, NEW i \in Instance PROVE st[i] \in Exit
    <3>1. ~Some(st, 1, "processing")
      BY <2>1, <2>2 DEF pcp_eval_flow_state
    <3>2. i \in From(1)
      BY WaitAssumption DEF From, Instance
    <3> QED
      BY <3>1, <3>2 DEF Some, Exit, IInv, TypeW
  <2> QED
    BY <2>1, <2>2 DEF pcp_eval_flow_state
<1> QED
  BY <1>1, InvHolds, PTL

\* However many servers a flow has, the callback keeps the application up to
\* date about the last of them.
THEOREM CallbackIsCurrent == WaitSpec => []LastIsTold
<1>1. IInv => LastIsTold
  BY DEF IInv
<1> QED
  BY <1>1, InvHolds, PTL

\* check_flow_info finds the instance that decides: it has a result, and the code
\* is that of its result.
LEMMA InfoOfInstance ==
    ASSUME TypeW, check_flow_info # 2
    PROVE  \E i \in Instance : st[i] # "processing" /\ check_flow_info = Code[st[i]]
<1> DEFINE done == {i \in Instance : st[i] # "processing"}
           m    == CHOOSE i \in done : \A j \in done : i <= j
<1>1. check_flow_info = IF done = {} THEN 2 ELSE Code[st[m]]
  BY DEF check_flow_info, pcp_flow_get_info
<1>2. done # {} /\ done \subseteq Nat
  BY <1>1, WaitAssumption DEF Instance
<1> HIDE DEF done
<1>3. \E i \in done : \A j \in done : i <= j
  BY <1>2, LeastElement
<1>4. m \in done
  BY <1>3
<1> HIDE DEF m
<1> QED
  BY <1>1, <1>2, <1>4 DEF done

\* However many servers a flow has, the command line client ends with 0 only with
\* a mapping on one of them, and without its fast return it ends with an error
\* code only without one.
THEOREM ExitCodeHolds == WaitSpec => []ExitCodeIsTrue
<1>1. IInv => ExitCodeIsTrue
  <2> SUFFICES ASSUME IInv, Returned
               PROVE  /\ main_exit = 0 => Some(st, 1, "succeeded")
                      /\ main_exit \in {3, 4} /\ ~wait.partial => ~Some(st, 1, "succeeded")
    BY DEF ExitCodeIsTrue
  <2>1. /\ ret = "processing" \/ ret = pcp_eval_flow_state(st, 1)
        /\ ret = "partial_result" => wait.partial
        /\ TypeW
    BY DEF IInv, Verdict
  <2>2. /\ Code["succeeded"] = 0 /\ Code["processing"] = 2
        /\ Code["short_lifetime_error"] = 3 /\ Code["failed"] = 4
    BY DEF Code
  <2>3. CASE ret = "partial_result"
    <3>1. main_exit = check_flow_info /\ wait.partial
      BY <2>1, <2>3 DEF main_exit
    <3>2. ASSUME check_flow_info = 0
          PROVE  Some(st, 1, "succeeded")
      <4>1. PICK i \in Instance : st[i] # "processing" /\ Code[st[i]] = 0
        BY <2>1, <3>2, InfoOfInstance
      <4>2. st[i] = "succeeded"
        BY <2>1, <2>2, <4>1 DEF TypeW, FlowClass
      <4>3. i \in From(1)
        BY WaitAssumption DEF From, Instance
      <4> QED
        BY <4>2, <4>3 DEF Some
    <3> QED
      BY <3>1, <3>2
  <2>4. CASE ret # "partial_result"
    <3>1. main_exit = Code[ret]
      BY <2>4 DEF main_exit
    <3>2. 1 \in Instance
      BY WaitAssumption DEF Instance
    <3>3. ret \in FlowClass
      BY <2>1, <2>4, <3>2, EvalType DEF TypeW, FState, FlowClass
    <3>4. /\ main_exit = 0 => ret = "succeeded"
          /\ main_exit \in {3, 4} => ret \in {"failed", "short_lifetime_error"}
      BY <2>2, <3>1, <3>3 DEF FlowClass
    <3>5. /\ ret = "succeeded" => Some(st, 1, "succeeded")
          /\ ret \in {"failed", "short_lifetime_error"} => ~Some(st, 1, "succeeded")
      BY <2>1 DEF pcp_eval_flow_state
    <3> QED
      BY <3>4, <3>5
  <2> QED
    BY <2>3, <2>4
<1> QED
  BY <1>1, InvHolds, PTL

-----------------------------------------------------------------------------
(* The command line.                                                       *)

\* Where the options with these names are, the last of some indices, and the
\* last option with these names.
At(q, names) == {i \in DOMAIN q : q[i][1] \in names}
Top(I) == CHOOSE i \in I : \A j \in I : j <= i
Latest(q, names) == q[Top(At(q, names))]

\* A set of indices has a greatest element.
LEMMA TopIndex ==
    ASSUME NEW n \in Nat, NEW I, I \subseteq 1..n, I # {}
    PROVE  Top(I) \in I /\ \A j \in I : j <= Top(I)
<1> DEFINE T == {n - i : i \in I}
<1>1. T \subseteq Nat /\ T # {}
  <2>1. \A i \in I : n - i \in Nat
    OBVIOUS
  <2> QED
    BY <2>1, Zenon
<1>2. PICK m \in T : \A k \in T : m <= k
  BY <1>1, LeastElement
<1>3. PICK t \in I : m = n - t
  BY <1>2
<1>4. \A j \in I : j <= t
  <2> SUFFICES ASSUME NEW j \in I PROVE j <= t
    OBVIOUS
  <2>1. n - t <= n - j
    BY <1>2, <1>3
  <2> QED
    BY <2>1
<1> HIDE DEF T
<1> QED
  BY <1>4 DEF Top

\* A new option is the last one of its kind.
LEMMA AppendedNow ==
    ASSUME NEW q \in Seq(Options), NEW o \in Options, NEW names, o[1] \in names,
           NEW r, r = Append(q, o)
    PROVE  At(r, names) # {} /\ Latest(r, names) = o
<1>1. /\ DOMAIN r = 1..Len(q) + 1 /\ Len(q) \in Nat /\ r[Len(q) + 1] = o
  OBVIOUS
<1>2. Len(q) + 1 \in At(r, names) /\ At(r, names) \subseteq 1..Len(q) + 1
  BY <1>1 DEF At
<1>3. /\ Top(At(r, names)) \in At(r, names)
      /\ \A j \in At(r, names) : j <= Top(At(r, names))
  BY <1>1, <1>2, TopIndex
<1>4. Top(At(r, names)) = Len(q) + 1
  BY <1>1, <1>2, <1>3
<1> QED
  BY <1>1, <1>2, <1>4 DEF Latest

\* It changes no other kind.
LEMMA AppendedKept ==
    ASSUME NEW q \in Seq(Options), NEW o \in Options, NEW names, o[1] \notin names,
           NEW r, r = Append(q, o)
    PROVE  /\ At(r, names) = At(q, names)
           /\ At(q, names) # {} => Latest(r, names) = Latest(q, names)
<1>1. /\ DOMAIN r = 1..Len(q) + 1 /\ DOMAIN q = 1..Len(q)
      /\ Len(q) \in Nat /\ r[Len(q) + 1] = o /\ \A i \in 1..Len(q) : r[i] = q[i]
  OBVIOUS
<1>2. At(r, names) = At(q, names)
  BY <1>1 DEF At
<1>3. At(q, names) \subseteq 1..Len(q)
  BY <1>1 DEF At
<1>4. At(q, names) # {} => Top(At(q, names)) \in 1..Len(q)
  BY <1>1, <1>3, TopIndex
<1> QED
  BY <1>1, <1>2, <1>4 DEF Latest

\* What parse_params has recorded.
Arg == {"none"} \cup {o[2] : o \in Options}
Flags == SUBSET OptionNames
Addrs == [Addresses -> Arg]
Lifetime == {900} \cup Arg
Md == {<<>>} \cup {<<a>> : a \in Arg}
Versions == Seq(Nat)
Params == [addr : Addrs, flags : Flags, protocol : {6, 17}, lifetime : Lifetime,
           md : Md, version : Nat, dis : BOOLEAN, servers : Versions,
           mappeer : BOOLEAN, sadscp : BOOLEAN]

\* The fields of the parameters.
LEMMA ParamFields ==
    ASSUME NEW q \in Params
    PROVE  /\ q.addr \in Addrs /\ q.flags \in Flags
           /\ q.protocol \in {6, 17} /\ q.lifetime \in Lifetime
           /\ q.mappeer \in BOOLEAN /\ q.sadscp \in BOOLEAN
           /\ q.version \in Nat /\ q.servers \in Versions
BY DEF Params

\* One handler of parse_params: what each of them adds.
LEMMA ParseOpt ==
    ASSUME NEW q \in Params, NEW o \in Options, ~Exits(o),
           NEW r, r = parse_opt(q, o)
    PROVE  /\ r \in Params
           /\ r.flags = q.flags \cup ({o[1]} \cap (MapPeerFlags \cup PlainFlags))
           /\ \A k \in Addresses : r.addr[k] = IF o[1] = k THEN o[2] ELSE q.addr[k]
           /\ r.protocol = IF o[1] \in DOMAIN Protocol THEN Protocol[o[1]] ELSE q.protocol
           /\ r.lifetime = IF o[1] = "lifetime" THEN o[2] ELSE q.lifetime
           /\ r.mappeer = (q.mappeer \/ o[1] \in MapPeerNames)
           /\ r.sadscp = (q.sadscp \/ o[1] \in Tolerances)
<1>0. DOMAIN Protocol = {"tcp", "udp"} /\ Protocol["tcp"] = 6 /\ Protocol["udp"] = 17
  BY DEF Protocol
<1>1. /\ o[2] \in Arg /\ o[1] \in OptionNames /\ o[1] \notin {"help", "unknown"}
      /\ q.flags \cup {o[1]} \in Flags /\ o[2] \in Lifetime /\ <<o[2]>> \in Md
      /\ <<q.version>> \o q.servers \in Versions
      /\ o[1] \in Addresses => [q.addr EXCEPT ![o[1]] = o[2]] \in Addrs
  <2>1. o[2] \in Arg /\ o[1] \in OptionNames
    BY OptionsAssumption DEF Arg
  <2>2. o[1] \notin {"help", "unknown"}
    BY DEF Exits
  <2>3. q.flags \cup {o[1]} \in Flags
    BY <2>1, ParamFields DEF Flags
  <2>4. o[2] \in Lifetime /\ <<o[2]>> \in Md
    BY <2>1 DEF Lifetime, Md
  <2>5. <<q.version>> \o q.servers \in Versions
    BY ParamFields DEF Versions
  <2>6. o[1] \in Addresses => [q.addr EXCEPT ![o[1]] = o[2]] \in Addrs
    BY <2>1, ParamFields DEF Addrs
  <2> QED
    BY <2>1, <2>2, <2>3, <2>4, <2>5, <2>6
<1>2. CASE o[1] = "server"
  <2>1. r = [q EXCEPT !.servers = <<q.version>> \o @]
    BY <1>0, <1>2
       DEF MapPeerFlags, PlainFlags, Addresses, Tolerances, MapPeerNames, parse_opt, parse_opt_server
  <2>2. /\ r \in Params /\ r.flags = q.flags /\ r.addr = q.addr
        /\ r.protocol = q.protocol /\ r.lifetime = q.lifetime
        /\ r.mappeer = q.mappeer /\ r.sadscp = q.sadscp
    BY <1>1, <2>1 DEF Params
  <2>3. /\ o[1] \notin MapPeerNames /\ o[1] \notin Tolerances
        /\ o[1] \notin MapPeerFlags \cup PlainFlags /\ o[1] \notin Addresses
        /\ o[1] \notin DOMAIN Protocol /\ o[1] # "lifetime"
    BY <1>0, <1>2 DEF MapPeerFlags, PlainFlags, Addresses, Tolerances, MapPeerNames
  <2>4. /\ r.mappeer = (q.mappeer \/ o[1] \in MapPeerNames)
        /\ r.sadscp = (q.sadscp \/ o[1] \in Tolerances)
    BY <2>2, <2>3, ParamFields, Zenon
  <2> QED
    BY <2>2, <2>3, <2>4
<1>3. CASE o[1] = "version"
  <2>0. o[2] % 256 \in Nat
    BY <1>3, OptionsAssumption
  <2>1. r = [q EXCEPT !.version = o[2] % 256]
    BY <1>0, <1>3
       DEF MapPeerFlags, PlainFlags, Addresses, Tolerances, MapPeerNames, parse_opt, parse_opt_version
  <2>2. /\ r \in Params /\ r.flags = q.flags /\ r.addr = q.addr
        /\ r.protocol = q.protocol /\ r.lifetime = q.lifetime
        /\ r.mappeer = q.mappeer /\ r.sadscp = q.sadscp
    BY <1>1, <2>0, <2>1 DEF Params
  <2>3. /\ o[1] \notin MapPeerNames /\ o[1] \notin Tolerances
        /\ o[1] \notin MapPeerFlags \cup PlainFlags /\ o[1] \notin Addresses
        /\ o[1] \notin DOMAIN Protocol /\ o[1] # "lifetime"
    BY <1>0, <1>3 DEF MapPeerFlags, PlainFlags, Addresses, Tolerances, MapPeerNames
  <2>4. /\ r.mappeer = (q.mappeer \/ o[1] \in MapPeerNames)
        /\ r.sadscp = (q.sadscp \/ o[1] \in Tolerances)
    BY <2>2, <2>3, ParamFields, Zenon
  <2> QED
    BY <2>2, <2>3, <2>4
<1>4. CASE o[1] = "disdisc"
  <2>1. r = [q EXCEPT !.dis = TRUE]
    BY <1>0, <1>4
       DEF MapPeerFlags, PlainFlags, Addresses, Tolerances, MapPeerNames, parse_opt
  <2>2. /\ r \in Params /\ r.flags = q.flags /\ r.addr = q.addr
        /\ r.protocol = q.protocol /\ r.lifetime = q.lifetime
        /\ r.mappeer = q.mappeer /\ r.sadscp = q.sadscp
    BY <1>1, <2>1 DEF Params
  <2>3. /\ o[1] \notin MapPeerNames /\ o[1] \notin Tolerances
        /\ o[1] \notin MapPeerFlags \cup PlainFlags /\ o[1] \notin Addresses
        /\ o[1] \notin DOMAIN Protocol /\ o[1] # "lifetime"
    BY <1>0, <1>4 DEF MapPeerFlags, PlainFlags, Addresses, Tolerances, MapPeerNames
  <2>4. /\ r.mappeer = (q.mappeer \/ o[1] \in MapPeerNames)
        /\ r.sadscp = (q.sadscp \/ o[1] \in Tolerances)
    BY <2>2, <2>3, ParamFields, Zenon
  <2> QED
    BY <2>2, <2>3, <2>4
<1>5. CASE o[1] \in Addresses
  <2>1. r = [q EXCEPT !.addr[o[1]] = o[2], !.mappeer = TRUE]
    BY <1>0, <1>5
       DEF MapPeerFlags, PlainFlags, Addresses, Tolerances, MapPeerNames, parse_opt, parse_opt_addr
  <2>2. /\ r \in Params /\ r.flags = q.flags /\ r.addr = [q.addr EXCEPT ![o[1]] = o[2]]
        /\ r.protocol = q.protocol /\ r.lifetime = q.lifetime
        /\ r.mappeer = TRUE /\ r.sadscp = q.sadscp
    BY <1>0, <1>1, <1>5, <2>1 DEF Params
  <2>3. /\ o[1] \in MapPeerNames /\ o[1] \notin Tolerances
        /\ o[1] \notin MapPeerFlags \cup PlainFlags /\ o[1] \in Addresses
        /\ o[1] \notin DOMAIN Protocol /\ o[1] # "lifetime"
    BY <1>0, <1>5 DEF MapPeerFlags, PlainFlags, Addresses, Tolerances, MapPeerNames
  <2>4. /\ r.mappeer = (q.mappeer \/ o[1] \in MapPeerNames)
        /\ r.sadscp = (q.sadscp \/ o[1] \in Tolerances)
    BY <2>2, <2>3, ParamFields, Zenon
  <2>5. \A k \in Addresses : r.addr[k] = IF o[1] = k THEN o[2] ELSE q.addr[k]
    BY <1>5, <2>2, ParamFields DEF Addrs
  <2> QED
    BY <2>2, <2>3, <2>4, <2>5
<1>6. CASE o[1] \in DOMAIN Protocol
  <2>1. r = [q EXCEPT !.protocol = Protocol[o[1]], !.mappeer = TRUE]
    BY <1>0, <1>6
       DEF MapPeerFlags, PlainFlags, Addresses, Tolerances, MapPeerNames, parse_opt
  <2>2. /\ r \in Params /\ r.flags = q.flags /\ r.addr = q.addr
        /\ r.protocol = Protocol[o[1]] /\ r.lifetime = q.lifetime
        /\ r.mappeer = TRUE /\ r.sadscp = q.sadscp
    <3>1. Protocol[o[1]] \in {6, 17}
      BY <1>0, <1>6
    <3> QED
      BY <2>1, <3>1 DEF Params
  <2>3. /\ o[1] \in MapPeerNames /\ o[1] \notin Tolerances
        /\ o[1] \notin MapPeerFlags \cup PlainFlags /\ o[1] \notin Addresses
        /\ o[1] \in DOMAIN Protocol /\ o[1] # "lifetime"
    BY <1>0, <1>6 DEF MapPeerFlags, PlainFlags, Addresses, Tolerances, MapPeerNames
  <2>4. /\ r.mappeer = (q.mappeer \/ o[1] \in MapPeerNames)
        /\ r.sadscp = (q.sadscp \/ o[1] \in Tolerances)
    BY <2>2, <2>3, ParamFields, Zenon
  <2> QED
    BY <2>2, <2>3, <2>4
<1>7. CASE o[1] = "lifetime"
  <2>1. r = [q EXCEPT !.lifetime = o[2]]
    BY <1>0, <1>7
       DEF MapPeerFlags, PlainFlags, Addresses, Tolerances, MapPeerNames, parse_opt
  <2>2. /\ r \in Params /\ r.flags = q.flags /\ r.addr = q.addr
        /\ r.protocol = q.protocol /\ r.lifetime = o[2]
        /\ r.mappeer = q.mappeer /\ r.sadscp = q.sadscp
    BY <1>0, <1>1, <1>7, <2>1 DEF Params
  <2>3. /\ o[1] \notin MapPeerNames /\ o[1] \notin Tolerances
        /\ o[1] \notin MapPeerFlags \cup PlainFlags /\ o[1] \notin Addresses
        /\ o[1] \notin DOMAIN Protocol /\ o[1] = "lifetime"
    BY <1>0, <1>7 DEF MapPeerFlags, PlainFlags, Addresses, Tolerances, MapPeerNames
  <2>4. /\ r.mappeer = (q.mappeer \/ o[1] \in MapPeerNames)
        /\ r.sadscp = (q.sadscp \/ o[1] \in Tolerances)
    BY <2>2, <2>3, ParamFields, Zenon
  <2> QED
    BY <2>2, <2>3, <2>4
<1>8. CASE o[1] \in MapPeerFlags
  <2>1. r = [q EXCEPT !.flags = @ \cup {o[1]}, !.mappeer = TRUE]
    BY <1>0, <1>8
       DEF MapPeerFlags, PlainFlags, Addresses, Tolerances, MapPeerNames, parse_opt, parse_opt_flag
  <2>2. /\ r \in Params /\ r.flags = q.flags \cup {o[1]} /\ r.addr = q.addr
        /\ r.protocol = q.protocol /\ r.lifetime = q.lifetime
        /\ r.mappeer = TRUE /\ r.sadscp = q.sadscp
    BY <1>0, <1>1, <1>8, <2>1 DEF Params
  <2>3. /\ o[1] \in MapPeerNames /\ o[1] \notin Tolerances
        /\ o[1] \in MapPeerFlags \cup PlainFlags /\ o[1] \notin Addresses
        /\ o[1] \notin DOMAIN Protocol /\ o[1] # "lifetime"
    BY <1>0, <1>8 DEF MapPeerFlags, PlainFlags, Addresses, Tolerances, MapPeerNames
  <2>4. /\ r.mappeer = (q.mappeer \/ o[1] \in MapPeerNames)
        /\ r.sadscp = (q.sadscp \/ o[1] \in Tolerances)
    BY <2>2, <2>3, ParamFields, Zenon
  <2> QED
    BY <2>2, <2>3, <2>4
<1>9. CASE o[1] = "md_id"
  <2>1. r = [q EXCEPT !.md = <<o[2]>>, !.mappeer = TRUE]
    BY <1>0, <1>9
       DEF MapPeerFlags, PlainFlags, Addresses, Tolerances, MapPeerNames, parse_opt, parse_opt_md_id
  <2>2. /\ r \in Params /\ r.flags = q.flags /\ r.addr = q.addr
        /\ r.protocol = q.protocol /\ r.lifetime = q.lifetime
        /\ r.mappeer = TRUE /\ r.sadscp = q.sadscp
    BY <1>0, <1>1, <1>9, <2>1 DEF Params
  <2>3. /\ o[1] \in MapPeerNames /\ o[1] \notin Tolerances
        /\ o[1] \notin MapPeerFlags \cup PlainFlags /\ o[1] \notin Addresses
        /\ o[1] \notin DOMAIN Protocol /\ o[1] # "lifetime"
    BY <1>0, <1>9 DEF MapPeerFlags, PlainFlags, Addresses, Tolerances, MapPeerNames
  <2>4. /\ r.mappeer = (q.mappeer \/ o[1] \in MapPeerNames)
        /\ r.sadscp = (q.sadscp \/ o[1] \in Tolerances)
    BY <2>2, <2>3, ParamFields, Zenon
  <2> QED
    BY <2>2, <2>3, <2>4
<1>10. CASE o[1] \in PlainFlags
  <2>1. r = [q EXCEPT !.flags = @ \cup {o[1]}]
    BY <1>0, <1>10
       DEF MapPeerFlags, PlainFlags, Addresses, Tolerances, MapPeerNames, parse_opt
  <2>2. /\ r \in Params /\ r.flags = q.flags \cup {o[1]} /\ r.addr = q.addr
        /\ r.protocol = q.protocol /\ r.lifetime = q.lifetime
        /\ r.mappeer = q.mappeer /\ r.sadscp = q.sadscp
    BY <1>0, <1>1, <1>10, <2>1 DEF Params
  <2>3. /\ o[1] \notin MapPeerNames /\ o[1] \notin Tolerances
        /\ o[1] \in MapPeerFlags \cup PlainFlags /\ o[1] \notin Addresses
        /\ o[1] \notin DOMAIN Protocol /\ o[1] # "lifetime"
    BY <1>0, <1>10 DEF MapPeerFlags, PlainFlags, Addresses, Tolerances, MapPeerNames
  <2>4. /\ r.mappeer = (q.mappeer \/ o[1] \in MapPeerNames)
        /\ r.sadscp = (q.sadscp \/ o[1] \in Tolerances)
    BY <2>2, <2>3, ParamFields, Zenon
  <2> QED
    BY <2>2, <2>3, <2>4
<1>11. CASE o[1] \in Tolerances
  <2>1. r = [q EXCEPT !.sadscp = TRUE]
    BY <1>0, <1>11
       DEF MapPeerFlags, PlainFlags, Addresses, Tolerances, MapPeerNames, parse_opt
  <2>2. /\ r \in Params /\ r.flags = q.flags /\ r.addr = q.addr
        /\ r.protocol = q.protocol /\ r.lifetime = q.lifetime
        /\ r.mappeer = q.mappeer /\ r.sadscp = TRUE
    BY <1>0, <1>1, <1>11, <2>1 DEF Params
  <2>3. /\ o[1] \notin MapPeerNames /\ o[1] \in Tolerances
        /\ o[1] \notin MapPeerFlags \cup PlainFlags /\ o[1] \notin Addresses
        /\ o[1] \notin DOMAIN Protocol /\ o[1] # "lifetime"
    BY <1>0, <1>11 DEF MapPeerFlags, PlainFlags, Addresses, Tolerances, MapPeerNames
  <2>4. /\ r.mappeer = (q.mappeer \/ o[1] \in MapPeerNames)
        /\ r.sadscp = (q.sadscp \/ o[1] \in Tolerances)
    BY <2>2, <2>3, ParamFields, Zenon
  <2> QED
    BY <2>2, <2>3, <2>4
<1> QED
  BY <1>0, <1>1, <1>2, <1>3, <1>4, <1>5, <1>6, <1>7, <1>8, <1>9, <1>10, <1>11
     DEF OptionNames, MapPeerNames

\* The names given, and the values of the last options of a kind.
NamesOf(q)    == {q[i][1] : i \in DOMAIN q}
AddressOf(q, k) == IF At(q, {k}) = {} THEN "none" ELSE Latest(q, {k})[2]
ProtocolOf(q) == IF At(q, DOMAIN Protocol) = {} THEN 6
                 ELSE Protocol[Latest(q, DOMAIN Protocol)[1]]
LifetimeOf(q) == IF At(q, {"lifetime"}) = {} THEN 900 ELSE Latest(q, {"lifetime"})[2]

\* They are what the properties speak of.
LEMMA LastOptions ==
    /\ Names = NamesOf(given)
    /\ \A k : LastOption({k}, LAMBDA o : o[2], "none") = AddressOf(given, k)
    /\ LastOption(DOMAIN Protocol, LAMBDA o : Protocol[o[1]], 6) = ProtocolOf(given)
    /\ LastOption({"lifetime"}, LAMBDA o : o[2], 900) = LifetimeOf(given)
<1>1. Names = NamesOf(given)
  BY DEF Names, Given, NamesOf
<1>2. \A k : LastOption({k}, LAMBDA o : o[2], "none") = AddressOf(given, k)
  BY DEF LastOption, AddressOf, Latest, At, Top
<1>3. LastOption(DOMAIN Protocol, LAMBDA o : Protocol[o[1]], 6) = ProtocolOf(given)
  BY DEF LastOption, ProtocolOf, Latest, At, Top
<1>4. LastOption({"lifetime"}, LAMBDA o : o[2], 900) = LifetimeOf(given)
  BY DEF LastOption, LifetimeOf, Latest, At, Top
<1> QED
  BY <1>1, <1>2, <1>3, <1>4

\* The parameters r record the options q.
Recorded(q, r) ==
    /\ r.flags = NamesOf(q) \cap (MapPeerFlags \cup PlainFlags)
    /\ \A k \in Addresses : r.addr[k] = AddressOf(q, k)
    /\ \A k \in Addresses : r.addr[k] # "none" <=> k \in NamesOf(q)
    /\ r.protocol = ProtocolOf(q) /\ r.lifetime = LifetimeOf(q)
    /\ r.mappeer = (NamesOf(q) \cap MapPeerNames # {})
    /\ r.sadscp = (NamesOf(q) \cap Tolerances # {})

\* parse_params goes on recording them.
LEMMA RecordedStep ==
    ASSUME NEW q \in Seq(Options), NEW r \in Params, Recorded(q, r),
           NEW o \in Options, ~Exits(o),
           NEW q2, q2 = Append(q, o), NEW r2, r2 = parse_opt(r, o)
    PROVE  Recorded(q2, r2)
<1>1. NamesOf(q2) = NamesOf(q) \cup {o[1]}
  <2>1. /\ DOMAIN q2 = 1..Len(q) + 1 /\ DOMAIN q = 1..Len(q) /\ Len(q) \in Nat
        /\ q2[Len(q) + 1] = o /\ \A i \in 1..Len(q) : q2[i] = q[i]
    OBVIOUS
  <2>2. \A n : n \in NamesOf(q2) <=> n \in NamesOf(q) \/ n = o[1]
    BY <2>1 DEF NamesOf
  <2> QED
    BY <2>2
<1>2. /\ r2.flags = r.flags \cup ({o[1]} \cap (MapPeerFlags \cup PlainFlags))
      /\ \A k \in Addresses : r2.addr[k] = IF o[1] = k THEN o[2] ELSE r.addr[k]
      /\ r2.protocol = IF o[1] \in DOMAIN Protocol THEN Protocol[o[1]] ELSE r.protocol
      /\ r2.lifetime = IF o[1] = "lifetime" THEN o[2] ELSE r.lifetime
      /\ r2.mappeer = (r.mappeer \/ o[1] \in MapPeerNames)
      /\ r2.sadscp = (r.sadscp \/ o[1] \in Tolerances)
  BY ParseOpt
<1>3. r2.flags = NamesOf(q2) \cap (MapPeerFlags \cup PlainFlags)
  BY <1>1, <1>2 DEF Recorded
<1> DEFINE Kept(names) == /\ At(q2, names) = At(q, names)
                          /\ At(q, names) # {} => Latest(q2, names) = Latest(q, names)
           Now(names)  == At(q2, names) # {} /\ Latest(q2, names) = o
<1>10. \A names : (o[1] \in names => Now(names)) /\ (o[1] \notin names => Kept(names))
  <2> TAKE names
  <2>1. ASSUME o[1] \in names PROVE Now(names)
    BY <2>1, AppendedNow
  <2>2. ASSUME o[1] \notin names PROVE Kept(names)
    BY <2>2, AppendedKept
  <2> QED
    BY <2>1, <2>2
<1>4. \A k \in Addresses : r2.addr[k] = AddressOf(q2, k)
  <2> SUFFICES ASSUME NEW k \in Addresses PROVE r2.addr[k] = AddressOf(q2, k)
    OBVIOUS
  <2>0. (o[1] \in {k} => Now({k})) /\ (o[1] \notin {k} => Kept({k}))
    BY <1>10
  <2>1. CASE o[1] = k
    BY <1>2, <2>0, <2>1 DEF AddressOf
  <2>2. CASE o[1] # k
    <3>1. AddressOf(q2, k) = AddressOf(q, k)
      BY <2>0, <2>2 DEF AddressOf
    <3> QED
      BY <1>2, <2>2, <3>1 DEF Recorded
  <2> QED
    BY <2>1, <2>2
<1>5. \A k \in Addresses : r2.addr[k] # "none" <=> k \in NamesOf(q2)
  BY <1>1, <1>2, OptionsAssumption DEF Recorded
<1>6. r2.protocol = ProtocolOf(q2)
  <2>0. (o[1] \in DOMAIN Protocol => Now(DOMAIN Protocol)) /\ (o[1] \notin DOMAIN Protocol => Kept(DOMAIN Protocol))
    BY <1>10
  <2>1. CASE o[1] \in DOMAIN Protocol
    BY <1>2, <2>0, <2>1 DEF ProtocolOf
  <2>2. CASE o[1] \notin DOMAIN Protocol
    <3>1. ProtocolOf(q2) = ProtocolOf(q)
      BY <2>0, <2>2 DEF ProtocolOf
    <3> QED
      BY <1>2, <2>2, <3>1 DEF Recorded
  <2> QED
    BY <2>1, <2>2
<1>7. r2.lifetime = LifetimeOf(q2)
  <2>0. (o[1] \in {"lifetime"} => Now({"lifetime"})) /\ (o[1] \notin {"lifetime"} => Kept({"lifetime"}))
    BY <1>10
  <2>1. CASE o[1] = "lifetime"
    BY <1>2, <2>0, <2>1 DEF LifetimeOf
  <2>2. CASE o[1] # "lifetime"
    <3>1. LifetimeOf(q2) = LifetimeOf(q)
      <4>1. Kept({"lifetime"})
        BY <2>0, <2>2
      <4>2. CASE At(q, {"lifetime"}) = {}
        BY <4>1, <4>2 DEF LifetimeOf
      <4>3. CASE At(q, {"lifetime"}) # {}
        <5>1. /\ LifetimeOf(q2) = Latest(q2, {"lifetime"})[2]
              /\ LifetimeOf(q) = Latest(q, {"lifetime"})[2]
          BY <4>1, <4>3 DEF LifetimeOf
        <5> QED
          BY <4>1, <4>3, <5>1
      <4> QED
        BY <4>2, <4>3
    <3> QED
      BY <1>2, <2>2, <3>1 DEF Recorded
  <2> QED
    BY <2>1, <2>2
<1>8. r2.mappeer = (NamesOf(q2) \cap MapPeerNames # {})
  <2>1. (NamesOf(q2) \cap MapPeerNames # {})
            <=> (NamesOf(q) \cap MapPeerNames # {}) \/ o[1] \in MapPeerNames
    BY <1>1
  <2> QED
    BY <1>2, <2>1, Zenon DEF Recorded
<1>9. r2.sadscp = (NamesOf(q2) \cap Tolerances # {})
  <2>1. (NamesOf(q2) \cap Tolerances # {})
            <=> (NamesOf(q) \cap Tolerances # {}) \/ o[1] \in Tolerances
    BY <1>1
  <2> QED
    BY <1>2, <2>1, Zenon DEF Recorded
<1> QED
  BY <1>3, <1>4, <1>5, <1>6, <1>7, <1>8, <1>9, Zenon DEF Recorded

\* The parameters record what was given, main goes on with a command line it
\* accepts, and the flow is made of the parameters.
CliRecord ==
    /\ pc # "exit" => Recorded(given, params)
    /\ pc \in {"flow", "wait"} => ~ArgsRefused(params)
FlowOfParams ==
    /\ pc # "wait" => flow = NullFlow
    /\ IsMapPeer => /\ flow.flags = params.flags \cup Optional(params)
                    /\ flow.protocol = params.protocol
                    /\ flow.lifetime = params.lifetime
                    /\ flow.op = "PEER" => params.addr.peer = "addr"
CliInv == given \in Seq(Options) /\ params \in Params /\ CliRecord /\ FlowOfParams

LEMMA InitCli == CliInit => CliInv
<1> SUFFICES ASSUME CliInit PROVE CliInv
  OBVIOUS
<1> USE DEF CliInit
<1>1. given \in Seq(Options)
  OBVIOUS
<1>2. params \in Params
  <2>1. [k \in Addresses |-> "none"] \in Addrs
    BY DEF Addrs, Arg
  <2>2. {} \in Flags /\ 900 \in Lifetime /\ <<>> \in Md /\ <<>> \in Versions
    BY DEF Flags, Lifetime, Md, Versions
  <2>3. MaxVersion \in Nat
    BY DEF MaxVersion
  <2> QED
    BY <2>1, <2>2, <2>3 DEF Defaults, Params
<1>3. NamesOf(given) = {} /\ \A names : At(given, names) = {}
  BY DEF NamesOf, At
<1>4. Recorded(given, params)
  <2>1. /\ params.flags = NamesOf(given) \cap (MapPeerFlags \cup PlainFlags)
        /\ \A k \in Addresses : params.addr[k] = AddressOf(given, k)
        /\ \A k \in Addresses : params.addr[k] # "none" <=> k \in NamesOf(given)
    BY <1>3 DEF Defaults, AddressOf
  <2>2. params.protocol = ProtocolOf(given) /\ params.lifetime = LifetimeOf(given)
    BY <1>3 DEF Defaults, ProtocolOf, LifetimeOf
  <2>3. params.mappeer = FALSE /\ params.sadscp = FALSE
    BY DEF Defaults
  <2> QED
    BY <1>3, <2>1, <2>2, <2>3 DEF Recorded
<1> QED
  BY <1>1, <1>2, <1>4 DEF CliInv, CliRecord, FlowOfParams, IsMapPeer, NullFlow

LEMMA NextCli == CliInv /\ [CliNext]_clivars => CliInv'
<1> SUFFICES ASSUME CliInv, [CliNext]_clivars PROVE CliInv'
  OBVIOUS
<1> USE DEF CliInv
<1>1. ASSUME NEW o \in Options, Parse(o) PROVE CliInv'
  <2>1. given' \in Seq(Options) /\ pc = "parse" /\ flow' = NullFlow
    BY <1>1 DEF Parse, FlowOfParams
  <2>2. FlowOfParams'
    BY <2>1 DEF FlowOfParams, IsMapPeer, NullFlow
  <2>3. CASE Exits(o)
    BY <1>1, <2>1, <2>2, <2>3 DEF Parse, CliRecord
  <2>4. CASE ~Exits(o)
    <3>1. params' = parse_opt(params, o) /\ given' = Append(given, o) /\ pc' = "parse"
      BY <1>1, <2>4 DEF Parse
    <3>2. params' \in Params
      BY <2>4, <3>1, ParseOpt
    <3>3. Recorded(given, params)
      BY <2>1 DEF CliRecord
    <3>4. Recorded(given', params')
      BY <2>4, <3>1, <3>3, RecordedStep
    <3> QED
      BY <2>1, <2>2, <3>1, <3>2, <3>4 DEF CliRecord
  <2> QED
    BY <2>3, <2>4
<1>2. ASSUME NEW n \in 0..MaxDiscovered, Start(n) PROVE CliInv'
  BY <1>2 DEF Start, CliRecord, FlowOfParams, IsMapPeer, NullFlow
<1>3. ASSUME InitFails PROVE CliInv'
  BY <1>3 DEF InitFails, CliRecord, FlowOfParams, IsMapPeer, NullFlow
<1>4. ASSUME MakeFlow PROVE CliInv'
  <2>1. given' = given /\ params' = params /\ pc = "flow" /\ pc' \in {"exit", "wait"}
    BY <1>4 DEF MakeFlow
  <2>2. CliRecord'
    BY <2>1 DEF CliRecord
  <2>3. FlowOfParams'
    <3>1. CASE ~params.mappeer
      BY <1>4, <2>1, <3>1
         DEF MakeFlow, FlowOfParams, IsMapPeer, NullFlow, pcp_learn_dscp
    <3>2. CASE params.mappeer /\ pcp_new_flow(params) = NullFlow
      BY <1>4, <2>1, <3>2 DEF MakeFlow, FlowOfParams, IsMapPeer, NullFlow
    <3>3. CASE params.mappeer /\ pcp_new_flow(params) # NullFlow
      <4>1. flow' = SetOptions(pcp_new_flow(params), params) /\ pc' = "wait"
        BY <1>4, <3>3 DEF MakeFlow
      <4>2. /\ flow'.flags = params.flags \cup Optional(params)
            /\ flow'.protocol = params.protocol /\ flow'.lifetime = params.lifetime
            /\ flow'.op = IF params.addr.peer = "addr" THEN "PEER" ELSE "MAP"
        BY <3>3, <4>1 DEF SetOptions, pcp_new_flow
      <4> QED
        BY <2>1, <4>1, <4>2 DEF FlowOfParams, Optional
    <3> QED
      BY <3>1, <3>2, <3>3
  <2> QED
    BY <2>1, <2>2, <2>3
<1>5. CASE UNCHANGED clivars
  BY <1>5 DEF clivars, CliRecord, FlowOfParams, IsMapPeer
<1> QED
  BY <1>1, <1>2, <1>3, <1>4, <1>5 DEF CliNext

\* The program runs what the command line says, or starts nothing: for every
\* sequence of options, the flow main makes of the recorded parameters carries
\* each option given, the last protocol and the last lifetime, a PEER carries no
\* option of MAP alone, and main checks the addresses and the operation before
\* pcp_init.
THEOREM CommandLineKept == CliSpec => []CommandLineIsKept
<1>1. CliInv => CommandLineIsKept
  <2> SUFFICES ASSUME CliInv PROVE CommandLineIsKept
    OBVIOUS
  <2> USE DEF CliInv
  <2>1. ASSUME pc # "exit"
        PROVE  /\ params.flags = Names \cap (MapPeerFlags \cup PlainFlags)
               /\ \A k \in Addresses :
                    /\ params.addr[k] = LastOption({k}, LAMBDA o : o[2], "none")
                    /\ params.addr[k] # "none" <=> k \in Names
               /\ params.protocol = LastOption(DOMAIN Protocol, LAMBDA o : Protocol[o[1]], 6)
               /\ params.lifetime = LastOption({"lifetime"}, LAMBDA o : o[2], 900)
    <3>1. Recorded(given, params)
      BY <2>1 DEF CliRecord
    <3>2. params.flags = Names \cap (MapPeerFlags \cup PlainFlags)
      BY <3>1, LastOptions, Zenon DEF Recorded
    <3>3. \A k \in Addresses : /\ params.addr[k] = LastOption({k}, LAMBDA o : o[2], "none")
                               /\ params.addr[k] # "none" <=> k \in Names
      BY <3>1, LastOptions DEF Recorded
    <3>4. params.protocol = LastOption(DOMAIN Protocol, LAMBDA o : Protocol[o[1]], 6)
      BY <3>1, LastOptions, Zenon DEF Recorded
    <3>5. params.lifetime = LastOption({"lifetime"}, LAMBDA o : o[2], 900)
      BY <3>1, LastOptions, Zenon DEF Recorded
    <3> QED
      BY <3>2, <3>3, <3>4, <3>5, Zenon
  <2>2. IsMapPeer => pc = "wait"
    BY DEF FlowOfParams, IsMapPeer, NullFlow
  <2>3. pc = "wait" => Optional(params) = Names \cap {"filter", "thirdparty"}
    BY <2>1 DEF Optional, Addresses
  <2>4. OptionsReachFlow
    BY <2>1, <2>2, <2>3 DEF OptionsReachFlow, FlowOfParams
  <2>5. MapOnlyOptions
    <3> SUFFICES ASSUME flow.op = "PEER"
                 PROVE  flow.flags \cap {"pfailure", "filter"} = {}
      BY DEF MapOnlyOptions
    <3>1. IsMapPeer /\ pc = "wait"
      BY <2>2 DEF IsMapPeer
    <3>2. /\ flow.flags = params.flags \cup Optional(params)
          /\ params.addr.peer = "addr" /\ ~ArgsRefused(params)
      BY <3>1 DEF FlowOfParams, CliRecord
    <3>3. "pfailure" \notin params.flags /\ params.addr.filter = "none"
      BY <3>2 DEF ArgsRefused
    <3>4. "filter" \notin params.flags
      BY <2>1, <3>1 DEF MapPeerFlags, PlainFlags
    <3> QED
      BY <3>2, <3>3, <3>4 DEF Optional
  <2>6. CheckedBeforeStart
    <3> SUFFICES ASSUME pc \in {"flow", "wait"}
                 PROVE  /\ \A k \in Addresses :
                             LastOption({k}, LAMBDA o : o[2], "none") # "bad"
                        /\ (Names \cap Tolerances = {}) # (Names \cap MapPeerNames = {})
      BY DEF CheckedBeforeStart
    <3>1. ~ArgsRefused(params) /\ pc # "exit" /\ Recorded(given, params)
      BY DEF CliRecord
    <3>2. \A k \in Addresses : LastOption({k}, LAMBDA o : o[2], "none") # "bad"
      BY <2>1, <3>1 DEF ArgsRefused
    <3>3. ~(params.mappeer = params.sadscp)
      BY <3>1 DEF ArgsRefused, Mixed
    <3>4. /\ params.mappeer = (Names \cap MapPeerNames # {})
          /\ params.sadscp = (Names \cap Tolerances # {})
      BY <3>1, LastOptions, Zenon DEF Recorded
    <3> QED
      BY <3>2, <3>3, <3>4, Zenon
  <2> QED
    BY <2>4, <2>5, <2>6 DEF CommandLineIsKept
<1> QED
  BY <1>1, InitCli, NextCli, PTL DEF CliSpec

-----------------------------------------------------------------------------
(* The test server.                                                         *)

TypeS == /\ end_after_recv \in 0..MaxEnd /\ tv \in 0..MaxTime
         /\ remaining_messages \in Int /\ time_left \in Int
         /\ at \in {"loop", "select", "done"}
         /\ inbox \in Nat /\ replies \in Nat /\ late \in Nat

\* A server that runs has as many requests to go as it has not yet answered,
\* and one at least.
Countdown == /\ end_after_recv # 0 => replies <= end_after_recv
             /\ at # "done" /\ end_after_recv = 0 => remaining_messages = -1
             /\ at # "done" /\ end_after_recv # 0 =>
                    /\ remaining_messages = end_after_recv - replies
                    /\ replies < end_after_recv

\* After an answer that was late, the clock is the next thing that is looked at.
LateOnce == late = 0 \/ (late = 1 /\ tv # 0 /\ time_left < 0 /\ at # "select")

\* The server runs while execPCPServer is in its loop.
Runs == running = (at # "done")

ServerInv == TypeS /\ Countdown /\ LateOnce /\ Runs

\* The limit a server starts with is all to go.
LEMMA NonZero == \A n \in Nat : n # 0 => n - 0 = n /\ 0 < n /\ 0 <= n
  OBVIOUS

LEMMA InitServer ==
    ASSUME ServerInit
    PROVE  ServerInv
<1>1. TypeS /\ Countdown /\ LateOnce
  BY ServerBounds DEF ServerInit, TypeS, Countdown, LateOnce
<1>2. Runs
  BY DEF ServerInit, Runs
<1> QED
  BY <1>1, <1>2 DEF ServerInv

\* The server stops exactly where its loop ends.
LEMMA NextRuns ==
    ASSUME Runs, [ServerNext]_servervars
    PROVE  Runs'
<1> USE DEF Runs
<1>1. CASE pcp_test_server_start
  BY <1>1, Zenon DEF pcp_test_server_start
<1>2. CASE pulse_begin
  BY <1>2, Zenon DEF pulse_begin, pcp_test_server_stop
<1>3. CASE pulse_request
  BY <1>3, Zenon DEF pulse_request, pcp_test_server_stop
<1>4. CASE pulse_timeout
  BY <1>4, Zenon DEF pulse_timeout, pcp_test_server_stop
<1>5. CASE pulse_error
  BY <1>5, Zenon DEF pulse_error, pcp_test_server_stop
<1>6. CASE Arrive
  BY <1>6, Zenon DEF Arrive
<1>7. CASE Clock
  BY <1>7, Zenon DEF Clock
<1>8. CASE UNCHANGED servervars
  BY <1>8 DEF servervars
<1> QED
  BY <1>1, <1>2, <1>3, <1>4, <1>5, <1>6, <1>7, <1>8 DEF ServerNext, Serve

\* An answer counts one request down and is late at most once.
LEMMA RequestInv ==
    ASSUME TypeS, Countdown, LateOnce, pulse_request
    PROVE  TypeS' /\ Countdown' /\ LateOnce'
<1>1. /\ at = "select" /\ late = 0
      /\ end_after_recv \in Nat /\ end_after_recv <= MaxEnd /\ MaxEnd \in Nat
      /\ replies \in Nat /\ remaining_messages \in Int
  BY ServerBounds DEF pulse_request, TypeS, Countdown, LateOnce
<1>2. UNCHANGED info /\ time_left' = time_left /\ inbox' \in Nat
  BY <1>1 DEF pulse_request, TypeS
<1>3. replies' \in Nat /\ (end_after_recv # 0 => replies' = replies + 1)
  BY <1>1 DEF pulse_request, Count, Countdown
<1>4. late' = 0 \/ (late' = 1 /\ tv # 0 /\ time_left < 0)
  BY <1>1 DEF pulse_request, Count
<1>5. remaining_messages' = IF remaining_messages > 0 THEN remaining_messages - 1
                            ELSE remaining_messages
  BY DEF pulse_request
<1>6. IF remaining_messages > 0 /\ remaining_messages' = 0
      THEN at' = "done" ELSE at' = "loop"
  BY DEF pulse_request, pcp_test_server_stop
<1>7. TypeS'
  <2>1. late' \in Nat /\ remaining_messages' \in Int
    BY <1>1, <1>4, <1>5
  <2>2. at' \in {"loop", "select", "done"}
    BY <1>6
  <2> QED
    BY <1>2, <1>3, <2>1, <2>2 DEF TypeS, info
<1>8. LateOnce'
  BY <1>2, <1>4, <1>6 DEF LateOnce, info
<1>9. Countdown'
  <2>1. CASE end_after_recv = 0
    BY <1>1, <1>2, <1>5, <1>6, <2>1 DEF Countdown, info
  <2>2. CASE end_after_recv # 0
    <3>1. remaining_messages = end_after_recv - replies /\ replies < end_after_recv
      BY <1>1, <2>2 DEF Countdown
    <3>2. remaining_messages' = end_after_recv - replies' /\ replies' = replies + 1
      BY <1>1, <1>3, <1>5, <2>2, <3>1
    <3> QED
      BY <1>1, <1>2, <1>6, <2>2, <3>1, <3>2 DEF Countdown, info
  <2> QED
    BY <2>1, <2>2
<1> QED
  BY <1>7, <1>8, <1>9

LEMMA NextServer ==
    ASSUME ServerInv, [ServerNext]_servervars
    PROVE  ServerInv'
<1> SUFFICES TypeS' /\ Countdown' /\ LateOnce'
  BY NextRuns DEF ServerInv
<1>0. TypeS /\ Countdown /\ LateOnce
  BY DEF ServerInv
<1>1. CASE pcp_test_server_start
  <2>1. TypeS'
    BY <1>0, <1>1, ServerBounds DEF pcp_test_server_start, TypeS
  <2>2. /\ replies' = 0 /\ late' = 0
        /\ remaining_messages' = IF end_after_recv' = 0 THEN -1 ELSE end_after_recv'
    BY <1>1 DEF pcp_test_server_start
  <2>3. end_after_recv' \in Nat
    BY <1>1, ServerBounds DEF pcp_test_server_start
  <2>4. Countdown'
    <3>1. CASE end_after_recv' = 0
      BY <2>2, <3>1 DEF Countdown
    <3>2. CASE end_after_recv' # 0
      <4>1. remaining_messages' = end_after_recv'
        BY <2>2, <3>2
      <4>2. end_after_recv' - 0 = end_after_recv' /\ 0 < end_after_recv' /\ 0 <= end_after_recv'
        BY <2>3, <3>2, NonZero
      <4> QED
        BY <2>2, <3>2, <4>1, <4>2 DEF Countdown
    <3> QED
      BY <3>1, <3>2
  <2>5. LateOnce'
    BY <2>2 DEF LateOnce
  <2> QED
    BY <2>1, <2>4, <2>5
<1>2. CASE pulse_begin
  <2>1. UNCHANGED <<info, remaining_messages, time_left, inbox, replies, late>> /\ at = "loop"
    BY <1>0, <1>2 DEF pulse_begin
  <2>2. CASE tv # 0 /\ time_left < 0
    BY <1>0, <1>2, <2>1, <2>2
       DEF pulse_begin, pcp_test_server_stop, info, TypeS, Countdown, LateOnce
  <2>3. CASE ~(tv # 0 /\ time_left < 0)
    <3>1. at' = "select"
      BY <1>0, <1>2, <2>3 DEF pulse_begin
    <3>2. late = 0
      BY <1>0, <2>3 DEF LateOnce
    <3> QED
      BY <1>0, <2>1, <3>1, <3>2 DEF info, TypeS, Countdown, LateOnce
  <2> QED
    BY <2>2, <2>3
<1>3. CASE pulse_request
  BY <1>0, <1>3, RequestInv
<1>4. CASE pulse_timeout
  <2>1. UNCHANGED <<info, remaining_messages, time_left, inbox, replies, late>> /\ at = "select"
    BY <1>0, <1>4 DEF pulse_timeout
  <2>2. at' \in {"loop", "done"}
    BY <1>0, <1>4 DEF pulse_timeout, pcp_test_server_stop
  <2> QED
    BY <1>0, <2>1, <2>2 DEF info, TypeS, Countdown, LateOnce
<1>5. CASE pulse_error
  BY <1>0, <1>5 DEF pulse_error, pcp_test_server_stop, info, TypeS, Countdown, LateOnce
<1>6. CASE Arrive
  BY <1>0, <1>6 DEF Arrive, info, TypeS, Countdown, LateOnce
<1>7. CASE Clock
  BY <1>0, <1>7 DEF Clock, info, TypeS, Countdown, LateOnce
<1>8. CASE UNCHANGED servervars
  BY <1>0, <1>8 DEF servervars, TypeS, Countdown, LateOnce
<1> QED
  BY <1>1, <1>2, <1>3, <1>4, <1>5, <1>6, <1>7, <1>8 DEF ServerNext, Serve

LEMMA ServerInvHolds == ServerSpec => []ServerInv
<1>1. ServerInit => ServerInv
  BY InitServer
<1>2. ServerInv /\ [ServerNext]_servervars => ServerInv'
  BY NextServer
<1> QED
  BY <1>1, <1>2, PTL DEF ServerSpec

\* Whatever limits pcp_test_server_start is given and however many requests wait,
\* the server answers as many as it was told at most, stops with the last of them,
\* and answers one at most after its time is over.
THEOREM LimitsHold == ServerSpec => []LimitsAreKept
<1>1. ServerInv => LimitsAreKept
  <2> SUFFICES ASSUME ServerInv PROVE LimitsAreKept
    OBVIOUS
  <2>1. end_after_recv # 0 => replies <= end_after_recv
    BY DEF ServerInv, Countdown
  <2>2. replies = end_after_recv /\ replies > 0 => at = "done"
    BY DEF ServerInv, TypeS, Countdown
  <2>3. at = "done" => ~running
    BY Zenon DEF ServerInv, Runs
  <2>4. late <= 1
    BY DEF ServerInv, LateOnce
  <2> QED
    BY <2>1, <2>2, <2>3, <2>4, Zenon DEF LimitsAreKept, AnswersAtMost
<1> QED
  BY <1>1, ServerInvHolds, PTL
=============================================================================
