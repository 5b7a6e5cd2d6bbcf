----------------------------- MODULE TestServer -----------------------------
(***************************************************************************)
(* The life of the test server of test-server/pcp-server.c: execPCPServer  *)
(* calls pcp_test_server_pulse until the number of requests or the time it *)
(* was given is used up.  What it answers is TestReply's.                  *)
(***************************************************************************)
EXTENDS Integers

CONSTANTS MaxEnd,       \* bound on end_after_recv; 0 is no limit
          MaxTime,      \* bound on server_info.tv; 0 is no limit
          MaxInbox      \* bound: requests in the socket

ASSUME ServerBounds == MaxEnd \in Nat /\ MaxTime \in Nat /\ MaxInbox \in Nat

VARIABLES end_after_recv, tv,   \* server_info
          running,              \* server->running
          sockfd,               \* whether sockfd is open
          remaining_messages,
          time_left,            \* time until timeout_time; -1 once it is over
          at,                   \* "loop" between pulses, "select" in one, "done"
          inbox,                \* requests that have arrived
          replies, late         \* answers sent, and sent after timeout_time

servervars == <<end_after_recv, tv, running, sockfd, remaining_messages, time_left, at,
                inbox, replies, late>>
info == <<end_after_recv, tv>>

\* bound: answers are counted as far as they are told apart
Count(n, most) == IF n < most THEN n + 1 ELSE most

\* pcp_test_server_start.
pcp_test_server_start ==
    /\ at = "done"
    /\ end_after_recv' \in 0..MaxEnd /\ tv' \in 0..MaxTime
    /\ running' = TRUE /\ sockfd' = TRUE /\ at' = "loop"
    /\ remaining_messages' = IF end_after_recv' = 0 THEN -1 ELSE end_after_recv'
    /\ time_left' = tv' /\ inbox' = 0 /\ replies' = 0 /\ late' = 0

\* pcp_test_server_stop, and execPCPServer leaves its loop.
pcp_test_server_stop == running' = FALSE /\ sockfd' = FALSE /\ at' = "done"

\* The pulse looks at the clock before it waits.
pulse_begin ==
    /\ at = "loop"
    /\ IF tv # 0 /\ time_left < 0 THEN pcp_test_server_stop
       ELSE at' = "select" /\ UNCHANGED <<running, sockfd>>
    /\ UNCHANGED <<info, remaining_messages, time_left, inbox, replies, late>>

\* Mutant: the next request is served without looking at the clock again.
pulse_request_greedy ==
    /\ at = "select" /\ inbox > 0
    /\ inbox' = inbox - 1 /\ replies' = Count(replies, MaxEnd + 1)
    /\ late' = IF tv # 0 /\ time_left < 0 THEN Count(late, 2) ELSE late
    /\ remaining_messages' = IF remaining_messages > 0 THEN remaining_messages - 1
                             ELSE remaining_messages
    /\ IF remaining_messages > 0 /\ remaining_messages' = 0 THEN pcp_test_server_stop
       ELSE at' = (IF inbox > 1 THEN "select" ELSE "loop") /\ UNCHANGED <<running, sockfd>>
    /\ UNCHANGED <<info, time_left>>

\* select finds a request: it is answered and counted.
pulse_request ==
    /\ at = "select" /\ inbox > 0
    /\ inbox' = inbox - 1 /\ replies' = Count(replies, MaxEnd + 1)
    /\ late' = IF tv # 0 /\ time_left < 0 THEN Count(late, 2) ELSE late
    /\ remaining_messages' = IF remaining_messages > 0 THEN remaining_messages - 1
                             ELSE remaining_messages
    /\ IF remaining_messages > 0 /\ remaining_messages' = 0 THEN pcp_test_server_stop
       ELSE at' = "loop" /\ UNCHANGED <<running, sockfd>>
    /\ UNCHANGED <<info, time_left>>

\* select ends with nothing to read: the server stops if its time is over.
pulse_timeout ==
    /\ at = "select" /\ inbox = 0
    /\ IF tv # 0 /\ time_left <= 0 THEN pcp_test_server_stop
       ELSE at' = "loop" /\ UNCHANGED <<running, sockfd>>
    /\ UNCHANGED <<info, remaining_messages, time_left, inbox, replies, late>>

\* select or recvfrom fails: execPCPServer stops the server.
pulse_error ==
    /\ at = "select"
    /\ pcp_test_server_stop
    /\ UNCHANGED <<info, remaining_messages, time_left, inbox, replies, late>>

Arrive == /\ inbox < MaxInbox /\ at # "done"
          /\ inbox' = inbox + 1
          /\ UNCHANGED <<info, running, sockfd, remaining_messages, time_left, at, replies, late>>

Clock == /\ time_left >= 0 /\ at # "done"
         /\ time_left' = time_left - 1
         /\ UNCHANGED <<info, running, sockfd, remaining_messages, at, inbox, replies, late>>

Serve == pulse_begin \/ pulse_request \/ pulse_timeout

ServerInit == /\ end_after_recv = 0 /\ tv = 0 /\ running = FALSE /\ sockfd = FALSE
              /\ at = "done" /\ remaining_messages = 0
              /\ time_left = -1 /\ inbox = 0 /\ replies = 0 /\ late = 0

ServerNext == pcp_test_server_start \/ Serve \/ pulse_error \/ Arrive \/ Clock

ServerSpec == ServerInit /\ [][ServerNext]_servervars

\* execPCPServer keeps pulsing and the clock moves; nothing makes a call fail.
ServerFairness == WF_servervars(Serve) /\ WF_servervars(Clock)

-----------------------------------------------------------------------------
\* end_after_recv is the number of requests that are answered, never more.
AnswersAtMost == /\ end_after_recv # 0 => replies <= end_after_recv
                 /\ replies = end_after_recv /\ replies > 0 => ~running

\* Both limits hold at once, although they are looked at in different places of
\* a pulse: however many requests queue up, only the pulse that was already
\* waiting answers one after the time is over.
LimitsAreKept == AnswersAtMost /\ late <= 1

\* A server with a time limit ends, even if requests keep coming.
ServerEnds == (tv # 0 /\ running) ~> ~running
=============================================================================
