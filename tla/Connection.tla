----------------------------- MODULE Connection -----------------------------
(***************************************************************************)
(* One client connection of the Elysian HTTP server: the scheduler task    *)
(* that carries it (scheduler.c) and the HTTP state machine that runs in   *)
(* the task (elysian.c).                                                   *)
(*                                                                         *)
(* The server is single threaded.  The scheduler visits every task in a    *)
(* pass (POLL, TIMER1, TIMER2, queued output), then waits for socket       *)
(* events, then advances the clocks.  `pass' is the place in that cycle,   *)
(* `ev' the event being handled: a handler is one action, and a change of  *)
(* state requested by a handler is carried out by Settle before the        *)
(* scheduler goes on.  The other clients of the server are part of the     *)
(* environment: they exhaust memory (any allocation may fail), and make    *)
(* the scheduler abort this task when everybody starves.                   *)
(***************************************************************************)
EXTENDS Integers, Sequences

CONSTANTS
    Infinite,     \* ELYSIAN_TIME_INFINITE
    Timeout,      \* the state timeouts (4000 to 10000 ms), in ticks; a poll backoff is 1 tick
    MaxTx,        \* cbufs the memory cap lets a task queue for output
    MaxIn,        \* input units buffered for the connection
    MaxHeader,    \* input units in 1024 bytes, the longest header block
    BufUnits,     \* ELYSIAN_HTTP_RESPONSE_BODY_BUF_SZ_MAX in response units
    MaxBody,      \* longest response body, in response units (a status page has one)
    Heads         \* the request heads a peer may send

Requests == {"get", "head", "post", "chunked", "expect", "upgrade"}

ASSUME InfiniteAssumption == Infinite \notin Nat
ASSUME TimeoutAssumption  == Timeout \in Nat \ {0, 1}
ASSUME BoundsAssumption   == /\ MaxTx \in Nat \ {0}
                             /\ MaxIn \in Nat \ {0}
                             /\ MaxHeader \in Nat
                             /\ BufUnits \in Nat \ {0, 1}
                             /\ MaxBody \in Nat \ {0}
ASSUME HeadsAssumption    == Heads \subseteq Requests

VARIABLES
    pass,     \* what the scheduler does next with this task
    ev,       \* the event being handled, "settle" after a state change, or "none"
    task,     \* elysian_schdlr_task_t
    client,   \* elysian_client_t
    halted,   \* "no", or the ELYSIAN_ASSERT that stopped the server
    seen      \* ghost: what happened to the request being served

vars == <<pass, ev, task, client, halted, seen>>

-----------------------------------------------------------------------------
(* Names                                                                   *)

Passes == {"poll", "timer1", "timer2", "tx", "finish", "sockets", "time"}
Events == {"ENTRY", "READ", "POLL", "SENT", "TIMER1", "TIMER2", "ABORT"}

\* States entered and left inside one event: only their ENTRY does anything.
Transient == {"connection_accepted", "headers_receive", "body_receive",
              "fatal_error_entry", "response_entry"}

\* States that work on POLL, back off when out of memory, and give up on TIMER1.
Working == {"headers_parse", "expect_reply", "authenticate", "params_get",
            "mvc_pre_configuration", "prepare_http_response",
            "mvc_post_configuration", "build_http_response", "response_send"}

HttpStates == Transient \cup Working \cup {"request_store", "keepalive", "http_disconnect"}

\* "NULL": the handler asked to quit; "absent": no task, the slot is free.
States == HttpStates \cup {"websocket", "NULL", "absent"}

Live == HttpStates \cup {"websocket"}

Statuses == {"NA", "101", "200", "206", "302", "400", "401", "404", "405", "413", "500"}

\* Memory the client owns through its pointers.
Pointers == {"url", "params", "mvc", "resource", "cbuf"}

\* What a queued cbuf holds.  "empty": a cbuf shrunk to length zero.
Output == {"interim", "data", "empty", "frame"}

\* "unlinked": the name is kept, but the file is off the list of the RAM file system.
FileStates == {"none", "write", "closed", "read", "unlinked"}

NoWebsocket == [def |-> FALSE, disconnecting |-> FALSE, ping |-> FALSE, pong |-> FALSE]

NothingSeen == [interims |-> 0, heads |-> 0, controlled |-> 0,
                registered |-> FALSE, served |-> 0]

\* The body units the framing of the request announces; a chunked body is
\* one chunk and the last-chunk line.
BodyLen(req) == CASE req = "post"    -> 1
                  [] req = "chunked" -> 2
                  [] OTHER           -> 0

\* What arrives on the socket: request heads, anything else, and body data: where no
\* request has a body, data is just anything else.
Units == Heads \cup {"junk"} \cup {u \in {"body"} : \E req \in Heads : BodyLen(req) > 0}

Least(a, b) == IF a < b THEN a ELSE b

-----------------------------------------------------------------------------
(* The scheduler's task structure                                          *)

Goto(t, s)      == [t EXCEPT !.new_state = s]
PollEnable(t)   == [t EXCEPT !.poll = 0]
PollDisable(t)  == [t EXCEPT !.poll = Infinite]
PollBackoff(t)  == [t EXCEPT !.poll = 1]
Timer1Set(t)    == [t EXCEPT !.timer1 = Timeout]
Priority(t, p)  == [t EXCEPT !.priority = p]
SocketWrite(t, o) == [t EXCEPT !.queue = Append(@, o),
                               !.network_tx = IF t.queue = <<>> THEN 0 ELSE @]

\* time_advance: every running clock loses d ticks, saturating at 0.
Passed(delta, d) == IF delta = Infinite THEN Infinite
                    ELSE IF delta > d THEN delta - d ELSE 0
TimeAdvance(t, d) == [t EXCEPT !.poll = Passed(@, d), !.timer1 = Passed(@, d),
                               !.timer2 = Passed(@, d), !.network_tx = Passed(@, d)]

FreshTask == [state |-> "connection_accepted", new_state |-> "connection_accepted",
              poll |-> Infinite, timer1 |-> Infinite, timer2 |-> Infinite,
              network_tx |-> Infinite, priority |-> "normal",
              rx |-> <<>>, queue |-> <<>>, passively_closed |-> FALSE]

NoTask == [FreshTask EXCEPT !.state = "absent", !.new_state = "absent"]

\* elysian_client_t as it comes from malloc: method and connection type of the
\* request are not initialised, so they hold whatever the memory held before.
Malloced(head, upgrade) ==
    [rcv |-> <<>>, store |-> FALSE, isp |-> "headers", isp_done |-> FALSE, got |-> 0,
     request |-> "none", head |-> head, upgrade |-> upgrade, expect |-> "NA",
     pipelining |-> FALSE, headers_file |-> "none", body_file |-> "none",
     current |-> "NA", fatal |-> "NA", attempts |-> 0,
     status |-> "NA", connection |-> "close", chunked |-> FALSE, onservice |-> FALSE,
     owned |-> {}, total |-> 0, sent |-> 0, index |-> 0, source |-> 0,
     websocket |-> NoWebsocket]

\* Clients compare equal once freed.
NoClient == Malloced(FALSE, FALSE)

-----------------------------------------------------------------------------
(* Throwing and settling events                                            *)

\* The scheduler throws e; the handler runs before anything else happens.
Throw(e) == ev' = e

\* A handler is running for event e in state s.
On(s, e) == halted = "no" /\ task.state = s /\ ev = e

\* The handler returns: if it asked for another state, Settle goes there.
Return == /\ ev' = IF task'.state = task'.new_state THEN "none" ELSE "settle"
          /\ UNCHANGED <<pass, halted>>

Hang(assertion) == halted' = assertion /\ UNCHANGED <<pass, ev, task, client, seen>>

\* The loop of elysian_schdlr_throw_event: enter new_state with its clocks off,
\* and throw ENTRY; for NULL free the buffers, the socket and the client.
Settle ==
    /\ halted = "no" /\ ev = "settle"
    /\ task' = [task EXCEPT !.state = task.new_state, !.priority = "normal",
                  !.poll = Infinite, !.timer1 = Infinite, !.timer2 = Infinite,
                  !.rx    = IF task.new_state = "NULL" THEN <<>> ELSE @,
                  !.queue = IF task.new_state = "NULL" THEN <<>> ELSE @]
    /\ Throw(IF task.new_state = "NULL" THEN "none" ELSE "ENTRY")
    /\ UNCHANGED <<pass, client, halted, seen>>

\* The events each state handles; the default branch of the others is ELYSIAN_ASSERT(0).
Handles(s) ==
    CASE s = "connection_accepted" -> {"ENTRY"}
      [] s \in {"headers_receive", "body_receive"} -> {"ENTRY", "READ", "TIMER1", "ABORT"}
      [] s \in {"expect_reply", "response_send"} ->
             {"ENTRY", "READ", "POLL", "SENT", "TIMER1", "ABORT"}
      [] s = "websocket" -> Events
      [] OTHER -> {"ENTRY", "READ", "POLL", "TIMER1", "ABORT"}

UnexpectedEvent ==
    /\ halted = "no" /\ ev \in Events /\ task.state \in Live
    /\ ev \notin Handles(task.state)
    /\ Hang("unexpected event")

\* READ in every state that does not want input: the data stays in the task.
IgnoreRead ==
    /\ halted = "no" /\ ev = "READ"
    /\ task.state \in HttpStates \ {"connection_accepted", "request_store"}
    /\ UNCHANGED <<task, client, seen>>
    /\ Return

\* TIMER1 and ABORT in every HTTP state but connection_accepted and http_disconnect.
GiveUp ==
    /\ halted = "no" /\ ev \in {"TIMER1", "ABORT"}
    /\ task.state \in HttpStates \ {"connection_accepted", "http_disconnect"}
    /\ task' = Goto(task, "http_disconnect")
    /\ UNCHANGED <<client, seen>>
    /\ Return

-----------------------------------------------------------------------------
(* Receiving and storing a request                                         *)

ConnectionAccepted ==
    /\ On("connection_accepted", "ENTRY")
    /\ client' = [client EXCEPT !.rcv = <<>>, !.store = FALSE, !.owned = {},
                    !.headers_file = "none", !.body_file = "none",
                    !.websocket = NoWebsocket]
    /\ task' = Goto(task, "headers_receive")
    /\ UNCHANGED seen
    /\ Return

\* A new input stream processor.
IspStart(c, isp) == [c EXCEPT !.isp = isp, !.isp_done = FALSE, !.got = 0]

\* What the next request must not inherit from the last one.
\* Mutant: the handler registered for the last request is kept.
NewRequestKeepsOnservice(c) == [c EXCEPT !.pipelining = FALSE, !.current = "NA",
                                         !.fatal = "NA", !.attempts = 0]
NewRequest(c) == [c EXCEPT !.pipelining = FALSE, !.current = "NA", !.fatal = "NA",
                           !.attempts = 0, !.onservice = FALSE]

HeadersReceive ==
    /\ On("headers_receive", "ENTRY")
    /\ IF client.store THEN Hang("store list not empty") ELSE
         /\ client' = IspStart(NewRequest(client), "headers")
         /\ task' = Goto(Priority(Timer1Set(task), "low"), "request_store")
         /\ seen' = NothingSeen
         /\ Return

BodyReceive ==
    /\ On("body_receive", "ENTRY")
    /\ IF client.store THEN Hang("store list not empty") ELSE
         /\ client' = IspStart(client, "body")
         /\ task' = Goto(Priority(Timer1Set(task), "low"), "request_store")
         /\ UNCHANGED seen
         /\ Return

\* Move what the scheduler received into the client, and ask for a POLL.
\* Mutant: the state timer is not set again on entry.
TakeInputTimerOff ==
    /\ client' = [client EXCEPT !.rcv = @ \o task.rx]
    /\ task' = PollEnable([task EXCEPT !.rx = <<>>, !.priority = "low"])

TakeInput ==
    /\ client' = [client EXCEPT !.rcv = @ \o task.rx]
    /\ task' = PollEnable([task EXCEPT !.rx = <<>>, !.timer1 = Timeout,
                             !.priority = IF ev = "ENTRY" THEN "low" ELSE @])

RequestStoreEntry ==
    /\ On("request_store", "ENTRY")
    /\ IF client.store THEN Hang("store list not empty") ELSE
         /\ TakeInput
         /\ UNCHANGED seen
         /\ Return

RequestStoreRead ==
    /\ On("request_store", "READ")
    /\ TakeInput
    /\ UNCHANGED seen
    /\ Return

\* elysian_isp_http_headers: everything up to the end of the first head is the
\* header block; bytes before the head make the request line unreadable.
HeadersIsp(c) ==
    LET ends  == {i \in DOMAIN c.rcv : c.rcv[i] \in Heads}
        first == {i \in ends : \A j \in ends : i <= j}
    IN  IF c.isp_done THEN {[err |-> "OK", client |-> c]}
        ELSE IF ends = {}
        THEN IF Len(c.rcv) > MaxHeader
             THEN {[err |-> "FATAL", client |-> [c EXCEPT !.current = "413"]]}
             ELSE {[err |-> "READ", client |-> c]}
        ELSE {[err |-> "POLL", client |-> c]} \cup
             {[err |-> "OK", client |->
                 [c EXCEPT !.isp_done = TRUE, !.store = TRUE,
                           !.rcv = SubSeq(@, end + 1, Len(@)),
                           !.request = IF end = 1 THEN c.rcv[1] ELSE "garbled"]] : end \in first}

\* What the body processors take: what is there, within the length of the body.
BodyTaken(c) == Least(BodyLen(c.request) - c.got, Len(c.rcv))

\* The body processors: take input until the body is whole.
\* A chunked body that is not a chunk is refused.
BodyIsp(c) ==
    LET n    == BodyTaken(c)
        next == [c EXCEPT !.got = @ + n, !.store = @ \/ n > 0,
                          !.rcv = SubSeq(@, n + 1, Len(@)),
                          !.isp_done = c.got + n = BodyLen(c.request)]
    IN  IF c.request = "chunked" /\ \E i \in 1..n : c.rcv[i] # "body"
        THEN {[err |-> "FATAL", client |-> c]}
        ELSE {[err |-> IF next.isp_done THEN "OK" ELSE "READ", client |-> next]}
             \cup IF n > 0 THEN {[err |-> "POLL", client |-> c]} ELSE {}

Isp(c) == IF c.isp = "headers" THEN HeadersIsp(c) ELSE BodyIsp(c)

\* elysian_store_cbuf_to_file: open for writing, write the store list, and once
\* the processor has delivered everything close and reopen for reading.  Headers
\* go to the RAM file system, where only memory can be short; a body may go to
\* an external device, where any call may be refused or fail.
StoreToFile(c) ==
    LET headers    == c.isp = "headers"
        file       == IF headers THEN c.headers_file ELSE c.body_file
        With(s)    == IF headers THEN [c EXCEPT !.headers_file = s]
                                 ELSE [c EXCEPT !.body_file = s]
        Result(e, s) == [err |-> e, client |-> With(s)]
        Failed(s)  == {Result("POLL", s)} \cup IF headers THEN {} ELSE {Result("FATAL", s)}
        stored     == [With("read") EXCEPT !.store = FALSE]
        emptied(s) == [With(s) EXCEPT !.store = FALSE]
        reopened   == {[err |-> "OK", client |-> stored]} \cup
                      IF headers THEN {}
                      ELSE {[err |-> e, client |-> emptied("closed")] : e \in {"POLL", "FATAL"}}
        written    == IF c.isp_done THEN reopened
                      ELSE {[err |-> "READ", client |-> emptied("write")]}
        write      == written \cup IF c.store THEN Failed("write") ELSE {}
    IN  CASE file = "none"   -> Failed("none") \cup write
          [] file = "write"  -> write
          [] file = "closed" -> reopened
          [] OTHER           -> {}

RequestStorePoll ==
    /\ On("request_store", "POLL")
    /\ \E i \in Isp(client) :
         \/ /\ i.err = "FATAL"
            /\ client' = i.client
            /\ task' = Goto(task, "fatal_error_entry")
         \/ /\ i.err # "FATAL"
            /\ \E s \in StoreToFile(i.client) :
                 /\ client' = s.client
                 /\ task' = CASE s.err = "OK" ->
                                   Goto(task, IF client.isp = "headers" THEN "headers_parse"
                                                                        ELSE "authenticate")
                              [] s.err = "FATAL" -> Goto(task, "fatal_error_entry")
                              [] s.err = "POLL" \/ (s.err = "READ" /\ i.err = "POLL") ->
                                   PollBackoff(task)
                              [] OTHER -> PollDisable(task)
    /\ UNCHANGED seen
    /\ Return

\* Where an external device may fail, it may also answer what the state does not expect.
StoreResultUnknown ==
    /\ On("request_store", "POLL")
    /\ \E i \in Isp(client) : /\ i.err # "FATAL"
                              /\ \E s \in StoreToFile(i.client) : s.err = "FATAL"
    /\ Hang("store result unknown")

-----------------------------------------------------------------------------
(* Working states: ENTRY arms the timer and the poll                       *)

EnterWorking ==
    /\ halted = "no" /\ ev = "ENTRY" /\ task.state \in Working
    /\ IF task.state = "build_http_response" /\ "cbuf" \in client.owned
       THEN Hang("response buffer not empty")
       ELSE /\ task' = PollEnable(Timer1Set(IF task.state = "response_send"
                                            THEN Priority(task, "high") ELSE task))
            /\ client' = CASE task.state = "authenticate"  -> [client EXCEPT !.pipelining = TRUE]
                           [] task.state = "response_send" -> [client EXCEPT !.sent = 0]
                           [] OTHER -> client
            /\ UNCHANGED seen
            /\ Return

\* A working state is short of a resource: wait a little and try again.
\* Mutant: every retry renews the state timer.
TryLaterRenewed == task' = PollBackoff(Timer1Set(task))
TryLater == task' = PollBackoff(task)

\* elysian_http_request_headers_parse.  When it fails the method and the url are
\* dropped; what it found of an expectation stays.
ParseFailed(c) == [c EXCEPT !.head = FALSE,
                            !.expect = IF c.request = "expect" THEN "100" ELSE "NA"]
ParseDone(c)   == [ParseFailed(c) EXCEPT !.owned = @ \cup {"url"}, !.head = c.request = "head",
                                         !.upgrade = c.request = "upgrade"]

\* The status a refused request is given: only GET and HEAD need no controller.
RefusedStatus(c) == {"NA", "400", "413"} \cup IF c.request \in {"get", "head", "upgrade"}
                                              THEN {} ELSE {"405"}

\* A fatal error answers an expectation with 417 instead.
HeadersParse ==
    /\ On("headers_parse", "POLL")
    /\ LET expect == client.request = "expect"
       IN  \/ /\ client.request \in Requests
              /\ client' = ParseDone(client)
              /\ task' = Goto(task, IF expect THEN "expect_reply" ELSE "body_receive")
           \/ /\ client' = ParseFailed(client)
              /\ TryLater
           \/ /\ \E code \in RefusedStatus(client) :
                    client' = [ParseFailed(client) EXCEPT !.fatal = code,
                                   !.expect = IF expect THEN "417" ELSE @]
              /\ task' = Goto(task, IF expect THEN "expect_reply" ELSE "fatal_error_entry")
    /\ UNCHANGED seen
    /\ Return

\* Mutant: the body is received without waiting until the answer is sent.
ExpectReplyPollUnwaited ==
    /\ On("expect_reply", "POLL")
    /\ \/ TryLater /\ UNCHANGED seen
       \/ /\ Len(task.queue) < MaxTx
          /\ task' = Goto(SocketWrite(task, "interim"), "body_receive")
          /\ seen' = [seen EXCEPT !.interims = @ + 1]
    /\ UNCHANGED client
    /\ Return

ExpectReplyPoll ==
    /\ On("expect_reply", "POLL")
    /\ \/ TryLater /\ UNCHANGED seen
       \/ /\ Len(task.queue) < MaxTx
          /\ task' = SocketWrite(task, "interim")
          /\ seen' = [seen EXCEPT !.interims = @ + 1]
    /\ UNCHANGED client
    /\ Return

ExpectReplySent ==
    /\ On("expect_reply", "SENT")
    /\ task' = Goto(task, IF client.expect = "100" THEN "body_receive" ELSE "http_disconnect")
    /\ UNCHANGED <<client, seen>>
    /\ Return

Authenticate ==
    /\ On("authenticate", "POLL")
    /\ \/ task' = Goto(task, "params_get") /\ UNCHANGED client
       \/ task' = Goto(task, "response_entry") /\ client' = [client EXCEPT !.current = "401"]
       \/ TryLater /\ UNCHANGED client
       \/ task' = Goto(task, "fatal_error_entry") /\ UNCHANGED client
    /\ UNCHANGED seen
    /\ Return

\* elysian_http_request_get_params: from the url, or from the body of the request.
ParamsParsed(c) == [c EXCEPT !.owned = @ \cup {"params"}]

ParamsGet ==
    /\ On("params_get", "POLL")
    /\ IF "params" \in client.owned THEN Hang("parameters not empty")
       ELSE IF {client.headers_file, client.body_file} # {"read"}
       THEN Hang("request file not open")
       ELSE /\ \/ /\ client' = ParamsParsed(client)
                  /\ task' = Goto(task, "response_entry")
               \/ TryLater /\ UNCHANGED client
               \/ task' = Goto(task, "fatal_error_entry") /\ UNCHANGED client
            /\ UNCHANGED seen
            /\ Return

-----------------------------------------------------------------------------
(* Preparing a response                                                    *)

\* Nothing better is known of the failure: an internal server error.
\* Mutant: the generic status is forgotten.
FatalStatusForgotten(c) == c.fatal
FatalStatus(c) == IF c.fatal = "NA" THEN "500" ELSE c.fatal

FatalErrorEntry ==
    /\ On("fatal_error_entry", "ENTRY")
    /\ client' = [client EXCEPT !.current = FatalStatus(client), !.fatal = "NA"]
    /\ task' = Goto(task, "response_entry")
    /\ UNCHANGED seen
    /\ Return

\* At most two attempts, and none after a 500.
AttemptsLeft(c) == c.attempts < 2

ResponseEntry ==
    /\ On("response_entry", "ENTRY")
    /\ IF "resource" \in client.owned THEN Hang("resource still open") ELSE
         /\ \/ /\ ~AttemptsLeft(client)
               /\ task' = Goto(task, "http_disconnect")
               /\ UNCHANGED client
            \/ /\ AttemptsLeft(client)
               /\ task' = Goto(task, "mvc_pre_configuration")
               /\ client' = [client EXCEPT !.attempts = IF client.current = "500" THEN 2 ELSE @ + 1]
         /\ UNCHANGED seen
         /\ Return

\* The page is the application's, not the status page or a websocket handshake.
AppPage(c) == c.current = "NA" /\ ~c.upgrade

\* What a page sets up: the parameters it needs no more are released.
Page(c, status, connection, chunked, freed) ==
    [c EXCEPT !.owned = (@ \ freed) \cup {"mvc"}, !.status = status,
              !.connection = connection, !.chunked = chunked]

\* elysian_websockets_controller: the service may be unknown, or the version wrong.
Handshake(c) ==
    {Page(c, "101", "upgrade", FALSE, {"params"})}
    \cup {Page(c, status, "keepalive", FALSE, {"params"}) : status \in {"404", "400"}}

\* elysian_mvc_pre_configure when it succeeds: the status page, the websocket
\* controller, the default page (no controller) and an application controller.
Configured(c) ==
    IF c.current # "NA" THEN {Page(c, c.current, "keepalive", FALSE, {"params"})}
    ELSE IF c.upgrade THEN Handshake(c)
    ELSE {Page(c, status, "keepalive", FALSE, {}) : status \in {"200", "206"}}

Controlled(c) ==
    {Page(c, status, "keepalive", FALSE, {"params"}) : status \in {"200", "206", "302"}}
    \cup {Page(c, status, "keepalive", TRUE, {"params"}) : status \in {"200", "302"}}

\* A controller may register an onservice handler whatever it returns.
MvcPreConfigure ==
    LET cleared == [client EXCEPT !.owned = @ \ {"mvc"}, !.connection = "keepalive"]
        done    == Goto(task, "prepare_http_response")
    IN  /\ On("mvc_pre_configuration", "POLL")
        /\ \/ client' \in Configured(cleared) /\ task' = done /\ UNCHANGED seen
           \/ /\ AppPage(client)
              /\ \E registers \in BOOLEAN :
                   /\ client' \in Controlled([cleared EXCEPT !.onservice = @ \/ registers])
                   /\ seen' = [seen EXCEPT !.controlled = @ + 1,
                                           !.registered = @ \/ registers]
              /\ task' = done
           \/ /\ \E registers \in {FALSE, AppPage(client)} :
                   /\ client' = [cleared EXCEPT !.onservice = @ \/ registers]
                   /\ seen' = [seen EXCEPT !.registered = @ \/ registers]
              /\ \/ TryLater
                 \/ client.current = "NA" /\ task' = Goto(task, "fatal_error_entry")
        /\ Return

\* The status of a second attempt, when the page of the first is missing.
\* Mutant: the second attempt repeats the first.
MissingStatusUnset(c) == c.current
MissingStatus(c) == IF c.status \in {"200", "206"} THEN "404" ELSE "500"

\* elysian_resource_open.  A refusal other than "not found" or "no memory" is an
\* assertion of the resource layer; only an application page can be missing.
PrepareHttpResponse ==
    /\ On("prepare_http_response", "POLL")
    /\ \/ /\ \/ /\ client' = [client EXCEPT !.owned = @ \cup {"resource"}]
                /\ task' = Goto(task, "mvc_post_configuration")
             \/ TryLater /\ UNCHANGED client
             \/ /\ AppPage(client)
                /\ client' = [client EXCEPT !.current = MissingStatus(client)]
                /\ task' = Goto(task, "response_entry")
          /\ UNCHANGED seen
          /\ Return
       \/ AppPage(client) /\ Hang("resource open failed")

\* Mutant: the resource is not closed.
ResourceStaysOpen(c) == c
ResourceClose(c) == [c EXCEPT !.owned = @ \ {"resource"}]

\* body_size is (uint32_t) -1 until the end of a chunked resource is read.
Unknown == Infinite

\* The size of the resource, or the part of it a range request asks for.
Lengths(c) == IF AppPage(c) THEN 0..MaxBody
              ELSE IF c.current = "NA" THEN {0} ELSE {n \in 0..MaxBody : n > 0}

MvcPostConfigure ==
    /\ On("mvc_post_configuration", "POLL")
    /\ \/ /\ \E n \in Lengths(client) :
               client' = [client EXCEPT !.total = IF client.chunked THEN Unknown ELSE n,
                                        !.source = n]
          /\ task' = Goto(task, "build_http_response")
       \/ /\ AppPage(client) /\ ~client.chunked
          /\ \E code \in {"NA"} \cup (IF client.status = "206" THEN {"400"} ELSE {}) :
               client' = [ResourceClose(client) EXCEPT !.fatal = code]
          /\ task' = Goto(task, "fatal_error_entry")
    /\ UNCHANGED seen
    /\ Return

\* The response head is one unit, at the start of the first buffer.
Header == 1

\* elysian_http_response_build: a buffer with the status line and the header lines.
HeaderBuilt(c) == [c EXCEPT !.owned = @ \cup {"cbuf"}, !.index = Header]

BuildHttpResponse ==
    /\ On("build_http_response", "POLL")
    /\ \/ /\ client' = [HeaderBuilt(client) EXCEPT !.total = IF client.head THEN 0 ELSE @]
          /\ task' = Goto(task, "response_send")
       \/ TryLater /\ UNCHANGED client
       \/ /\ client.status = "206"
          /\ client' = [ResourceClose(client) EXCEPT !.owned = @ \ {"cbuf"}]
          /\ task' = Goto(task, "fatal_error_entry")
    /\ UNCHANGED seen
    /\ Return

-----------------------------------------------------------------------------
(* Sending the response                                                    *)

\* A queued buffer belongs to the scheduler.
\* Mutant: the client keeps its pointer to the buffer it queued.
HandOverKept(c) == c
HandOver(c) == [c EXCEPT !.owned = @ \ {"cbuf"}]

\* The resource cannot be read any further.
\* Mutant: a failed response lets the connection go on.
ReadFailedKeepsAlive(t) == Goto(t, "keepalive")
ReadFailed(t) == Goto(t, "http_disconnect")

\* The buffer to fill: the one that holds the response head, or a new one.
Fresh(c) == "cbuf" \notin c.owned
Start(c) == IF Fresh(c) THEN 0 ELSE c.index

\* A new buffer is as large as memory allows; the first one may be full with the head.
Rooms(c) == (IF Fresh(c) THEN 1 ELSE 0)..(BufUnits - Start(c))

\* What is asked of the resource for a buffer with this room, and what it gives.
Want(c, room) == IF c.total = Unknown THEN room
                 ELSE Least(Header + c.total - (c.sent + Start(c)), room)
Got(c, room)  == Least(Want(c, room), c.source)

\* The buffer is filled and handed over; a short read ends a chunked response.
Filled(c, room) ==
    LET filled == Start(c) + Got(c, room)
        end    == c.total = Unknown /\ Got(c, room) < Want(c, room)
    IN  [HandOver(c) EXCEPT !.index = filled, !.source = @ - Got(c, room),
                            !.total = IF end THEN c.sent + filled - Header ELSE @]

ResponseSendPoll ==
    LET armed == IF Fresh(client) THEN Timer1Set(task) ELSE task
    IN  /\ On("response_send", "POLL")
        /\ \/ /\ Fresh(client)
              /\ TryLater
              /\ UNCHANGED <<client, seen>>
           \/ /\ AppPage(client) /\ \E room \in Rooms(client) : Want(client, room) > 0
              /\ client' = [client EXCEPT !.owned = @ \cup {"cbuf"}, !.index = Start(client)]
              /\ task' = ReadFailed(armed)
              /\ UNCHANGED seen
           \/ /\ \E room \in Rooms(client) :
                   /\ client' = Filled(client, room)
                   /\ task' = PollDisable(SocketWrite(armed,
                                IF Start(client) + Got(client, room) = 0 THEN "empty" ELSE "data"))
              /\ seen' = [seen EXCEPT !.heads = IF Fresh(client) THEN @ ELSE @ + 1]
        /\ Return

\* Mutant: the length of the response head is forgotten.
CompleteWithoutHeader(c, sent) == c.total # Unknown /\ sent >= c.total
Complete(c, sent) == c.total # Unknown /\ sent = Header + c.total

\* Where a connection goes once its response is sent.
\* Mutant: a request whose body was not read lets the connection go on.
AfterResponseUnread(c) == IF c.upgrade THEN "websocket"
                          ELSE IF c.connection = "keepalive" THEN "keepalive"
                          ELSE "http_disconnect"
AfterResponse(c) == IF c.upgrade THEN "websocket"
                    ELSE IF c.connection = "keepalive" /\ c.pipelining
                    THEN "keepalive" ELSE "http_disconnect"

ResponseSendSent ==
    LET sent == client.sent + client.index
    IN  /\ On("response_send", "SENT")
        /\ client' = [client EXCEPT !.sent = sent]
        /\ task' = IF Complete(client, sent) THEN Goto(task, AfterResponse(client))
                                             ELSE PollEnable(task)
        /\ UNCHANGED seen
        /\ Return

-----------------------------------------------------------------------------
(* Releasing what the request held                                         *)

\* elysian_client_cleanup when the files can be removed.
\* Mutant: an open resource outlives the request.
CleanedButResource(c) == [c EXCEPT !.owned = @ \cap {"resource"}, !.headers_file = "none",
                                   !.body_file = "none"]
Cleaned(c) == [c EXCEPT !.owned = {}, !.headers_file = "none", !.body_file = "none"]

\* When another client has the stored head open (it may be served as a page), the
\* removal is refused, after everything before it was released and the file was taken
\* off the list: the name stays, and the body file is not looked at.
Refused(c) == [c EXCEPT !.owned = {}, !.headers_file = "unlinked"]

\* The connection is over: what was received and the websocket are released too.
\* Mutant: the websocket is not released.
ReleasedButWebsocket(c) == [Cleaned(c) EXCEPT !.rcv = <<>>, !.store = FALSE]
Released(c) == [Cleaned(c) EXCEPT !.rcv = <<>>, !.store = FALSE, !.websocket.def = FALSE]

CallOnservice(c) == seen' = [seen EXCEPT !.served = IF c.onservice THEN @ + 1 ELSE @]

KeepaliveEntry ==
    /\ On("keepalive", "ENTRY")
    /\ task' = PollEnable(Priority(Timer1Set(task), "high"))
    /\ UNCHANGED <<client, seen>>
    /\ Return

KeepalivePoll ==
    /\ On("keepalive", "POLL")
    /\ client.headers_file # "unlinked"
    /\ client' = Cleaned(client)
    /\ CallOnservice(client)
    /\ task' = Goto(Timer1Set(task), "headers_receive")
    /\ Return

\* Mutant: the cleanup is not scheduled.
DisconnectEntryUnpolled ==
    /\ On("http_disconnect", "ENTRY")
    /\ task' = Priority(Timer1Set(task), "high")
    /\ UNCHANGED <<client, seen>>
    /\ Return

DisconnectEntry ==
    /\ On("http_disconnect", "ENTRY")
    /\ task' = PollEnable(Priority(Timer1Set(task), "high"))
    /\ UNCHANGED <<client, seen>>
    /\ Return

DisconnectPoll ==
    /\ On("http_disconnect", "POLL")
    /\ client.headers_file # "unlinked"
    /\ client' = Released(client)
    /\ CallOnservice(client)
    /\ task' = Goto(Timer1Set(task), "NULL")
    /\ Return

Cleaning == halted = "no" /\ ev = "POLL" /\ task.state \in {"keepalive", "http_disconnect"}

\* The cleanup is to be tried again: the state is not left, its poll stays due and the
\* onservice handler is not called.
CleanupRefused ==
    /\ Cleaning /\ client.headers_file = "read"
    /\ client' = Refused(client)
    /\ task' = Timer1Set(task)
    /\ UNCHANGED seen
    /\ Return

\* The second try does not find the file it has to remove.
CleanupRetried ==
    /\ Cleaning /\ client.headers_file = "unlinked"
    /\ Hang("request file missing")

\* TIMER1 and ABORT do not interrupt the cleanup.
DisconnectIgnores ==
    /\ halted = "no" /\ task.state = "http_disconnect" /\ ev \in {"TIMER1", "ABORT"}
    /\ UNCHANGED <<task, client, seen>>
    /\ Return

-----------------------------------------------------------------------------
(* Websocket                                                               *)

WebsocketReceive(t, c) ==
    /\ client' = [c EXCEPT !.rcv = @ \o t.rx]
    /\ task' = PollEnable([t EXCEPT !.rx = <<>>])

\* elysian_websocket_send: short of memory once MaxTx cbufs are queued.
SendFrame(t) == IF Len(t.queue) < MaxTx THEN {SocketWrite(t, "frame")} ELSE {}

\* What an application callback may do: set its timer or not, send a frame or not.
AppCall(t) == {t, Timer1Set(t)} \cup SendFrame(t) \cup SendFrame(Timer1Set(t))

\* Whether the lookup of the url may find a websocket service.
ServiceFound(c) == IF c.current # "NA" THEN BOOLEAN ELSE {c.status \in {"101", "400"}}

\* The connected handler accepts the websocket or refuses it; a service without one
\* is refused with its definition set.
WebsocketEntry ==
    LET entered == [Priority(task, "high") EXCEPT !.timer2 = Timeout]
        flagged == [client EXCEPT !.websocket.ping = TRUE, !.websocket.pong = TRUE]
    IN  /\ On("websocket", "ENTRY")
        /\ \/ /\ "url" \notin client.owned
              /\ Hang("no url to look up")
           \/ /\ "url" \in client.owned
              /\ FALSE \in ServiceFound(client)
              /\ Hang("no websocket service")
           \/ /\ "url" \in client.owned
              /\ TRUE \in ServiceFound(client)
              /\ \/ \E t \in AppCall(entered) :
                      WebsocketReceive(t, [Cleaned(flagged) EXCEPT !.websocket.def = TRUE])
                 \/ /\ task' \in {Goto(t, "http_disconnect") : t \in AppCall(entered)}
                    /\ client' = flagged
                 \/ /\ task' = Goto(entered, "http_disconnect")
                    /\ client' = [flagged EXCEPT !.websocket.def = TRUE]
              /\ UNCHANGED seen
              /\ Return

\* A websocket that was accepted cannot wait for its request to be cleaned up.
WebsocketUncleaned ==
    /\ On("websocket", "ENTRY")
    /\ "url" \in client.owned /\ TRUE \in ServiceFound(client)
    /\ client.headers_file = "read"
    /\ Hang("cleanup refused")

WebsocketRead ==
    /\ On("websocket", "READ")
    /\ WebsocketReceive(task, client)
    /\ UNCHANGED seen
    /\ Return

\* The client once frames were handed to the application, with `left' still unread.
Heard(c, left, disconnecting) ==
    {[c EXCEPT !.rcv = left, !.websocket = w] :
        w \in [def : {c.websocket.def}, disconnecting : disconnecting,
               ping : {c.websocket.ping}, pong : {c.websocket.pong, TRUE}]}

\* elysian_websocket_process_rx: frames are handed to the application; a close frame, or
\* the application's refusal, makes the websocket disconnecting.  An unfinished frame
\* stays in the input, and so does one there is no memory for.
ProcessRx(t, c) ==
    IF c.websocket.disconnecting \/ c.rcv = <<>>
    THEN {[err |-> "OK", task |-> t, client |-> c]}
    ELSE {[err |-> "FATAL", task |-> t, client |-> c]}
         \cup [err : {"POLL"}, task : AppCall(t), client : Heard(c, c.rcv, {FALSE})]
         \cup [err : {"OK"}, task : AppCall(t),
               client : Heard(c, c.rcv, BOOLEAN) \cup Heard(c, <<>>, BOOLEAN)]

\* elysian_websocket_process_tx: send the pending ping; a websocket that is
\* disconnecting is done once nothing is queued.
ProcessTx(r) ==
    LET disconnecting == r.client.websocket.disconnecting
    IN  IF disconnecting
        THEN {[r EXCEPT !.err = IF r.task.queue = <<>> THEN "FATAL" ELSE @]}
        ELSE IF ~r.client.websocket.ping THEN {r}
        ELSE {[r EXCEPT !.err = "POLL"]}
             \cup {[r EXCEPT !.task = t, !.client.websocket.ping = FALSE] : t \in SendFrame(r.task)}

\* elysian_websocket_process: poll_request is not initialised, so it may ask for
\* a poll that nothing needs.
WebsocketPoll ==
    /\ On("websocket", "POLL")
    /\ \E rx \in ProcessRx(task, client) :
         \/ /\ rx.err = "FATAL"
            /\ client' = rx.client
            /\ task' = Goto(rx.task, "http_disconnect")
         \/ /\ rx.err # "FATAL"
            /\ \E tx \in ProcessTx(rx) :
                 /\ client' = tx.client
                 /\ task' \in CASE tx.err = "FATAL" -> {Goto(tx.task, "http_disconnect")}
                                [] tx.err = "POLL"  -> {PollBackoff(tx.task)}
                                [] tx.err = "OK"    -> {PollDisable(tx.task), PollBackoff(tx.task)}
    /\ UNCHANGED seen
    /\ Return

WebsocketSent ==
    /\ On("websocket", "SENT")
    /\ task' = PollEnable(task)
    /\ UNCHANGED <<client, seen>>
    /\ Return

AppTimer ==
    /\ On("websocket", "TIMER1")
    /\ \/ /\ client.websocket.disconnecting
          /\ task' = PollEnable(task)
          /\ UNCHANGED client
       \/ /\ ~client.websocket.disconnecting
          /\ task' \in {PollEnable(t) : t \in AppCall(task)}
          /\ \E refused \in BOOLEAN :
               client' = [client EXCEPT !.websocket.disconnecting = refused]
    /\ UNCHANGED seen
    /\ Return

PingTimer ==
    /\ On("websocket", "TIMER2")
    /\ \/ /\ ~client.websocket.pong
          /\ task' = Goto(task, "http_disconnect")
          /\ UNCHANGED client
       \/ /\ client.websocket.pong /\ client.websocket.disconnecting
          /\ task' = PollEnable(task)
          /\ UNCHANGED client
       \/ /\ client.websocket.pong /\ ~client.websocket.disconnecting
          /\ task' = PollEnable([task EXCEPT !.timer2 = Timeout])
          /\ client' = [client EXCEPT !.websocket.pong = FALSE, !.websocket.ping = TRUE]
    /\ UNCHANGED seen
    /\ Return

WebsocketAbort ==
    /\ On("websocket", "ABORT")
    /\ task' = Goto(task, "http_disconnect")
    /\ UNCHANGED <<client, seen>>
    /\ Return

-----------------------------------------------------------------------------
(* One pass of the scheduler over this task                                *)

\* The scheduler is between events, in place p of its pass.
At(p) == halted = "no" /\ ev = "none" /\ pass = p

PollPhase ==
    /\ At("poll")
    /\ pass' = "timer1"
    /\ Throw(IF task.state \in Live /\ task.poll = 0 THEN "POLL" ELSE "none")
    /\ UNCHANGED <<task, client, halted, seen>>

Timer1Phase ==
    LET expired == task.timer1 = 0
    IN  /\ At("timer1")
        /\ pass' = "timer2"
        /\ task' = IF expired THEN [task EXCEPT !.timer1 = Infinite] ELSE task
        /\ Throw(IF task.state \in Live /\ expired THEN "TIMER1" ELSE "none")
        /\ UNCHANGED <<client, halted, seen>>

Timer2Phase ==
    LET expired == task.timer2 = 0
    IN  /\ At("timer2")
        /\ pass' = "tx"
        /\ task' = IF expired THEN [task EXCEPT !.timer2 = Infinite] ELSE task
        /\ Throw(IF task.state \in Live /\ expired THEN "TIMER2" ELSE "none")
        /\ UNCHANGED <<client, halted, seen>>

TxDue == task.network_tx = 0 /\ task.state \in Live

TxSkip ==
    /\ At("tx") /\ ~TxDue
    /\ pass' = "finish"
    /\ UNCHANGED <<ev, task, client, halted, seen>>

\* Output is due but there is nothing to write, or a cbuf of length zero.
TxNothing == task.queue # <<>> => Head(task.queue) = "empty"

TxAssert ==
    /\ At("tx") /\ TxDue /\ TxNothing
    /\ Hang(IF task.queue = <<>> THEN "tx queue empty" ELSE "zero length write")

\* The socket takes the first cbuf; the last one taken is reported as SENT, and what
\* that handler queues is written in the same visit.
TxWrite ==
    LET last == Len(task.queue) = 1
    IN  /\ At("tx") /\ TxDue
        /\ ~TxNothing /\ ~task.passively_closed
        /\ task' = [task EXCEPT !.queue = Tail(@),
                                !.network_tx = IF last THEN Infinite ELSE 0]
        /\ Throw(IF last THEN "SENT" ELSE "none")
        /\ UNCHANGED <<pass, client, halted, seen>>

\* The socket is full, possibly after taking a part of the first cbuf.
TxBlocked ==
    /\ At("tx") /\ TxDue /\ ~TxNothing /\ ~task.passively_closed
    /\ task' = [task EXCEPT !.network_tx = 1]
    /\ pass' = "finish"
    /\ UNCHANGED <<ev, client, halted, seen>>

TxError ==
    /\ At("tx") /\ TxDue /\ ~TxNothing
    /\ task' = [task EXCEPT !.queue = <<>>]
    /\ Throw("ABORT")
    /\ pass' = "finish"
    /\ UNCHANGED <<client, halted, seen>>

\* The end of the visits: a finished task is removed in the same pass.
Finish ==
    /\ At("finish")
    /\ pass' = "sockets"
    /\ IF task.state = "NULL"
       THEN task' = NoTask /\ client' = NoClient /\ seen' = NothingSeen
       ELSE UNCHANGED <<task, client, seen>>
    /\ UNCHANGED <<ev, halted>>

\* Every polling task is backing off, and this one has the lowest priority.
Starve ==
    /\ At("finish")
    /\ task.state \in Live /\ task.poll # 0
    /\ Throw("ABORT")
    /\ pass' = "sockets"
    /\ UNCHANGED <<task, client, halted, seen>>

Accept ==
    /\ At("sockets") /\ task.state = "absent"
    /\ task' = FreshTask
    /\ \E head, upgrade \in BOOLEAN : client' = Malloced(head, upgrade)
    /\ Throw("ENTRY")
    /\ pass' = "time"
    /\ UNCHANGED <<halted, seen>>

\* The clocks are brought up to date before READ is thrown.
Receive ==
    /\ At("sockets") /\ task.state \in Live /\ ~task.passively_closed
    /\ Len(task.rx) + Len(client.rcv) < MaxIn
    /\ \E u \in Units, d \in 0..Timeout :
         task' = [TimeAdvance(task, d) EXCEPT !.rx = Append(@, u)]
    /\ Throw("READ")
    /\ pass' = "time"
    /\ UNCHANGED <<client, halted, seen>>

PeerCloses ==
    /\ At("sockets") /\ task.state \in Live /\ ~task.passively_closed
    /\ task' = [task EXCEPT !.passively_closed = TRUE]
    /\ Throw("ABORT")
    /\ pass' = "time"
    /\ UNCHANGED <<client, halted, seen>>

NoSocketEvent ==
    /\ At("sockets")
    /\ pass' = "time"
    /\ UNCHANGED <<ev, task, client, halted, seen>>

TimePasses(d) ==
    /\ At("time")
    /\ task' = TimeAdvance(task, d)
    /\ pass' = "poll"
    /\ UNCHANGED <<ev, client, halted, seen>>

Clock == \E d \in 0..Timeout : TimePasses(d)
ClockTicks == \E d \in 1..Timeout : TimePasses(d)

\* A failed assertion spins for ever.
Halted == halted # "no" /\ UNCHANGED vars

-----------------------------------------------------------------------------

RequestHandlers == \/ ConnectionAccepted \/ HeadersReceive \/ BodyReceive
                   \/ RequestStoreEntry \/ RequestStoreRead \/ RequestStorePoll
                   \/ StoreResultUnknown
                   \/ EnterWorking \/ HeadersParse \/ ExpectReplyPoll \/ ExpectReplySent
                   \/ Authenticate \/ ParamsGet

ResponseHandlers == \/ FatalErrorEntry \/ ResponseEntry \/ MvcPreConfigure
                    \/ PrepareHttpResponse \/ MvcPostConfigure \/ BuildHttpResponse
                    \/ ResponseSendPoll \/ ResponseSendSent
                    \/ KeepaliveEntry \/ KeepalivePoll
                    \/ DisconnectEntry \/ DisconnectPoll \/ DisconnectIgnores
                    \/ CleanupRefused \/ CleanupRetried

WebsocketHandlers == \/ WebsocketEntry \/ WebsocketUncleaned
                     \/ WebsocketRead \/ WebsocketPoll \/ WebsocketSent
                     \/ AppTimer \/ PingTimer \/ WebsocketAbort

Handlers == RequestHandlers \/ ResponseHandlers \/ WebsocketHandlers
            \/ IgnoreRead \/ GiveUp \/ UnexpectedEvent \/ Settle

Scheduler == \/ PollPhase \/ Timer1Phase \/ Timer2Phase
             \/ TxSkip \/ TxAssert \/ TxWrite \/ TxBlocked \/ TxError
             \/ Finish \/ Starve
             \/ Accept \/ Receive \/ PeerCloses \/ NoSocketEvent \/ Clock

Init == /\ pass = "poll" /\ ev = "none" /\ halted = "no"
        /\ task = NoTask /\ client = NoClient /\ seen = NothingSeen

Next == Handlers \/ Scheduler \/ Halted

\* The server's loop never stops, and time is not stuck for ever.
Fairness == WF_vars(Handlers \/ Scheduler) /\ SF_vars(ClockTicks)

Spec == Init /\ [][Next]_vars
FairSpec == Spec /\ Fairness

-----------------------------------------------------------------------------
(* Properties                                                              *)

\* Every variable holds what the C types and enumerations allow.
Clocks == Nat \cup {Infinite}
Sizes == Int \cup {Infinite}
Attempts == 0..2
Websockets == [def : BOOLEAN, disconnecting : BOOLEAN, ping : BOOLEAN, pong : BOOLEAN]
TaskType == [state : States, new_state : States, poll : Clocks, timer1 : Clocks,
             timer2 : Clocks, network_tx : Clocks, priority : {"low", "normal", "high"},
             rx : Seq(Units), queue : Seq(Output), passively_closed : BOOLEAN]
ClientType == [rcv : Seq(Units), store : BOOLEAN, isp : {"headers", "body"},
               isp_done : BOOLEAN, got : Nat,
               request : Requests \cup {"none", "garbled"},
               head : BOOLEAN, upgrade : BOOLEAN, expect : {"NA", "100", "417"},
               pipelining : BOOLEAN, headers_file : FileStates, body_file : FileStates,
               current : Statuses, fatal : Statuses, attempts : Attempts,
               status : Statuses, connection : {"close", "keepalive", "upgrade"},
               chunked : BOOLEAN, onservice : BOOLEAN, owned : SUBSET Pointers,
               total : Sizes, sent : Int, index : Int, source : Int,
               websocket : Websockets]
SeenType == [interims : Nat, heads : Nat, controlled : Nat, registered : BOOLEAN, served : Nat]
Halts == {"no", "unexpected event", "store list not empty", "response buffer not empty",
          "parameters not empty", "request file not open", "resource still open",
          "resource open failed", "no url to look up", "no websocket service",
          "tx queue empty", "zero length write", "store result unknown",
          "request file missing", "cleanup refused"}

TypeOK == /\ pass \in Passes
          /\ ev \in Events \cup {"settle", "none"}
          /\ task \in TaskType
          /\ client \in ClientType
          /\ halted \in Halts
          /\ seen \in SeenType

\* Of the assertions on the path of a request, none fails on what a request or a
\* response leaves behind for the next one: the store list is empty when a new
\* part is received, and no resource, buffer or parameter is left from an earlier
\* attempt.  Output is due with nothing queued only in a client that outlives a failed
\* write because its clean-up was refused.
NothingLeftBehind ==
    /\ halted \notin {"store list not empty", "response buffer not empty",
                      "parameters not empty", "request file not open", "resource still open"}
    /\ halted = "tx queue empty" =>
         task.state = "http_disconnect" /\ client.headers_file = "unlinked"

\* A body never takes input that belongs to the next request.
BodyWithinLength == client.got <= IF client.isp = "body" THEN BodyLen(client.request) ELSE 0

\* The connection is reused only when the body of the request has been read to
\* its end and stored, so that what follows on the socket is a new request.
ReuseAfterWholeRequest ==
    task.new_state = "keepalive" /\ task.state = "response_send" =>
        /\ client.isp = "body" /\ client.isp_done
        /\ client.got = BodyLen(client.request)
        /\ client.headers_file = "read" /\ client.body_file = "read"

\* ... and when the response has been sent to the length its framing announced.
ReuseAfterWholeResponse ==
    task.new_state = "keepalive" =>
        /\ client.sent = Header + client.total
        /\ client.head \/ client.source = 0
        /\ task.queue = <<>>

\* The body of a request with an expectation is received only when the answer to
\* the expectation has left the queue, however often it was queued.
ExpectationAnswered ==
    task.state = "expect_reply" /\ task.new_state = "body_receive" =>
        seen.interims >= 1 /\ task.queue = <<>>

\* A request gets at most one response: no failure while a response is sent
\* starts another one, and the second attempt starts before the first was sent.
OneResponse == seen.heads <= 1

\* The application's controller completes at most once for a request, whatever
\* attempts and backoffs follow.
ControllerOnce == seen.controlled <= 1

\* A controller runs only on a request that was read, stored and parsed whole.
ControllerSeesWholeRequest ==
    [][seen'.controlled > seen.controlled =>
         /\ client.isp = "body" /\ client.isp_done
         /\ client.headers_file = "read" /\ client.body_file = "read"
         /\ "params" \in client.owned /\ client.pipelining]_vars

\* The onservice handler a controller registered is called exactly once by the
\* time the request is forgotten, and no handler of an earlier request is called.
ServedExactlyOnce ==
    [][seen' = NothingSeen => seen.served = IF seen.registered THEN 1 ELSE 0]_vars

\* The task quits only after everything the connection held is released.
NothingLeaked ==
    task.state = "NULL" =>
        /\ client.owned = {} /\ client.rcv = <<>> /\ ~client.store
        /\ client.headers_file = "none" /\ client.body_file = "none"
        /\ ~client.websocket.def
        /\ task.rx = <<>> /\ task.queue = <<>>

\* The resource is open, and the response buffer allocated, only in the states
\* that use them or release them.
Owned(s) == CASE s \in {"mvc_post_configuration", "build_http_response"} -> {{"resource"}}
              [] s = "response_send" -> {{"resource"}, {"resource", "cbuf"}}
              [] s \in {"keepalive", "websocket"} -> {{}, {"resource"}}
              [] s = "http_disconnect" -> SUBSET {"resource", "cbuf"}
              [] OTHER -> {{}}
ResourceOwnership ==
    halted = "no" => client.owned \cap {"resource", "cbuf"} \in Owned(task.new_state)

\* Between events, a connection in the HTTP states is never left without a clock:
\* its state timer runs, or it is disconnecting and polls at once.
NeverUnattended ==
    halted = "no" /\ ev = "none" /\ task.state \in HttpStates =>
        \/ task.timer1 # Infinite
        \/ task.state = "http_disconnect" /\ task.poll = 0

Answering == task.state \in Working \cup {"fatal_error_entry", "response_entry"}

\* Working on a request or its response comes to an end: each state succeeds or
\* times out, and there are at most two attempts at a response.
AnswerEnds == Answering ~> (~Answering \/ halted # "no")

\* A connection the peer has closed gives its slot back.
SlotReleased == task.passively_closed ~> (task.state = "absent" \/ halted # "no")

-----------------------------------------------------------------------------
(* What the assertions and comments of the code say, and the code breaks   *)

\* The handshake is aborted when the service is not available: a websocket
\* follows only the response that accepted it.
WebsocketAfterHandshake == task.state = "websocket" => client.status = "101"

=============================================================================
