-------------------------- MODULE ConnectionProofs ---------------------------
(***************************************************************************)
(* Theorems about one connection, for every value of the constants. Its    *)
(* types first. Then one induction over its control (state, event, queue,  *)
(* buffer): it implements RequestCycle and releases the resource and the   *)
(* response buffer where it should. Then one over the data of the request  *)
(* and the clocks of the task, with the first two below it: a request is   *)
(* read and stored whole before a controller sees it and before the        *)
(* connection is reused, its controller and its onservice handler run at   *)
(* most once, its response has the length that was announced, everything   *)
(* it held is released, and the connection is never without a clock.       *)
(***************************************************************************)
EXTENDS ConnectionCycle, SequenceTheorems, TLAPS

-----------------------------------------------------------------------------
(* The operators on a task and on a client keep their types                *)

LEMMA TaskOps ==
    ASSUME NEW t \in TaskType
    PROVE  /\ \A s \in States : Goto(t, s) \in TaskType
           /\ PollEnable(t) \in TaskType /\ PollDisable(t) \in TaskType
           /\ PollBackoff(t) \in TaskType /\ Timer1Set(t) \in TaskType
           /\ \A p \in {"low", "normal", "high"} : Priority(t, p) \in TaskType
           /\ \A o \in Output : SocketWrite(t, o) \in TaskType
           /\ \A d \in Nat : TimeAdvance(t, d) \in TaskType
<1> USE DEF TaskType, Clocks
<1>1. \A s \in States : Goto(t, s) \in TaskType
  BY DEF Goto
<1>2. /\ PollEnable(t) \in TaskType /\ PollDisable(t) \in TaskType
      /\ PollBackoff(t) \in TaskType
  BY DEF PollEnable, PollDisable, PollBackoff
<1>3. Timer1Set(t) \in TaskType
  BY TimeoutAssumption DEF Timer1Set
<1>4. \A p \in {"low", "normal", "high"} : Priority(t, p) \in TaskType
  BY DEF Priority
<1>5. ASSUME NEW o \in Output PROVE SocketWrite(t, o) \in TaskType
  <2>1. Append(t.queue, o) \in Seq(Output)
    OBVIOUS
  <2> QED BY <2>1 DEF SocketWrite
<1>6. ASSUME NEW d \in Nat PROVE TimeAdvance(t, d) \in TaskType
  <2>1. \A delta \in Clocks : Passed(delta, d) \in Clocks
    BY InfiniteAssumption DEF Passed
  <2>2. /\ Passed(t.poll, d) \in Clocks /\ Passed(t.timer1, d) \in Clocks
        /\ Passed(t.timer2, d) \in Clocks /\ Passed(t.network_tx, d) \in Clocks
    BY <2>1
  <2> QED BY <2>2 DEF TimeAdvance
<1> QED BY <1>1, <1>2, <1>3, <1>4, <1>5, <1>6

\* A client stays a client when a field is given a value of the field's set.
LEMMA ClientFlags ==
    ASSUME NEW c \in ClientType, NEW b \in BOOLEAN
    PROVE  /\ [c EXCEPT !.store = b] \in ClientType
           /\ [c EXCEPT !.isp_done = b] \in ClientType
           /\ [c EXCEPT !.head = b] \in ClientType
           /\ [c EXCEPT !.upgrade = b] \in ClientType
           /\ [c EXCEPT !.pipelining = b] \in ClientType
           /\ [c EXCEPT !.chunked = b] \in ClientType
           /\ [c EXCEPT !.onservice = b] \in ClientType
  BY ZenonT(60) DEF ClientType

LEMMA ClientStatuses ==
    ASSUME NEW c \in ClientType, NEW s \in Statuses
    PROVE  /\ [c EXCEPT !.current = s] \in ClientType
           /\ [c EXCEPT !.fatal = s] \in ClientType
           /\ [c EXCEPT !.status = s] \in ClientType
  BY DEF ClientType

LEMMA ClientNumbers ==
    ASSUME NEW c \in ClientType
    PROVE  /\ \A n \in Nat : [c EXCEPT !.got = n] \in ClientType
           /\ \A n \in Int : /\ [c EXCEPT !.sent = n] \in ClientType
                             /\ [c EXCEPT !.index = n] \in ClientType
                             /\ [c EXCEPT !.source = n] \in ClientType
           /\ \A n \in Sizes : [c EXCEPT !.total = n] \in ClientType
           /\ \A n \in Attempts : [c EXCEPT !.attempts = n] \in ClientType
<1>1. \A n \in Sizes : [c EXCEPT !.total = n] \in ClientType
  BY DEF ClientType
<1>2. \A n \in Attempts : [c EXCEPT !.attempts = n] \in ClientType
  BY DEF ClientType
<1>3. /\ \A n \in Nat : [c EXCEPT !.got = n] \in ClientType
      /\ \A n \in Int : /\ [c EXCEPT !.sent = n] \in ClientType
                        /\ [c EXCEPT !.index = n] \in ClientType
                        /\ [c EXCEPT !.source = n] \in ClientType
  BY ZenonT(60) DEF ClientType
<1> QED BY <1>1, <1>2, <1>3

LEMMA ClientFields ==
    ASSUME NEW c \in ClientType
    PROVE  /\ \A isp \in {"headers", "body"} : [c EXCEPT !.isp = isp] \in ClientType
           /\ \A rcv \in Seq(Units) : [c EXCEPT !.rcv = rcv] \in ClientType
           /\ \A r \in Requests \cup {"none", "garbled"} : [c EXCEPT !.request = r] \in ClientType
           /\ \A e \in {"NA", "100", "417"} : [c EXCEPT !.expect = e] \in ClientType
           /\ \A s \in {"close", "keepalive", "upgrade"} : [c EXCEPT !.connection = s] \in ClientType
           /\ \A f \in FileStates : /\ [c EXCEPT !.headers_file = f] \in ClientType
                                    /\ [c EXCEPT !.body_file = f] \in ClientType
           /\ \A owned \in SUBSET Pointers : [c EXCEPT !.owned = owned] \in ClientType
           /\ \A w \in Websockets : [c EXCEPT !.websocket = w] \in ClientType
<1>1. \A isp \in {"headers", "body"} : [c EXCEPT !.isp = isp] \in ClientType
  BY DEF ClientType
<1>2. \A rcv \in Seq(Units) : [c EXCEPT !.rcv = rcv] \in ClientType
  BY DEF ClientType
<1>3. \A r \in Requests \cup {"none", "garbled"} : [c EXCEPT !.request = r] \in ClientType
  BY DEF ClientType
<1>4. \A e \in {"NA", "100", "417"} : [c EXCEPT !.expect = e] \in ClientType
  BY DEF ClientType
<1>5. \A s \in {"close", "keepalive", "upgrade"} : [c EXCEPT !.connection = s] \in ClientType
  BY DEF ClientType
<1>6. \A f \in FileStates : /\ [c EXCEPT !.headers_file = f] \in ClientType
                            /\ [c EXCEPT !.body_file = f] \in ClientType
  BY DEF ClientType
<1>7. \A owned \in SUBSET Pointers : [c EXCEPT !.owned = owned] \in ClientType
  BY DEF ClientType
<1>8. \A w \in Websockets : [c EXCEPT !.websocket = w] \in ClientType
  BY DEF ClientType
<1> QED BY <1>1, <1>2, <1>3, <1>4, <1>5, <1>6, <1>7, <1>8

\* The literals the handlers assign, as members of the sets of the fields.
LEMMA Literals ==
    /\ "NA" \in Statuses /\ "101" \in Statuses /\ "200" \in Statuses /\ "206" \in Statuses
    /\ "302" \in Statuses /\ "400" \in Statuses /\ "401" \in Statuses /\ "404" \in Statuses
    /\ "405" \in Statuses /\ "413" \in Statuses /\ "500" \in Statuses
    /\ "none" \in FileStates /\ "write" \in FileStates
    /\ "closed" \in FileStates /\ "read" \in FileStates /\ "unlinked" \in FileStates
    /\ 0 \in Attempts /\ 2 \in Attempts
    /\ <<>> \in Seq(Units)
    /\ NoWebsocket \in Websockets
  BY DEF Statuses, FileStates, Attempts, NoWebsocket, Websockets

LEMMA ClientOps ==
    ASSUME NEW c \in ClientType
    PROVE  /\ \A isp \in {"headers", "body"} : IspStart(c, isp) \in ClientType
           /\ NewRequest(c) \in ClientType
           /\ ParseFailed(c) \in ClientType /\ ParseDone(c) \in ClientType
           /\ ParamsParsed(c) \in ClientType /\ HeaderBuilt(c) \in ClientType
           /\ ResourceClose(c) \in ClientType /\ HandOver(c) \in ClientType
           /\ Cleaned(c) \in ClientType /\ Released(c) \in ClientType
           /\ Refused(c) \in ClientType
<1>0. c.owned \in SUBSET Pointers /\ c.websocket \in Websockets
  BY DEF ClientType
<1>1. \A isp \in {"headers", "body"} : IspStart(c, isp) \in ClientType
  BY ClientFlags, ClientNumbers, ClientFields DEF IspStart
<1>2. NewRequest(c) \in ClientType
  BY Literals, ClientFlags, ClientStatuses, ClientNumbers DEF NewRequest
<1>3. ParseFailed(c) \in ClientType
  BY ClientFlags, ClientFields DEF ParseFailed
<1>4. ParseDone(c) \in ClientType
  <2>1. ParseFailed(c).owned \in SUBSET Pointers
    BY <1>3 DEF ClientType
  <2>2. ParseFailed(c).owned \cup {"url"} \in SUBSET Pointers
    BY <2>1 DEF Pointers
  <2>3. (c.request = "head") \in BOOLEAN /\ (c.request = "upgrade") \in BOOLEAN
    OBVIOUS
  <2> QED BY <1>3, <2>2, <2>3, ClientFlags, ClientFields DEF ParseDone
<1>5. ParamsParsed(c) \in ClientType /\ HeaderBuilt(c) \in ClientType
  <2>1. c.owned \cup {"params"} \in SUBSET Pointers /\ c.owned \cup {"cbuf"} \in SUBSET Pointers
    BY <1>0 DEF Pointers
  <2>2. Header \in Int
    BY DEF Header
  <2> QED BY <2>1, <2>2, ClientNumbers, ClientFields DEF ParamsParsed, HeaderBuilt
<1>6. ResourceClose(c) \in ClientType /\ HandOver(c) \in ClientType
  BY <1>0, ClientFields DEF ResourceClose, HandOver
<1>7. Cleaned(c) \in ClientType
  BY Literals, ClientFields DEF Cleaned
<1>8. Released(c) \in ClientType
  <2> DEFINE d == [Cleaned(c) EXCEPT !.rcv = <<>>, !.store = FALSE]
  <2>1. d \in ClientType
    BY <1>7, Literals, ClientFlags, ClientFields
  <2>2. Released(c) = [d EXCEPT !.websocket.def = FALSE]
    BY DEF Released
  <2> HIDE DEF d
  <2>3. [d.websocket EXCEPT !.def = FALSE] \in Websockets
    BY <2>1 DEF ClientType, Websockets
  <2> QED BY ZenonT(60), <2>1, <2>2, <2>3, ClientFields
<1>9. Refused(c) \in ClientType
  BY Literals, ClientFields DEF Refused
<1> QED BY <1>1, <1>2, <1>3, <1>4, <1>5, <1>6, <1>7, <1>8, <1>9

-----------------------------------------------------------------------------
(* Type correctness, one lemma for each handler and step                   *)

LEMMA StateNames ==
    /\ "headers_receive" \in States /\ "request_store" \in States /\ "headers_parse" \in States
    /\ "expect_reply" \in States /\ "body_receive" \in States /\ "authenticate" \in States
    /\ "params_get" \in States /\ "fatal_error_entry" \in States
    /\ "response_entry" \in States /\ "mvc_pre_configuration" \in States
    /\ "prepare_http_response" \in States /\ "mvc_post_configuration" \in States
    /\ "build_http_response" \in States /\ "response_send" \in States
    /\ "keepalive" \in States /\ "http_disconnect" \in States /\ "websocket" \in States
    /\ "NULL" \in States
  BY DEF States, HttpStates, Transient, Working

LEMMA NothingSeenType == NothingSeen \in SeenType
  BY DEF NothingSeen, SeenType

\* A handler that returns, or hangs in an assertion, keeps the type of what it leaves alone.
LEMMA TypeReturn ==
    ASSUME TypeOK, Return, task' \in TaskType, client' \in ClientType, seen' \in SeenType
    PROVE  TypeOK'
  BY DEF TypeOK, Return

LEMMA TypeHang ==
    ASSUME TypeOK, NEW a \in Halts, Hang(a)
    PROVE  TypeOK'
  BY DEF TypeOK, Hang

LEMMA TypeSettle ==
    ASSUME TypeOK, Settle
    PROVE  TypeOK'
<1>1. task' \in TaskType
  <2>1. \A rx \in Seq(Units), queue \in Seq(Output), s \in States :
          [task EXCEPT !.state = s, !.priority = "normal", !.poll = Infinite,
             !.timer1 = Infinite, !.timer2 = Infinite, !.rx = rx, !.queue = queue] \in TaskType
    BY DEF TypeOK, TaskType, Clocks
  <2>2. /\ task.new_state \in States
        /\ (IF task.new_state = "NULL" THEN <<>> ELSE task.rx) \in Seq(Units)
        /\ (IF task.new_state = "NULL" THEN <<>> ELSE task.queue) \in Seq(Output)
    BY DEF TypeOK, TaskType
  <2> QED BY <2>1, <2>2 DEF Settle
<1> QED BY <1>1 DEF Settle, TypeOK, Throw, Events

LEMMA TypeConnectionAccepted ==
    ASSUME TypeOK, ConnectionAccepted
    PROVE  TypeOK'
<1>1. client' \in ClientType
  BY Literals, ClientFlags, ClientFields DEF ConnectionAccepted, TypeOK
<1>2. task' \in TaskType
  BY StateNames, TaskOps DEF ConnectionAccepted, TypeOK
<1> QED BY <1>1, <1>2, TypeReturn DEF ConnectionAccepted, TypeOK

LEMMA TypeHeadersReceive ==
    ASSUME TypeOK, HeadersReceive
    PROVE  TypeOK'
<1>1. CASE client.store
  BY <1>1, TypeHang DEF HeadersReceive, Halts
<1>2. CASE ~client.store
  <2>1. client' \in ClientType
    BY <1>2, ClientOps DEF HeadersReceive, TypeOK
  <2>2. task' \in TaskType
    <3>1. Priority(Timer1Set(task), "low") \in TaskType
      BY TaskOps DEF TypeOK
    <3> QED BY <1>2, <3>1, StateNames, TaskOps DEF HeadersReceive
  <2>3. seen' \in SeenType
    BY <1>2, NothingSeenType DEF HeadersReceive
  <2> QED BY <1>2, <2>1, <2>2, <2>3, TypeReturn DEF HeadersReceive
<1> QED BY <1>1, <1>2

LEMMA TypeBodyReceive ==
    ASSUME TypeOK, BodyReceive
    PROVE  TypeOK'
<1>1. CASE client.store
  BY <1>1, TypeHang DEF BodyReceive, Halts
<1>2. CASE ~client.store
  <2>1. client' \in ClientType
    BY <1>2, ClientOps DEF BodyReceive, TypeOK
  <2>2. task' \in TaskType
    <3>1. Priority(Timer1Set(task), "low") \in TaskType
      BY TaskOps DEF TypeOK
    <3> QED BY <1>2, <3>1, StateNames, TaskOps DEF BodyReceive
  <2> QED BY <1>2, <2>1, <2>2, TypeReturn DEF BodyReceive, TypeOK
<1> QED BY <1>1, <1>2

LEMMA TypeTakeInput ==
    ASSUME TypeOK, TakeInput
    PROVE  task' \in TaskType /\ client' \in ClientType
<1>1. client' \in ClientType
  <2>1. client.rcv \o task.rx \in Seq(Units)
    BY DEF TypeOK, TaskType, ClientType
  <2> QED BY <2>1, ClientFields DEF TakeInput, TypeOK
<1>2. task' \in TaskType
  <2>1. \A p \in {"low", "normal", "high"}, rx \in Seq(Units), delta \in Clocks :
          [task EXCEPT !.rx = rx, !.timer1 = delta, !.priority = p] \in TaskType
    BY DEF TypeOK, TaskType
  <2>2. (IF ev = "ENTRY" THEN "low" ELSE task.priority) \in {"low", "normal", "high"}
    BY DEF TypeOK, TaskType
  <2>3. <<>> \in Seq(Units) /\ Timeout \in Clocks
    BY TimeoutAssumption DEF Clocks
  <2> QED BY <2>1, <2>2, <2>3, TaskOps DEF TakeInput
<1> QED BY <1>1, <1>2

LEMMA TypeRequestStoreEntry ==
    ASSUME TypeOK, RequestStoreEntry
    PROVE  TypeOK'
<1>1. CASE client.store
  BY <1>1, TypeHang DEF RequestStoreEntry, Halts
<1>2. CASE ~client.store
  BY <1>2, TypeTakeInput, TypeReturn DEF RequestStoreEntry, TypeOK
<1> QED BY <1>1, <1>2

LEMMA TypeRequestStoreRead ==
    ASSUME TypeOK, RequestStoreRead
    PROVE  TypeOK'
  BY TypeTakeInput, TypeReturn DEF RequestStoreRead, TypeOK

\* The processors keep the type of the client and what it owns, and never take more
\* than a body.
Fits(c) == c.got <= IF c.isp = "body" THEN BodyLen(c.request) ELSE 0

LEMMA SubSeqType ==
    ASSUME NEW S, NEW s \in Seq(S), NEW m \in Nat \ {0}
    PROVE  SubSeq(s, m, Len(s)) \in Seq(S)
<1>1. Len(s) \in Int /\ \A i \in m..Len(s) : s[i] \in S
  OBVIOUS
<1> QED BY <1>1, SubSeqProperties

LEMMA HeadersIspType ==
    ASSUME NEW c \in ClientType, Fits(c), c.isp = "headers", NEW i \in HeadersIsp(c)
    PROVE  i.client \in ClientType /\ Fits(i.client) /\ i.client.owned = c.owned
<1> DEFINE ends == {k \in DOMAIN c.rcv : c.rcv[k] \in Heads}
           first == {k \in ends : \A j \in ends : k <= j}
           Taken(end) == [c EXCEPT !.isp_done = TRUE, !.store = TRUE,
                                   !.rcv = SubSeq(@, end + 1, Len(@)),
                                   !.request = IF end = 1 THEN c.rcv[1] ELSE "garbled"]
<1>0. \/ i.client = c \/ i.client = [c EXCEPT !.current = "413"]
      \/ \E end \in ends : i.client = Taken(end)
  <2>1. CASE c.isp_done
    <3>1. i \in {[err |-> "OK", client |-> c]}
      BY <2>1, Zenon DEF HeadersIsp
    <3>2. i.client = c
      BY <3>1
    <3> QED BY <3>2
  <2>2. CASE ~c.isp_done /\ ends = {}
    <3>1. i \in {[err |-> "FATAL", client |-> [c EXCEPT !.current = "413"]],
                 [err |-> "READ", client |-> c]}
      BY <2>2, Zenon DEF HeadersIsp
    <3>2. i.client = c \/ i.client = [c EXCEPT !.current = "413"]
      BY <3>1
    <3> QED BY <3>2
  <2>3. CASE ~c.isp_done /\ ends # {}
    <3>1. i \in {[err |-> "POLL", client |-> c]}
                \cup {[err |-> "OK", client |-> Taken(end)] : end \in first}
      BY <2>3 DEF HeadersIsp
    <3> HIDE DEF Taken
    <3>2. CASE i = [err |-> "POLL", client |-> c]
      BY <3>2
    <3>3. CASE \E end \in first : i = [err |-> "OK", client |-> Taken(end)]
      <4>1. PICK end \in first : i = [err |-> "OK", client |-> Taken(end)]
        BY <3>3
      <4> QED BY <4>1
    <3> QED BY <3>1, <3>2, <3>3
  <2> QED BY <2>1, <2>2, <2>3
<1>1. CASE i.client = c
  BY <1>1
<1>2. CASE i.client = [c EXCEPT !.current = "413"]
  <2>1. [c EXCEPT !.current = "413"] \in ClientType
    BY Literals, ClientStatuses
  <2> QED BY <1>2, <2>1 DEF Fits, ClientType
<1>3. CASE \E end \in ends : i.client = Taken(end)
  <2>1. PICK end \in ends : i.client = Taken(end)
    BY <1>3
  <2>2. SubSeq(c.rcv, end + 1, Len(c.rcv)) \in Seq(Units)
    BY SubSeqType DEF ClientType
  <2>3. (IF end = 1 THEN c.rcv[1] ELSE "garbled") \in Requests \cup {"none", "garbled"}
    BY HeadsAssumption
  <2>4. Taken(end) \in ClientType
    BY <2>2, <2>3, ClientFlags, ClientFields
  <2>5. Taken(end).got = c.got /\ Taken(end).isp = c.isp /\ Taken(end).owned = c.owned
    BY DEF ClientType
  <2> HIDE DEF Taken
  <2> QED BY <2>1, <2>4, <2>5 DEF Fits
<1> QED BY <1>0, <1>1, <1>2, <1>3

LEMMA BodyIspType ==
    ASSUME NEW c \in ClientType, Fits(c), c.isp = "body", NEW i \in BodyIsp(c)
    PROVE  i.client \in ClientType /\ Fits(i.client) /\ i.client.owned = c.owned
<1> DEFINE n == BodyTaken(c)
           next == [c EXCEPT !.got = @ + n, !.store = @ \/ n > 0,
                             !.rcv = SubSeq(@, n + 1, Len(@)),
                             !.isp_done = c.got + n = BodyLen(c.request)]
<1>1. i.client = c \/ i.client = next
  BY DEF BodyIsp
<1>2. n \in Nat /\ c.got + n <= BodyLen(c.request) /\ c.got \in Nat
  <2>1. Len(c.rcv) \in Nat /\ c.got \in Nat /\ BodyLen(c.request) \in Nat
    BY DEF ClientType, BodyLen
  <2>2. c.got <= BodyLen(c.request)
    BY DEF Fits
  <2> QED BY <2>1, <2>2 DEF BodyTaken, Least
<1>3. SubSeq(c.rcv, n + 1, Len(c.rcv)) \in Seq(Units)
  <2>1. c.rcv \in Seq(Units)
    BY DEF ClientType
  <2> QED BY <1>2, <2>1, SubSeqType
<1>4. next \in ClientType
  <2>1. /\ c.got + n \in Nat /\ (c.store \/ n > 0) \in BOOLEAN
        /\ (c.got + n = BodyLen(c.request)) \in BOOLEAN
    BY <1>2
  <2> QED BY ZenonT(60), <1>3, <2>1, ClientFlags, ClientNumbers, ClientFields
<1>5. next.got = c.got + n /\ next.isp = c.isp /\ next.request = c.request
      /\ next.owned = c.owned
  <2>1. \A got, store, done, rcv :
          [c EXCEPT !.got = got, !.store = store, !.rcv = rcv, !.isp_done = done].isp = c.isp
    BY DEF ClientType
  <2>2. \A got, store, done, rcv :
          [c EXCEPT !.got = got, !.store = store, !.rcv = rcv, !.isp_done = done].request = c.request
    BY DEF ClientType
  <2>3. \A got, store, done, rcv :
          [c EXCEPT !.got = got, !.store = store, !.rcv = rcv, !.isp_done = done].owned = c.owned
    BY DEF ClientType
  <2>4. \A got \in Nat, store, done \in BOOLEAN, rcv \in Seq(Units) :
          [c EXCEPT !.got = got, !.store = store, !.rcv = rcv, !.isp_done = done].got = got
    BY DEF ClientType
  <2>5. n \in Nat /\ c.got + n \in Nat /\ (c.store \/ n > 0) \in BOOLEAN
        /\ (c.got + n = BodyLen(c.request)) \in BOOLEAN
    BY <1>2
  <2> QED BY <1>3, <2>1, <2>2, <2>3, <2>4, <2>5
<1> HIDE DEF next, n
<1> QED BY <1>1, <1>2, <1>4, <1>5 DEF Fits

LEMMA IspType ==
    ASSUME NEW c \in ClientType, Fits(c), NEW i \in Isp(c)
    PROVE  i.client \in ClientType /\ Fits(i.client) /\ i.client.owned = c.owned
  BY HeadersIspType, BodyIspType DEF Isp, ClientType

LEMMA StoreToFileType ==
    ASSUME NEW c \in ClientType, Fits(c), NEW r \in StoreToFile(c)
    PROVE  r.client \in ClientType /\ Fits(r.client) /\ r.client.owned = c.owned
<1> DEFINE With(s) == IF c.isp = "headers" THEN [c EXCEPT !.headers_file = s]
                                           ELSE [c EXCEPT !.body_file = s]
<1>1. \E s \in FileStates : r.client \in {With(s), [With(s) EXCEPT !.store = FALSE]}
  <2>1. \E s \in FileStates : \E e :
           \/ r = [err |-> e, client |-> With(s)]
           \/ r = [err |-> e, client |-> [With(s) EXCEPT !.store = FALSE]]
    <3> HIDE DEF With
    <3> QED BY Literals DEF StoreToFile, With
  <2> HIDE DEF With
  <2> QED BY <2>1
<1>2. ASSUME NEW s \in FileStates
      PROVE  /\ With(s) \in ClientType
             /\ With(s).got = c.got /\ With(s).isp = c.isp /\ With(s).request = c.request
             /\ With(s).owned = c.owned
  <2>1. With(s) \in ClientType
    BY ClientFields
  <2> QED BY ZenonT(60), <2>1 DEF ClientType
<1>3. ASSUME NEW d \in ClientType
      PROVE  LET e == [d EXCEPT !.store = FALSE]
             IN  e \in ClientType /\ e.got = d.got /\ e.isp = d.isp /\ e.request = d.request
                 /\ e.owned = d.owned
  <2>1. [d EXCEPT !.store = FALSE] \in ClientType
    BY ClientFlags
  <2> QED BY <2>1 DEF ClientType
<1> HIDE DEF With
<1>4. PICK s \in FileStates : r.client \in {With(s), [With(s) EXCEPT !.store = FALSE]}
  BY <1>1
<1>5. /\ r.client \in ClientType
      /\ r.client.got = c.got /\ r.client.isp = c.isp /\ r.client.request = c.request
      /\ r.client.owned = c.owned
  <2>1. CASE r.client = With(s)
    BY <1>2, <2>1
  <2>2. CASE r.client = [With(s) EXCEPT !.store = FALSE]
    <3>1. With(s) \in ClientType
      BY <1>2
    <3> QED BY <1>2, <1>3, <2>2, <3>1
  <2> QED BY <1>4, <2>1, <2>2
<1> QED BY <1>5 DEF Fits

LEMMA TypeRequestStorePoll ==
    ASSUME TypeOK, BodyWithinLength, RequestStorePoll
    PROVE  TypeOK' /\ BodyWithinLength' /\ client'.owned = client.owned
<1>1. PICK i \in Isp(client) :
         \/ /\ i.err = "FATAL"
            /\ client' = i.client
            /\ task' = Goto(task, "fatal_error_entry")
         \/ /\ i.err # "FATAL"
            /\ \E s \in StoreToFile(i.client) :
                 /\ client' = s.client
                 /\ task' = CASE s.err = "OK" ->
                                   Goto(task, IF client.isp = "headers" THEN "headers_parse"
                                                                        ELSE "authenticate")
                              [] s.err = "FATAL" -> Goto(task, "fatal_error_entry")
                              [] s.err = "POLL" \/ (s.err = "READ" /\ i.err = "POLL") ->
                                   PollBackoff(task)
                              [] OTHER -> PollDisable(task)
  BY DEF RequestStorePoll
<1>2. i.client \in ClientType /\ Fits(i.client) /\ i.client.owned = client.owned
  BY IspType DEF TypeOK, BodyWithinLength, Fits
<1>3. client' \in ClientType /\ Fits(client') /\ client'.owned = client.owned
  BY <1>1, <1>2, StoreToFileType
<1>4. task' \in TaskType
  BY <1>1, StateNames, TaskOps DEF TypeOK
<1>5. TypeOK'
  BY <1>3, <1>4, TypeReturn DEF RequestStorePoll, TypeOK
<1> QED BY <1>3, <1>5 DEF BodyWithinLength, Fits

LEMMA TypeEnterWorking ==
    ASSUME TypeOK, EnterWorking
    PROVE  TypeOK'
<1>1. CASE task.state = "build_http_response" /\ "cbuf" \in client.owned
  BY <1>1, TypeHang DEF EnterWorking, Halts
<1>2. CASE ~(task.state = "build_http_response" /\ "cbuf" \in client.owned)
  <2>1. client' \in ClientType
    <3>1. /\ [client EXCEPT !.pipelining = TRUE] \in ClientType
          /\ [client EXCEPT !.sent = 0] \in ClientType
      <4>1. client \in ClientType
        BY DEF TypeOK
      <4>2. [client EXCEPT !.pipelining = TRUE] \in ClientType
        BY <4>1, ClientFlags
      <4>3. [client EXCEPT !.sent = 0] \in ClientType
        BY <4>1 DEF ClientType
      <4> QED BY <4>2, <4>3
    <3> QED BY <1>2, <3>1 DEF EnterWorking, TypeOK
  <2>2. task' \in TaskType
    BY <1>2, TaskOps DEF EnterWorking, TypeOK
  <2> QED BY <1>2, <2>1, <2>2, TypeReturn DEF EnterWorking, TypeOK
<1> QED BY <1>1, <1>2

LEMMA TypeHeadersParse ==
    ASSUME TypeOK, HeadersParse
    PROVE  TypeOK'
<1>1. client' \in ClientType
  <2>1. ParseFailed(client) \in ClientType /\ ParseDone(client) \in ClientType
    BY ClientOps DEF TypeOK
  <2>2. ASSUME NEW code \in RefusedStatus(client), NEW e \in {"NA", "100", "417"}
        PROVE  [ParseFailed(client) EXCEPT !.fatal = code, !.expect = e] \in ClientType
    <3>1. code \in Statuses
      BY Literals DEF RefusedStatus
    <3> QED BY <2>1, <3>1, ClientStatuses, ClientFields
  <2>3. (IF client.request = "expect" THEN "417" ELSE ParseFailed(client).expect)
           \in {"NA", "100", "417"}
    BY <2>1 DEF ClientType
  <2>4. \/ client' = ParseDone(client) \/ client' = ParseFailed(client)
        \/ \E code \in RefusedStatus(client) :
              client' = [ParseFailed(client) EXCEPT !.fatal = code,
                           !.expect = IF client.request = "expect" THEN "417" ELSE @]
    BY DEF HeadersParse
  <2>5. ASSUME NEW code \in RefusedStatus(client),
               client' = [ParseFailed(client) EXCEPT !.fatal = code,
                            !.expect = IF client.request = "expect" THEN "417" ELSE @]
        PROVE  client' \in ClientType
    <3> DEFINE e == IF client.request = "expect" THEN "417" ELSE ParseFailed(client).expect
    <3>1. client' = [ParseFailed(client) EXCEPT !.fatal = code, !.expect = e]
      BY <2>1, <2>5 DEF ClientType
    <3> QED BY ZenonT(60), <2>2, <2>3, <3>1
  <2> QED BY <2>1, <2>4, <2>5
<1>2. task' \in TaskType
  <2>1. \/ \E s \in {"expect_reply", "body_receive", "fatal_error_entry"} : task' = Goto(task, s)
        \/ task' = PollBackoff(task)
    BY DEF HeadersParse, TryLater
  <2> QED BY <2>1, StateNames, TaskOps DEF TypeOK
<1> QED BY <1>1, <1>2, TypeReturn DEF HeadersParse, TypeOK

LEMMA TypeExpectReplyPoll ==
    ASSUME TypeOK, ExpectReplyPoll
    PROVE  TypeOK'
<1>1. task' \in TaskType
  BY TaskOps DEF ExpectReplyPoll, TypeOK, TryLater, Output
<1>2. seen' \in SeenType
  BY DEF ExpectReplyPoll, TypeOK, SeenType
<1> QED BY <1>1, <1>2, TypeReturn DEF ExpectReplyPoll, TypeOK

LEMMA TypeExpectReplySent ==
    ASSUME TypeOK, ExpectReplySent
    PROVE  TypeOK'
<1>1. task' \in TaskType
  BY StateNames, TaskOps DEF ExpectReplySent, TypeOK
<1> QED BY <1>1, TypeReturn DEF ExpectReplySent, TypeOK

LEMMA TypeAuthenticate ==
    ASSUME TypeOK, Authenticate
    PROVE  TypeOK'
<1>1. client' \in ClientType
  BY Literals, ClientStatuses DEF Authenticate, TypeOK
<1>2. task' \in TaskType
  BY StateNames, TaskOps DEF Authenticate, TypeOK, TryLater
<1> QED BY <1>1, <1>2, TypeReturn DEF Authenticate, TypeOK

LEMMA TypeParamsGet ==
    ASSUME TypeOK, ParamsGet
    PROVE  TypeOK'
<1>1. CASE "params" \in client.owned
  BY <1>1, TypeHang DEF ParamsGet, Halts
<1>2. CASE "params" \notin client.owned /\ {client.headers_file, client.body_file} # {"read"}
  BY <1>2, TypeHang DEF ParamsGet, Halts
<1>3. CASE "params" \notin client.owned /\ {client.headers_file, client.body_file} = {"read"}
  <2>1. client' \in ClientType
    BY <1>3, ClientOps DEF ParamsGet, TypeOK
  <2>2. task' \in TaskType
    BY <1>3, StateNames, TaskOps DEF ParamsGet, TypeOK, TryLater
  <2> QED BY <1>3, <2>1, <2>2, TypeReturn DEF ParamsGet, TypeOK
<1> QED BY <1>1, <1>2, <1>3

\* Assertions of the files a request is stored in.
FileAssert == StoreResultUnknown \/ CleanupRetried \/ WebsocketUncleaned

LEMMA FileAssertHangs ==
    ASSUME FileAssert
    PROVE  \E a \in {"store result unknown", "request file missing", "cleanup refused"} : Hang(a)
  BY DEF FileAssert, StoreResultUnknown, CleanupRetried, WebsocketUncleaned

LEMMA TypeShared ==
    ASSUME TypeOK, IgnoreRead \/ GiveUp \/ UnexpectedEvent \/ FileAssert
    PROVE  TypeOK'
<1>1. CASE IgnoreRead
  BY <1>1, TypeReturn DEF IgnoreRead, TypeOK
<1>2. CASE GiveUp
  <2>1. task' \in TaskType
    BY <1>2, StateNames, TaskOps DEF GiveUp, TypeOK
  <2> QED BY <1>2, <2>1, TypeReturn DEF GiveUp, TypeOK
<1>3. CASE UnexpectedEvent
  BY <1>3, TypeHang DEF UnexpectedEvent, Halts
<1>4. CASE FileAssert
  BY <1>4, FileAssertHangs, TypeHang DEF Halts
<1> QED BY <1>1, <1>2, <1>3, <1>4

LEMMA TypeFatalErrorEntry ==
    ASSUME TypeOK, FatalErrorEntry
    PROVE  TypeOK'
<1>1. client' \in ClientType
  <2>1. FatalStatus(client) \in Statuses
    BY Literals DEF FatalStatus, TypeOK, ClientType
  <2> QED BY <2>1, Literals, ClientStatuses DEF FatalErrorEntry, TypeOK
<1>2. task' \in TaskType
  BY StateNames, TaskOps DEF FatalErrorEntry, TypeOK
<1> QED BY <1>1, <1>2, TypeReturn DEF FatalErrorEntry, TypeOK

LEMMA TypeResponseEntry ==
    ASSUME TypeOK, ResponseEntry
    PROVE  TypeOK'
<1>1. CASE "resource" \in client.owned
  BY <1>1, TypeHang DEF ResponseEntry, Halts
<1>2. CASE "resource" \notin client.owned
  <2>1. client' \in ClientType
    <3>1. CASE AttemptsLeft(client)
      <4>1. (IF client.current = "500" THEN 2 ELSE client.attempts + 1) \in Attempts
        BY <3>1 DEF AttemptsLeft, Attempts, TypeOK, ClientType
      <4> QED BY <1>2, <3>1, <4>1, ClientNumbers DEF ResponseEntry, TypeOK
    <3>2. CASE ~AttemptsLeft(client)
      BY <1>2, <3>2 DEF ResponseEntry, TypeOK
    <3> QED BY <3>1, <3>2
  <2>2. task' \in TaskType
    BY <1>2, StateNames, TaskOps DEF ResponseEntry, TypeOK
  <2> QED BY <1>2, <2>1, <2>2, TypeReturn DEF ResponseEntry, TypeOK
<1> QED BY <1>1, <1>2

LEMMA PageType ==
    ASSUME NEW c \in ClientType, NEW status \in Statuses, NEW freed, NEW chunked \in BOOLEAN,
           NEW connection \in {"close", "keepalive", "upgrade"}
    PROVE  Page(c, status, connection, chunked, freed) \in ClientType
<1>1. (c.owned \ freed) \cup {"mvc"} \in SUBSET Pointers
  BY SMTT(60) DEF ClientType, Pointers
<1> QED BY <1>1, ClientFlags, ClientStatuses, ClientFields DEF Page

LEMMA TypeMvcPreConfigure ==
    ASSUME TypeOK, MvcPreConfigure
    PROVE  TypeOK'
<1> DEFINE cleared == [client EXCEPT !.owned = @ \ {"mvc"}, !.connection = "keepalive"]
<1>1. cleared \in ClientType
  <2>1. client \in ClientType /\ client.owned \ {"mvc"} \in SUBSET Pointers
    BY DEF TypeOK, ClientType
  <2> QED BY <2>1, ClientFields
<1>2. ASSUME NEW b \in BOOLEAN
      PROVE  [cleared EXCEPT !.onservice = @ \/ b] \in ClientType
  <2>1. (cleared.onservice \/ b) \in BOOLEAN
    OBVIOUS
  <2> HIDE DEF cleared
  <2> QED BY <1>1, <2>1, ClientFlags
<1> HIDE DEF cleared
<1>3. ASSUME NEW c \in ClientType PROVE Configured(c) \subseteq ClientType
  <2>1. c.current \in Statuses
    BY DEF ClientType
  <2>2. \A status \in Statuses, connection \in {"close", "keepalive", "upgrade"} : \A freed :
          Page(c, status, connection, FALSE, freed) \in ClientType
    BY PageType
  <2>3. CASE c.current # "NA"
    BY <2>1, <2>2, <2>3 DEF Configured, Handshake
  <2>4. CASE c.current = "NA" /\ c.upgrade
    BY ZenonT(60), <2>2, <2>4, Literals DEF Configured, Handshake
  <2>5. CASE c.current = "NA" /\ ~c.upgrade
    BY <2>2, <2>5, Literals DEF Configured, Handshake
  <2> QED BY <2>3, <2>4, <2>5
<1>4. ASSUME NEW c \in ClientType PROVE Controlled(c) \subseteq ClientType
  <2>1. \A status \in Statuses :
          /\ Page(c, status, "keepalive", FALSE, {"params"}) \in ClientType
          /\ Page(c, status, "keepalive", TRUE, {"params"}) \in ClientType
    BY PageType
  <2> QED BY <2>1, Literals DEF Controlled
<1>5. client' \in ClientType
  <2>1. \/ client' \in Configured(cleared)
        \/ \E b \in BOOLEAN : client' \in Controlled([cleared EXCEPT !.onservice = @ \/ b])
        \/ \E b \in BOOLEAN : client' = [cleared EXCEPT !.onservice = @ \/ b]
    BY ZenonT(60) DEF MvcPreConfigure, cleared, AppPage
  <2> QED BY ZenonT(60), <1>1, <1>2, <1>3, <1>4, <2>1
<1>6. task' \in TaskType
  <2>1. \/ task' = PollBackoff(task)
        \/ \E s \in {"prepare_http_response", "fatal_error_entry"} : task' = Goto(task, s)
    BY DEF MvcPreConfigure, TryLater
  <2> QED BY SMTT(60), <2>1, StateNames, TaskOps DEF TypeOK
<1>7. seen' \in SeenType
  <2>1. \/ UNCHANGED seen
        \/ \E b \in BOOLEAN : seen' = [seen EXCEPT !.controlled = @ + 1, !.registered = @ \/ b]
        \/ \E b \in BOOLEAN : seen' = [seen EXCEPT !.registered = @ \/ b]
    BY DEF MvcPreConfigure, AppPage
  <2>2. seen \in SeenType
    BY DEF TypeOK
  <2>3. ASSUME NEW b \in BOOLEAN
        PROVE  /\ [seen EXCEPT !.controlled = @ + 1, !.registered = @ \/ b] \in SeenType
               /\ [seen EXCEPT !.registered = @ \/ b] \in SeenType
    <3>1. (seen.registered \/ b) \in BOOLEAN /\ seen.controlled + 1 \in Nat
      BY <2>2 DEF SeenType
    <3> QED BY <2>2, <3>1 DEF SeenType
  <2> QED BY ZenonT(60), <2>1, <2>2, <2>3
<1> QED BY <1>5, <1>6, <1>7, TypeReturn DEF MvcPreConfigure

LEMMA TypePrepareHttpResponse ==
    ASSUME TypeOK, PrepareHttpResponse
    PROVE  TypeOK'
<1>1. CASE AppPage(client) /\ Hang("resource open failed")
  BY <1>1, TypeHang DEF Halts
<1>2. CASE ~(AppPage(client) /\ Hang("resource open failed"))
  <2>1. client' \in ClientType
    <3>1. client \in ClientType
      BY DEF TypeOK
    <3>2. MissingStatus(client) \in Statuses
      BY Literals DEF MissingStatus
    <3>3. client.owned \cup {"resource"} \in SUBSET Pointers
      BY <3>1 DEF ClientType, Pointers
    <3>4. \/ client' = client
          \/ client' = [client EXCEPT !.owned = @ \cup {"resource"}]
          \/ client' = [client EXCEPT !.current = MissingStatus(client)]
      BY <1>2 DEF PrepareHttpResponse
    <3>5. [client EXCEPT !.owned = @ \cup {"resource"}] \in ClientType
      BY <3>1, <3>3, ClientFields
    <3>6. [client EXCEPT !.current = MissingStatus(client)] \in ClientType
      BY <3>1, <3>2, ClientStatuses
    <3> QED BY ONLY <3>1, <3>4, <3>5, <3>6
  <2>2. task' \in TaskType
    BY <1>2, StateNames, TaskOps DEF PrepareHttpResponse, TypeOK, TryLater
  <2> QED BY <1>2, <2>1, <2>2, TypeReturn DEF PrepareHttpResponse, TypeOK
<1> QED BY <1>1, <1>2

LEMMA TypeMvcPostConfigure ==
    ASSUME TypeOK, MvcPostConfigure
    PROVE  TypeOK'
<1>0. client \in ClientType
  BY DEF TypeOK
<1>1. client' \in ClientType
  <2>1. ASSUME NEW n \in Lengths(client),
               client' = [client EXCEPT !.total = IF client.chunked THEN Unknown ELSE n,
                                        !.source = n]
        PROVE  client' \in ClientType
    <3>1. n \in Int
      BY <2>1, BoundsAssumption DEF Lengths
    <3>2. (IF client.chunked THEN Unknown ELSE n) \in Sizes
      BY <3>1 DEF Sizes, Unknown
    <3> QED BY <1>0, <2>1, <3>1, <3>2, ClientNumbers
  <2>2. ASSUME NEW code \in {"NA", "400"},
               client' = [ResourceClose(client) EXCEPT !.fatal = code]
        PROVE  client' \in ClientType
    <3>1. code \in Statuses
      BY Literals
    <3> QED BY <1>0, <2>2, <3>1, ClientOps, ClientStatuses
  <2> QED BY <2>1, <2>2 DEF MvcPostConfigure
<1>2. task' \in TaskType
  BY ZenonT(60), StateNames, TaskOps DEF MvcPostConfigure, TypeOK
<1> QED BY <1>1, <1>2, TypeReturn DEF MvcPostConfigure, TypeOK

LEMMA TypeBuildHttpResponse ==
    ASSUME TypeOK, BuildHttpResponse
    PROVE  TypeOK'
<1>0. client \in ClientType
  BY DEF TypeOK
<1>1. client' \in ClientType
  <2>1. HeaderBuilt(client) \in ClientType /\ ResourceClose(client) \in ClientType
    BY <1>0, ClientOps
  <2>2. (IF client.head THEN 0 ELSE HeaderBuilt(client).total) \in Sizes
    BY <2>1 DEF ClientType, Sizes
  <2>3. [HeaderBuilt(client) EXCEPT !.total = IF client.head THEN 0 ELSE @] \in ClientType
    BY <2>1, <2>2, ClientNumbers
  <2>4. [ResourceClose(client) EXCEPT !.owned = @ \ {"cbuf"}] \in ClientType
    <3>1. ResourceClose(client).owned \in SUBSET Pointers
      BY <2>1 DEF ClientType
    <3>2. ResourceClose(client).owned \ {"cbuf"} \in SUBSET Pointers
      BY <3>1
    <3> QED BY <2>1, <3>2, ClientFields
  <2> QED BY <1>0, <2>3, <2>4 DEF BuildHttpResponse
<1>2. task' \in TaskType
  BY StateNames, TaskOps DEF BuildHttpResponse, TypeOK, TryLater
<1> QED BY <1>1, <1>2, TypeReturn DEF BuildHttpResponse, TypeOK

LEMMA TypeResponseSendSent ==
    ASSUME TypeOK, ResponseSendSent
    PROVE  TypeOK'
<1>1. client' \in ClientType
  <2>1. client \in ClientType /\ client.sent + client.index \in Int
    BY DEF TypeOK, ClientType
  <2> QED BY <2>1, ClientNumbers DEF ResponseSendSent
<1>2. task' \in TaskType
  <2>1. AfterResponse(client) \in States
    BY StateNames DEF AfterResponse
  <2> QED BY <2>1, TaskOps DEF ResponseSendSent, TypeOK
<1> QED BY <1>1, <1>2, TypeReturn DEF ResponseSendSent, TypeOK

LEMMA CallOnserviceType ==
    ASSUME NEW c, seen \in SeenType, CallOnservice(c)
    PROVE  seen' \in SeenType
  BY DEF CallOnservice, SeenType

LEMMA TypeReleases ==
    ASSUME TypeOK, KeepaliveEntry \/ KeepalivePoll \/ DisconnectEntry \/ DisconnectPoll
                   \/ DisconnectIgnores \/ CleanupRefused
    PROVE  TypeOK'
<1>0. task \in TaskType /\ client \in ClientType /\ seen \in SeenType
  BY DEF TypeOK
<1>1. Timer1Set(task) \in TaskType /\ Priority(Timer1Set(task), "high") \in TaskType
  BY <1>0, TaskOps
<1>2. task' \in TaskType
  BY <1>0, <1>1, StateNames, TaskOps
  DEF KeepaliveEntry, KeepalivePoll, DisconnectEntry, DisconnectPoll, DisconnectIgnores,
      CleanupRefused
<1>3. client' \in ClientType
  BY <1>0, ClientOps
  DEF KeepaliveEntry, KeepalivePoll, DisconnectEntry, DisconnectPoll, DisconnectIgnores,
      CleanupRefused
<1>4. seen' \in SeenType
  BY <1>0, CallOnserviceType
  DEF KeepaliveEntry, KeepalivePoll, DisconnectEntry, DisconnectPoll, DisconnectIgnores,
      CleanupRefused
<1> QED BY <1>2, <1>3, <1>4, TypeReturn
  DEF KeepaliveEntry, KeepalivePoll, DisconnectEntry, DisconnectPoll, DisconnectIgnores,
      CleanupRefused

LEMMA FilledType ==
    ASSUME NEW c \in ClientType, NEW room \in Rooms(c)
    PROVE  Filled(c, room) \in ClientType /\ Start(c) \in Int
<1>1. /\ c.owned \in SUBSET Pointers /\ c.sent \in Int /\ c.index \in Int
      /\ c.source \in Int /\ c.total \in Sizes
  BY DEF ClientType
<1>2. Start(c) \in Int
  BY <1>1 DEF Start
<1>3. Want(c, room) \in Int
  <2>1. room \in Int
    BY <1>2, BoundsAssumption DEF Rooms
  <2> QED BY <1>1, <1>2, <2>1 DEF Want, Sizes, Unknown, Header, Least
<1>4. Got(c, room) \in Int
  BY <1>1, <1>3 DEF Got, Least
<1> DEFINE filled == Start(c) + Got(c, room)
           end    == c.total = Unknown /\ Got(c, room) < Want(c, room)
           total  == IF end THEN c.sent + filled - Header ELSE c.total
           source == c.source - Got(c, room)
<1>5. filled \in Int /\ source \in Int /\ total \in Sizes
  BY <1>1, <1>2, <1>4 DEF Sizes, Header
<1>6. /\ HandOver(c) \in ClientType
      /\ HandOver(c).source = c.source /\ HandOver(c).total = c.total
  BY ClientOps DEF HandOver, ClientType
<1>7. Filled(c, room) =
        [HandOver(c) EXCEPT !.index = filled, !.source = source, !.total = total]
  BY <1>6 DEF Filled, ClientType
<1>8. ASSUME NEW d \in ClientType, NEW i \in Int, NEW n \in Int, NEW m \in Sizes
      PROVE  [d EXCEPT !.index = i, !.source = n, !.total = m] \in ClientType
  BY ClientNumbers
<1> HIDE DEF filled, end, total, source
<1>9. [HandOver(c) EXCEPT !.index = filled, !.source = source, !.total = total] \in ClientType
  <2>1. HandOver(c) \in ClientType
    BY <1>6
  <2> QED BY <1>5, <1>8, <2>1
<1> QED BY <1>2, <1>7, <1>9

LEMMA TypeResponseSendPoll ==
    ASSUME TypeOK, ResponseSendPoll
    PROVE  TypeOK'
<1> DEFINE armed == IF Fresh(client) THEN Timer1Set(task) ELSE task
<1>0. task \in TaskType /\ client \in ClientType /\ seen \in SeenType
  BY DEF TypeOK
<1>1. armed \in TaskType /\ Start(client) \in Int
  BY <1>0, TaskOps DEF Start, ClientType
<1>2. CASE client' = client /\ UNCHANGED seen /\ TryLater
  <2>1. task' \in TaskType
    BY <1>0, <1>2, TaskOps DEF TryLater
  <2> QED BY <1>0, <1>2, <2>1, TypeReturn DEF ResponseSendPoll
<1>3. CASE /\ client' = [client EXCEPT !.owned = @ \cup {"cbuf"}, !.index = Start(client)]
           /\ task' = ReadFailed(armed) /\ UNCHANGED seen
  <2>1. client.owned \cup {"cbuf"} \in SUBSET Pointers
    BY <1>0 DEF ClientType, Pointers
  <2>2. client' \in ClientType
    BY <1>0, <1>1, <1>3, <2>1, ClientNumbers, ClientFields
  <2>3. task' \in TaskType
    BY <1>1, <1>3, StateNames, TaskOps DEF ReadFailed
  <2> QED BY <1>0, <1>3, <2>2, <2>3, TypeReturn DEF ResponseSendPoll
<1>4. ASSUME NEW room \in Rooms(client),
             client' = Filled(client, room),
             \E o \in Output : task' = PollDisable(SocketWrite(armed, o)),
             seen' = [seen EXCEPT !.heads = IF Fresh(client) THEN @ ELSE @ + 1]
      PROVE  TypeOK'
  <2>1. client' \in ClientType
    BY <1>0, <1>4, FilledType
  <2>2. \A o \in Output : SocketWrite(armed, o) \in TaskType
    BY <1>1, TaskOps
  <2>3. task' \in TaskType
    BY <1>4, <2>2, TaskOps
  <2>4. seen' \in SeenType
    BY <1>0, <1>4 DEF SeenType
  <2> QED BY <2>1, <2>3, <2>4, TypeReturn DEF ResponseSendPoll
<1> QED BY <1>2, <1>3, <1>4 DEF ResponseSendPoll, Output

LEMMA AppCallType ==
    ASSUME NEW t \in TaskType
    PROVE  SendFrame(t) \subseteq TaskType /\ AppCall(t) \subseteq TaskType
<1>1. ASSUME NEW k \in TaskType PROVE SendFrame(k) \subseteq TaskType
  BY TaskOps DEF SendFrame, Output
<1>2. Timer1Set(t) \in TaskType
  BY TaskOps
<1> QED BY <1>1, <1>2 DEF AppCall

LEMMA WebsocketReceiveType ==
    ASSUME NEW t \in TaskType, NEW c \in ClientType, WebsocketReceive(t, c)
    PROVE  task' \in TaskType /\ client' \in ClientType
<1>1. c.rcv \o t.rx \in Seq(Units)
  BY DEF TaskType, ClientType
<1>2. client' \in ClientType
  BY <1>1, ClientFields DEF WebsocketReceive
<1>3. [t EXCEPT !.rx = <<>>] \in TaskType
  <2>1. \A rx \in Seq(Units) : [t EXCEPT !.rx = rx] \in TaskType
    BY DEF TaskType
  <2> QED BY <2>1, Literals
<1> QED BY <1>2, <1>3, TaskOps DEF WebsocketReceive

LEMMA WebsocketFields ==
    ASSUME NEW c \in ClientType, NEW b \in BOOLEAN
    PROVE  /\ [c EXCEPT !.websocket.def = b] \in ClientType
           /\ [c EXCEPT !.websocket.disconnecting = b] \in ClientType
           /\ [c EXCEPT !.websocket.ping = b] \in ClientType
           /\ [c EXCEPT !.websocket.pong = b] \in ClientType
<1>1. c.websocket \in Websockets
  BY DEF ClientType
<1>2. /\ [c.websocket EXCEPT !.def = b] \in Websockets
      /\ [c.websocket EXCEPT !.disconnecting = b] \in Websockets
      /\ [c.websocket EXCEPT !.ping = b] \in Websockets
      /\ [c.websocket EXCEPT !.pong = b] \in Websockets
  BY <1>1 DEF Websockets
<1> QED BY <1>2, ClientFields

LEMMA TypeWebsocketEntry ==
    ASSUME TypeOK, WebsocketEntry
    PROVE  TypeOK'
<1> DEFINE entered == [Priority(task, "high") EXCEPT !.timer2 = Timeout]
           flagged == [client EXCEPT !.websocket.ping = TRUE, !.websocket.pong = TRUE]
<1>1. entered \in TaskType
  <2>1. Priority(task, "high") \in TaskType /\ Timeout \in Clocks
    BY TaskOps, TimeoutAssumption DEF TypeOK, Clocks
  <2> QED BY <2>1 DEF TaskType
<1>2. flagged \in ClientType
  BY WebsocketFields DEF TypeOK
<1>3. [Cleaned(flagged) EXCEPT !.websocket.def = TRUE] \in ClientType
  <2> HIDE DEF flagged
  <2> QED BY <1>2, ClientOps, WebsocketFields
<1>6. [flagged EXCEPT !.websocket.def = TRUE] \in ClientType
  <2> HIDE DEF flagged
  <2> QED BY <1>2, WebsocketFields
<1> HIDE DEF entered, flagged
<1>4. CASE \/ Hang("no url to look up") \/ Hang("no websocket service")
  BY <1>4, TypeHang DEF Halts
<1>5. CASE /\ \/ \E t \in AppCall(entered) :
                    WebsocketReceive(t, [Cleaned(flagged) EXCEPT !.websocket.def = TRUE])
              \/ /\ task' \in {Goto(t, "http_disconnect") : t \in AppCall(entered)}
                 /\ client' = flagged
              \/ /\ task' = Goto(entered, "http_disconnect")
                 /\ client' = [flagged EXCEPT !.websocket.def = TRUE]
           /\ UNCHANGED seen
           /\ Return
  <2>1. AppCall(entered) \subseteq TaskType
    BY <1>1, AppCallType
  <2>2. task' \in TaskType /\ client' \in ClientType
    BY <1>1, <1>2, <1>3, <1>5, <1>6, <2>1, WebsocketReceiveType, StateNames, TaskOps
  <2> QED BY <1>5, <2>2, TypeReturn DEF TypeOK
<1> QED BY <1>4, <1>5 DEF WebsocketEntry, entered, flagged

LEMMA TypeWebsocketRead ==
    ASSUME TypeOK, WebsocketRead
    PROVE  TypeOK'
<1>1. task' \in TaskType /\ client' \in ClientType
  BY WebsocketReceiveType DEF WebsocketRead, TypeOK
<1> QED BY <1>1, TypeReturn DEF WebsocketRead, TypeOK

\* What processing input and output results in.
Results == [err : {"OK", "POLL", "FATAL"}, task : TaskType, client : ClientType]

LEMMA ProcessRxType ==
    ASSUME NEW t \in TaskType, NEW c \in ClientType
    PROVE  ProcessRx(t, c) \subseteq Results
<1>1. ASSUME NEW left \in Seq(Units), NEW ds \in SUBSET BOOLEAN
      PROVE  Heard(c, left, ds) \subseteq ClientType
  <2>1. [def : {c.websocket.def}, disconnecting : ds, ping : {c.websocket.ping},
         pong : {c.websocket.pong, TRUE}] \subseteq Websockets
    BY DEF ClientType, Websockets
  <2>2. \A w \in Websockets : [c EXCEPT !.rcv = left, !.websocket = w] \in ClientType
    BY ClientFields
  <2> QED BY <2>1, <2>2 DEF Heard
<1>2. c.rcv \in Seq(Units)
  BY DEF ClientType
<1>3. /\ Heard(c, c.rcv, {FALSE}) \subseteq ClientType
      /\ Heard(c, c.rcv, BOOLEAN) \subseteq ClientType
      /\ Heard(c, <<>>, BOOLEAN) \subseteq ClientType
  <2>1. {FALSE} \in SUBSET BOOLEAN /\ BOOLEAN \in SUBSET BOOLEAN
    OBVIOUS
  <2> QED BY <1>1, <1>2, <2>1, Literals
<1>4. AppCall(t) \subseteq TaskType
  BY AppCallType
<1> QED BY <1>3, <1>4 DEF ProcessRx, Results

LEMMA ProcessTxType ==
    ASSUME NEW r \in Results
    PROVE  ProcessTx(r) \subseteq Results
<1>1. r.task \in TaskType /\ r.client \in ClientType
  BY DEF Results
<1>2. SendFrame(r.task) \subseteq TaskType
  BY <1>1, AppCallType
<1>3. [r.client EXCEPT !.websocket.ping = FALSE] \in ClientType
  BY <1>1, WebsocketFields
<1> QED BY <1>2, <1>3 DEF ProcessTx, Results

LEMMA TypeWebsocketPoll ==
    ASSUME TypeOK, WebsocketPoll
    PROVE  TypeOK'
<1>1. PICK rx \in ProcessRx(task, client) :
         \/ /\ rx.err = "FATAL"
            /\ client' = rx.client
            /\ task' = Goto(rx.task, "http_disconnect")
         \/ /\ rx.err # "FATAL"
            /\ \E tx \in ProcessTx(rx) :
                 /\ client' = tx.client
                 /\ task' \in CASE tx.err = "FATAL" -> {Goto(tx.task, "http_disconnect")}
                                [] tx.err = "POLL"  -> {PollBackoff(tx.task)}
                                [] tx.err = "OK"    -> {PollDisable(tx.task), PollBackoff(tx.task)}
  BY DEF WebsocketPoll
<1>2. rx \in Results
  BY ProcessRxType DEF TypeOK
<1>3. CASE client' = rx.client /\ task' = Goto(rx.task, "http_disconnect")
  <2>1. client' \in ClientType /\ task' \in TaskType
    BY <1>2, <1>3, StateNames, TaskOps DEF Results
  <2> QED BY <2>1, TypeReturn DEF WebsocketPoll, TypeOK
<1>4. CASE \E tx \in ProcessTx(rx) :
             /\ client' = tx.client
             /\ task' \in CASE tx.err = "FATAL" -> {Goto(tx.task, "http_disconnect")}
                            [] tx.err = "POLL"  -> {PollBackoff(tx.task)}
                            [] tx.err = "OK"    -> {PollDisable(tx.task), PollBackoff(tx.task)}
  <2>1. PICK tx \in ProcessTx(rx) :
             /\ client' = tx.client
             /\ task' \in CASE tx.err = "FATAL" -> {Goto(tx.task, "http_disconnect")}
                            [] tx.err = "POLL"  -> {PollBackoff(tx.task)}
                            [] tx.err = "OK"    -> {PollDisable(tx.task), PollBackoff(tx.task)}
    BY <1>4
  <2>2. tx.err \in {"OK", "POLL", "FATAL"} /\ tx.task \in TaskType /\ tx.client \in ClientType
    BY <1>2, ProcessTxType DEF Results
  <2>3. client' \in ClientType /\ task' \in TaskType
    BY <2>1, <2>2, StateNames, TaskOps
  <2> QED BY <2>3, TypeReturn DEF WebsocketPoll, TypeOK
<1> QED BY <1>1, <1>3, <1>4

LEMMA TypeWebsocketRest ==
    ASSUME TypeOK, WebsocketSent \/ AppTimer \/ PingTimer \/ WebsocketAbort
    PROVE  TypeOK'
<1>0. task \in TaskType /\ client \in ClientType
  BY DEF TypeOK
<1>1. CASE WebsocketSent
  BY <1>0, <1>1, TaskOps, TypeReturn DEF WebsocketSent, TypeOK
<1>2. CASE AppTimer
  <2>1. client' \in ClientType
    BY <1>0, <1>2, WebsocketFields DEF AppTimer
  <2>2. task' \in TaskType
    BY <1>0, <1>2, AppCallType, TaskOps DEF AppTimer
  <2> QED BY <1>2, <2>1, <2>2, TypeReturn DEF AppTimer, TypeOK
<1>3. CASE PingTimer
  <2>1. client' \in ClientType
    BY <1>0, <1>3, WebsocketFields DEF PingTimer
  <2>2. task' \in TaskType
    <3>1. [task EXCEPT !.timer2 = Timeout] \in TaskType
      BY <1>0, TimeoutAssumption DEF TaskType, Clocks
    <3> QED BY <1>0, <1>3, <3>1, StateNames, TaskOps DEF PingTimer
  <2> QED BY <1>3, <2>1, <2>2, TypeReturn DEF PingTimer, TypeOK
<1>4. CASE WebsocketAbort
  BY <1>0, <1>4, StateNames, TaskOps, TypeReturn DEF WebsocketAbort, TypeOK
<1> QED BY <1>1, <1>2, <1>3, <1>4

LEMMA NoTaskType == NoTask \in TaskType /\ FreshTask \in TaskType
<1>1. FreshTask \in TaskType
  BY Literals DEF FreshTask, TaskType, States, HttpStates, Transient, Clocks
<1> QED BY <1>1 DEF NoTask, TaskType, States

LEMMA MallocedType ==
    ASSUME NEW head \in BOOLEAN, NEW upgrade \in BOOLEAN
    PROVE  Malloced(head, upgrade) \in ClientType
  BY Literals DEF Malloced, ClientType, Sizes

LEMMA TypePhases ==
    ASSUME TypeOK, PollPhase \/ Timer1Phase \/ Timer2Phase
    PROVE  TypeOK'
<1>0. task \in TaskType
  BY DEF TypeOK
<1>1. CASE PollPhase
  BY <1>1 DEF PollPhase, TypeOK, Passes, Events, Throw
<1>2. CASE Timer1Phase
  <2>1. task' \in TaskType
    BY <1>0, <1>2 DEF Timer1Phase, TaskType, Clocks
  <2> QED BY <1>2, <2>1 DEF Timer1Phase, TypeOK, Passes, Events, Throw
<1>3. CASE Timer2Phase
  <2>1. task' \in TaskType
    BY <1>0, <1>3 DEF Timer2Phase, TaskType, Clocks
  <2> QED BY <1>3, <2>1 DEF Timer2Phase, TypeOK, Passes, Events, Throw
<1> QED BY <1>1, <1>2, <1>3

LEMMA TypeTx ==
    ASSUME TypeOK, TxSkip \/ TxAssert \/ TxWrite \/ TxBlocked \/ TxError
    PROVE  TypeOK'
<1>0. task \in TaskType
  BY DEF TypeOK
<1>1. CASE TxSkip
  BY <1>1 DEF TxSkip, TypeOK, Passes
<1>2. CASE TxAssert
  BY <1>2, TypeHang DEF TxAssert, Halts
<1>3. CASE TxWrite
  <2>1. Tail(task.queue) \in Seq(Output)
    <3>1. task.queue # <<>> /\ task.queue \in Seq(Output)
      BY <1>0, <1>3 DEF TxWrite, TxNothing, TaskType
    <3> QED BY <3>1
  <2>2. \A q \in Seq(Output), delta \in Clocks :
          [task EXCEPT !.queue = q, !.network_tx = delta] \in TaskType
    BY <1>0 DEF TaskType
  <2>3. (IF Len(task.queue) = 1 THEN Infinite ELSE 0) \in Clocks
    BY DEF Clocks
  <2>4. task' \in TaskType
    BY <1>3, <2>1, <2>2, <2>3 DEF TxWrite
  <2> QED BY <1>3, <2>4 DEF TxWrite, TypeOK, Passes, Events, Throw
<1>4. CASE TxBlocked
  <2>1. task' \in TaskType
    BY <1>0, <1>4 DEF TxBlocked, TaskType, Clocks
  <2> QED BY <1>4, <2>1 DEF TxBlocked, TypeOK, Passes
<1>5. CASE TxError
  <2>1. task' \in TaskType
    <3>1. \A q \in Seq(Output) : [task EXCEPT !.queue = q] \in TaskType
      BY <1>0 DEF TaskType
    <3>2. <<>> \in Seq(Output)
      OBVIOUS
    <3> QED BY <1>5, <3>1, <3>2 DEF TxError
  <2> QED BY <1>5, <2>1 DEF TxError, TypeOK, Passes, Events, Throw
<1> QED BY <1>1, <1>2, <1>3, <1>4, <1>5

LEMMA TypeSockets ==
    ASSUME TypeOK, Finish \/ Starve \/ Accept \/ Receive \/ PeerCloses \/ NoSocketEvent \/ Clock
    PROVE  TypeOK'
<1>0. task \in TaskType
  BY DEF TypeOK
<1>1. CASE Finish
  <2>1. NoClient \in ClientType
    BY MallocedType DEF NoClient
  <2> QED BY <1>1, <2>1, NoTaskType, NothingSeenType DEF Finish, TypeOK, Passes
<1>2. CASE Starve
  BY <1>2 DEF Starve, TypeOK, Passes, Events, Throw
<1>3. CASE Accept
  BY <1>3, NoTaskType, MallocedType DEF Accept, TypeOK, Passes, Events, Throw
<1>4. CASE Receive
  <2>1. PICK u \in Units, d \in 0..Timeout :
          task' = [TimeAdvance(task, d) EXCEPT !.rx = Append(@, u)]
    BY <1>4 DEF Receive
  <2>2. TimeAdvance(task, d) \in TaskType
    BY <1>0, TimeoutAssumption, TaskOps
  <2> DEFINE k == TimeAdvance(task, d)
  <2> HIDE DEF k
  <2>3. k \in TaskType
    BY <2>2 DEF k
  <2>4. Append(k.rx, u) \in Seq(Units)
    BY <2>3 DEF TaskType
  <2>5. [k EXCEPT !.rx = Append(@, u)] \in TaskType
    BY <2>3, <2>4 DEF TaskType
  <2> QED BY <1>4, <2>1, <2>5 DEF Receive, TypeOK, Passes, Events, Throw, k
<1>5. CASE PeerCloses
  <2>1. task' \in TaskType
    BY <1>0, <1>5 DEF PeerCloses, TaskType
  <2> QED BY <1>5, <2>1 DEF PeerCloses, TypeOK, Passes, Events, Throw
<1>6. CASE NoSocketEvent
  BY <1>6 DEF NoSocketEvent, TypeOK, Passes
<1>7. CASE Clock
  <2>1. task' \in TaskType
    <3>1. PICK d \in 0..Timeout : TimePasses(d)
      BY <1>7 DEF Clock
    <3>2. d \in Nat
      BY <3>1, TimeoutAssumption
    <3> QED BY <1>0, <3>1, <3>2, TaskOps DEF TimePasses
  <2> QED BY <1>7, <2>1 DEF Clock, TimePasses, TypeOK, Passes
<1> QED BY <1>1, <1>2, <1>3, <1>4, <1>5, <1>6, <1>7

-----------------------------------------------------------------------------
(* Body framing                                                            *)

\* What BodyWithinLength speaks of: only the start of a new part and the
\* processors touch it.
SameFraming(c, d) == d.got = c.got /\ d.isp = c.isp /\ d.request = c.request

LEMMA FramingOps ==
    ASSUME NEW c \in ClientType
    PROVE  /\ SameFraming(c, NewRequest(c))
           /\ SameFraming(c, ParseFailed(c)) /\ SameFraming(c, ParseDone(c))
           /\ SameFraming(c, ParamsParsed(c)) /\ SameFraming(c, HeaderBuilt(c))
           /\ SameFraming(c, ResourceClose(c)) /\ SameFraming(c, HandOver(c))
           /\ SameFraming(c, Cleaned(c)) /\ SameFraming(c, Released(c))
           /\ SameFraming(c, Refused(c))
<1> USE DEF SameFraming, ClientType
<1>1. SameFraming(c, NewRequest(c))
  BY DEF NewRequest
<1>2. SameFraming(c, ParseFailed(c))
  BY DEF ParseFailed
<1>3. SameFraming(c, ParseDone(c))
  BY DEF ParseDone, ParseFailed
<1>4. SameFraming(c, ParamsParsed(c)) /\ SameFraming(c, HeaderBuilt(c))
  BY DEF ParamsParsed, HeaderBuilt
<1>5. SameFraming(c, ResourceClose(c)) /\ SameFraming(c, HandOver(c))
  BY DEF ResourceClose, HandOver
<1>6. SameFraming(c, Cleaned(c))
  BY DEF Cleaned
<1>7. SameFraming(c, Released(c))
  BY DEF Released, Cleaned
<1>8. SameFraming(c, Refused(c))
  BY DEF Refused
<1> QED BY <1>1, <1>2, <1>3, <1>4, <1>5, <1>6, <1>7, <1>8

LEMMA FramingRequest ==
    ASSUME TypeOK, \/ ConnectionAccepted \/ RequestStoreEntry \/ RequestStoreRead \/ EnterWorking
                   \/ HeadersParse \/ ExpectReplyPoll \/ ExpectReplySent
                   \/ Authenticate \/ ParamsGet \/ IgnoreRead \/ GiveUp \/ UnexpectedEvent
                   \/ FileAssert
    PROVE  SameFraming(client, client')
<1>0. client \in ClientType
  BY DEF TypeOK
<1>1. CASE ConnectionAccepted
  BY <1>0, <1>1 DEF ConnectionAccepted, SameFraming, ClientType
<1>2. CASE RequestStoreEntry \/ RequestStoreRead
  BY <1>0, <1>2 DEF RequestStoreEntry, RequestStoreRead, TakeInput, Hang, SameFraming, ClientType
<1>3. CASE EnterWorking
  BY ZenonT(60), <1>0, <1>3 DEF EnterWorking, Hang, SameFraming, ClientType
<1>4. CASE HeadersParse
  <2>1. SameFraming(client, ParseFailed(client)) /\ ParseFailed(client) \in ClientType
    BY <1>0, FramingOps, ClientOps
  <2>2. ASSUME NEW d \in ClientType, SameFraming(client, d), NEW code, NEW e,
               client' = [d EXCEPT !.fatal = code, !.expect = e]
        PROVE  SameFraming(client, client')
    BY <2>2 DEF SameFraming, ClientType
  <2>3. \/ client' = ParseDone(client) \/ client' = ParseFailed(client)
        \/ \E code \in RefusedStatus(client) :
              client' = [ParseFailed(client) EXCEPT !.fatal = code,
                           !.expect = IF client.request = "expect" THEN "417" ELSE @]
    BY <1>4 DEF HeadersParse
  <2>4. CASE client' = ParseDone(client)
    BY <1>0, <2>4, FramingOps
  <2>5. CASE client' = ParseFailed(client)
    BY <2>1, <2>5
  <2>6. ASSUME NEW code \in RefusedStatus(client),
               client' = [ParseFailed(client) EXCEPT !.fatal = code,
                            !.expect = IF client.request = "expect" THEN "417" ELSE @]
        PROVE  SameFraming(client, client')
    <3> DEFINE e == IF client.request = "expect" THEN "417" ELSE ParseFailed(client).expect
    <3>1. client' = [ParseFailed(client) EXCEPT !.fatal = code, !.expect = e]
      BY <2>1, <2>6 DEF ClientType
    <3> HIDE DEF e
    <3> QED BY <2>1, <2>2, <3>1
  <2> QED BY <2>3, <2>4, <2>5, <2>6
<1>5. CASE Authenticate
  BY <1>0, <1>5 DEF Authenticate, SameFraming, ClientType
<1>6. CASE ParamsGet
  BY ZenonT(60), <1>0, <1>6, FramingOps DEF ParamsGet, Hang, SameFraming
<1>7. CASE ExpectReplyPoll \/ ExpectReplySent \/ IgnoreRead \/ GiveUp \/ UnexpectedEvent
  BY <1>7 DEF ExpectReplyPoll, ExpectReplySent, IgnoreRead, GiveUp, UnexpectedEvent, Hang,
              SameFraming
<1>8. CASE FileAssert
  BY <1>8, FileAssertHangs DEF Hang, SameFraming
<1> QED BY <1>1, <1>2, <1>3, <1>4, <1>5, <1>6, <1>7, <1>8

LEMMA FramingResponse ==
    ASSUME TypeOK, \/ FatalErrorEntry \/ ResponseEntry \/ MvcPreConfigure \/ PrepareHttpResponse
                   \/ MvcPostConfigure \/ BuildHttpResponse \/ ResponseSendPoll \/ ResponseSendSent
                   \/ KeepaliveEntry \/ KeepalivePoll
                   \/ DisconnectEntry \/ DisconnectPoll \/ DisconnectIgnores \/ CleanupRefused
    PROVE  SameFraming(client, client')
<1>0. client \in ClientType
  BY DEF TypeOK
<1>1. CASE FatalErrorEntry
  BY <1>0, <1>1 DEF FatalErrorEntry, SameFraming, ClientType
<1>2. CASE ResponseEntry
  BY ZenonT(60), <1>0, <1>2 DEF ResponseEntry, Hang, SameFraming, ClientType
<1>3. CASE MvcPreConfigure
  <2> DEFINE cleared == [client EXCEPT !.owned = @ \ {"mvc"}, !.connection = "keepalive"]
  <2>1. SameFraming(client, cleared) /\ cleared \in ClientType
    <3>1. client.owned \ {"mvc"} \in SUBSET Pointers
      BY <1>0 DEF ClientType
    <3>2. cleared \in ClientType
      BY <1>0, <3>1, ClientFields
    <3> QED BY <1>0, <3>2 DEF SameFraming, ClientType
  <2> HIDE DEF cleared
  <2>2. ASSUME NEW b \in BOOLEAN
        PROVE  LET d == [cleared EXCEPT !.onservice = @ \/ b]
               IN  SameFraming(client, d) /\ d \in ClientType
    <3>1. (cleared.onservice \/ b) \in BOOLEAN
      OBVIOUS
    <3> DEFINE d == [cleared EXCEPT !.onservice = @ \/ b]
    <3>2. d \in ClientType
      BY <2>1, <3>1, ClientFlags
    <3>3. SameFraming(cleared, d)
      BY <2>1 DEF SameFraming, ClientType
    <3> HIDE DEF d
    <3> QED BY <2>1, <3>2, <3>3 DEF SameFraming, d
  <2>3. ASSUME NEW c \in ClientType, NEW d \in Configured(c) \cup Controlled(c)
        PROVE  SameFraming(c, d)
    <3>1. \A status, connection, freed :
            /\ SameFraming(c, Page(c, status, connection, FALSE, freed))
            /\ SameFraming(c, Page(c, status, connection, TRUE, freed))
      BY DEF Page, SameFraming, ClientType
    <3>2. CASE d \in Configured(c)
      BY <3>1, <3>2 DEF Configured, Handshake
    <3>3. CASE d \in Controlled(c)
      BY <3>1, <3>3 DEF Controlled
    <3> QED BY <3>2, <3>3
  <2>4. \/ client' \in Configured(cleared)
        \/ \E b \in BOOLEAN : client' \in Controlled([cleared EXCEPT !.onservice = @ \/ b])
        \/ \E b \in BOOLEAN : client' = [cleared EXCEPT !.onservice = @ \/ b]
    BY ZenonT(60), <1>3 DEF MvcPreConfigure, cleared, AppPage
  <2> QED BY ZenonT(60), <2>1, <2>2, <2>3, <2>4 DEF SameFraming
<1>4. CASE PrepareHttpResponse
  BY ZenonT(60), <1>0, <1>4 DEF PrepareHttpResponse, Hang, SameFraming, ClientType
<1>5. CASE MvcPostConfigure
  <2>1. ASSUME NEW n, NEW m, client' = [client EXCEPT !.total = m, !.source = n]
        PROVE  SameFraming(client, client')
    BY <1>0, <2>1 DEF SameFraming, ClientType
  <2>2. ASSUME NEW code, client' = [ResourceClose(client) EXCEPT !.fatal = code]
        PROVE  SameFraming(client, client')
    BY <1>0, <2>2 DEF ResourceClose, SameFraming, ClientType
  <2> QED BY <1>5, <2>1, <2>2 DEF MvcPostConfigure
<1>6. CASE BuildHttpResponse
  <2>1. SameFraming(client, [HeaderBuilt(client) EXCEPT !.total = IF client.head THEN 0 ELSE @])
    BY <1>0 DEF HeaderBuilt, SameFraming, ClientType
  <2>2. SameFraming(client, [ResourceClose(client) EXCEPT !.owned = @ \ {"cbuf"}])
    BY <1>0 DEF ResourceClose, SameFraming, ClientType
  <2> QED BY <1>6, <2>1, <2>2 DEF BuildHttpResponse, SameFraming
<1>7. CASE ResponseSendPoll
  <2>1. ASSUME NEW room, client' = Filled(client, room)
        PROVE  SameFraming(client, client')
    BY <1>0, <2>1 DEF Filled, HandOver, SameFraming, ClientType
  <2>2. ASSUME NEW index,
               client' = [client EXCEPT !.owned = @ \cup {"cbuf"}, !.index = index]
        PROVE  SameFraming(client, client')
    BY <1>0, <2>2 DEF SameFraming, ClientType
  <2>3. SameFraming(client, client)
    BY DEF SameFraming
  <2> QED BY <1>7, <2>1, <2>2, <2>3 DEF ResponseSendPoll
<1>8. CASE ResponseSendSent
  BY <1>0, <1>8 DEF ResponseSendSent, SameFraming, ClientType
<1>9. CASE \/ KeepaliveEntry \/ KeepalivePoll
           \/ DisconnectEntry \/ DisconnectPoll \/ DisconnectIgnores \/ CleanupRefused
  BY <1>0, <1>9, FramingOps
  DEF KeepaliveEntry, KeepalivePoll, DisconnectEntry, DisconnectPoll, DisconnectIgnores,
      CleanupRefused, SameFraming
<1> QED BY <1>1, <1>2, <1>3, <1>4, <1>5, <1>6, <1>7, <1>8, <1>9

LEMMA FramingWebsocket ==
    ASSUME TypeOK, WebsocketHandlers
    PROVE  SameFraming(client, client')
<1>0. client \in ClientType /\ task \in TaskType
  BY DEF TypeOK
<1>1. CASE WebsocketEntry
  <2> DEFINE flagged == [client EXCEPT !.websocket.ping = TRUE, !.websocket.pong = TRUE]
  <2>1. SameFraming(client, flagged)
    BY <1>0 DEF SameFraming, ClientType
  <2>2. \A rcv : SameFraming(client, [[Cleaned(flagged) EXCEPT !.websocket.def = TRUE]
                                         EXCEPT !.rcv = rcv])
    BY <1>0 DEF Cleaned, SameFraming, ClientType
  <2>4. SameFraming(client, [flagged EXCEPT !.websocket.def = TRUE])
    BY <1>0 DEF SameFraming, ClientType
  <2>3. client' = client \/ client' = flagged
        \/ client' = [flagged EXCEPT !.websocket.def = TRUE]
        \/ \E rcv : client' = [[Cleaned(flagged) EXCEPT !.websocket.def = TRUE]
                                 EXCEPT !.rcv = rcv]
    BY <1>1 DEF WebsocketEntry, WebsocketReceive, Hang
  <2> HIDE DEF flagged
  <2> QED BY <2>1, <2>2, <2>3, <2>4 DEF SameFraming
<1>2. CASE WebsocketRead
  BY <1>0, <1>2 DEF WebsocketRead, WebsocketReceive, SameFraming, ClientType
<1>3. CASE WebsocketPoll
  <2>1. PICK rx \in ProcessRx(task, client) :
          client' = rx.client \/ \E tx \in ProcessTx(rx) : client' = tx.client
    BY <1>3 DEF WebsocketPoll
  <2>2. SameFraming(client, rx.client)
    <3>1. \A left, ds : \A d \in Heard(client, left, ds) : SameFraming(client, d)
      BY ZenonT(60), <1>0 DEF Heard, SameFraming, ClientType
    <3>2. SameFraming(client, client)
      BY DEF SameFraming
    <3> QED BY <2>1, <3>1, <3>2 DEF ProcessRx
  <2>3. rx \in Results
    BY <1>0, ProcessRxType
  <2>4. \A tx \in ProcessTx(rx) : SameFraming(rx.client, tx.client)
    <3>1. \A tx \in ProcessTx(rx) :
            tx.client = rx.client \/ tx.client = [rx.client EXCEPT !.websocket.ping = FALSE]
      BY <2>3 DEF ProcessTx, Results
    <3>2. rx.client \in ClientType
      BY <2>3 DEF Results
    <3>3. SameFraming(rx.client, [rx.client EXCEPT !.websocket.ping = FALSE])
      BY <3>2 DEF SameFraming, ClientType
    <3> QED BY <3>1, <3>3 DEF SameFraming
  <2> QED BY <2>1, <2>2, <2>4 DEF SameFraming
<1>4. CASE WebsocketSent \/ WebsocketAbort
  BY <1>4 DEF WebsocketSent, WebsocketAbort, SameFraming
<1>5. CASE AppTimer
  BY <1>0, <1>5 DEF AppTimer, SameFraming, ClientType
<1>6. CASE PingTimer
  BY <1>0, <1>6 DEF PingTimer, SameFraming, ClientType
<1>7. CASE WebsocketUncleaned
  BY <1>7, FramingRequest DEF FileAssert
<1> QED BY <1>1, <1>2, <1>3, <1>4, <1>5, <1>6, <1>7 DEF WebsocketHandlers

LEMMA FramingScheduler ==
    ASSUME TypeOK, BodyWithinLength, Settle \/ Scheduler
    PROVE  BodyWithinLength'
<1>1. CASE UNCHANGED client
  BY <1>1 DEF BodyWithinLength
<1>2. ASSUME NEW head, NEW upgrade, client' = Malloced(head, upgrade)
      PROVE  BodyWithinLength'
  BY <1>2 DEF Malloced, BodyWithinLength
<1>3. \/ UNCHANGED client
      \/ \E head, upgrade : client' = Malloced(head, upgrade)
  BY DEF Settle, Scheduler, PollPhase, Timer1Phase, Timer2Phase, TxSkip, TxAssert, Hang, TxWrite,
         TxBlocked, TxError, Finish, NoClient, Starve, Accept, Receive, PeerCloses,
         NoSocketEvent, Clock, TimePasses
<1> QED BY <1>1, <1>2, <1>3

LEMMA FramingNext ==
    ASSUME TypeOK, BodyWithinLength, Next
    PROVE  BodyWithinLength'
<1>0. client \in ClientType
  BY DEF TypeOK
<1>1. CASE SameFraming(client, client')
  BY <1>1 DEF SameFraming, BodyWithinLength
<1>2. CASE HeadersReceive \/ BodyReceive
  <2>1. CASE client.store
    BY <1>2, <2>1 DEF HeadersReceive, BodyReceive, Hang, BodyWithinLength
  <2>2. CASE ~client.store
    <3>1. \A d \in ClientType, isp \in {"headers", "body"} : IspStart(d, isp).got = 0
      BY DEF IspStart, ClientType
    <3>2. client'.got = 0
      BY <1>0, <1>2, <2>2, <3>1, ClientOps DEF HeadersReceive, BodyReceive
    <3> QED BY <3>2 DEF BodyWithinLength, BodyLen
  <2> QED BY <2>1, <2>2
<1>3. CASE RequestStorePoll
  BY <1>3, TypeRequestStorePoll
<1>4. CASE Settle \/ Scheduler
  BY <1>4, FramingScheduler
<1>5. CASE Halted
  BY <1>5 DEF Halted, vars, BodyWithinLength
<1> QED BY <1>1, <1>2, <1>3, <1>4, <1>5, FramingRequest, FramingResponse, FramingWebsocket
        DEF Next, Handlers, RequestHandlers, ResponseHandlers, FileAssert

LEMMA TypeNext ==
    ASSUME TypeOK, BodyWithinLength, Next
    PROVE  TypeOK'
<1>1. CASE RequestHandlers
  BY <1>1, TypeConnectionAccepted, TypeHeadersReceive, TypeBodyReceive, TypeRequestStoreEntry,
     TypeRequestStoreRead, TypeRequestStorePoll, TypeEnterWorking, TypeHeadersParse,
     TypeExpectReplyPoll, TypeExpectReplySent, TypeAuthenticate, TypeParamsGet,
     TypeShared
  DEF RequestHandlers, FileAssert
<1>2. CASE ResponseHandlers
  BY <1>2, TypeFatalErrorEntry, TypeResponseEntry, TypeMvcPreConfigure, TypePrepareHttpResponse,
     TypeMvcPostConfigure, TypeBuildHttpResponse, TypeResponseSendPoll, TypeResponseSendSent,
     TypeReleases, TypeShared
  DEF ResponseHandlers, FileAssert
<1>3. CASE WebsocketHandlers
  BY <1>3, TypeWebsocketEntry, TypeWebsocketRead, TypeWebsocketPoll, TypeWebsocketRest, TypeShared
  DEF WebsocketHandlers, FileAssert
<1>4. CASE IgnoreRead \/ GiveUp \/ UnexpectedEvent \/ Settle
  BY <1>4, TypeShared, TypeSettle
<1>5. CASE Scheduler
  BY <1>5, TypePhases, TypeTx, TypeSockets DEF Scheduler
<1>6. CASE Halted
  BY <1>6 DEF Halted, vars, TypeOK
<1> QED BY <1>1, <1>2, <1>3, <1>4, <1>5, <1>6 DEF Next, Handlers

\* The variables always hold what the C types and enumerations allow, and the body
\* processors never take more input than the request announced.
THEOREM TypeCorrect == Spec => [](TypeOK /\ BodyWithinLength)
<1>1. Init => TypeOK /\ BodyWithinLength
  <2>1. NoClient \in ClientType
    BY MallocedType DEF NoClient
  <2>2. NoClient.got = 0 /\ NoClient.isp = "headers"
    BY DEF NoClient, Malloced
  <2> QED BY <2>1, <2>2, NoTaskType, NothingSeenType
          DEF Init, TypeOK, Passes, Events, Halts, BodyWithinLength
<1>2. TypeOK /\ BodyWithinLength /\ [Next]_vars => (TypeOK /\ BodyWithinLength)'
  <2>1. CASE Next
    BY <2>1, TypeNext, FramingNext
  <2>2. CASE UNCHANGED vars
    BY <2>2 DEF vars, TypeOK, BodyWithinLength
  <2> QED BY <2>1, <2>2
<1> QED BY <1>1, <1>2, PTL DEF Spec

-----------------------------------------------------------------------------
(* What a step has to show                                                 *)

Control == CycleInv /\ ResourceOwnership

Step == Control' /\ [Cycle!Next]_(Cycle!cycle)

\* What of the client's memory the control depends on.
Held(c) == c.owned \cap {"resource", "cbuf"}

\* While these states are asked for, no response was started.
Early == (Receiving \cup Serving) \ {"response_send"}

\* The pairs of states a handler may move between without having to say more.
Allowed(s, t) ==
    \/ PhaseOf(s) = PhaseOf(t)
    \/ PhaseOf(s) = "receiving" /\ PhaseOf(t) = "serving"
    \/ PhaseOf(s) \in Cycle!Open /\ PhaseOf(t) = "closing"

LEMMA PhaseNames ==
    /\ \A s \in Idle : PhaseOf(s) = "idle"
    /\ \A s \in Receiving : PhaseOf(s) = "receiving"
    /\ \A s \in Serving : PhaseOf(s) = "serving"
    /\ PhaseOf("absent") = "free" /\ PhaseOf("websocket") = "talking"
    /\ PhaseOf("http_disconnect") = "closing" /\ PhaseOf("NULL") = "closing"
    /\ PhaseOf("headers_receive") = "idle" /\ PhaseOf("request_store") = "receiving"
    /\ PhaseOf("response_send") = "serving"
  BY DEF PhaseOf, Idle, Receiving, Serving

\* The operators on a task that leave its control alone, and those that do not.
LEMMA TaskControl ==
    ASSUME NEW t \in TaskType
    PROVE  /\ \A s : /\ Goto(t, s).state = t.state /\ Goto(t, s).new_state = s
                     /\ Goto(t, s).queue = t.queue
           /\ \A k \in {PollEnable(t), PollDisable(t), PollBackoff(t), Timer1Set(t)} :
                k.state = t.state /\ k.new_state = t.new_state /\ k.queue = t.queue
           /\ \A p, d : \A k \in {Priority(t, p), TimeAdvance(t, d)} :
                k.state = t.state /\ k.new_state = t.new_state /\ k.queue = t.queue
           /\ \A o : /\ SocketWrite(t, o).state = t.state
                     /\ SocketWrite(t, o).new_state = t.new_state
<1> USE DEF TaskType
<1>1. \A s : /\ Goto(t, s).state = t.state /\ Goto(t, s).new_state = s
             /\ Goto(t, s).queue = t.queue
  BY DEF Goto
<1>2. \A k \in {PollEnable(t), PollDisable(t), PollBackoff(t), Timer1Set(t)} :
        k.state = t.state /\ k.new_state = t.new_state /\ k.queue = t.queue
  BY DEF PollEnable, PollDisable, PollBackoff, Timer1Set
<1>3. \A p, d : \A k \in {Priority(t, p), TimeAdvance(t, d)} :
        k.state = t.state /\ k.new_state = t.new_state /\ k.queue = t.queue
  BY DEF Priority, TimeAdvance
<1>4. \A o : SocketWrite(t, o).state = t.state /\ SocketWrite(t, o).new_state = t.new_state
  BY DEF SocketWrite
<1> QED BY <1>1, <1>2, <1>3, <1>4

\* A failed assertion changes nothing else.
LEMMA HangStep ==
    ASSUME Control, NEW a, a # "no", Hang(a)
    PROVE  Step
  BY DEF Control, CycleInv, ResourceOwnership, Hang, Step, Cycle!cycle

\* A handler that stays in its state and queues nothing.
LEMMA StayStep ==
    ASSUME Control, halted = "no", ev \in Events, Return, task'.state = task.state,
           task'.new_state = task.new_state, task'.queue = task.queue,
           seen'.heads = seen.heads, Held(client') = Held(client)
    PROVE  Step
<1>1. ev' = "none" /\ halted' = "no"
  BY DEF Return, Control, CycleInv, Events
<1>2. ("cbuf" \in client'.owned) <=> ("cbuf" \in client.owned)
  BY DEF Held
<1>3. CycleInv'
  BY <1>1, <1>2 DEF Control, CycleInv, Events
<1>4. ResourceOwnership'
  BY <1>1 DEF Control, ResourceOwnership, Held
<1> QED BY <1>3, <1>4 DEF Step, Control, Cycle!cycle

\* A handler that asks for another state and queues nothing.
LEMMA MoveStep ==
    ASSUME Control, halted = "no", ev \in Events, Return,
           NEW s, NEW t, task.state = s, task.new_state = s,
           task'.state = s, task'.new_state = t, task'.queue = task.queue,
           seen'.heads = seen.heads, Held(client') \in Owned(t),
           t # "response_send",
           t \in Writing \/ s \notin Writing \/ ev = "SENT",
           t \in Early => s \in Early,
           \/ Allowed(s, t)
           \/ s = "response_send" /\ ev = "SENT" /\ PhaseOf(t) \in {"idle", "talking"}
    PROVE  Step
<1>1. ev' \in {"none", "settle"} /\ halted' = "no" /\ (ev' = "settle" \/ s = t)
  BY DEF Return
<1>2. CycleInv'
  BY <1>1 DEF Control, CycleInv, Early
<1>3. ResourceOwnership'
  BY DEF ResourceOwnership, Held
<1>4. [Cycle!Next]_(Cycle!cycle)
  <2>1. CASE Allowed(s, t)
    BY <2>1 DEF Allowed, Cycle!cycle, Cycle!Next, Cycle!Serve, Cycle!Close, Cycle!Move
  <2>2. CASE s = "response_send" /\ ev = "SENT" /\ PhaseOf(t) \in {"idle", "talking"}
    <3>1. seen.heads = 1
      BY <2>2 DEF Control, CycleInv
    <3>2. PhaseOf(s) = "serving"
      BY <2>2 DEF PhaseOf, Idle, Receiving, Serving
    <3> QED BY <2>2, <3>1, <3>2
            DEF Cycle!cycle, Cycle!Next, Cycle!Reuse, Cycle!Upgrade, Cycle!Move
  <2> QED BY <2>1, <2>2
<1> QED BY <1>2, <1>3, <1>4 DEF Step, Control

-----------------------------------------------------------------------------
(* The handlers                                                            *)

\* In a handler the state is the one asked for.
LEMMA InHandler ==
    ASSUME Control, NEW s, NEW e \in Events, On(s, e)
    PROVE  /\ halted = "no" /\ ev = e /\ task.state = s /\ task.new_state = s
           /\ Held(client) \in Owned(s)
  BY DEF On, Control, CycleInv, ResourceOwnership, Events, Held

LEMMA StepSettle ==
    ASSUME TypeOK, Control, Settle
    PROVE  Step
<1>1. /\ task'.state = task.new_state /\ task'.new_state = task.new_state
      /\ task'.queue = IF task.new_state = "NULL" THEN <<>> ELSE task.queue
  BY DEF Settle, TypeOK, TaskType
<1>2. ev' \in {"none", "ENTRY"} /\ UNCHANGED <<client, halted, seen>>
  BY DEF Settle, Throw
<1>3. CycleInv'
  BY <1>1, <1>2 DEF Control, CycleInv
<1>4. ResourceOwnership'
  BY <1>1, <1>2 DEF Control, ResourceOwnership
<1> QED BY <1>1, <1>2, <1>3, <1>4 DEF Step, Control, Cycle!cycle

LEMMA StepShared ==
    ASSUME TypeOK, Control, IgnoreRead \/ GiveUp \/ UnexpectedEvent \/ FileAssert
    PROVE  Step
<1>1. CASE IgnoreRead
  BY <1>1, StayStep DEF IgnoreRead, Events
<1>2. CASE GiveUp
  <2>1. PICK s \in HttpStates \ {"connection_accepted", "http_disconnect"} :
          s = task.state /\ halted = "no" /\ ev \in {"TIMER1", "ABORT"} /\ Return
    BY <1>2 DEF GiveUp
  <2>2. ev \in Events /\ task.new_state = s
    BY <2>1 DEF Events, Control, CycleInv
  <2>3. /\ task'.state = s /\ task'.new_state = "http_disconnect"
        /\ task'.queue = task.queue /\ seen'.heads = seen.heads /\ client' = client
    BY <1>2, <2>1, TaskControl DEF GiveUp, TypeOK
  <2>4. Held(client') \in Owned("http_disconnect")
    BY <2>3 DEF Held, Owned
  <2>5. Allowed(s, "http_disconnect")
    BY <2>1 DEF HttpStates, Transient, Working, Allowed, PhaseOf, Idle, Receiving, Serving,
                Cycle!Open, Cycle!Phases
  <2> QED BY <2>1, <2>2, <2>3, <2>4, <2>5, MoveStep DEF Writing, Early, Receiving, Serving
<1>3. CASE UnexpectedEvent
  BY <1>3, HangStep DEF UnexpectedEvent
<1>4. CASE FileAssert
  BY <1>4, FileAssertHangs, HangStep
<1> QED BY <1>1, <1>2, <1>3, <1>4

LEMMA StepConnectionAccepted ==
    ASSUME TypeOK, Control, ConnectionAccepted
    PROVE  Step
<1>1. /\ halted = "no" /\ ev = "ENTRY" /\ task.state = "connection_accepted"
      /\ task.new_state = "connection_accepted"
  BY InHandler DEF ConnectionAccepted, Events
<1>2. /\ task'.state = task.state /\ task'.new_state = "headers_receive"
      /\ task'.queue = task.queue
  BY TaskControl DEF ConnectionAccepted, TypeOK
<1>3. Held(client') = {}
  BY DEF ConnectionAccepted, TypeOK, ClientType, Held
<1> QED BY <1>1, <1>2, <1>3, MoveStep
        DEF ConnectionAccepted, Events, Owned, Allowed, PhaseOf, Idle, Writing, Early,
            Receiving, Serving

LEMMA StepRequestStore ==
    ASSUME TypeOK, Control, RequestStoreEntry \/ RequestStoreRead
    PROVE  Step
<1>0. task \in TaskType /\ client \in ClientType
  BY DEF TypeOK
<1>1. CASE RequestStoreEntry /\ client.store
  BY <1>1, HangStep DEF RequestStoreEntry
<1>2. CASE ~client.store \/ RequestStoreRead
  <2>1. TakeInput /\ UNCHANGED seen /\ Return /\ halted = "no" /\ ev \in Events
    BY <1>2 DEF RequestStoreEntry, RequestStoreRead, On, Events
  <2>2. Held(client') = Held(client)
    BY <1>0, <2>1 DEF TakeInput, Held, ClientType
  <2>3. /\ task'.state = task.state /\ task'.new_state = task.new_state
        /\ task'.queue = task.queue
    BY <1>0, <2>1 DEF TakeInput, PollEnable, TaskType
  <2> QED BY <2>1, <2>2, <2>3, StayStep
<1> QED BY <1>1, <1>2

LEMMA StepHeadersReceive ==
    ASSUME TypeOK, Control, HeadersReceive
    PROVE  Step
<1>1. CASE client.store
  BY <1>1, HangStep DEF HeadersReceive
<1>2. CASE ~client.store
  <2>1. /\ halted = "no" /\ ev = "ENTRY" /\ task.state = "headers_receive"
        /\ task.new_state = "headers_receive" /\ Held(client) = {}
    BY InHandler DEF HeadersReceive, Events, Owned
  <2>2. /\ task'.state = task.state /\ task'.new_state = "request_store"
        /\ task'.queue = task.queue
    <3>1. Timer1Set(task) \in TaskType /\ Priority(Timer1Set(task), "low") \in TaskType
      BY TaskOps DEF TypeOK
    <3> QED BY <1>2, <3>1, TaskControl DEF HeadersReceive, TypeOK
  <2>3. Held(client') = {} /\ ("cbuf" \notin client'.owned)
    <3>0. client \in ClientType
      BY DEF TypeOK
    <3>1. NewRequest(client) \in ClientType /\ NewRequest(client).owned = client.owned
      <4>1. NewRequest(client).owned = client.owned
        BY <3>0 DEF NewRequest, ClientType
      <4> QED BY <3>0, <4>1, ClientOps
    <3>2. IspStart(NewRequest(client), "headers").owned = client.owned
      BY <3>1 DEF IspStart, ClientType
    <3> QED BY <1>2, <2>1, <3>2 DEF HeadersReceive, Held
  <2>4. seen'.heads = 0 /\ ev' \in {"none", "settle"} /\ ev' = "settle" /\ UNCHANGED halted
    BY <1>2, <2>1, <2>2 DEF HeadersReceive, NothingSeen, Return
  <2>5. CycleInv'
    BY <2>1, <2>2, <2>4 DEF Control, CycleInv, Writing
  <2>6. ResourceOwnership'
    BY <2>2, <2>3 DEF ResourceOwnership, Held, Owned
  <2>7. Cycle!Begin
    BY <2>1, <2>2, <2>4, PhaseNames DEF Cycle!Begin, Cycle!Move
  <2> QED BY <2>5, <2>6, <2>7 DEF Step, Control, Cycle!Next
<1> QED BY <1>1, <1>2

LEMMA StepBodyReceive ==
    ASSUME TypeOK, Control, BodyReceive
    PROVE  Step
<1>1. CASE client.store
  BY <1>1, HangStep DEF BodyReceive
<1>2. CASE ~client.store
  <2>1. /\ halted = "no" /\ ev = "ENTRY" /\ task.state = "body_receive"
        /\ task.new_state = "body_receive" /\ Held(client) = {}
    BY InHandler DEF BodyReceive, Events, Owned
  <2>2. /\ task'.state = task.state /\ task'.new_state = "request_store"
        /\ task'.queue = task.queue
    <3>1. Timer1Set(task) \in TaskType /\ Priority(Timer1Set(task), "low") \in TaskType
      BY TaskOps DEF TypeOK
    <3> QED BY <1>2, <3>1, TaskControl DEF BodyReceive, TypeOK
  <2>3. Held(client') = {}
    BY <1>2, <2>1 DEF BodyReceive, IspStart, Held, TypeOK, ClientType
  <2>4. Allowed("body_receive", "request_store")
    BY DEF Allowed, PhaseOf, Idle, Receiving
  <2> QED BY <1>2, <2>1, <2>2, <2>3, <2>4, MoveStep
          DEF BodyReceive, Events, Owned, Writing, Early, Receiving
<1> QED BY <1>1, <1>2

LEMMA StepRequestStorePoll ==
    ASSUME TypeOK, BodyWithinLength, Control, RequestStorePoll
    PROVE  Step
<1>1. /\ halted = "no" /\ ev = "POLL" /\ task.state = "request_store"
      /\ task.new_state = "request_store" /\ Held(client) = {}
  BY InHandler DEF RequestStorePoll, Events, Owned
<1>2. Held(client') = {}
  BY <1>1, TypeRequestStorePoll DEF Held
<1>3. PICK t \in {"request_store", "headers_parse", "authenticate", "fatal_error_entry"} :
        task'.state = task.state /\ task'.new_state = t /\ task'.queue = task.queue
  <2>1. \/ \E t \in {"headers_parse", "authenticate", "fatal_error_entry"} : task' = Goto(task, t)
        \/ task' \in {PollBackoff(task), PollDisable(task)}
    BY DEF RequestStorePoll
  <2> QED BY <1>1, <2>1, TaskControl DEF TypeOK
<1>4. Allowed("request_store", t)
  BY DEF Allowed, PhaseOf, Idle, Receiving, Serving
<1> QED BY <1>1, <1>2, <1>3, <1>4, MoveStep
        DEF RequestStorePoll, Events, Owned, Writing, Early, Receiving, Serving

LEMMA StepEnterWorking ==
    ASSUME TypeOK, Control, EnterWorking
    PROVE  Step
<1>0. task \in TaskType /\ client \in ClientType
  BY DEF TypeOK
<1>1. CASE task.state = "build_http_response" /\ "cbuf" \in client.owned
  BY <1>1, HangStep DEF EnterWorking
<1>2. CASE ~(task.state = "build_http_response" /\ "cbuf" \in client.owned)
  <2>1. halted = "no" /\ ev \in Events /\ Return /\ UNCHANGED seen
    BY <1>2 DEF EnterWorking, Events
  <2>2. Held(client') = Held(client)
    BY <1>0, <1>2 DEF EnterWorking, Held, ClientType
  <2>3. /\ task'.state = task.state /\ task'.new_state = task.new_state
        /\ task'.queue = task.queue
    <3>1. PICK k \in {Priority(task, "high"), task} : task' = PollEnable(Timer1Set(k))
      BY <1>2 DEF EnterWorking
    <3>2. k \in TaskType /\ Timer1Set(k) \in TaskType
      BY <1>0, TaskOps
    <3> QED BY <1>0, <3>1, <3>2, TaskControl
  <2> QED BY <2>1, <2>2, <2>3, StayStep
<1> QED BY <1>1, <1>2

LEMMA StepHeadersParse ==
    ASSUME TypeOK, Control, HeadersParse
    PROVE  Step
<1>1. /\ halted = "no" /\ ev = "POLL" /\ task.state = "headers_parse"
      /\ task.new_state = "headers_parse" /\ Held(client) = {}
  <2>1. On("headers_parse", "POLL")
    BY DEF HeadersParse
  <2> QED BY <2>1, InHandler DEF Events, Owned
<1>2. Held(client') = {}
  <2>0. client \in ClientType /\ ParseFailed(client) \in ClientType
    BY ClientOps DEF TypeOK
  <2>1. ParseFailed(client).owned = client.owned
    BY <2>0 DEF ParseFailed, ClientType
  <2>2. ParseDone(client).owned = client.owned \cup {"url"}
    BY <2>0, <2>1 DEF ParseDone, ClientType
  <2>3. \A code, e : [ParseFailed(client) EXCEPT !.fatal = code, !.expect = e].owned = client.owned
    BY <2>0, <2>1 DEF ClientType
  <2>4. \/ client' = ParseDone(client) \/ client' = ParseFailed(client)
        \/ \E code \in RefusedStatus(client) :
              client' = [ParseFailed(client) EXCEPT !.fatal = code,
                           !.expect = IF client.request = "expect" THEN "417"
                                      ELSE ParseFailed(client).expect]
    BY <2>0 DEF HeadersParse, ClientType
  <2> DEFINE e == IF client.request = "expect" THEN "417" ELSE ParseFailed(client).expect
  <2> HIDE DEF e
  <2>5. \/ client' = ParseDone(client) \/ client' = ParseFailed(client)
        \/ \E code : client' = [ParseFailed(client) EXCEPT !.fatal = code, !.expect = e]
    BY <2>4 DEF e
  <2>6. client'.owned \in {client.owned, client.owned \cup {"url"}}
    BY <2>1, <2>2, <2>3, <2>5
  <2> QED BY <1>1, <2>6 DEF Held
<1>3. PICK t \in {"headers_parse", "expect_reply", "body_receive", "fatal_error_entry"} :
        task'.state = task.state /\ task'.new_state = t /\ task'.queue = task.queue
  <2>1. \/ \E t \in {"expect_reply", "body_receive", "fatal_error_entry"} : task' = Goto(task, t)
        \/ task' = PollBackoff(task)
    BY DEF HeadersParse, TryLater
  <2> QED BY <1>1, <2>1, TaskControl DEF TypeOK
<1>4. Allowed("headers_parse", t)
  BY DEF Allowed, PhaseOf, Idle, Receiving, Serving
<1> QED BY <1>1, <1>2, <1>3, <1>4, MoveStep
        DEF HeadersParse, Events, Owned, Writing, Early, Receiving, Serving

LEMMA StepExpectReplyPoll ==
    ASSUME TypeOK, Control, ExpectReplyPoll
    PROVE  Step
<1>0. task \in TaskType /\ client \in ClientType
  BY DEF TypeOK
<1>1. /\ halted = "no" /\ ev = "POLL" /\ task.state = "expect_reply"
      /\ task.new_state = "expect_reply" /\ Held(client) = {}
  BY InHandler DEF ExpectReplyPoll, Events, Owned
<1>2. /\ client' = client /\ seen'.heads = seen.heads
      /\ task'.state = "expect_reply" /\ task'.new_state = "expect_reply"
  BY <1>0, <1>1, TaskControl DEF ExpectReplyPoll, TryLater, TypeOK, SeenType
<1>3. ev' = "none" /\ halted' = "no"
  BY <1>1, <1>2 DEF ExpectReplyPoll, Return
<1>4. CycleInv'
  BY <1>1, <1>2, <1>3 DEF Control, CycleInv, Writing
<1>5. ResourceOwnership'
  BY <1>1, <1>2 DEF ResourceOwnership, Held, Owned
<1> QED BY <1>1, <1>2, <1>4, <1>5 DEF Step, Control, Cycle!cycle

LEMMA StepExpectReplySent ==
    ASSUME TypeOK, Control, ExpectReplySent
    PROVE  Step
<1>1. /\ halted = "no" /\ ev = "SENT" /\ task.state = "expect_reply"
      /\ task.new_state = "expect_reply" /\ Held(client) = {}
  BY InHandler DEF ExpectReplySent, Events, Owned
<1>2. PICK t \in {"body_receive", "http_disconnect"} :
        task'.state = task.state /\ task'.new_state = t /\ task'.queue = task.queue
  BY TaskControl DEF ExpectReplySent, TypeOK
<1>3. Allowed("expect_reply", t) /\ {} \in Owned(t)
  BY DEF Allowed, PhaseOf, Idle, Receiving, Serving, Cycle!Open, Cycle!Phases, Owned
<1> QED BY <1>1, <1>2, <1>3, MoveStep
        DEF ExpectReplySent, Events, Writing, Early, Receiving, Serving

LEMMA StepAuthenticate ==
    ASSUME TypeOK, Control, Authenticate
    PROVE  Step
<1>1. /\ halted = "no" /\ ev = "POLL" /\ task.state = "authenticate"
      /\ task.new_state = "authenticate" /\ Held(client) = {}
  BY InHandler DEF Authenticate, Events, Owned
<1>2. Held(client') = {}
  BY <1>1 DEF Authenticate, Held, TypeOK, ClientType
<1>3. PICK t \in {"authenticate", "params_get", "response_entry", "fatal_error_entry"} :
        task'.state = task.state /\ task'.new_state = t /\ task'.queue = task.queue
  BY <1>1, TaskControl DEF Authenticate, TryLater, TypeOK
<1>4. Allowed("authenticate", t)
  BY DEF Allowed, PhaseOf, Idle, Receiving, Serving
<1> QED BY <1>1, <1>2, <1>3, <1>4, MoveStep
        DEF Authenticate, Events, Owned, Writing, Early, Receiving, Serving

LEMMA StepParamsGet ==
    ASSUME TypeOK, Control, ParamsGet
    PROVE  Step
<1>1. CASE \/ "params" \in client.owned
           \/ {client.headers_file, client.body_file} # {"read"}
  BY <1>1, HangStep DEF ParamsGet
<1>2. CASE "params" \notin client.owned /\ {client.headers_file, client.body_file} = {"read"}
  <2>1. /\ halted = "no" /\ ev = "POLL" /\ task.state = "params_get"
        /\ task.new_state = "params_get" /\ Held(client) = {}
    <3>1. On("params_get", "POLL")
      BY DEF ParamsGet
    <3> QED BY <3>1, InHandler DEF Events, Owned
  <2>2. Held(client') = {}
    BY ZenonT(60), <1>2, <2>1 DEF ParamsGet, ParamsParsed, Held, TypeOK, ClientType
  <2>3. PICK t \in {"params_get", "response_entry", "fatal_error_entry"} :
          task'.state = task.state /\ task'.new_state = t /\ task'.queue = task.queue
    <3>1. \/ \E t \in {"response_entry", "fatal_error_entry"} : task' = Goto(task, t)
          \/ task' = PollBackoff(task)
      BY <1>2 DEF ParamsGet, TryLater
    <3> QED BY <2>1, <3>1, TaskControl DEF TypeOK
  <2>4. Allowed("params_get", t)
    BY DEF Allowed, PhaseOf, Idle, Receiving, Serving
  <2> QED BY <1>2, <2>1, <2>2, <2>3, <2>4, MoveStep
          DEF ParamsGet, Events, Owned, Writing, Early, Receiving, Serving
<1> QED BY <1>1, <1>2

LEMMA StepEntries ==
    ASSUME TypeOK, Control, FatalErrorEntry \/ ResponseEntry
    PROVE  Step
<1>1. CASE ResponseEntry /\ "resource" \in client.owned
  BY <1>1, HangStep DEF ResponseEntry
<1>2. CASE ResponseEntry /\ "resource" \notin client.owned
  <2>1. /\ halted = "no" /\ ev = "ENTRY" /\ task.state = "response_entry"
        /\ task.new_state = "response_entry" /\ Held(client) = {}
    BY <1>2, InHandler DEF ResponseEntry, Events, Owned
  <2>2. Held(client') = {}
    BY <1>2, <2>1 DEF ResponseEntry, Held, TypeOK, ClientType
  <2>3. PICK t \in {"http_disconnect", "mvc_pre_configuration"} :
          task'.state = task.state /\ task'.new_state = t /\ task'.queue = task.queue
    BY <1>2, TaskControl DEF ResponseEntry, TypeOK
  <2>4. Allowed("response_entry", t) /\ {} \in Owned(t)
    BY DEF Allowed, PhaseOf, Idle, Receiving, Serving, Cycle!Open, Cycle!Phases, Owned
  <2> QED BY <1>2, <2>1, <2>2, <2>3, <2>4, MoveStep
          DEF ResponseEntry, Events, Writing, Early, Receiving, Serving
<1>3. CASE FatalErrorEntry
  <2>1. /\ halted = "no" /\ ev = "ENTRY" /\ task.state = "fatal_error_entry"
        /\ task.new_state = "fatal_error_entry" /\ Held(client) = {}
    BY <1>3, InHandler DEF FatalErrorEntry, Events, Owned
  <2>2. Held(client') = {}
    BY <1>3, <2>1 DEF FatalErrorEntry, Held, TypeOK, ClientType
  <2>3. /\ task'.state = task.state /\ task'.new_state = "response_entry"
        /\ task'.queue = task.queue
    BY <1>3, TaskControl DEF FatalErrorEntry, TypeOK
  <2>4. Allowed("fatal_error_entry", "response_entry")
    BY DEF Allowed, PhaseOf, Idle, Receiving, Serving
  <2> QED BY <1>3, <2>1, <2>2, <2>3, <2>4, MoveStep
          DEF FatalErrorEntry, Events, Owned, Writing, Early, Receiving, Serving
<1> QED BY <1>1, <1>2, <1>3

LEMMA PageHeld ==
    ASSUME NEW c \in ClientType, Held(c) = {}, NEW d \in Configured(c) \cup Controlled(c)
    PROVE  Held(d) = {}
<1>1. \A status, connection, freed :
        /\ Held(Page(c, status, connection, FALSE, freed)) = {}
        /\ Held(Page(c, status, connection, TRUE, freed)) = {}
  BY DEF Page, Held, ClientType
<1>2. CASE d \in Configured(c)
  <2>1. \E status, connection, freed : d = Page(c, status, connection, FALSE, freed)
    BY <1>2 DEF Configured, Handshake
  <2> QED BY <1>1, <2>1
<1>3. CASE d \in Controlled(c)
  BY <1>1, <1>3 DEF Controlled
<1> QED BY <1>2, <1>3

LEMMA StepMvcPreConfigure ==
    ASSUME TypeOK, Control, MvcPreConfigure
    PROVE  Step
<1> DEFINE cleared == [client EXCEPT !.owned = @ \ {"mvc"}, !.connection = "keepalive"]
<1>0. client \in ClientType /\ seen \in SeenType /\ task \in TaskType
  BY DEF TypeOK
<1>1. /\ halted = "no" /\ ev = "POLL" /\ task.state = "mvc_pre_configuration"
      /\ task.new_state = "mvc_pre_configuration" /\ Held(client) = {}
  <2>1. On("mvc_pre_configuration", "POLL")
    BY DEF MvcPreConfigure
  <2> QED BY SMTT(60), <2>1, InHandler DEF Events, Owned
<1>2. cleared \in ClientType /\ Held(cleared) = {}
  <2>1. client.owned \ {"mvc"} \in SUBSET Pointers
    BY <1>0 DEF ClientType
  <2>2. cleared \in ClientType
    BY <1>0, <2>1, ClientFields
  <2>3. cleared.owned = client.owned \ {"mvc"}
    BY <1>0 DEF ClientType
  <2> HIDE DEF cleared
  <2> QED BY <1>1, <2>2, <2>3 DEF Held
<1> HIDE DEF cleared
<1>3. ASSUME NEW b \in BOOLEAN
      PROVE  LET d == [cleared EXCEPT !.onservice = @ \/ b] IN d \in ClientType /\ Held(d) = {}
  <2> DEFINE d == [cleared EXCEPT !.onservice = @ \/ b]
  <2>1. (cleared.onservice \/ b) \in BOOLEAN
    OBVIOUS
  <2>2. d \in ClientType
    BY <1>2, <2>1, ClientFlags
  <2>3. d.owned = cleared.owned
    BY <1>2 DEF ClientType
  <2> HIDE DEF d
  <2>4. Held(d) = {}
    BY <1>2, <2>3 DEF Held
  <2> QED BY <2>2, <2>4 DEF d
<1>4. Held(client') = {}
  <2>1. \/ client' \in Configured(cleared)
        \/ \E b \in BOOLEAN : client' \in Controlled([cleared EXCEPT !.onservice = @ \/ b])
        \/ \E b \in BOOLEAN : client' = [cleared EXCEPT !.onservice = @ \/ b]
    BY ZenonT(60) DEF MvcPreConfigure, cleared, AppPage
  <2> QED BY ZenonT(60), <1>2, <1>3, <2>1, PageHeld
<1>5. seen'.heads = seen.heads
  <2>1. \/ UNCHANGED seen
        \/ \E b \in BOOLEAN : seen' = [seen EXCEPT !.controlled = @ + 1, !.registered = @ \/ b]
        \/ \E b \in BOOLEAN : seen' = [seen EXCEPT !.registered = @ \/ b]
    BY DEF MvcPreConfigure, AppPage
  <2> QED BY ZenonT(60), <1>0, <2>1 DEF SeenType
<1>6. PICK t \in {"mvc_pre_configuration", "prepare_http_response", "fatal_error_entry"} :
        task'.state = task.state /\ task'.new_state = t /\ task'.queue = task.queue
  <2>1. \/ task' = PollBackoff(task)
        \/ \E s \in {"prepare_http_response", "fatal_error_entry"} : task' = Goto(task, s)
    BY DEF MvcPreConfigure, TryLater
  <2> QED BY SMTT(60), <1>0, <1>1, <2>1, TaskControl
<1>7. Allowed("mvc_pre_configuration", t) /\ {} \in Owned(t)
  BY SMTT(60) DEF Allowed, PhaseOf, Idle, Receiving, Serving, Owned
<1>8. Return
  BY DEF MvcPreConfigure
<1> QED BY <1>1, <1>4, <1>5, <1>6, <1>7, <1>8, MoveStep
        DEF Events, Writing, Early, Receiving, Serving

LEMMA StepPrepareHttpResponse ==
    ASSUME TypeOK, Control, PrepareHttpResponse
    PROVE  Step
<1>1. CASE Hang("resource open failed")
  BY <1>1, HangStep
<1>2. CASE ~Hang("resource open failed")
  <2>0. client \in ClientType /\ task \in TaskType
    BY DEF TypeOK
  <2>1. /\ halted = "no" /\ ev = "POLL" /\ task.state = "prepare_http_response"
        /\ task.new_state = "prepare_http_response" /\ Held(client) = {}
    <3>1. On("prepare_http_response", "POLL")
      BY DEF PrepareHttpResponse
    <3> QED BY <3>1, InHandler DEF Events, Owned
  <2>2. \/ /\ client' = [client EXCEPT !.owned = @ \cup {"resource"}]
           /\ task' = Goto(task, "mvc_post_configuration")
        \/ client' = client /\ task' = PollBackoff(task)
        \/ /\ client' = [client EXCEPT !.current = MissingStatus(client)]
           /\ task' = Goto(task, "response_entry")
    BY <1>2 DEF PrepareHttpResponse, TryLater
  <2>3. PICK t \in {"mvc_post_configuration", "prepare_http_response", "response_entry"} :
          /\ task'.state = task.state /\ task'.new_state = t /\ task'.queue = task.queue
          /\ Held(client') = IF t = "mvc_post_configuration" THEN {"resource"} ELSE {}
    <3>1. Held([client EXCEPT !.owned = @ \cup {"resource"}]) = {"resource"}
      BY <2>0, <2>1 DEF Held, ClientType
    <3>2. Held([client EXCEPT !.current = MissingStatus(client)]) = {}
      BY <2>0, <2>1 DEF Held, ClientType
    <3>3. CASE /\ task' = Goto(task, "mvc_post_configuration")
               /\ client' = [client EXCEPT !.owned = @ \cup {"resource"}]
      BY <2>0, <3>1, <3>3, TaskControl
    <3>4. CASE task' = PollBackoff(task) /\ client' = client
      BY <2>0, <2>1, <3>4, TaskControl
    <3>5. CASE /\ task' = Goto(task, "response_entry")
               /\ client' = [client EXCEPT !.current = MissingStatus(client)]
      BY <2>0, <3>2, <3>5, TaskControl
    <3> QED BY <2>2, <3>3, <3>4, <3>5
  <2>4. Allowed("prepare_http_response", t) /\ Held(client') \in Owned(t)
    BY <2>3 DEF Allowed, PhaseOf, Idle, Receiving, Serving, Owned
  <2>5. Return /\ UNCHANGED seen
    BY <1>2 DEF PrepareHttpResponse
  <2> QED BY <2>1, <2>3, <2>4, <2>5, MoveStep
          DEF Events, Writing, Early, Receiving, Serving
<1> QED BY <1>1, <1>2

LEMMA StepMvcPostConfigure ==
    ASSUME TypeOK, Control, MvcPostConfigure
    PROVE  Step
<1>0. client \in ClientType /\ task \in TaskType
  BY DEF TypeOK
<1>1. /\ halted = "no" /\ ev = "POLL" /\ task.state = "mvc_post_configuration"
      /\ task.new_state = "mvc_post_configuration" /\ Held(client) = {"resource"}
  <2>1. On("mvc_post_configuration", "POLL")
    BY DEF MvcPostConfigure
  <2> QED BY <2>1, InHandler DEF Events, Owned
<1>2. \/ /\ \E n, m : client' = [client EXCEPT !.total = m, !.source = n]
         /\ task' = Goto(task, "build_http_response")
      \/ /\ \E code : client' = [ResourceClose(client) EXCEPT !.fatal = code]
         /\ task' = Goto(task, "fatal_error_entry")
  BY DEF MvcPostConfigure
<1>3. PICK t \in {"build_http_response", "fatal_error_entry"} :
        /\ task'.state = task.state /\ task'.new_state = t /\ task'.queue = task.queue
        /\ Held(client') = IF t = "build_http_response" THEN {"resource"} ELSE {}
  <2>1. \A n, m : Held([client EXCEPT !.total = m, !.source = n]) = {"resource"}
    BY <1>0, <1>1 DEF Held, ClientType
  <2>2. \A code : Held([ResourceClose(client) EXCEPT !.fatal = code]) = {}
    BY <1>0, <1>1 DEF ResourceClose, Held, ClientType
  <2>3. ASSUME NEW n, NEW m, client' = [client EXCEPT !.total = m, !.source = n],
               task' = Goto(task, "build_http_response")
        PROVE  /\ task'.state = task.state /\ task'.new_state = "build_http_response"
               /\ task'.queue = task.queue /\ Held(client') = {"resource"}
    BY <1>0, <2>1, <2>3, TaskControl
  <2>4. ASSUME NEW code, client' = [ResourceClose(client) EXCEPT !.fatal = code],
               task' = Goto(task, "fatal_error_entry")
        PROVE  /\ task'.state = task.state /\ task'.new_state = "fatal_error_entry"
               /\ task'.queue = task.queue /\ Held(client') = {}
    BY <1>0, <2>2, <2>4, TaskControl
  <2> QED BY <1>2, <2>3, <2>4
<1>4. Allowed("mvc_post_configuration", t) /\ Held(client') \in Owned(t)
  BY <1>3 DEF Allowed, PhaseOf, Idle, Receiving, Serving, Owned
<1>5. Return /\ UNCHANGED seen
  BY DEF MvcPostConfigure
<1> QED BY <1>1, <1>3, <1>4, <1>5, MoveStep
        DEF Events, Writing, Early, Receiving, Serving

LEMMA StepBuildHttpResponse ==
    ASSUME TypeOK, Control, BuildHttpResponse
    PROVE  Step
<1>0. client \in ClientType /\ task \in TaskType
  BY DEF TypeOK
<1>1. /\ halted = "no" /\ ev = "POLL" /\ task.state = "build_http_response"
      /\ task.new_state = "build_http_response" /\ Held(client) = {"resource"}
  <2>1. On("build_http_response", "POLL")
    BY DEF BuildHttpResponse
  <2> QED BY <2>1, InHandler DEF Events, Owned
<1>2. Return /\ UNCHANGED seen
  BY DEF BuildHttpResponse
<1>3. CASE task' = PollBackoff(task) /\ client' = client
  <2>1. /\ task'.state = task.state /\ task'.new_state = task.new_state
        /\ task'.queue = task.queue
    BY <1>0, <1>3, TaskControl
  <2> QED BY <1>1, <1>2, <1>3, <2>1, StayStep DEF Events
<1>4. CASE /\ client' = [ResourceClose(client) EXCEPT !.owned = @ \ {"cbuf"}]
           /\ task' = Goto(task, "fatal_error_entry")
  <2>1. /\ task'.state = task.state /\ task'.new_state = "fatal_error_entry"
        /\ task'.queue = task.queue
    BY <1>0, <1>4, TaskControl
  <2>2. Held(client') = {}
    BY <1>0, <1>1, <1>4 DEF ResourceClose, Held, ClientType
  <2>3. Allowed("build_http_response", "fatal_error_entry") /\ {} \in Owned("fatal_error_entry")
    BY DEF Allowed, PhaseOf, Idle, Receiving, Serving, Owned
  <2> QED BY <1>1, <1>2, <2>1, <2>2, <2>3, MoveStep
          DEF Events, Writing, Early, Receiving, Serving
<1>5. CASE /\ client' = [HeaderBuilt(client) EXCEPT !.total = IF client.head THEN 0 ELSE @]
           /\ task' = Goto(task, "response_send")
  <2>1. /\ task'.state = task.state /\ task'.new_state = "response_send"
        /\ task'.queue = task.queue
    BY <1>0, <1>5, TaskControl
  <2>2. Held(client') = {"resource", "cbuf"} /\ "cbuf" \in client'.owned
    BY <1>0, <1>1, <1>5 DEF HeaderBuilt, Held, ClientType
  <2>3. seen.heads = 0 /\ task.queue = <<>>
    BY <1>1 DEF Control, CycleInv, Serving, Writing
  <2>4. ev' = "settle" /\ halted' = "no" /\ seen'.heads = 0 /\ task'.queue = <<>>
    BY <1>1, <1>2, <2>1, <2>3 DEF Return
  <2>5. CycleInv'
    BY <2>1, <2>2, <2>4 DEF CycleInv, Writing
  <2>6. ResourceOwnership'
    BY <2>1, <2>2 DEF ResourceOwnership, Held, Owned
  <2>7. PhaseOf(task'.new_state) = PhaseOf(task.new_state)
    BY <1>1, <2>1 DEF PhaseOf, Idle, Receiving, Serving
  <2> QED BY <1>2, <2>5, <2>6, <2>7 DEF Step, Control, Cycle!cycle
<1> QED BY <1>3, <1>4, <1>5 DEF BuildHttpResponse, TryLater

LEMMA StepResponseSendPoll ==
    ASSUME TypeOK, Control, ResponseSendPoll
    PROVE  Step
<1> DEFINE armed == IF Fresh(client) THEN Timer1Set(task) ELSE task
<1>0. client \in ClientType /\ task \in TaskType /\ seen \in SeenType
  BY DEF TypeOK
<1>1. /\ halted = "no" /\ ev = "POLL" /\ task.state = "response_send"
      /\ task.new_state = "response_send" /\ Held(client) \in {{"resource"}, {"resource", "cbuf"}}
  <2>1. On("response_send", "POLL")
    BY DEF ResponseSendPoll
  <2> QED BY <2>1, InHandler DEF Events, Owned
<1>2. Return
  BY DEF ResponseSendPoll
<1>3. /\ armed \in TaskType
      /\ armed.state = task.state /\ armed.new_state = task.new_state /\ armed.queue = task.queue
  BY <1>0, TaskOps, TaskControl
<1>4. CASE client' = client /\ UNCHANGED seen /\ TryLater
  <2>1. /\ task'.state = task.state /\ task'.new_state = task.new_state
        /\ task'.queue = task.queue
    BY <1>0, <1>4, TaskControl DEF TryLater
  <2> QED BY <1>1, <1>2, <1>4, <2>1, StayStep DEF Events
<1>5. CASE /\ client' = [client EXCEPT !.owned = @ \cup {"cbuf"}, !.index = Start(client)]
           /\ task' = ReadFailed(armed) /\ UNCHANGED seen
  <2>1. /\ task'.state = task.state /\ task'.new_state = "http_disconnect"
        /\ task'.queue = task.queue
    BY <1>3, <1>5, TaskControl DEF ReadFailed
  <2>2. Held(client') \in Owned("http_disconnect")
    BY DEF Held, Owned
  <2>3. Allowed("response_send", "http_disconnect")
    BY DEF Allowed, PhaseOf, Idle, Receiving, Serving, Cycle!Open, Cycle!Phases
  <2> QED BY <1>1, <1>2, <1>5, <2>1, <2>2, <2>3, MoveStep
          DEF Events, Writing, Early, Receiving, Serving
<1>6. ASSUME NEW room \in Rooms(client),
             client' = Filled(client, room),
             \E o : task' = PollDisable(SocketWrite(armed, o)),
             task' \in TaskType,
             seen' = [seen EXCEPT !.heads = IF Fresh(client) THEN @ ELSE @ + 1]
      PROVE  Step
  <2>1. Held(client') = {"resource"} /\ "cbuf" \notin client'.owned
    <3>1. Filled(client, room).owned = client.owned \ {"cbuf"}
      BY <1>0 DEF Filled, HandOver, ClientType
    <3> QED BY <1>1, <1>6, <3>1 DEF Held
  <2>2. task'.state = "response_send" /\ task'.new_state = "response_send"
    <3>1. PICK o : task' = PollDisable(SocketWrite(armed, o))
      BY <1>6
    <3>2. /\ SocketWrite(armed, o).state = task.state
          /\ SocketWrite(armed, o).new_state = task.new_state
      BY <1>3, TaskControl
    <3>3. /\ PollDisable(SocketWrite(armed, o)).state = SocketWrite(armed, o).state
          /\ PollDisable(SocketWrite(armed, o)).new_state = SocketWrite(armed, o).new_state
      BY <1>3 DEF PollDisable, SocketWrite, TaskType
    <3> QED BY <1>1, <3>1, <3>2, <3>3
  <2>3. seen'.heads = 1 /\ seen.heads = IF Fresh(client) THEN 1 ELSE 0
    <3>1. seen.heads = IF Fresh(client) THEN 1 ELSE 0
      BY <1>1 DEF Control, CycleInv, Fresh
    <3> QED BY <1>0, <1>6, <3>1 DEF SeenType
  <2>4. ev' = "none"
    BY <1>2, <2>2 DEF Return
  <2>5. CycleInv'
    BY <2>1, <2>2, <2>3, <2>4 DEF CycleInv, Writing, Receiving, Serving
  <2>6. ResourceOwnership'
    BY <2>1, <2>2 DEF ResourceOwnership, Held, Owned
  <2>7. [Cycle!Next]_(Cycle!cycle)
    BY <1>1, <2>2, <2>3, PhaseNames DEF Cycle!cycle, Cycle!Next, Cycle!Answer
  <2> QED BY <2>5, <2>6, <2>7 DEF Step, Control
<1>7. task' \in TaskType
  BY TypeResponseSendPoll DEF TypeOK
<1> HIDE DEF armed
<1> QED BY <1>4, <1>5, <1>6, <1>7 DEF ResponseSendPoll, armed

LEMMA StepResponseSendSent ==
    ASSUME TypeOK, Control, ResponseSendSent
    PROVE  Step
<1>0. client \in ClientType /\ task \in TaskType
  BY DEF TypeOK
<1>1. /\ halted = "no" /\ ev = "SENT" /\ task.state = "response_send"
      /\ task.new_state = "response_send" /\ Held(client) \in {{"resource"}, {"resource", "cbuf"}}
  BY InHandler DEF ResponseSendSent, Events, Owned
<1>2. Held(client) = {"resource"} /\ Held(client') = Held(client)
  <2>1. "cbuf" \notin client.owned
    BY <1>1 DEF Control, CycleInv
  <2> QED BY <1>0, <1>1, <2>1 DEF ResponseSendSent, Held, ClientType
<1>3. Return /\ UNCHANGED seen
  BY DEF ResponseSendSent
<1>4. CASE task' = PollEnable(task)
  <2>1. /\ task'.state = task.state /\ task'.new_state = task.new_state
        /\ task'.queue = task.queue
    BY <1>0, <1>4, TaskControl
  <2> QED BY <1>1, <1>2, <1>3, <2>1, StayStep DEF Events
<1>5. CASE task' = Goto(task, AfterResponse(client))
  <2>1. PICK t \in {"websocket", "keepalive", "http_disconnect"} :
          task'.state = task.state /\ task'.new_state = t /\ task'.queue = task.queue
    BY <1>0, <1>5, TaskControl DEF AfterResponse
  <2>2. Held(client') \in Owned(t)
    BY <1>2 DEF Owned
  <2>3. Allowed("response_send", t) \/ PhaseOf(t) \in {"idle", "talking"}
    BY DEF Allowed, PhaseOf, Idle, Receiving, Serving, Cycle!Open, Cycle!Phases
  <2> QED BY <1>1, <1>3, <2>1, <2>2, <2>3, MoveStep
          DEF Events, Writing, Early, Receiving, Serving
<1> QED BY <1>4, <1>5 DEF ResponseSendSent

\* Compositions of the operators on a task, as the last states use them.
LEMMA LastControl ==
    ASSUME NEW t \in TaskType
    PROVE  /\ \A k \in {PollEnable(Priority(Timer1Set(t), "high")), Timer1Set(t)} :
                k.state = t.state /\ k.new_state = t.new_state /\ k.queue = t.queue
           /\ \A s : /\ Goto(Timer1Set(t), s).state = t.state
                     /\ Goto(Timer1Set(t), s).new_state = s
                     /\ Goto(Timer1Set(t), s).queue = t.queue
<1> DEFINE a == Timer1Set(t)
           b == Priority(a, "high")
<1>1. a \in TaskType /\ a.state = t.state /\ a.new_state = t.new_state /\ a.queue = t.queue
  BY TaskOps, TaskControl
<1> HIDE DEF a
<1>2. b \in TaskType /\ b.state = a.state /\ b.new_state = a.new_state /\ b.queue = a.queue
  BY ZenonT(60), <1>1, TaskOps, TaskControl
<1>3. \A s : /\ Goto(a, s).state = a.state /\ Goto(a, s).new_state = s
             /\ Goto(a, s).queue = a.queue
  BY <1>1, TaskControl
<1> HIDE DEF b
<1>4. /\ PollEnable(b).state = b.state /\ PollEnable(b).new_state = b.new_state
      /\ PollEnable(b).queue = b.queue
  BY <1>2, TaskControl
<1> QED BY <1>1, <1>2, <1>3, <1>4 DEF a, b

LEMMA StepKeepalive ==
    ASSUME TypeOK, Control, KeepaliveEntry \/ KeepalivePoll
    PROVE  Step
<1>0. client \in ClientType /\ task \in TaskType /\ seen \in SeenType
  BY DEF TypeOK
<1>1. CASE KeepaliveEntry
  <2>1. halted = "no" /\ ev = "ENTRY"
    BY <1>1 DEF KeepaliveEntry, On
  <2>2. /\ task'.state = task.state /\ task'.new_state = task.new_state
        /\ task'.queue = task.queue
    BY <1>0, <1>1, LastControl DEF KeepaliveEntry
  <2> QED BY <1>1, <2>1, <2>2, StayStep DEF KeepaliveEntry, Events, Held
<1>2. CASE KeepalivePoll
  <2>1. /\ halted = "no" /\ ev = "POLL" /\ task.state = "keepalive"
        /\ task.new_state = "keepalive"
    BY <1>2, InHandler DEF KeepalivePoll, Events
  <2>2. /\ task'.state = task.state /\ task'.new_state = "headers_receive"
        /\ task'.queue = task.queue
    BY <1>0, <1>2, LastControl DEF KeepalivePoll
  <2>3. Held(client') = {}
    BY <1>0, <1>2 DEF KeepalivePoll, Cleaned, Held, ClientType
  <2>4. seen'.heads = seen.heads
    BY <1>0, <1>2 DEF KeepalivePoll, CallOnservice, SeenType
  <2>5. Allowed("keepalive", "headers_receive") /\ {} \in Owned("headers_receive")
    BY DEF Allowed, PhaseOf, Idle, Receiving, Serving, Owned
  <2> QED BY <1>2, <2>1, <2>2, <2>3, <2>4, <2>5, MoveStep
          DEF KeepalivePoll, Events, Writing, Early, Receiving, Serving
<1> QED BY <1>1, <1>2

LEMMA StepDisconnect ==
    ASSUME TypeOK, Control, DisconnectEntry \/ DisconnectPoll \/ DisconnectIgnores
    PROVE  Step
<1>0. client \in ClientType /\ task \in TaskType /\ seen \in SeenType
  BY DEF TypeOK
<1>1. CASE DisconnectEntry
  <2>1. halted = "no" /\ ev = "ENTRY"
    BY <1>1 DEF DisconnectEntry, On
  <2>2. /\ task'.state = task.state /\ task'.new_state = task.new_state
        /\ task'.queue = task.queue
    BY <1>0, <1>1, LastControl DEF DisconnectEntry
  <2> QED BY <1>1, <2>1, <2>2, StayStep DEF DisconnectEntry, Events, Held
<1>2. CASE DisconnectPoll
  <2>1. /\ halted = "no" /\ ev = "POLL" /\ task.state = "http_disconnect"
        /\ task.new_state = "http_disconnect"
    BY <1>2, InHandler DEF DisconnectPoll, Events
  <2>2. /\ task'.state = task.state /\ task'.new_state = "NULL"
        /\ task'.queue = task.queue
    BY <1>0, <1>2, LastControl DEF DisconnectPoll
  <2>3. Held(client') = {}
    BY <1>0, <1>2 DEF DisconnectPoll, Released, Cleaned, Held, ClientType
  <2>4. seen'.heads = seen.heads
    BY <1>0, <1>2 DEF DisconnectPoll, CallOnservice, SeenType
  <2>5. Allowed("http_disconnect", "NULL") /\ {} \in Owned("NULL")
    BY DEF Allowed, PhaseOf, Idle, Receiving, Serving, Owned
  <2> QED BY <1>2, <2>1, <2>2, <2>3, <2>4, <2>5, MoveStep
          DEF DisconnectPoll, Events, Writing, Early, Receiving, Serving
<1>3. CASE DisconnectIgnores
  BY <1>3, StayStep DEF DisconnectIgnores, Events, Held
<1> QED BY <1>1, <1>2, <1>3

LEMMA StepCleanupRefused ==
    ASSUME TypeOK, Control, CleanupRefused
    PROVE  Step
<1>0. client \in ClientType /\ task \in TaskType
  BY DEF TypeOK
<1>1. PICK s \in {"keepalive", "http_disconnect"} : On(s, "POLL")
  BY DEF CleanupRefused, Cleaning, On
<1>2. halted = "no" /\ ev = "POLL" /\ task.state = s /\ task.new_state = s
  BY <1>1, InHandler DEF Events
<1>3. task'.state = task.state /\ task'.new_state = s /\ task'.queue = task.queue
  BY <1>0, <1>2, LastControl DEF CleanupRefused
<1>4. Held(client') = {} /\ seen' = seen /\ Return
  BY <1>0 DEF CleanupRefused, Refused, Held, ClientType
<1>5. Allowed(s, s) /\ {} \in Owned(s)
  BY DEF Allowed, Owned
<1> QED BY <1>2, <1>3, <1>4, <1>5, MoveStep DEF Events, Writing, Early, Receiving, Serving

-----------------------------------------------------------------------------
(* Websocket                                                               *)

\* A websocket handler may queue frames, and stays or gives the connection up.
LEMMA TalkStep ==
    ASSUME Control, NEW e \in Events, On("websocket", e), Return,
           task'.state = "websocket", task'.new_state \in {"websocket", "http_disconnect"},
           seen'.heads = seen.heads, Held(client') \in {{}, {"resource"}}
    PROVE  Step
<1>1. halted = "no" /\ task.state = "websocket" /\ task.new_state = "websocket"
  BY InHandler
<1>2. ev' \in {"none", "settle"} /\ (ev' = "settle" \/ task'.new_state = "websocket")
  BY DEF Return
<1>3. CycleInv'
  BY <1>2 DEF Control, CycleInv, Writing, Receiving, Serving
<1>4. ResourceOwnership'
  BY DEF ResourceOwnership, Held, Owned
<1>5. [Cycle!Next]_(Cycle!cycle)
  BY <1>1, PhaseNames
  DEF Cycle!cycle, Cycle!Next, Cycle!Close, Cycle!Open, Cycle!Phases
<1> QED BY <1>3, <1>4, <1>5 DEF Step, Control

\* What the application may do with the task leaves its state alone.
SameState(t) == {k \in TaskType : k.state = t.state /\ k.new_state = t.new_state}

LEMMA AppCallState ==
    ASSUME NEW t \in TaskType
    PROVE  SendFrame(t) \subseteq SameState(t) /\ AppCall(t) \subseteq SameState(t)
<1>1. ASSUME NEW k \in SameState(t) PROVE SendFrame(k) \subseteq SameState(t)
  BY <1>1, AppCallType, TaskControl DEF SendFrame, SameState
<1>2. t \in SameState(t) /\ Timer1Set(t) \in SameState(t)
  BY TaskOps, TaskControl DEF SameState
<1> QED BY <1>1, <1>2 DEF AppCall

LEMMA StateControl ==
    ASSUME NEW t \in TaskType, NEW k \in SameState(t)
    PROVE  /\ PollEnable(k) \in SameState(t) /\ PollDisable(k) \in SameState(t)
           /\ PollBackoff(k) \in SameState(t)
           /\ Goto(k, "http_disconnect").state = t.state
           /\ Goto(k, "http_disconnect").new_state = "http_disconnect"
<1>1. k \in TaskType /\ k.state = t.state /\ k.new_state = t.new_state
  BY DEF SameState
<1>2. PollEnable(k) \in TaskType /\ PollDisable(k) \in TaskType /\ PollBackoff(k) \in TaskType
  BY <1>1, TaskOps
<1>3. \A j \in {PollEnable(k), PollDisable(k), PollBackoff(k)} :
        j.state = k.state /\ j.new_state = k.new_state
  BY <1>1, TaskControl
<1>4. /\ Goto(k, "http_disconnect").state = k.state
      /\ Goto(k, "http_disconnect").new_state = "http_disconnect"
  BY <1>1, TaskControl
<1> QED BY <1>1, <1>2, <1>3, <1>4 DEF SameState

LEMMA StepWebsocketEntry ==
    ASSUME TypeOK, Control, WebsocketEntry
    PROVE  Step
<1> DEFINE entered == [Priority(task, "high") EXCEPT !.timer2 = Timeout]
           flagged == [client EXCEPT !.websocket.ping = TRUE, !.websocket.pong = TRUE]
<1>0. client \in ClientType /\ task \in TaskType
  BY DEF TypeOK
<1>1. CASE Hang("no url to look up") \/ Hang("no websocket service")
  BY <1>1, HangStep
<1>2. CASE ~(Hang("no url to look up") \/ Hang("no websocket service"))
  <2>1. On("websocket", "ENTRY")
    BY DEF WebsocketEntry
  <2>2. /\ task.state = "websocket" /\ task.new_state = "websocket"
        /\ Held(client) \in {{}, {"resource"}}
    BY <2>1, InHandler DEF Events, Owned
  <2>3. /\ entered \in TaskType
        /\ entered.state = "websocket" /\ entered.new_state = "websocket"
    <3> DEFINE k == Priority(task, "high")
    <3>0. task \in TaskType
      BY <1>0
    <3>1. k \in TaskType /\ k.state = task.state /\ k.new_state = task.new_state
      <4>1. k \in TaskType
        BY ONLY <3>0, TaskOps
      <4>2. k.state = task.state /\ k.new_state = task.new_state
        BY ONLY <3>0, TaskControl
      <4> QED BY ONLY <4>1, <4>2
    <3> HIDE DEF k
    <3>2. /\ [k EXCEPT !.timer2 = Timeout] \in TaskType
          /\ [k EXCEPT !.timer2 = Timeout].state = k.state
          /\ [k EXCEPT !.timer2 = Timeout].new_state = k.new_state
      BY <3>1, TimeoutAssumption DEF TaskType, Clocks
    <3> QED BY <2>2, <3>1, <3>2 DEF k
  <2>4. flagged.owned = client.owned /\ flagged \in ClientType
    <3> DEFINE pinging == [client EXCEPT !.websocket.ping = TRUE]
    <3>1. pinging \in ClientType
      BY ONLY <1>0, WebsocketFields
    <3>2. [pinging EXCEPT !.websocket.pong = TRUE] \in ClientType
      <4> HIDE DEF pinging
      <4> QED BY ONLY <3>1, WebsocketFields
    <3>3. flagged = [pinging EXCEPT !.websocket.pong = TRUE]
      BY ONLY <1>0 DEF ClientType, flagged, pinging
    <3>4. flagged.owned = client.owned
      BY ONLY <1>0 DEF ClientType, flagged
    <3> QED BY ONLY <3>2, <3>3, <3>4
  <2> HIDE DEF entered, flagged
  <2>5. \/ \E t \in AppCall(entered) :
             WebsocketReceive(t, [Cleaned(flagged) EXCEPT !.websocket.def = TRUE])
        \/ /\ task' \in {Goto(t, "http_disconnect") : t \in AppCall(entered)}
           /\ client' = flagged
        \/ /\ task' = Goto(entered, "http_disconnect")
           /\ client' = [flagged EXCEPT !.websocket.def = TRUE]
    BY <1>2 DEF WebsocketEntry, entered, flagged
  <2>6. Return /\ UNCHANGED seen
    BY <1>2 DEF WebsocketEntry
  <2>7. CASE /\ task' \in {Goto(t, "http_disconnect") : t \in AppCall(entered)}
             /\ client' = flagged
    <3>1. task'.state = "websocket" /\ task'.new_state = "http_disconnect"
      BY <2>3, <2>7, AppCallState, StateControl
    <3>2. Held(client') = Held(client)
      BY <2>4, <2>7 DEF Held
    <3> QED BY <2>1, <2>2, <2>6, <3>1, <3>2, TalkStep DEF Events
  <2>8. CASE \E t \in AppCall(entered) :
               WebsocketReceive(t, [Cleaned(flagged) EXCEPT !.websocket.def = TRUE])
    <3>1. PICK t \in AppCall(entered) :
            WebsocketReceive(t, [Cleaned(flagged) EXCEPT !.websocket.def = TRUE])
      BY <2>8
    <3>2. t \in SameState(entered)
      BY <2>3, AppCallState
    <3>3. task'.state = "websocket" /\ task'.new_state = "websocket"
      BY <2>3, <3>1, <3>2 DEF WebsocketReceive, PollEnable, SameState, TaskType
    <3>4. Held(client') = {}
      BY <2>4, <3>1 DEF WebsocketReceive, Cleaned, Held, ClientType
    <3> QED BY <2>1, <2>6, <3>3, <3>4, TalkStep DEF Events
  <2>9. CASE /\ task' = Goto(entered, "http_disconnect")
             /\ client' = [flagged EXCEPT !.websocket.def = TRUE]
    <3>1. task'.state = "websocket" /\ task'.new_state = "http_disconnect"
      BY <2>3, <2>9, TaskControl
    <3>2. Held(client') = Held(client)
      BY <2>4, <2>9 DEF Held, ClientType
    <3> QED BY <2>1, <2>2, <2>6, <3>1, <3>2, TalkStep DEF Events
  <2> QED BY <2>5, <2>7, <2>8, <2>9
<1> QED BY <1>1, <1>2

LEMMA StepWebsocketRead ==
    ASSUME TypeOK, Control, WebsocketRead \/ WebsocketSent \/ WebsocketAbort
    PROVE  Step
<1>0. client \in ClientType /\ task \in TaskType
  BY DEF TypeOK
<1>1. PICK e \in Events : On("websocket", e)
  BY DEF WebsocketRead, WebsocketSent, WebsocketAbort, Events
<1>2. /\ task.state = "websocket" /\ task.new_state = "websocket"
      /\ Held(client) \in {{}, {"resource"}}
  BY <1>1, InHandler DEF Owned
<1>3. task'.state = "websocket" /\ task'.new_state \in {"websocket", "http_disconnect"}
  <2>1. CASE WebsocketRead
    BY <1>0, <1>2, <2>1 DEF WebsocketRead, WebsocketReceive, PollEnable, TaskType
  <2>2. CASE WebsocketSent \/ WebsocketAbort
    BY <1>0, <1>2, <2>2, TaskControl DEF WebsocketSent, WebsocketAbort
  <2> QED BY <2>1, <2>2
<1>4. Held(client') = Held(client)
  BY <1>0 DEF WebsocketRead, WebsocketReceive, WebsocketSent, WebsocketAbort, Held, ClientType
<1>5. Return /\ UNCHANGED seen
  BY DEF WebsocketRead, WebsocketSent, WebsocketAbort
<1> QED BY <1>1, <1>2, <1>3, <1>4, <1>5, TalkStep

LEMMA ResultControl ==
    ASSUME NEW t \in TaskType, NEW c \in ClientType, NEW rx \in ProcessRx(t, c)
    PROVE  /\ rx.task \in SameState(t) /\ rx.client \in ClientType /\ Held(rx.client) = Held(c)
           /\ \A tx \in ProcessTx(rx) :
                 tx.task \in SameState(t) /\ Held(tx.client) = Held(c)
<1>1. \A left, ds : \A d \in Heard(c, left, ds) : Held(d) = Held(c)
  BY DEF Heard, Held, ClientType
<1>2. AppCall(t) \subseteq SameState(t) /\ t \in SameState(t)
  BY AppCallState DEF SameState
<1>3. rx.client \in ClientType
  BY ProcessRxType DEF Results
<1>4. rx.task \in SameState(t) /\ Held(rx.client) = Held(c)
  BY <1>1, <1>2 DEF ProcessRx
<1>5. SendFrame(rx.task) \subseteq SameState(t)
  BY <1>4, AppCallState DEF SameState
<1>6. Held([rx.client EXCEPT !.websocket.ping = FALSE]) = Held(rx.client)
  BY <1>3 DEF Held, ClientType
<1>7. ASSUME NEW tx \in ProcessTx(rx)
      PROVE  tx.task \in SameState(t) /\ Held(tx.client) = Held(c)
  <2>0. rx \in Results
    BY ProcessRxType
  <2>1. \/ tx = rx
        \/ \E err : tx = [rx EXCEPT !.err = err]
        \/ \E k \in SendFrame(rx.task) :
             tx = [rx EXCEPT !.task = k, !.client.websocket.ping = FALSE]
    BY DEF ProcessTx
  <2>2. CASE \E k \in SendFrame(rx.task) :
               tx = [rx EXCEPT !.task = k, !.client.websocket.ping = FALSE]
    <3>1. PICK k \in SendFrame(rx.task) :
            tx = [rx EXCEPT !.task = k, !.client.websocket.ping = FALSE]
      BY <2>2
    <3>2. tx.task = k /\ tx.client = [rx.client EXCEPT !.websocket.ping = FALSE]
      BY <2>0, <3>1 DEF Results
    <3> QED BY <1>4, <1>5, <1>6, <3>2
  <2>3. CASE \E err : tx = [rx EXCEPT !.err = err]
    <3>1. tx.task = rx.task /\ tx.client = rx.client
      BY <2>0, <2>3 DEF Results
    <3> QED BY <1>4, <3>1
  <2> QED BY <1>4, <2>1, <2>2, <2>3
<1> QED BY <1>3, <1>4, <1>7

LEMMA StepWebsocketPoll ==
    ASSUME TypeOK, Control, WebsocketPoll
    PROVE  Step
<1>0. client \in ClientType /\ task \in TaskType
  BY DEF TypeOK
<1>1. On("websocket", "POLL") /\ Return /\ UNCHANGED seen
  BY DEF WebsocketPoll
<1>2. /\ task.state = "websocket" /\ task.new_state = "websocket"
      /\ Held(client) \in {{}, {"resource"}}
  BY <1>1, InHandler DEF Events, Owned
<1>3. PICK k \in SameState(task) :
        /\ \/ task' = Goto(k, "http_disconnect")
           \/ task' = PollBackoff(k)
           \/ task' = PollDisable(k)
        /\ Held(client') = Held(client)
  <2>1. PICK rx \in ProcessRx(task, client) :
         \/ /\ rx.err = "FATAL"
            /\ client' = rx.client
            /\ task' = Goto(rx.task, "http_disconnect")
         \/ /\ rx.err # "FATAL"
            /\ \E tx \in ProcessTx(rx) :
                 /\ client' = tx.client
                 /\ task' \in CASE tx.err = "FATAL" -> {Goto(tx.task, "http_disconnect")}
                                [] tx.err = "POLL"  -> {PollBackoff(tx.task)}
                                [] tx.err = "OK"    -> {PollDisable(tx.task), PollBackoff(tx.task)}
    BY DEF WebsocketPoll
  <2>2. CASE client' = rx.client /\ task' = Goto(rx.task, "http_disconnect")
    BY <1>0, <2>2, ResultControl
  <2>3. ASSUME NEW tx \in ProcessTx(rx), client' = tx.client,
               task' \in CASE tx.err = "FATAL" -> {Goto(tx.task, "http_disconnect")}
                           [] tx.err = "POLL"  -> {PollBackoff(tx.task)}
                           [] tx.err = "OK"    -> {PollDisable(tx.task), PollBackoff(tx.task)}
        PROVE  \E k \in SameState(task) :
                 /\ \/ task' = Goto(k, "http_disconnect")
                    \/ task' = PollBackoff(k)
                    \/ task' = PollDisable(k)
                 /\ Held(client') = Held(client)
    <3>1. rx \in Results /\ tx \in Results
      BY <1>0, ProcessRxType, ProcessTxType
    <3>2. tx.err \in {"OK", "POLL", "FATAL"}
      BY <3>1 DEF Results
    <3>3. \/ task' = Goto(tx.task, "http_disconnect")
          \/ task' = PollBackoff(tx.task)
          \/ task' = PollDisable(tx.task)
      BY <2>3, <3>2
    <3>4. tx.task \in SameState(task) /\ Held(client') = Held(client)
      BY <1>0, <2>3, ResultControl
    <3> QED BY <3>3, <3>4
  <2> QED BY <2>1, <2>2, <2>3
<1>4. task'.state = "websocket" /\ task'.new_state \in {"websocket", "http_disconnect"}
  BY <1>0, <1>2, <1>3, StateControl DEF SameState
<1> QED BY <1>1, <1>2, <1>3, <1>4, TalkStep DEF Events

LEMMA StepTimers ==
    ASSUME TypeOK, Control, AppTimer \/ PingTimer
    PROVE  Step
<1>0. client \in ClientType /\ task \in TaskType
  BY DEF TypeOK
<1>1. PICK e \in Events : On("websocket", e)
  BY DEF AppTimer, PingTimer, Events
<1>2. /\ task.state = "websocket" /\ task.new_state = "websocket"
      /\ Held(client) \in {{}, {"resource"}}
  BY <1>1, InHandler DEF Owned
<1>3. task \in SameState(task) /\ [task EXCEPT !.timer2 = Timeout] \in SameState(task)
  BY <1>0, TimeoutAssumption DEF SameState, TaskType, Clocks
<1>4. \E k \in SameState(task) : task' = PollEnable(k) \/ task' = Goto(k, "http_disconnect")
  <2>1. CASE AppTimer
    BY <1>0, <1>3, <2>1, AppCallState DEF AppTimer
  <2>2. CASE PingTimer
    BY <1>3, <2>2 DEF PingTimer
  <2> QED BY <2>1, <2>2
<1>5. task'.state = "websocket" /\ task'.new_state \in {"websocket", "http_disconnect"}
  BY <1>0, <1>2, <1>4, StateControl DEF SameState
<1>6. Held(client') = Held(client)
  BY <1>0 DEF AppTimer, PingTimer, Held, ClientType
<1>7. Return /\ UNCHANGED seen
  BY DEF AppTimer, PingTimer
<1> QED BY <1>1, <1>2, <1>5, <1>6, <1>7, TalkStep

-----------------------------------------------------------------------------
(* The scheduler                                                           *)

\* The scheduler throws an event other than SENT, or none, and may shorten the queue.
LEMMA ThrowStep ==
    ASSUME Control, ev = "none", ev' \in (Events \cup {"none"}) \ {"SENT"}, halted' = halted,
           task'.state = task.state, task'.new_state = task.new_state,
           task'.queue \in {task.queue, <<>>}, UNCHANGED <<client, seen>>
    PROVE  Step
<1>1. ev' # "settle"
  BY DEF Events
<1>2. CycleInv'
  BY <1>1 DEF Control, CycleInv
<1>3. ResourceOwnership'
  BY DEF Control, ResourceOwnership
<1> QED BY <1>2, <1>3 DEF Step, Control, Cycle!cycle

LEMMA StepPhases ==
    ASSUME TypeOK, Control,
           \/ PollPhase \/ Timer1Phase \/ Timer2Phase \/ TxSkip \/ TxAssert \/ TxBlocked
           \/ TxError \/ Starve \/ PeerCloses \/ NoSocketEvent
    PROVE  Step
<1>0. task \in TaskType
  BY DEF TypeOK
<1>1. CASE PollPhase \/ Timer1Phase \/ Timer2Phase
  BY <1>0, <1>1, ThrowStep
  DEF PollPhase, Timer1Phase, Timer2Phase, At, Throw, Events, TaskType
<1>2. CASE TxSkip \/ TxBlocked \/ TxError
  BY <1>0, <1>2, ThrowStep DEF TxSkip, TxBlocked, TxError, At, Throw, Events, TaskType
<1>3. CASE TxAssert
  <2>1. \E a \in {"tx queue empty", "zero length write"} : Hang(a)
    BY <1>3 DEF TxAssert
  <2> QED BY <2>1, HangStep
<1>4. CASE Starve \/ PeerCloses \/ NoSocketEvent
  BY <1>0, <1>4, ThrowStep DEF Starve, PeerCloses, NoSocketEvent, At, Throw, Events, TaskType
<1> QED BY <1>1, <1>2, <1>3, <1>4

LEMMA StepTxWrite ==
    ASSUME TypeOK, Control, TxWrite
    PROVE  Step
<1>0. task \in TaskType
  BY DEF TypeOK
<1>1. /\ ev = "none" /\ halted = "no" /\ task.queue # <<>>
      /\ UNCHANGED <<client, halted, seen>>
  BY DEF TxWrite, At, TxNothing
<1>2. /\ task'.state = task.state /\ task'.new_state = task.new_state
      /\ task'.queue = Tail(task.queue)
  BY <1>0 DEF TxWrite, TaskType
<1>3. ev' = IF Len(task.queue) = 1 THEN "SENT" ELSE "none"
  BY DEF TxWrite, Throw
<1>4. ev' = "SENT" => task'.queue = <<>>
  <2>1. ASSUME NEW q \in Seq(Output), Len(q) = 1 PROVE Tail(q) = <<>>
    <3>1. q # <<>>
      BY <2>1
    <3>2. Tail(q) \in Seq(Output) /\ Len(Tail(q)) = 0
      BY <2>1, <3>1, HeadTailProperties
    <3> QED BY <3>2, EmptySeq
  <2> QED BY <1>0, <1>2, <1>3, <2>1 DEF TaskType
<1>5. CycleInv'
  BY <1>1, <1>2, <1>3, <1>4 DEF Control, CycleInv
<1>6. ResourceOwnership'
  BY <1>1, <1>2 DEF Control, ResourceOwnership
<1> QED BY <1>1, <1>2, <1>5, <1>6 DEF Step, Control, Cycle!cycle

LEMMA StepFinish ==
    ASSUME TypeOK, Control, Finish
    PROVE  Step
<1>1. ev = "none" /\ halted = "no" /\ UNCHANGED <<ev, halted>>
  BY DEF Finish, At
<1>2. CASE UNCHANGED <<task, client, seen>>
  BY <1>1, <1>2 DEF Control, CycleInv, ResourceOwnership, Step, Cycle!cycle
<1>3. CASE /\ task.state = "NULL"
           /\ task' = NoTask /\ client' = NoClient /\ seen' = NothingSeen
  <2>1. /\ task'.state = "absent" /\ task'.new_state = "absent" /\ task'.queue = <<>>
        /\ client'.owned = {} /\ seen'.heads = 0
    BY <1>3 DEF NoTask, FreshTask, NoClient, Malloced, NothingSeen
  <2>2. CycleInv'
    BY <1>1, <2>1 DEF CycleInv
  <2>3. ResourceOwnership'
    BY <2>1 DEF ResourceOwnership, Owned
  <2>4. task.new_state = "NULL"
    BY <1>1, <1>3 DEF Control, CycleInv
  <2>5. Cycle!Free
    BY <2>1, <2>4, PhaseNames DEF Cycle!Free, Cycle!Move
  <2> QED BY <2>2, <2>3, <2>5 DEF Step, Control, Cycle!Next
<1> QED BY <1>2, <1>3 DEF Finish

LEMMA StepAccept ==
    ASSUME TypeOK, Control, Accept
    PROVE  Step
<1>1. /\ ev = "none" /\ halted = "no" /\ task.state = "absent"
      /\ ev' = "ENTRY" /\ UNCHANGED <<halted, seen>>
  BY DEF Accept, At, Throw
<1>2. task.new_state = "absent"
  BY <1>1 DEF Control, CycleInv
<1>3. /\ task'.state = "connection_accepted" /\ task'.new_state = "connection_accepted"
      /\ task'.queue = <<>> /\ client'.owned = {}
  BY DEF Accept, FreshTask, Malloced
<1>4. CycleInv'
  BY <1>1, <1>3 DEF Control, CycleInv, Receiving, Serving
<1>5. ResourceOwnership'
  BY <1>3 DEF ResourceOwnership, Owned
<1>6. Cycle!Accept
  BY <1>1, <1>2, <1>3, PhaseNames DEF Cycle!Accept, Cycle!Move, Idle
<1> QED BY <1>4, <1>5, <1>6 DEF Step, Control, Cycle!Next

LEMMA StepReceive ==
    ASSUME TypeOK, Control, Receive \/ Clock
    PROVE  Step
<1>0. task \in TaskType
  BY DEF TypeOK
<1>1. CASE Receive
  <2>1. PICK u \in Units, d \in 0..Timeout :
          task' = [TimeAdvance(task, d) EXCEPT !.rx = Append(@, u)]
    BY <1>1 DEF Receive
  <2> DEFINE k == TimeAdvance(task, d)
  <2>2. /\ k \in TaskType /\ k.state = task.state /\ k.new_state = task.new_state
        /\ k.queue = task.queue
    <3>1. k \in TaskType
      BY <1>0, TimeoutAssumption, TaskOps
    <3>2. k \in {Priority(task, "low"), TimeAdvance(task, d)}
      OBVIOUS
    <3> QED BY <1>0, <3>1, <3>2, TaskControl
  <2>3. task' = [k EXCEPT !.rx = Append(@, u)]
    BY <2>1
  <2> HIDE DEF k
  <2>4. /\ task'.state = task.state /\ task'.new_state = task.new_state
        /\ task'.queue = task.queue
    BY <2>2, <2>3 DEF TaskType
  <2> QED BY <1>1, <2>4, ThrowStep DEF Receive, At, Throw, Events
<1>2. CASE Clock
  <2>1. PICK d \in 0..Timeout : TimePasses(d)
    BY <1>2 DEF Clock
  <2>2. /\ task'.state = task.state /\ task'.new_state = task.new_state
        /\ task'.queue = task.queue
    BY <1>0, <2>1, TaskControl DEF TimePasses
  <2> QED BY <2>1, <2>2, ThrowStep DEF TimePasses, At, Events
<1> QED BY <1>1, <1>2

-----------------------------------------------------------------------------
(* The theorems                                                            *)

LEMMA StepNext ==
    ASSUME TypeOK, BodyWithinLength, Control, Next
    PROVE  Step
<1>1. CASE RequestHandlers
  BY <1>1, StepConnectionAccepted, StepHeadersReceive, StepBodyReceive, StepRequestStore,
     StepRequestStorePoll, StepEnterWorking, StepHeadersParse, StepExpectReplyPoll,
     StepExpectReplySent, StepAuthenticate, StepParamsGet, StepShared
  DEF RequestHandlers, FileAssert
<1>2. CASE ResponseHandlers
  BY <1>2, StepEntries, StepMvcPreConfigure, StepPrepareHttpResponse, StepMvcPostConfigure,
     StepBuildHttpResponse, StepResponseSendPoll, StepResponseSendSent, StepKeepalive,
     StepDisconnect, StepCleanupRefused, StepShared
  DEF ResponseHandlers, FileAssert
<1>3. CASE WebsocketHandlers
  BY <1>3, StepWebsocketEntry, StepWebsocketRead, StepWebsocketPoll, StepTimers, StepShared
  DEF WebsocketHandlers, FileAssert
<1>4. CASE IgnoreRead \/ GiveUp \/ UnexpectedEvent \/ Settle
  BY <1>4, StepShared, StepSettle
<1>5. CASE Scheduler
  BY <1>5, StepPhases, StepTxWrite, StepFinish, StepAccept, StepReceive DEF Scheduler
<1>6. CASE Halted
  BY <1>6 DEF Halted, vars, Control, CycleInv, ResourceOwnership, Step, Cycle!cycle
<1> QED BY <1>1, <1>2, <1>3, <1>4, <1>5, <1>6 DEF Next, Handlers

LEMMA ControlInit == Init => Control /\ Cycle!Init
<1>1. /\ NoTask.state = "absent" /\ NoTask.new_state = "absent" /\ NoTask.queue = <<>>
      /\ NoClient.owned = {} /\ NothingSeen.heads = 0
  BY DEF NoTask, FreshTask, NoClient, Malloced, NothingSeen
<1> SUFFICES ASSUME Init PROVE Control /\ Cycle!Init
  OBVIOUS
<1>2. CycleInv
  BY <1>1 DEF Init, CycleInv
<1>3. ResourceOwnership
  BY <1>1 DEF Init, ResourceOwnership, Owned
<1> QED BY <1>1, <1>2, <1>3, PhaseNames DEF Init, Control, Cycle!Init

LEMMA ControlNext ==
    TypeOK /\ BodyWithinLength /\ Control /\ [Next]_vars => Step
<1> SUFFICES ASSUME TypeOK, BodyWithinLength, Control, [Next]_vars PROVE Step
  OBVIOUS
<1>1. CASE Next
  BY <1>1, StepNext
<1>2. CASE UNCHANGED vars
  BY <1>2 DEF vars, Control, CycleInv, ResourceOwnership, Step, Cycle!cycle
<1> QED BY <1>1, <1>2

\* The state and the event always agree; output is queued only by the states that
\* queue it and is gone once it is reported sent; and the buffer that starts a
\* response is either held or was queued once.
THEOREM CycleInvCorrect == Spec => []CycleInv
<1>1. Init => Control
  BY ControlInit
<1>2. TypeOK /\ BodyWithinLength /\ Control /\ [Next]_vars => Control'
  BY ControlNext DEF Step
<1>3. Control => CycleInv
  BY DEF Control
<1> QED BY <1>1, <1>2, <1>3, TypeCorrect, PTL DEF Spec

\* The resource of a response is open, and its buffer allocated, only in the states
\* that use or release them, whatever fails or times out on the way.
THEOREM OwnershipCorrect == Spec => []ResourceOwnership
<1>1. Init => Control
  BY ControlInit
<1>2. TypeOK /\ BodyWithinLength /\ Control /\ [Next]_vars => Control'
  BY ControlNext DEF Step
<1>3. Control => ResourceOwnership
  BY DEF Control
<1> QED BY <1>1, <1>2, <1>3, TypeCorrect, PTL DEF Spec

\* No failure while a response is prepared or sent starts another one: a request
\* gets at most one response.
THEOREM OneResponseCorrect == Spec => []OneResponse
<1>1. CycleInv => OneResponse
  BY DEF CycleInv, OneResponse
<1> QED BY <1>1, CycleInvCorrect, PTL

\* The connection, with its timers, memory, files and scheduler, implements the
\* abstract cycle: it is reused or upgraded only after a response, a request gets one
\* response, and the slot is given back only by a connection that was closed.
THEOREM CycleImplemented == Spec => ImplementsCycle
<1>1. Init => Control /\ Cycle!Init
  BY ControlInit
<1>2. TypeOK /\ BodyWithinLength /\ Control /\ [Next]_vars
        => Control' /\ [Cycle!Next]_(Cycle!cycle)
  BY ControlNext DEF Step
<1> QED BY <1>1, <1>2, TypeCorrect, PTL DEF Spec, ImplementsCycle, Cycle!Spec

-----------------------------------------------------------------------------
(* The data of the request and the clocks of the task: the invariant        *)

\* A state was asked for, or entered, and its ENTRY is not handled yet.
Entering == ev \in {"settle", "ENTRY"}

\* The request was read to the end of its body and is stored.
Whole(c) == /\ c.isp = "body" /\ c.isp_done /\ c.got = BodyLen(c.request)
            /\ c.headers_file = "read" /\ c.body_file = "read" /\ ~c.store

\* Only the head of the request has been stored.
HeadStored == {"headers_parse", "expect_reply", "body_receive"}

\* How far the request is stored in each state.
StoredInv ==
    /\ client.isp = "body" /\ client.isp_done => client.got = BodyLen(client.request)
    /\ client.isp = "body" /\ client.body_file = "closed" => client.isp_done
    /\ client.headers_file # "closed"
    /\ task.new_state \in HeadStored \cup {"headers_receive"} =>
         client.body_file = "none" /\ ~client.store
    /\ task.new_state \in HeadStored => client.headers_file = "read"
    /\ task.new_state = "request_store" =>
         /\ client.headers_file = "read" \/ client.isp = "headers"
         /\ client.body_file = "none" \/ client.isp = "body"
         /\ Entering => ~client.store
    /\ task.new_state \in HeadStored \cup {"request_store"} => ~client.pipelining
    /\ task.new_state \in {"authenticate", "params_get"} => Whole(client)
    /\ task.new_state = "keepalive" =>
         Whole(client) \/ (task.state = "keepalive" /\ client.headers_file = "unlinked")
    /\ task.new_state = "params_get" => client.pipelining
    /\ task.new_state = "authenticate" /\ ~Entering => client.pipelining
    /\ task.new_state \in Serving /\ client.pipelining => Whole(client)

\* The application's page is still to be prepared, and all it needs is there.
ControlledInv ==
    /\ task.new_state \in Receiving \cup {"headers_receive"} => "params" \notin client.owned
    /\ task.new_state \in Receiving => seen.controlled = 0
    /\ task.new_state \in {"response_entry", "mvc_pre_configuration"} /\ client.current = "NA" =>
         /\ seen.controlled = 0 /\ client.pipelining /\ "params" \in client.owned
    /\ seen.controlled <= 1

\* The client remembers the handler this request registered, and no other.
ServedInv ==
    /\ task.new_state \in {"absent", "connection_accepted"} => seen = NothingSeen
    /\ task.new_state \notin {"headers_receive", "NULL"} =>
         seen.served = 0 /\ client.onservice = seen.registered
    /\ task.new_state \in {"headers_receive", "NULL"} =>
         seen.served = IF seen.registered THEN 1 ELSE 0

\* What a finished connection has given back; no event reaches it any more.
ReleasedInv ==
    /\ task.new_state = "NULL" =>
         /\ client.owned = {} /\ client.rcv = <<>> /\ ~client.store
         /\ client.headers_file = "none" /\ client.body_file = "none"
         /\ ~client.websocket.def
    /\ task.state \notin Live => ev = "none"
    /\ task.new_state = "absent" => ev = "none"
    /\ task.state = "NULL" => task.rx = <<>> /\ task.queue = <<>>

\* Something is queued to be sent, or was just sent, only after an answer was given.
ExpectInv ==
    /\ task.new_state = "expect_reply" /\ (task.queue # <<>> \/ ev = "SENT") => seen.interims >= 1
    /\ task.state = "expect_reply" /\ task.new_state = "body_receive" => seen.interims >= 1

\* The clock that will wake the connection up in each state.
ClockInv ==
    /\ task.state \in Transient => Entering
    /\ task.state = "http_disconnect" /\ ~Entering => task.poll = 0
    /\ task.state \in HttpStates \ {"http_disconnect"} /\ ~Entering /\ ev # "TIMER1" =>
         task.timer1 # Infinite

\* A failed write empties the queue and leaves the network clock running; the
\* connection is then gone before the scheduler looks at its output again, unless its
\* clean-up is refused.
Dying == \/ ev = "ABORT" /\ pass = "finish"
         \/ /\ task.new_state = "http_disconnect"
            /\ \/ pass \in {"finish", "sockets", "time", "poll"}
               \/ pass = "timer1" /\ ev = "POLL"
               \/ client.headers_file = "unlinked"
         \/ task.new_state = "NULL"

TxInv == task.queue = <<>> /\ task.network_tx # Infinite /\ task.state \in Live => Dying

\* No length was announced yet, or no body follows the head.
Unsized(c) == c.head \/ c.total = Unknown

\* What was sent, what is queued and what the resource still holds add up to what
\* was announced.
LengthInv ==
    /\ task.new_state = "build_http_response" =>
         client.total = Unknown \/ client.source = client.total
    /\ task.new_state = "response_send" /\ "cbuf" \in client.owned =>
         /\ client.index = Header
         /\ Entering \/ client.sent = 0
         /\ Unsized(client) \/ client.source = client.total
    /\ task.new_state = "response_send" /\ Entering => "cbuf" \in client.owned
    /\ task.new_state = "response_send" /\ "cbuf" \notin client.owned =>
         /\ task.queue # <<>> \/ ev = "SENT" =>
              Unsized(client) \/ client.sent + client.index + client.source = Header + client.total
         /\ task.queue = <<>> /\ ev \notin {"SENT", "ABORT"} =>
              Unsized(client) \/ client.sent + client.source = Header + client.total
         /\ task.queue # <<>> => task.poll = Infinite /\ ev # "POLL"
    /\ task.new_state = "keepalive" =>
         client.sent = Header + client.total /\ (client.head \/ client.source = 0)

RequestInv == /\ StoredInv /\ ControlledInv /\ ServedInv /\ ReleasedInv
              /\ ExpectInv /\ ClockInv /\ TxInv /\ LengthInv

-----------------------------------------------------------------------------
(* The steps of the scheduler                                              *)

\* A failed assertion leaves everything else as it is.
LEMMA RequestHang ==
    ASSUME RequestInv, UNCHANGED <<pass, ev, task, client, seen>>
    PROVE  RequestInv'
<1>1. StoredInv' /\ ControlledInv' /\ ServedInv' /\ ReleasedInv'
  BY DEF RequestInv, StoredInv, Whole, ControlledInv, ServedInv, ReleasedInv, Entering
<1>2. ExpectInv' /\ ClockInv' /\ TxInv' /\ LengthInv'
  BY DEF RequestInv, ExpectInv, ClockInv, TxInv, Dying, LengthInv, Unsized, Entering
<1> QED BY <1>1, <1>2 DEF RequestInv

LEMMA RequestSettle ==
    ASSUME TypeOK, Control, RequestInv, Settle
    PROVE  RequestInv'
<1>1. /\ halted = "no" /\ ev = "settle"
      /\ task'.state = task.new_state /\ task'.new_state = task.new_state
      /\ task'.poll = Infinite /\ task'.timer1 = Infinite /\ task'.network_tx = task.network_tx
      /\ task'.rx = (IF task.new_state = "NULL" THEN <<>> ELSE task.rx)
      /\ task'.queue = (IF task.new_state = "NULL" THEN <<>> ELSE task.queue)
      /\ ev' = (IF task.new_state = "NULL" THEN "none" ELSE "ENTRY")
      /\ UNCHANGED <<pass, client, halted, seen>>
  BY DEF Settle, Throw, TypeOK, TaskType
<1>2. task.state \in Live
  BY <1>1 DEF RequestInv, ReleasedInv
<1>3. StoredInv'
  BY <1>1 DEF RequestInv, StoredInv, Whole, Entering, HeadStored, Serving
<1>4. ControlledInv' /\ ServedInv'
  BY <1>1 DEF RequestInv, ControlledInv, ServedInv
<1>5. ReleasedInv'
  BY <1>1, <1>2 DEF RequestInv, ReleasedInv, TypeOK, TaskType, States, Live
<1>6. ExpectInv' /\ ClockInv' /\ TxInv'
  BY <1>1, <1>2 DEF RequestInv, ExpectInv, ClockInv, TxInv, Dying, Entering, Live, HttpStates,
                    Transient, Working
<1>7. LengthInv'
  BY <1>1 DEF RequestInv, LengthInv, Unsized, Entering
<1> QED BY <1>3, <1>4, <1>5, <1>6, <1>7 DEF RequestInv

\* The scheduler throws an event, takes output or lets time pass, and leaves the
\* request alone.
LEMMA RequestVisit ==
    ASSUME TypeOK, Control, RequestInv, ev = "none", ev' \in (Events \cup {"none"}) \ {"ENTRY"},
           ev' # "none" => task.state \in Live,
           task'.state = task.state, task'.new_state = task.new_state,
           UNCHANGED <<client, seen>>,
           task'.queue # <<>> \/ ev' = "SENT" => task.queue # <<>>,
           task'.queue = <<>> /\ ev' \notin {"SENT", "ABORT"} => task.queue = <<>>,
           task.state = "NULL" => task'.rx = task.rx,
           task.poll = Infinite => task'.poll = Infinite /\ ev' # "POLL",
           task.poll = 0 => task'.poll = 0,
           task.state \in Live /\ task.timer1 # Infinite =>
             task'.timer1 # Infinite \/ ev' = "TIMER1",
           TxInv'
    PROVE  RequestInv'
<1>1. ev' # "settle" /\ task.new_state = task.state
  BY DEF Events, Control, CycleInv
<1>2. StoredInv'
  BY <1>1 DEF RequestInv, StoredInv, Whole, Entering, HeadStored, Serving
<1>3. ControlledInv' /\ ServedInv'
  BY <1>1 DEF RequestInv, ControlledInv, ServedInv
<1>4. ReleasedInv'
  BY <1>1 DEF RequestInv, ReleasedInv, Live, HttpStates, Transient, Working
<1>5. ExpectInv' /\ ClockInv'
  BY <1>1 DEF RequestInv, ExpectInv, ClockInv, Entering, Live
<1>6. LengthInv'
  BY <1>1 DEF RequestInv, LengthInv, Unsized, Entering
<1> QED BY <1>2, <1>3, <1>4, <1>5, <1>6 DEF RequestInv

\* A running clock keeps running while time passes, and one that is off stays off.
LEMMA ClockPasses ==
    ASSUME NEW t \in TaskType, NEW d \in Nat
    PROVE  LET k == TimeAdvance(t, d)
           IN  /\ k.state = t.state /\ k.new_state = t.new_state
               /\ k.queue = t.queue /\ k.rx = t.rx
               /\ t.poll = Infinite => k.poll = Infinite
               /\ t.poll = 0 => k.poll = 0
               /\ t.timer1 # Infinite => k.timer1 # Infinite
               /\ t.network_tx = Infinite => k.network_tx = Infinite
<1>1. \A delta \in Clocks : /\ delta = Infinite => Passed(delta, d) = Infinite
                            /\ delta = 0 => Passed(delta, d) = 0
                            /\ delta # Infinite => Passed(delta, d) # Infinite
  BY InfiniteAssumption DEF Passed, Clocks
<1>2. t.poll \in Clocks /\ t.timer1 \in Clocks /\ t.network_tx \in Clocks
  BY DEF TaskType
<1> DEFINE k == TimeAdvance(t, d)
<1>3. /\ k.state = t.state /\ k.new_state = t.new_state
      /\ k.queue = t.queue /\ k.rx = t.rx
      /\ k.poll = Passed(t.poll, d) /\ k.timer1 = Passed(t.timer1, d)
      /\ k.network_tx = Passed(t.network_tx, d)
  BY DEF TimeAdvance, TaskType
<1> HIDE DEF k
<1>4. /\ k.state = t.state /\ k.new_state = t.new_state
      /\ k.queue = t.queue /\ k.rx = t.rx
      /\ t.poll = Infinite => k.poll = Infinite
      /\ t.poll = 0 => k.poll = 0
      /\ t.timer1 # Infinite => k.timer1 # Infinite
      /\ t.network_tx = Infinite => k.network_tx = Infinite
  BY <1>1, <1>2, <1>3
<1> QED BY <1>4 DEF k

LEMMA RequestPhases ==
    ASSUME TypeOK, Control, RequestInv,
           PollPhase \/ Timer1Phase \/ Timer2Phase \/ TxSkip \/ Starve \/ PeerCloses \/ NoSocketEvent
    PROVE  RequestInv'
<1>0. task \in TaskType /\ 0 # Infinite /\ ev = "none"
  BY InfiniteAssumption DEF TypeOK, PollPhase, Timer1Phase, Timer2Phase, TxSkip, Starve,
     PeerCloses, NoSocketEvent, At
<1>1. UNCHANGED <<client, seen>>
  BY DEF PollPhase, Timer1Phase, Timer2Phase, TxSkip, Starve, PeerCloses, NoSocketEvent
<1>2. /\ task'.state = task.state /\ task'.new_state = task.new_state
      /\ task'.queue = task.queue /\ task'.rx = task.rx /\ task'.poll = task.poll
      /\ task'.network_tx = task.network_tx
      /\ task'.timer1 = task.timer1 \/ (Timer1Phase /\ task.timer1 = 0)
  <2>1. CASE PollPhase \/ TxSkip \/ Starve \/ NoSocketEvent
    BY <2>1 DEF PollPhase, TxSkip, Starve, NoSocketEvent
  <2>2. CASE Timer1Phase
    BY <1>0, <2>2 DEF Timer1Phase, TaskType
  <2>3. CASE Timer2Phase
    BY <1>0, <2>3 DEF Timer2Phase, TaskType
  <2>4. CASE PeerCloses
    BY <1>0, <2>4 DEF PeerCloses, TaskType
  <2> QED BY <2>1, <2>2, <2>3, <2>4
<1>3. /\ ev' # "none" => task.state \in Live
      /\ ev' \in {"POLL", "TIMER1", "TIMER2", "ABORT", "none"}
      /\ ev' = "POLL" => task.poll = 0
      /\ Timer1Phase /\ task.timer1 = 0 /\ task.state \in Live => ev' = "TIMER1"
  BY <1>0 DEF PollPhase, Timer1Phase, Timer2Phase, TxSkip, Starve, PeerCloses, NoSocketEvent, Throw
<1>4. TxInv'
  BY <1>0, <1>1, <1>2, <1>3
  DEF Control, CycleInv, RequestInv, TxInv, Dying, ClockInv, ReleasedInv, Entering, At, Throw, Live, HttpStates,
      PollPhase, Timer1Phase, Timer2Phase, TxSkip, TxDue, Starve, PeerCloses, NoSocketEvent
<1> QED BY <1>0, <1>1, <1>2, <1>3, <1>4, RequestVisit DEF Events

\* Output leaves the queue, blocks, or is lost with the connection.
LEMMA RequestTx ==
    ASSUME TypeOK, Control, RequestInv, TxWrite \/ TxBlocked \/ TxError \/ TxAssert
    PROVE  RequestInv'
<1>0. task \in TaskType /\ 0 # Infinite /\ 1 # Infinite
  BY InfiniteAssumption DEF TypeOK
<1>1. CASE TxAssert
  BY <1>1, RequestHang DEF TxAssert, Hang
<1>2. CASE TxWrite \/ TxBlocked \/ TxError
  <2>1. /\ ev = "none" /\ UNCHANGED <<client, seen>> /\ task.queue # <<>>
        /\ task.state \in Live /\ task.queue \in Seq(Output)
    BY <1>0, <1>2 DEF TxWrite, TxBlocked, TxError, At, TxDue, TxNothing, TaskType
  <2>2. /\ task'.state = task.state /\ task'.new_state = task.new_state
        /\ task'.rx = task.rx /\ task'.poll = task.poll /\ task'.timer1 = task.timer1
    BY <1>0, <1>2 DEF TaskType, TxWrite, TxBlocked, TxError
  <2>3. CASE TxWrite
    <3>1. /\ task'.queue = Tail(task.queue)
          /\ task'.network_tx = (IF Len(task.queue) = 1 THEN Infinite ELSE 0)
          /\ ev' = (IF Len(task.queue) = 1 THEN "SENT" ELSE "none")
      BY <1>0, <2>3 DEF TxWrite, Throw, TaskType
    <3>2. task'.queue = <<>> <=> Len(task.queue) = 1
      <4>1. Tail(task.queue) \in Seq(Output) /\ Len(Tail(task.queue)) = Len(task.queue) - 1
        BY <2>1, HeadTailProperties
      <4>2. Tail(task.queue) = <<>> <=> Len(Tail(task.queue)) = 0
        BY <4>1, EmptySeq
      <4> QED BY <2>1, <3>1, <4>1, <4>2
    <3>3. TxInv'
      BY <3>1, <3>2 DEF TxInv
    <3>4. ev' \in {"SENT", "none"} /\ (task'.queue = <<>> => ev' = "SENT")
      BY <3>1, <3>2
    <3> QED BY <2>1, <2>2, <3>3, <3>4, RequestVisit DEF Events
  <2>4. CASE TxBlocked
    <3>1. ev' = "none" /\ task'.queue = task.queue
      BY <1>0, <2>1, <2>4 DEF TxBlocked, TaskType
    <3>2. TxInv'
      BY <2>1, <3>1 DEF TxInv
    <3> QED BY <2>1, <2>2, <3>1, <3>2, RequestVisit DEF Events
  <2>5. CASE TxError
    <3>1. ev' = "ABORT" /\ pass' = "finish" /\ task'.queue = <<>>
      BY <1>0, <2>1, <2>5 DEF TxError, Throw, TaskType
    <3>2. TxInv'
      BY <3>1 DEF TxInv, Dying
    <3>3. task.state # "NULL"
      BY <2>1 DEF Live, HttpStates, Transient, Working
    <3> QED BY <2>1, <2>2, <3>1, <3>2, <3>3, RequestVisit DEF Events
  <2> QED BY <1>2, <2>3, <2>4, <2>5
<1> QED BY <1>1, <1>2

\* A slot that is free: nothing is known of any request.
LEMMA RequestFree ==
    ASSUME ev' = "none", task' = NoTask, client' = NoClient, seen' = NothingSeen
    PROVE  RequestInv'
<1>1. /\ task'.state = "absent" /\ task'.new_state = "absent" /\ client'.isp = "headers"
      /\ client'.headers_file = "none" /\ client'.onservice = FALSE
      /\ seen'.served = 0 /\ seen'.registered = FALSE /\ seen'.controlled = 0
  BY DEF NoTask, FreshTask, NoClient, Malloced, NothingSeen
<1>2. StoredInv'
  BY <1>1 DEF StoredInv, HeadStored, Serving
<1>3. ControlledInv'
  BY <1>1 DEF ControlledInv, Receiving
<1>4. ServedInv'
  BY <1>1 DEF ServedInv
<1>5. ReleasedInv' /\ ExpectInv' /\ ClockInv' /\ TxInv' /\ LengthInv'
  BY <1>1 DEF ReleasedInv, ExpectInv, ClockInv, TxInv, LengthInv, Live, HttpStates, Transient, Working
<1> QED BY <1>2, <1>3, <1>4, <1>5 DEF RequestInv

LEMMA RequestFinish ==
    ASSUME TypeOK, Control, RequestInv, Finish
    PROVE  RequestInv'
<1>1. CASE task.state = "NULL"
  BY <1>1, RequestFree DEF Finish, At
<1>2. CASE task.state # "NULL"
  <2>1. ev = "none" /\ ev' = "none" /\ UNCHANGED <<task, client, seen>>
    BY <1>2 DEF Finish, At
  <2>2. TxInv'
    BY <1>2, <2>1 DEF RequestInv, TxInv, Dying, Finish, At
  <2> QED BY <2>1, <2>2, RequestVisit DEF Events
<1> QED BY <1>1, <1>2

LEMMA RequestAccept ==
    ASSUME TypeOK, Control, RequestInv, Accept
    PROVE  RequestInv'
<1>0. ev = "none" /\ task.state = "absent" /\ task.new_state = "absent"
  BY DEF Accept, At, Control, CycleInv
<1>1. /\ task'.state = "connection_accepted" /\ task'.new_state = "connection_accepted"
      /\ task'.network_tx = Infinite /\ ev' = "ENTRY"
  BY DEF Accept, FreshTask, Throw
<1>2. client'.isp = "headers" /\ client'.headers_file = "none" /\ client'.onservice = FALSE
  BY DEF Accept, Malloced
<1>3. seen' = NothingSeen /\ seen'.served = 0 /\ seen'.registered = FALSE /\ seen'.controlled = 0
  BY <1>0 DEF Accept, RequestInv, ServedInv, NothingSeen
<1>4. StoredInv'
  BY <1>1, <1>2 DEF StoredInv, HeadStored, Serving
<1>5. ControlledInv'
  BY <1>1, <1>3 DEF ControlledInv, Receiving
<1>6. ServedInv'
  BY <1>1, <1>2, <1>3 DEF ServedInv
<1>7. ReleasedInv' /\ ExpectInv' /\ ClockInv' /\ TxInv' /\ LengthInv'
  BY <1>1 DEF ReleasedInv, ExpectInv, ClockInv, TxInv, LengthInv, Entering, Live, HttpStates, Transient
<1> QED BY <1>4, <1>5, <1>6, <1>7 DEF RequestInv

\* Input arrives and time passes.
LEMMA RequestTime ==
    ASSUME TypeOK, Control, RequestInv, Receive \/ Clock
    PROVE  RequestInv'
<1>0. task \in TaskType
  BY DEF TypeOK
<1>1. CASE Receive
  <2>1. PICK u \in Units, d \in 0..Timeout : task' = [TimeAdvance(task, d) EXCEPT !.rx = Append(@, u)]
    BY <1>1 DEF Receive
  <2>2. d \in Nat
    BY TimeoutAssumption
  <2> DEFINE k == TimeAdvance(task, d)
  <2>3. k \in TaskType
    BY <1>0, <2>2, TaskOps
  <2>4. /\ task'.state = k.state /\ task'.new_state = k.new_state /\ task'.queue = k.queue
        /\ task'.poll = k.poll /\ task'.timer1 = k.timer1 /\ task'.network_tx = k.network_tx
    BY <2>1, <2>3 DEF TaskType
  <2>5. /\ k.state = task.state /\ k.new_state = task.new_state /\ k.queue = task.queue
        /\ task.poll = Infinite => k.poll = Infinite
        /\ task.poll = 0 => k.poll = 0
        /\ task.timer1 # Infinite => k.timer1 # Infinite
        /\ task.network_tx = Infinite => k.network_tx = Infinite
    BY <1>0, <2>2, ClockPasses
  <2> HIDE DEF k
  <2>6. /\ ev = "none" /\ ev' = "READ" /\ pass = "sockets" /\ pass' = "time"
        /\ task.state \in Live /\ task.state # "NULL" /\ UNCHANGED <<client, seen>>
    BY <1>1 DEF Receive, At, Throw, Live, HttpStates, Transient, Working
  <2>7. TxInv'
    BY <2>4, <2>5, <2>6 DEF RequestInv, TxInv, Dying
  <2> QED BY <2>4, <2>5, <2>6, <2>7, RequestVisit DEF Events
<1>2. CASE Clock
  <2>1. PICK d \in 0..Timeout : TimePasses(d)
    BY <1>2 DEF Clock
  <2>2. d \in Nat
    BY TimeoutAssumption
  <2> DEFINE k == TimeAdvance(task, d)
  <2>3. task' = k
    BY <2>1 DEF TimePasses
  <2>5. /\ k.state = task.state /\ k.new_state = task.new_state /\ k.queue = task.queue
        /\ k.rx = task.rx
        /\ task.poll = Infinite => k.poll = Infinite
        /\ task.poll = 0 => k.poll = 0
        /\ task.timer1 # Infinite => k.timer1 # Infinite
        /\ task.network_tx = Infinite => k.network_tx = Infinite
    BY <1>0, <2>2, ClockPasses
  <2> HIDE DEF k
  <2>6. /\ ev = "none" /\ ev' = "none" /\ pass = "time" /\ pass' = "poll"
        /\ UNCHANGED <<client, seen>>
    BY <2>1 DEF TimePasses, At
  <2>7. TxInv'
    BY <2>3, <2>5, <2>6 DEF RequestInv, TxInv, Dying
  <2> QED BY <2>3, <2>5, <2>6, <2>7, RequestVisit DEF Events
<1> QED BY <1>1, <1>2

-----------------------------------------------------------------------------
(* What the handlers have in common                                        *)

\* A handler keeps the state it runs in, and its timer; it does not touch the output
\* or queues some; a transient state is left; and a connection that is given up is
\* not asked to do anything else.
Handled ==
    /\ halted = "no" /\ ev \in Events /\ task.state \in Live /\ task.new_state = task.state
    /\ Return
    /\ task'.state = task.state /\ task'.new_state # "absent"
    /\ task'.timer1 \in {task.timer1, Timeout}
    /\ \/ task'.queue = task.queue /\ task'.network_tx = task.network_tx
       \/ task'.queue # <<>>
    /\ task.state \in Transient => task'.new_state # task.state
    /\ task.state = "http_disconnect" /\ task'.new_state = task.state => task'.poll = 0
    /\ task.state \in HttpStates \ {"http_disconnect"} /\ task'.new_state = task.state
         /\ ev \in {"ENTRY", "TIMER1"} => task'.timer1 = Timeout
    /\ ev = "ABORT" \/ task.state = "http_disconnect" =>
         task'.new_state \in {"http_disconnect", "NULL"}
    /\ task.state = "http_disconnect" /\ ev = "POLL" => task'.new_state = "NULL"

\* The request data of a client.
SameRequest(c, d) ==
    /\ d.isp = c.isp /\ d.isp_done = c.isp_done /\ d.got = c.got /\ d.request = c.request
    /\ d.store = c.store /\ d.pipelining = c.pipelining
    /\ d.headers_file = c.headers_file /\ d.body_file = c.body_file

\* The clocks of the connection after a handler.
LEMMA HandledClocks ==
    ASSUME TypeOK, RequestInv, Handled,
           task'.new_state = "NULL" =>
             /\ client'.owned = {} /\ client'.rcv = <<>> /\ ~client'.store
             /\ client'.headers_file = "none" /\ client'.body_file = "none"
             /\ ~client'.websocket.def,
           task.state = "http_disconnect" =>
             client' = client \/ task'.new_state = "NULL"
    PROVE  ReleasedInv' /\ ClockInv' /\ TxInv'
<1>1. /\ ev' = (IF task.state = task'.new_state THEN "none" ELSE "settle")
      /\ pass' = pass /\ Timeout # Infinite /\ ev # "settle"
  BY InfiniteAssumption, TimeoutAssumption DEF Handled, Return, Events
<1>2. task.state # "NULL"
  BY DEF Handled, Live, HttpStates, Transient, Working
<1>3. ReleasedInv'
  BY <1>1, <1>2 DEF Handled, ReleasedInv
<1>4. ClockInv'
  BY <1>1 DEF Handled, RequestInv, ClockInv, Entering
<1>5. TxInv'
  BY <1>1, <1>2 DEF Handled, RequestInv, TxInv, Dying, Events
<1> QED BY <1>3, <1>4, <1>5

\* A handler after which the request is not read or answered any further.
LEMMA RequestOver ==
    ASSUME TypeOK, Control, RequestInv, Handled,
           task'.new_state \in {"http_disconnect", "websocket"},
           task.state \notin {"headers_receive", "connection_accepted"},
           client'.isp = client.isp, client'.isp_done = client.isp_done,
           client'.got = client.got, client'.request = client.request,
           client'.headers_file \in {client.headers_file, "none"},
           client'.body_file \in {client.body_file, "none"},
           client'.onservice = client.onservice,
           task.state = "http_disconnect" => client' = client,
           seen'.served = seen.served, seen'.registered = seen.registered,
           seen'.controlled = seen.controlled
    PROVE  RequestInv'
<1>1. task.state \notin {"NULL", "absent"} /\ task.new_state = task.state
  BY DEF Handled, Live, HttpStates, Transient, Working
<1>2. StoredInv'
  BY DEF RequestInv, StoredInv, HeadStored, Serving
<1>3. ControlledInv'
  BY DEF RequestInv, ControlledInv, Receiving
<1>4. ServedInv'
  BY <1>1 DEF RequestInv, ServedInv
<1>5. ReleasedInv' /\ ClockInv' /\ TxInv'
  BY HandledClocks
<1>6. ExpectInv' /\ LengthInv'
  BY DEF ExpectInv, LengthInv
<1> QED BY <1>2, <1>3, <1>4, <1>5, <1>6 DEF RequestInv

\* A handler that changes nothing of the request and stays where it is.
LEMMA RequestStay ==
    ASSUME TypeOK, Control, RequestInv, Handled, ev \notin {"ENTRY", "SENT", "ABORT"},
           task'.new_state = task.state, UNCHANGED <<client, seen>>,
           task'.queue = task.queue, task'.poll = task.poll \/ ev = "POLL"
    PROVE  RequestInv'
<1>1. ev' = "none" /\ ev # "settle" /\ task.new_state = task.state /\ task'.state = task.state
  BY DEF Handled, Return, Events
<1>2. task.state \notin {"NULL", "absent"}
  BY DEF Handled, Live, HttpStates, Transient, Working
<1>3. StoredInv'
  BY <1>1 DEF RequestInv, StoredInv, Whole, Entering, HeadStored, Serving
<1>4. ControlledInv' /\ ServedInv'
  BY <1>1 DEF RequestInv, ControlledInv, ServedInv
<1>5. ReleasedInv' /\ ClockInv' /\ TxInv'
  BY <1>1, <1>2, HandledClocks
<1>6. ExpectInv'
  BY <1>1 DEF RequestInv, ExpectInv
<1>7. LengthInv'
  BY <1>1 DEF RequestInv, LengthInv, Unsized, Entering
<1> QED BY <1>3, <1>4, <1>5, <1>6, <1>7 DEF RequestInv

\* The clocks and the input of a task under the operators on it.
LEMMA TaskClocks ==
    ASSUME NEW t \in TaskType
    PROVE  /\ \A s : /\ Goto(t, s).poll = t.poll /\ Goto(t, s).timer1 = t.timer1
                     /\ Goto(t, s).network_tx = t.network_tx /\ Goto(t, s).rx = t.rx
           /\ \A p : /\ Priority(t, p).poll = t.poll /\ Priority(t, p).timer1 = t.timer1
                     /\ Priority(t, p).network_tx = t.network_tx /\ Priority(t, p).rx = t.rx
           /\ Timer1Set(t).poll = t.poll /\ Timer1Set(t).timer1 = Timeout
           /\ Timer1Set(t).network_tx = t.network_tx /\ Timer1Set(t).rx = t.rx
           /\ PollEnable(t).poll = 0 /\ PollBackoff(t).poll = 1 /\ PollDisable(t).poll = Infinite
           /\ \A k \in {PollEnable(t), PollDisable(t), PollBackoff(t)} :
                k.timer1 = t.timer1 /\ k.network_tx = t.network_tx /\ k.rx = t.rx
<1> USE DEF TaskType
<1>1. \A s : /\ Goto(t, s).poll = t.poll /\ Goto(t, s).timer1 = t.timer1
             /\ Goto(t, s).network_tx = t.network_tx /\ Goto(t, s).rx = t.rx
  BY DEF Goto
<1>2. \A p : /\ Priority(t, p).poll = t.poll /\ Priority(t, p).timer1 = t.timer1
             /\ Priority(t, p).network_tx = t.network_tx /\ Priority(t, p).rx = t.rx
  BY DEF Priority
<1>3. /\ Timer1Set(t).poll = t.poll /\ Timer1Set(t).timer1 = Timeout
      /\ Timer1Set(t).network_tx = t.network_tx /\ Timer1Set(t).rx = t.rx
  BY DEF Timer1Set
<1>4. PollEnable(t).poll = 0 /\ PollBackoff(t).poll = 1 /\ PollDisable(t).poll = Infinite
  BY DEF PollEnable, PollBackoff, PollDisable
<1>5. \A k \in {PollEnable(t), PollDisable(t), PollBackoff(t)} :
        k.timer1 = t.timer1 /\ k.network_tx = t.network_tx /\ k.rx = t.rx
  BY DEF PollEnable, PollBackoff, PollDisable
<1> QED BY <1>1, <1>2, <1>3, <1>4, <1>5

\* The handlers that ask for another state and touch nothing else of the task.
LEMMA HandledGoto ==
    ASSUME TypeOK, Control, NEW s \in HttpStates \ {"http_disconnect"}, NEW e \in Events, On(s, e),
           NEW t \in Live, t # s, e # "ABORT" \/ t = "http_disconnect",
           task' = Goto(task, t), Return
    PROVE  Handled /\ task'.new_state = t /\ task'.queue = task.queue /\ ev' = "settle"
<1>1. task.state = s /\ task.new_state = s /\ halted = "no" /\ ev = e
  BY InHandler
<1>2. /\ task'.state = s /\ task'.new_state = t /\ task'.queue = task.queue
      /\ task'.timer1 = task.timer1 /\ task'.network_tx = task.network_tx
  BY <1>1, TaskControl, TaskClocks DEF TypeOK
<1>3. t # "absent"
  BY DEF Live, HttpStates, Transient, Working
<1> QED BY <1>1, <1>2, <1>3 DEF Handled, Return, Live

\* The working states that try again later.
LEMMA HandledLater ==
    ASSUME TypeOK, Control, NEW s \in Working, On(s, "POLL"),
           task' \in {PollBackoff(task), PollDisable(task)}, Return
    PROVE  Handled /\ task'.new_state = s /\ task'.queue = task.queue /\ ev' = "none"
<1>1. task.state = s /\ task.new_state = s /\ halted = "no" /\ ev = "POLL"
  BY InHandler DEF Events
<1>2. /\ task'.state = s /\ task'.new_state = s /\ task'.queue = task.queue
      /\ task'.timer1 = task.timer1 /\ task'.network_tx = task.network_tx
  BY <1>1, TaskControl, TaskClocks DEF TypeOK
<1>3. s \in HttpStates /\ s \notin Transient /\ s \notin {"absent", "http_disconnect"}
  BY DEF HttpStates, Transient, Working
<1> QED BY <1>1, <1>2, <1>3 DEF Handled, Return, Live, Events

\* A working state is short of something and has changed nothing.
LEMMA RequestLater ==
    ASSUME TypeOK, Control, RequestInv, NEW s \in Working, On(s, "POLL"), TryLater, Return,
           UNCHANGED <<client, seen>>
    PROVE  RequestInv'
  BY HandledLater, RequestStay, InHandler DEF TryLater, Events

LEMMA RequestShared ==
    ASSUME TypeOK, Control, RequestInv, IgnoreRead \/ GiveUp \/ UnexpectedEvent \/ FileAssert
    PROVE  RequestInv'
<1>1. CASE IgnoreRead
  <2>1. /\ ev = "READ" /\ halted = "no" /\ task.state \in HttpStates /\ Return
        /\ UNCHANGED <<task, client, seen>>
    BY <1>1 DEF IgnoreRead
  <2>2. task.new_state = task.state /\ task.state \notin Transient
    BY <2>1 DEF Control, CycleInv, RequestInv, ClockInv, Entering
  <2>3. task.state # "absent" /\ (task.state = "http_disconnect" => task.poll = 0)
    BY <2>1 DEF HttpStates, Transient, Working, RequestInv, ClockInv, Entering
  <2>4. Handled
    BY <2>1, <2>2, <2>3 DEF Handled, Live, Events
  <2> QED BY <2>1, <2>2, <2>4, RequestStay
<1>2. CASE GiveUp
  <2>1. PICK s \in HttpStates \ {"connection_accepted", "http_disconnect"}, e \in {"TIMER1", "ABORT"} :
          On(s, e) /\ task' = Goto(task, "http_disconnect") /\ UNCHANGED <<client, seen>> /\ Return
    BY <1>2 DEF GiveUp, On
  <2>2. e \in Events /\ "http_disconnect" \in Live /\ ev = e /\ task.state = s
    BY <2>1 DEF Events, Live, HttpStates, On
  <2>3. Handled /\ task'.new_state = "http_disconnect"
    BY <2>1, <2>2, HandledGoto
  <2>4. task.state # "headers_receive"
    BY <2>1, <2>2 DEF RequestInv, ClockInv, Entering, Transient
  <2> QED BY <2>1, <2>2, <2>3, <2>4, RequestOver
<1>3. CASE UnexpectedEvent
  BY <1>3, RequestHang DEF UnexpectedEvent, Hang
<1>4. CASE FileAssert
  BY <1>4, FileAssertHangs, RequestHang DEF Hang
<1> QED BY <1>1, <1>2, <1>3, <1>4

-----------------------------------------------------------------------------
(* Receiving and storing a request                                         *)

LEMMA RequestConnectionAccepted ==
    ASSUME TypeOK, Control, RequestInv, ConnectionAccepted
    PROVE  RequestInv'
<1>0. client \in ClientType /\ On("connection_accepted", "ENTRY") /\ Return /\ UNCHANGED seen
  BY DEF ConnectionAccepted, TypeOK
<1>1. Handled /\ task'.new_state = "headers_receive" /\ task.new_state = "connection_accepted"
  BY <1>0, HandledGoto, InHandler
  DEF ConnectionAccepted, HttpStates, Transient, Live, Events
<1>2. /\ client'.isp = client.isp /\ client'.isp_done = client.isp_done /\ client'.got = client.got
      /\ client'.request = client.request /\ client'.store = FALSE /\ client'.owned = {}
      /\ client'.headers_file = "none" /\ client'.body_file = "none"
  BY <1>0 DEF ConnectionAccepted, ClientType
<1>3. seen = NothingSeen
  BY <1>1 DEF RequestInv, ServedInv
<1>4. StoredInv'
  BY <1>1, <1>2 DEF RequestInv, StoredInv, HeadStored, Serving
<1>5. ControlledInv' /\ ServedInv'
  BY <1>0, <1>1, <1>2, <1>3 DEF RequestInv, ControlledInv, ServedInv, NothingSeen, Receiving
<1>6. ReleasedInv' /\ ClockInv' /\ TxInv'
  BY <1>0, <1>1, HandledClocks DEF On
<1>7. ExpectInv' /\ LengthInv'
  BY <1>1 DEF ExpectInv, LengthInv
<1> QED BY <1>4, <1>5, <1>6, <1>7 DEF RequestInv

LEMMA RequestHeadersReceive ==
    ASSUME TypeOK, Control, RequestInv, HeadersReceive
    PROVE  RequestInv'
<1>0. client \in ClientType /\ task \in TaskType /\ On("headers_receive", "ENTRY")
  BY DEF HeadersReceive, TypeOK
<1>1. task.state = "headers_receive" /\ task.new_state = "headers_receive" /\ halted = "no" /\ ev = "ENTRY"
  BY <1>0, InHandler DEF Events
<1>2. ~client.store /\ client.body_file = "none" /\ client.headers_file # "closed"
      /\ "params" \notin client.owned
  BY <1>1 DEF RequestInv, StoredInv, ControlledInv
<1>3. /\ client' = IspStart(NewRequest(client), "headers") /\ seen' = NothingSeen
      /\ task' = Goto(Priority(Timer1Set(task), "low"), "request_store") /\ Return
  BY <1>2 DEF HeadersReceive
<1>4. /\ task'.state = "headers_receive" /\ task'.new_state = "request_store"
      /\ task'.queue = task.queue /\ task'.network_tx = task.network_tx /\ task'.timer1 = Timeout
  BY <1>0, <1>1, <1>3 DEF Goto, Priority, Timer1Set, TaskType
<1>5. Handled /\ ev' = "settle"
  BY <1>1, <1>3, <1>4 DEF Handled, Return, Live, HttpStates, Transient, Events
<1>6. /\ client'.isp = "headers" /\ client'.isp_done = FALSE /\ client'.pipelining = FALSE
      /\ client'.onservice = FALSE /\ client'.owned = client.owned /\ client'.store = client.store
      /\ client'.headers_file = client.headers_file /\ client'.body_file = client.body_file
  BY <1>0, <1>3 DEF IspStart, NewRequest, ClientType
<1>7. /\ seen'.served = 0 /\ seen'.controlled = 0 /\ seen'.registered = FALSE
  BY <1>3 DEF NothingSeen
<1>8. StoredInv'
  BY <1>2, <1>4, <1>6 DEF StoredInv, HeadStored, Serving
<1>9. ControlledInv' /\ ServedInv'
  <2>1. ControlledInv'
    BY <1>2, <1>4, <1>6, <1>7 DEF ControlledInv
  <2>2. ServedInv'
    BY <1>4, <1>6, <1>7 DEF ServedInv
  <2> QED BY <2>1, <2>2
<1>10. ReleasedInv' /\ ClockInv' /\ TxInv'
  BY <1>1, <1>4, <1>5, HandledClocks
<1>11. ExpectInv' /\ LengthInv'
  BY <1>4 DEF ExpectInv, LengthInv
<1> QED BY <1>8, <1>9, <1>10, <1>11 DEF RequestInv

LEMMA RequestBodyReceive ==
    ASSUME TypeOK, Control, RequestInv, BodyReceive
    PROVE  RequestInv'
<1>0. client \in ClientType /\ task \in TaskType /\ On("body_receive", "ENTRY")
  BY DEF BodyReceive, TypeOK
<1>1. task.state = "body_receive" /\ task.new_state = "body_receive" /\ halted = "no" /\ ev = "ENTRY"
  BY <1>0, InHandler DEF Events
<1>2. /\ ~client.store /\ client.body_file = "none" /\ client.headers_file = "read"
      /\ ~client.pipelining /\ "params" \notin client.owned
      /\ seen.controlled = 0 /\ seen.served = 0 /\ client.onservice = seen.registered
  BY <1>1 DEF RequestInv, StoredInv, ControlledInv, ServedInv, HeadStored, Receiving
<1>3. /\ client' = IspStart(client, "body") /\ UNCHANGED seen
      /\ task' = Goto(Priority(Timer1Set(task), "low"), "request_store") /\ Return
  BY <1>2 DEF BodyReceive
<1>4. /\ task'.state = "body_receive" /\ task'.new_state = "request_store"
      /\ task'.queue = task.queue /\ task'.network_tx = task.network_tx /\ task'.timer1 = Timeout
  BY <1>0, <1>1, <1>3 DEF Goto, Priority, Timer1Set, TaskType
<1>5. Handled /\ ev' = "settle"
  BY <1>1, <1>3, <1>4 DEF Handled, Return, Live, HttpStates, Transient, Events
<1>6. /\ client'.isp = "body" /\ client'.isp_done = FALSE /\ client'.pipelining = client.pipelining
      /\ client'.onservice = client.onservice /\ client'.owned = client.owned
      /\ client'.store = client.store
      /\ client'.headers_file = client.headers_file /\ client'.body_file = client.body_file
  BY <1>0, <1>3 DEF IspStart, ClientType
<1>7. StoredInv'
  BY <1>2, <1>4, <1>6 DEF StoredInv, HeadStored, Serving
<1>8. ControlledInv' /\ ServedInv'
  BY <1>2, <1>3, <1>4, <1>6 DEF ControlledInv, ServedInv
<1>9. ReleasedInv' /\ ClockInv' /\ TxInv'
  BY <1>1, <1>4, <1>5, HandledClocks
<1>10. ExpectInv' /\ LengthInv'
  BY <1>4 DEF ExpectInv, LengthInv
<1> QED BY <1>7, <1>8, <1>9, <1>10 DEF RequestInv

LEMMA RequestTakeInput ==
    ASSUME TypeOK, Control, RequestInv, RequestStoreEntry \/ RequestStoreRead
    PROVE  RequestInv'
<1>0. client \in ClientType /\ task \in TaskType
  BY DEF TypeOK
<1>1. PICK e \in {"ENTRY", "READ"} : On("request_store", e)
  BY DEF RequestStoreEntry, RequestStoreRead
<1>2. task.state = "request_store" /\ task.new_state = "request_store" /\ halted = "no" /\ ev = e
  BY <1>1, InHandler DEF Events
<1>3. e = "ENTRY" => ~client.store
  BY <1>2 DEF RequestInv, StoredInv, Entering
<1>4. TakeInput /\ UNCHANGED seen /\ Return
  BY <1>2, <1>3 DEF RequestStoreEntry, RequestStoreRead, On
<1>5. /\ task'.state = "request_store" /\ task'.new_state = "request_store"
      /\ task'.queue = task.queue /\ task'.network_tx = task.network_tx /\ task'.timer1 = Timeout
  BY <1>0, <1>2, <1>4 DEF TakeInput, PollEnable, TaskType
<1>6. SameRequest(client, client') /\ client'.owned = client.owned
      /\ client'.onservice = client.onservice
  BY <1>0, <1>4 DEF TakeInput, SameRequest, ClientType
<1>7. Handled /\ ev' = "none"
  BY <1>2, <1>4, <1>5 DEF Handled, Return, Live, HttpStates, Transient, Events
<1>8. StoredInv'
  BY <1>2, <1>5, <1>6, <1>7
  DEF RequestInv, StoredInv, SameRequest, Entering, HeadStored, Serving
<1>9. ControlledInv' /\ ServedInv'
  BY <1>2, <1>4, <1>5, <1>6 DEF RequestInv, ControlledInv, ServedInv, Receiving
<1>10. ReleasedInv' /\ ClockInv' /\ TxInv'
  BY <1>2, <1>5, <1>7, HandledClocks
<1>11. ExpectInv' /\ LengthInv'
  BY <1>5 DEF ExpectInv, LengthInv
<1> QED BY <1>8, <1>9, <1>10, <1>11 DEF RequestInv

\* The input stream processors touch only what they take and how far they are.
LEMMA IspEffect ==
    ASSUME NEW c \in ClientType, Fits(c), NEW i \in Isp(c),
           c.isp = "body" /\ c.isp_done => c.got = BodyLen(c.request)
    PROVE  LET d == i.client
           IN  /\ d.isp = c.isp /\ d.pipelining = c.pipelining /\ d.onservice = c.onservice
               /\ d.headers_file = c.headers_file /\ d.body_file = c.body_file
               /\ c.isp = "body" => /\ d.request = c.request
                                    /\ d.isp_done => d.got = BodyLen(d.request)
                                    /\ c.isp_done => d.isp_done
<1> DEFINE d == i.client
<1>1. CASE c.isp = "headers"
  <2> DEFINE Taken(rcv, request) == [c EXCEPT !.isp_done = TRUE, !.store = TRUE,
                                              !.rcv = rcv, !.request = request]
  <2>1. d = c \/ d = [c EXCEPT !.current = "413"] \/ \E rcv, request : d = Taken(rcv, request)
    <3> DEFINE ends == {k \in DOMAIN c.rcv : c.rcv[k] \in Heads}
               first == {k \in ends : \A j \in ends : k <= j}
               Request(end) == IF end = 1 THEN c.rcv[1] ELSE "garbled"
               Rest(end) == SubSeq(c.rcv, end + 1, Len(c.rcv))
    <3>1. \/ i \in {[err |-> "OK", client |-> c], [err |-> "READ", client |-> c],
                    [err |-> "FATAL", client |-> [c EXCEPT !.current = "413"]]}
          \/ i \in {[err |-> "POLL", client |-> c]}
                   \cup {[err |-> "OK", client |-> Taken(Rest(end), Request(end))] : end \in first}
      <4>1. CASE c.isp_done
        BY <1>1, <4>1, Zenon DEF Isp, HeadersIsp
      <4>2. CASE ~c.isp_done /\ ends = {}
        BY <1>1, <4>2, Zenon DEF Isp, HeadersIsp
      <4>3. CASE ~c.isp_done /\ ends # {}
        BY <1>1, <4>3 DEF Isp, HeadersIsp
      <4> QED BY <4>1, <4>2, <4>3
    <3> HIDE DEF Taken, Request, Rest, first, ends
    <3>2. ASSUME NEW end \in first, i = [err |-> "OK", client |-> Taken(Rest(end), Request(end))]
          PROVE  \E rcv, request : d = Taken(rcv, request)
      BY <3>2
    <3>3. CASE i \in {[err |-> "OK", client |-> c], [err |-> "READ", client |-> c],
                      [err |-> "FATAL", client |-> [c EXCEPT !.current = "413"]],
                      [err |-> "POLL", client |-> c]}
      BY <3>3
    <3> QED BY <3>1, <3>2, <3>3
  <2>2. \A rcv, request :
          LET e == Taken(rcv, request)
          IN  /\ e.isp = c.isp /\ e.pipelining = c.pipelining /\ e.onservice = c.onservice
              /\ e.headers_file = c.headers_file /\ e.body_file = c.body_file
    BY DEF ClientType
  <2>3. LET e == [c EXCEPT !.current = "413"]
        IN  /\ e.isp = c.isp /\ e.pipelining = c.pipelining /\ e.onservice = c.onservice
            /\ e.headers_file = c.headers_file /\ e.body_file = c.body_file
    BY DEF ClientType
  <2> HIDE DEF Taken, d
  <2>4. /\ d.isp = c.isp /\ d.pipelining = c.pipelining /\ d.onservice = c.onservice
        /\ d.headers_file = c.headers_file /\ d.body_file = c.body_file
    BY <2>1, <2>2, <2>3
  <2> QED BY <1>1, <2>4 DEF d
<1>2. CASE c.isp = "body"
  <2> DEFINE n == BodyTaken(c)
             Next2(got, store, rcv, done) == [c EXCEPT !.got = got, !.store = store,
                                                       !.rcv = rcv, !.isp_done = done]
  <2>1. \/ d = c
        \/ d = Next2(c.got + n, c.store \/ n > 0, SubSeq(c.rcv, n + 1, Len(c.rcv)),
                     c.got + n = BodyLen(c.request))
    BY <1>2 DEF Isp, BodyIsp
  <2>2. n \in Nat /\ c.got \in Nat /\ (c.got = BodyLen(c.request) => n = 0)
    <3>1. Len(c.rcv) \in Nat /\ c.got \in Nat /\ BodyLen(c.request) \in Nat
      BY DEF ClientType, BodyLen
    <3>2. c.got <= BodyLen(c.request)
      BY <1>2 DEF Fits
    <3> QED BY <3>1, <3>2 DEF BodyTaken, Least
  <2>3. \A got, store, rcv, done :
          LET e == Next2(got, store, rcv, done)
          IN  /\ e.isp = c.isp /\ e.pipelining = c.pipelining /\ e.onservice = c.onservice
              /\ e.headers_file = c.headers_file /\ e.body_file = c.body_file
              /\ e.request = c.request /\ e.got = got /\ e.isp_done = done
    BY DEF ClientType
  <2> HIDE DEF Next2, n, d
  <2>4. /\ d.isp = c.isp /\ d.pipelining = c.pipelining /\ d.onservice = c.onservice
        /\ d.headers_file = c.headers_file /\ d.body_file = c.body_file /\ d.request = c.request
        /\ \/ d = c
           \/ d.got = c.got + n /\ d.isp_done = (c.got + n = BodyLen(c.request))
    BY <2>1, <2>3
  <2>5. d.isp_done => d.got = BodyLen(d.request)
    BY <1>2, <2>4
  <2>6. c.isp_done => d.isp_done
    <3>1. c.isp_done => c.got + n = BodyLen(c.request)
      BY <1>2, <2>2
    <3> QED BY <2>4, <3>1
  <2> QED BY <1>2, <2>4, <2>5, <2>6 DEF d
<1> QED BY <1>1, <1>2 DEF ClientType

\* Storing moves a file forward and, only when the part is complete, opens it for reading.
LEMMA StoreToFileEffect ==
    ASSUME NEW c \in ClientType, NEW r \in StoreToFile(c), c.headers_file # "closed",
           c.isp = "body" /\ c.body_file = "closed" => c.isp_done
    PROVE  LET d == r.client
           IN  /\ d.isp = c.isp /\ d.isp_done = c.isp_done /\ d.got = c.got
               /\ d.request = c.request /\ d.pipelining = c.pipelining
               /\ d.onservice = c.onservice
               /\ c.isp = "headers" => d.body_file = c.body_file /\ d.headers_file # "closed"
               /\ c.isp = "body" => d.headers_file = c.headers_file
               /\ c.isp = "body" /\ d.body_file = "closed" => d.isp_done
               /\ r.err = "OK" => /\ c.isp_done /\ ~d.store
                                  /\ c.isp = "headers" => d.headers_file = "read"
                                  /\ c.isp = "body" => d.body_file = "read"
<1> DEFINE With(s) == IF c.isp = "headers" THEN [c EXCEPT !.headers_file = s]
                                           ELSE [c EXCEPT !.body_file = s]
           Emptied(s) == [With(s) EXCEPT !.store = FALSE]
           file == IF c.isp = "headers" THEN c.headers_file ELSE c.body_file
<1>1. c.isp \in {"headers", "body"} /\ file \in FileStates /\ (file = "closed" => c.isp_done)
  BY DEF ClientType
<1>2. \/ \E e \in {"POLL", "FATAL"}, s \in {"none", "write"} : r = [err |-> e, client |-> With(s)]
      \/ c.isp_done /\ r = [err |-> "OK", client |-> Emptied("read")]
      \/ /\ c.isp_done /\ c.isp # "headers"
         /\ \E e \in {"POLL", "FATAL"} : r = [err |-> e, client |-> Emptied("closed")]
      \/ r = [err |-> "READ", client |-> Emptied("write")]
  <2> HIDE DEF With
  <2>1. CASE file = "none"
    BY <2>1 DEF StoreToFile, With
  <2>2. CASE file = "write"
    BY <2>2 DEF StoreToFile, With
  <2>3. CASE file = "closed"
    BY <1>1, <2>3 DEF StoreToFile, With
  <2>4. CASE file = "read"
    BY <2>4 DEF StoreToFile, With
  <2>5. CASE file = "unlinked"
    BY <2>5 DEF StoreToFile, With
  <2> QED BY <1>1, <2>1, <2>2, <2>3, <2>4, <2>5 DEF FileStates
<1>3. \A s : /\ With(s).isp = c.isp /\ With(s).isp_done = c.isp_done /\ With(s).got = c.got
             /\ With(s).request = c.request /\ With(s).pipelining = c.pipelining
             /\ With(s).onservice = c.onservice
             /\ With(s).headers_file = (IF c.isp = "headers" THEN s ELSE c.headers_file)
             /\ With(s).body_file = (IF c.isp = "headers" THEN c.body_file ELSE s)
  BY DEF ClientType
<1>4. \A s : /\ Emptied(s).isp = c.isp /\ Emptied(s).isp_done = c.isp_done
             /\ Emptied(s).got = c.got /\ Emptied(s).request = c.request
             /\ Emptied(s).pipelining = c.pipelining /\ Emptied(s).onservice = c.onservice
             /\ Emptied(s).store = FALSE
             /\ Emptied(s).headers_file = (IF c.isp = "headers" THEN s ELSE c.headers_file)
             /\ Emptied(s).body_file = (IF c.isp = "headers" THEN c.body_file ELSE s)
  BY DEF ClientType
<1> HIDE DEF With, Emptied
<1>5. CASE \E e \in {"POLL", "FATAL"}, s \in {"none", "write"} : r = [err |-> e, client |-> With(s)]
  <2>1. PICK e \in {"POLL", "FATAL"}, s \in {"none", "write"} : r = [err |-> e, client |-> With(s)]
    BY <1>5
  <2>2. r.client = With(s) /\ r.err # "OK"
    BY <2>1
  <2> QED BY <1>1, <1>3, <2>2
<1>6. CASE c.isp_done /\ r = [err |-> "OK", client |-> Emptied("read")]
  <2>1. r.client = Emptied("read")
    BY <1>6
  <2> QED BY <1>1, <1>4, <1>6, <2>1
<1>7. CASE /\ c.isp_done /\ c.isp # "headers"
           /\ \E e \in {"POLL", "FATAL"} : r = [err |-> e, client |-> Emptied("closed")]
  <2>1. r.client = Emptied("closed") /\ r.err # "OK"
    BY <1>7
  <2> DEFINE d == r.client
  <2>2. c.isp # "headers" /\ c.isp_done
    BY <1>7
  <2> HIDE DEF d
  <2>3. d = Emptied("closed")
    BY <2>1 DEF d
  <2>4. /\ d.isp = c.isp /\ d.isp_done = c.isp_done /\ d.got = c.got
        /\ d.request = c.request /\ d.pipelining = c.pipelining /\ d.onservice = c.onservice
        /\ d.headers_file = c.headers_file /\ d.body_file = "closed"
    BY <1>4, <2>2, <2>3
  <2>5. c.isp = "body" /\ d.isp_done
    BY <1>1, <2>2, <2>4
  <2> QED BY <2>1, <2>4, <2>5 DEF d
<1>8. CASE r = [err |-> "READ", client |-> Emptied("write")]
  <2>1. r.client = Emptied("write") /\ r.err # "OK"
    BY <1>8
  <2> DEFINE d == r.client
  <2>2. /\ d.isp = c.isp /\ d.isp_done = c.isp_done /\ d.got = c.got
        /\ d.request = c.request /\ d.pipelining = c.pipelining /\ d.onservice = c.onservice
        /\ d.headers_file = (IF c.isp = "headers" THEN "write" ELSE c.headers_file)
        /\ d.body_file = (IF c.isp = "headers" THEN c.body_file ELSE "write")
    BY <1>4, <2>1
  <2> HIDE DEF d
  <2>3. /\ c.isp = "headers" => d.body_file = c.body_file /\ d.headers_file # "closed"
        /\ c.isp = "body" => d.headers_file = c.headers_file /\ d.body_file # "closed"
    BY <2>2
  <2> QED BY <2>1, <2>2, <2>3 DEF d
<1> QED BY <1>2, <1>5, <1>6, <1>7, <1>8

LEMMA RequestStorePollEffect ==
    ASSUME TypeOK, BodyWithinLength, Control, RequestInv, RequestStorePoll
    PROVE  /\ client'.pipelining = client.pipelining /\ client'.onservice = client.onservice
           /\ client'.isp = client.isp /\ client'.headers_file # "closed"
           /\ client.isp = "headers" => client'.body_file = client.body_file
           /\ client.isp = "body" =>
                /\ client'.headers_file = client.headers_file
                /\ client'.isp_done => client'.got = BodyLen(client'.request)
                /\ client'.body_file = "closed" => client'.isp_done
           /\ \/ task' \in {PollBackoff(task), PollDisable(task)}
              \/ task' = Goto(task, "fatal_error_entry")
              \/ /\ client.isp = "headers" /\ task' = Goto(task, "headers_parse")
                 /\ client'.headers_file = "read" /\ ~client'.store
              \/ /\ client.isp = "body" /\ task' = Goto(task, "authenticate")
                 /\ client'.isp_done /\ client'.body_file = "read" /\ ~client'.store
<1>0. /\ client \in ClientType /\ Fits(client)
      /\ client.headers_file # "closed" /\ client.isp \in {"headers", "body"}
      /\ client.isp = "body" /\ client.isp_done => client.got = BodyLen(client.request)
      /\ client.isp = "body" /\ client.body_file = "closed" => client.isp_done
  BY DEF TypeOK, ClientType, BodyWithinLength, Fits, RequestInv, StoredInv
<1>1. PICK i \in Isp(client) :
         \/ /\ i.err = "FATAL"
            /\ client' = i.client
            /\ task' = Goto(task, "fatal_error_entry")
         \/ /\ i.err # "FATAL"
            /\ \E s \in StoreToFile(i.client) :
                 /\ client' = s.client
                 /\ task' = CASE s.err = "OK" ->
                                   Goto(task, IF client.isp = "headers" THEN "headers_parse"
                                                                        ELSE "authenticate")
                              [] s.err = "FATAL" -> Goto(task, "fatal_error_entry")
                              [] s.err = "POLL" \/ (s.err = "READ" /\ i.err = "POLL") ->
                                   PollBackoff(task)
                              [] OTHER -> PollDisable(task)
  BY DEF RequestStorePoll
<1> DEFINE d == i.client
<1>2. d \in ClientType
  BY <1>0, IspType
<1>3. /\ d.isp = client.isp /\ d.pipelining = client.pipelining /\ d.onservice = client.onservice
      /\ d.headers_file = client.headers_file /\ d.body_file = client.body_file
      /\ client.isp = "body" => /\ d.isp_done => d.got = BodyLen(d.request)
                                /\ client.isp_done => d.isp_done
  BY <1>0, IspEffect
<1> HIDE DEF d
<1>4. CASE client' = d /\ task' = Goto(task, "fatal_error_entry")
  BY <1>0, <1>3, <1>4
<1>5. ASSUME NEW s \in StoreToFile(d), client' = s.client,
             \/ task' \in {PollBackoff(task), PollDisable(task)}
             \/ task' = Goto(task, "fatal_error_entry")
             \/ /\ s.err = "OK"
                /\ task' = Goto(task, IF client.isp = "headers" THEN "headers_parse"
                                                                ELSE "authenticate")
      PROVE  /\ client'.pipelining = client.pipelining /\ client'.onservice = client.onservice
             /\ client'.isp = client.isp /\ client'.headers_file # "closed"
             /\ client.isp = "headers" => client'.body_file = client.body_file
             /\ client.isp = "body" =>
                  /\ client'.headers_file = client.headers_file
                  /\ client'.isp_done => client'.got = BodyLen(client'.request)
                  /\ client'.body_file = "closed" => client'.isp_done
             /\ \/ task' \in {PollBackoff(task), PollDisable(task)}
                \/ task' = Goto(task, "fatal_error_entry")
                \/ /\ client.isp = "headers" /\ task' = Goto(task, "headers_parse")
                   /\ client'.headers_file = "read" /\ ~client'.store
                \/ /\ client.isp = "body" /\ task' = Goto(task, "authenticate")
                   /\ client'.isp_done /\ client'.body_file = "read" /\ ~client'.store
  <2>1. /\ d.headers_file # "closed"
        /\ d.isp = "body" /\ d.body_file = "closed" => d.isp_done
    BY <1>0, <1>3
  <2>2. /\ client'.isp = d.isp /\ client'.isp_done = d.isp_done /\ client'.got = d.got
        /\ client'.request = d.request /\ client'.pipelining = d.pipelining
        /\ client'.onservice = d.onservice
        /\ d.isp = "headers" => client'.body_file = d.body_file /\ client'.headers_file # "closed"
        /\ d.isp = "body" => client'.headers_file = d.headers_file
        /\ d.isp = "body" /\ client'.body_file = "closed" => client'.isp_done
        /\ s.err = "OK" => /\ d.isp_done /\ ~client'.store
                           /\ d.isp = "headers" => client'.headers_file = "read"
                           /\ d.isp = "body" => client'.body_file = "read"
    BY <1>2, <1>5, <2>1, StoreToFileEffect
  <2> QED BY <1>0, <1>3, <1>5, <2>1, <2>2
<1> QED BY <1>1, <1>4, <1>5 DEF d

LEMMA RequestStorePollStep ==
    ASSUME TypeOK, BodyWithinLength, Control, RequestInv, RequestStorePoll
    PROVE  RequestInv'
<1>0. On("request_store", "POLL") /\ Return /\ UNCHANGED seen /\ task \in TaskType
  BY DEF RequestStorePoll, TypeOK
<1>1. task.state = "request_store" /\ task.new_state = "request_store" /\ halted = "no" /\ ev = "POLL"
  BY <1>0, InHandler DEF Events
<1>2. client'.owned = client.owned
  BY TypeRequestStorePoll
<1>3. PICK t \in {"request_store", "fatal_error_entry", "headers_parse", "authenticate"} :
        /\ task'.state = "request_store" /\ task'.new_state = t /\ task'.queue = task.queue
        /\ task'.network_tx = task.network_tx /\ task'.timer1 = task.timer1
        /\ t = "headers_parse" =>
             client.isp = "headers" /\ client'.headers_file = "read" /\ ~client'.store
        /\ t = "authenticate" => /\ client.isp = "body" /\ client'.isp_done
                                 /\ client'.body_file = "read" /\ ~client'.store
  <2>1. CASE task' \in {PollBackoff(task), PollDisable(task)}
    BY <1>0, <1>1, <2>1, TaskControl, TaskClocks
  <2>2. ASSUME NEW t \in {"fatal_error_entry", "headers_parse", "authenticate"}, task' = Goto(task, t)
        PROVE  /\ task'.state = "request_store" /\ task'.new_state = t /\ task'.queue = task.queue
               /\ task'.network_tx = task.network_tx /\ task'.timer1 = task.timer1
    BY <1>0, <1>1, <2>2, TaskControl, TaskClocks
  <2> QED BY <2>1, <2>2, RequestStorePollEffect
<1>4. Handled
  BY <1>0, <1>1, <1>3 DEF Handled, Return, Live, HttpStates, Transient, Working, Events
<1>5. /\ client'.pipelining = FALSE /\ client'.onservice = client.onservice
      /\ client'.isp = client.isp /\ client'.headers_file # "closed"
      /\ client.isp = "headers" => client'.body_file = client.body_file
      /\ client.isp = "body" =>
           /\ client'.headers_file = client.headers_file
           /\ client'.isp_done => client'.got = BodyLen(client'.request)
           /\ client'.body_file = "closed" => client'.isp_done
  BY <1>1, RequestStorePollEffect DEF RequestInv, StoredInv, TypeOK, ClientType
<1>6. /\ client.isp \in {"headers", "body"}
      /\ client.isp = "body" => client.headers_file = "read"
      /\ client.isp = "headers" => client.body_file = "none"
  BY <1>1 DEF RequestInv, StoredInv, TypeOK, ClientType
<1>7. ev' = IF t = "request_store" THEN "none" ELSE "settle"
  BY <1>1, <1>3, <1>0 DEF Return
<1>8. StoredInv'
  BY <1>3, <1>5, <1>6, <1>7 DEF StoredInv, Whole, Entering, HeadStored, Serving
<1>9. ControlledInv' /\ ServedInv'
  <2>1. "params" \notin client.owned /\ seen.controlled = 0 /\ seen.served = 0
        /\ client.onservice = seen.registered
    BY <1>1 DEF RequestInv, ControlledInv, ServedInv, Receiving
  <2>2. ControlledInv'
    BY <1>0, <1>2, <1>3, <2>1 DEF ControlledInv
  <2>3. ServedInv'
    BY <1>0, <1>3, <1>5, <2>1 DEF ServedInv
  <2> QED BY <2>2, <2>3
<1>10. ReleasedInv' /\ ClockInv' /\ TxInv'
  BY <1>1, <1>3, <1>4, HandledClocks
<1>11. ExpectInv' /\ LengthInv'
  BY <1>3 DEF ExpectInv, LengthInv
<1> QED BY <1>8, <1>9, <1>10, <1>11 DEF RequestInv

LEMMA RequestEnterWorking ==
    ASSUME TypeOK, Control, RequestInv, EnterWorking
    PROVE  RequestInv'
<1>0. client \in ClientType /\ task \in TaskType /\ task.state \in Working /\ ev = "ENTRY"
      /\ halted = "no" /\ task.new_state = task.state
  BY DEF TypeOK, EnterWorking, Control, CycleInv
<1>1. task.state = "build_http_response" => "cbuf" \notin client.owned
  BY <1>0 DEF Control, ResourceOwnership, Owned
<1>2. /\ Return /\ UNCHANGED seen
      /\ task' = PollEnable(Timer1Set(IF task.state = "response_send"
                                      THEN Priority(task, "high") ELSE task))
      /\ client' = CASE task.state = "authenticate"  -> [client EXCEPT !.pipelining = TRUE]
                     [] task.state = "response_send" -> [client EXCEPT !.sent = 0]
                     [] OTHER -> client
  BY <1>1 DEF EnterWorking
<1>3. /\ task'.state = task.state /\ task'.new_state = task.state /\ task'.queue = task.queue
      /\ task'.network_tx = task.network_tx /\ task'.timer1 = Timeout
  BY <1>0, <1>2 DEF PollEnable, Timer1Set, Priority, TaskType
<1>4. Handled /\ ev' = "none"
  BY <1>0, <1>2, <1>3 DEF Handled, Return, Live, HttpStates, Transient, Working, Events
<1>5. /\ client'.isp = client.isp /\ client'.isp_done = client.isp_done /\ client'.got = client.got
      /\ client'.request = client.request /\ client'.store = client.store
      /\ client'.headers_file = client.headers_file /\ client'.body_file = client.body_file
      /\ client'.owned = client.owned /\ client'.onservice = client.onservice
      /\ client'.current = client.current
      /\ client'.pipelining = (IF task.state = "authenticate" THEN TRUE ELSE client.pipelining)
      /\ client'.sent = (IF task.state = "response_send" THEN 0 ELSE client.sent)
      /\ client'.head = client.head /\ client'.total = client.total
      /\ client'.index = client.index /\ client'.source = client.source
  <2>1. CASE task.state = "authenticate"
    BY <1>0, <1>2, <2>1 DEF ClientType
  <2>2. CASE task.state = "response_send"
    BY <1>0, <1>2, <2>2 DEF ClientType
  <2>3. CASE task.state \notin {"authenticate", "response_send"}
    BY <1>0, <1>2, <2>3 DEF ClientType
  <2> QED BY <2>1, <2>2, <2>3
<1>6. task.state \in Receiving \cup Serving /\ task.state \notin {"NULL", "request_store"}
  BY <1>0 DEF Working, Receiving, Serving
<1>7. StoredInv'
  BY <1>0, <1>3, <1>4, <1>5, <1>6 DEF RequestInv, StoredInv, Whole, HeadStored, Serving
<1>8. ControlledInv'
  BY <1>0, <1>2, <1>3, <1>5 DEF RequestInv, ControlledInv, Receiving
<1>9. ServedInv'
  BY <1>0, <1>2, <1>3, <1>5 DEF RequestInv, ServedInv
<1>10. ReleasedInv' /\ ClockInv' /\ TxInv'
  BY <1>3, <1>4, <1>6, HandledClocks DEF Receiving, Serving
<1>11. ExpectInv'
  BY <1>0, <1>2, <1>3, <1>4 DEF RequestInv, ExpectInv
<1>12. LengthInv'
  BY <1>0, <1>3, <1>4, <1>5, <1>6 DEF RequestInv, LengthInv, Unsized, Entering, Working
<1> QED BY <1>7, <1>8, <1>9, <1>10, <1>11, <1>12 DEF RequestInv

LEMMA RequestHeadersParse ==
    ASSUME TypeOK, Control, RequestInv, HeadersParse
    PROVE  RequestInv'
<1>0. /\ client \in ClientType /\ task \in TaskType /\ On("headers_parse", "POLL")
      /\ Return /\ UNCHANGED seen
  BY DEF HeadersParse, TypeOK
<1>1. /\ task.state = "headers_parse" /\ task.new_state = "headers_parse" /\ halted = "no"
      /\ ev = "POLL" /\ task.queue = <<>>
  BY <1>0, InHandler DEF Events, Control, CycleInv, Writing
<1>2. PICK t \in {"headers_parse", "expect_reply", "body_receive", "fatal_error_entry"} :
        task' = IF t = "headers_parse" THEN PollBackoff(task) ELSE Goto(task, t)
  BY DEF HeadersParse, TryLater
<1>3. /\ task'.state = "headers_parse" /\ task'.new_state = t /\ task'.queue = <<>>
      /\ task'.network_tx = task.network_tx /\ task'.timer1 = task.timer1
  BY <1>0, <1>1, <1>2, TaskControl, TaskClocks
<1>4. Handled /\ (ev' = "none" \/ t # "headers_parse") /\ ev' # "SENT"
  BY <1>0, <1>1, <1>3 DEF Handled, Return, Live, HttpStates, Transient, Working, Events
<1>5. /\ SameRequest(client, client') /\ client'.onservice = client.onservice
      /\ client'.owned \in {client.owned, client.owned \cup {"url"}}
  <2>1. CASE client' = ParseDone(client)
    BY <1>0, <2>1 DEF ParseDone, ParseFailed, SameRequest, ClientType
  <2>2. CASE client' = ParseFailed(client)
    BY <1>0, <2>2 DEF ParseFailed, SameRequest, ClientType
  <2>3. ASSUME NEW code, NEW x,
               client' = [ParseFailed(client) EXCEPT !.fatal = code, !.expect = x]
        PROVE  SameRequest(client, client') /\ client'.onservice = client.onservice
               /\ client'.owned = client.owned
    BY <1>0, <2>3 DEF ParseFailed, SameRequest, ClientType
  <2>4. \/ client' = ParseDone(client)
        \/ client' = ParseFailed(client)
        \/ \E code, x : client' = [ParseFailed(client) EXCEPT !.fatal = code, !.expect = x]
    BY DEF HeadersParse
  <2> QED BY <2>1, <2>2, <2>3, <2>4
<1>6. StoredInv'
  BY <1>1, <1>3, <1>4, <1>5 DEF RequestInv, StoredInv, SameRequest, HeadStored, Serving
<1>7. ControlledInv'
  BY <1>0, <1>1, <1>3, <1>5 DEF RequestInv, ControlledInv, Receiving
<1>8. ServedInv'
  BY <1>0, <1>1, <1>3, <1>5 DEF RequestInv, ServedInv
<1>9. ReleasedInv' /\ ClockInv' /\ TxInv'
  BY <1>1, <1>3, <1>4, HandledClocks
<1>10. ExpectInv' /\ LengthInv'
  BY <1>3, <1>4 DEF ExpectInv, LengthInv
<1> QED BY <1>6, <1>7, <1>8, <1>9, <1>10 DEF RequestInv

\* A handler of a state before the response that leaves the request alone and asks for
\* a state that gives up on it.
LEMMA RequestRefused ==
    ASSUME TypeOK, Control, RequestInv, Handled, task.state \in Receiving \cup Serving,
           task'.new_state = "fatal_error_entry", SameRequest(client, client'),
           client'.onservice = seen'.registered, seen'.served = seen.served,
           seen'.controlled = seen.controlled
    PROVE  RequestInv'
<1>1. task.new_state = task.state /\ task.state \notin {"NULL", "absent", "headers_receive"}
  BY DEF Handled, Receiving, Serving
<1>2. StoredInv'
  <2>1. task.state \in {"authenticate", "params_get"} \cup Serving /\ client.pipelining => Whole(client)
    BY <1>1 DEF RequestInv, StoredInv
  <2>2. task.state \in HeadStored \cup {"request_store"} => ~client.pipelining
    BY <1>1 DEF RequestInv, StoredInv
  <2>3. client.pipelining => Whole(client)
    BY <2>1, <2>2 DEF Receiving, HeadStored
  <2> QED BY <1>1, <2>3 DEF RequestInv, StoredInv, SameRequest, Whole, HeadStored
<1>3. ControlledInv'
  BY DEF RequestInv, ControlledInv, Receiving
<1>4. ServedInv'
  BY <1>1 DEF RequestInv, ServedInv
<1>5. ReleasedInv' /\ ClockInv' /\ TxInv'
  BY HandledClocks DEF Receiving, Serving
<1>6. ExpectInv' /\ LengthInv'
  BY DEF ExpectInv, LengthInv
<1> QED BY <1>2, <1>3, <1>4, <1>5, <1>6 DEF RequestInv

LEMMA RequestExpectReply ==
    ASSUME TypeOK, Control, RequestInv, ExpectReplyPoll \/ ExpectReplySent
    PROVE  RequestInv'
<1>0. client \in ClientType /\ task \in TaskType /\ seen \in SeenType
  BY DEF TypeOK
<1>1. CASE ExpectReplyPoll
  <2>1. /\ task.state = "expect_reply" /\ task.new_state = "expect_reply" /\ halted = "no"
        /\ ev = "POLL" /\ Return /\ UNCHANGED client /\ On("expect_reply", "POLL")
    BY <1>1, InHandler DEF ExpectReplyPoll, Events
  <2>2. CASE TryLater /\ UNCHANGED seen
    BY <2>1, <2>2, RequestLater DEF Working
  <2>3. CASE task' = SocketWrite(task, "interim") /\ seen' = [seen EXCEPT !.interims = @ + 1]
    <3>1. /\ task'.state = "expect_reply" /\ task'.new_state = "expect_reply"
          /\ task'.timer1 = task.timer1 /\ task'.queue = Append(task.queue, "interim")
      BY <1>0, <2>1, <2>3 DEF SocketWrite, TaskType
    <3>2. task'.queue # <<>>
      BY <1>0, <3>1 DEF TaskType
    <3>3. Handled /\ ev' = "none"
      BY <2>1, <3>1, <3>2 DEF Handled, Return, Live, HttpStates, Transient, Working, Events
    <3>4. /\ seen'.interims >= 1 /\ seen'.served = seen.served
          /\ seen'.registered = seen.registered /\ seen'.controlled = seen.controlled
      BY <1>0, <2>3 DEF SeenType
    <3>5. StoredInv'
      BY <2>1, <3>1, <3>3 DEF RequestInv, StoredInv, Whole, Entering, HeadStored, Serving
    <3>6. ControlledInv' /\ ServedInv'
      BY <2>1, <3>1, <3>4 DEF RequestInv, ControlledInv, ServedInv
    <3>7. ReleasedInv' /\ ClockInv' /\ TxInv'
      BY <2>1, <3>1, <3>3, HandledClocks
    <3>8. ExpectInv' /\ LengthInv'
      BY <3>1, <3>4 DEF ExpectInv, LengthInv
    <3> QED BY <3>5, <3>6, <3>7, <3>8 DEF RequestInv
  <2> QED BY <1>1, <2>2, <2>3 DEF ExpectReplyPoll
<1>2. CASE ExpectReplySent
  <2>1. /\ Return /\ UNCHANGED <<client, seen>> /\ On("expect_reply", "SENT")
    BY <1>2 DEF ExpectReplySent
  <2>2. PICK t \in {"body_receive", "http_disconnect"} : task' = Goto(task, t)
    BY <1>2 DEF ExpectReplySent
  <2>3. Handled /\ task'.new_state = t /\ task.new_state = "expect_reply"
        /\ task.state = "expect_reply" /\ ev = "SENT"
    BY <2>1, <2>2, HandledGoto, InHandler DEF HttpStates, Transient, Working, Live, Events
  <2>4. CASE t = "http_disconnect"
    BY <2>1, <2>3, <2>4, RequestOver
  <2>5. CASE t = "body_receive"
    <3>1. StoredInv'
      BY <2>1, <2>3, <2>5 DEF RequestInv, StoredInv, Whole, HeadStored, Serving
    <3>2. ControlledInv' /\ ServedInv'
      BY <2>1, <2>3, <2>5 DEF RequestInv, ControlledInv, ServedInv, Receiving
    <3>3. ReleasedInv' /\ ClockInv' /\ TxInv'
      BY <2>3, <2>5, HandledClocks
    <3>4. ExpectInv' /\ LengthInv'
      BY <2>1, <2>3, <2>5 DEF RequestInv, ExpectInv, LengthInv
    <3> QED BY <3>1, <3>2, <3>3, <3>4 DEF RequestInv
  <2> QED BY <2>4, <2>5
<1> QED BY <1>1, <1>2

LEMMA RequestAuthenticate ==
    ASSUME TypeOK, Control, RequestInv, Authenticate
    PROVE  RequestInv'
<1>0. client \in ClientType /\ On("authenticate", "POLL") /\ Return /\ UNCHANGED seen
  BY DEF Authenticate, TypeOK
<1>1. /\ task.state = "authenticate" /\ task.new_state = "authenticate" /\ halted = "no"
      /\ ev = "POLL" /\ ~Entering
  BY <1>0, InHandler DEF Events, Entering
<1>2. CASE TryLater /\ UNCHANGED client
  BY <1>0, <1>2, RequestLater DEF Working
<1>3. CASE task' = Goto(task, "fatal_error_entry") /\ UNCHANGED client
  <2>1. Handled /\ task'.new_state = "fatal_error_entry"
    BY <1>0, <1>3, HandledGoto DEF HttpStates, Transient, Working, Live, Events
  <2>2. client.onservice = seen.registered /\ task.state \in Receiving
    BY <1>1 DEF RequestInv, ServedInv, Receiving
  <2> QED BY <1>0, <1>1, <1>3, <2>1, <2>2, RequestRefused DEF SameRequest
<1>4. ASSUME NEW t \in {"params_get", "response_entry"}, task' = Goto(task, t),
             t = "params_get" => UNCHANGED client,
             t = "response_entry" => client' = [client EXCEPT !.current = "401"]
      PROVE  RequestInv'
  <2>1. Handled /\ task'.new_state = t
    BY <1>0, <1>4, HandledGoto DEF HttpStates, Transient, Working, Live, Events
  <2>2. /\ SameRequest(client, client') /\ client'.onservice = client.onservice
        /\ client'.owned = client.owned /\ (t = "response_entry" => client'.current = "401")
    BY <1>0, <1>4 DEF SameRequest, ClientType
  <2>3. StoredInv'
    BY <1>1, <2>1, <2>2 DEF RequestInv, StoredInv, Whole, SameRequest, HeadStored, Serving
  <2>4. ControlledInv' /\ ServedInv'
    BY <1>0, <1>1, <2>1, <2>2 DEF RequestInv, ControlledInv, ServedInv, Receiving
  <2>5. ReleasedInv' /\ ClockInv' /\ TxInv'
    BY <1>1, <2>1, HandledClocks
  <2>6. ExpectInv' /\ LengthInv'
    BY <2>1 DEF ExpectInv, LengthInv
  <2> QED BY <2>3, <2>4, <2>5, <2>6 DEF RequestInv
<1> QED BY <1>2, <1>3, <1>4 DEF Authenticate

LEMMA RequestParamsGet ==
    ASSUME TypeOK, Control, RequestInv, ParamsGet
    PROVE  RequestInv'
<1>0. client \in ClientType /\ On("params_get", "POLL")
  BY DEF ParamsGet, TypeOK
<1>1. /\ task.state = "params_get" /\ task.new_state = "params_get" /\ halted = "no"
      /\ ev = "POLL"
  BY <1>0, InHandler DEF Events
<1>2. Whole(client) /\ client.pipelining /\ "params" \notin client.owned /\ seen.controlled = 0
      /\ seen.served = 0 /\ client.onservice = seen.registered
  BY <1>1 DEF RequestInv, StoredInv, ControlledInv, ServedInv, Receiving
<1>3. /\ Return /\ UNCHANGED seen
      /\ \/ client' = ParamsParsed(client) /\ task' = Goto(task, "response_entry")
         \/ TryLater /\ UNCHANGED client
         \/ task' = Goto(task, "fatal_error_entry") /\ UNCHANGED client
  BY <1>2 DEF ParamsGet, Whole
<1>4. CASE TryLater /\ UNCHANGED client
  BY <1>0, <1>3, <1>4, RequestLater DEF Working
<1>5. CASE task' = Goto(task, "fatal_error_entry") /\ UNCHANGED client
  <2>1. Handled /\ task'.new_state = "fatal_error_entry"
    BY <1>0, <1>3, <1>5, HandledGoto DEF HttpStates, Transient, Working, Live, Events
  <2>2. task.state \in Receiving
    BY <1>1 DEF Receiving
  <2> QED BY <1>2, <1>3, <1>5, <2>1, <2>2, RequestRefused DEF SameRequest
<1>6. CASE client' = ParamsParsed(client) /\ task' = Goto(task, "response_entry")
  <2>1. Handled /\ task'.new_state = "response_entry"
    BY <1>0, <1>3, <1>6, HandledGoto DEF HttpStates, Transient, Working, Live, Events
  <2>2. /\ SameRequest(client, client') /\ client'.onservice = client.onservice
        /\ client'.owned = client.owned \cup {"params"}
    BY <1>0, <1>6 DEF ParamsParsed, SameRequest, ClientType
  <2>3. StoredInv'
    BY <1>2, <2>1, <2>2 DEF StoredInv, Whole, SameRequest, HeadStored
  <2>4. ControlledInv' /\ ServedInv'
    BY <1>2, <1>3, <2>1, <2>2 DEF ControlledInv, ServedInv, Receiving, SameRequest
  <2>5. ReleasedInv' /\ ClockInv' /\ TxInv'
    BY <1>1, <2>1, HandledClocks
  <2>6. ExpectInv' /\ LengthInv'
    BY <2>1 DEF ExpectInv, LengthInv
  <2> QED BY <2>3, <2>4, <2>5, <2>6 DEF RequestInv
<1> QED BY <1>3, <1>4, <1>5, <1>6

-----------------------------------------------------------------------------
(* Preparing a response                                                    *)

\* A handler that goes on serving the request.
LEMMA RequestServes ==
    ASSUME TypeOK, Control, RequestInv, Handled, task.state \in Serving,
           task'.new_state \in Serving, SameRequest(client, client'),
           client'.onservice = seen'.registered, seen'.served = seen.served,
           ControlledInv', LengthInv'
    PROVE  RequestInv'
<1>1. task.new_state = task.state /\ task.state \notin {"NULL", "absent", "headers_receive"}
      /\ task'.new_state \notin {"NULL", "absent", "connection_accepted", "headers_receive",
                                 "expect_reply", "body_receive"}
  BY DEF Handled, Serving
<1>2. StoredInv'
  BY <1>1 DEF RequestInv, StoredInv, SameRequest, Whole, HeadStored, Serving
<1>3. ServedInv'
  BY <1>1 DEF RequestInv, ServedInv
<1>4. ReleasedInv' /\ ClockInv' /\ TxInv'
  BY <1>1, HandledClocks DEF Serving
<1>5. ExpectInv'
  BY <1>1 DEF ExpectInv
<1> QED BY <1>2, <1>3, <1>4, <1>5 DEF RequestInv

LEMMA RequestFatalError ==
    ASSUME TypeOK, Control, RequestInv, FatalErrorEntry
    PROVE  RequestInv'
<1>0. /\ client \in ClientType /\ On("fatal_error_entry", "ENTRY") /\ Return /\ UNCHANGED seen
      /\ task' = Goto(task, "response_entry")
  BY DEF FatalErrorEntry, TypeOK
<1>1. Handled /\ task'.new_state = "response_entry" /\ task.state = "fatal_error_entry"
      /\ task.new_state = "fatal_error_entry"
  BY <1>0, HandledGoto, InHandler DEF HttpStates, Transient, Live, Events
<1>2. /\ SameRequest(client, client') /\ client'.onservice = client.onservice
      /\ client'.current # "NA"
  BY <1>0 DEF FatalErrorEntry, FatalStatus, SameRequest, ClientType
<1>3. ControlledInv' /\ LengthInv'
  BY <1>0, <1>1, <1>2 DEF RequestInv, ControlledInv, LengthInv, Receiving
<1>4. client.onservice = seen.registered
  BY <1>1 DEF RequestInv, ServedInv
<1> QED BY <1>0, <1>1, <1>2, <1>3, <1>4, RequestServes DEF Serving

LEMMA RequestResponseEntry ==
    ASSUME TypeOK, Control, RequestInv, ResponseEntry
    PROVE  RequestInv'
<1>0. client \in ClientType /\ On("response_entry", "ENTRY")
  BY DEF ResponseEntry, TypeOK
<1>1. task.state = "response_entry" /\ task.new_state = "response_entry"
      /\ "resource" \notin client.owned
  BY <1>0, InHandler DEF Events, Owned, Held
<1>2. /\ Return /\ UNCHANGED seen
      /\ \/ task' = Goto(task, "http_disconnect") /\ UNCHANGED client
         \/ /\ task' = Goto(task, "mvc_pre_configuration")
            /\ client' = [client EXCEPT !.attempts = IF client.current = "500" THEN 2 ELSE @ + 1]
  BY <1>1 DEF ResponseEntry
<1>3. CASE task' = Goto(task, "http_disconnect") /\ UNCHANGED client
  <2>1. Handled /\ task'.new_state = "http_disconnect"
    BY <1>0, <1>2, <1>3, HandledGoto DEF HttpStates, Transient, Live, Working, Events
  <2> QED BY <1>1, <1>2, <1>3, <2>1, RequestOver
<1>4. CASE /\ task' = Goto(task, "mvc_pre_configuration")
           /\ client' = [client EXCEPT !.attempts = IF client.current = "500" THEN 2 ELSE @ + 1]
  <2>1. Handled /\ task'.new_state = "mvc_pre_configuration"
    BY <1>0, <1>2, <1>4, HandledGoto DEF HttpStates, Transient, Live, Working, Events
  <2>2. /\ SameRequest(client, client') /\ client'.onservice = client.onservice
        /\ client'.current = client.current /\ client'.pipelining = client.pipelining
        /\ client'.owned = client.owned
    BY <1>0, <1>4 DEF SameRequest, ClientType
  <2>3. ControlledInv' /\ LengthInv'
    BY <1>1, <1>2, <2>1, <2>2 DEF RequestInv, ControlledInv, LengthInv, Receiving
  <2>4. client.onservice = seen.registered
    BY <1>1 DEF RequestInv, ServedInv
  <2> QED BY <1>1, <1>2, <2>1, <2>2, <2>3, <2>4, RequestServes DEF Serving
<1> QED BY <1>2, <1>3, <1>4

\* A page keeps the request, the status asked for and the handler registered.
LEMMA PageEffect ==
    ASSUME NEW c \in ClientType, NEW d \in Configured(c) \cup Controlled(c)
    PROVE  SameRequest(c, d) /\ d.onservice = c.onservice /\ d.current = c.current
<1> DEFINE Paged(s, k, ch, f) == Page(c, s, k, ch, f)
<1>1. \A s, k, ch, f : /\ SameRequest(c, Paged(s, k, ch, f))
                       /\ Paged(s, k, ch, f).onservice = c.onservice
                       /\ Paged(s, k, ch, f).current = c.current
  BY DEF Page, SameRequest, ClientType
<1>2. \E s, k, ch, f : d = Paged(s, k, ch, f)
  BY DEF Configured, Controlled, Handshake
<1> HIDE DEF Paged
<1> QED BY <1>1, <1>2

LEMMA RequestMvcPreConfigure ==
    ASSUME TypeOK, Control, RequestInv, MvcPreConfigure
    PROVE  RequestInv'
<1> DEFINE Cleared(x) == [client EXCEPT !.owned = @ \ {"mvc"}, !.connection = "keepalive",
                                        !.onservice = x]
<1>0. client \in ClientType /\ seen \in SeenType /\ On("mvc_pre_configuration", "POLL") /\ Return
  BY DEF MvcPreConfigure, TypeOK
<1>1. /\ task.state = "mvc_pre_configuration" /\ task.new_state = "mvc_pre_configuration"
      /\ client.onservice = seen.registered /\ seen.served = 0 /\ seen.controlled <= 1
      /\ client.current = "NA" =>
           seen.controlled = 0 /\ client.pipelining /\ "params" \in client.owned
      /\ halted = "no" /\ ev = "POLL"
  <2>1. /\ task.state = "mvc_pre_configuration" /\ task.new_state = "mvc_pre_configuration"
        /\ halted = "no" /\ ev = "POLL"
    BY <1>0, InHandler DEF Events
  <2> QED BY <1>0, <2>1 DEF RequestInv, ServedInv, ControlledInv
<1>2. \A x \in BOOLEAN :
        /\ Cleared(x) \in ClientType /\ SameRequest(client, Cleared(x))
        /\ Cleared(x).onservice = x /\ Cleared(x).current = client.current
        /\ Cleared(x).owned = client.owned \ {"mvc"}
        /\ \A r \in BOOLEAN :
             [Cleared(x) EXCEPT !.onservice = @ \/ r] = Cleared(x \/ r)
  <2> SUFFICES ASSUME NEW x \in BOOLEAN
               PROVE  /\ Cleared(x) \in ClientType /\ SameRequest(client, Cleared(x))
                      /\ Cleared(x).onservice = x /\ Cleared(x).current = client.current
                      /\ Cleared(x).owned = client.owned \ {"mvc"}
                      /\ \A r \in BOOLEAN :
                           [Cleared(x) EXCEPT !.onservice = @ \/ r] = Cleared(x \/ r)
    BY Zenon
  <2>1. Cleared(x) \in ClientType
    <3>1. client.owned \ {"mvc"} \in SUBSET Pointers
      BY <1>0 DEF ClientType
    <3> DEFINE d == [client EXCEPT !.owned = @ \ {"mvc"}, !.connection = "keepalive"]
    <3>2. d \in ClientType
      BY <1>0, <3>1, ClientFields
    <3>3. [d EXCEPT !.onservice = x] \in ClientType
      <4> HIDE DEF d
      <4> QED BY <3>2, ClientFlags
    <3>4. Cleared(x) = [d EXCEPT !.onservice = x]
      BY <1>0 DEF ClientType
    <3> QED BY <3>3, <3>4, Zenon
  <2>2. /\ SameRequest(client, Cleared(x)) /\ Cleared(x).onservice = x
        /\ Cleared(x).current = client.current /\ Cleared(x).owned = client.owned \ {"mvc"}
    BY <1>0 DEF SameRequest, ClientType
  <2>3. \A y : [Cleared(x) EXCEPT !.onservice = y] = Cleared(y)
    BY <1>0 DEF ClientType
  <2>4. \A r \in BOOLEAN : [Cleared(x) EXCEPT !.onservice = @ \/ r] = Cleared(x \/ r)
    <3> TAKE r \in BOOLEAN
    <3> HIDE DEF Cleared
    <3> QED BY <2>2, <2>3, ZenonT(60)
  <2> QED BY ZenonT(60), <2>1, <2>2, <2>4
<1>3. Cleared(client.onservice) = [client EXCEPT !.owned = @ \ {"mvc"}, !.connection = "keepalive"]
  BY ZenonT(60), <1>0 DEF ClientType
<1> HIDE DEF Cleared
<1>4. \/ /\ client' \in Configured(Cleared(client.onservice)) /\ UNCHANGED seen
         /\ task' = Goto(task, "prepare_http_response")
      \/ \E r \in BOOLEAN :
           /\ AppPage(client) /\ task' = Goto(task, "prepare_http_response")
           /\ client' \in Controlled(Cleared(client.onservice \/ r))
           /\ seen' = [seen EXCEPT !.controlled = @ + 1, !.registered = @ \/ r]
      \/ \E r \in BOOLEAN :
           /\ client' = Cleared(client.onservice \/ r)
           /\ seen' = [seen EXCEPT !.registered = @ \/ r]
           /\ TryLater \/ task' = Goto(task, "fatal_error_entry")
  <2>1. client.onservice \in BOOLEAN
    BY <1>0 DEF ClientType
  <2>2. CASE /\ client' \in Configured(Cleared(client.onservice))
             /\ task' = Goto(task, "prepare_http_response") /\ UNCHANGED seen
    BY <2>2
  <2>3. CASE /\ AppPage(client) /\ task' = Goto(task, "prepare_http_response")
             /\ \E r \in BOOLEAN :
                  /\ client' \in Controlled([Cleared(client.onservice) EXCEPT !.onservice = @ \/ r])
                  /\ seen' = [seen EXCEPT !.controlled = @ + 1, !.registered = @ \/ r]
    BY ZenonT(60), <1>2, <2>1, <2>3
  <2>4. CASE /\ \E r \in {FALSE, AppPage(client)} :
                  /\ client' = [Cleared(client.onservice) EXCEPT !.onservice = @ \/ r]
                  /\ seen' = [seen EXCEPT !.registered = @ \/ r]
             /\ TryLater \/ task' = Goto(task, "fatal_error_entry")
    <3>1. AppPage(client) \in BOOLEAN
      BY DEF AppPage
    <3> QED BY ZenonT(60), <1>2, <2>1, <2>4, <3>1
  <2> QED BY ZenonT(60), <1>3, <2>2, <2>3, <2>4 DEF MvcPreConfigure
<1>5. CASE /\ client' \in Configured(Cleared(client.onservice)) /\ UNCHANGED seen
           /\ task' = Goto(task, "prepare_http_response")
  <2>1. Handled /\ task'.new_state = "prepare_http_response"
    BY <1>0, <1>5, HandledGoto DEF HttpStates, Transient, Live, Working, Events
  <2>2. client.onservice \in BOOLEAN
    BY <1>0 DEF ClientType
  <2>3. SameRequest(client, client') /\ client'.onservice = client.onservice
    BY <1>2, <1>5, <2>2, PageEffect DEF SameRequest
  <2>4. ControlledInv' /\ LengthInv'
    BY <1>1, <1>5, <2>1 DEF ControlledInv, LengthInv, Receiving
  <2> QED BY <1>1, <1>5, <2>1, <2>3, <2>4, RequestServes DEF Serving
<1>6. ASSUME NEW r \in BOOLEAN, AppPage(client), task' = Goto(task, "prepare_http_response"),
             client' \in Controlled(Cleared(client.onservice \/ r)),
             seen' = [seen EXCEPT !.controlled = @ + 1, !.registered = @ \/ r]
      PROVE  RequestInv'
  <2>1. Handled /\ task'.new_state = "prepare_http_response"
    BY <1>0, <1>6, HandledGoto DEF HttpStates, Transient, Live, Working, Events
  <2>2. PICK x \in BOOLEAN : x = (client.onservice \/ r)
    OBVIOUS
  <2>3. SameRequest(client, client') /\ client'.onservice = x
    <3>1. client' \in Controlled(Cleared(x))
      BY <1>6, <2>2
    <3>2. SameRequest(Cleared(x), client') /\ client'.onservice = Cleared(x).onservice
      BY <1>2, <3>1, PageEffect
    <3> QED BY <1>2, <3>2 DEF SameRequest
  <2>4. /\ seen'.controlled = 1 /\ seen'.served = seen.served
        /\ seen'.registered = x
    BY <1>0, <1>1, <1>6, <2>2 DEF SeenType, AppPage
  <2>5. ControlledInv' /\ LengthInv'
    BY <2>1, <2>4 DEF ControlledInv, LengthInv, Receiving
  <2> QED BY <1>1, <2>1, <2>3, <2>4, <2>5, RequestServes DEF Serving
<1>7. ASSUME NEW r \in BOOLEAN, client' = Cleared(client.onservice \/ r),
             seen' = [seen EXCEPT !.registered = @ \/ r],
             TryLater \/ task' = Goto(task, "fatal_error_entry")
      PROVE  RequestInv'
  <2>1. /\ Handled /\ task'.new_state \in {"mvc_pre_configuration", "fatal_error_entry"}
    BY <1>0, <1>7, HandledGoto, HandledLater DEF TryLater, HttpStates, Transient, Live, Working, Events
  <2>2. (client.onservice \/ r) \in BOOLEAN
    BY <1>0 DEF ClientType
  <2>3. /\ SameRequest(client, client') /\ client'.onservice = (client.onservice \/ r)
        /\ client'.current = client.current /\ client'.owned = client.owned \ {"mvc"}
    BY <1>2, <1>7, <2>2
  <2>4. /\ seen'.controlled = seen.controlled /\ seen'.served = seen.served
        /\ seen'.registered = (client.onservice \/ r)
    BY <1>0, <1>1, <1>7 DEF SeenType
  <2>5. ControlledInv'
    BY <1>1, <2>1, <2>3, <2>4 DEF ControlledInv, Receiving, SameRequest
  <2>6. LengthInv'
    BY <2>1 DEF LengthInv
  <2> QED BY <1>1, <2>1, <2>3, <2>4, <2>5, <2>6, RequestServes DEF Serving
<1> QED BY <1>4, <1>5, <1>6, <1>7

LEMMA RequestPrepareHttpResponse ==
    ASSUME TypeOK, Control, RequestInv, PrepareHttpResponse
    PROVE  RequestInv'
<1>0. client \in ClientType /\ On("prepare_http_response", "POLL")
  BY DEF PrepareHttpResponse, TypeOK
<1>1. /\ task.state = "prepare_http_response" /\ task.new_state = "prepare_http_response"
      /\ client.onservice = seen.registered /\ seen.controlled <= 1
  BY <1>0, InHandler DEF Events, RequestInv, ServedInv, ControlledInv
<1>2. CASE Hang("resource open failed")
  BY <1>2, RequestHang DEF Hang
<1>3. CASE TryLater /\ UNCHANGED <<client, seen>> /\ Return
  BY <1>0, <1>3, RequestLater DEF Working
<1>4. ASSUME NEW t \in {"mvc_post_configuration", "response_entry"}, task' = Goto(task, t),
             Return, UNCHANGED seen,
             \/ client' = [client EXCEPT !.owned = @ \cup {"resource"}] /\ t # "response_entry"
             \/ client' = [client EXCEPT !.current = MissingStatus(client)]
      PROVE  RequestInv'
  <2>1. Handled /\ task'.new_state = t
    BY <1>0, <1>4, HandledGoto DEF HttpStates, Transient, Live, Working, Events
  <2>2. /\ SameRequest(client, client') /\ client'.onservice = client.onservice
        /\ t = "response_entry" => client'.current # "NA"
    BY <1>0, <1>4 DEF MissingStatus, SameRequest, ClientType
  <2>3. ControlledInv' /\ LengthInv'
    BY <1>1, <1>4, <2>1, <2>2 DEF ControlledInv, LengthInv, Receiving
  <2> QED BY <1>1, <1>4, <2>1, <2>2, <2>3, RequestServes DEF Serving
<1> QED BY <1>2, <1>3, <1>4 DEF PrepareHttpResponse

LEMMA RequestMvcPostConfigure ==
    ASSUME TypeOK, Control, RequestInv, MvcPostConfigure
    PROVE  RequestInv'
<1>0. client \in ClientType /\ On("mvc_post_configuration", "POLL") /\ Return /\ UNCHANGED seen
  BY DEF MvcPostConfigure, TypeOK
<1>1. /\ task.state = "mvc_post_configuration" /\ task.new_state = "mvc_post_configuration"
      /\ client.onservice = seen.registered /\ seen.controlled <= 1
  BY <1>0, InHandler DEF Events, RequestInv, ServedInv, ControlledInv
<1>2. ASSUME NEW n, task' = Goto(task, "build_http_response"),
             client' = [client EXCEPT !.total = IF client.chunked THEN Unknown ELSE n, !.source = n]
      PROVE  RequestInv'
  <2>1. Handled /\ task'.new_state = "build_http_response"
    BY <1>0, <1>2, HandledGoto DEF HttpStates, Live, Working, Events
  <2>2. /\ SameRequest(client, client') /\ client'.onservice = client.onservice
        /\ client'.source = n /\ (client'.total = Unknown \/ client'.total = n)
    BY <1>0, <1>2 DEF SameRequest, ClientType
  <2>3. ControlledInv' /\ LengthInv'
    BY <1>0, <1>1, <2>1, <2>2 DEF ControlledInv, LengthInv, Receiving
  <2> QED BY <1>0, <1>1, <2>1, <2>2, <2>3, RequestServes DEF Serving
<1>3. ASSUME NEW code, task' = Goto(task, "fatal_error_entry"),
             client' = [ResourceClose(client) EXCEPT !.fatal = code]
      PROVE  RequestInv'
  <2>1. Handled /\ task'.new_state = "fatal_error_entry"
    BY <1>0, <1>3, HandledGoto DEF HttpStates, Transient, Live, Working, Events
  <2>2. SameRequest(client, client') /\ client'.onservice = client.onservice
    BY <1>0, <1>3 DEF ResourceClose, SameRequest, ClientType
  <2> QED BY <1>0, <1>1, <2>1, <2>2, RequestRefused DEF Serving
<1> QED BY <1>2, <1>3 DEF MvcPostConfigure

LEMMA RequestBuildHttpResponse ==
    ASSUME TypeOK, Control, RequestInv, BuildHttpResponse
    PROVE  RequestInv'
<1>0. client \in ClientType /\ On("build_http_response", "POLL") /\ Return /\ UNCHANGED seen
  BY DEF BuildHttpResponse, TypeOK
<1>1. /\ task.state = "build_http_response" /\ task.new_state = "build_http_response"
      /\ client.onservice = seen.registered /\ seen.controlled <= 1
      /\ client.total = Unknown \/ client.source = client.total
  BY <1>0, InHandler DEF Events, RequestInv, ServedInv, ControlledInv, LengthInv
<1>2. CASE TryLater /\ UNCHANGED client
  BY <1>0, <1>2, RequestLater DEF Working
<1>3. CASE /\ client' = [HeaderBuilt(client) EXCEPT !.total = IF client.head THEN 0 ELSE @]
           /\ task' = Goto(task, "response_send")
  <2>1. Handled /\ task'.new_state = "response_send" /\ ev' = "settle"
    BY <1>0, <1>3, HandledGoto DEF HttpStates, Live, Working, Events
  <2>2. /\ SameRequest(client, client') /\ client'.onservice = client.onservice
        /\ client'.source = client.source /\ client'.head = client.head
        /\ client'.total = (IF client.head THEN 0 ELSE client.total)
        /\ client'.index = Header /\ "cbuf" \in client'.owned
    BY <1>0, <1>3 DEF HeaderBuilt, SameRequest, ClientType
  <2>3. ControlledInv' /\ LengthInv'
    BY <1>0, <1>1, <2>1, <2>2 DEF ControlledInv, LengthInv, Unsized, Entering, Receiving
  <2> QED BY <1>0, <1>1, <2>1, <2>2, <2>3, RequestServes DEF Serving
<1>4. CASE /\ client' = [ResourceClose(client) EXCEPT !.owned = @ \ {"cbuf"}]
           /\ task' = Goto(task, "fatal_error_entry")
  <2>1. Handled /\ task'.new_state = "fatal_error_entry"
    BY <1>0, <1>4, HandledGoto DEF HttpStates, Transient, Live, Working, Events
  <2>2. SameRequest(client, client') /\ client'.onservice = client.onservice
    BY <1>0, <1>4 DEF ResourceClose, SameRequest, ClientType
  <2> QED BY <1>0, <1>1, <2>1, <2>2, RequestRefused DEF Serving
<1> QED BY <1>2, <1>3, <1>4 DEF BuildHttpResponse

-----------------------------------------------------------------------------
(* Sending the response                                                    *)

\* What is put into a buffer is taken from the resource; when the end of a chunked
\* resource is met the length is what was sent.
LEMMA FilledLength ==
    ASSUME NEW c \in ClientType, NEW room \in Rooms(c),
           \/ c.total = Unknown
           \/ c.sent + Start(c) + c.source = Header + c.total
    PROVE  LET d == Filled(c, room)
           IN  /\ SameRequest(c, d) /\ d.onservice = c.onservice /\ d.head = c.head
               /\ d.owned = c.owned \ {"cbuf"}
               /\ d.total = Unknown \/ d.sent + d.index + d.source = Header + d.total
<1> DEFINE d == Filled(c, room)
           g == Got(c, room)
           end == c.total = Unknown /\ g < Want(c, room)
<1>1. c.sent \in Int /\ c.index \in Int /\ c.source \in Int /\ c.total \in Int \cup {Unknown}
  BY DEF ClientType, Sizes, Unknown
<1>2. Start(c) \in Int /\ room \in Int
  BY <1>1, BoundsAssumption DEF Start, Rooms
<1>3. Want(c, room) \in Int
  BY <1>1, <1>2 DEF Want, Header, Least
<1>4. g \in Int /\ (g < Want(c, room) => g = c.source)
  BY <1>1, <1>3 DEF Got, Least
<1>5. /\ d.sent = c.sent /\ d.index = Start(c) + g /\ d.source = c.source - g
      /\ d.total = (IF end THEN c.sent + (Start(c) + g) - Header ELSE c.total)
      /\ SameRequest(c, d) /\ d.onservice = c.onservice /\ d.head = c.head
      /\ d.owned = c.owned \ {"cbuf"}
  <2>1. /\ HandOver(c).sent = c.sent /\ HandOver(c).source = c.source
        /\ HandOver(c).total = c.total /\ SameRequest(c, HandOver(c))
        /\ HandOver(c).onservice = c.onservice /\ HandOver(c).head = c.head
        /\ HandOver(c).owned = c.owned \ {"cbuf"} /\ HandOver(c) \in ClientType
    BY ClientOps DEF HandOver, SameRequest, ClientType
  <2>2. \A e \in ClientType : \A i, s, t :
          LET f == [e EXCEPT !.index = i, !.source = s, !.total = t]
          IN  /\ f.sent = e.sent /\ f.index = i /\ f.source = s /\ f.total = t
              /\ SameRequest(e, f) /\ f.onservice = e.onservice /\ f.head = e.head
              /\ f.owned = e.owned
    BY DEF SameRequest, ClientType
  <2>3. d = [HandOver(c) EXCEPT !.index = Start(c) + g, !.source = c.source - g,
                                !.total = IF end THEN c.sent + (Start(c) + g) - Header
                                                 ELSE c.total]
    BY <2>1 DEF Filled
  <2> HIDE DEF d, g, end
  <2> QED BY <2>1, <2>2, <2>3 DEF SameRequest
<1> HIDE DEF d, g
<1>6. CASE end
  <2>1. d.sent + d.index + d.source = Header + d.total
    BY <1>1, <1>2, <1>4, <1>5, <1>6 DEF Header
  <2> QED BY <1>5, <2>1 DEF d
<1>7. CASE ~end /\ c.total # Unknown
  <2>1. d.sent + d.index + d.source = Header + d.total
    <3>1. d.total = c.total /\ c.total \in Int
      BY <1>1, <1>5, <1>7
    <3> QED BY <1>1, <1>2, <1>4, <1>5, <1>7, <3>1 DEF Header
  <2> QED BY <1>5, <2>1 DEF d
<1>8. CASE ~end /\ c.total = Unknown
  BY <1>5, <1>8 DEF d
<1> QED BY <1>6, <1>7, <1>8

LEMMA RequestResponseSendPoll ==
    ASSUME TypeOK, Control, RequestInv, ResponseSendPoll
    PROVE  RequestInv'
<1> DEFINE armed == IF Fresh(client) THEN Timer1Set(task) ELSE task
<1>0. /\ client \in ClientType /\ task \in TaskType /\ seen \in SeenType
      /\ On("response_send", "POLL") /\ Return
  BY DEF ResponseSendPoll, TypeOK
<1>1. /\ task.state = "response_send" /\ task.new_state = "response_send" /\ halted = "no"
      /\ ev = "POLL" /\ client.onservice = seen.registered /\ seen.controlled <= 1
  BY <1>0, InHandler DEF Events, RequestInv, ServedInv, ControlledInv
<1>2. /\ armed \in TaskType /\ armed.state = "response_send" /\ armed.new_state = "response_send"
      /\ armed.queue = task.queue /\ armed.timer1 \in {task.timer1, Timeout}
      /\ armed.network_tx = task.network_tx
  BY <1>0, <1>1, TaskOps, TaskControl, TaskClocks
<1>3. Unsized(client) \/ client.sent + Start(client) + client.source = Header + client.total
  <2>1. client.sent \in Int /\ client.index \in Int /\ client.source \in Int
    BY <1>0 DEF ClientType
  <2>2. CASE "cbuf" \in client.owned
    <3>1. /\ client.index = Header /\ client.sent = 0
          /\ Unsized(client) \/ client.source = client.total
      BY <1>1, <2>2 DEF RequestInv, LengthInv, Entering
    <3> QED BY <2>1, <2>2, <3>1 DEF Start, Fresh, Header
  <2>3. CASE "cbuf" \notin client.owned
    <3>1. Unsized(client) \/ client.sent + client.source = Header + client.total
      BY <1>1, <2>3 DEF RequestInv, LengthInv
    <3> QED BY <2>1, <2>3, <3>1 DEF Start, Fresh
  <2> QED BY <2>2, <2>3
<1>4. CASE TryLater /\ UNCHANGED <<client, seen>>
  BY <1>0, <1>4, RequestLater DEF Working
<1>5. CASE /\ client' = [client EXCEPT !.owned = @ \cup {"cbuf"}, !.index = Start(client)]
           /\ task' = ReadFailed(armed) /\ UNCHANGED seen
  <2>1. /\ task'.state = "response_send" /\ task'.new_state = "http_disconnect"
        /\ task'.queue = task.queue /\ task'.timer1 = armed.timer1
        /\ task'.network_tx = task.network_tx
    <3>1. task' = Goto(armed, "http_disconnect")
      BY <1>5 DEF ReadFailed
    <3> HIDE DEF armed
    <3> QED BY <1>2, <3>1, TaskControl, TaskClocks
  <2>2. Handled
    BY <1>0, <1>1, <1>2, <2>1 DEF Handled, Live, HttpStates, Transient, Working, Events
  <2>3. SameRequest(client, client') /\ client'.onservice = client.onservice
    BY <1>0, <1>5 DEF SameRequest, ClientType
  <2> QED BY <1>1, <1>5, <2>1, <2>2, <2>3, RequestOver DEF SameRequest
<1>6. ASSUME NEW room \in Rooms(client), NEW o,
             client' = Filled(client, room),
             task' = PollDisable(SocketWrite(armed, o)),
             seen' = [seen EXCEPT !.heads = IF Fresh(client) THEN @ ELSE @ + 1]
      PROVE  RequestInv'
  <2>1. /\ task'.state = "response_send" /\ task'.new_state = "response_send"
        /\ task'.poll = Infinite /\ task'.timer1 = armed.timer1
        /\ task'.queue = Append(task.queue, o)
    <3> HIDE DEF armed
    <3> QED BY <1>2, <1>6 DEF PollDisable, SocketWrite, TaskType
  <2>2. task'.queue # <<>>
    BY <1>0, <2>1 DEF TaskType
  <2>3. Handled /\ ev' = "none"
    BY <1>0, <1>1, <1>2, <2>1, <2>2
    DEF Handled, Return, Live, HttpStates, Transient, Working, Events
  <2>4. /\ seen'.served = seen.served /\ seen'.registered = seen.registered
        /\ seen'.controlled = seen.controlled
    BY <1>0, <1>6 DEF SeenType
  <2>5. /\ SameRequest(client, client') /\ client'.onservice = client.onservice
        /\ "cbuf" \notin client'.owned
        /\ Unsized(client') \/ client'.sent + client'.index + client'.source = Header + client'.total
    <3>1. CASE client.head
      BY <1>0, <1>6, <3>1 DEF Filled, HandOver, SameRequest, ClientType, Unsized
    <3>2. CASE ~client.head
      BY <1>0, <1>3, <1>6, <3>2, FilledLength DEF Unsized
    <3> QED BY <3>1, <3>2
  <2>6. ControlledInv'
    BY <1>1, <2>1, <2>4 DEF ControlledInv, Receiving
  <2>7. LengthInv'
    BY <2>1, <2>2, <2>3, <2>5 DEF LengthInv, Entering
  <2> QED BY <1>1, <2>1, <2>3, <2>4, <2>5, <2>6, <2>7, RequestServes DEF Serving
<1> QED BY <1>4, <1>5, <1>6 DEF ResponseSendPoll

LEMMA RequestResponseSendSent ==
    ASSUME TypeOK, Control, RequestInv, ResponseSendSent
    PROVE  RequestInv'
<1>0. /\ client \in ClientType /\ task \in TaskType /\ UNCHANGED seen
      /\ On("response_send", "SENT") /\ Return
  BY DEF ResponseSendSent, TypeOK
<1>1. /\ task.state = "response_send" /\ task.new_state = "response_send" /\ halted = "no"
      /\ ev = "SENT" /\ client.onservice = seen.registered /\ seen.controlled <= 1
      /\ task.queue = <<>> /\ "cbuf" \notin client.owned
  BY <1>0, InHandler DEF Events, RequestInv, ServedInv, ControlledInv, Control, CycleInv
<1>2. /\ Unsized(client) \/ client.sent + client.index + client.source = Header + client.total
      /\ client.pipelining => Whole(client)
  BY <1>1 DEF RequestInv, LengthInv, StoredInv, Serving
<1>3. /\ SameRequest(client, client') /\ client'.onservice = client.onservice
      /\ client'.owned = client.owned /\ client'.sent = client.sent + client.index
      /\ client'.index = client.index /\ client'.source = client.source
      /\ client'.total = client.total /\ client'.head = client.head
  BY <1>0 DEF ResponseSendSent, SameRequest, ClientType
<1>4. CASE task' = PollEnable(task)
  <2>1. /\ task'.state = "response_send" /\ task'.new_state = "response_send"
        /\ task'.queue = <<>> /\ task'.timer1 = task.timer1
        /\ task'.network_tx = task.network_tx
    BY <1>0, <1>1, <1>4, TaskControl, TaskClocks
  <2>2. Handled /\ ev' = "none"
    BY <1>0, <1>1, <2>1 DEF Handled, Return, Live, HttpStates, Transient, Working, Events
  <2>3. ControlledInv' /\ LengthInv'
    <3>1. ControlledInv'
      BY <1>0, <1>1, <2>1 DEF ControlledInv, Receiving
    <3>2. LengthInv'
      BY <1>1, <1>2, <1>3, <2>1, <2>2 DEF LengthInv, Unsized, Entering
    <3> QED BY <3>1, <3>2
  <2> QED BY <1>0, <1>1, <1>3, <2>1, <2>2, <2>3, RequestServes DEF Serving
<1>5. CASE Complete(client, client.sent + client.index) /\ task' = Goto(task, AfterResponse(client))
  <2>1. PICK t \in {"websocket", "keepalive", "http_disconnect"} :
          t = AfterResponse(client) /\ (t = "keepalive" => client.pipelining)
    BY DEF AfterResponse
  <2>2. Handled /\ task'.new_state = t /\ task'.queue = task.queue
    BY <1>0, <1>5, <2>1, HandledGoto DEF HttpStates, Working, Live, Events
  <2>3. CASE t # "keepalive"
    BY <1>0, <1>1, <1>3, <2>1, <2>2, <2>3, RequestOver DEF SameRequest
  <2>4. CASE t = "keepalive"
    <3>1. Whole(client')
      BY <1>2, <1>3, <2>1, <2>4 DEF Whole, SameRequest
    <3>2. StoredInv'
      BY <2>2, <2>4, <3>1 DEF StoredInv, Whole, HeadStored, Serving
    <3>3. ControlledInv' /\ ServedInv'
      BY <1>0, <1>1, <1>3, <2>2, <2>4 DEF RequestInv, ControlledInv, ServedInv, Receiving
    <3>4. ReleasedInv' /\ ClockInv' /\ TxInv'
      BY <1>1, <2>2, <2>4, HandledClocks
    <3>5. ExpectInv'
      BY <2>2, <2>4 DEF ExpectInv
    <3>6. client'.sent = Header + client'.total /\ (client'.head \/ client'.source = 0)
      <4>1. client.total # Unknown /\ client.sent + client.index = Header + client.total
        BY <1>5 DEF Complete
      <4>2. client.sent \in Int /\ client.index \in Int /\ client.source \in Int
        BY <1>0 DEF ClientType
      <4> QED BY <1>2, <1>3, <4>1, <4>2 DEF Unsized
    <3>7. LengthInv'
      BY <2>2, <2>4, <3>6 DEF LengthInv
    <3> QED BY <3>2, <3>3, <3>4, <3>5, <3>7 DEF RequestInv
  <2> QED BY <2>1, <2>3, <2>4
<1> QED BY <1>4, <1>5 DEF ResponseSendSent

-----------------------------------------------------------------------------
(* Releasing what the request held                                         *)

LEMMA RequestKeepalive ==
    ASSUME TypeOK, Control, RequestInv, KeepaliveEntry \/ KeepalivePoll
    PROVE  RequestInv'
<1>0. client \in ClientType /\ task \in TaskType /\ seen \in SeenType
  BY DEF TypeOK
<1>1. PICK e \in {"ENTRY", "POLL"} : On("keepalive", e) /\ Return
  BY DEF KeepaliveEntry, KeepalivePoll
<1>2. /\ task.state = "keepalive" /\ task.new_state = "keepalive" /\ halted = "no"
      /\ ev = e /\ ev \in Events
  BY <1>1, InHandler DEF Events
<1>3. /\ Whole(client) \/ client.headers_file = "unlinked"
      /\ seen.served = 0 /\ client.onservice = seen.registered
      /\ seen.controlled <= 1
      /\ client.sent = Header + client.total /\ (client.head \/ client.source = 0)
  BY <1>2 DEF RequestInv, StoredInv, ServedInv, ControlledInv, LengthInv
<1>4. CASE KeepaliveEntry
  <2>1. /\ task'.state = "keepalive" /\ task'.new_state = "keepalive"
        /\ task'.queue = task.queue /\ task'.network_tx = task.network_tx
        /\ task'.timer1 = Timeout
    BY <1>0, <1>2, <1>4 DEF KeepaliveEntry, PollEnable, Priority, Timer1Set, TaskType
  <2>2. Handled /\ UNCHANGED <<client, seen>>
    BY <1>1, <1>2, <1>4, <2>1 DEF KeepaliveEntry, Handled, Live, HttpStates, Transient
  <2>3. StoredInv'
    BY <1>2, <2>1, <2>2 DEF RequestInv, StoredInv, Whole, HeadStored, Serving
  <2>4. ControlledInv' /\ ServedInv'
    BY <1>2, <2>1, <2>2 DEF RequestInv, ControlledInv, ServedInv
  <2>5. ReleasedInv' /\ ClockInv' /\ TxInv'
    BY <2>1, <2>2, HandledClocks
  <2>6. ExpectInv' /\ LengthInv'
    BY <1>3, <2>1, <2>2 DEF ExpectInv, LengthInv
  <2> QED BY <2>3, <2>4, <2>5, <2>6 DEF RequestInv
<1>5. CASE KeepalivePoll
  <2>0. Whole(client)
    BY <1>3, <1>5 DEF KeepalivePoll
  <2>1. /\ task'.state = "keepalive" /\ task'.new_state = "headers_receive"
        /\ task'.queue = task.queue /\ task'.network_tx = task.network_tx
        /\ task'.timer1 = Timeout
    BY <1>0, <1>2, <1>5 DEF KeepalivePoll, Goto, Timer1Set, TaskType
  <2>2. Handled
    BY <1>1, <1>2, <2>1 DEF Handled, Live, HttpStates, Transient
  <2>3. /\ client'.isp = client.isp /\ client'.isp_done = client.isp_done
        /\ client'.got = client.got /\ client'.request = client.request
        /\ client'.store = client.store /\ client'.owned = {}
        /\ client'.headers_file = "none" /\ client'.body_file = "none"
    BY <1>0, <1>5 DEF KeepalivePoll, Cleaned, ClientType
  <2>4. /\ seen'.served = (IF seen.registered THEN 1 ELSE 0)
        /\ seen'.registered = seen.registered /\ seen'.controlled = seen.controlled
    BY <1>0, <1>3, <1>5 DEF KeepalivePoll, CallOnservice, SeenType
  <2>5. StoredInv'
    BY <2>0, <2>1, <2>3 DEF StoredInv, Whole, HeadStored, Serving
  <2>6. ControlledInv' /\ ServedInv'
    BY <1>3, <2>1, <2>3, <2>4 DEF ControlledInv, ServedInv, Receiving
  <2>7. ReleasedInv' /\ ClockInv' /\ TxInv'
    BY <1>2, <2>1, <2>2, HandledClocks
  <2>8. ExpectInv' /\ LengthInv'
    BY <2>1 DEF ExpectInv, LengthInv
  <2> QED BY <2>5, <2>6, <2>7, <2>8 DEF RequestInv
<1> QED BY <1>4, <1>5

LEMMA RequestDisconnect ==
    ASSUME TypeOK, Control, RequestInv, DisconnectEntry \/ DisconnectPoll \/ DisconnectIgnores
    PROVE  RequestInv'
<1>0. client \in ClientType /\ task \in TaskType /\ seen \in SeenType
  BY DEF TypeOK
<1>1. PICK e \in {"ENTRY", "POLL", "TIMER1", "ABORT"} : On("http_disconnect", e) /\ Return
  BY DEF DisconnectEntry, DisconnectPoll, DisconnectIgnores, On
<1>2. /\ task.state = "http_disconnect" /\ task.new_state = "http_disconnect" /\ halted = "no"
      /\ ev = e /\ ev \in Events
  BY <1>1, InHandler DEF Events
<1>3. seen.served = 0 /\ client.onservice = seen.registered /\ seen.controlled <= 1
  BY <1>2 DEF RequestInv, ServedInv, ControlledInv
<1>4. CASE DisconnectEntry
  <2>1. /\ task'.state = "http_disconnect" /\ task'.new_state = "http_disconnect"
        /\ task'.queue = task.queue /\ task'.network_tx = task.network_tx
        /\ task'.timer1 = Timeout /\ task'.poll = 0
    BY <1>0, <1>2, <1>4 DEF DisconnectEntry, PollEnable, Priority, Timer1Set, TaskType
  <2>2. Handled /\ UNCHANGED <<client, seen>>
    BY <1>1, <1>2, <1>4, <2>1 DEF DisconnectEntry, On, Handled, Live, HttpStates, Transient, Working
  <2> QED BY <1>2, <2>1, <2>2, RequestOver
<1>5. CASE DisconnectIgnores
  <2>1. UNCHANGED <<task, client, seen>> /\ ev \in {"TIMER1", "ABORT"} /\ task.poll = 0
    BY <1>2, <1>5 DEF DisconnectIgnores, RequestInv, ClockInv, Entering
  <2>2. Handled
    BY <1>1, <1>2, <2>1 DEF Handled, Live, HttpStates, Transient, Working
  <2> QED BY <1>2, <2>1, <2>2, RequestOver
<1>6. CASE DisconnectPoll
  <2>1. /\ task'.state = "http_disconnect" /\ task'.new_state = "NULL"
        /\ task'.queue = task.queue /\ task'.network_tx = task.network_tx
        /\ task'.timer1 = Timeout
    BY <1>0, <1>2, <1>6 DEF DisconnectPoll, Goto, Timer1Set, TaskType
  <2>2. Handled
    BY <1>1, <1>2, <2>1 DEF Handled, Live, HttpStates, Transient, Working
  <2>3. /\ client'.isp = client.isp /\ client'.isp_done = client.isp_done
        /\ client'.got = client.got /\ client'.request = client.request
        /\ ~client'.store /\ client'.owned = {} /\ client'.rcv = <<>>
        /\ client'.headers_file = "none" /\ client'.body_file = "none"
        /\ ~client'.websocket.def
    BY <1>0, <1>6 DEF DisconnectPoll, Released, Cleaned, ClientType, Websockets
  <2>4. /\ seen'.served = (IF seen.registered THEN 1 ELSE 0)
        /\ seen'.registered = seen.registered /\ seen'.controlled = seen.controlled
    BY <1>0, <1>3, <1>6 DEF DisconnectPoll, CallOnservice, SeenType
  <2>5. StoredInv'
    BY <2>1, <2>3 DEF RequestInv, StoredInv, HeadStored, Serving
  <2>6. ControlledInv' /\ ServedInv'
    BY <1>3, <2>1, <2>4 DEF ControlledInv, ServedInv, Receiving
  <2>7. ReleasedInv' /\ ClockInv' /\ TxInv'
    BY <2>1, <2>2, <2>3, HandledClocks
  <2>8. ExpectInv' /\ LengthInv'
    BY <2>1 DEF ExpectInv, LengthInv
  <2> QED BY <2>5, <2>6, <2>7, <2>8 DEF RequestInv
<1> QED BY <1>4, <1>5, <1>6

\* A refused clean-up keeps the state, its timer and its poll.
LEMMA RequestCleanupRefused ==
    ASSUME TypeOK, Control, RequestInv, CleanupRefused
    PROVE  RequestInv'
<1>0. client \in ClientType /\ task \in TaskType /\ Timeout # Infinite
  BY InfiniteAssumption, TimeoutAssumption DEF TypeOK
<1>1. PICK s \in {"keepalive", "http_disconnect"} : On(s, "POLL")
  BY DEF CleanupRefused, Cleaning, On
<1>2. halted = "no" /\ ev = "POLL" /\ task.state = s /\ task.new_state = s
  BY <1>1, InHandler DEF Events
<1>3. /\ task'.state = s /\ task'.new_state = s /\ task'.queue = task.queue
      /\ task'.network_tx = task.network_tx /\ task'.poll = task.poll
      /\ task'.timer1 = Timeout
  BY <1>0, <1>2 DEF CleanupRefused, Timer1Set, TaskType
<1>4. /\ client' = [client EXCEPT !.owned = {}, !.headers_file = "unlinked"]
      /\ seen' = seen /\ ev' = "none" /\ pass' = pass
  BY <1>2, <1>3 DEF CleanupRefused, Refused, Return
<1>5. /\ client'.isp = client.isp /\ client'.isp_done = client.isp_done
      /\ client'.got = client.got /\ client'.request = client.request
      /\ client'.store = client.store /\ client'.body_file = client.body_file
      /\ client'.onservice = client.onservice /\ client'.pipelining = client.pipelining
      /\ client'.sent = client.sent /\ client'.total = client.total
      /\ client'.head = client.head /\ client'.source = client.source
      /\ client'.owned = {} /\ client'.headers_file = "unlinked"
  BY <1>0, <1>4 DEF ClientType
<1>6. StoredInv'
  BY <1>2, <1>3, <1>5 DEF RequestInv, StoredInv, HeadStored, Serving
<1>7. ControlledInv' /\ ServedInv'
  BY <1>2, <1>3, <1>4, <1>5 DEF RequestInv, ControlledInv, ServedInv, Receiving
<1>8. ReleasedInv'
  BY <1>3 DEF ReleasedInv, Live, HttpStates, Transient
<1>9. ExpectInv' /\ LengthInv'
  BY <1>2, <1>3, <1>5 DEF RequestInv, ExpectInv, LengthInv
<1>10. ClockInv'
  BY <1>0, <1>2, <1>3, <1>4 DEF RequestInv, ClockInv, Entering, Transient
<1>11. TxInv'
  BY <1>2, <1>3, <1>4, <1>5 DEF RequestInv, TxInv, Dying, Live, HttpStates, Transient
<1> QED BY <1>6, <1>7, <1>8, <1>9, <1>10, <1>11 DEF RequestInv

-----------------------------------------------------------------------------
(* Websocket                                                               *)

\* The task after frames were queued, or not, and its timer was set, or not.
Queues(t) == {k \in SameState(t) :
                /\ k.timer1 \in {t.timer1, Timeout}
                /\ \/ k.queue = t.queue /\ k.network_tx = t.network_tx
                   \/ k.queue # <<>>}

\* The client of a request that is over: it may have been released.
Talks(c, d) == /\ d.isp = c.isp /\ d.isp_done = c.isp_done /\ d.got = c.got
               /\ d.request = c.request /\ d.onservice = c.onservice
               /\ d.headers_file \in {c.headers_file, "none"}
               /\ d.body_file \in {c.body_file, "none"}

LEMMA QueuesOnce ==
    ASSUME NEW t \in TaskType
    PROVE  /\ t \in Queues(t) /\ Timer1Set(t) \in Queues(t) /\ SendFrame(t) \subseteq Queues(t)
           /\ PollEnable(t) \in Queues(t) /\ PollDisable(t) \in Queues(t)
           /\ PollBackoff(t) \in Queues(t)
<1>1. t \in SameState(t)
  BY DEF SameState
<1>2. \A k \in {Timer1Set(t), PollEnable(t), PollDisable(t), PollBackoff(t)} : k \in SameState(t)
  <2>1. \A k \in {Timer1Set(t), PollEnable(t), PollDisable(t), PollBackoff(t)} :
          k.state = t.state /\ k.new_state = t.new_state
    BY TaskControl
  <2>2. \A k \in {Timer1Set(t), PollEnable(t), PollDisable(t), PollBackoff(t)} : k \in TaskType
    BY TaskOps
  <2> QED BY <2>1, <2>2 DEF SameState
<1>3. /\ Timer1Set(t).timer1 = Timeout /\ Timer1Set(t).queue = t.queue
      /\ Timer1Set(t).network_tx = t.network_tx
  BY TaskControl, TaskClocks
<1>4. \A k \in {PollEnable(t), PollDisable(t), PollBackoff(t)} :
        k.timer1 = t.timer1 /\ k.queue = t.queue /\ k.network_tx = t.network_tx
  BY TaskControl, TaskClocks
<1>5. ASSUME NEW k \in SendFrame(t) PROVE k \in Queues(t)
  <2>1. k = SocketWrite(t, "frame") /\ k \in SameState(t)
    BY <1>5, AppCallState DEF SendFrame
  <2>2. k.timer1 = t.timer1 /\ k.queue = Append(t.queue, "frame")
    BY <2>1 DEF SocketWrite, TaskType
  <2>3. k.queue # <<>>
    BY <2>2 DEF TaskType
  <2> QED BY <2>1, <2>2, <2>3 DEF Queues
<1> QED BY <1>1, <1>2, <1>3, <1>4, <1>5 DEF Queues

LEMMA QueuesAgain ==
    ASSUME NEW t \in TaskType, NEW k \in Queues(t), NEW j \in Queues(k)
    PROVE  j \in Queues(t) /\ k \in TaskType
  BY DEF Queues, SameState

\* The input is taken out of the task.
LEMMA QueuesRead ==
    ASSUME NEW t \in TaskType
    PROVE  [t EXCEPT !.rx = <<>>] \in TaskType /\ [t EXCEPT !.rx = <<>>] \in Queues(t)
<1> DEFINE k == [t EXCEPT !.rx = <<>>]
<1>1. k \in TaskType
  BY ZenonT(60), Literals DEF TaskType
<1>2. /\ k.state = t.state /\ k.new_state = t.new_state /\ k.queue = t.queue
      /\ k.timer1 = t.timer1 /\ k.network_tx = t.network_tx
  BY DEF TaskType
<1> HIDE DEF k
<1>3. k \in Queues(t)
  BY <1>1, <1>2 DEF Queues, SameState
<1> QED BY <1>1, <1>3 DEF k

LEMMA AppCallQueues ==
    ASSUME NEW t \in TaskType
    PROVE  AppCall(t) \subseteq Queues(t)
<1>1. Timer1Set(t) \in TaskType /\ Timer1Set(t) \in Queues(t) /\ t \in Queues(t)
      /\ SendFrame(t) \subseteq Queues(t)
  BY QueuesOnce, TaskOps
<1>2. SendFrame(Timer1Set(t)) \subseteq Queues(t)
  BY <1>1, QueuesOnce, QueuesAgain
<1> QED BY <1>1, <1>2 DEF AppCall

LEMMA TalksSame == \A c, d, e : /\ Talks(c, c)
                                /\ Talks(c, d) /\ Talks(d, e) => Talks(c, e)
  BY DEF Talks

\* A websocket handler talks, or gives the connection up.
LEMMA RequestTalks ==
    ASSUME TypeOK, Control, RequestInv, NEW e \in Events, On("websocket", e), Return,
           UNCHANGED seen, Talks(client, client'), NEW k \in Queues(task),
           task' = Goto(k, "http_disconnect") \/ (e # "ABORT" /\ task' = k)
    PROVE  RequestInv'
<1>1. task.state = "websocket" /\ task.new_state = "websocket" /\ halted = "no" /\ ev = e
  BY InHandler
<1>2. k \in TaskType /\ k.state = "websocket" /\ k.new_state = "websocket"
      /\ k.timer1 \in {task.timer1, Timeout}
      /\ \/ k.queue = task.queue /\ k.network_tx = task.network_tx
         \/ k.queue # <<>>
  BY <1>1 DEF Queues, SameState
<1>3. /\ task'.state = "websocket" /\ task'.new_state \in {"websocket", "http_disconnect"}
      /\ task'.timer1 = k.timer1 /\ task'.queue = k.queue /\ task'.network_tx = k.network_tx
      /\ e = "ABORT" => task'.new_state = "http_disconnect"
  BY <1>2, TaskControl, TaskClocks
<1>4. Handled
  BY <1>1, <1>2, <1>3 DEF Handled, Live, HttpStates, Transient, Working
<1> QED BY <1>1, <1>3, <1>4, RequestOver DEF Talks

LEMMA RequestWebsocketEntry ==
    ASSUME TypeOK, Control, RequestInv, WebsocketEntry
    PROVE  RequestInv'
<1> DEFINE entered == [Priority(task, "high") EXCEPT !.timer2 = Timeout]
           flagged == [client EXCEPT !.websocket.ping = TRUE, !.websocket.pong = TRUE]
<1>0. client \in ClientType /\ task \in TaskType /\ On("websocket", "ENTRY")
  BY DEF TypeOK, WebsocketEntry
<1>1. CASE Hang("no url to look up") \/ Hang("no websocket service")
  BY <1>1, RequestHang DEF Hang
<1>2. CASE ~(Hang("no url to look up") \/ Hang("no websocket service"))
  <2>1. entered \in Queues(task) /\ entered \in TaskType
    <3> DEFINE k == Priority(task, "high")
    <3>1. k \in TaskType
      BY ONLY <1>0, TaskOps
    <3>2. /\ k.state = task.state /\ k.new_state = task.new_state /\ k.queue = task.queue
          /\ k.timer1 = task.timer1 /\ k.network_tx = task.network_tx
      BY <1>0, TaskControl, TaskClocks
    <3> HIDE DEF k
    <3>3. LET j == [k EXCEPT !.timer2 = Timeout]
          IN  /\ j \in TaskType /\ j.state = k.state /\ j.new_state = k.new_state
              /\ j.queue = k.queue /\ j.timer1 = k.timer1 /\ j.network_tx = k.network_tx
      BY <3>1, TimeoutAssumption DEF TaskType, Clocks
    <3> QED BY <3>2, <3>3 DEF k, Queues, SameState
  <2>2. /\ Talks(client, flagged)
        /\ Talks(client, [flagged EXCEPT !.websocket.def = TRUE])
        /\ \A rcv : Talks(client, [[Cleaned(flagged) EXCEPT !.websocket.def = TRUE]
                                      EXCEPT !.rcv = rcv])
    <3>1. Talks(client, flagged)
      BY <1>0 DEF Talks, ClientType
    <3>2. \A rcv : Talks(client, [[Cleaned(flagged) EXCEPT !.websocket.def = TRUE]
                                     EXCEPT !.rcv = rcv])
      BY <1>0 DEF Talks, Cleaned, ClientType
    <3>3. Talks(client, [flagged EXCEPT !.websocket.def = TRUE])
      BY <1>0 DEF Talks, ClientType
    <3> QED BY <3>1, <3>2, <3>3
  <2> HIDE DEF entered, flagged
  <2>3. \/ \E t \in AppCall(entered) :
             WebsocketReceive(t, [Cleaned(flagged) EXCEPT !.websocket.def = TRUE])
        \/ /\ task' \in {Goto(t, "http_disconnect") : t \in AppCall(entered)}
           /\ client' = flagged
        \/ /\ task' = Goto(entered, "http_disconnect")
           /\ client' = [flagged EXCEPT !.websocket.def = TRUE]
    BY <1>2 DEF WebsocketEntry, entered, flagged
  <2>4. Return /\ UNCHANGED seen
    BY <1>2 DEF WebsocketEntry
  <2>5. ASSUME NEW t \in AppCall(entered) PROVE t \in TaskType /\ t \in Queues(task)
    BY <1>0, <2>1, <2>5, AppCallQueues, QueuesAgain, AppCallType
  <2>6. CASE /\ task' \in {Goto(t, "http_disconnect") : t \in AppCall(entered)}
             /\ client' = flagged
    <3>1. PICK t \in AppCall(entered) : task' = Goto(t, "http_disconnect")
      BY <2>6
    <3> QED BY <1>0, <2>2, <2>4, <2>5, <2>6, <3>1, RequestTalks DEF Events
  <2>7. CASE \E t \in AppCall(entered) :
               WebsocketReceive(t, [Cleaned(flagged) EXCEPT !.websocket.def = TRUE])
    <3>1. PICK t \in AppCall(entered) :
            WebsocketReceive(t, [Cleaned(flagged) EXCEPT !.websocket.def = TRUE])
      BY <2>7
    <3>2. t \in TaskType /\ t \in Queues(task)
      BY <2>5, <3>1
    <3>3. task' \in Queues(t)
      <4>1. [t EXCEPT !.rx = <<>>] \in TaskType /\ [t EXCEPT !.rx = <<>>] \in Queues(t)
        BY <3>2, QueuesRead
      <4> QED BY <3>1, <3>2, <4>1, QueuesOnce, QueuesAgain DEF WebsocketReceive
    <3>4. task' \in Queues(task)
      BY <1>0, <3>2, <3>3, QueuesAgain
    <3>5. Talks(client, client')
      BY <2>2, <3>1 DEF WebsocketReceive
    <3> QED BY <1>0, <2>4, <3>4, <3>5, RequestTalks DEF Events
  <2>8. CASE /\ task' = Goto(entered, "http_disconnect")
             /\ client' = [flagged EXCEPT !.websocket.def = TRUE]
    BY <1>0, <2>1, <2>2, <2>4, <2>8, RequestTalks DEF Events
  <2> QED BY <2>3, <2>6, <2>7, <2>8
<1> QED BY <1>1, <1>2

LEMMA RequestWebsocketRest ==
    ASSUME TypeOK, Control, RequestInv,
           WebsocketRead \/ WebsocketSent \/ WebsocketAbort \/ AppTimer \/ PingTimer
    PROVE  RequestInv'
<1>0. client \in ClientType /\ task \in TaskType
  BY DEF TypeOK
<1>1. Return /\ UNCHANGED seen
  BY DEF WebsocketRead, WebsocketSent, WebsocketAbort, AppTimer, PingTimer
<1>2. Talks(client, client')
  <2>1. CASE WebsocketRead
    BY <1>0, <2>1 DEF WebsocketRead, WebsocketReceive, Talks, ClientType
  <2>2. CASE WebsocketSent \/ WebsocketAbort
    BY <2>2 DEF WebsocketSent, WebsocketAbort, Talks
  <2>3. CASE AppTimer
    BY <1>0, <2>3 DEF AppTimer, Talks, ClientType
  <2>4. CASE PingTimer
    BY <1>0, <2>4 DEF PingTimer, Talks, ClientType
  <2> QED BY <2>1, <2>2, <2>3, <2>4
<1>3. task \in Queues(task) /\ PollEnable(task) \in Queues(task)
  BY <1>0, QueuesOnce
<1>4. CASE WebsocketRead
  <2>1. [task EXCEPT !.rx = <<>>] \in TaskType /\ [task EXCEPT !.rx = <<>>] \in Queues(task)
    BY <1>0, QueuesRead
  <2>2. task' \in Queues(task) /\ On("websocket", "READ")
    BY <1>0, <1>4, <2>1, QueuesOnce, QueuesAgain DEF WebsocketRead, WebsocketReceive
  <2> QED BY <1>1, <1>2, <2>2, RequestTalks DEF Events
<1>5. CASE WebsocketSent
  <2>1. On("websocket", "SENT") /\ task' = PollEnable(task)
    BY <1>5 DEF WebsocketSent
  <2> QED BY <1>1, <1>2, <1>3, <2>1, RequestTalks DEF Events
<1>6. CASE WebsocketAbort
  <2>1. On("websocket", "ABORT") /\ task' = Goto(task, "http_disconnect")
    BY <1>6 DEF WebsocketAbort
  <2> QED BY <1>1, <1>2, <1>3, <2>1, RequestTalks DEF Events
<1>7. CASE AppTimer
  <2>1. On("websocket", "TIMER1") /\ \E t \in {task} \cup AppCall(task) : task' = PollEnable(t)
    BY <1>7 DEF AppTimer
  <2>2. PICK t \in {task} \cup AppCall(task) : task' = PollEnable(t)
    BY <2>1
  <2>3. t \in Queues(task) /\ t \in TaskType
    BY <1>0, <1>3, <2>2, AppCallQueues, AppCallType
  <2>4. task' \in Queues(task)
    BY <1>0, <2>2, <2>3, QueuesOnce, QueuesAgain
  <2> QED BY <1>1, <1>2, <2>1, <2>4, RequestTalks DEF Events
<1>8. CASE PingTimer
  <2>1. On("websocket", "TIMER2")
        /\ \/ task' = Goto(task, "http_disconnect") \/ task' = PollEnable(task)
           \/ task' = PollEnable([task EXCEPT !.timer2 = Timeout])
    BY <1>8 DEF PingTimer
  <2>2. [task EXCEPT !.timer2 = Timeout] \in TaskType /\ [task EXCEPT !.timer2 = Timeout] \in Queues(task)
    BY <1>0, TimeoutAssumption DEF Queues, SameState, TaskType, Clocks
  <2>3. PollEnable([task EXCEPT !.timer2 = Timeout]) \in Queues(task)
    BY <1>0, <2>2, QueuesOnce, QueuesAgain
  <2> QED BY <1>1, <1>2, <1>3, <2>1, <2>3, RequestTalks DEF Events
<1> QED BY <1>4, <1>5, <1>6, <1>7, <1>8

LEMMA RequestWebsocketPoll ==
    ASSUME TypeOK, Control, RequestInv, WebsocketPoll
    PROVE  RequestInv'
<1>0. client \in ClientType /\ task \in TaskType
  BY DEF TypeOK
<1>1. On("websocket", "POLL") /\ Return /\ UNCHANGED seen
  BY DEF WebsocketPoll
<1>2. PICK rx \in ProcessRx(task, client) :
         \/ /\ rx.err = "FATAL"
            /\ client' = rx.client
            /\ task' = Goto(rx.task, "http_disconnect")
         \/ /\ rx.err # "FATAL"
            /\ \E tx \in ProcessTx(rx) :
                 /\ client' = tx.client
                 /\ task' \in CASE tx.err = "FATAL" -> {Goto(tx.task, "http_disconnect")}
                                [] tx.err = "POLL"  -> {PollBackoff(tx.task)}
                                [] tx.err = "OK"    -> {PollDisable(tx.task), PollBackoff(tx.task)}
  BY DEF WebsocketPoll
<1>3. rx \in Results
  BY <1>0, ProcessRxType
<1>4. rx.task \in TaskType /\ rx.client \in ClientType /\ rx.task \in Queues(task)
      /\ Talks(client, rx.client)
  <2>1. \A left, ds : \A d \in Heard(client, left, ds) : Talks(client, d)
    <3> TAKE left, ds
    <3> TAKE d \in Heard(client, left, ds)
    <3>1. PICK w : d = [client EXCEPT !.rcv = left, !.websocket = w]
      BY DEF Heard
    <3> QED BY <1>0, <3>1 DEF Talks, ClientType
  <2>2. rx.task = task \/ rx.task \in AppCall(task)
    BY DEF ProcessRx
  <2>3. rx.client = client \/ \E left, ds : rx.client \in Heard(client, left, ds)
    BY DEF ProcessRx
  <2> QED BY <1>0, <1>3, <2>1, <2>2, <2>3, QueuesOnce, AppCallQueues, TalksSame DEF Results
<1>5. CASE client' = rx.client /\ task' = Goto(rx.task, "http_disconnect")
  BY <1>1, <1>4, <1>5, RequestTalks DEF Events
<1>6. ASSUME NEW tx \in ProcessTx(rx), client' = tx.client,
             task' \in CASE tx.err = "FATAL" -> {Goto(tx.task, "http_disconnect")}
                         [] tx.err = "POLL"  -> {PollBackoff(tx.task)}
                         [] tx.err = "OK"    -> {PollDisable(tx.task), PollBackoff(tx.task)}
      PROVE  RequestInv'
  <2>1. tx.err \in {"OK", "POLL", "FATAL"} /\ tx.task \in TaskType
    BY <1>3, <1>6, ProcessTxType DEF Results
  <2>2. /\ tx.task = rx.task \/ tx.task \in SendFrame(rx.task)
        /\ tx.client = rx.client \/ tx.client = [rx.client EXCEPT !.websocket.ping = FALSE]
    BY <1>3, <1>6 DEF ProcessTx, Results
  <2>3. Talks(client, client')
    <3>1. Talks(rx.client, [rx.client EXCEPT !.websocket.ping = FALSE])
      BY <1>4 DEF Talks, ClientType
    <3> QED BY <1>4, <1>6, <2>2, <3>1, TalksSame
  <2>4. tx.task \in Queues(task)
    BY <1>0, <1>4, <2>2, QueuesOnce, QueuesAgain
  <2>5. \/ task' = Goto(tx.task, "http_disconnect")
        \/ task' = PollBackoff(tx.task) \/ task' = PollDisable(tx.task)
    BY <1>6, <2>1
  <2>6. PollBackoff(tx.task) \in Queues(task) /\ PollDisable(tx.task) \in Queues(task)
    BY <1>0, <2>1, <2>4, QueuesOnce, QueuesAgain
  <2> QED BY <1>1, <2>3, <2>4, <2>5, <2>6, RequestTalks DEF Events
<1> QED BY <1>2, <1>5, <1>6

-----------------------------------------------------------------------------
(* The induction                                                           *)

LEMMA RequestNext ==
    ASSUME TypeOK, BodyWithinLength, Control, RequestInv, Next
    PROVE  RequestInv'
<1>1. CASE RequestHandlers
  BY <1>1, RequestConnectionAccepted, RequestHeadersReceive, RequestBodyReceive, RequestTakeInput,
     RequestStorePollStep, RequestEnterWorking, RequestHeadersParse, RequestExpectReply,
     RequestAuthenticate, RequestParamsGet, RequestShared
  DEF RequestHandlers, FileAssert
<1>2. CASE ResponseHandlers
  BY <1>2, RequestFatalError, RequestResponseEntry, RequestMvcPreConfigure,
     RequestPrepareHttpResponse, RequestMvcPostConfigure, RequestBuildHttpResponse,
     RequestResponseSendPoll, RequestResponseSendSent, RequestKeepalive, RequestDisconnect,
     RequestCleanupRefused, RequestShared
  DEF ResponseHandlers, FileAssert
<1>3. CASE WebsocketHandlers
  BY <1>3, RequestWebsocketEntry, RequestWebsocketPoll, RequestWebsocketRest,
     RequestShared
  DEF WebsocketHandlers, FileAssert
<1>4. CASE IgnoreRead \/ GiveUp \/ UnexpectedEvent \/ Settle
  BY <1>4, RequestShared, RequestSettle
<1>5. CASE Scheduler
  BY <1>5, RequestPhases, RequestTx, RequestFinish, RequestAccept, RequestTime DEF Scheduler
<1>6. CASE Halted
  BY <1>6, RequestHang DEF Halted, vars
<1> QED BY <1>1, <1>2, <1>3, <1>4, <1>5, <1>6 DEF Next, Handlers

LEMMA RequestInit == Init => RequestInv
<1> SUFFICES ASSUME Init PROVE RequestInv
  OBVIOUS
<1>1. /\ task.state = "absent" /\ task.new_state = "absent" /\ client.isp = "headers"
      /\ client.headers_file = "none" /\ client.onservice = FALSE /\ ev = "none"
      /\ seen = NothingSeen
      /\ seen.served = 0 /\ seen.registered = FALSE /\ seen.controlled = 0
  BY DEF Init, NoTask, FreshTask, NoClient, Malloced, NothingSeen
<1>2. StoredInv /\ ControlledInv /\ ServedInv
  <2>1. StoredInv
    BY <1>1 DEF StoredInv, HeadStored, Serving
  <2>2. ControlledInv
    BY <1>1 DEF ControlledInv, Receiving
  <2>3. ServedInv
    BY <1>1 DEF ServedInv
  <2> QED BY <2>1, <2>2, <2>3
<1>3. ReleasedInv /\ ExpectInv /\ ClockInv /\ TxInv /\ LengthInv
  BY <1>1 DEF ReleasedInv, ExpectInv, ClockInv, TxInv, LengthInv, Live, HttpStates, Transient, Working
<1> QED BY <1>2, <1>3 DEF RequestInv

\* What one step of the connection adds to the history of a request; only a new
\* request, or the end of the connection, starts another one.
LEMMA SeenGrows ==
    ASSUME TypeOK, Next
    PROVE  \/ HeadersReceive \/ Finish
           \/ /\ seen'.served >= seen.served /\ (seen.registered => seen'.registered)
              /\ seen'.controlled > seen.controlled => MvcPreConfigure /\ AppPage(client)
<1>0. seen \in SeenType
  BY DEF TypeOK
<1>1. CASE UNCHANGED seen
  BY <1>0, <1>1 DEF SeenType
<1>2. CASE ExpectReplyPoll
  BY <1>0, <1>2 DEF ExpectReplyPoll, SeenType
<1>3. CASE MvcPreConfigure
  <2> DEFINE Counted(b)    == [seen EXCEPT !.controlled = @ + 1, !.registered = @ \/ b]
             Registered(b) == [seen EXCEPT !.registered = @ \/ b]
  <2>1. \/ UNCHANGED seen
        \/ AppPage(client) /\ \E b \in BOOLEAN : seen' = Counted(b)
        \/ \E b \in BOOLEAN : seen' = Registered(b)
    BY <1>3 DEF MvcPreConfigure, AppPage
  <2>2. \A b \in BOOLEAN : Counted(b).served = seen.served
                           /\ (seen.registered => Counted(b).registered)
    BY <1>0 DEF SeenType
  <2>3. \A b \in BOOLEAN : /\ Registered(b).served = seen.served
                           /\ Registered(b).controlled = seen.controlled
                           /\ (seen.registered => Registered(b).registered)
    BY <1>0 DEF SeenType
  <2>4. seen.served \in Nat /\ seen.controlled \in Nat
    BY <1>0 DEF SeenType
  <2> HIDE DEF Counted, Registered
  <2>5. CASE UNCHANGED seen
    BY <1>1, <2>5
  <2>6. CASE AppPage(client) /\ \E b \in BOOLEAN : seen' = Counted(b)
    BY <1>3, <2>2, <2>4, <2>6
  <2>7. CASE \E b \in BOOLEAN : seen' = Registered(b)
    BY <2>3, <2>4, <2>7
  <2> QED BY SMTT(60), <2>1, <2>5, <2>6, <2>7
<1>4. CASE ResponseSendPoll
  BY <1>0, <1>4 DEF ResponseSendPoll, SeenType
<1>5. CASE KeepalivePoll \/ DisconnectPoll
  BY <1>0, <1>5 DEF KeepalivePoll, DisconnectPoll, CallOnservice, SeenType
<1>6. CASE \/ ConnectionAccepted \/ BodyReceive \/ RequestStoreEntry \/ RequestStoreRead
           \/ RequestStorePoll \/ EnterWorking \/ HeadersParse \/ ExpectReplySent
           \/ Authenticate \/ ParamsGet \/ FileAssert
  <2>1. UNCHANGED seen
    BY <1>6, FileAssertHangs DEF ConnectionAccepted, BodyReceive, RequestStoreEntry, RequestStoreRead,
       RequestStorePoll, EnterWorking, HeadersParse, ExpectReplySent, Authenticate, ParamsGet, Hang
  <2> QED BY <1>1, <2>1
<1>7. CASE \/ FatalErrorEntry \/ ResponseEntry \/ PrepareHttpResponse \/ MvcPostConfigure
           \/ BuildHttpResponse \/ ResponseSendSent \/ KeepaliveEntry \/ DisconnectEntry
           \/ DisconnectIgnores \/ CleanupRefused
  <2>1. UNCHANGED seen
    BY <1>7 DEF FatalErrorEntry, ResponseEntry, PrepareHttpResponse, MvcPostConfigure,
       BuildHttpResponse, ResponseSendSent, KeepaliveEntry, DisconnectEntry, DisconnectIgnores,
       CleanupRefused, Hang
  <2> QED BY <1>1, <2>1
<1>8. CASE WebsocketHandlers \/ IgnoreRead \/ GiveUp \/ UnexpectedEvent \/ Settle \/ Halted
  <2>1. UNCHANGED seen
    BY <1>8 DEF WebsocketHandlers, WebsocketUncleaned, WebsocketEntry, WebsocketRead, WebsocketPoll, WebsocketSent,
       AppTimer, PingTimer, WebsocketAbort, IgnoreRead, GiveUp, UnexpectedEvent, Settle, Halted,
       vars, Hang
  <2> QED BY <1>1, <2>1
<1>9. CASE Scheduler
  <2>1. Finish \/ UNCHANGED seen
    BY <1>9 DEF Scheduler, PollPhase, Timer1Phase, Timer2Phase, TxSkip, TxAssert, Hang, TxWrite,
       TxBlocked, TxError, Starve, Accept, Receive, PeerCloses, NoSocketEvent, Clock, TimePasses
  <2> QED BY <1>1, <2>1
<1> QED BY <1>2, <1>3, <1>4, <1>5, <1>6, <1>7, <1>8, <1>9
        DEF Next, Handlers, RequestHandlers, ResponseHandlers, FileAssert

\* After a failed assertion nothing happens any more.
LEMMA Running ==
    ASSUME Next
    PROVE  halted = "no" \/ UNCHANGED vars
<1>1. CASE RequestHandlers
  BY <1>1 DEF RequestHandlers, ConnectionAccepted, HeadersReceive, BodyReceive, RequestStoreEntry,
     RequestStoreRead, RequestStorePoll, StoreResultUnknown, EnterWorking, HeadersParse,
     ExpectReplyPoll, ExpectReplySent, Authenticate, ParamsGet, On
<1>2. CASE ResponseHandlers
  BY <1>2 DEF ResponseHandlers, FatalErrorEntry, ResponseEntry, MvcPreConfigure,
     PrepareHttpResponse, MvcPostConfigure, BuildHttpResponse, ResponseSendPoll, ResponseSendSent,
     KeepaliveEntry, KeepalivePoll, DisconnectEntry, DisconnectPoll, DisconnectIgnores,
     CleanupRefused, CleanupRetried, Cleaning, On
<1>3. CASE WebsocketHandlers \/ IgnoreRead \/ GiveUp \/ UnexpectedEvent \/ Settle
  BY <1>3 DEF WebsocketHandlers, WebsocketEntry, WebsocketUncleaned, WebsocketRead, WebsocketPoll,
     WebsocketSent, AppTimer, PingTimer, WebsocketAbort, IgnoreRead, GiveUp, UnexpectedEvent,
     Settle, On
<1>4. CASE Scheduler
  BY <1>4 DEF Scheduler, PollPhase, Timer1Phase, Timer2Phase, TxSkip, TxAssert, TxWrite, TxBlocked,
     TxError, Finish, Starve, Accept, Receive, PeerCloses, NoSocketEvent, Clock, TimePasses, At
<1> QED BY <1>1, <1>2, <1>3, <1>4 DEF Next, Handlers, Halted

\* The assertions a request or a response could trip over, and what rules them out.
LEMMA AssertionsHold ==
    ASSUME TypeOK, Control, RequestInv, NothingLeftBehind, Next
    PROVE  NothingLeftBehind'
<1>0. \A a : Hang(a) /\ a \notin {"store list not empty", "response buffer not empty",
                                  "parameters not empty", "request file not open",
                                  "resource still open", "tx queue empty"}
               => NothingLeftBehind'
  BY DEF Hang, NothingLeftBehind
<1>1. CASE UNCHANGED halted
  BY <1>1, Running DEF vars, NothingLeftBehind
<1>2. CASE HeadersReceive \/ BodyReceive \/ RequestStoreEntry
  <2>1. PICK s \in {"headers_receive", "body_receive", "request_store"} : On(s, "ENTRY")
    BY <1>2 DEF HeadersReceive, BodyReceive, RequestStoreEntry
  <2>2. task.new_state \in {"headers_receive", "body_receive", "request_store"} /\ ev = "ENTRY"
    BY <2>1, InHandler DEF Events
  <2>3. ~client.store
    BY <2>2 DEF RequestInv, StoredInv, HeadStored, Entering
  <2> QED BY <1>1, <1>2, <2>3 DEF HeadersReceive, BodyReceive, RequestStoreEntry, Return
<1>3. CASE EnterWorking
  <2>0. halted = "no" /\ ev = "ENTRY"
    BY <1>3 DEF EnterWorking
  <2>1. ~(task.state = "build_http_response" /\ "cbuf" \in client.owned)
    BY <2>0 DEF Control, CycleInv, ResourceOwnership, Owned
  <2> QED BY <1>1, <1>3, <2>1 DEF EnterWorking, Return
<1>4. CASE ParamsGet
  <2>1. task.new_state = "params_get"
    BY <1>4, InHandler DEF ParamsGet, Events
  <2>2. "params" \notin client.owned /\ {client.headers_file, client.body_file} = {"read"}
    BY <2>1 DEF RequestInv, StoredInv, ControlledInv, Whole, Receiving
  <2> QED BY <1>1, <1>4, <2>2 DEF ParamsGet, Return
<1>5. CASE ResponseEntry
  <2>0. On("response_entry", "ENTRY")
    BY <1>5 DEF ResponseEntry
  <2>1. "resource" \notin client.owned
    BY <2>0, InHandler DEF Events, Owned, Held
  <2> QED BY <1>1, <1>5, <2>1 DEF ResponseEntry, Return
<1>6. CASE TxAssert
  <2>0. 0 # Infinite
    BY InfiniteAssumption
  <2>1. ev = "none" /\ pass = "tx" /\ task.state \in Live /\ task.network_tx = 0
    BY <1>6 DEF TxAssert, At, TxDue
  <2>2. task.new_state # "NULL"
    BY <2>1 DEF Control, CycleInv, Live, HttpStates, Transient, Working
  <2>3. task.queue = <<>> => task.new_state = "http_disconnect" /\ client.headers_file = "unlinked"
    BY <2>0, <2>1, <2>2 DEF RequestInv, TxInv, Dying
  <2>4. task.state = task.new_state
    BY <2>1 DEF Control, CycleInv
  <2>5. CASE task.queue # <<>>
    BY <1>0, <1>6, <2>5 DEF TxAssert
  <2>6. CASE task.queue = <<>>
    <3>1. halted' = "tx queue empty" /\ UNCHANGED <<task, client>>
      BY <1>6, <2>6 DEF TxAssert, Hang
    <3> QED BY <2>3, <2>4, <2>6, <3>1 DEF NothingLeftBehind
  <2> QED BY <2>5, <2>6
<1>7. CASE PrepareHttpResponse \/ WebsocketEntry \/ UnexpectedEvent
  <2>1. \/ UNCHANGED halted
        \/ \E a \in {"resource open failed", "no url to look up", "no websocket service",
                     "unexpected event"} : Hang(a)
    BY <1>7 DEF PrepareHttpResponse, WebsocketEntry, UnexpectedEvent, Return
  <2> QED BY <1>0, <1>1, <2>1
<1>8. CASE \/ ConnectionAccepted \/ RequestStoreRead \/ RequestStorePoll \/ HeadersParse
           \/ ExpectReplyPoll \/ ExpectReplySent \/ Authenticate
           \/ FileAssert
  <2>3. CASE FileAssert
    BY <1>0, <2>3, FileAssertHangs
  <2>1. CASE ConnectionAccepted \/ RequestStoreRead \/ RequestStorePoll \/ HeadersParse
    BY ZenonT(60), <1>1, <2>1 DEF ConnectionAccepted, RequestStoreRead, RequestStorePoll,
       HeadersParse, Return
  <2>2. CASE ExpectReplyPoll \/ ExpectReplySent \/ Authenticate
    BY ZenonT(60), <1>1, <2>2 DEF ExpectReplyPoll, ExpectReplySent, Authenticate, Return
  <2> QED BY <1>8, <2>1, <2>2, <2>3
<1>9. CASE \/ FatalErrorEntry \/ MvcPreConfigure \/ MvcPostConfigure \/ BuildHttpResponse
           \/ ResponseSendPoll \/ ResponseSendSent \/ KeepaliveEntry \/ KeepalivePoll
           \/ DisconnectEntry \/ DisconnectPoll \/ DisconnectIgnores \/ CleanupRefused
  BY ZenonT(60), <1>1, <1>9 DEF FatalErrorEntry, MvcPreConfigure, MvcPostConfigure, BuildHttpResponse,
     ResponseSendPoll, ResponseSendSent, KeepaliveEntry, KeepalivePoll, DisconnectEntry,
     DisconnectPoll, DisconnectIgnores, CleanupRefused, Return
<1>10. CASE \/ WebsocketRead \/ WebsocketPoll \/ WebsocketSent \/ AppTimer \/ PingTimer
            \/ WebsocketAbort \/ IgnoreRead \/ GiveUp \/ Settle \/ Halted
  BY <1>1, <1>10 DEF WebsocketRead, WebsocketPoll, WebsocketSent, AppTimer, PingTimer,
     WebsocketAbort, IgnoreRead, GiveUp, Settle, Halted, vars, Return
<1>11. CASE Scheduler
  <2>1. TxAssert \/ UNCHANGED halted
    BY <1>11 DEF Scheduler, PollPhase, Timer1Phase, Timer2Phase, TxSkip, TxWrite,
       TxBlocked, TxError, Finish, Starve, Accept, Receive, PeerCloses, NoSocketEvent, Clock,
       TimePasses
  <2> QED BY <1>1, <1>6, <2>1
<1> QED BY <1>2, <1>3, <1>4, <1>5, <1>7, <1>8, <1>9, <1>10, <1>11
        DEF Next, Handlers, RequestHandlers, ResponseHandlers, WebsocketHandlers, FileAssert

-----------------------------------------------------------------------------
(* The theorems                                                            *)

\* What is true of a request and of the clocks between any two steps.
THEOREM RequestInvCorrect == Spec => []RequestInv
<1>1. Init => RequestInv
  BY RequestInit
<1>2. TypeOK /\ BodyWithinLength /\ Control /\ RequestInv /\ [Next]_vars => RequestInv'
  <2> SUFFICES ASSUME TypeOK, BodyWithinLength, Control, RequestInv, [Next]_vars
               PROVE  RequestInv'
    OBVIOUS
  <2>1. CASE Next
    BY <2>1, RequestNext
  <2>2. CASE UNCHANGED vars
    BY <2>2, RequestHang DEF vars
  <2> QED BY <2>1, <2>2
<1>3. CycleInv /\ ResourceOwnership => Control
  BY DEF Control
<1> QED BY <1>1, <1>2, <1>3, TypeCorrect, CycleInvCorrect, OwnershipCorrect, PTL DEF Spec

\* Of the assertions on the path of a request, none fails on what a request or a
\* response left behind for the next one; output is due with nothing queued only after
\* a failed write and a refused clean-up.
THEOREM NothingLeftBehindCorrect == Spec => []NothingLeftBehind
<1>1. Init => NothingLeftBehind
  BY DEF Init, NothingLeftBehind
<1>2. TypeOK /\ Control /\ RequestInv /\ NothingLeftBehind /\ [Next]_vars => NothingLeftBehind'
  <2> SUFFICES ASSUME TypeOK, Control, RequestInv, NothingLeftBehind, [Next]_vars
               PROVE  NothingLeftBehind'
    OBVIOUS
  <2>1. CASE Next
    BY <2>1, AssertionsHold
  <2>2. CASE UNCHANGED vars
    BY <2>2 DEF vars, NothingLeftBehind
  <2> QED BY <2>1, <2>2
<1>3. CycleInv /\ ResourceOwnership => Control
  BY DEF Control
<1> QED BY <1>1, <1>2, <1>3, TypeCorrect, CycleInvCorrect, OwnershipCorrect, RequestInvCorrect,
           PTL DEF Spec

\* The connection is reused only when the body of the request was read to its end
\* and stored.
THEOREM WholeRequestCorrect == Spec => []ReuseAfterWholeRequest
<1>1. RequestInv => ReuseAfterWholeRequest
  BY DEF RequestInv, StoredInv, Whole, ReuseAfterWholeRequest
<1> QED BY <1>1, RequestInvCorrect, PTL

\* ... and when the response was sent to the length its framing announced.
THEOREM WholeResponseCorrect == Spec => []ReuseAfterWholeResponse
<1>1. RequestInv /\ CycleInv => ReuseAfterWholeResponse
  BY DEF RequestInv, LengthInv, CycleInv, Writing, ReuseAfterWholeResponse
<1> QED BY <1>1, RequestInvCorrect, CycleInvCorrect, PTL

\* The body of a request with an expectation is received only when the answer to the
\* expectation has left the queue.
THEOREM ExpectationCorrect == Spec => []ExpectationAnswered
<1>1. RequestInv /\ CycleInv => ExpectationAnswered
  BY DEF RequestInv, ExpectInv, CycleInv, Writing, ExpectationAnswered
<1> QED BY <1>1, RequestInvCorrect, CycleInvCorrect, PTL

\* The application's controller completes at most once for a request, whatever attempts
\* and backoffs follow.
THEOREM ControllerOnceCorrect == Spec => []ControllerOnce
<1>1. RequestInv => ControllerOnce
  BY DEF RequestInv, ControlledInv, ControllerOnce
<1> QED BY <1>1, RequestInvCorrect, PTL

\* A controller runs only on a request that was read, stored and parsed whole.
THEOREM WholeRequestControlled == Spec => ControllerSeesWholeRequest
<1> DEFINE Controllable == seen'.controlled > seen.controlled =>
                             /\ client.isp = "body" /\ client.isp_done
                             /\ client.headers_file = "read" /\ client.body_file = "read"
                             /\ "params" \in client.owned /\ client.pipelining
<1>1. TypeOK /\ Control /\ RequestInv /\ [Next]_vars => [Controllable]_vars
  <2> SUFFICES ASSUME TypeOK, Control, RequestInv, Next PROVE Controllable
    OBVIOUS
  <2>1. CASE HeadersReceive \/ Finish
    <3>0. seen' = seen \/ seen' = NothingSeen
      BY <2>1 DEF HeadersReceive, Finish, Hang
    <3>1. seen' = seen \/ seen'.controlled = 0
      BY <3>0 DEF NothingSeen
    <3>2. seen.controlled \in Nat
      BY DEF TypeOK, SeenType
    <3> QED BY <3>1, <3>2
  <2>2. CASE MvcPreConfigure /\ AppPage(client)
    <3>1. task.new_state = "mvc_pre_configuration" /\ client.current = "NA"
      BY ZenonT(60), <2>2, InHandler DEF MvcPreConfigure, AppPage, Events
    <3>2. client.pipelining /\ "params" \in client.owned
      BY <3>1 DEF RequestInv, ControlledInv
    <3>3. Whole(client)
      BY <3>1, <3>2 DEF RequestInv, StoredInv, Serving
    <3> QED BY <3>2, <3>3 DEF Whole
  <2> QED BY <2>1, <2>2, SeenGrows
<1>2. CycleInv /\ ResourceOwnership => Control
  BY DEF Control
<1> HIDE DEF Controllable
<1>3. Spec => [][Controllable]_vars
  BY <1>1, <1>2, TypeCorrect, CycleInvCorrect, OwnershipCorrect, RequestInvCorrect, PTL DEF Spec
<1> QED BY <1>3 DEF Controllable, ControllerSeesWholeRequest

\* The onservice handler a controller registered is called exactly once by the time the
\* request is forgotten, and no handler of an earlier request is.
THEOREM ServedOnceCorrect == Spec => ServedExactlyOnce
<1> DEFINE ServedOnce == seen' = NothingSeen => seen.served = IF seen.registered THEN 1 ELSE 0
<1>1. TypeOK /\ Control /\ RequestInv /\ [Next]_vars => [ServedOnce]_vars
  <2> SUFFICES ASSUME TypeOK, Control, RequestInv, Next, seen' = NothingSeen
               PROVE  seen.served = IF seen.registered THEN 1 ELSE 0
    OBVIOUS
  <2>0. seen \in SeenType /\ seen'.served = 0 /\ seen'.registered = FALSE
    BY DEF TypeOK, NothingSeen
  <2>1. CASE UNCHANGED seen
    BY <2>0, <2>1
  <2>2. CASE (HeadersReceive \/ Finish) /\ seen' # seen
    <3>1. task.new_state \in {"headers_receive", "NULL"}
      BY <2>2, InHandler DEF HeadersReceive, Finish, Hang, At, Events, Control, CycleInv
    <3> QED BY <3>1 DEF RequestInv, ServedInv
  <2>3. CASE seen'.served >= seen.served /\ (seen.registered => seen'.registered)
    BY <2>0, <2>3 DEF SeenType
  <2> QED BY <2>1, <2>2, <2>3, SeenGrows
<1>2. CycleInv /\ ResourceOwnership => Control
  BY DEF Control
<1> HIDE DEF ServedOnce
<1>3. Spec => [][ServedOnce]_vars
  BY <1>1, <1>2, TypeCorrect, CycleInvCorrect, OwnershipCorrect, RequestInvCorrect, PTL DEF Spec
<1> QED BY <1>3 DEF ServedOnce, ServedExactlyOnce

\* The task quits only after everything the connection held is released.
THEOREM NothingLeakedCorrect == Spec => []NothingLeaked
<1>1. RequestInv /\ CycleInv => NothingLeaked
  <2> SUFFICES ASSUME RequestInv, CycleInv, task.state = "NULL" PROVE NothingLeaked
    BY DEF NothingLeaked
  <2>1. ev = "none"
    BY DEF RequestInv, ReleasedInv, Live, HttpStates, Transient, Working
  <2>2. task.new_state = "NULL"
    BY <2>1 DEF CycleInv
  <2> QED BY <2>2 DEF RequestInv, ReleasedInv, NothingLeaked
<1> QED BY <1>1, RequestInvCorrect, CycleInvCorrect, PTL

\* Between events a connection in the HTTP states is never left without a clock.
THEOREM NeverUnattendedCorrect == Spec => []NeverUnattended
<1>1. RequestInv => NeverUnattended
  BY DEF RequestInv, ClockInv, Entering, NeverUnattended
<1> QED BY <1>1, RequestInvCorrect, PTL
==============================================================================
