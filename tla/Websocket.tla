------------------------------- MODULE Websocket -------------------------------
(***************************************************************************)
(* A connection in the websocket state (elysian.c:1122-1219): the frame    *)
(* processor (isp.c:703-868), the handling of frames, pings and closing    *)
(* (websockets.c) and the application's handlers.                          *)
(*                                                                         *)
(* Input arrives in pieces of any size.  A poll is a run of small steps,   *)
(* `pc' tells which comes next; between them nothing else happens.  Time   *)
(* is abstract: an armed timer may expire whenever no handler runs.        *)
(***************************************************************************)
EXTENDS Cbufs, FrameFormat

CONSTANTS
    Sessions,     \* what the peer sends: frames, their bytes, whether malformed bytes follow
    PieceSizes,   \* sizes of the pieces input arrives in
    MemoryCap,    \* ELYSIAN_MAX_MEMORY_USAGE_KB * 1024
    MaxBurst,     \* bound: how many pieces arrive between two polls
    MaxFailures,  \* bound: how often memory is denied
    MaxPending    \* bound: how many frames wait to be sent before a handler adds one

\* The frames of a session are what its stream contains when it is read as a whole.
ASSUME SessionsAssumption ==
    \A s \in Sessions : s.stream \in Seq(Byte) /\ s.frames = FramesOf(s.stream)
ASSUME BoundsAssumption ==
    /\ PieceSizes \subseteq Nat \ {0}
    /\ MemoryCap \in Nat /\ MaxBurst \in Nat /\ MaxFailures \in Nat /\ MaxPending \in Nat

VARIABLES
    session,      \* what the peer sends: one of Sessions
    arrived,      \* how many of its bytes have arrived
    burst,        \* how many pieces of them since the last poll
    rcv,          \* client->rcv_cbuf_list
    isp,          \* client->isp.websocket: state, opcode, payload_len, masking_key
    frames,       \* client->websocket.rx_frames
    flags,        \* client->websocket.flags
    def,          \* whether client->websocket.def is set
    unhealthy,    \* whether rx_path_healthy_ms runs
    timer1,       \* whether the application's timer is armed
    timer2,       \* whether the ping timer is armed
    poll,         \* whether the state is polled
    pc,           \* "idle", or the part of the poll handler to run next
    poll_request, \* elysian_websocket_process's variable of that name
    phase,        \* "connecting", "open", "disconnect" or "closed"
    pending,      \* how many frames are written and not yet taken by the socket
    close_sent,   \* whether a close frame was ever written
    calls,        \* the application handlers called
    failures      \* how often memory was denied

input == <<session, arrived, burst>>
timers == <<timer1, timer2>>
link == <<pending, close_sent>>
vars == <<input, rcv, isp, frames, flags, def, unhealthy, timers, poll, pc, poll_request,
          phase, link, calls, failures>>

Feed == INSTANCE WebsocketFeed WITH Sessions <- {s.frames : s \in Sessions},
                                    frames <- session.frames

Is(flag) == flag \in flags
Pending == pending > 0    \* elysian_schdlr_state_socket_write_pending

NoFailure == UNCHANGED failures
Denied == failures < MaxFailures /\ failures' = failures + 1

\* The next state is the disconnect state, whose timers are its own.
Disconnect == phase' = "disconnect" /\ poll' = TRUE /\ timer1' = FALSE /\ timer2' = FALSE

\* A handler of the application may send a frame, if memory allows.
Sends(opcode) == pending' = pending + 1 /\ close_sent' = (close_sent \/ opcode = Feed!Close)
MaySend == UNCHANGED link \/ (pending < MaxPending /\ Sends(Feed!Text))

-----------------------------------------------------------------------------
(* elysian_isp_websocket                                                   *)

InIsp(state) == pc = "isp" /\ isp.state = state
IspUnchanged == UNCHANGED <<input, flags, def, poll_request, link, calls>>
GoesOn == UNCHANGED <<pc, phase, poll, timers, unhealthy>>
NothingTaken == UNCHANGED <<rcv, isp, frames>>

Fatal == Disconnect /\ pc' = "idle" /\ UNCHANGED unhealthy

\* READ, POLL and FATAL, and what elysian_websocket_process_rx makes of them: a
\* processor that has lacked memory for too long is given up.
Reads == pc' = "handle" /\ unhealthy' = FALSE /\ UNCHANGED <<phase, poll, timers>>
Polls == \/ pc' = "handle" /\ unhealthy' = TRUE /\ UNCHANGED <<phase, poll, timers>>
         \/ unhealthy /\ Fatal

Short(n) == Length(rcv) < n /\ Reads /\ NothingTaken /\ NoFailure
NoCut(n) == Length(rcv) >= n /\ NeedsCut(rcv, n) /\ Denied /\ Polls /\ NothingTaken
Cut(n) == Length(rcv) >= n /\ rcv' = RestBytes(rcv, n) /\ NoFailure
First(n) == Bytes(FirstBytes(rcv, n))

\* The first two bytes; a frame that is not masked or uses reserved bits is refused.
Header ==
    /\ InIsp(0)
    /\ \/ Short(2) \/ NoCut(2)
       \/ /\ Cut(2) /\ UNCHANGED frames
          /\ LET byte0 == First(2)[1]
                 byte1 == First(2)[2]
                 len7  == byte1 % 128
             IN \/ /\ byte1 < 128 \/ (byte0 \div 16) % 8 # 0
                   /\ Fatal /\ UNCHANGED isp
                \/ /\ byte1 >= 128 /\ (byte0 \div 16) % 8 = 0
                   /\ isp' = [isp EXCEPT !.opcode = byte0 % 16,
                                         !.payload_len = IF len7 < 126 THEN len7 ELSE @,
                                         !.state = IF len7 < 126 THEN 3
                                                   ELSE IF len7 = 126 THEN 1 ELSE 2]
                   /\ GoesOn
    /\ IspUnchanged

\* The payload length in 2 or in 8 bytes.
Length16 ==
    /\ InIsp(1)
    /\ \/ Short(2) \/ NoCut(2)
       \/ /\ Cut(2) /\ GoesOn /\ UNCHANGED frames
          /\ isp' = [isp EXCEPT !.payload_len = Number16(First(2)), !.state = 3]
    /\ IspUnchanged
Length64 ==
    /\ InIsp(2)
    /\ \/ Short(8) \/ NoCut(8)
       \/ /\ Cut(8) /\ UNCHANGED frames
          /\ IF \E i \in 1..4 : First(8)[i] # 0
             THEN Fatal /\ UNCHANGED isp
             ELSE /\ isp' = [isp EXCEPT !.payload_len = Number32(SubSeq(First(8), 5, 8)), !.state = 3]
                  /\ GoesOn
    /\ IspUnchanged

Mask ==
    /\ InIsp(3)
    /\ \/ Short(4) \/ NoCut(4)
       \/ /\ Cut(4) /\ GoesOn /\ UNCHANGED frames
          /\ isp' = [isp EXCEPT !.masking_key = First(4), !.state = 4]
    /\ IspUnchanged

\* The payload, at once: the frame is allocated when all of it is there.  A retry
\* finds the input as it was.
Received(payload) == Append(frames, [op |-> isp.opcode, payload |-> payload])
Payload ==
    /\ InIsp(4)
    /\ LET n == isp.payload_len IN
       \/ n >= MemoryCap /\ Fatal /\ NothingTaken /\ NoFailure
       \/ n < MemoryCap /\ Short(n)
       \/ n < MemoryCap /\ Length(rcv) >= n /\ Denied /\ Polls /\ NothingTaken
       \/ /\ n < MemoryCap /\ Cut(n) /\ GoesOn
          /\ frames' = Received(Unmask(First(n), isp.masking_key))
          /\ isp' = [isp EXCEPT !.state = 0]
    /\ IspUnchanged

Isp == Header \/ Length16 \/ Length64 \/ Mask \/ Payload

-----------------------------------------------------------------------------
(* The rest of elysian_websocket_process_rx: the queued frames             *)

InHandle == pc = "handle"
HandleUnchanged == UNCHANGED <<input, rcv, isp, def, unhealthy, timer2, phase, poll>>

\* What receiving a frame does to the flags (who asked for the end is noted in two
\* flags that nothing reads, left out here).
FlagsOf(frame) == IF frame.op = Feed!Close THEN {"DISCONNECTING"}
                  ELSE IF frame.op = Feed!Pong THEN {"PONG_RECEIVED"} ELSE {}
CloseByApp == {"DISCONNECTING"}
\* Mutant: the frames queued behind a close frame are handled.
EndsHandlingNot == FALSE
EndsHandling == "DISCONNECTING" \in flags'

\* Frames without a payload, pings and reserved opcodes are not for the application.
Handle ==
    /\ InHandle /\ frames # <<>>
    /\ frames' = Tail(frames)
    /\ IF Feed!IsHeard(Head(frames))
       THEN /\ calls' = Append(calls, Feed!Call("frame", Head(frames).payload))
            /\ MaySend
            /\ \E answer \in {{}, CloseByApp} : flags' = flags \cup FlagsOf(Head(frames)) \cup answer
            /\ timer1' \in {timer1, TRUE}
       ELSE flags' = flags \cup FlagsOf(Head(frames)) /\ UNCHANGED <<link, calls, timer1>>
    /\ pc' = IF EndsHandling THEN "tx" ELSE "handle"
    /\ UNCHANGED <<poll_request, failures>> /\ HandleUnchanged

\* Mutant: a frame that found no memory is not tried again.
AgainNot == poll_request
Again == poll_request \/ unhealthy
HandleEnds ==
    /\ InHandle /\ frames = <<>>
    /\ pc' = "tx"
    /\ poll_request' = Again
    /\ UNCHANGED <<frames, flags, timer1, link, calls, failures>> /\ HandleUnchanged

-----------------------------------------------------------------------------
(* elysian_websocket_process_tx, and the answer to the poll                *)

InTx == pc = "tx"
TxUnchanged == UNCHANGED <<input, rcv, isp, frames, def, unhealthy, calls>>
TxEnds == pc' = "idle" /\ poll_request' = FALSE
PollEnds(again) == TxEnds /\ poll' = again /\ UNCHANGED <<phase, timers>>

TxPing ==
    /\ InTx /\ Is("PING_PENDING") /\ ~Is("DISCONNECTING")
    /\ \/ /\ Sends(Feed!Ping) /\ flags' = flags \ {"PING_PENDING"} /\ NoFailure
          /\ PollEnds(poll_request)
       \/ Denied /\ PollEnds(TRUE) /\ UNCHANGED <<flags, link>>
    /\ TxUnchanged
TxNothing ==
    /\ InTx /\ ~Is("PING_PENDING") /\ ~Is("DISCONNECTING")
    /\ PollEnds(poll_request)
    /\ UNCHANGED <<flags, link>> /\ NoFailure /\ TxUnchanged

\* When everything is written the websocket ends.  A close frame is written if
\* CLOSE_PENDING is set; no code sets it.
TxClosing ==
    /\ InTx /\ Is("DISCONNECTING") /\ ~Is("CLOSE_PENDING")
    /\ IF Pending THEN PollEnds(poll_request) ELSE TxEnds /\ Disconnect
    /\ UNCHANGED <<flags, link>> /\ NoFailure /\ TxUnchanged

-----------------------------------------------------------------------------
(* elysian_state_websocket                                                 *)

Idle == pc = "idle" /\ phase = "open"
IdleUnchanged == UNCHANGED <<rcv, isp, frames, def, unhealthy, pc, poll_request, failures>>

\* ENTRY: the application accepts or blocks the websocket.  A service has a connected
\* handler here; module Connection has the other case too.
Connected ==
    /\ phase = "connecting"
    /\ flags' = {"PING_PENDING", "PONG_RECEIVED"}
    /\ MaySend
    /\ \/ /\ def' = TRUE /\ phase' = "open" /\ calls' = <<Feed!Call("connected", <<>>)>>
          /\ timer1' \in BOOLEAN /\ timer2' = TRUE /\ poll' = TRUE
       \/ def' = FALSE /\ Disconnect /\ calls' = <<Feed!Call("blocked", <<>>)>>
    /\ UNCHANGED <<input, rcv, isp, frames, unhealthy, pc, poll_request, failures>>

ReadInput ==
    /\ Idle /\ burst < MaxBurst /\ arrived < Len(session.stream)
    /\ \E n \in PieceSizes :
          /\ arrived' = Min({arrived + n, Len(session.stream)})
          /\ rcv' = Append(rcv, SubSeq(session.stream, arrived + 1, arrived'))
    /\ burst' = burst + 1 /\ poll' = TRUE
    /\ UNCHANGED <<session, isp, frames, flags, def, unhealthy, timers, pc, poll_request, phase,
                   link, calls, failures>>

\* poll_request is read without having been assigned when neither part of the
\* handler asks for a poll: it holds anything.
Poll ==
    /\ Idle /\ poll
    /\ pc' = IF Is("DISCONNECTING") THEN "tx" ELSE "isp"
    /\ poll_request' \in BOOLEAN
    /\ burst' = 0
    /\ UNCHANGED <<session, arrived, rcv, isp, frames, flags, def, unhealthy, timers, poll, phase,
                   link, calls, failures>>

\* SENT: the last queued frame has been taken by the socket.
\* Mutant: nothing is polled when output has been sent.
SentPollNot == UNCHANGED poll
SentPoll == poll' = (poll \/ pending' = 0)
Sent ==
    /\ Idle /\ Pending
    /\ pending' = pending - 1 /\ UNCHANGED close_sent
    /\ SentPoll
    /\ UNCHANGED <<input, flags, timers, phase, calls>> /\ IdleUnchanged

\* TIMER1: the application's timer, which it may arm again and in which it may
\* send or ask for the end.
\* Mutant: the timer handler is called while the websocket is closing.
AppTimerRunsAlways == TRUE
AppTimerRuns == ~Is("DISCONNECTING")
Timer1 ==
    /\ Idle /\ timer1
    /\ poll' = TRUE
    /\ IF AppTimerRuns
       THEN /\ MaySend /\ timer1' \in BOOLEAN
            /\ \E answer \in {{}, CloseByApp} : flags' = flags \cup answer
       ELSE timer1' = FALSE /\ UNCHANGED <<link, flags>>
    /\ UNCHANGED <<input, timer2, phase, calls>> /\ IdleUnchanged

\* TIMER2: a peer that has not answered since the last time is dropped; while the
\* websocket is closing the timer is not armed again.
Timer2 ==
    /\ Idle /\ timer2
    /\ \/ ~Is("PONG_RECEIVED") /\ Disconnect /\ UNCHANGED flags
       \/ /\ Is("PONG_RECEIVED") /\ Is("DISCONNECTING")
          /\ timer2' = FALSE /\ poll' = TRUE /\ UNCHANGED <<flags, timer1, phase>>
       \/ /\ Is("PONG_RECEIVED") /\ ~Is("DISCONNECTING") /\ pending < MaxPending
          /\ flags' = (flags \ {"PONG_RECEIVED"}) \cup {"PING_PENDING"}
          /\ poll' = TRUE /\ UNCHANGED <<timers, phase>>
    /\ UNCHANGED <<input, link, calls>> /\ IdleUnchanged

\* ABORT: the socket fails, or the scheduler needs the memory.
Abort ==
    /\ Idle /\ Disconnect
    /\ UNCHANGED <<input, flags, link, calls>> /\ IdleUnchanged

\* elysian_websocket_cleanup, called by the disconnect state.
CallsDisconnected == def
Cleanup ==
    /\ phase = "disconnect"
    /\ IF CallsDisconnected
       THEN calls' = Append(calls, Feed!Call("disconnected", <<>>))
       ELSE UNCHANGED calls
    /\ def' = FALSE /\ frames' = <<>> /\ rcv' = <<>>
    /\ phase' = "closed" /\ poll' = FALSE
    /\ UNCHANGED <<input, isp, flags, unhealthy, timers, pc, poll_request, link, failures>>

Step == Isp \/ Handle \/ HandleEnds \/ TxPing \/ TxNothing \/ TxClosing

\* Nothing happens any more.
Quiet == phase = "closed" /\ UNCHANGED vars

Init == /\ session \in Sessions /\ arrived = 0 /\ burst = 0
        /\ rcv = <<>>
        /\ isp = [state |-> 0, opcode |-> 0, payload_len |-> 0, masking_key |-> <<0, 0, 0, 0>>]
        /\ frames = <<>> /\ flags = {} /\ def = FALSE /\ unhealthy = FALSE
        /\ timer1 = FALSE /\ timer2 = FALSE
        /\ poll = FALSE /\ pc = "idle" /\ poll_request = FALSE
        /\ phase = "connecting"
        /\ pending = 0 /\ close_sent = FALSE /\ calls = <<>> /\ failures = 0

Next == \/ Connected \/ ReadInput \/ Poll \/ Step \/ Sent \/ Timer1 \/ Timer2 \/ Abort
        \/ Cleanup \/ Quiet

Spec == Init /\ [][Next]_vars

\* A handler runs to its end (WF_vars(Step), its ENABLED spelled out), and the
\* scheduler polls whoever wants it.  Every round of the scheduler looks at the
\* sockets, polled or not: the peer's frames arrive and what is written leaves.
HandlerRuns == <>[](pc # "idle") => []<><<Step>>_vars
FairSpec == /\ Spec /\ HandlerRuns
            /\ WF_vars(Connected) /\ WF_vars(Poll) /\ WF_vars(Cleanup)
            /\ SF_vars(ReadInput) /\ SF_vars(Sent)

-----------------------------------------------------------------------------
(* Properties                                                              *)

\* TypeOK: the variables stay in their domains; every queued frame is one the peer
\* sent, and the application is only registered while the websocket lives.
TypeOK ==
    /\ session \in Sessions /\ arrived \in 0..Len(session.stream) /\ burst \in 0..MaxBurst
    /\ \A i \in DOMAIN rcv : rcv[i] # <<>>
    /\ isp.state \in 0..4 /\ isp.opcode \in 0..15 /\ isp.payload_len \in Nat
    /\ \A i \in DOMAIN frames : frames[i] \in Range(session.frames)
    /\ flags \subseteq {"DISCONNECTING", "PING_PENDING", "PONG_RECEIVED"}
    /\ <<unhealthy, timer1, timer2, poll, poll_request>> \in [1..5 -> BOOLEAN]
    /\ pc \in {"idle", "isp", "handle", "tx"} /\ (pc # "idle" => phase = "open")
    /\ phase \in {"connecting", "open", "disconnect", "closed"}
    /\ (def => phase \in {"open", "disconnect"}) /\ (phase = "open" => def)
    /\ pending \in 0..(MaxPending + 1)

\* ImplementsFeed: the application hears of the peer's frames as promised: unmasked,
\* in their order, each once, through pieces, retries after a lack of memory and
\* frames handled in several polls; nothing follows a close frame, and the handlers
\* for the beginning and the end are called in pairs.
ImplementsFeed == Feed!Spec

\* NothingSentAfterClose: once the end was asked for, by the peer or by the
\* application, nothing more is put into the output: no ping, no frame of a timer.
NothingSentAfterClose == [][Is("DISCONNECTING") => pending' <= pending]_vars

\* AllHeard: a websocket that stays open delivers every frame the peer sent: no
\* frame is forgotten in the input or in the queue, whatever the pieces.
AllHeard ==
    <>(phase = "closed" \/ Len(calls) = 1 + Len(Feed!Heard(session.frames)))

\* ClosingEnds: a websocket whose end was asked for is closed, although its last
\* output leaves only some time later.
ClosingEnds == Is("DISCONNECTING") ~> phase = "closed"

\* CloseFrameSent: "Inject a close frame if the application requested a
\* disconnection or if the peer sent a close frame" (websockets.c:231): a websocket
\* that ends after such a request has written one.
CloseFrameSent ==
    [][ (InTx /\ Is("DISCONNECTING") /\ phase' = "disconnect") => close_sent]_vars
==============================================================================
