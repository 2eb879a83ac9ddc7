------------------------------ MODULE BodyStore ------------------------------
(***************************************************************************)
(* Receiving one request body: the input stream processors (isp.c) that    *)
(* take it out of the received cbufs, and the store loop that writes it to *)
(* a file (elysian.c:113-310).                                             *)
(*                                                                         *)
(* Input arrives in pieces of any size between polls.  A poll runs the     *)
(* processor and then the store; here it is a run of small steps, `pc'     *)
(* tells which comes next, and no input arrives in between.  Memory for a  *)
(* cut cbuf, a parameter, the file or a write is there or not; a file on   *)
(* the external disk may also take a part of a write, or fail.             *)
(***************************************************************************)
EXTENDS BodyFormat

CONSTANTS
    Requests,     \* the bodies: framing, medium, stream and what it should become
    PieceSizes,   \* sizes of the pieces input arrives in
    MaxBurst,     \* bound: how many pieces arrive between two polls
    MaxFailures   \* bound: how often memory is denied

\* The content of a body: what the first processor makes of its stream.  It is whole
\* when it was sent to its end and, if it is multipart, can be taken apart.
ContentOf(r) == IF r.framing = "chunked" THEN ChunkedContent(r.stream)
                ELSE Slice(r.stream, 0, IF r.body_len <= Len(r.stream) THEN r.body_len ELSE Len(r.stream))
SentWhole(r) == IF r.framing = "chunked" THEN ChunkedWhole(r.stream) ELSE r.body_len <= Len(r.stream)
RestOf(r) == IF r.framing = "chunked" THEN ChunkedRest(r.stream)
             ELSE Slice(r.stream, r.body_len, Len(r.stream))

\* A part whose line end is missing is left out: its size would wrap (isp.c:316).
ASSUME RequestsAssumption ==
    \A r \in Requests :
       /\ r.framing \in {"raw", "chunked"} /\ r.multipart \in BOOLEAN /\ r.medium \in {"ram", "ext"}
       /\ r.stream \in Seq(Byte) /\ r.body_len \in Nat
       /\ r.body = [content |-> ContentOf(r), disk |-> r.medium = "ext",
                    whole |-> SentWhole(r) /\ (r.multipart => IsMultipart(ContentOf(r)))]
       /\ r.body.whole => r.next \in Seq(Byte) /\ IsSuffix(r.next, RestOf(r))
       /\ r.body.whole /\ r.multipart => PartsEnd(ContentOf(r)) /\ r.parts = PartsOf(ContentOf(r))
ASSUME BoundsAssumption ==
    PieceSizes \subseteq Nat \ {0} /\ MaxBurst \in Nat /\ MaxFailures \in Nat

VARIABLES
    req,          \* the request: one of Requests
    arrived,      \* how much of its stream has arrived
    burst,        \* how many pieces of it since the last poll
    rcv,          \* client->rcv_cbuf_list
    isp,          \* client->isp.raw or .chunked: state, index, size
    mp_list,      \* client->isp.cbuf_list, between the two processors of a multipart body
    mp,           \* client->isp.multipart: state, index, params
    store,        \* client->store_cbuf_list
    offset,       \* client->store_cbuf_list_offset
    size,         \* client->store_cbuf_list_size; Unknown before the end of the body
    file,         \* the body file: open mode and content
    poll,         \* whether the state is polled
    pc,           \* "idle", or the part of the poll handler to run next
    eos,          \* the end_of_stream argument of the multipart processor
    poll_request, \* the poll handler's variable of that name
    failures,     \* how often memory was denied
    verdict       \* "receiving", "stored", "refused" or "failed"

input == <<req, arrived, burst>>
vars == <<req, arrived, burst, rcv, isp, mp_list, mp, store, offset, size, file, poll, pc, eos,
          poll_request, failures, verdict>>

Unknown == -1

-----------------------------------------------------------------------------
(* Results of the processors and of memory                                 *)

NoFailure == UNCHANGED failures
Denied == failures < MaxFailures /\ failures' = failures + 1

\* Memory for cutting a list at n is there, or is not needed; or it is denied.
Cut(list, n) == NoFailure
NoCut(list, n) == NeedsCut(list, n) /\ Denied

\* Mutant: the handler forgets that it wanted to be polled again.
PolledForgotten == pc' = "store" /\ UNCHANGED <<poll_request, eos, size, verdict>>
Polled == /\ pc' = "store" /\ poll_request' = TRUE
          /\ UNCHANGED <<eos, size, verdict>>
Fatal == /\ pc' = "idle" /\ verdict' = "refused"
         /\ UNCHANGED <<eos, size, poll_request>>
GoesOn == UNCHANGED <<pc, eos, size, poll_request, verdict>>

\* OK and READ of the first processor: a multipart body goes through the second.
\* The size to store is that of the whole list, whatever has been written of it.
Finished == size' = Length(store)
Exhausted ==
    /\ IF req.multipart THEN pc' = "multipart" /\ eos' = TRUE /\ UNCHANGED size
                        ELSE pc' = "store" /\ Finished /\ UNCHANGED eos
    /\ UNCHANGED <<poll_request, verdict>>
WantsMore ==
    /\ IF req.multipart THEN pc' = "multipart" /\ eos' = FALSE ELSE pc' = "store" /\ UNCHANGED eos
    /\ UNCHANGED <<size, poll_request, verdict>>

\* What the first processor puts out.
Out(cbufs) == IF req.multipart THEN mp_list' = mp_list \o cbufs /\ UNCHANGED store
                               ELSE store' = store \o cbufs /\ UNCHANGED mp_list
NoOut == UNCHANGED <<mp_list, store>>
\* Mutant: the cbuf in which the bytes end is dropped whole.
SkipsWhole(n) == rcv' = SubSeq(rcv, EndsIn(rcv, n) + 1, Len(rcv))
Skips(n) == rcv' = RestBytes(rcv, n)
NothingTaken == UNCHANGED <<rcv, isp>> /\ NoOut
IspUnchanged == UNCHANGED <<input, mp, offset, file, poll>>

-----------------------------------------------------------------------------
(* elysian_isp_http_body_raw                                               *)

InIsp(framing, state) == pc = "isp" /\ req.framing = framing /\ isp.state = state
IspState(s) == isp' = [isp EXCEPT !.state = s]

RawSize == LET left == req.body_len - isp.index
           IN IF left > Length(rcv) THEN Length(rcv) ELSE left

RawTake ==
    /\ InIsp("raw", 0)
    /\ Cut(rcv, RawSize)
    /\ Out(FirstBytes(rcv, RawSize)) /\ Skips(RawSize)
    /\ LET index == isp.index + RawSize IN
       IF index = req.body_len
       THEN isp' = [isp EXCEPT !.index = index, !.state = 1] /\ GoesOn
       ELSE isp' = [isp EXCEPT !.index = index] /\ WantsMore
    /\ IspUnchanged
RawDenied == InIsp("raw", 0) /\ NoCut(rcv, RawSize) /\ Polled /\ NothingTaken /\ IspUnchanged
RawDone == InIsp("raw", 1) /\ Exhausted /\ NothingTaken /\ NoFailure /\ IspUnchanged

Raw == RawTake \/ RawDenied \/ RawDone

-----------------------------------------------------------------------------
(* elysian_isp_http_body_chunked                                           *)

\* The size line: at least one digit and at most eight.
LineEnd == StrStr(rcv, CRLF)
LineIncomplete == Length(rcv) < 3 \/ (LineEnd = OOB /\ Length(rcv) <= 8 + 2)
LineBad == Length(rcv) >= 3 /\ (IF LineEnd = OOB THEN Length(rcv) > 8 + 2
                                                 ELSE LineEnd = 0 \/ LineEnd > 8)
LineGood == ~LineIncomplete /\ ~LineBad

\* After the last chunk: the empty line and the trailer are not consumed.
ChunkSize ==
    /\ InIsp("chunked", 0) /\ LineGood
    /\ LET size0 == Hex(SubSeq(Bytes(rcv), 1, LineEnd)) IN
       \/ /\ Cut(rcv, LineEnd + 2)
          /\ Skips(LineEnd + 2)
          /\ isp' = [state |-> IF size0 = 0 THEN 4 ELSE 1, index |-> 0, size |-> size0]
          /\ GoesOn /\ NoOut
       \/ NoCut(rcv, LineEnd + 2) /\ Polled /\ NothingTaken
    /\ IspUnchanged
ChunkSizeWaits ==
    /\ InIsp("chunked", 0) /\ LineIncomplete
    /\ WantsMore /\ NothingTaken /\ NoFailure /\ IspUnchanged
ChunkSizeBad ==
    /\ InIsp("chunked", 0) /\ LineBad
    /\ Fatal /\ NothingTaken /\ NoFailure /\ IspUnchanged

DataSize == IF Length(rcv) > isp.size - isp.index THEN isp.size - isp.index ELSE Length(rcv)
\* Mutant: an incomplete chunk is counted from its beginning again.
DataCountedAnew == DataSize
DataCounted == isp.index + DataSize

ChunkData ==
    /\ InIsp("chunked", 1) /\ rcv # <<>>
    /\ Cut(rcv, DataSize)
    /\ Out(FirstBytes(rcv, DataSize)) /\ Skips(DataSize)
    /\ IF DataCounted = isp.size
       THEN isp' = [isp EXCEPT !.index = DataCounted, !.state = 2] /\ GoesOn
       ELSE isp' = [isp EXCEPT !.index = DataCounted] /\ WantsMore
    /\ IspUnchanged
ChunkDataDenied ==
    /\ InIsp("chunked", 1) /\ rcv # <<>>
    /\ NoCut(rcv, DataSize) /\ Polled /\ NothingTaken /\ IspUnchanged
ChunkDataWaits ==
    /\ InIsp("chunked", 1) /\ rcv = <<>>
    /\ WantsMore /\ NothingTaken /\ NoFailure /\ IspUnchanged

\* The end of line after the data.
ChunkEnd ==
    /\ InIsp("chunked", 2)
    /\ \/ Length(rcv) < 2 /\ WantsMore /\ NothingTaken /\ NoFailure
       \/ Length(rcv) >= 2 /\ StrStr(rcv, CRLF) # 0 /\ Fatal /\ NothingTaken /\ NoFailure
       \/ /\ Length(rcv) >= 2 /\ StrStr(rcv, CRLF) = 0
          /\ \/ Cut(rcv, 2) /\ Skips(2) /\ IspState(0) /\ GoesOn /\ NoOut
             \/ NoCut(rcv, 2) /\ Polled /\ NothingTaken
    /\ IspUnchanged
ChunksDone == InIsp("chunked", 4) /\ Exhausted /\ NothingTaken /\ NoFailure /\ IspUnchanged

Chunked == \/ ChunkSize \/ ChunkSizeWaits \/ ChunkSizeBad
           \/ ChunkData \/ ChunkDataDenied \/ ChunkDataWaits
           \/ ChunkEnd \/ ChunksDone

-----------------------------------------------------------------------------
(* elysian_isp_http_body_multipart, reading mp_list                        *)

InMultipart(state) == /\ pc = "multipart" /\ mp.state = state
                      /\ ~(state = 0 /\ mp_list = <<>> /\ eos)
MpUnchanged == UNCHANGED <<input, rcv, isp, offset, file, poll>>
MpNothing == UNCHANGED <<mp_list, store>>

\* READ at the end of the stream is an error; an error frees the parameters.
MpFatal == Fatal /\ mp' = [mp EXCEPT !.state = 5, !.params = <<>>] /\ MpNothing
MpReads == IF eos THEN MpFatal
           ELSE /\ pc' = "store" /\ UNCHANGED <<eos, size, poll_request, verdict, mp>> /\ MpNothing
MpDenied == Polled /\ UNCHANGED mp /\ MpNothing

\* All the bytes go to the file; index counts them.
MpTakes(n, state, params) ==
    /\ mp_list' = RestBytes(mp_list, n)
    /\ store' = store \o FirstBytes(mp_list, n)
    /\ mp' = [state |-> state, index |-> mp.index + n, params |-> params]
MpIsShort(n) == Length(mp_list) < n /\ MpReads /\ NoFailure

\* A body of no parts, or the end of the stream where a part was to follow.
MpEmpty ==
    /\ pc = "multipart" /\ mp.state = 0 /\ mp_list = <<>> /\ eos
    /\ mp' = [mp EXCEPT !.state = 4]
    /\ GoesOn /\ MpNothing /\ NoFailure /\ MpUnchanged

\* Part body: a tail as long as the boundary is kept back, it may be the
\* beginning of one.  The data ends before the end of line and the dashes.
KeptBack == Len(Boundary)
At == StrStr(mp_list, Boundary)
\* Mutant: the end of line before the boundary is taken for data.
DataEndLate == mp.index + At - 2
DataEnd == mp.index + At - 4
\* The latest parameter is the first of the list.
Ended(params) == IF params = <<>> THEN params
                 ELSE [params EXCEPT ![1].data_size = DataEnd - params[1].data_index]

MpBody ==
    /\ InMultipart(0)
    /\ \/ MpIsShort(Len(Boundary))
       \/ /\ Length(mp_list) >= Len(Boundary) /\ At = OOB
          /\ LET n == Length(mp_list) - KeptBack IN
             \/ n = 0 /\ MpReads /\ NoFailure
             \/ n > 0 /\ ~eos /\ Cut(mp_list, n) /\ MpTakes(n, 0, mp.params)
                      /\ pc' = "store" /\ UNCHANGED <<eos, size, poll_request, verdict>>
             \/ n > 0 /\ eos /\ Cut(mp_list, n) /\ MpFatal
             \/ n > 0 /\ NoCut(mp_list, n) /\ MpDenied
       \/ /\ At # OOB
          /\ LET n == At + Len(Boundary) IN
             \/ Cut(mp_list, n) /\ MpTakes(n, 1, Ended(mp.params)) /\ GoesOn
             \/ NoCut(mp_list, n) /\ MpDenied
    /\ MpUnchanged

\* After a boundary: the end of the body, or a part.
NewParam == [data_index |-> 0, data_size |-> Unknown]
MpMore ==
    /\ InMultipart(1)
    /\ \/ MpIsShort(2)
       \/ /\ Length(mp_list) >= 2 /\ StrStr(mp_list, Dashes) = 0
          /\ \/ Cut(mp_list, 2) /\ MpTakes(2, 3, mp.params) /\ GoesOn
             \/ NoCut(mp_list, 2) /\ MpDenied
       \/ /\ Length(mp_list) >= 2 /\ StrStr(mp_list, CRLF) = 0
          /\ \/ Cut(mp_list, 2) /\ MpTakes(2, 2, <<NewParam>> \o mp.params) /\ GoesOn
             \/ Denied /\ MpDenied
       \/ /\ Length(mp_list) >= 2 /\ StrStr(mp_list, Dashes) # 0 /\ StrStr(mp_list, CRLF) # 0
          /\ MpFatal /\ NoFailure
    /\ MpUnchanged

\* Part header: up to the empty line; a name is mandatory.  The name, the file
\* name or the cut may find no memory: the strings are freed and all is retried.
HeaderEnd == StrStr(mp_list, CRLF \o CRLF)
Named == LET name == SelectInSeq(Bytes(mp_list), LAMBDA b : b = "name") IN name \in 1..HeaderEnd
MpHeader ==
    /\ InMultipart(2)
    /\ \/ HeaderEnd = OOB /\ MpReads /\ NoFailure
       \/ HeaderEnd # OOB /\ ~Named /\ MpFatal /\ NoFailure
       \/ /\ HeaderEnd # OOB /\ Named /\ Cut(mp_list, HeaderEnd + 4)
          /\ MpTakes(HeaderEnd + 4, 0, [mp.params EXCEPT ![1].data_index = mp.index + HeaderEnd + 4])
          /\ GoesOn
       \/ HeaderEnd # OOB /\ Named /\ Denied /\ MpDenied
    /\ MpUnchanged

\* Anything may follow the last boundary.
MpRest ==
    /\ InMultipart(3)
    /\ store' = store \o mp_list /\ mp_list' = <<>>
    /\ IF eos THEN mp' = [mp EXCEPT !.state = 4] /\ GoesOn
              ELSE /\ pc' = "store" /\ UNCHANGED <<mp, eos, size, poll_request, verdict>>
    /\ NoFailure /\ MpUnchanged
MpDone ==
    /\ InMultipart(4)
    /\ pc' = "store" /\ Finished
    /\ UNCHANGED <<eos, poll_request, verdict, mp>> /\ MpNothing /\ NoFailure /\ MpUnchanged

Multipart == MpEmpty \/ MpBody \/ MpMore \/ MpHeader \/ MpRest \/ MpDone

-----------------------------------------------------------------------------
(* elysian_store_cbuf_to_file                                              *)

StoreUnchanged == UNCHANGED <<input, rcv, isp, mp_list, mp, eos>>

\* The poll handler returns: it is polled again if it lacked memory, otherwise
\* only when more input is received.
PollEnds(again) == pc' = "idle" /\ poll' = again /\ UNCHANGED poll_request

StoreOpen ==
    /\ pc = "store" /\ file.mode = "none"
    /\ \/ /\ file' = [file EXCEPT !.mode = "write"]
          /\ NoFailure /\ UNCHANGED <<pc, poll, poll_request>>
       \/ Denied /\ PollEnds(TRUE) /\ UNCHANGED file
    /\ UNCHANGED <<store, offset, size, verdict>>
    /\ StoreUnchanged

\* The external disk may take less than it is given, the RAM file system not.
Left == Len(store[1]) - offset
WriteSizes == IF req.medium = "ram" THEN {Left} ELSE 1..Left

\* Mutant: the position in one cbuf is kept for the next one.
OffsetNotReset(n) == offset + n
\* Mutant: the next write begins with the same byte.
OffsetKept(n) == IF n = Left THEN 0 ELSE offset
OffsetAfter(n) == IF n = Left THEN 0 ELSE offset + n

StoreWrite ==
    /\ pc = "store" /\ file.mode = "write" /\ store # <<>>
    /\ \/ /\ \E n \in WriteSizes :
                /\ file' = [file EXCEPT !.content = @ \o SubSeq(store[1], offset + 1, offset + n)]
                /\ offset' = OffsetAfter(n)
                /\ store' = IF n = Left THEN Tail(store) ELSE store
                /\ size' = IF size = Unknown THEN Unknown ELSE size - n
          /\ NoFailure /\ UNCHANGED <<pc, poll, poll_request>>
       \/ Denied /\ PollEnds(TRUE) /\ UNCHANGED <<file, offset, store, size>>
    /\ UNCHANGED verdict
    /\ StoreUnchanged

\* Nothing is left to write: if the body is complete the file is closed, and
\* opened again for reading.
StoreEnds ==
    /\ pc = "store" /\ file.mode = "write" /\ store = <<>>
    /\ IF size = 0 THEN file' = [file EXCEPT !.mode = "closed"] /\ UNCHANGED <<pc, poll, poll_request>>
                   ELSE PollEnds(poll_request) /\ UNCHANGED file
    /\ UNCHANGED <<store, offset, size, verdict>> /\ NoFailure
    /\ StoreUnchanged
StoreReopen ==
    /\ pc = "store" /\ file.mode = "closed"
    /\ \/ /\ file' = [file EXCEPT !.mode = "read"] /\ verdict' = "stored" /\ PollEnds(FALSE)
          /\ NoFailure
       \/ Denied /\ PollEnds(TRUE) /\ UNCHANGED <<file, verdict>>
    /\ UNCHANGED <<store, offset, size>>
    /\ StoreUnchanged

\* The external disk may fail for good.
StoreFails ==
    /\ pc = "store" /\ req.medium = "ext"
    /\ file.mode \in {"none", "closed"} \/ store # <<>>
    /\ Denied
    /\ pc' = "idle" /\ verdict' = "failed"
    /\ UNCHANGED <<store, offset, size, file, poll, poll_request>>
    /\ StoreUnchanged

Store == StoreOpen \/ StoreWrite \/ StoreEnds \/ StoreReopen \/ StoreFails

-----------------------------------------------------------------------------
(* elysian_state_http_request_store                                        *)

ReadInput ==
    /\ pc = "idle" /\ verdict = "receiving" /\ burst < MaxBurst
    /\ \E n \in PieceSizes :
          /\ arrived + n <= Len(req.stream)
          /\ rcv' = Append(rcv, SubSeq(req.stream, arrived + 1, arrived + n))
          /\ arrived' = arrived + n
    /\ burst' = burst + 1
    /\ poll' = TRUE
    /\ UNCHANGED <<req, isp, mp_list, mp, store, offset, size, file, pc, eos,
                   poll_request, failures, verdict>>

Poll ==
    /\ pc = "idle" /\ verdict = "receiving" /\ poll
    /\ pc' = "isp" /\ poll_request' = FALSE
    /\ burst' = 0
    /\ UNCHANGED <<req, arrived, rcv, isp, mp_list, mp, store, offset, size, file, poll, eos,
                   failures, verdict>>

InPoll == Raw \/ Chunked \/ Multipart \/ Store

\* ENTRY asks for a poll at once: the body may have arrived with the headers.
Init == /\ req \in Requests
        /\ arrived = 0 /\ burst = 0 /\ rcv = <<>>
        /\ isp = [state |-> 0, index |-> 0, size |-> 0]
        /\ mp_list = <<>> /\ mp = [state |-> 0, index |-> 0, params |-> <<>>]
        /\ store = <<>> /\ offset = 0 /\ size = Unknown
        /\ file = [mode |-> "none", content |-> <<>>]
        /\ poll = TRUE /\ pc = "idle" /\ eos = FALSE /\ poll_request = FALSE
        /\ failures = 0 /\ verdict = "receiving"

\* Nothing happens any more.  The timer that ends a request on which nothing
\* happens is left out: no body that was sent should need it.
Quiet == /\ pc = "idle"
         /\ verdict # "receiving" \/ (arrived = Len(req.stream) /\ ~poll)
         /\ UNCHANGED vars

Next == ReadInput \/ Poll \/ InPoll \/ Quiet

\* A handler runs to its end: WF_vars(InPoll), whose ENABLED is spelled out (no
\* deadlock: outside of "idle" some step of the handler is always possible).
HandlerRuns == <>[](pc # "idle") => []<><<InPoll>>_vars

\* The scheduler polls whoever wants it, and the peer sends the body.
Spec == Init /\ [][Next]_vars
FairSpec == Spec /\ HandlerRuns /\ WF_vars(Poll) /\ WF_vars(ReadInput)

-----------------------------------------------------------------------------
(* Properties                                                              *)

Lists == {rcv, mp_list, store}

\* TypeOK: no list holds an empty cbuf, and the counters stay in their bounds.
TypeOK ==
    /\ req \in Requests /\ arrived \in 0..Len(req.stream) /\ burst \in 0..MaxBurst
    /\ \A list \in Lists : \A i \in DOMAIN list : list[i] # <<>>
    /\ isp.state \in {0, 1, 2, 4} /\ isp.index \in 0..Len(req.stream)
    /\ mp.state \in 0..5 /\ mp.index \in 0..Len(req.stream)
    /\ offset \in Nat /\ (store = <<>> => offset = 0) /\ (store # <<>> => offset < Len(store[1]))
    /\ size \in Nat \cup {Unknown}
    /\ file.mode \in {"none", "write", "closed", "read"}
    /\ <<poll, eos, poll_request>> \in BOOLEAN \X BOOLEAN \X BOOLEAN
    /\ pc \in {"idle", "isp", "multipart", "store"}
    /\ verdict \in {"receiving", "stored", "refused", "failed"}

\* BytesConserved: of a body that is not framed in chunks, every byte received is in
\* the file, waits to be written, or waits to be processed, in that order, once:
\* through cut cbufs, interrupted writes and retries after a lack of memory.
Unwritten == SubSeq(Bytes(store), offset + 1, Length(store))
BytesConserved ==
    req.framing = "raw" => file.content \o Unwritten \o Bytes(mp_list) \o Bytes(rcv)
                           = SubSeq(req.stream, 1, arrived)

\* RestUntouched: what follows the body in the input is still there, whole, when
\* the body is stored: it belongs to the next request.
RestUntouched ==
    verdict = "stored" =>
       IsSuffix(req.next, Bytes(rcv) \o SubSeq(req.stream, arrived + 1, Len(req.stream)))

\* PartsFound: the parts of a multipart body that is stored are cut out of the file
\* exactly, though the boundaries arrived in pieces (isp.c:316).
PartsFound ==
    verdict = "stored" /\ req.multipart =>
       [i \in DOMAIN mp.params |->
          LET p == mp.params[Len(mp.params) + 1 - i]
          IN SubSeq(file.content, p.data_index + 1, p.data_index + p.data_size)] = req.parts

\* ImplementsTransfer: whatever the framing, the pieces and the failures, this is the
\* transfer of a body into a file: a prefix of it at any time, each byte once, and
\* the request goes on with the whole body; only a malformed one is refused.
Transfer == INSTANCE BodyTransfer WITH
               Bodies <- {r.body : r \in Requests}, body <- req.body, file <- file.content
ImplementsTransfer == Transfer!Spec

\* BodyEnds: a body that was sent ends up in its file, or is refused, unless a write
\* to the external disk was interrupted inside a cbuf: then the size set at the
\* end of the body (elysian.c:243) counts bytes twice, and the store waits for them.
BodyEnds == req.medium = "ram" ~> verdict # "receiving"

\* TrailerConsumed: the processor of a chunked body takes "[\r\n] or [header0][\r\n]..."
\* after the last chunk (isp.c:165): the next request begins with its first byte.
TrailerConsumed ==
    verdict = "stored" =>
       Bytes(rcv) \o SubSeq(req.stream, arrived + 1, Len(req.stream)) = req.next
==============================================================================
