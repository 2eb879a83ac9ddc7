------------------------------ MODULE BodyFormat ------------------------------
(***************************************************************************)
(* What a stream of bytes is as a request body, read at once and as a      *)
(* whole: the content of a body sent in chunks, and the parts of a         *)
(* multipart body.  The input stream processors (isp.c), which see it in   *)
(* pieces, are compared with this.                                         *)
(***************************************************************************)
EXTENDS Cbufs, Slices

CONSTANT Byte    \* the bytes that bodies are made of

ASSUME ByteAssumption == {"CR", "LF", "-", "B", "b"} \subseteq Byte

CRLF == <<"CR", "LF">>
Dashes == <<"-", "-">>
Boundary == <<"B", "b">>
Digits == {"0", "1", "2"}

Occurs(bytes, i, str) == i + Len(str) <= Len(bytes) /\ Slice(bytes, i, i + Len(str)) = str
\* The first place at or after from where str stands.
Find(bytes, from, str) ==
    LET places == {i \in from..Len(bytes) : Occurs(bytes, i, str)}
    IN IF places = {} THEN OOB ELSE CHOOSE i \in places : \A j \in places : i <= j

\* elysian_strhex2uint: the value of the digits before the first other byte.
Hex(bytes) ==
    LET digits == SelectInSeq(bytes, LAMBDA b : b \notin Digits) - 1
        value[i \in 0..Len(bytes)] ==
            IF i = 0 THEN 0
            ELSE 16 * value[i - 1] + (CASE bytes[i] = "1" -> 1 [] bytes[i] = "2" -> 2 [] OTHER -> 0)
    IN IF digits = -1 THEN value[Len(bytes)] ELSE value[digits]

-----------------------------------------------------------------------------
(* Chunks: a line of one to eight digits, so many bytes, an end of line     *)

LineEndAt(stream, p) == Find(stream, p, CRLF)
IsLine(stream, p) == LineEndAt(stream, p) # OOB /\ LineEndAt(stream, p) - p \in 1..8
SizeAt(stream, p) == Hex(Slice(stream, p, LineEndAt(stream, p)))
DataAt(stream, p) == LineEndAt(stream, p) + 2
DataEndAt(stream, p) == DataAt(stream, p) + SizeAt(stream, p)
IsChunk(stream, p) == /\ IsLine(stream, p) /\ SizeAt(stream, p) > 0
                      /\ Occurs(stream, DataEndAt(stream, p), CRLF)
IsLast(stream, p) == IsLine(stream, p) /\ SizeAt(stream, p) = 0

ChunkStates == [at : Nat, content : Seq(Byte)]
NoChunks == [at |-> 0, content |-> <<>>]
NextChunk(stream, d) ==
    IF IsChunk(stream, d.at)
    THEN [at |-> DataEndAt(stream, d.at) + 2,
          content |-> d.content \o Slice(stream, DataAt(stream, d.at), DataEndAt(stream, d.at))]
    ELSE d
\* What is read after k chunks, and after all of them.
Chunks(stream) == Iterated([d \in ChunkStates |-> NextChunk(stream, d)], NoChunks, Len(stream))
AllChunks(stream) == Chunks(stream)[Len(stream)]

\* A chunk that is not complete counts with the data that there is.
DataThere(stream, p) ==
    IF ~IsLine(stream, p) THEN <<>>
    ELSE Slice(stream, DataAt(stream, p),
                 IF DataEndAt(stream, p) <= Len(stream) THEN DataEndAt(stream, p) ELSE Len(stream))
ChunkedContent(stream) == AllChunks(stream).content \o DataThere(stream, AllChunks(stream).at)
ChunkedWhole(stream) == IsLast(stream, AllChunks(stream).at)
\* What follows the line of the last chunk.
ChunkedRest(stream) == Slice(stream, DataAt(stream, AllChunks(stream).at), Len(stream))

-----------------------------------------------------------------------------
(* Parts: data up to a boundary, then two dashes, or a header and data      *)

Unset == -1
Param == [data_index : Nat, data_size : Int]
PartStates == [state : 0..3, at : Nat, params : Seq(Param)]
NoParts == [state |-> 0, at |-> 0, params |-> <<>>]
\* The latest part is the first of the list.
EndedAt(params, end) ==
    IF params = <<>> THEN params ELSE [params EXCEPT ![1].data_size = end - params[1].data_index]

AfterData(bytes, d) ==
    LET i == Find(bytes, d.at, Boundary)
    IN IF i = OOB THEN d
       ELSE [state |-> 1, at |-> i + Len(Boundary), params |-> EndedAt(d.params, i - Len(CRLF \o Dashes))]
AfterBoundary(bytes, d) ==
    IF Occurs(bytes, d.at, Dashes) THEN [d EXCEPT !.state = 3, !.at = @ + 2]
    ELSE IF Occurs(bytes, d.at, CRLF)
    THEN [state |-> 2, at |-> d.at + 2, params |-> <<[data_index |-> 0, data_size |-> Unset]>> \o d.params]
    ELSE d
AfterHeader(bytes, d) ==
    LET h == Find(bytes, d.at, CRLF \o CRLF)
    IN IF h # OOB /\ \E i \in (d.at + 1)..h : bytes[i] = "name"
       THEN [state |-> 0, at |-> h + 4, params |-> [d.params EXCEPT ![1].data_index = h + 4]]
       ELSE d
NextPart(bytes, d) == CASE d.state = 0 -> AfterData(bytes, d)
                        [] d.state = 1 -> AfterBoundary(bytes, d)
                        [] d.state = 2 -> AfterHeader(bytes, d)
                        [] OTHER -> d
Parsed(bytes) == Iterated([d \in PartStates |-> NextPart(bytes, d)], NoParts, Len(bytes))
AllParts(bytes) == Parsed(bytes)[Len(bytes)]
\* It ends with two dashes, or where a part might have begun.
IsMultipart(bytes) == LET d == AllParts(bytes)
                      IN d.state = 3 \/ (d.state = 0 /\ d.at = Len(bytes))
\* The data of the parts, in order.
DataOf(bytes, params) ==
    [i \in DOMAIN params |->
       LET p == params[Len(params) + 1 - i]
       IN SubSeq(bytes, p.data_index + 1, p.data_index + p.data_size)]
PartsOf(bytes) == DataOf(bytes, AllParts(bytes).params)
\* Every part was ended, and the line end before the boundary is not missing.
PartsEnd(bytes) == \A i \in DOMAIN AllParts(bytes).params : AllParts(bytes).params[i].data_size >= 0
==============================================================================
