------------------------------ MODULE MCBodyStore ------------------------------
(* Bodies of a few bytes in every framing, each followed by the first bytes *)
(* of the next request, and malformed ones.                                 *)
EXTENDS BodyStore

MCByte == {"0", "1", "2", "CR", "LF", "-", "B", "b", "name", "x", "y", "z", "G", "E"}
NextRequest == <<"G", "E">>
Digit(n) == CASE n = 1 -> "1" [] n = 2 -> "2" [] OTHER -> "0"
Hexadecimal(n) == IF n >= 16 THEN <<"1", Digit(n - 16)>> ELSE <<Digit(n)>>
Chunk(data) == Hexadecimal(Len(data)) \o CRLF \o data \o CRLF
LastChunk == <<"0">> \o CRLF
InChunks(chunks) == FlattenSeq([i \in DOMAIN chunks |-> Chunk(chunks[i])]) \o LastChunk

\* A multipart body; the last boundary may be followed by anything.
Part(data) == Dashes \o Boundary \o CRLF \o <<"name">> \o CRLF \o CRLF \o data \o CRLF
Parts(parts) == FlattenSeq([i \in DOMAIN parts |-> Part(parts[i])]) \o Dashes \o Boundary \o Dashes

RawBody(medium, multipart, data, whole, parts) ==
    [framing |-> "raw", multipart |-> multipart, medium |-> medium,
     stream |-> data \o NextRequest, body_len |-> Len(data), next |-> NextRequest,
     body |-> [content |-> data, whole |-> whole, disk |-> medium = "ext"], parts |-> parts]

ChunkedBody(medium, multipart, chunks, parts) ==
    [framing |-> "chunked", multipart |-> multipart, medium |-> medium,
     stream |-> InChunks(chunks) \o CRLF \o NextRequest, body_len |-> 0, next |-> NextRequest,
     body |-> [content |-> FlattenSeq(chunks), whole |-> TRUE, disk |-> medium = "ext"], parts |-> parts]

Malformed(stream, content) ==
    [framing |-> "chunked", multipart |-> FALSE, medium |-> "ram",
     stream |-> stream, body_len |-> 0, next |-> <<>>,
     body |-> [content |-> content, whole |-> FALSE, disk |-> FALSE], parts |-> <<>>]

\* The second part's data looks like the beginning of a boundary.
TwoParts == << <<"x">>, <<"CR", "LF", "-", "B">> >>

Plain == {RawBody(medium, FALSE, <<"x", "y", "z">>, TRUE, <<>>) : medium \in {"ram", "ext"}}
Framed == {ChunkedBody("ram", FALSE, << <<"x">>, <<"CR", "LF">> >>, <<>>),
           ChunkedBody("ram", FALSE, <<>>, <<>>)}
FormData == {RawBody("ram", TRUE, Parts(TwoParts), TRUE, TwoParts),
             RawBody("ram", TRUE, Parts(<<>>), TRUE, <<>>)}
\* A multipart body whose last boundary is cut by the end of a chunk.
InTwo(bytes) == <<SubSeq(bytes, 1, 18), SubSeq(bytes, 19, Len(bytes))>>
FormDataInChunks == {ChunkedBody("ram", TRUE, InTwo(Parts(<< <<"x">> >>)), << <<"x">> >>),
                     ChunkedBody("ram", TRUE, <<>>, <<>>)}
Bad == {Malformed(<<"1", "CR", "LF", "x", "y", "CR", "LF">>, <<"x">>),
        Malformed(CRLF \o <<"x">>, <<>>),
        Malformed(<<"0", "0", "0", "0", "0", "0", "0", "0", "0", "1", "1">>, <<>>),
        RawBody("ram", TRUE, Dashes \o Boundary \o <<"x", "y">>, FALSE, <<>>),
        RawBody("ram", TRUE, Dashes \o Boundary \o CRLF \o <<"x">> \o CRLF \o CRLF, FALSE, <<>>),
        RawBody("ram", TRUE, Part(<<"x">>), FALSE, <<>>)}

MCRequests == Plain \cup Framed \cup FormData \cup FormDataInChunks \cup Bad
==============================================================================
