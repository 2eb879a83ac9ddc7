------------------------------ MODULE DynamicPage ------------------------------
(***************************************************************************)
(* Sending a page with attributes: a file in which <%=name%> stands for    *)
(* the value of an attribute (resource.c:75-340), of which a part may be   *)
(* asked for (mvc.c:259-311), read into the buffers of the response        *)
(* (elysian.c:1020-1080).                                                  *)
(*                                                                         *)
(* The page is expanded while it is read, in a small search buffer, a      *)
(* number of bytes at a time that depends on the memory there is: once to  *)
(* learn its size, once up to the part asked for, and once to send it.     *)
(***************************************************************************)
EXTENDS Integers, SequencesExt

CONSTANTS
    Pages,       \* the pages: bytes of the file, and values of the attributes
    Ranges,      \* what is asked for: first and last byte, or Whole, or Chunked
    Window,      \* size of the search buffer without its terminating zero
    ReadSizes,   \* sizes of the response buffers
    SeekBlock,   \* how much is read at a time when seeking
    Whole, Chunked, Eof   \* the whole page, at once or until its end; no last byte given

ASSUME PagesAssumption ==
    \A p \in Pages : /\ p.file \in Seq(STRING)
                     /\ \A name \in DOMAIN p.values : p.values[name] \in Seq(STRING)
\* The head of a request whose range ends before it begins is refused (http.c:188).
ASSUME RangesAssumption ==
    \A r \in Ranges : \/ r \in {Whole, Chunked}
                      \/ r \in Nat \X (Nat \cup {Eof}) /\ (r[2] = Eof \/ r[1] <= r[2])
ASSUME SizesAssumption ==
    Window \in Nat /\ Window > 3 /\ SeekBlock \in Nat \ {0} /\ ReadSizes \subseteq Nat \ {0}

VARIABLES
    page,        \* the page: one of Pages
    range,       \* the request: one of Ranges
    filepos,     \* position in the file
    sbuf,        \* priv->sbuf, up to the terminating zero
    index0,      \* priv->sbuf_index0: next byte
    index1,      \* priv->sbuf_index1: end of the bytes that may be handed out
    shadow,      \* priv->shadow_buf_size: bytes behind them
    eof,         \* priv->eof
    rbuf,        \* what is left of the value that replaces a tag; priv->wbuf is it, if any
    replacing,   \* whether priv->wbuf is not priv->sbuf
    seekpos,     \* priv->seekpos
    todo,        \* the read in progress: bytes it still wants
    got,         \* bytes it has
    phase,       \* "sizing", "configure", "seeking", "send", "sending", "sent", "refused" or "hung"
    size,        \* client->resource->calculated_size
    last,        \* client->mvc.range_end
    out          \* bytes of the body sent

request == <<page, range>>
buffer == <<filepos, sbuf, index0, index1, shadow, eof, rbuf, replacing>>
vars == <<request, buffer, seekpos, todo, got, phase, size, last, out>>

Unknown == -1
Prefix == <<"<", "%", "=">>
Suffix == <<"%", ">">>

Partial == range \notin {Whole, Chunked}
Reading == phase \in {"sizing", "seeking", "sending"}
Smaller(a, b) == IF a < b THEN a ELSE b

-----------------------------------------------------------------------------
(* elysian_resource_read_dynamic                                           *)

\* shift_and_fill_sbuf: the bytes that are left, and what follows in the file.
\* The last bytes are kept in the shadow: they may be the beginning of a prefix.
\* Mutant: the shadow is not kept when the buffer is filled.
KeptNoShadow == SubSeq(sbuf, index0 + 1, index1)
Kept == SubSeq(sbuf, index0 + 1, index1 + shadow)
Room == Window - Len(Kept)
Fetched == IF eof THEN <<>> ELSE SubSeq(page.file, filepos + 1, Smaller(filepos + Room, Len(page.file)))
Filled == Kept \o Fetched
\* Mutant: nothing is kept back.
ShadowOfNone(n) == 0
ShadowOf(n) == IF n <= Len(Prefix) THEN 0 ELSE Len(Prefix) - 1

FetchedFile == /\ filepos' = filepos + Len(Fetched)
               /\ eof' = (eof \/ Len(Fetched) < Room)
               /\ sbuf' = Filled

\* The value of an attribute replaces its tag.
ReadReplacement ==
    /\ Reading /\ todo > 0 /\ replacing
    /\ LET n == Smaller(todo, Len(rbuf)) IN
       /\ got' = got \o SubSeq(rbuf, 1, n) /\ todo' = todo - n
       /\ rbuf' = SubSeq(rbuf, n + 1, Len(rbuf)) /\ replacing' = (n < Len(rbuf))
    /\ UNCHANGED <<request, filepos, sbuf, index0, index1, shadow, eof, seekpos, phase, size, last, out>>

Searching == Reading /\ todo > 0 /\ ~replacing
SearchUnchanged == UNCHANGED <<request, seekpos, phase, size, last, out>>

ReadFill ==
    /\ Searching /\ index0 > 0 /\ index0 = index1
    /\ FetchedFile
    /\ index0' = 0
    /\ shadow' = ShadowOf(Len(Filled)) /\ index1' = Len(Filled) - shadow'
    /\ UNCHANGED <<rbuf, replacing, todo, got>> /\ SearchUnchanged

\* A tag is found if it is in the buffer when that is filled from its first byte on.
Occurs(word, seq, i) == i + Len(word) - 1 <= Len(seq) /\ SubSeq(seq, i, i + Len(word) - 1) = word
AtPrefix == index0 < index1 /\ Occurs(Prefix, sbuf, index0 + 1)
EndsAt == {i \in (Len(Prefix) + 1)..Len(Filled) : Occurs(Suffix, Filled, i)}
ValueOf(name) == IF name \in DOMAIN page.values THEN page.values[name] ELSE <<>>

ReadTag ==
    /\ Searching /\ AtPrefix /\ EndsAt # {}
    /\ FetchedFile
    /\ LET end  == Min(EndsAt) + 1
           rest == Len(Filled) - ShadowOf(Len(Filled))
       IN /\ rbuf' = ValueOf(SubSeq(Filled, Len(Prefix) + 1, end - 2))
          /\ index0' = end
          /\ index1' = IF end > rest THEN end ELSE rest
          /\ shadow' = Len(Filled) - index1'
    /\ replacing' = TRUE
    /\ UNCHANGED <<todo, got>> /\ SearchUnchanged

\* Any other byte is handed out, a prefix without its suffix after a fill.
ReadByte ==
    /\ Searching /\ index0 < index1 /\ ~(AtPrefix /\ EndsAt # {})
    /\ got' = Append(got, sbuf[index0 + 1]) /\ todo' = todo - 1
    /\ IF AtPrefix
       THEN /\ FetchedFile
            /\ index0' = 1
            /\ shadow' = ShadowOf(Len(Filled)) /\ index1' = Len(Filled) - shadow'
       ELSE index0' = index0 + 1 /\ UNCHANGED <<filepos, eof, sbuf, shadow, index1>>
    /\ UNCHANGED <<rbuf, replacing>> /\ SearchUnchanged

AtEnd == ~replacing /\ index0 = 0 /\ index1 = 0
ReadEnds == Reading /\ (todo = 0 \/ AtEnd)
Short == todo > 0

-----------------------------------------------------------------------------
(* Seeking, the size, the range                                            *)

\* elysian_resource_seek_dynamic, back to the beginning.
Started == index0' = 1 /\ index1' = 1 /\ shadow' = 0 /\ sbuf' = <<"0">> /\ eof' = FALSE
Rewind == /\ Started
          /\ filepos' = 0 /\ seekpos' = 0
          /\ rbuf' = <<>> /\ replacing' = FALSE

Reads(n) == todo' = n /\ got' = <<>>

\* elysian_resource_size_dynamic: to the end, block by block, and back.
SizeReadsOn ==
    /\ phase = "sizing" /\ ReadEnds /\ ~Short
    /\ seekpos' = seekpos + Len(got)
    /\ Reads(SeekBlock)
    /\ UNCHANGED <<request, buffer, phase, size, last, out>>
SizeEnds ==
    /\ phase = "sizing" /\ ReadEnds /\ Short
    /\ size' = seekpos + Len(got)
    /\ IF size' # 0 THEN Rewind ELSE UNCHANGED <<buffer, seekpos>>
    /\ Reads(0) /\ phase' = "configure"
    /\ UNCHANGED <<request, last, out>>

\* elysian_mvc_post_configure
Beyond(end) == end >= size
RangeEnd == IF range[2] # Eof THEN range[2] ELSE IF size = 0 THEN 0 ELSE size - 1
Configure ==
    /\ phase = "configure"
    /\ IF ~Partial THEN last' = size - 1 /\ phase' = "send" /\ UNCHANGED todo
       ELSE /\ last' = RangeEnd
            /\ IF Beyond(RangeEnd) \/ range[1] > RangeEnd THEN phase' = "refused" /\ UNCHANGED todo
               ELSE IF range[1] = 0 THEN phase' = "send" /\ UNCHANGED todo
               ELSE phase' = "seeking" /\ todo' = Smaller(SeekBlock, range[1])
    /\ UNCHANGED <<request, buffer, seekpos, got, size, out>>

\* A seek that ends too early is an error.
SeekReadsOn ==
    /\ phase = "seeking" /\ ReadEnds
    /\ seekpos' = seekpos + Len(got)
    /\ IF Short THEN Reads(0) /\ phase' = "refused"
       ELSE IF seekpos' = range[1] THEN Reads(0) /\ phase' = "send"
       ELSE Reads(Smaller(SeekBlock, range[1] - seekpos')) /\ UNCHANGED phase
    /\ UNCHANGED <<request, buffer, size, last, out>>

-----------------------------------------------------------------------------
(* elysian_state_http_response_send_body: a buffer is filled and sent      *)

First == IF Partial THEN range[1] ELSE 0
\* Mutant: what was sent is not counted.
LeftFromStart == last - First + 1
Left == last - First + 1 - Len(out)

Send ==
    /\ phase = "send"
    /\ IF range # Chunked /\ Left = 0 THEN phase' = "sent" /\ UNCHANGED <<todo, got>>
       ELSE /\ phase' = "sending"
            /\ \E n \in ReadSizes : Reads(IF range = Chunked THEN n ELSE Smaller(n, Left))
    /\ UNCHANGED <<request, buffer, seekpos, size, last, out>>
\* The end of a chunked page is a buffer that is not full. The first buffer starts with
\* the headers; another that gets no byte is one elysian_socket_write asserts against.
Sent ==
    /\ phase = "sending" /\ ReadEnds
    /\ seekpos' = seekpos + Len(got)
    /\ out' = out \o got
    /\ phase' = IF got = <<>> /\ out # <<>> THEN "hung"
                ELSE IF range = Chunked /\ Short THEN "sent" ELSE "send"
    /\ Reads(0)
    /\ UNCHANGED <<request, buffer, size, last>>

Init == /\ page \in Pages /\ range \in Ranges
        /\ filepos = 0 /\ sbuf = <<"0">> /\ index0 = 1 /\ index1 = 1 /\ shadow = 0 /\ eof = FALSE
        /\ rbuf = <<>> /\ replacing = FALSE /\ seekpos = 0
        /\ todo = (IF range = Chunked THEN 0 ELSE SeekBlock) /\ got = <<>>
        /\ phase = (IF range = Chunked THEN "send" ELSE "sizing")
        /\ size = Unknown /\ last = 0 /\ out = <<>>

Next == \/ ReadReplacement \/ ReadFill \/ ReadTag \/ ReadByte
        \/ SizeReadsOn \/ SizeEnds \/ Configure \/ SeekReadsOn \/ Send \/ Sent

\* The response is polled until it is sent, and every buffer of it is sent.
Spec == Init /\ [][Next]_vars /\ WF_vars(Next)

-----------------------------------------------------------------------------
(* Properties                                                              *)

\* The page a reader should get: from each position on, a tag that fits into the
\* search buffer is replaced by its value, and any other byte is itself.
TagEnd(p) == {q \in (p + 4)..(p + Window - 1) : Occurs(Suffix, page.file, q - 1)}
Expansion ==
    LET from[p \in 1..(Len(page.file) + 1)] ==
          IF p > Len(page.file) THEN <<>>
          ELSE IF Occurs(Prefix, page.file, p) /\ TagEnd(p) # {}
          THEN LET q == Min(TagEnd(p)) IN ValueOf(SubSeq(page.file, p + 3, q - 2)) \o from[q + 1]
          ELSE <<page.file[p]>> \o from[p + 1]
    IN from[1]

\* TypeOK: the buffer holds what its indices say.
TypeOK ==
    /\ page \in Pages /\ range \in Ranges
    /\ filepos \in 0..Len(page.file)
    /\ index0 \in 0..index1 /\ shadow \in 0..2 /\ index1 + shadow = Len(sbuf)
    /\ Len(sbuf) <= Window
    /\ eof \in BOOLEAN /\ replacing \in BOOLEAN
    /\ seekpos \in Nat /\ todo \in Nat
    /\ phase \in {"sizing", "configure", "seeking", "send", "sending", "sent", "refused", "hung"}

\* SizeExact: the read position counts the bytes handed out, so the size found
\* by the first pass is that of the expanded page, in blocks of any size and with
\* tags and values across their borders.
SizeExact == size # Unknown => size = Len(Expansion)

\* SentExact: what is sent is the part asked for of the expanded page, whatever the
\* buffers it is read into: each byte once, and all of it when the response ends.  It is
\* refused exactly if the page does not have those bytes (mvc.c:287); no seek fails after that.
Accepted == phase \in {"send", "sending", "sent", "hung"}
Satisfiable == ~Partial \/ (range[1] < Len(Expansion) /\ (range[2] = Eof \/ range[2] < Len(Expansion)))
Part == IF Partial THEN SubSeq(Expansion, range[1] + 1, last + 1) ELSE Expansion
SentExact == /\ phase = "refused" => ~Satisfiable
             /\ Accepted => /\ Satisfiable
                            /\ IsPrefix(out, Part)
                            /\ phase = "sent" => out = Part

\* ResponseEnds: every response is sent or refused, but for a chunked page that ends with
\* a full buffer, where the server stops at the assertion of elysian_socket_write.
ResponseEnds == <>(phase \in {"sent", "refused"} \/ (phase = "hung" /\ range = Chunked /\ out = Expansion))
==============================================================================
