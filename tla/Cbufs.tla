-------------------------------- MODULE Cbufs --------------------------------
(***************************************************************************)
(* Chained buffers (cbuf.c): a list of buffers, here a sequence of         *)
(* non-empty sequences of bytes.                                           *)
(***************************************************************************)
EXTENDS Integers, SequencesExt

Bytes(list) == FlattenSeq(list)
Length(list) == Len(Bytes(list))

OOB == -1   \* ELYSIAN_INDEX_OOB32

\* elysian_cbuf_strstr: at every index in turn the bytes are compared until one
\* differs.  The search ends at the first index where none does, without a match
\* when the list ended before the string.
Agrees(bytes, i, str) ==
    \A k \in DOMAIN str : i + k <= Len(bytes) => bytes[i + k] = str[k]
StrStr(list, str) ==
    LET bytes == Bytes(list)
        stops == {i \in 0..(Len(bytes) - 1) : Agrees(bytes, i, str)}
        first == CHOOSE i \in stops : \A j \in stops : i <= j
    IN IF stops # {} /\ first + Len(str) <= Len(bytes) THEN first ELSE OOB

\* The cbuf in which the first n bytes end.
EndsIn(list, n) == CHOOSE k \in 0..Len(list) :
                      /\ Length(SubSeq(list, 1, k)) >= n
                      /\ k > 0 => Length(SubSeq(list, 1, k - 1)) < n

\* elysian_cbuf_rechain: one of the cbufs has to be cut in two, which takes
\* memory for the smaller part, unless a cbuf ends just there.
NeedsCut(list, n) == Length(SubSeq(list, 1, EndsIn(list, n))) # n
Rechained(list, n) ==
    IF ~NeedsCut(list, n) THEN list
    ELSE LET k   == EndsIn(list, n)
             cut == n - Length(SubSeq(list, 1, k - 1))
         IN SubSeq(list, 1, k - 1)
              \o <<SubSeq(list[k], 1, cut), SubSeq(list[k], cut + 1, Len(list[k]))>>
              \o SubSeq(list, k + 1, Len(list))

\* elysian_cbuf_list_split: the first n bytes, and what is left of the list.
FirstBytes(list, n) == LET r == Rechained(list, n) IN SubSeq(r, 1, EndsIn(r, n))
RestBytes(list, n) == LET r == Rechained(list, n) IN SubSeq(r, EndsIn(r, n) + 1, Len(r))
==============================================================================
