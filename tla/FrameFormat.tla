------------------------------ MODULE FrameFormat ------------------------------
(***************************************************************************)
(* What a stream of bytes is as a sequence of websocket frames, read at    *)
(* once and as a whole.  The frame processor (isp.c), which sees it in     *)
(* pieces, is compared with this.                                          *)
(***************************************************************************)
EXTENDS Slices

Byte == 0..255

\* The exclusive or of two bytes, bit by bit.
Bit(n, i) == (n \div 2^i) % 2
Xor(a, b) == CHOOSE c \in Byte : \A i \in 0..7 : Bit(c, i) = (Bit(a, i) + Bit(b, i)) % 2

\* The masking key is used again every 4 bytes.
Unmask(bytes, key) == [k \in DOMAIN bytes |-> Xor(bytes[k], key[((k - 1) % 4) + 1])]

\* Numbers in 2 and in 4 bytes, the first one the most significant.
Number16(b) == 256 * b[1] + b[2]
Number32(b) == 256 * (256 * (256 * b[1] + b[2]) + b[3]) + b[4]

-----------------------------------------------------------------------------
(* A frame that begins at position p                                        *)

\* The first two bytes: masked, no reserved bits, a length below 126 or where it is.
Opcode(stream, p) == stream[p + 1] % 16
Len7(stream, p) == stream[p + 2] % 128
IsHead(stream, p) == /\ p + 2 <= Len(stream)
                     /\ stream[p + 2] >= 128 /\ (stream[p + 1] \div 16) % 8 = 0
KeyAt(stream, p) == p + 2 + (IF Len7(stream, p) < 126 THEN 0 ELSE IF Len7(stream, p) = 126 THEN 2 ELSE 8)
DataAt(stream, p) == KeyAt(stream, p) + 4
\* Only the lower half of a length in 8 bytes is used.
IsHuge(stream, p) == Len7(stream, p) = 127 /\ \E i \in 1..4 : stream[p + 2 + i] # 0
DataLen(stream, p) == IF Len7(stream, p) < 126 THEN Len7(stream, p)
                      ELSE IF Len7(stream, p) = 126 THEN Number16(Slice(stream, p + 2, p + 4))
                      ELSE Number32(Slice(stream, p + 6, p + 10))
FrameEnd(stream, p) == DataAt(stream, p) + DataLen(stream, p)
IsFrame(stream, p) == /\ IsHead(stream, p) /\ DataAt(stream, p) <= Len(stream)
                      /\ ~IsHuge(stream, p) /\ FrameEnd(stream, p) <= Len(stream)
FrameAt(stream, p) ==
    [op |-> Opcode(stream, p),
     payload |-> Unmask(Slice(stream, DataAt(stream, p), FrameEnd(stream, p)),
                        Slice(stream, KeyAt(stream, p), DataAt(stream, p)))]

-----------------------------------------------------------------------------
(* The frames of a stream                                                   *)

NextStart(stream, p) == IF IsFrame(stream, p) THEN FrameEnd(stream, p) ELSE p
\* Where each frame begins, and after the last one what is not a frame.
Starts(stream) == Iterated([p \in Nat |-> NextStart(stream, p)], 0, Len(stream))
CountOf(stream) == CHOOSE k \in 0..Len(stream) :
                      /\ ~IsFrame(stream, Starts(stream)[k])
                      /\ \A j \in 0..(k - 1) : IsFrame(stream, Starts(stream)[j])
FramesOf(stream) == [k \in 1..CountOf(stream) |-> FrameAt(stream, Starts(stream)[k - 1])]
==============================================================================
