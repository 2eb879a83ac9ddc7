---------------------------- MODULE WebsocketFeed ----------------------------
(***************************************************************************)
(* What a websocket promises its application: the connected handler is     *)
(* called first; if it accepts, the frame handler is called with the       *)
(* payload of the frames the peer sent, in their order, each once, none    *)
(* after a close frame; the disconnected handler is called once, last.     *)
(***************************************************************************)
EXTENDS SequencesExt, Integers

CONSTANT Sessions   \* what a peer may send: sequences of frames

VARIABLES
    frames,   \* the frames the peer sends
    calls     \* the handlers called: name and payload

vars == <<frames, calls>>

Continuation == 0
Text == 1
Binary == 2
Close == 8
Ping == 9
Pong == 10

\* The frames the application hears of: up to a close frame, if they have a payload.
\* Pings and reserved opcodes are left out; a close or a pong with a payload is not.
UpToClose(fs) == LET n == SelectInSeq(fs, LAMBDA f : f.op = Close)
                 IN IF n = 0 THEN fs ELSE SubSeq(fs, 1, n)
IsHeard(f) == f.op \in {Continuation, Text, Binary, Close, Pong} /\ f.payload # <<>>
\* Of the first i frames, as a function that a proof can unfold (it is SelectSeq).
HeardOf(fs) ==
    LET heard[i \in 0..Len(fs)] == IF i = 0 THEN <<>>
                                   ELSE IF IsHeard(fs[i]) THEN Append(heard[i - 1], fs[i])
                                   ELSE heard[i - 1]
    IN heard
Heard(fs) == HeardOf(UpToClose(fs))[Len(UpToClose(fs))]

Call(handler, data) == [handler |-> handler, data |-> data]
LastCall == IF calls = <<>> THEN "none" ELSE calls[Len(calls)].handler
Calls(call) == calls' = Append(calls, call) /\ UNCHANGED frames

Init == frames \in Sessions /\ calls = <<>>

Connected == LastCall = "none" /\ Calls(Call("connected", <<>>))
Blocked == LastCall = "none" /\ Calls(Call("blocked", <<>>))
Frame == /\ LastCall \in {"connected", "frame"}
         /\ Len(calls) <= Len(Heard(frames))
         /\ Calls(Call("frame", Heard(frames)[Len(calls)].payload))
Disconnected == LastCall \in {"connected", "frame"} /\ Calls(Call("disconnected", <<>>))

Next == Connected \/ Blocked \/ Frame \/ Disconnected

Spec == Init /\ [][Next]_vars
==============================================================================
