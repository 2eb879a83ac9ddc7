----------------------------- MODULE MCWebsocket -----------------------------
(* Some conversations: frames with every form of length, empty, control and *)
(* reserved ones, and malformed ends.                                       *)
EXTENDS Websocket

Key == <<1, 2, 3, 4>>
F(op, payload) == [op |-> op, payload |-> payload]

Framed(f, length) == <<128 + f.op>> \o length \o Key \o Unmask(f.payload, Key)
Short7(f) == Framed(f, <<128 + Len(f.payload)>>)
Short16(f) == Framed(f, <<128 + 126, 0, Len(f.payload)>>)
Short64(f) == Framed(f, <<128 + 127, 0, 0, 0, 0, 0, 0, 0, Len(f.payload)>>)

Session(fs, stream) == [frames |-> fs, stream |-> stream]

Hello == F(1, <<5, 6, 7, 8, 9>>)
Other == F(2, <<9>>)
Empty == F(1, <<>>)
Bye == F(8, <<3>>)
Pinged == F(9, <<4>>)
Ponged == F(10, <<>>)
Reserved == F(3, <<5>>)

MCSessions == {
    Session(<<Hello, Other>>, Short7(Hello) \o Short16(Other)),
    Session(<<Other, Bye, Other>>, Short7(Other) \o Short7(Bye) \o Short7(Other)),
    Session(<<Pinged, Reserved, Ponged>>, Short7(Pinged) \o Short7(Reserved) \o Short7(Ponged)),
    Session(<<Empty>>, Short64(Empty) \o <<129, 1>>),
    Session(<<>>, <<128 + 64 + 1, 129>>),
    Session(<<>>, <<130, 128 + 126, 1, 0>> \o Key),
    Session(<<>>, <<130, 128 + 127, 0, 0, 0, 1, 0, 0, 0, 1>>)}
==============================================================================
