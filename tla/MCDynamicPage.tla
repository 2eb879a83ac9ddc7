---------------------------- MODULE MCDynamicPage ----------------------------
(* Pages put together from text, tags and parts of tags.                    *)
EXTENDS DynamicPage

Tag(name) == Prefix \o name \o Suffix
N == <<"n">>
Fits == <<"l", "o", "g">>
TooLong == <<"l", "o", "n", "g">>
Pieces == {<<"a">>, <<"<">>, Prefix, Suffix, Tag(N), Tag(Fits), Tag(TooLong), Tag(<<>>)}
Values == (N :> <<"v", "<", "%">>) @@ (TooLong :> <<"w">>) @@ (Fits :> <<"x", "y">>)

MCPages == {[file |-> p1 \o p2 \o p3, values |-> Values] : p1 \in Pieces, p2 \in Pieces, p3 \in Pieces}
           \cup {[file |-> <<>>, values |-> Values]}
MCRanges == {Whole, Chunked, <<0, 1>>, <<2, Eof>>, <<4, 5>>}
==============================================================================
