------------------------------ MODULE FileStore ------------------------------
(***************************************************************************)
(* What the RAM file system promises its users: a directory of contents    *)
(* under names, and for every open file a view of one content.  A reader   *)
(* keeps the content it opened until it closes, whatever is removed or     *)
(* created under that name meanwhile; a file that is being written is not  *)
(* read, and has one writer.                                               *)
(***************************************************************************)
EXTENDS Sequences

CONSTANTS Handles, Names, Pieces

VARIABLES
    files,   \* the directory: a function from the names in use to contents
    view     \* what each open handle sees: name, mode, content, still linked

vars == <<files, view>>

Closed == [mode |-> "closed"]
View(n, mode, content) == [mode |-> mode, name |-> n, content |-> content, linked |-> TRUE]

Bound(n, content) == [m \in DOMAIN files \cup {n} |-> IF m = n THEN content ELSE files[m]]
Unbound(n) == [m \in DOMAIN files \ {n} |-> files[m]]
OpenOn(h, n) == view[h].mode # "closed" /\ view[h].name = n /\ view[h].linked

Init == /\ files = [n \in {} |-> <<>>]
        /\ view = [h \in Handles |-> Closed]

OpenRead(h, n) ==
    /\ view[h] = Closed /\ n \in DOMAIN files
    /\ \A g \in Handles : OpenOn(g, n) => view[g].mode = "read"
    /\ view' = [view EXCEPT ![h] = View(n, "read", files[n])]
    /\ UNCHANGED files

OpenWrite(h, n) ==
    /\ view[h] = Closed
    /\ \A g \in Handles : ~OpenOn(g, n)
    /\ view' = [view EXCEPT ![h] = View(n, "write", <<>>)]
    /\ files' = Bound(n, <<>>)

Extend(h, p) ==
    /\ view[h].mode = "write"
    /\ LET content == view[h].content \o <<p>> IN
       /\ view' = [view EXCEPT ![h].content = content]
       /\ files' = IF view[h].linked THEN Bound(view[h].name, content) ELSE files

Close(h) ==
    /\ view[h] # Closed
    /\ view' = [view EXCEPT ![h] = Closed]
    /\ UNCHANGED files

\* The name is free again; who has the file open keeps what it sees.
Remove(n) ==
    /\ n \in DOMAIN files
    /\ files' = Unbound(n)
    /\ view' = [h \in Handles |-> IF OpenOn(h, n) THEN [view[h] EXCEPT !.linked = FALSE]
                                                   ELSE view[h]]

Next == \/ \E h \in Handles, n \in Names : OpenRead(h, n) \/ OpenWrite(h, n)
        \/ \E h \in Handles : Close(h) \/ \E p \in Pieces : Extend(h, p)
        \/ \E n \in Names : Remove(n)

Spec == Init /\ [][Next]_vars
==============================================================================
