----------------------------- MODULE RequestFiles -----------------------------
(***************************************************************************)
(* The users of the RAM file system: every client stores the header and    *)
(* the body of its request in two files, serves a view from a third one,   *)
(* and removes its files when the request is over (elysian.c); a           *)
(* controller may build a file of its own, serve it, and have it removed   *)
(* by an onservice handler (examples/api_demo/main.c:581).                 *)
(*                                                                         *)
(* A view is any file: by default the one the URL names (mvc.c:153).       *)
(* Where the state machine of a client is does not matter here: a request  *)
(* can be given up at every point (timers, ABORT, errors), so every step   *)
(* leads to CleanUp as well.                                               *)
(***************************************************************************)
EXTENDS Integers, Sequences, FiniteSets

CONSTANTS
    Clients,
    Defs, NoDef,     \* addresses of file definitions (numbers), see RamFs
    Pieces,          \* what is written at a time
    MaxPieces,       \* bound: writes to one file
    MaxFiles,        \* bound: files the application creates
    Shared           \* whether a client may serve a file that another client uses

ASSUME ClientsAssumption == IsFiniteSet(Clients)
ASSUME DefsAssumption    == Defs \subseteq Nat /\ NoDef \notin Defs
ASSUME PiecesAssumption  == \A p \in Pieces : p \in Seq(Nat) /\ p # <<>>
ASSUME BoundsAssumption  == MaxPieces \in Nat /\ MaxFiles \in Nat /\ Shared \in BOOLEAN

Kinds == {"headers", "body", "view", "app"}
NoName == <<>>
AppNames == {<<"app", k>> : k \in 1..MaxFiles}
Names == ({"headers", "body"} \X Clients) \cup AppNames

VARIABLES
    heap, file_ram_def, file, halted,  \* see RamFs
    running,    \* the handler in progress: <<client, name>>, or Nobody
    stage,      \* what the client does: "receive", "handle", "open", "serve" or "clean"
    filename,   \* headers_filename and body_filename, or NoName
    view,       \* mvc.view, NoName when it is not set or already open
    handler,    \* the file the onservice handler is to remove, or NoName
    ajax_id,    \* the static counter that names the application's files
    stored,     \* ghost: what was stored in the files of the request
    refused     \* ghost: kinds of files whose removal was refused as others served them

ramfs == <<heap, file_ram_def, file, halted>>
request == <<stage, filename, view, handler>>
vars == <<heap, file_ram_def, file, halted, running, stage, filename, view, handler,
          ajax_id, stored, refused>>

Fs == INSTANCE RamFs WITH Handles <- Clients \X Kinds, MaxRead <- 1

\* Which address is allocated makes no difference to the users: the first free one.
FirstFree(d) == heap[d] = Fs!Freed /\ \A e \in Defs : e < d => heap[e] # Fs!Freed
OpenWrite(h, n) == \E d \in Defs : FirstFree(d) /\ Fs!OpenWriteAt(h, n, d)

Nobody == <<>>
Path(c, k) == <<k, c>>
Handle(c, k) == <<c, k>>
Mode(c, k) == file[<<c, k>>].mode

\* The server is single threaded: a handler ends before another client is visited.
Visit(c, s) == ~halted /\ running = Nobody /\ stage[c] = s
In(c, name) == ~halted /\ running = <<c, name>>
StageGoes(c, s) == stage' = [stage EXCEPT ![c] = s]
Ends == running' = Nobody

-----------------------------------------------------------------------------
(* Receiving: elysian_store_cbuf_to_file                                   *)

\* The file is created; the name is kept only when that worked.
\* Mutant: it is kept also when there was no memory.
NotNamedKept(c, k) == filename' = [filename EXCEPT ![c][k] = Path(c, k)]
NotNamed(c, k) == UNCHANGED filename
Create(c, k) ==
    /\ Visit(c, "receive") /\ filename[c][k] = NoName
    /\ k = "body" => Mode(c, "headers") = "READ"
    /\ \/ /\ OpenWrite(Handle(c, k), Path(c, k))
          /\ filename' = [filename EXCEPT ![c][k] = Path(c, k)]
       \/ Fs!OpenWriteFails(Handle(c, k), Path(c, k)) /\ NotNamed(c, k)
    /\ UNCHANGED <<running, stage, view, handler, ajax_id, stored, refused>>

Store(c, k) ==
    /\ Visit(c, "receive")
    /\ \E p \in Pieces : /\ Fs!FWrite(Handle(c, k), p)
                         /\ stored' = [stored EXCEPT ![c][k] = Append(@, p)]
    /\ UNCHANGED <<running, request, ajax_id, refused>>

\* Everything is stored: the file is closed, and opened again to be read.  A header
\* block has some bytes, a body may have none.
CloseStored(c, k) ==
    /\ Visit(c, "receive") /\ Mode(c, k) = "WRITE"
    /\ k = "headers" => stored[c][k] # <<>>
    /\ Fs!FClose(Handle(c, k))
    /\ running' = <<c, k>>
    /\ UNCHANGED <<request, ajax_id, stored, refused>>
Reopen(c, k) ==
    /\ In(c, k)
    /\ Fs!OpenRead(Handle(c, k), filename[c][k])
    /\ Ends
    /\ UNCHANGED <<request, ajax_id, stored, refused>>

\* A request without a body, or with one that is complete, goes to the controller.
Received(c) ==
    /\ Visit(c, "receive") /\ Mode(c, "headers") = "READ"
    /\ filename[c]["body"] # NoName => Mode(c, "body") = "READ"
    /\ StageGoes(c, "handle")
    /\ UNCHANGED <<ramfs, running, filename, view, handler, ajax_id, stored, refused>>

-----------------------------------------------------------------------------
(* Handling: the controller and the view                                   *)

\* The file the URL names; of the others' files only if they may be shared.
DefaultView(c) ==
    /\ Visit(c, "handle")
    /\ \E n \in Names :
          /\ ~Shared => n \in {Path(c, "headers"), Path(c, "body")}
          /\ view' = [view EXCEPT ![c] = n]
    /\ StageGoes(c, "open")
    /\ UNCHANGED <<ramfs, running, filename, handler, ajax_id, stored, refused>>

\* controller_ajax: a file of its own.  The name is used up even if it fails.
AppName == <<"app", ajax_id>>
AppCreate(c) ==
    /\ Visit(c, "handle") /\ ajax_id < MaxFiles
    /\ OpenWrite(Handle(c, "app"), <<"app", ajax_id + 1>>)
    /\ ajax_id' = ajax_id + 1
    /\ running' = <<c, "write">>
    /\ UNCHANGED <<request, stored, refused>>
AppWrite(c) ==
    /\ In(c, "write")
    /\ \/ \E p \in Pieces : Fs!FWrite(Handle(c, "app"), p) /\ running' = <<c, "close">>
       \/ running' = <<c, "undo">> /\ UNCHANGED ramfs
    /\ UNCHANGED <<request, ajax_id, stored, refused>>
AppClose(c) ==
    /\ In(c, "close") \/ (In(c, "undo") /\ Mode(c, "app") # "NA")
    /\ Fs!FClose(Handle(c, "app"))
    /\ running' = IF In(c, "close") THEN <<c, "view">> ELSE running
    /\ UNCHANGED <<request, ajax_id, stored, refused>>

\* The attribute and the view are set, or there is no memory for one of them.
\* Mutant: then the file is left behind.
UndoneNot(c) == Ends /\ UNCHANGED <<stage, view, handler>>
Undone(c) == running' = <<c, "undo">> /\ UNCHANGED <<stage, view, handler>>
AppView(c) ==
    /\ In(c, "view")
    /\ \/ /\ view' = [view EXCEPT ![c] = AppName]
          /\ handler' = [handler EXCEPT ![c] = AppName]
          /\ StageGoes(c, "open")
          /\ Ends
       \/ Undone(c)
    /\ UNCHANGED <<ramfs, filename, ajax_id, stored, refused>>
\* POLL: the controller is called again later.
AppUndo(c) ==
    /\ In(c, "undo") /\ Mode(c, "app") = "NA"
    /\ Fs!FRemove(AppName)
    /\ Ends
    /\ UNCHANGED <<request, ajax_id, stored, refused>>

\* elysian_resource_open.  A view that is not found becomes a status page.  (One
\* that is being written fails an assertion: see Connection.)
OpenView(c) ==
    /\ Visit(c, "open")
    /\ \/ Fs!OpenRead(Handle(c, "view"), view[c])
       \/ Fs!Find(view[c]) = 0 /\ UNCHANGED ramfs
    /\ StageGoes(c, "serve")
    /\ view' = [view EXCEPT ![c] = NoName]
    /\ UNCHANGED <<running, filename, handler, ajax_id, stored, refused>>

-----------------------------------------------------------------------------
(* elysian_client_cleanup, and the states that call it                     *)

\* The response is complete, or the request is given up.
GiveUp(c) ==
    /\ ~halted /\ running = Nobody /\ stage[c] # "clean"
    /\ StageGoes(c, "clean")
    /\ UNCHANGED <<ramfs, running, filename, view, handler, ajax_id, stored, refused>>

CleanUp(c) ==
    /\ Visit(c, "clean")
    /\ running' = <<c, "clean">>
    /\ view' = [view EXCEPT ![c] = NoName]  \* elysian_mvc_clear
    /\ UNCHANGED <<ramfs, stage, filename, handler, ajax_id, stored, refused>>

\* The file it comes to next: the view, then the headers, then the body.
\* Mutant: the view is closed last.
NextFileViewLast(c) ==
    CASE filename[c]["headers"] # NoName -> "headers"
      [] filename[c]["headers"] = NoName /\ filename[c]["body"] # NoName -> "body"
      [] filename[c]["headers"] = NoName /\ filename[c]["body"] = NoName /\ Mode(c, "view") # "NA" -> "view"
      [] OTHER -> "none"
NextFile(c) ==
    CASE Mode(c, "view") # "NA" -> "view"
      [] Mode(c, "view") = "NA" /\ filename[c]["headers"] # NoName -> "headers"
      [] Mode(c, "view") = "NA" /\ filename[c]["headers"] = NoName /\ filename[c]["body"] # NoName -> "body"
      [] OTHER -> "none"

CleanClose(c) ==
    /\ In(c, "clean") /\ NextFile(c) # "none" /\ Mode(c, NextFile(c)) # "NA"
    /\ Fs!FClose(Handle(c, NextFile(c)))
    /\ UNCHANGED <<running, request, ajax_id, stored, refused>>

IsRefused(n) == Fs!Find(n) # 0 /\ ~Fs!Idle(file_ram_def[Fs!Find(n)])
IsServed(c, n) == \E o \in Clients \ {c} : Mode(o, "view") # "NA" /\ file[<<o, "view">>].fd = file_ram_def[Fs!Find(n)]
Refusals(c, n) == refused' = IF IsRefused(n) /\ IsServed(c, n) THEN refused \cup {n[1]} ELSE refused

\* A refused removal of the headers ends the cleanup, to be tried again at the
\* next poll; that of the body goes unnoticed.
GivesUpOn(k) == k = "headers"
CleanRemove(c) ==
    LET k == NextFile(c)
        n == filename[c][k]
    IN
    /\ In(c, "clean") /\ k \in {"headers", "body"} /\ Mode(c, k) = "NA"
    /\ Fs!FRemove(n)
    /\ Refusals(c, n)
    /\ IF IsRefused(n) /\ GivesUpOn(k)
       THEN Ends /\ UNCHANGED <<filename, stored>>
       ELSE /\ filename' = [filename EXCEPT ![c][k] = NoName]
            /\ stored' = [stored EXCEPT ![c][k] = <<>>]
            /\ UNCHANGED running
    /\ UNCHANGED <<stage, view, handler, ajax_id>>

\* The onservice handler, then the next request.
Served(c) ==
    /\ In(c, "clean") /\ NextFile(c) = "none"
    /\ IF handler[c] # NoName THEN Fs!FRemove(handler[c]) /\ Refusals(c, handler[c])
                          ELSE UNCHANGED <<ramfs, refused>>
    /\ handler' = [handler EXCEPT ![c] = NoName]
    /\ StageGoes(c, "receive")
    /\ Ends
    /\ UNCHANGED <<filename, view, ajax_id, stored>>

-----------------------------------------------------------------------------
Init == /\ Fs!Init
        /\ running = Nobody
        /\ stage = [c \in Clients |-> "receive"]
        /\ filename = [c \in Clients |-> [k \in {"headers", "body"} |-> NoName]]
        /\ view = [c \in Clients |-> NoName]
        /\ handler = [c \in Clients |-> NoName]
        /\ ajax_id = 0
        /\ stored = [c \in Clients |-> [k \in {"headers", "body"} |-> <<>>]]
        /\ refused = {}

InHandler(c) == \/ \E k \in {"headers", "body"} : Reopen(c, k)
                \/ AppWrite(c) \/ AppClose(c) \/ AppView(c) \/ AppUndo(c)
                \/ CleanClose(c) \/ CleanRemove(c) \/ Served(c)

Next == \E c \in Clients :
           \/ \E k \in {"headers", "body"} : Create(c, k) \/ Store(c, k) \/ CloseStored(c, k)
           \/ Received(c) \/ DefaultView(c) \/ AppCreate(c) \/ OpenView(c)
           \/ GiveUp(c) \/ CleanUp(c)
           \/ InHandler(c)

Spec == Init /\ [][Next]_vars

-----------------------------------------------------------------------------
(* Properties                                                              *)

\* TypeOK: what the clients know of their files.
TypeOK ==
    /\ Fs!TypeOK
    /\ running \in {Nobody} \cup (Clients \X {"headers", "body", "write", "close", "view", "undo", "clean"})
    /\ stage \in [Clients -> {"receive", "handle", "open", "serve", "clean"}]
    /\ \A c \in Clients : /\ \A k \in {"headers", "body"} : filename[c][k] \in {NoName, Path(c, k)}
                          /\ view[c] \in Names \cup {NoName} /\ handler[c] \in AppNames \cup {NoName}
    /\ ajax_id \in 0..MaxFiles /\ refused \subseteq Kinds

\* RequestIntact: from the moment it is created until its cleanup, the file of a
\* request is the one found under its name, and it holds what its client stored,
\* whatever the other clients open, create and remove.  So the reopening of a file
\* that is complete (elysian.c:157) always works.
RequestIntact ==
    \A c \in Clients, k \in {"headers", "body"} :
       filename[c][k] # NoName /\ stage[c] # "clean" =>
          /\ Fs!Find(Path(c, k)) # 0
          /\ heap[file_ram_def[Fs!Find(Path(c, k))]].cbuf = stored[c][k]
          /\ Mode(c, k) # "NA" => file[Handle(c, k)].fd = file_ram_def[Fs!Find(Path(c, k))]

\* EveryFileOwned: a file in the directory belongs to a request that will remove
\* it, to an onservice handler, or to the controller that is still building it.
\* No path through a controller or a cleanup forgets one (main.c:605-628).
EveryFileOwned ==
    \A i \in DOMAIN file_ram_def :
       LET n == heap[file_ram_def[i]].name IN
       \/ \E c \in Clients : n \in {filename[c]["headers"], filename[c]["body"], handler[c]}
       \/ running # Nobody /\ running[2] \in {"write", "close", "view", "undo"} /\ n = AppName

\* OnlySharingLoses: memory that no name leads to and nobody has open, and an
\* assertion that fails for a missing file, only come from the removal of a file
\* that another client was serving (fs.c:260, elysian.c:1409).
Lost(d) == /\ heap[d] # Fs!Freed
           /\ \A i \in DOMAIN file_ram_def : file_ram_def[i] # d
           /\ \A h \in Clients \X Kinds : file[h].fd # d
OnlySharingLoses == /\ \A d \in Defs : Lost(d) => heap[d].name[1] \in refused
                    /\ halted => "headers" \in refused
                    /\ refused # {} => Shared
==============================================================================
