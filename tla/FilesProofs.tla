----------------------------- MODULE FilesProofs -----------------------------
(***************************************************************************)
(* Theorems about the users of the RAM file system, for every number of    *)
(* clients, files and definitions.  What an operation of the file system   *)
(* does is taken from RamFsProofs and restated on the set of the listed    *)
(* definitions; each handler of the clients is then followed.  FilesInv is *)
(* inductive beside the invariant of the file system: every listed file    *)
(* has one owner, an open file is the one of its name, and what is open is *)
(* only removed by its owner, or while somebody views it.                  *)
(***************************************************************************)
EXTENDS RequestFiles, FiniteSetTheorems, TLAPS

Ram == INSTANCE RamFsProofs WITH Handles <- Clients \X Kinds, MaxRead <- 1

-----------------------------------------------------------------------------
(* The inductive invariant                                                 *)

Stored == {"headers", "body"}
Build == {"write", "close", "view", "undo"}
Stages == {"receive", "handle", "open", "serve", "clean"}
Running == {Nobody} \cup (Clients \X (Stored \cup Build \cup {"clean"}))

Dir == Ram!Listed
Bound(n) == \E d \in Dir : heap[d].name = n
OpenName(c, k) == heap[file[<<c, k>>].fd].name
Builds(r, c) == \E x \in Build : r = <<c, x>>
Building(c) == Builds(running, c)

Types ==
    /\ filename \in [Clients -> [Stored -> Names \cup {NoName}]]
    /\ \A c \in Clients, k \in Stored : filename[c][k] \in {NoName, Path(c, k)}
    /\ stage \in [Clients -> Stages]
    /\ view \in [Clients -> Names \cup {NoName}]
    /\ handler \in [Clients -> AppNames \cup {NoName}]
    /\ ajax_id \in 0..MaxFiles
    /\ running \in Running
    /\ stored \in [Clients -> [Stored -> Seq(Pieces)]]

\* Where a handler is tells what its client does; a file to be removed after the
\* response, and an open view, belong to a response.
RunInv ==
    \A c \in Clients :
       /\ \A k \in Stored : running = <<c, k>> => stage[c] = "receive" /\ filename[c][k] # NoName
       /\ Building(c) => stage[c] = "handle"
       /\ running = <<c, "clean">> => stage[c] = "clean" /\ view[c] = NoName
StageInv ==
    \A c \in Clients :
       /\ stage[c] \in {"receive", "handle"} => handler[c] = NoName /\ Mode(c, "view") = "NA"
       /\ stage[c] = "open" => view[c] # NoName

\* An open file is the one of its name; what a controller builds nobody views.
StoredOpen == \A c \in Clients, k \in Stored :
                Mode(c, k) # "NA" => filename[c][k] # NoName /\ OpenName(c, k) = Path(c, k)
AppOpen == \A c \in Clients :
             Mode(c, "app") # "NA" => /\ Building(c) /\ running # <<c, "view">>
                                      /\ OpenName(c, "app") = AppName
ViewOpen == \A c, o \in Clients :
              Mode(c, "view") # "NA" /\ Building(o) => OpenName(c, "view") # AppName
HandleInv == StoredOpen /\ AppOpen /\ ViewOpen

\* A request keeps its files until the cleanup, and then until they are removed; only
\* the headers are tried again when that is refused.
Intact(c, k) == \E d \in Dir : /\ heap[d].name = Path(c, k) /\ heap[d].cbuf = stored[c][k]
                               /\ Mode(c, k) # "NA" => file[<<c, k>>].fd = d
Keeps(c, k) ==
    /\ filename[c][k] = NoName => stored[c][k] = <<>>
    /\ filename[c][k] # NoName =>
          IF stage[c] # "clean" THEN Intact(c, k)
                                ELSE Bound(Path(c, k)) \/ (k = "headers" /\ k \in refused)
KeptInv == \A c \in Clients, k \in Stored : Keeps(c, k)

\* Every listed definition has an owner.
Claims(c, n) == handler[c] = n \/ (Building(c) /\ n = AppName)
Owner(c, n) == n \in {filename[c]["headers"], filename[c]["body"]} \/ Claims(c, n)
OwnedInv == \A n \in Names : Bound(n) => \E c \in Clients : Owner(c, n)

\* The files of the application: their names are new, and each is claimed once.
AppInv ==
    /\ \A n \in AppNames, c \in Clients :
          Claims(c, n) => Bound(n) /\ \A o \in Clients : Claims(o, n) => o = c
    /\ \A c \in Clients : Building(c) => AppName \in AppNames
    /\ \A d \in Defs : heap[d].name \in AppNames => heap[d].name[2] <= ajax_id

\* What is not listed was refused to be removed.
LossInv == /\ \A d \in Defs : heap[d].name \in Names => d \in Dir \/ heap[d].name[1] \in refused
           /\ halted => "headers" \in refused

\* Without sharing, a client only views what is its own.
Mine(c, n) == n \in {Path(c, "headers"), Path(c, "body"), handler[c]}
ShareInv ==
    ~Shared => /\ refused = {}
               /\ \A c \in Clients : /\ view[c] # NoName => Mine(c, view[c])
                                     /\ Mode(c, "view") # "NA" => Mine(c, OpenName(c, "view"))

FilesInv == Types /\ RunInv /\ StageInv /\ HandleInv /\ KeptInv /\ OwnedInv /\ AppInv /\ LossInv /\ ShareInv

-----------------------------------------------------------------------------
(* Names, and the instance of the file system                              *)

LEMMA Assumed ==
    /\ \A p \in Pieces : p \in Seq(Nat) /\ p # <<>>
    /\ Ram!IsFiniteSet(Clients \X Kinds) /\ NoDef \notin Defs /\ NoName \notin Names
<1>1. IsFiniteSet(Clients \X Kinds)
  <2>1. IsFiniteSet({}) /\ Kinds = ((({} \cup {"headers"}) \cup {"body"}) \cup {"view"}) \cup {"app"}
    BY FS_EmptySet DEF Kinds
  <2>2. \A S, x : IsFiniteSet(S) => IsFiniteSet(S \cup {x})
    BY FS_AddElement
  <2>3. IsFiniteSet(Kinds)
    BY <2>1, <2>2
  <2> QED BY <2>3, ClientsAssumption, FS_Product
<1>2. NoName \notin Names
  BY DEF NoName, Names, AppNames
<1> QED BY <1>1, <1>2, DefsAssumption, PiecesAssumption DEF Ram!IsFiniteSet, IsFiniteSet

App(k) == <<"app", k>>

LEMMA NameFacts ==
    /\ \A c \in Clients, k \in Stored :
         /\ Path(c, k) \in Names /\ Path(c, k) \notin AppNames /\ Path(c, k)[1] = k
         /\ \A o \in Clients, l \in Stored : Path(c, k) = Path(o, l) => c = o /\ k = l
    /\ \A n \in AppNames : n \in Names /\ n[1] = "app" /\ n[2] \in 1..MaxFiles /\ n = App(n[2])
    /\ \A n \in Names : n \in AppNames \/ \E c \in Clients, k \in Stored : n = Path(c, k)
    /\ NoName \notin Names
<1>1. \A c \in Clients, k \in Stored :
         /\ Path(c, k) \in Names /\ Path(c, k) \notin AppNames /\ Path(c, k)[1] = k
  BY DEF Path, Names, AppNames, Stored
<1>2. \A c, o \in Clients, k, l \in Stored : Path(c, k) = Path(o, l) => c = o /\ k = l
  BY DEF Path
<1>3. \A n \in AppNames : n \in Names /\ n[1] = "app" /\ n[2] \in 1..MaxFiles /\ n = App(n[2])
  BY DEF AppNames, Names, App
<1>4. \A n \in Names : n \in AppNames \/ \E c \in Clients, k \in Stored : n = Path(c, k)
  BY DEF Path, Names, Stored
<1> QED BY <1>1, <1>2, <1>3, <1>4, Assumed

LEMMA AppFacts ==
    ASSUME NEW j \in 1..MaxFiles, NEW k \in 1..MaxFiles
    PROVE  /\ App(j) \in AppNames /\ App(j)[2] = j /\ (App(j) = App(k) => j = k)
  BY DEF App, AppNames

\* What is running is one handler of one client.
LEMMA RunningFacts ==
    /\ \A c, o, x, y : <<c, x>> = <<o, y>> <=> c = o /\ x = y
    /\ \A c, x : <<c, x>> # Nobody /\ <<c, x>>[1] = c /\ <<c, x>>[2] = x
    /\ \A x \in Stored : x \notin Build /\ x # "clean"
    /\ \A x \in Build : x # "clean"
<1>1. \A c, o, x, y : <<c, x>> = <<o, y>> <=> c = o /\ x = y
  OBVIOUS
<1>2. \A c, x : <<c, x>> # Nobody /\ <<c, x>>[1] = c /\ <<c, x>>[2] = x
  BY DEF Nobody
<1> QED BY <1>1, <1>2 DEF Stored, Build

LEMMA HandleFacts ==
    ASSUME NEW c \in Clients
    PROVE  /\ <<c, "view">> \in Clients \X Kinds /\ <<c, "app">> \in Clients \X Kinds
           /\ \A k \in Stored : <<c, k>> \in Clients \X Kinds
  BY DEF Kinds, Stored

LEMMA Find == \A n : Fs!Find(n) = Ram!Find(n)
  BY DEF Fs!Find, Ram!Find, Fs!At, Ram!At

LEMMA Operations ==
    ASSUME NEW h, NEW n, NEW p, NEW d
    PROVE  /\ Fs!OpenRead(h, n) <=> Ram!OpenRead(h, n)
           /\ Fs!OpenWriteAt(h, n, d) <=> Ram!OpenWriteAt(h, n, d)
           /\ Fs!OpenWriteFails(h, n) <=> Ram!OpenWriteFails(h, n)
           /\ Fs!FWrite(h, p) <=> Ram!FWrite(h, p)
           /\ Fs!FClose(h) <=> Ram!FClose(h)
           /\ Fs!FRemove(n) <=> Ram!FRemove(n)
<1>1. \A i : Fs!Free(i) = Ram!Free(i) /\ Fs!Unlinked(i) = Ram!Unlinked(i)
  BY DEF Fs!Free, Ram!Free, Fs!Unlinked, Ram!Unlinked, Fs!Freed, Ram!Freed, Fs!RemoveAt, Ram!RemoveAt
<1>2. \A i : Fs!Idle(i) = Ram!Idle(i) /\ Fs!Replaceable(i) = Ram!Replaceable(i)
  BY DEF Fs!Idle, Ram!Idle, Fs!Replaceable, Ram!Replaceable
<1>3. Fs!Closed = Ram!Closed /\ Fs!Freed = Ram!Freed
  BY DEF Fs!Closed, Ram!Closed, Fs!Freed, Ram!Freed
<1>4. Fs!OpenRead(h, n) <=> Ram!OpenRead(h, n)
  BY Find DEF Fs!OpenRead, Ram!OpenRead, Fs!Readable, Ram!Readable
<1>5. Fs!OpenWriteAt(h, n, d) <=> Ram!OpenWriteAt(h, n, d)
  BY <1>1, <1>2, <1>3, Find DEF Fs!OpenWriteAt, Ram!OpenWriteAt
<1>6. Fs!OpenWriteFails(h, n) <=> Ram!OpenWriteFails(h, n)
  BY <1>1, <1>2, Find DEF Fs!OpenWriteFails, Ram!OpenWriteFails
<1>7. Fs!FWrite(h, p) <=> Ram!FWrite(h, p)
  BY DEF Fs!FWrite, Ram!FWrite
<1>8. Fs!FClose(h) <=> Ram!FClose(h)
  BY <1>3 DEF Fs!FClose, Ram!FClose, Fs!CloseCounted, Ram!CloseCounted
<1>9. Fs!FRemove(n) <=> Ram!FRemove(n)
  BY <1>1, <1>2, Find DEF Fs!FRemove, Ram!FRemove
<1> QED BY <1>4, <1>5, <1>6, <1>7, <1>8, <1>9

-----------------------------------------------------------------------------
(* What the operations of the file system do to the listed definitions     *)

Handles == Clients \X Kinds
Unopened(d) == \A g \in Handles : file[g].mode # "NA" => file[g].fd # d

NamesStay == Dir' = Dir /\ \A e \in Defs : heap'[e].name = heap[e].name
BytesStay == \A e \in Defs : heap'[e].cbuf = heap[e].cbuf
OthersStay(h) == \A g \in Handles : g # h => file'[g] = file[g]
\* The definition called n is gone, or its name leads to it no more.
Drops(n) == \A e \in Defs : \/ heap'[e] = heap[e]
                            \/ e \in Dir /\ heap[e].name = n /\ heap'[e].name = NoName /\ Unopened(e)

LEMMA DirFacts ==
    ASSUME Ram!IInv
    PROVE  /\ Dir \subseteq Defs /\ \A d \in Dir : heap[d].name \in Names
           /\ \A d, e \in Dir : heap[d].name = heap[e].name => d = e
           /\ \A d \in Defs : heap[d].name \in Names \/ heap[d] = Fs!Freed
           /\ \A g \in Handles : file[g].mode # "NA" => /\ file[g].fd \in Defs
                                                        /\ heap[file[g].fd].name \in Names
           /\ Fs!Freed.name = NoName
<1>1. Dir \subseteq Defs
  BY DEF Dir, Ram!Listed, Ram!In, Ram!IInv, Ram!TypeInv
<1>2. /\ \A d \in Dir : heap[d].name \in Names
      /\ \A d, e \in Dir : heap[d].name = heap[e].name => d = e
      /\ \A d \in Defs : heap[d].name \in Names \/ heap[d] = Fs!Freed
  BY DEF Dir, Ram!IInv, Ram!NamesUnique, Ram!Named, Ram!Freed, Fs!Freed
<1>3. \A g \in Handles : file[g].mode # "NA" => /\ file[g].fd \in Defs
                                                /\ heap[file[g].fd].name \in Names
  BY Assumed, Ram!OpenNamed DEF Handles
<1> QED BY <1>1, <1>2, <1>3 DEF Fs!Freed

LEMMA FileFacts == Ram!IInv => DOMAIN file = Handles
  BY DEF Ram!IInv, Ram!TypeInv, Handles

LEMMA OpensToRead ==
    ASSUME Ram!IInv, NEW h \in Handles, NEW n \in Names, Fs!OpenRead(h, n)
    PROVE  /\ NamesStay /\ BytesStay /\ halted' = halted /\ OthersStay(h) /\ file[h].mode = "NA"
           /\ \E d \in Dir : heap[d].name = n /\ file'[h].mode = "READ" /\ file'[h].fd = d
<1>1. Ram!OpenRead(h, n) /\ file[h].mode = "NA"
  BY Operations DEF Fs!OpenRead
<1>2. /\ ~Ram!Renamed /\ halted' = halted /\ BytesStay
      /\ \E d \in Dir : /\ heap[d].name = n
                        /\ file' = [file EXCEPT ![h] = [mode |-> "READ", fd |-> d, pos |-> 0]]
  BY <1>1, Assumed, Ram!OpenReadDoes DEF Dir, BytesStay, Handles
<1>3. NamesStay
  BY <1>2 DEF Ram!Renamed, NamesStay, Dir
<1> QED BY <1>1, <1>2, <1>3, FileFacts DEF OthersStay

LEMMA Closes ==
    ASSUME Ram!IInv, NEW h \in Handles, Fs!FClose(h)
    PROVE  /\ NamesStay /\ BytesStay /\ halted' = halted /\ OthersStay(h)
           /\ file[h].mode # "NA" /\ file'[h].mode = "NA"
<1>1. Ram!FClose(h) /\ file[h].mode # "NA"
  BY Operations DEF Fs!FClose
<1>2. ~Ram!Renamed /\ halted' = halted /\ BytesStay /\ file' = [file EXCEPT ![h] = Ram!Closed]
  BY <1>1, Assumed, Ram!FCloseDoes DEF BytesStay, Handles
<1>3. NamesStay
  BY <1>2 DEF Ram!Renamed, NamesStay, Dir
<1> QED BY <1>1, <1>2, <1>3, FileFacts DEF Ram!Closed, OthersStay

LEMMA Writes ==
    ASSUME Ram!IInv, NEW h \in Handles, NEW p \in Pieces, Fs!FWrite(h, p)
    PROVE  /\ NamesStay /\ halted' = halted /\ file' = file
           /\ file[h].mode = "WRITE" /\ file[h].fd \in Defs
           /\ heap'[file[h].fd].cbuf = Append(heap[file[h].fd].cbuf, p)
           /\ \A e \in Defs : e # file[h].fd => heap'[e].cbuf = heap[e].cbuf
<1>1. Ram!FWrite(h, p) /\ file[h].mode = "WRITE"
  BY Operations DEF Fs!FWrite
<1>2. /\ ~Ram!Renamed /\ halted' = halted /\ file' = file /\ file[h].fd \in Defs
      /\ heap'[file[h].fd].cbuf = Append(heap[file[h].fd].cbuf, p)
      /\ \A e \in Defs : e # file[h].fd => heap'[e].cbuf = heap[e].cbuf
  BY <1>1, Assumed, Ram!FWriteDoes DEF Handles
<1>3. NamesStay
  BY <1>2 DEF Ram!Renamed, NamesStay, Dir
<1> QED BY <1>1, <1>2, <1>3

LEMMA RemovedDrops ==
    ASSUME NEW n, NEW e, heap'[e] = heap[e] \/ Ram!Removed(n, e)
    PROVE  \/ heap'[e] = heap[e]
           \/ e \in Dir /\ heap[e].name = n /\ heap'[e].name = NoName /\ Unopened(e)
  BY DEF Ram!Removed, Ram!Freed, Ram!Unopened, Unopened, Handles, Dir

LEMMA OpensToWrite ==
    ASSUME Ram!IInv, NEW h \in Handles, NEW n \in Names, OpenWrite(h, n)
    PROVE  \E d \in Defs :
             /\ heap[d].name = NoName /\ d \notin Dir
             /\ Dir' = {d} \cup {e \in Dir : heap[e].name # n} /\ halted' = halted
             /\ heap'[d].name = n /\ heap'[d].cbuf = <<>>
             /\ \A e \in Defs \ {d} :
                   \/ heap'[e] = heap[e]
                   \/ e \in Dir /\ heap[e].name = n /\ heap'[e].name = NoName /\ Unopened(e)
             /\ OthersStay(h) /\ file'[h].mode = "WRITE" /\ file'[h].fd = d /\ file[h].mode = "NA"
<1>1. PICK d \in Defs : FirstFree(d) /\ Ram!OpenWriteAt(h, n, d)
  BY Operations DEF OpenWrite
<1>2. heap[d].name = NoName /\ d \notin Dir
  BY <1>1, DirFacts, NameFacts DEF FirstFree
<1>3. /\ Dir' = {d} \cup {e \in Dir : heap[e].name # n} /\ halted' = halted
      /\ heap'[d].name = n /\ heap'[d].cbuf = <<>>
      /\ \A e \in Defs \ {d} : heap'[e] = heap[e] \/ Ram!Removed(n, e)
      /\ file' = [file EXCEPT ![h] = [mode |-> "WRITE", fd |-> d, pos |-> 0]]
      /\ file[h].mode = "NA"
  BY <1>1, Assumed, Ram!OpenWriteDoes DEF Dir, Handles
<1>4. OthersStay(h) /\ file'[h].mode = "WRITE" /\ file'[h].fd = d
  BY <1>3, FileFacts DEF OthersStay
<1>5. \A e \in Defs \ {d} :
        \/ heap'[e] = heap[e]
        \/ e \in Dir /\ heap[e].name = n /\ heap'[e].name = NoName /\ Unopened(e)
  BY <1>3, RemovedDrops
<1> QED BY <1>2, <1>3, <1>4, <1>5

LEMMA WriteFails ==
    ASSUME Ram!IInv, NEW h \in Handles, NEW n \in Names, Fs!OpenWriteFails(h, n)
    PROVE  /\ Dir' = {e \in Dir : heap[e].name # n} /\ halted' = halted /\ file' = file
           /\ Drops(n)
<1>1. Ram!OpenWriteFails(h, n)
  BY Operations
<1>2. /\ Dir' = {e \in Dir : heap[e].name # n} /\ halted' = halted /\ file' = file
      /\ \A e \in Defs : heap'[e] = heap[e] \/ Ram!Removed(n, e)
  BY <1>1, Assumed, Ram!OpenWriteFailsDoes DEF Dir, Handles
<1> QED BY <1>2, RemovedDrops DEF Drops

LEMMA Removes ==
    ASSUME Ram!IInv, NEW n \in Names, Fs!FRemove(n)
    PROVE  /\ Dir' = {e \in Dir : heap[e].name # n} /\ file' = file /\ Drops(n)
           /\ halted' => ~Bound(n)
           /\ \A e \in Dir : heap[e].name = n => heap'[e].name = NoName \/ ~Unopened(e)
<1>1. Ram!FRemove(n)
  BY Operations
<1>2. /\ Dir' = {e \in Dir : heap[e].name # n} /\ file' = file
      /\ halted' => \A e \in Dir : heap[e].name # n
      /\ \A e \in Defs : heap'[e] = heap[e] \/ Ram!Removed(n, e)
      /\ \A e \in Dir : heap[e].name = n => Ram!Removed(n, e) \/ ~Ram!Unopened(e)
  BY <1>1, Assumed, Ram!FRemoveDoes DEF Dir
<1>3. \A e : Ram!Removed(n, e) => heap'[e].name = NoName
  BY DEF Ram!Removed, Ram!Freed
<1>4. \A e : Ram!Unopened(e) = Unopened(e)
  BY DEF Ram!Unopened, Unopened, Handles
<1> QED BY <1>2, <1>3, <1>4, RemovedDrops DEF Drops, Bound

\* A removal is refused when somebody has the file open.
LEMMA RefusedFacts ==
    ASSUME Ram!IInv, NEW n \in Names
    PROVE  /\ Bound(n) <=> Fs!Find(n) # 0
           /\ Fs!Find(n) # 0 => /\ file_ram_def[Fs!Find(n)] \in Dir
                                /\ heap[file_ram_def[Fs!Find(n)]].name = n
           /\ IsRefused(n) <=> \E d \in Dir : heap[d].name = n /\ ~Unopened(d)
           /\ \A c : IsServed(c, n) /\ IsRefused(n) <=>
                \E d \in Dir : /\ heap[d].name = n /\ ~Unopened(d)
                               /\ \E o \in Clients \ {c} : Mode(o, "view") # "NA" /\ file[<<o, "view">>].fd = d
<1> DEFINE i == Fs!Find(n)
<1>1. i # 0 => file_ram_def[i] \in Dir /\ file_ram_def[i] \in Defs /\ heap[file_ram_def[i]].name = n
  BY Assumed, Find, Ram!FindFacts DEF Ram!IInv, Dir
<1>2. i = 0 => \A d \in Dir : heap[d].name # n
  BY Assumed, Find, Ram!FindFacts DEF Ram!IInv, Dir
<1>3. i # 0 => (Fs!Idle(file_ram_def[i]) <=> Unopened(file_ram_def[i]))
  <2>1. \A d : Fs!Idle(d) = Ram!Idle(d) /\ Unopened(d) = Ram!Unopened(d)
    BY DEF Fs!Idle, Ram!Idle, Unopened, Ram!Unopened, Handles
  <2>2. \A d \in Defs : Ram!Idle(d) <=> Ram!Unopened(d)
    BY Assumed, Ram!IdleUnopened
  <2> QED BY <1>1, <2>1, <2>2
<1> HIDE DEF i
<1>4. IsRefused(n) <=> i # 0 /\ ~Fs!Idle(file_ram_def[i])
  BY DEF IsRefused, i
<1>5. \A d \in Dir : heap[d].name = n => i # 0 /\ d = file_ram_def[i]
  BY <1>1, <1>2, DirFacts
<1>6. IsRefused(n) <=> \E d \in Dir : heap[d].name = n /\ ~Unopened(d)
  BY <1>1, <1>3, <1>4, <1>5
<1>7. \A c : IsServed(c, n) <=>
        \E o \in Clients \ {c} : Mode(o, "view") # "NA" /\ file[<<o, "view">>].fd = file_ram_def[i]
  BY DEF IsServed, i
<1>8. \A c : IsServed(c, n) /\ IsRefused(n) <=>
        \E d \in Dir : /\ heap[d].name = n /\ ~Unopened(d)
                       /\ \E o \in Clients \ {c} : Mode(o, "view") # "NA" /\ file[<<o, "view">>].fd = d
  BY <1>1, <1>3, <1>4, <1>5, <1>7
<1> QED BY <1>1, <1>2, <1>6, <1>8 DEF Bound, i

-----------------------------------------------------------------------------
(* What a step leaves alone                                                *)

LEMMA BuildingFacts ==
    \A r : /\ r = Nobody => \A o : ~Builds(r, o)
           /\ \A c, x : r = <<c, x>> => \A o : Builds(r, o) <=> o = c /\ x \in Build
  BY RunningFacts DEF Builds

\* Of the files of those kinds, none is opened.
Stays(c, k) == file'[<<c, k>>] = file[<<c, k>>] \/ file'[<<c, k>>].mode = "NA"
ClosesOnly(K) == \A c \in Clients, k \in K : Stays(c, k)

\* Who has a file open has it under the name it had.
OpenStay == \A g \in Handles : file[g].mode # "NA" => heap'[file[g].fd].name = heap[file[g].fd].name
\* The listed definitions but that of name n stay what they are; no other is listed.
RestStays(n) == \A d \in Dir : heap[d].name # n => /\ d \in Dir' /\ heap'[d].name = heap[d].name
                                                   /\ heap'[d].cbuf = heap[d].cbuf
NothingNew(n) == /\ \A d \in Dir' : d \in Dir /\ heap'[d].name = heap[d].name /\ heap[d].name # n
                 /\ \A d \in Defs : heap'[d].name \in Names => heap'[d].name = heap[d].name
BoundStays(n) == \A m : m # n /\ Bound(m) => Bound(m)'

LEMMA NothingRenamed ==
    ASSUME Ram!IInv, NamesStay
    PROVE  OpenStay /\ NothingNew(NoName) /\ BoundStays(NoName) /\ (BytesStay => RestStays(NoName))
<1>1. OpenStay
  BY DirFacts DEF OpenStay, NamesStay
<1>2. NothingNew(NoName)
  BY DirFacts, NameFacts DEF NothingNew, NamesStay
<1>3. BoundStays(NoName)
  BY DirFacts DEF BoundStays, Bound, NamesStay
<1>4. BytesStay => RestStays(NoName)
  BY DirFacts DEF RestStays, NamesStay, BytesStay
<1> QED BY <1>1, <1>2, <1>3, <1>4

LEMMA RestBound ==
    ASSUME NEW n, RestStays(n)
    PROVE  BoundStays(n)
  BY DEF RestStays, BoundStays, Bound

LEMMA OthersKept ==
    ASSUME Ram!IInv, NEW n \in Names, Dir' = {e \in Dir : heap[e].name # n}, Drops(n)
    PROVE  OpenStay /\ NothingNew(n) /\ RestStays(n) /\ BoundStays(n)
<1>1. OpenStay
  BY DirFacts DEF OpenStay, Drops, Unopened
<1>2. NothingNew(n)
  BY DirFacts, NameFacts DEF NothingNew, Drops
<1>3. RestStays(n)
  BY DirFacts DEF RestStays, Drops
<1> QED BY <1>1, <1>2, <1>3, RestBound

LEMMA OwnersStay ==
    ASSUME Ram!IInv, OwnedInv, NEW n, NothingNew(n),
           \A c \in Clients, m \in Names \ {n} : Owner(c, m) => \E o \in Clients : Owner(o, m)'
    PROVE  OwnedInv'
<1> SUFFICES ASSUME NEW m \in Names, Bound(m)'
             PROVE  \E o \in Clients : Owner(o, m)'
  BY DEF OwnedInv, Names, AppNames
<1>1. Bound(m) /\ m # n
  BY DEF Bound, NothingNew
<1> QED BY <1>1 DEF OwnedInv

LEMMA AppsStay ==
    ASSUME Ram!IInv, AppInv, NEW n, BoundStays(n), UNCHANGED ajax_id,
           \A d \in Defs : heap'[d].name \in AppNames => heap'[d].name = heap[d].name,
           \A c \in Clients, m \in AppNames : Claims(c, m)' => Claims(c, m) /\ m # n,
           \A c \in Clients : Building(c)' => Building(c)
    PROVE  AppInv'
<1>1. \A m \in AppNames, c \in Clients :
         Claims(c, m)' => Bound(m)' /\ \A o \in Clients : Claims(o, m)' => o = c
  BY DEF AppInv, BoundStays
<1>2. \A c \in Clients : Building(c)' => AppName' \in AppNames
  BY DEF AppInv, AppName
<1>3. \A d \in Defs : heap'[d].name \in AppNames => heap'[d].name[2] <= ajax_id'
  BY NameFacts DEF AppInv
<1> QED BY <1>1, <1>2, <1>3 DEF AppInv, AppNames

LEMMA LossesStay ==
    ASSUME Ram!IInv, LossInv, NamesStay, UNCHANGED <<refused, halted>>
    PROVE  LossInv'
  BY DEF NamesStay, LossInv

LEMMA OpenNameStays ==
    ASSUME Ram!IInv, OpenStay, NEW c \in Clients, NEW k \in Kinds, Stays(c, k), Mode(c, k)' # "NA"
    PROVE  file'[<<c, k>>] = file[<<c, k>>] /\ Mode(c, k) # "NA" /\ OpenName(c, k)' = OpenName(c, k)
<1>1. <<c, k>> \in Handles /\ file'[<<c, k>>] = file[<<c, k>>]
  BY DEF Mode, Stays, Handles
<1> QED BY <1>1 DEF Mode, OpenName, OpenStay

LEMMA StoredOpenStays ==
    ASSUME Ram!IInv, StoredOpen, OpenStay, NEW c \in Clients, NEW k \in Stored, Stays(c, k),
           Mode(c, k)' # "NA"
    PROVE  filename[c][k] # NoName /\ OpenName(c, k)' = Path(c, k)
<1>1. Mode(c, k) # "NA" /\ OpenName(c, k)' = OpenName(c, k)
  BY OpenNameStays DEF Stored, Kinds
<1> QED BY <1>1 DEF StoredOpen

LEMMA AppOpenStays ==
    ASSUME Ram!IInv, AppOpen, OpenStay, ClosesOnly({"app"}), UNCHANGED ajax_id,
           \A c \in Clients : Mode(c, "app")' # "NA" => Building(c)' /\ running' # <<c, "view">>
    PROVE  AppOpen'
<1> SUFFICES ASSUME NEW c \in Clients, Mode(c, "app")' # "NA"
             PROVE  OpenName(c, "app")' = AppName'
  BY DEF AppOpen
<1>1. Mode(c, "app") # "NA" /\ OpenName(c, "app")' = OpenName(c, "app")
  BY OpenNameStays DEF Kinds, ClosesOnly
<1> QED BY <1>1 DEF AppOpen, AppName

LEMMA ViewOpenStays ==
    ASSUME Ram!IInv, ViewOpen, OpenStay, ClosesOnly({"view"}), UNCHANGED ajax_id,
           \A c \in Clients : Building(c)' => Building(c)
    PROVE  ViewOpen'
<1> SUFFICES ASSUME NEW c \in Clients, Mode(c, "view")' # "NA", NEW o \in Clients, Building(o)'
             PROVE  OpenName(c, "view")' # AppName'
  BY DEF ViewOpen
<1>1. Mode(c, "view") # "NA" /\ OpenName(c, "view")' = OpenName(c, "view")
  BY OpenNameStays DEF Kinds, ClosesOnly
<1> QED BY <1>1 DEF ViewOpen, AppName

SameNames(c, k) == filename'[c][k] = filename[c][k] /\ stored'[c][k] = stored[c][k]

LEMMA IntactStays ==
    ASSUME Ram!IInv, NEW n, RestStays(n), OpenStay,
           NEW c \in Clients, NEW k \in Stored, Stays(c, k), Path(c, k) # n,
           stored'[c][k] = stored[c][k], Intact(c, k)
    PROVE  Intact(c, k)'
<1>1. PICK d \in Dir : /\ heap[d].name = Path(c, k) /\ heap[d].cbuf = stored[c][k]
                       /\ Mode(c, k) # "NA" => file[<<c, k>>].fd = d
  BY DEF Intact
<1>2. d \in Dir' /\ heap'[d].name = Path(c, k) /\ heap'[d].cbuf = stored'[c][k]
  BY <1>1 DEF RestStays
<1>3. Mode(c, k)' # "NA" => file'[<<c, k>>].fd = d
  BY <1>1, OpenNameStays DEF Stored, Kinds
<1> QED BY <1>2, <1>3 DEF Intact, Path

LEMMA KeepsStays ==
    ASSUME Ram!IInv, NEW n, RestStays(n), OpenStay, refused \subseteq refused',
           NEW c \in Clients, NEW k \in Stored, Stays(c, k), Path(c, k) # n, SameNames(c, k),
           Keeps(c, k), (stage[c] = "clean" => stage'[c] = "clean") \/ filename[c][k] = NoName
    PROVE  Keeps(c, k)'
<1>1. filename'[c][k] = NoName => stored'[c][k] = <<>>
  BY DEF Keeps, SameNames
<1> SUFFICES ASSUME filename[c][k] # NoName
             PROVE  IF stage'[c] # "clean" THEN Intact(c, k)'
                    ELSE Bound(Path(c, k))' \/ (k = "headers" /\ k \in refused')
  BY <1>1 DEF Keeps, SameNames, Path
<1>2. CASE stage'[c] # "clean"
  BY <1>2, IntactStays DEF Keeps, SameNames
<1>3. CASE stage'[c] = "clean"
  <2>1. Bound(Path(c, k)) \/ (k = "headers" /\ k \in refused)
    BY DEF Keeps, Intact, Bound
  <2> QED BY <1>3, <2>1, RestBound DEF BoundStays
<1> QED BY <1>2, <1>3

LEMMA KeptStays ==
    ASSUME Ram!IInv, KeptInv, NEW n, RestStays(n), \A c \in Clients, k \in Stored : Path(c, k) # n,
           OpenStay, ClosesOnly(Stored), UNCHANGED <<filename, stored, refused>>,
           \A c \in Clients : \/ stage[c] = "clean" => stage'[c] = "clean"
                              \/ \A k \in Stored : filename[c][k] = NoName
    PROVE  KeptInv'
<1> SUFFICES ASSUME NEW c \in Clients, NEW k \in Stored PROVE Keeps(c, k)'
  BY DEF KeptInv
<1>1. Keeps(c, k) /\ SameNames(c, k) /\ Stays(c, k)
  BY DEF KeptInv, SameNames, ClosesOnly
<1> QED BY <1>1, KeepsStays

LEMMA SharesStay ==
    ASSUME Ram!IInv, ShareInv, OpenStay, ClosesOnly({"view"}), UNCHANGED <<refused, view, handler>>
    PROVE  ShareInv'
<1> SUFFICES ASSUME ~Shared, NEW c \in Clients
             PROVE  /\ refused' = {}
                    /\ view'[c] # NoName => Mine(c, view'[c])
                    /\ Mode(c, "view")' # "NA" => Mine(c, OpenName(c, "view")')
  BY DEF ShareInv, Mine, Path
<1>1. Mode(c, "view")' # "NA" => Mine(c, OpenName(c, "view")')
  BY OpenNameStays DEF ShareInv, Kinds, ClosesOnly
<1> QED BY <1>1 DEF ShareInv

NoneOpened == ClosesOnly(Stored) /\ ClosesOnly({"app"}) /\ ClosesOnly({"view"})

LEMMA RamfsStays ==
    ASSUME UNCHANGED ramfs
    PROVE  NamesStay /\ BytesStay /\ NoneOpened /\ halted' = halted
<1>1. heap' = heap /\ file_ram_def' = file_ram_def /\ file' = file /\ halted' = halted
  BY DEF ramfs
<1> QED BY <1>1 DEF NamesStay, BytesStay, NoneOpened, ClosesOnly, Stays, Dir, Ram!Listed, Ram!In

LEMMA ClosingStays ==
    ASSUME Ram!IInv, NEW c \in Clients, NEW k \in Kinds, Fs!FClose(Handle(c, k))
    PROVE  /\ NamesStay /\ BytesStay /\ NoneOpened /\ halted' = halted
           /\ Mode(c, k) # "NA" /\ Mode(c, k)' = "NA"
<1>1. Handle(c, k) \in Handles /\ Handle(c, k) = <<c, k>>
  BY DEF Handle, Handles
<1>2. \A o \in Clients, l \in Kinds : file'[<<o, l>>] = file[<<o, l>>] \/ file'[<<o, l>>].mode = "NA"
  BY <1>1, Closes DEF OthersStay, Handles
<1>3. NoneOpened
  BY <1>2 DEF NoneOpened, ClosesOnly, Stays, Kinds, Stored
<1> QED BY <1>1, <1>3, Closes DEF Mode

\* The views that are open were open.
LEMMA ViewsClose ==
    ASSUME ClosesOnly({"view"})
    PROVE  \A c \in Clients : Mode(c, "view")' # "NA" => Mode(c, "view") # "NA"
  BY DEF ClosesOnly, Stays, Mode

\* A step that renames nothing, and takes no file from its owner.
LEMMA Calm ==
    ASSUME Ram!IInv, FilesInv, NamesStay, ClosesOnly(Stored), ClosesOnly({"app"}), halted' = halted,
           UNCHANGED <<filename, ajax_id, refused>>,
           \A c \in Clients, m \in Names : Claims(c, m)' <=> Claims(c, m),
           \A c \in Clients : Building(c)' => Building(c),
           \A c \in Clients : Mode(c, "app")' # "NA" => Building(c)' /\ running' # <<c, "view">>
    PROVE  /\ OpenStay /\ StoredOpen' /\ AppOpen' /\ OwnedInv' /\ AppInv' /\ LossInv'
           /\ ClosesOnly({"view"}) => ViewOpen'
<1> USE DEF FilesInv, HandleInv
<1>1. OpenStay /\ NothingNew(NoName) /\ BoundStays(NoName)
  BY NothingRenamed
<1>2. StoredOpen'
  <2> SUFFICES ASSUME NEW c \in Clients, NEW k \in Stored, Mode(c, k)' # "NA"
               PROVE  filename'[c][k] # NoName /\ OpenName(c, k)' = Path(c, k)
    BY DEF StoredOpen, Path
  <2> QED BY <1>1, StoredOpenStays DEF ClosesOnly
<1>3. AppOpen' /\ (ClosesOnly({"view"}) => ViewOpen') /\ LossInv'
  BY <1>1, AppOpenStays, ViewOpenStays, LossesStay
<1>4. OwnedInv'
  <2>1. \A c \in Clients, m \in Names : Owner(c, m) => Owner(c, m)'
    BY DEF Owner
  <2> QED BY <1>1, <2>1, OwnersStay
<1>5. AppInv'
  <2>1. \A c \in Clients, m \in AppNames : Claims(c, m)' => Claims(c, m) /\ m # NoName
    BY NameFacts
  <2>2. \A d \in Defs : heap'[d].name \in AppNames => heap'[d].name = heap[d].name
    BY <1>1, NameFacts DEF NothingNew
  <2> QED BY <1>1, <2>1, <2>2, AppsStay
<1> QED BY <1>1, <1>2, <1>3, <1>4, <1>5

\* A step that opens and stores nothing either.
LEMMA Quiet ==
    ASSUME Ram!IInv, FilesInv, NamesStay, BytesStay, NoneOpened, halted' = halted,
           UNCHANGED <<filename, handler, ajax_id, stored, refused>>,
           \A c \in Clients : Building(c)' <=> Building(c),
           \A c \in Clients : running' = <<c, "view">> => running = running' \/ Mode(c, "app")' = "NA",
           \A c \in Clients : \/ stage[c] = "clean" => stage'[c] = "clean"
                              \/ \A k \in Stored : filename[c][k] = NoName
    PROVE  HandleInv' /\ KeptInv' /\ OwnedInv' /\ AppInv' /\ LossInv' /\ (view' = view => ShareInv')
<1> USE DEF NoneOpened
<1>1. OpenStay /\ RestStays(NoName)
  BY NothingRenamed
<1>2. \A c \in Clients : Mode(c, "app")' # "NA" => Building(c)' /\ running' # <<c, "view">>
  BY <1>1, OpenNameStays DEF FilesInv, HandleInv, AppOpen, Kinds, ClosesOnly
<1>3. \A c \in Clients, m \in Names : Claims(c, m)' <=> Claims(c, m)
  BY DEF Claims, AppName
<1>4. /\ StoredOpen' /\ AppOpen' /\ OwnedInv' /\ AppInv' /\ LossInv' /\ ViewOpen'
  BY <1>2, <1>3, Calm
<1>5. KeptInv'
  BY <1>1, NameFacts, KeptStays DEF FilesInv
<1> QED BY <1>1, <1>4, <1>5, SharesStay DEF FilesInv, HandleInv

-----------------------------------------------------------------------------
(* The steps that leave the directory as it is                             *)

LEMMA NobodyRuns ==
    ASSUME running' = Nobody
    PROVE  RunInv' /\ \A c \in Clients : ~Building(c)' /\ \A x : running' # <<c, x>>
<1>1. \A c \in Clients : ~Building(c)' /\ \A x : running' # <<c, x>>
  BY BuildingFacts, RunningFacts DEF Building
<1> QED BY <1>1 DEF RunInv

LEMMA ReceivedKeeps ==
    ASSUME Ram!IInv, FilesInv, NEW c \in Clients, Received(c)
    PROVE  FilesInv'
<1>1. /\ running = Nobody /\ running' = Nobody /\ stage[c] = "receive"
      /\ stage' = [stage EXCEPT ![c] = "handle"]
      /\ UNCHANGED ramfs /\ UNCHANGED <<filename, view, handler, ajax_id, stored, refused>>
  BY DEF Received, Visit, StageGoes
<1>2. NamesStay /\ BytesStay /\ NoneOpened /\ halted' = halted
  BY <1>1, RamfsStays
<1>3. Types'
  BY <1>1 DEF FilesInv, Types, Stages, Path
<1>4. \A o \in Clients : stage'[o] = IF o = c THEN "handle" ELSE stage[o]
  BY <1>1 DEF FilesInv, Types
<1>5. /\ RunInv' /\ \A o \in Clients : ~Building(o)' /\ ~Building(o) /\ running' # <<o, "view">>
  BY <1>1, NobodyRuns, BuildingFacts DEF Building
<1>6. StageInv'
  BY <1>1, <1>2, <1>4, ViewsClose DEF FilesInv, StageInv, NoneOpened
<1> QED BY <1>1, <1>2, <1>3, <1>4, <1>5, <1>6, Quiet DEF FilesInv

LEMMA DefaultViewKeeps ==
    ASSUME Ram!IInv, FilesInv, NEW c \in Clients, DefaultView(c)
    PROVE  FilesInv'
<1>1. /\ running = Nobody /\ running' = Nobody /\ stage[c] = "handle"
      /\ stage' = [stage EXCEPT ![c] = "open"]
      /\ UNCHANGED ramfs /\ UNCHANGED <<filename, handler, ajax_id, stored, refused>>
  BY DEF DefaultView, Visit, StageGoes
<1>2. PICK n \in Names : /\ ~Shared => n \in {Path(c, "headers"), Path(c, "body")}
                         /\ view' = [view EXCEPT ![c] = n]
  BY DEF DefaultView
<1>3. NamesStay /\ BytesStay /\ NoneOpened /\ halted' = halted
  BY <1>1, RamfsStays
<1>4. Types'
  BY <1>1, <1>2 DEF FilesInv, Types, Stages, Path
<1>5. \A o \in Clients : /\ stage'[o] = IF o = c THEN "open" ELSE stage[o]
                         /\ view'[o] = IF o = c THEN n ELSE view[o]
  BY <1>1, <1>2 DEF FilesInv, Types
<1>6. /\ RunInv' /\ \A o \in Clients : ~Building(o)' /\ ~Building(o) /\ running' # <<o, "view">>
  BY <1>1, NobodyRuns, BuildingFacts DEF Building
<1>7. file' = file /\ heap' = heap
  BY <1>1 DEF ramfs
<1>8. StageInv'
  BY <1>1, <1>3, <1>5, NameFacts, ViewsClose DEF FilesInv, StageInv, NoneOpened
<1>9. ShareInv'
  <2> SUFFICES ASSUME ~Shared, NEW o \in Clients
               PROVE  /\ refused' = {}
                      /\ view'[o] # NoName => Mine(o, view'[o])
                      /\ Mode(o, "view") # "NA" => Mine(o, OpenName(o, "view"))
    BY <1>1, <1>7 DEF ShareInv, Mine, Path, Mode, OpenName
  <2> QED BY <1>1, <1>2, <1>5 DEF FilesInv, ShareInv, Mine
<1> QED BY <1>1, <1>3, <1>4, <1>5, <1>6, <1>8, <1>9, Quiet DEF FilesInv

LEMMA GiveUpKeeps ==
    ASSUME Ram!IInv, FilesInv, NEW c \in Clients, GiveUp(c)
    PROVE  FilesInv'
<1>1. /\ running = Nobody /\ running' = Nobody /\ stage' = [stage EXCEPT ![c] = "clean"]
      /\ UNCHANGED ramfs /\ UNCHANGED <<filename, view, handler, ajax_id, stored, refused>>
  BY DEF GiveUp, StageGoes
<1>2. NamesStay /\ BytesStay /\ NoneOpened /\ halted' = halted
  BY <1>1, RamfsStays
<1>3. Types'
  BY <1>1 DEF FilesInv, Types, Stages, Path
<1>4. \A o \in Clients : stage'[o] = IF o = c THEN "clean" ELSE stage[o]
  BY <1>1 DEF FilesInv, Types
<1>5. /\ RunInv' /\ \A o \in Clients : ~Building(o)' /\ ~Building(o) /\ running' # <<o, "view">>
  BY <1>1, NobodyRuns, BuildingFacts DEF Building
<1>6. StageInv'
  BY <1>1, <1>2, <1>4, ViewsClose DEF FilesInv, StageInv, NoneOpened
<1> QED BY <1>1, <1>2, <1>3, <1>4, <1>5, <1>6, Quiet DEF FilesInv

LEMMA CleanUpKeeps ==
    ASSUME Ram!IInv, FilesInv, NEW c \in Clients, CleanUp(c)
    PROVE  FilesInv'
<1>1. /\ running = Nobody /\ running' = <<c, "clean">> /\ stage[c] = "clean"
      /\ view' = [view EXCEPT ![c] = NoName]
      /\ UNCHANGED ramfs /\ UNCHANGED <<stage, filename, handler, ajax_id, stored, refused>>
  BY DEF CleanUp, Visit
<1>2. NamesStay /\ BytesStay /\ NoneOpened /\ halted' = halted
  BY <1>1, RamfsStays
<1>3. Types'
  BY <1>1 DEF FilesInv, Types, Path, Running
<1>4. \A o \in Clients : view'[o] = IF o = c THEN NoName ELSE view[o]
  BY <1>1 DEF FilesInv, Types
<1>5. \A o \in Clients : /\ ~Building(o)' /\ ~Building(o) /\ running' # <<o, "view">>
                         /\ \A k \in Stored : running' # <<o, k>>
  BY <1>1, BuildingFacts, RunningFacts DEF Building
<1>6. file' = file /\ heap' = heap
  BY <1>1 DEF ramfs
<1>7. RunInv'
  BY <1>1, <1>4, <1>5, RunningFacts DEF RunInv
<1>9. StageInv'
  BY <1>1, <1>2, <1>4, ViewsClose DEF FilesInv, StageInv, NoneOpened
<1>8. ShareInv'
  <2> SUFFICES ASSUME ~Shared, NEW o \in Clients
               PROVE  /\ refused' = {}
                      /\ view'[o] # NoName => Mine(o, view'[o])
                      /\ Mode(o, "view") # "NA" => Mine(o, OpenName(o, "view"))
    BY <1>1, <1>6 DEF ShareInv, Mine, Path, Mode, OpenName
  <2> QED BY <1>1, <1>4 DEF FilesInv, ShareInv, Mine
<1> QED BY <1>1, <1>2, <1>3, <1>5, <1>7, <1>8, <1>9, Quiet DEF FilesInv

LEMMA CloseStoredKeeps ==
    ASSUME Ram!IInv, FilesInv, NEW c \in Clients, NEW k \in Stored, CloseStored(c, k)
    PROVE  FilesInv'
<1>1. /\ running = Nobody /\ running' = <<c, k>> /\ stage[c] = "receive" /\ Mode(c, k) = "WRITE"
      /\ Fs!FClose(Handle(c, k))
      /\ UNCHANGED <<stage, filename, view, handler, ajax_id, stored, refused>>
  BY DEF CloseStored, Visit, request
<1>2. k \in Kinds
  BY DEF Stored, Kinds
<1>3. NamesStay /\ BytesStay /\ NoneOpened /\ halted' = halted
  BY <1>1, <1>2, ClosingStays
<1>4. Types'
  BY <1>1 DEF FilesInv, Types, Path, Running
<1>5. \A o \in Clients : /\ ~Building(o)' /\ ~Building(o) /\ running' # <<o, "view">>
                         /\ running' # <<o, "clean">>
  <2>1. k \notin Build /\ k # "view" /\ k # "clean"
    BY RunningFacts DEF Build
  <2> QED BY <1>1, <2>1, BuildingFacts, RunningFacts DEF Building
<1>6. \A o \in Clients : Mode(o, "view")' # "NA" => Mode(o, "view") # "NA"
  BY <1>3, ViewsClose DEF NoneOpened
<1>7. filename[c][k] # NoName
  BY <1>1 DEF FilesInv, HandleInv, StoredOpen
<1>8. RunInv'
  BY <1>1, <1>5, <1>7, RunningFacts DEF RunInv
<1>9. StageInv'
  BY <1>1, <1>6 DEF FilesInv, StageInv
<1> QED BY <1>1, <1>3, <1>4, <1>5, <1>8, <1>9, Quiet DEF FilesInv

LEMMA AppCloseKeeps ==
    ASSUME Ram!IInv, FilesInv, NEW c \in Clients, AppClose(c)
    PROVE  FilesInv'
<1>1. /\ running \in {<<c, "close">>, <<c, "undo">>} /\ running' \in {<<c, "view">>, <<c, "undo">>}
      /\ Fs!FClose(Handle(c, "app"))
      /\ UNCHANGED <<stage, filename, view, handler, ajax_id, stored, refused>>
  BY DEF AppClose, In, request
<1>2. "app" \in Kinds /\ {"close", "view", "undo"} \subseteq Build
  BY DEF Build, Kinds
<1>3. NamesStay /\ BytesStay /\ NoneOpened /\ halted' = halted
  BY <1>1, <1>2, ClosingStays
<1>4. Types'
  BY <1>1, <1>2 DEF FilesInv, Types, Path, Running
<1>5. \A o \in Clients : (Building(o)' <=> o = c) /\ (Building(o) <=> o = c)
  BY <1>1, <1>2, BuildingFacts DEF Building
<1>6. \A o \in Clients : Mode(o, "view")' # "NA" => Mode(o, "view") # "NA"
  BY <1>3, ViewsClose DEF NoneOpened
<1>7. \A o \in Clients : running' # <<o, "clean">> /\ \A k \in Stored : running' # <<o, k>>
  BY <1>1, <1>2, RunningFacts
<1>8. RunInv'
  BY <1>1, <1>5, <1>7 DEF FilesInv, RunInv
<1>9. StageInv'
  BY <1>1, <1>6 DEF FilesInv, StageInv
<1>10. \A o \in Clients : running' = <<o, "view">> => Mode(o, "app")' = "NA"
  BY <1>1, <1>2, ClosingStays, RunningFacts
<1> QED BY <1>1, <1>3, <1>4, <1>5, <1>8, <1>9, <1>10, Quiet DEF FilesInv

LEMMA CleanCloseKeeps ==
    ASSUME Ram!IInv, FilesInv, NEW c \in Clients, CleanClose(c)
    PROVE  FilesInv'
<1>1. /\ Fs!FClose(Handle(c, NextFile(c))) /\ NextFile(c) # "none"
      /\ UNCHANGED <<running, stage, filename, view, handler, ajax_id, stored, refused>>
  BY DEF CleanClose, request
<1>2. NextFile(c) \in Kinds
  BY <1>1 DEF NextFile, Kinds
<1>3. NamesStay /\ BytesStay /\ NoneOpened /\ halted' = halted
  BY <1>1, <1>2, ClosingStays
<1>4. Types'
  BY <1>1 DEF FilesInv, Types, Path
<1>5. \A o \in Clients : Building(o)' <=> Building(o)
  BY <1>1 DEF Building
<1>6. \A o \in Clients : Mode(o, "view")' # "NA" => Mode(o, "view") # "NA"
  BY <1>3, ViewsClose DEF NoneOpened
<1>7. RunInv'
  BY <1>1, <1>5 DEF FilesInv, RunInv
<1>8. StageInv'
  BY <1>1, <1>6 DEF FilesInv, StageInv
<1> QED BY <1>1, <1>3, <1>4, <1>5, <1>7, <1>8, Quiet DEF FilesInv
LEMMA AppViewKeeps ==
    ASSUME Ram!IInv, FilesInv, NEW c \in Clients, AppView(c)
    PROVE  FilesInv'
<1>1. /\ running = <<c, "view">> /\ UNCHANGED ramfs
      /\ UNCHANGED <<filename, ajax_id, stored, refused>>
  BY DEF AppView, In
<1>2. NamesStay /\ BytesStay /\ NoneOpened /\ halted' = halted
  BY <1>1, RamfsStays
<1>3. OpenStay /\ RestStays(NoName)
  BY <1>2, NothingRenamed
<1>4. {"view", "undo"} \subseteq Build
  BY DEF Build
<1>5. \A o \in Clients : Building(o) <=> o = c
  BY <1>1, <1>4, BuildingFacts DEF Building
<1>6. stage[c] = "handle" /\ handler[c] = NoName /\ Mode(c, "view") = "NA" /\ AppName \in AppNames
  BY <1>5 DEF FilesInv, RunInv, StageInv, AppInv
<1>7. \A o \in Clients : Mode(o, "view")' # "NA" => Mode(o, "view") # "NA"
  BY <1>2, ViewsClose DEF NoneOpened
<1>8. CASE Undone(c)
  <2>1. running' = <<c, "undo">> /\ UNCHANGED <<stage, view, handler>>
    BY <1>8 DEF Undone
  <2>2. \A o \in Clients : (Building(o)' <=> o = c) /\ running' # <<o, "view">> /\ running' # <<o, "clean">>
    BY <2>1, <1>4, BuildingFacts, RunningFacts DEF Building
  <2>3. \A o \in Clients, k \in Stored : running' # <<o, k>>
    BY <2>1, <1>4, RunningFacts
  <2>4. Types'
    BY <1>1, <1>4, <2>1 DEF FilesInv, Types, Path, Running
  <2>5. RunInv'
    BY <1>5, <2>1, <2>2, <2>3 DEF FilesInv, RunInv
  <2>6. StageInv'
    BY <1>7, <2>1 DEF FilesInv, StageInv
  <2> QED BY <1>1, <1>2, <1>5, <2>1, <2>2, <2>4, <2>5, <2>6, Quiet DEF FilesInv
<1>9. CASE /\ view' = [view EXCEPT ![c] = AppName]
           /\ handler' = [handler EXCEPT ![c] = AppName]
           /\ StageGoes(c, "open")
           /\ Ends
  <2>1. running' = Nobody /\ stage' = [stage EXCEPT ![c] = "open"]
    BY <1>9 DEF StageGoes, Ends
  <2>2. RunInv' /\ \A o \in Clients : ~Building(o)'
    BY <2>1, NobodyRuns
  <2>3. \A o \in Clients : /\ view'[o] = IF o = c THEN AppName ELSE view[o]
                           /\ handler'[o] = IF o = c THEN AppName ELSE handler[o]
                           /\ stage'[o] = IF o = c THEN "open" ELSE stage[o]
    BY <1>9, <2>1 DEF FilesInv, Types
  <2>4. Types'
    BY <1>1, <1>6, <1>9, <2>1, NameFacts DEF FilesInv, Types, Path, Stages, Running
  <2>5. StageInv'
    BY <1>6, <1>7, <2>3, NameFacts DEF FilesInv, StageInv
  <2>6. \A o \in Clients, m \in Names : Claims(o, m)' <=> Claims(o, m)
    BY <1>5, <1>6, <2>2, <2>3, NameFacts DEF Claims
  <2>7. \A o \in Clients : Mode(o, "app")' = "NA"
    BY <1>1, <1>2, <1>3, <1>5, OpenNameStays DEF FilesInv, HandleInv, AppOpen, NoneOpened, Kinds, ClosesOnly
  <2>8. HandleInv' /\ OwnedInv' /\ AppInv' /\ LossInv'
    BY <1>1, <1>2, <2>2, <2>6, <2>7, Calm DEF NoneOpened, HandleInv
  <2>9. KeptInv'
    BY <1>1, <1>2, <1>3, <1>6, <2>3, NameFacts, KeptStays DEF FilesInv, NoneOpened
  <2>10. ShareInv'
    <3> SUFFICES ASSUME ~Shared, NEW o \in Clients
                 PROVE  /\ refused' = {}
                        /\ view'[o] # NoName =>
                              view'[o] \in {Path(o, "headers"), Path(o, "body"), handler'[o]}
                        /\ Mode(o, "view")' # "NA" =>
                              OpenName(o, "view")' \in {Path(o, "headers"), Path(o, "body"), handler'[o]}
      BY DEF ShareInv, Mine, Path
    <3>1. Mode(o, "view")' # "NA" => /\ o # c /\ Mode(o, "view") # "NA"
                                     /\ OpenName(o, "view")' = OpenName(o, "view")
      BY <1>2, <1>3, <1>6, <1>7, OpenNameStays DEF NoneOpened, Kinds, ClosesOnly
    <3>2. o # c => /\ view[o] # NoName => Mine(o, view[o])
                   /\ Mode(o, "view") # "NA" => Mine(o, OpenName(o, "view"))
      BY DEF FilesInv, ShareInv
    <3>3. refused' = {}
      BY <1>1 DEF FilesInv, ShareInv
    <3>4. CASE o = c
      BY <2>3, <3>1, <3>3, <3>4
    <3>5. CASE o # c
      BY <2>3, <3>1, <3>2, <3>3, <3>5 DEF Mine
    <3> QED BY <3>4, <3>5
  <2> QED BY <2>2, <2>4, <2>5, <2>8, <2>9, <2>10 DEF FilesInv
<1> QED BY <1>8, <1>9 DEF AppView

-----------------------------------------------------------------------------
(* Files that are opened again, and written                                *)

\* The view is opened: nothing else is, and nobody builds.
LEMMA OpenViewKeeps ==
    ASSUME Ram!IInv, FilesInv, NEW c \in Clients, OpenView(c)
    PROVE  FilesInv'
<1>1. /\ running = Nobody /\ running' = Nobody /\ stage[c] = "open"
      /\ stage' = [stage EXCEPT ![c] = "serve"] /\ view' = [view EXCEPT ![c] = NoName]
      /\ UNCHANGED <<filename, handler, ajax_id, stored, refused>>
  BY DEF OpenView, Visit, StageGoes
<1>2. view[c] \in Names /\ <<c, "view">> \in Handles
  BY <1>1, HandleFacts DEF FilesInv, StageInv, Types, Handles
<1>3. /\ NamesStay /\ BytesStay /\ halted' = halted /\ OthersStay(<<c, "view">>)
      /\ Mode(c, "view")' # "NA" => \/ OpenName(c, "view")' = view[c]
                                    \/ file'[<<c, "view">>] = file[<<c, "view">>]
  <2>1. CASE Fs!OpenRead(Handle(c, "view"), view[c])
    <3>1. PICK d \in Dir : heap[d].name = view[c] /\ file'[<<c, "view">>].fd = d
      BY <1>2, <2>1, OpensToRead DEF Handle
    <3>2. NamesStay /\ BytesStay /\ halted' = halted /\ OthersStay(<<c, "view">>)
      BY <1>2, <2>1, OpensToRead DEF Handle
    <3>3. heap'[d].name = view[c]
      BY <3>1, <3>2, DirFacts DEF NamesStay
    <3> QED BY <3>1, <3>2, <3>3 DEF OpenName
  <2>2. CASE UNCHANGED ramfs
    BY <2>2, RamfsStays DEF OthersStay, ramfs
  <2> QED BY <2>1, <2>2 DEF OpenView
<1>4. ClosesOnly(Stored) /\ ClosesOnly({"app"}) /\ \A o \in Clients \ {c} : Stays(o, "view")
  BY <1>3 DEF OthersStay, ClosesOnly, Stays, Stored, Handles, Kinds
<1>5. OpenStay /\ RestStays(NoName)
  BY <1>3, NothingRenamed
<1>6. RunInv' /\ \A o \in Clients : ~Building(o)' /\ ~Building(o) /\ running' # <<o, "view">>
  BY <1>1, NobodyRuns, BuildingFacts DEF Building
<1>7. \A o \in Clients : /\ stage'[o] = IF o = c THEN "serve" ELSE stage[o]
                         /\ view'[o] = IF o = c THEN NoName ELSE view[o]
  BY <1>1 DEF FilesInv, Types
<1>8. Types'
  BY <1>1 DEF FilesInv, Types, Path, Stages
<1>9. \A o \in Clients \ {c} : Mode(o, "view")' # "NA" =>
         Mode(o, "view") # "NA" /\ OpenName(o, "view")' = OpenName(o, "view")
  BY <1>4, <1>5, OpenNameStays DEF Kinds
<1>10. StageInv'
  BY <1>1, <1>7, <1>9 DEF FilesInv, StageInv
<1>11. /\ \A o \in Clients, m \in Names : Claims(o, m)' <=> Claims(o, m)
       /\ \A o \in Clients : Mode(o, "app")' # "NA" => Building(o)' /\ running' # <<o, "view">>
  <2>1. \A o \in Clients : Mode(o, "app")' = "NA"
    BY <1>4, <1>5, <1>6, OpenNameStays DEF FilesInv, HandleInv, AppOpen, ClosesOnly, Kinds
  <2> QED BY <1>1, <1>6, <2>1 DEF Claims
<1>12. StoredOpen' /\ AppOpen' /\ OwnedInv' /\ AppInv' /\ LossInv'
  BY <1>1, <1>3, <1>4, <1>6, <1>11, Calm
<1>13. ViewOpen'
  BY <1>6 DEF ViewOpen
<1>14. KeptInv'
  BY <1>1, <1>4, <1>5, <1>7, NameFacts, KeptStays DEF FilesInv
<1>15. ShareInv'
  <2> SUFFICES ASSUME ~Shared, NEW o \in Clients
               PROVE  /\ refused' = {}
                      /\ view'[o] # NoName => Mine(o, view'[o])
                      /\ Mode(o, "view")' # "NA" => Mine(o, OpenName(o, "view")')
    BY <1>1 DEF ShareInv, Mine, Path
  <2>1. /\ refused = {}
        /\ view[o] # NoName => Mine(o, view[o])
        /\ Mode(o, "view") # "NA" => Mine(o, OpenName(o, "view"))
    BY DEF FilesInv, ShareInv
  <2>2. Mode(c, "view")' # "NA" => \/ OpenName(c, "view")' = view[c]
                                   \/ Mode(c, "view") # "NA" /\ OpenName(c, "view")' = OpenName(c, "view")
    <3>1. Stays(c, "view") => (Mode(c, "view")' # "NA" =>
             Mode(c, "view") # "NA" /\ OpenName(c, "view")' = OpenName(c, "view"))
      BY <1>5, OpenNameStays DEF Kinds
    <3> QED BY <1>3, <3>1 DEF Stays
  <2>3. view[c] # NoName
    BY <1>2, NameFacts
  <2>4. refused' = {} /\ (view'[o] # NoName => Mine(o, view'[o]))
    BY <1>1, <1>7, <2>1
  <2>5. Mode(o, "view")' # "NA" => Mine(o, OpenName(o, "view")')
    <3>1. CASE o # c
      BY <1>9, <2>1, <3>1
    <3>2. CASE o = c
      BY <2>1, <2>2, <2>3, <3>2 DEF Mine
    <3> QED BY <3>1, <3>2
  <2> QED BY <2>4, <2>5
<1> QED BY <1>6, <1>8, <1>10, <1>12, <1>13, <1>14, <1>15 DEF FilesInv, HandleInv

\* What was stored is opened again: it is still there.
LEMMA ReopenKeeps ==
    ASSUME Ram!IInv, FilesInv, NEW c \in Clients, NEW k \in Stored, Reopen(c, k)
    PROVE  FilesInv'
<1>1. /\ running = <<c, k>> /\ running' = Nobody
      /\ UNCHANGED <<stage, filename, view, handler, ajax_id, stored, refused>>
  BY DEF Reopen, In, Ends, request
<1>2. /\ stage[c] = "receive" /\ filename[c][k] = Path(c, k) /\ Path(c, k) \in Names
      /\ <<c, k>> \in Handles
  BY <1>1, NameFacts, HandleFacts DEF FilesInv, RunInv, Types, Handles
<1>3. Fs!OpenRead(<<c, k>>, Path(c, k))
  BY <1>2 DEF Reopen, Handle
<1>4. /\ NamesStay /\ BytesStay /\ halted' = halted /\ OthersStay(<<c, k>>)
      /\ \E d \in Dir : heap[d].name = Path(c, k) /\ file'[<<c, k>>].fd = d
  BY <1>2, <1>3, OpensToRead
<1>5. ClosesOnly({"app"}) /\ ClosesOnly({"view"}) /\ \A o \in Clients, l \in Stored : o # c \/ l # k => Stays(o, l)
  BY <1>4 DEF OthersStay, ClosesOnly, Stays, Stored, Handles, Kinds
<1>6. OpenStay /\ RestStays(NoName) /\ NothingNew(NoName) /\ BoundStays(NoName)
  BY <1>4, NothingRenamed
<1>7. RunInv' /\ \A o \in Clients : ~Building(o)' /\ ~Building(o) /\ running' # <<o, "view">>
  <2>1. k \notin Build
    BY RunningFacts
  <2> QED BY <1>1, <2>1, NobodyRuns, BuildingFacts DEF Building
<1>8. Types'
  BY <1>1 DEF FilesInv, Types, Path, Running
<1>9. StageInv'
  BY <1>1, <1>5, ViewsClose DEF FilesInv, StageInv
<1>10. AppOpen' /\ ViewOpen' /\ LossInv' /\ ShareInv'
  <2>1. \A o \in Clients : Mode(o, "app")' = "NA"
    BY <1>5, <1>6, <1>7, OpenNameStays DEF FilesInv, HandleInv, AppOpen, ClosesOnly, Kinds
  <2> QED BY <1>1, <1>4, <1>5, <1>6, <1>7, <2>1, LossesStay, SharesStay DEF FilesInv, AppOpen, ViewOpen
<1>11. OwnedInv' /\ AppInv'
  <2>1. \A m : \A o \in Clients : (Claims(o, m)' <=> Claims(o, m)) /\ (Owner(o, m)' <=> Owner(o, m))
    BY <1>1, <1>7 DEF Claims, Owner
  <2> QED BY ZenonT(60), <1>1, <1>6, <1>7, <2>1, NameFacts, OwnersStay, AppsStay DEF FilesInv, NothingNew
<1>12. PICK d \in Dir : heap[d].name = Path(c, k) /\ file'[<<c, k>>].fd = d
  BY <1>4
<1>13. d \in Dir' /\ d \in Defs /\ heap'[d].name = Path(c, k) /\ heap'[d].cbuf = heap[d].cbuf
  BY <1>4, <1>12, DirFacts DEF NamesStay, BytesStay
<1>14. StoredOpen'
  <2> SUFFICES ASSUME NEW o \in Clients, NEW l \in Stored, Mode(o, l)' # "NA"
               PROVE  filename'[o][l] # NoName /\ OpenName(o, l)' = Path(o, l)
    BY DEF StoredOpen, Path
  <2>1. CASE o = c /\ l = k
    BY <1>1, <1>2, <1>12, <1>13, <2>1, NameFacts DEF OpenName
  <2>2. CASE o # c \/ l # k
    BY <1>1, <1>5, <1>6, <2>2, StoredOpenStays DEF FilesInv, HandleInv
  <2> QED BY <2>1, <2>2
<1>15. KeptInv'
  <2> SUFFICES ASSUME NEW o \in Clients, NEW l \in Stored PROVE Keeps(o, l)'
    BY DEF KeptInv
  <2>1. CASE o = c /\ l = k
    <3>1. PICK e \in Dir : heap[e].name = Path(c, k) /\ heap[e].cbuf = stored[c][k]
      BY <1>2, NameFacts DEF FilesInv, KeptInv, Keeps, Intact
    <3>2. e = d
      BY <1>12, <3>1, DirFacts
    <3>3. Intact(c, k)'
      BY <1>1, <1>12, <1>13, <3>1, <3>2 DEF Intact, Path
    <3> QED BY <1>1, <1>2, <2>1, <3>3, NameFacts DEF Keeps
  <2>2. CASE o # c \/ l # k
    <3>1. Stays(o, l) /\ Keeps(o, l) /\ SameNames(o, l) /\ Path(o, l) # NoName
      BY <1>1, <1>5, <2>2, NameFacts DEF FilesInv, KeptInv, SameNames
    <3> QED BY <1>1, <1>6, <3>1, KeepsStays
  <2> QED BY <2>1, <2>2
<1> QED BY <1>7, <1>8, <1>9, <1>10, <1>11, <1>14, <1>15 DEF FilesInv, HandleInv

\* A piece of the request is stored.
LEMMA StoreKeeps ==
    ASSUME Ram!IInv, FilesInv, NEW c \in Clients, NEW k \in Stored, Store(c, k)
    PROVE  FilesInv'
<1>1. /\ running = Nobody /\ stage[c] = "receive"
      /\ UNCHANGED <<running, stage, filename, view, handler, ajax_id, refused>>
  BY DEF Store, Visit, request
<1>2. PICK p \in Pieces : /\ Fs!FWrite(Handle(c, k), p)
                          /\ stored' = [stored EXCEPT ![c][k] = Append(@, p)]
  BY DEF Store
<1>3. <<c, k>> \in Handles /\ Handle(c, k) = <<c, k>>
  BY HandleFacts DEF Handles, Handle
<1> DEFINE d == file[<<c, k>>].fd
<1>4. /\ NamesStay /\ halted' = halted /\ file' = file
      /\ Mode(c, k) = "WRITE" /\ d \in Defs
      /\ heap'[d].cbuf = Append(heap[d].cbuf, p)
      /\ \A e \in Defs : e # d => heap'[e].cbuf = heap[e].cbuf
  BY <1>2, <1>3, Writes DEF Mode
<1>5. filename[c][k] # NoName /\ heap[d].name = Path(c, k)
  BY <1>4 DEF FilesInv, HandleInv, StoredOpen, OpenName
<1>6. /\ \A o \in Clients, l \in Stored : o # c \/ l # k => stored'[o][l] = stored[o][l]
      /\ stored'[c][k] = Append(stored[c][k], p)
      /\ stored' \in [Clients -> [Stored -> Seq(Pieces)]]
  <2>1. stored \in [Clients -> [Stored -> Seq(Pieces)]] /\ stored[c][k] \in Seq(Pieces)
    BY DEF FilesInv, Types
  <2>2. Append(stored[c][k], p) \in Seq(Pieces)
    BY <2>1
  <2> QED BY <1>2, <2>1, <2>2
<1>7. OpenStay /\ RestStays(Path(c, k))
  <2>1. OpenStay
    BY <1>4, NothingRenamed
  <2>2. RestStays(Path(c, k))
    BY <1>4, <1>5, DirFacts DEF RestStays, NamesStay
  <2> QED BY <2>1, <2>2
<1>8. NoneOpened
  BY <1>4 DEF NoneOpened, ClosesOnly, Stays
<1>9. \A o \in Clients : ~Building(o)' /\ ~Building(o) /\ running' # <<o, "view">>
  BY <1>1, BuildingFacts, RunningFacts DEF Building
<1>10. Types' /\ RunInv' /\ StageInv'
  <2>1. Types'
    BY <1>1, <1>6 DEF FilesInv, Types, Path
  <2>2. RunInv'
    BY <1>1, NobodyRuns
  <2>3. StageInv'
    BY <1>1, <1>8, ViewsClose DEF FilesInv, StageInv, NoneOpened
  <2> QED BY <2>1, <2>2, <2>3
<1>11. HandleInv' /\ OwnedInv' /\ AppInv' /\ LossInv'
  <2>1. \A o \in Clients, m \in Names : Claims(o, m)' <=> Claims(o, m)
    BY <1>1, <1>9 DEF Claims
  <2>2. \A o \in Clients : Mode(o, "app")' = "NA"
    BY <1>8, <1>7, <1>9, OpenNameStays DEF FilesInv, HandleInv, AppOpen, ClosesOnly, Kinds, NoneOpened
  <2> QED BY <1>1, <1>4, <1>8, <1>9, <2>1, <2>2, Calm DEF HandleInv, NoneOpened
<1>12. ShareInv'
  BY <1>1, <1>7, <1>8, SharesStay DEF FilesInv, NoneOpened
<1>13. KeptInv'
  <2> SUFFICES ASSUME NEW o \in Clients, NEW l \in Stored PROVE Keeps(o, l)'
    BY DEF KeptInv
  <2>1. CASE o = c /\ l = k
    <3>1. d \in Dir /\ heap[d].name = Path(c, k) /\ heap[d].cbuf = stored[c][k]
      BY <1>1, <1>4, <1>5 DEF FilesInv, KeptInv, Keeps, Intact
    <3>2. d \in Dir' /\ heap'[d].name = Path(c, k) /\ heap'[d].cbuf = stored'[c][k]
      BY <1>4, <1>6, <3>1 DEF NamesStay
    <3>3. Intact(c, k)'
      BY <1>4, <3>2 DEF Intact, Path
    <3> QED BY <1>1, <1>5, <2>1, <3>3 DEF Keeps
  <2>2. CASE o # c \/ l # k
    <3>1. Stays(o, l) /\ Keeps(o, l) /\ SameNames(o, l) /\ Path(o, l) # Path(c, k)
      BY <1>1, <1>6, <1>8, <2>2, NameFacts DEF FilesInv, KeptInv, SameNames, NoneOpened, ClosesOnly
    <3> QED BY <1>1, <1>7, <3>1, KeepsStays
  <2> QED BY <2>1, <2>2
<1> QED BY <1>10, <1>11, <1>12, <1>13 DEF FilesInv

LEMMA AppWriteKeeps ==
    ASSUME Ram!IInv, FilesInv, NEW c \in Clients, AppWrite(c)
    PROVE  FilesInv'
<1>1. /\ running = <<c, "write">> /\ running' \in {<<c, "close">>, <<c, "undo">>}
      /\ UNCHANGED <<stage, filename, view, handler, ajax_id, stored, refused>>
  BY DEF AppWrite, In, request
<1>2. <<c, "app">> \in Handles /\ {"write", "close", "undo"} \subseteq Build
  BY HandleFacts DEF Handles, Build
<1>3. \A o \in Clients : /\ Building(o) <=> o = c
                         /\ Building(o)' <=> o = c
                         /\ running' # <<o, "view">> /\ running' # <<o, "clean">>
                         /\ \A k \in Stored : running' # <<o, k>>
  BY <1>1, <1>2, BuildingFacts, RunningFacts DEF Building
<1>4. AppName \in AppNames
  BY <1>3 DEF FilesInv, AppInv
<1>5. /\ NamesStay /\ NoneOpened /\ halted' = halted /\ OpenStay /\ RestStays(AppName)
      /\ Mode(c, "app")' # "NA" => Mode(c, "app") # "NA"
  <2>1. CASE UNCHANGED ramfs
    <3>1. NamesStay /\ BytesStay /\ NoneOpened /\ halted' = halted /\ OpenStay
      BY <2>1, RamfsStays, NothingRenamed
    <3>2. RestStays(AppName)
      BY <3>1, DirFacts DEF RestStays, NamesStay, BytesStay
    <3> QED BY <2>1, <3>1, <3>2 DEF Mode, ramfs
  <2>2. ASSUME NEW p \in Pieces, Fs!FWrite(Handle(c, "app"), p) PROVE <1>5!:
    <3>1. /\ NamesStay /\ halted' = halted /\ file' = file /\ Mode(c, "app") = "WRITE"
          /\ \A e \in Defs : e # file[<<c, "app">>].fd => heap'[e].cbuf = heap[e].cbuf
      BY <1>2, <2>2, Writes DEF Mode, Handle
    <3>2. NoneOpened /\ OpenStay
      BY <3>1, NothingRenamed DEF NoneOpened, ClosesOnly, Stays
    <3>3. heap[file[<<c, "app">>].fd].name = AppName
      BY <3>1 DEF FilesInv, HandleInv, AppOpen, OpenName
    <3>4. RestStays(AppName)
      BY <3>1, <3>3, DirFacts DEF RestStays, NamesStay
    <3> QED BY <3>1, <3>2, <3>4
  <2> QED BY <2>1, <2>2 DEF AppWrite
<1>6. Types'
  BY <1>1, <1>2 DEF FilesInv, Types, Path, Running
<1>7. RunInv'
  BY <1>1, <1>3 DEF FilesInv, RunInv
<1>8. StageInv'
  BY <1>1, <1>5, ViewsClose DEF FilesInv, StageInv, NoneOpened
<1>9. HandleInv' /\ OwnedInv' /\ AppInv' /\ LossInv'
  <2>1. \A o \in Clients, m \in Names : Claims(o, m)' <=> Claims(o, m)
    BY <1>1, <1>3 DEF Claims, AppName
  <2>2. \A o \in Clients : Mode(o, "app")' # "NA" => Building(o)' /\ running' # <<o, "view">>
    BY <1>3, <1>5, OpenNameStays DEF FilesInv, HandleInv, AppOpen, ClosesOnly, Kinds, NoneOpened
  <2> QED BY <1>1, <1>3, <1>5, <2>1, <2>2, Calm DEF HandleInv, NoneOpened
<1>10. KeptInv' /\ ShareInv'
  BY <1>1, <1>4, <1>5, NameFacts, KeptStays, SharesStay DEF FilesInv, NoneOpened
<1> QED BY <1>6, <1>7, <1>8, <1>9, <1>10 DEF FilesInv

-----------------------------------------------------------------------------
(* Files that are created                                                  *)

LEMMA Creates ==
    ASSUME Ram!IInv, NEW c \in Clients, NEW k \in Kinds, NEW n \in Names, ~Bound(n),
           OpenWrite(Handle(c, k), n)
    PROVE  /\ OpenStay /\ RestStays(NoName) /\ BoundStays(NoName) /\ halted' = halted
           /\ \A m : Bound(m)' <=> Bound(m) \/ m = n
           /\ \A o \in Clients, l \in Kinds : o # c \/ l # k => Stays(o, l)
           /\ \E d \in Dir' : /\ heap'[d].name = n /\ heap'[d].cbuf = <<>> /\ file'[<<c, k>>].fd = d
                              /\ \A e \in Defs : e # d => heap'[e].name = heap[e].name
           /\ Dir \subseteq Dir' /\ Mode(c, k) = "NA"
<1>1. Handle(c, k) \in Handles /\ Handle(c, k) = <<c, k>>
  BY DEF Handles, Handle
<1>2. PICK d \in Defs :
             /\ heap[d].name = NoName /\ d \notin Dir
             /\ Dir' = {d} \cup {e \in Dir : heap[e].name # n} /\ halted' = halted
             /\ heap'[d].name = n /\ heap'[d].cbuf = <<>>
             /\ \A e \in Defs \ {d} :
                   \/ heap'[e] = heap[e]
                   \/ e \in Dir /\ heap[e].name = n /\ heap'[e].name = NoName /\ Unopened(e)
             /\ OthersStay(Handle(c, k)) /\ file'[Handle(c, k)].fd = d /\ file[Handle(c, k)].mode = "NA"
  BY <1>1, OpensToWrite
<1>3. Dir' = {d} \cup Dir /\ \A e \in Defs \ {d} : heap'[e] = heap[e]
  BY <1>2 DEF Bound
<1>4. OpenStay
  BY <1>2, <1>3, DirFacts, NameFacts DEF OpenStay
<1>5. RestStays(NoName)
  BY <1>2, <1>3, DirFacts DEF RestStays
<1>6. \A m : Bound(m)' <=> Bound(m) \/ m = n
  BY <1>2, <1>3, DirFacts DEF Bound
<1>7. \A o \in Clients, l \in Kinds : o # c \/ l # k => Stays(o, l)
  BY <1>1, <1>2 DEF OthersStay, Stays, Handles
<1> QED BY <1>1, <1>2, <1>3, <1>4, <1>5, <1>6, <1>7, RestBound DEF Mode

\* When there is no memory for it, nothing is changed.
LEMMA CreatesNothing ==
    ASSUME Ram!IInv, NEW c \in Clients, NEW k \in Kinds, NEW n \in Names, ~Bound(n),
           Fs!OpenWriteFails(Handle(c, k), n)
    PROVE  NamesStay /\ BytesStay /\ NoneOpened /\ halted' = halted
<1>1. Handle(c, k) \in Handles
  BY DEF Handles, Handle
<1>2. /\ Dir' = {e \in Dir : heap[e].name # n} /\ halted' = halted /\ file' = file
      /\ Drops(n)
  BY <1>1, WriteFails
<1>3. Dir' = Dir /\ \A e \in Defs : heap'[e] = heap[e]
  BY <1>2 DEF Drops, Bound
<1> QED BY <1>2, <1>3 DEF NamesStay, BytesStay, NoneOpened, ClosesOnly, Stays

\* The name of a file that is to be created is not in use.
LEMMA FreshNames ==
    ASSUME Ram!IInv, FilesInv
    PROVE  /\ \A c \in Clients, k \in Stored : filename[c][k] = NoName => ~Bound(Path(c, k))
           /\ ~Bound(App(ajax_id + 1))
<1>1. ASSUME NEW c \in Clients, NEW k \in Stored, filename[c][k] = NoName, Bound(Path(c, k))
      PROVE  FALSE
  <2>1. PICK o \in Clients : Owner(o, Path(c, k))
    BY <1>1, NameFacts DEF FilesInv, OwnedInv
  <2>2. ~Claims(o, Path(c, k))
    BY NameFacts DEF FilesInv, Types, AppInv, Claims
  <2>3. filename[o]["headers"] \in {NoName, Path(o, "headers")} /\ filename[o]["body"] \in {NoName, Path(o, "body")}
    BY DEF FilesInv, Types, Stored
  <2>4. Path(c, k) # NoName /\ "headers" \in Stored /\ "body" \in Stored
    BY NameFacts DEF Stored
  <2> QED BY <1>1, <2>1, <2>2, <2>3, <2>4, NameFacts DEF Owner
<1>2. ASSUME Bound(App(ajax_id + 1)) PROVE FALSE
  <2>1. PICK d \in Dir : heap[d].name = App(ajax_id + 1)
    BY <1>2 DEF Bound
  <2>2. App(ajax_id + 1) \in Names /\ App(ajax_id + 1)[1] = "app" /\ App(ajax_id + 1)[2] = ajax_id + 1
    BY <2>1, DirFacts DEF App
  <2>3. App(ajax_id + 1) \in AppNames
    BY <2>2, NameFacts DEF Stored
  <2>4. ajax_id + 1 <= ajax_id
    BY <2>1, <2>2, <2>3, DirFacts DEF FilesInv, AppInv
  <2> QED BY <2>4, BoundsAssumption DEF FilesInv, Types
<1> QED BY <1>1, <1>2

LEMMA CreateKeeps ==
    ASSUME Ram!IInv, FilesInv, NEW c \in Clients, NEW k \in Stored, Create(c, k)
    PROVE  FilesInv'
<1>1. /\ running = Nobody /\ running' = Nobody /\ stage[c] = "receive" /\ filename[c][k] = NoName
      /\ UNCHANGED <<stage, view, handler, ajax_id, stored, refused>>
  BY DEF Create, Visit
<1>2. /\ Path(c, k) \in Names /\ Path(c, k) # NoName /\ ~Bound(Path(c, k)) /\ k \in Kinds
      /\ stored[c][k] = <<>>
  BY <1>1, NameFacts, FreshNames DEF Stored, Kinds, FilesInv, KeptInv, Keeps
<1>3. RunInv' /\ \A o \in Clients : ~Building(o)' /\ ~Building(o) /\ running' # <<o, "view">>
  BY <1>1, NobodyRuns, BuildingFacts DEF Building
<1>4. CASE Fs!OpenWriteFails(Handle(c, k), Path(c, k)) /\ NotNamed(c, k)
  <2>1. NamesStay /\ BytesStay /\ NoneOpened /\ halted' = halted
    BY <1>2, <1>4, CreatesNothing
  <2>2. Types'
    BY <1>1, <1>4 DEF FilesInv, Types, Path, NotNamed
  <2>3. StageInv'
    BY <1>1, <2>1, ViewsClose DEF FilesInv, StageInv, NoneOpened
  <2> QED BY <1>1, <1>3, <1>4, <2>1, <2>2, <2>3, Quiet DEF FilesInv, NotNamed
<1>5. CASE /\ OpenWrite(Handle(c, k), Path(c, k))
           /\ filename' = [filename EXCEPT ![c][k] = Path(c, k)]
  <2>1. /\ filename'[c][k] = Path(c, k)
        /\ \A o \in Clients, l \in Stored : o # c \/ l # k => filename'[o][l] = filename[o][l]
    BY <1>5 DEF FilesInv, Types
  <2>2. /\ OpenStay /\ RestStays(NoName) /\ BoundStays(NoName) /\ halted' = halted
        /\ \A m : Bound(m)' <=> Bound(m) \/ m = Path(c, k)
        /\ \A o \in Clients, l \in Kinds : o # c \/ l # k => Stays(o, l)
        /\ Dir \subseteq Dir'
    BY <1>2, <1>5, Creates
  <2>3. PICK d \in Dir' : /\ heap'[d].name = Path(c, k) /\ heap'[d].cbuf = <<>> /\ file'[<<c, k>>].fd = d
                          /\ \A e \in Defs : e # d => heap'[e].name = heap[e].name
    BY <1>2, <1>5, Creates
  <2>4. ClosesOnly({"app"}) /\ ClosesOnly({"view"}) /\ \A o \in Clients, l \in Stored : o # c \/ l # k => Stays(o, l)
    BY <2>2 DEF ClosesOnly, Stored, Kinds
  <2>5. Types'
    <3>1. filename' \in [Clients -> [Stored -> Names \cup {NoName}]]
      BY <1>2, <1>5 DEF FilesInv, Types
    <3>2. \A o \in Clients, l \in Stored : filename'[o][l] \in {NoName, Path(o, l)}
      BY <2>1 DEF FilesInv, Types
    <3> QED BY <1>1, <3>1, <3>2 DEF FilesInv, Types, Path
  <2>6. StageInv'
    BY <1>1, <2>4, ViewsClose DEF FilesInv, StageInv
  <2>7. StoredOpen'
    <3> SUFFICES ASSUME NEW o \in Clients, NEW l \in Stored, Mode(o, l)' # "NA"
                 PROVE  filename'[o][l] # NoName /\ OpenName(o, l)' = Path(o, l)
      BY DEF StoredOpen, Path
    <3>1. CASE o = c /\ l = k
      BY <1>2, <2>1, <2>3, <3>1 DEF OpenName
    <3>2. CASE o # c \/ l # k
      BY <2>1, <2>2, <2>4, <3>2, StoredOpenStays DEF FilesInv, HandleInv
    <3> QED BY <3>1, <3>2
  <2>8. AppOpen' /\ ViewOpen' /\ ShareInv'
    <3>1. \A o \in Clients : Mode(o, "app")' = "NA"
      BY <2>2, <2>4, <1>3, OpenNameStays DEF FilesInv, HandleInv, AppOpen, ClosesOnly, Kinds
    <3> QED BY <1>1, <1>3, <2>2, <2>4, <3>1, SharesStay DEF FilesInv, AppOpen, ViewOpen
  <2>9. KeptInv'
    <3> SUFFICES ASSUME NEW o \in Clients, NEW l \in Stored PROVE Keeps(o, l)'
      BY DEF KeptInv
    <3>1. CASE o = c /\ l = k
      <4>1. Intact(c, k)'
        BY <1>1, <1>2, <2>3 DEF Intact, Path
      <4> QED BY <1>1, <1>2, <2>1, <3>1, <4>1 DEF Keeps
    <3>2. CASE o # c \/ l # k
      <4>1. Stays(o, l) /\ Keeps(o, l) /\ SameNames(o, l) /\ Path(o, l) # NoName
        BY <1>1, <2>1, <2>4, <3>2, NameFacts DEF FilesInv, KeptInv, SameNames
      <4> QED BY <1>1, <2>2, <4>1, KeepsStays
    <3> QED BY <3>1, <3>2
  <2>10. \A o \in Clients, m \in Names : (Claims(o, m)' <=> Claims(o, m)) /\ (Owner(o, m) => Owner(o, m)')
    <3> SUFFICES ASSUME NEW o \in Clients, NEW m \in Names
                 PROVE  (Claims(o, m)' <=> Claims(o, m)) /\ (Owner(o, m) => Owner(o, m)')
      OBVIOUS
    <3>1. Claims(o, m)' <=> Claims(o, m)
      BY <1>1, <1>3 DEF Claims
    <3>2. \A l \in Stored : filename[o][l] = m => filename'[o][l] = m
      BY <1>1, <2>1, NameFacts
    <3> QED BY <3>1, <3>2 DEF Owner, Stored
  <2>11. OwnedInv'
    <3> SUFFICES ASSUME NEW m \in Names, Bound(m)'
                 PROVE  \E o \in Clients : Owner(o, m)'
      BY DEF OwnedInv, Names, AppNames
    <3>1. CASE m = Path(c, k)
      BY <2>1, <3>1 DEF Owner, Stored
    <3>2. CASE m # Path(c, k)
      BY <2>2, <2>10, <3>2 DEF FilesInv, OwnedInv
    <3> QED BY <3>1, <3>2
  <2>12. AppInv'
    <3>1. \A e \in Defs : heap'[e].name \in AppNames => heap'[e].name = heap[e].name
      BY <2>3, NameFacts
    <3>2. \A o \in Clients, m \in AppNames : Claims(o, m)' => Claims(o, m) /\ m # NoName
      BY <2>10, NameFacts
    <3> QED BY <1>1, <1>3, <2>2, <3>1, <3>2, AppsStay DEF FilesInv
  <2>13. LossInv'
    BY <1>1, <2>2, <2>3 DEF FilesInv, LossInv
  <2> QED BY <1>3, <2>5, <2>6, <2>7, <2>8, <2>9, <2>11, <2>12, <2>13 DEF FilesInv, HandleInv
<1> QED BY <1>4, <1>5 DEF Create

LEMMA AppCreateKeeps ==
    ASSUME Ram!IInv, FilesInv, NEW c \in Clients, AppCreate(c)
    PROVE  FilesInv'
<1>n. PICK n : n = App(ajax_id + 1)
  OBVIOUS
<1>1. /\ running = Nobody /\ running' = <<c, "write">> /\ stage[c] = "handle"
      /\ ajax_id < MaxFiles /\ ajax_id' = ajax_id + 1
      /\ UNCHANGED <<stage, filename, view, handler, stored, refused>>
      /\ OpenWrite(Handle(c, "app"), n)
  BY <1>n DEF AppCreate, Visit, request, App
<1>2. /\ ajax_id \in Nat /\ ajax_id + 1 \in 1..MaxFiles /\ ajax_id' \in 0..MaxFiles
  BY <1>1, BoundsAssumption DEF FilesInv, Types
<1>3. /\ n \in AppNames /\ n \in Names /\ n # NoName /\ ~Bound(n) /\ AppName' = n
      /\ n[2] = ajax_id + 1
  BY <1>1, <1>2, <1>n, AppFacts, NameFacts, FreshNames DEF AppName, App
<1>4. /\ OpenStay /\ RestStays(NoName) /\ BoundStays(NoName) /\ halted' = halted
      /\ \A m : Bound(m)' <=> Bound(m) \/ m = n
      /\ \A o \in Clients, l \in Kinds : o # c \/ l # "app" => Stays(o, l)
      /\ Dir \subseteq Dir'
  BY <1>1, <1>3, Creates DEF Kinds
<1>5. PICK d \in Dir' : /\ heap'[d].name = n /\ heap'[d].cbuf = <<>> /\ file'[<<c, "app">>].fd = d
                        /\ \A e \in Defs : e # d => heap'[e].name = heap[e].name
  BY ZenonT(60), <1>1, <1>3, Creates DEF Kinds
<1>6. ClosesOnly(Stored) /\ ClosesOnly({"view"}) /\ \A o \in Clients \ {c} : Stays(o, "app")
  BY <1>4 DEF ClosesOnly, Stored, Kinds
<1>7. \A o \in Clients : /\ ~Building(o) /\ (Building(o)' <=> o = c)
                         /\ running' # <<o, "view">> /\ running' # <<o, "clean">>
                         /\ \A k \in Stored : running' # <<o, k>>
  BY <1>1, BuildingFacts, RunningFacts DEF Building, Build
<1>8. Types'
  BY <1>1, <1>2 DEF FilesInv, Types, Path, Running, Build
<1>9. RunInv' /\ StageInv'
  BY <1>1, <1>6, <1>7, ViewsClose DEF FilesInv, RunInv, StageInv
<1>10. HandleInv'
  <2>1. StoredOpen'
    <3> SUFFICES ASSUME NEW o \in Clients, NEW l \in Stored, Mode(o, l)' # "NA"
                 PROVE  filename'[o][l] # NoName /\ OpenName(o, l)' = Path(o, l)
      BY DEF StoredOpen, Path
    <3> QED BY <1>1, <1>4, <1>6, StoredOpenStays DEF FilesInv, HandleInv, ClosesOnly
  <2>2. AppOpen'
    <3> SUFFICES ASSUME NEW o \in Clients, Mode(o, "app")' # "NA"
                 PROVE  Building(o)' /\ running' # <<o, "view">> /\ OpenName(o, "app")' = AppName'
      BY DEF AppOpen
    <3>1. o = c
      BY <1>4, <1>6, <1>7, OpenNameStays DEF FilesInv, HandleInv, AppOpen, Kinds
    <3>2. OpenName(c, "app")' = n
      BY <1>5 DEF OpenName
    <3> QED BY <1>3, <1>7, <3>1, <3>2
  <2>3. ViewOpen'
    <3> SUFFICES ASSUME NEW o \in Clients, Mode(o, "view")' # "NA"
                 PROVE  OpenName(o, "view")' # n
      BY <1>3 DEF ViewOpen
    <3>1. Mode(o, "view") # "NA" /\ OpenName(o, "view")' = OpenName(o, "view")
      BY <1>4, <1>6, OpenNameStays DEF Kinds, ClosesOnly
    <3>2. file[<<o, "view">>].fd \in Defs
      BY <3>1, DirFacts, HandleFacts DEF Mode, Handles
    <3>3. OpenName(o, "view") = n => n[2] <= ajax_id
      BY <1>3, <3>2 DEF FilesInv, AppInv, OpenName
    <3> QED BY <1>2, <1>3, <3>1, <3>3
  <2> QED BY <2>1, <2>2, <2>3 DEF HandleInv
<1>11. KeptInv' /\ ShareInv'
  BY <1>1, <1>4, <1>6, NameFacts, KeptStays, SharesStay DEF FilesInv
<1>12. /\ \A o \in Clients, m \in Names : m # n => (Claims(o, m)' <=> Claims(o, m))
       /\ \A o \in Clients : Claims(o, n)' <=> o = c
  <2>1. \A o \in Clients : handler[o] # n
    BY <1>3 DEF FilesInv, AppInv, Claims
  <2> QED BY <1>1, <1>3, <1>7, <2>1 DEF Claims
<1>13. OwnedInv'
  <2> SUFFICES ASSUME NEW m \in Names, Bound(m)'
               PROVE  \E o \in Clients : Owner(o, m)'
    BY DEF OwnedInv, Names, AppNames
  <2>1. CASE m = n
    BY <1>12, <2>1 DEF Owner
  <2>2. CASE m # n
    <3>1. PICK o \in Clients : Owner(o, m)
      BY <1>4, <2>2 DEF FilesInv, OwnedInv
    <3> QED BY <1>1, <1>12, <2>2, <3>1 DEF Owner
  <2> QED BY <2>1, <2>2
<1>14. AppInv'
  <2>1. \A m \in AppNames, o \in Clients :
           Claims(o, m)' => Bound(m)' /\ \A q \in Clients : Claims(q, m)' => q = o
    <3> SUFFICES ASSUME NEW m \in AppNames, NEW o \in Clients, Claims(o, m)'
                 PROVE  Bound(m)' /\ \A q \in Clients : Claims(q, m)' => q = o
      OBVIOUS
    <3>1. CASE m = n
      BY <1>4, <1>12, <3>1
    <3>2. CASE m # n
      BY <1>4, <1>12, <3>2, NameFacts DEF FilesInv, AppInv
    <3> QED BY <3>1, <3>2
  <2>2. \A o \in Clients : Building(o)' => AppName' \in AppNames
    BY <1>3
  <2>3. \A e \in Defs : heap'[e].name \in AppNames => heap'[e].name[2] <= ajax_id'
    <3> SUFFICES ASSUME NEW e \in Defs, heap'[e].name \in AppNames PROVE heap'[e].name[2] <= ajax_id'
      OBVIOUS
    <3>1. CASE e = d
      BY <1>1, <1>2, <1>3, <1>5, <3>1
    <3>2. CASE e # d
      <4>1. heap'[e].name = heap[e].name /\ heap[e].name[2] <= ajax_id
        BY <1>5, <3>2 DEF FilesInv, AppInv
      <4>2. heap[e].name[2] \in Nat
        BY <4>1, NameFacts
      <4> QED BY <1>1, <1>2, <4>1, <4>2
    <3> QED BY <3>1, <3>2
  <2> QED BY <2>1, <2>2, <2>3 DEF AppInv, AppNames
<1>15. LossInv'
  BY <1>1, <1>4, <1>5 DEF FilesInv, LossInv
<1> QED BY <1>8, <1>9, <1>10, <1>11, <1>13, <1>14, <1>15 DEF FilesInv

-----------------------------------------------------------------------------
(* Files that are removed                                                  *)

\* Who has a file open that is to be removed: its client, who stores or builds it, or
\* one who views it.
LEMMA OpenedBy ==
    ASSUME Ram!IInv, FilesInv, NEW e \in Defs, ~Unopened(e)
    PROVE  \E o \in Clients :
              \/ \E k \in Stored : Mode(o, k) # "NA" /\ heap[e].name = Path(o, k)
              \/ Mode(o, "app") # "NA" /\ Building(o) /\ heap[e].name = AppName
              \/ Mode(o, "view") # "NA" /\ file[<<o, "view">>].fd = e /\ OpenName(o, "view") = heap[e].name
<1>1. PICK o \in Clients, k \in Kinds : Mode(o, k) # "NA" /\ file[<<o, k>>].fd = e
  BY DEF Unopened, Handles, Mode
<1>2. OpenName(o, k) = heap[e].name
  BY <1>1 DEF OpenName
<1>3. CASE k \in Stored
  BY <1>1, <1>2, <1>3 DEF FilesInv, HandleInv, StoredOpen
<1>4. CASE k = "app"
  BY <1>1, <1>2, <1>4 DEF FilesInv, HandleInv, AppOpen
<1>5. CASE k = "view"
  BY <1>1, <1>2, <1>5
<1> QED BY <1>3, <1>4, <1>5 DEF Kinds, Stored

\* What the removal of a file leaves to its client.
LEMMA RemovedFacts ==
    ASSUME Ram!IInv, FilesInv, NEW n \in Names, Fs!FRemove(n)
    PROVE  /\ OpenStay /\ NothingNew(n) /\ RestStays(n) /\ BoundStays(n) /\ NoneOpened
           /\ \A e \in Defs : heap'[e].name \in AppNames => heap'[e].name = heap[e].name
           /\ \A m : Bound(m)' => Bound(m) /\ m # n
           /\ halted' => ~Bound(n)
           /\ \A e \in Defs : heap'[e].name \in Names =>
                \/ e \in Dir'
                \/ heap[e].name[1] \in refused /\ heap'[e].name = heap[e].name
                \/ e \in Dir /\ ~Unopened(e) /\ heap[e].name = n /\ heap'[e].name = n
<1>1. /\ Dir' = {e \in Dir : heap[e].name # n} /\ file' = file /\ Drops(n)
      /\ halted' => ~Bound(n)
      /\ \A e \in Dir : heap[e].name = n => heap'[e].name = NoName \/ ~Unopened(e)
  BY Removes
<1>2. OpenStay /\ NothingNew(n) /\ RestStays(n) /\ BoundStays(n)
  BY <1>1, OthersKept
<1>3. NoneOpened
  BY <1>1 DEF NoneOpened, ClosesOnly, Stays
<1>4. \A e \in Defs : heap'[e].name \in Names => heap'[e] = heap[e]
  BY <1>1, NameFacts DEF Drops
<1>5. \A m : Bound(m)' => Bound(m) /\ m # n
  BY <1>1, <1>2 DEF Bound, NothingNew
<1>6. \A e \in Defs : heap'[e].name \in Names =>
                \/ e \in Dir'
                \/ heap[e].name[1] \in refused /\ heap'[e].name = heap[e].name
                \/ e \in Dir /\ ~Unopened(e) /\ heap[e].name = n /\ heap'[e].name = n
  BY <1>1, <1>4, NameFacts DEF FilesInv, LossInv
<1> QED BY <1>1, <1>2, <1>3, <1>4, <1>5, <1>6, NameFacts

LEMMA AppUndoKeeps ==
    ASSUME Ram!IInv, FilesInv, NEW c \in Clients, AppUndo(c)
    PROVE  FilesInv'
<1>1. /\ running = <<c, "undo">> /\ running' = Nobody /\ Mode(c, "app") = "NA"
      /\ UNCHANGED <<stage, filename, view, handler, ajax_id, stored, refused>>
      /\ Fs!FRemove(AppName)
  BY DEF AppUndo, In, Ends, request
<1>2. \A o \in Clients : Building(o) <=> o = c
  BY <1>1, BuildingFacts DEF Building, Build
<1>n. PICK n : n = AppName
  OBVIOUS
<1>3. n \in AppNames /\ n \in Names /\ Bound(n) /\ Claims(c, n) /\ handler[c] = NoName
  <2>1. AppName \in AppNames /\ handler[c] = NoName
    BY <1>2 DEF FilesInv, AppInv, RunInv, StageInv
  <2>2. Claims(c, n)
    BY <1>2, <1>n DEF Claims
  <2> QED BY <1>n, <2>1, <2>2, NameFacts DEF FilesInv, AppInv
<1>4. /\ OpenStay /\ NothingNew(n) /\ RestStays(n) /\ BoundStays(n) /\ NoneOpened
      /\ \A e \in Defs : heap'[e].name \in AppNames => heap'[e].name = heap[e].name
      /\ halted' => ~Bound(n)
      /\ \A e \in Defs : heap'[e].name \in Names =>
           \/ e \in Dir'
           \/ heap[e].name[1] \in refused /\ heap'[e].name = heap[e].name
           \/ e \in Dir /\ ~Unopened(e) /\ heap[e].name = n /\ heap'[e].name = n
  BY <1>1, <1>n, <1>3, RemovedFacts
<1>5. RunInv' /\ \A o \in Clients : ~Building(o)' /\ running' # <<o, "view">>
  BY <1>1, NobodyRuns
<1>6. Types'
  BY <1>1 DEF FilesInv, Types, Path, Running
<1>7. StageInv'
  BY <1>1, <1>4, ViewsClose DEF FilesInv, StageInv, NoneOpened
<1>8. HandleInv'
  <2>1. StoredOpen'
    <3> SUFFICES ASSUME NEW o \in Clients, NEW l \in Stored, Mode(o, l)' # "NA"
                 PROVE  filename'[o][l] # NoName /\ OpenName(o, l)' = Path(o, l)
      BY DEF StoredOpen, Path
    <3> QED BY <1>1, <1>4, StoredOpenStays DEF FilesInv, HandleInv, ClosesOnly, NoneOpened
  <2>2. AppOpen'
    <3>1. \A o \in Clients : Mode(o, "app")' = "NA"
      BY <1>1, <1>2, <1>4, OpenNameStays DEF FilesInv, HandleInv, AppOpen, ClosesOnly, Kinds, NoneOpened
    <3> QED BY <3>1 DEF AppOpen
  <2> QED BY <1>5, <2>1, <2>2 DEF HandleInv, ViewOpen
<1>9. KeptInv' /\ ShareInv'
  BY <1>1, <1>3, <1>4, NameFacts, KeptStays, SharesStay DEF FilesInv, NoneOpened
<1>10. \A o \in Clients, m \in Names \ {n} : Claims(o, m)' <=> Claims(o, m)
  BY <1>1, <1>5, <1>n DEF Claims
<1>11. OwnedInv'
  <2>1. \A o \in Clients, m \in Names \ {n} : Owner(o, m) => \E q \in Clients : Owner(q, m)'
    BY <1>1, <1>10 DEF Owner
  <2> QED BY <1>4, <2>1, OwnersStay DEF FilesInv
<1>12. AppInv'
  <2>1. \A o \in Clients : ~Claims(o, n)'
    <3> SUFFICES ASSUME NEW o \in Clients, handler[o] = n PROVE FALSE
      BY <1>1, <1>5 DEF Claims
    <3>1. Claims(o, n)
      BY DEF Claims
    <3>2. o = c
      BY <1>3, <3>1 DEF FilesInv, AppInv
    <3> QED BY <1>3, <3>2, NameFacts
  <2>2. \A o \in Clients, m \in AppNames : Claims(o, m)' => Claims(o, m) /\ m # n
    BY <1>10, <2>1, NameFacts
  <2> QED BY <1>1, <1>4, <1>5, <2>2, AppsStay DEF FilesInv
<1>13. LossInv'
  <2>1. ASSUME NEW e \in Defs, heap[e].name = n PROVE Unopened(e)
    <3> SUFFICES ASSUME ~Unopened(e) PROVE FALSE
      OBVIOUS
    <3>1. PICK o \in Clients :
              \/ \E k \in Stored : Mode(o, k) # "NA" /\ heap[e].name = Path(o, k)
              \/ Mode(o, "app") # "NA" /\ Building(o) /\ heap[e].name = AppName
              \/ Mode(o, "view") # "NA" /\ file[<<o, "view">>].fd = e /\ OpenName(o, "view") = heap[e].name
      BY OpenedBy
    <3>2. ~ \E k \in Stored : heap[e].name = Path(o, k)
      BY <1>3, <2>1, NameFacts
    <3>3. ~(Mode(o, "app") # "NA" /\ Building(o))
      BY <1>1, <1>2
    <3>4. Mode(o, "view") # "NA" => OpenName(o, "view") # n
      BY <1>2, <1>n DEF FilesInv, HandleInv, ViewOpen
    <3> QED BY <2>1, <3>1, <3>2, <3>3, <3>4
  <2> QED BY <1>1, <1>3, <1>4, <2>1 DEF FilesInv, LossInv
<1> QED BY <1>5, <1>6, <1>7, <1>8, <1>9, <1>11, <1>12, <1>13 DEF FilesInv

\* A refusal is recorded when another client views the file; when the client that
\* removes it has it not open itself, there is no other reason.
LEMMA RefusalFacts ==
    ASSUME Ram!IInv, FilesInv, NEW c \in Clients, NEW n \in Names, Refusals(c, n)
    PROVE  /\ refused \subseteq refused'
           /\ refused' # refused => IsRefused(n) /\ \E o \in Clients \ {c} :
                                        Mode(o, "view") # "NA" /\ OpenName(o, "view") = n
           /\ /\ IsRefused(n) /\ Mode(c, "view") = "NA" /\ ~ \E o \in Clients : Building(o) /\ n = AppName
              /\ \A o \in Clients, k \in Stored : n = Path(o, k) => Mode(o, k) = "NA"
              => n[1] \in refused'
<1>1. refused' = IF IsRefused(n) /\ IsServed(c, n) THEN refused \cup {n[1]} ELSE refused
  BY DEF Refusals
<1>2. IsRefused(n) /\ IsServed(c, n) =>
         \E o \in Clients \ {c} : Mode(o, "view") # "NA" /\ OpenName(o, "view") = n
  <2> SUFFICES ASSUME IsRefused(n), IsServed(c, n)
               PROVE  \E o \in Clients \ {c} : Mode(o, "view") # "NA" /\ OpenName(o, "view") = n
    OBVIOUS
  <2>1. PICK d \in Dir : /\ heap[d].name = n
                         /\ \E o \in Clients \ {c} : Mode(o, "view") # "NA" /\ file[<<o, "view">>].fd = d
    BY RefusedFacts
  <2> QED BY <2>1 DEF OpenName
<1>3. ASSUME IsRefused(n), Mode(c, "view") = "NA", ~ \E o \in Clients : Building(o) /\ n = AppName,
             \A o \in Clients, k \in Stored : n = Path(o, k) => Mode(o, k) = "NA"
      PROVE  IsServed(c, n)
  <2>1. PICK d \in Dir : heap[d].name = n /\ ~Unopened(d)
    BY <1>3, RefusedFacts
  <2>2. PICK o \in Clients :
              \/ \E k \in Stored : Mode(o, k) # "NA" /\ heap[d].name = Path(o, k)
              \/ Mode(o, "app") # "NA" /\ Building(o) /\ heap[d].name = AppName
              \/ Mode(o, "view") # "NA" /\ file[<<o, "view">>].fd = d /\ OpenName(o, "view") = heap[d].name
    BY <2>1, DirFacts, OpenedBy
  <2>3. Mode(o, "view") # "NA" /\ file[<<o, "view">>].fd = d /\ o # c
    BY <1>3, <2>1, <2>2
  <2> QED BY <1>3, <2>1, <2>3, RefusedFacts
<1> QED BY <1>1, <1>2, <1>3

LEMMA CleanRemoveKeeps ==
    ASSUME Ram!IInv, FilesInv, NEW c \in Clients, CleanRemove(c)
    PROVE  FilesInv'
<1>k. PICK k : k = NextFile(c)
  OBVIOUS
<1>n. PICK n : n = filename[c][k]
  OBVIOUS
<1>1. /\ running = <<c, "clean">> /\ k \in Stored /\ Mode(c, k) = "NA"
      /\ Fs!FRemove(n) /\ Refusals(c, n)
      /\ \/ /\ IsRefused(n) /\ k = "headers" /\ running' = Nobody /\ UNCHANGED <<filename, stored>>
         \/ /\ filename' = [filename EXCEPT ![c][k] = NoName]
            /\ stored' = [stored EXCEPT ![c][k] = <<>>]
            /\ ~(IsRefused(n) /\ k = "headers") /\ running' = running
      /\ UNCHANGED <<stage, view, handler, ajax_id>>
  BY <1>k, <1>n DEF CleanRemove, In, Ends, GivesUpOn, Stored
<1>2. /\ Mode(c, "view") = "NA" /\ n # NoName /\ n = Path(c, k) /\ n \in Names /\ n[1] = k
      /\ stage[c] = "clean" /\ k \in Kinds
  <2>1. Mode(c, "view") = "NA" /\ filename[c][k] # NoName
    BY <1>1, <1>k DEF NextFile, Stored
  <2>2. filename[c][k] = Path(c, k)
    BY <1>1, <2>1 DEF FilesInv, Types
  <2> QED BY <1>1, <1>n, <2>1, <2>2, NameFacts DEF FilesInv, RunInv, Stored, Kinds
<1>3. /\ OpenStay /\ NothingNew(n) /\ RestStays(n) /\ BoundStays(n) /\ NoneOpened
      /\ \A e \in Defs : heap'[e].name \in AppNames => heap'[e].name = heap[e].name
      /\ halted' => ~Bound(n)
      /\ \A e \in Defs : heap'[e].name \in Names =>
           \/ e \in Dir'
           \/ heap[e].name[1] \in refused /\ heap'[e].name = heap[e].name
           \/ e \in Dir /\ ~Unopened(e) /\ heap[e].name = n /\ heap'[e].name = n
  BY <1>1, <1>2, RemovedFacts
<1>4. \A o \in Clients : /\ ~Building(o) /\ ~Building(o)' /\ running' # <<o, "view">>
                         /\ \A l \in Stored : running' # <<o, l>>
                         /\ running' = <<o, "clean">> => o = c
  BY <1>1, BuildingFacts, RunningFacts DEF Building
<1>5. /\ refused \subseteq refused'
      /\ IsRefused(n) => k \in refused'
      /\ refused' # refused => \E o \in Clients \ {c} : Mode(o, "view") # "NA" /\ OpenName(o, "view") = n
  <2>1. \A o \in Clients, l \in Stored : n = Path(o, l) => Mode(o, l) = "NA"
    <3> SUFFICES ASSUME NEW o \in Clients, NEW l \in Stored, Path(c, k) = Path(o, l)
                 PROVE  Mode(o, l) = "NA"
      BY <1>2
    <3>1. o = c /\ l = k
      BY <1>1, NameFacts
    <3> QED BY <1>1, <3>1
  <2> QED BY <1>1, <1>2, <1>4, <2>1, RefusalFacts
<1>6. /\ filename'[c][k] \in {NoName, filename[c][k]}
      /\ \A o \in Clients, l \in Stored : o # c \/ l # k => SameNames(o, l)
      /\ filename' \in [Clients -> [Stored -> Names \cup {NoName}]]
      /\ stored' \in [Clients -> [Stored -> Seq(Pieces)]]
  <2>1. /\ filename \in [Clients -> [Stored -> Names \cup {NoName}]]
        /\ stored \in [Clients -> [Stored -> Seq(Pieces)]] /\ <<>> \in Seq(Pieces)
    BY DEF FilesInv, Types
  <2>2. CASE UNCHANGED <<filename, stored>>
    BY <2>1, <2>2 DEF SameNames
  <2>3. CASE filename' = [filename EXCEPT ![c][k] = NoName] /\ stored' = [stored EXCEPT ![c][k] = <<>>]
    BY <1>1, <2>1, <2>3 DEF SameNames
  <2> QED BY <1>1, <2>2, <2>3
<1>7. Types'
  <2>1. \A o \in Clients, l \in Stored : filename'[o][l] \in {NoName, Path(o, l)}
    BY <1>6 DEF FilesInv, Types, SameNames
  <2>2. running' \in Running
    BY <1>1 DEF FilesInv, Types, Running
  <2> QED BY <1>1, <1>6, <2>1, <2>2 DEF FilesInv, Types, Path
<1>8. RunInv' /\ StageInv'
  <2>1. view[c] = NoName
    BY <1>1 DEF FilesInv, RunInv
  <2> QED BY <1>1, <1>2, <1>3, <1>4, <2>1, ViewsClose DEF FilesInv, RunInv, StageInv, NoneOpened
<1>9. HandleInv'
  <2>1. StoredOpen'
    <3> SUFFICES ASSUME NEW o \in Clients, NEW l \in Stored, Mode(o, l)' # "NA"
                 PROVE  filename'[o][l] # NoName /\ OpenName(o, l)' = Path(o, l)
      BY DEF StoredOpen, Path
    <3>1. Mode(o, l) # "NA" /\ filename[o][l] # NoName /\ OpenName(o, l)' = Path(o, l)
      BY <1>3, StoredOpenStays, OpenNameStays DEF FilesInv, HandleInv, ClosesOnly, NoneOpened, Stored, Kinds
    <3> QED BY <1>1, <1>6, <3>1 DEF SameNames
  <2>2. AppOpen'
    <3>1. \A o \in Clients : Mode(o, "app")' = "NA"
      BY <1>3, <1>4, OpenNameStays DEF FilesInv, HandleInv, AppOpen, ClosesOnly, Kinds, NoneOpened
    <3> QED BY <3>1 DEF AppOpen
  <2> QED BY <1>4, <2>1, <2>2 DEF HandleInv, ViewOpen
<1>10. KeptInv'
  <2> SUFFICES ASSUME NEW o \in Clients, NEW l \in Stored PROVE Keeps(o, l)'
    BY DEF KeptInv
  <2>1. CASE o # c \/ l # k
    <3>1. Stays(o, l) /\ Keeps(o, l) /\ SameNames(o, l) /\ Path(o, l) # n
      BY <1>2, <1>3, <1>6, <2>1, NameFacts DEF FilesInv, KeptInv, NoneOpened, ClosesOnly
    <3> QED BY <1>1, <1>3, <1>5, <3>1, KeepsStays
  <2>2. CASE o = c /\ l = k
    <3>1. CASE filename'[c][k] = NoName /\ stored'[c][k] = <<>>
      BY <2>2, <3>1 DEF Keeps
    <3>2. CASE IsRefused(n) /\ k = "headers" /\ UNCHANGED <<filename, stored>>
      BY <1>1, <1>2, <1>5, <1>n, <2>2, <3>2 DEF Keeps
    <3>3. filename' = [filename EXCEPT ![c][k] = NoName] /\ stored' = [stored EXCEPT ![c][k] = <<>>]
          => filename'[c][k] = NoName /\ stored'[c][k] = <<>>
      BY <1>1 DEF FilesInv, Types
    <3> QED BY <1>1, <3>1, <3>2, <3>3
  <2> QED BY <2>1, <2>2
<1>11. \A m : \A o \in Clients : Claims(o, m)' <=> Claims(o, m)
  BY <1>1, <1>4 DEF Claims
<1>12. OwnedInv'
  <2>1. ASSUME NEW o \in Clients, NEW m \in Names \ {n}, Owner(o, m) PROVE Owner(o, m)'
    <3>1. \A l \in Stored : filename[o][l] = m => filename'[o][l] = m
      BY <1>6, <1>n, <2>1 DEF SameNames
    <3> QED BY <1>11, <2>1, <3>1 DEF Owner, Stored
  <2> QED BY <1>3, <2>1, OwnersStay DEF FilesInv
<1>13. AppInv'
  <2>1. \A o \in Clients, m \in AppNames : Claims(o, m)' => Claims(o, m) /\ m # n
    BY <1>1, <1>2, <1>11, NameFacts
  <2> QED BY <1>1, <1>3, <1>4, <2>1, AppsStay DEF FilesInv
<1>14. LossInv'
  <2>1. ASSUME NEW e \in Defs, heap'[e].name \in Names PROVE e \in Dir' \/ heap'[e].name[1] \in refused'
    <3>1. e \in Dir /\ ~Unopened(e) /\ heap[e].name = n => IsRefused(n)
      BY <1>2, RefusedFacts
    <3> QED BY <1>2, <1>3, <1>5, <2>1, <3>1
  <2>2. halted' => "headers" \in refused'
    <3>1. Bound(n) \/ "headers" \in refused
      BY <1>1, <1>2, <1>n DEF FilesInv, KeptInv, Keeps
    <3> QED BY <1>3, <1>5, <3>1
  <2> QED BY <2>1, <2>2 DEF LossInv
<1>15. ShareInv'
  <2>1. ~Shared => refused' = refused
    <3> SUFFICES ASSUME ~Shared, NEW o \in Clients \ {c}, Mode(o, "view") # "NA", OpenName(o, "view") = n
                 PROVE  FALSE
      BY <1>5
    <3>1. n \in {Path(o, "headers"), Path(o, "body"), handler[o]}
      BY DEF FilesInv, ShareInv, Mine
    <3>2. handler[o] \in AppNames \cup {NoName} /\ "headers" \in Stored /\ "body" \in Stored
      BY DEF FilesInv, Types, Stored
    <3> QED BY <1>1, <1>2, <3>1, <3>2, NameFacts
  <2> SUFFICES ASSUME ~Shared PROVE ShareInv'
    BY DEF ShareInv
  <2> QED BY <1>1, <1>3, <2>1, SharesStay DEF FilesInv, NoneOpened
<1> QED BY <1>5, <1>7, <1>8, <1>9, <1>10, <1>12, <1>13, <1>14, <1>15 DEF FilesInv

\* The next request of a client begins with no file, no handler and no view.
LEMMA ServedKeeps ==
    ASSUME Ram!IInv, FilesInv, NEW c \in Clients, Served(c)
    PROVE  FilesInv'
<1>n. PICK n : n = handler[c]
  OBVIOUS
<1>1. /\ running = <<c, "clean">> /\ running' = Nobody /\ NextFile(c) = "none"
      /\ handler' = [handler EXCEPT ![c] = NoName] /\ stage' = [stage EXCEPT ![c] = "receive"]
      /\ UNCHANGED <<filename, view, ajax_id, stored>>
      /\ \/ n # NoName /\ Fs!FRemove(n) /\ Refusals(c, n)
         \/ n = NoName /\ UNCHANGED ramfs /\ UNCHANGED refused
  BY <1>n DEF Served, In, StageGoes, Ends
<1>2. /\ Mode(c, "view") = "NA" /\ \A k \in Stored : filename[c][k] = NoName
      /\ stage[c] = "clean" /\ view[c] = NoName /\ n \in AppNames \cup {NoName}
  <2>1. Mode(c, "view") = "NA"
    BY <1>1 DEF NextFile
  <2>2. filename[c]["headers"] = NoName /\ filename[c]["body"] = NoName
    BY <1>1 DEF NextFile
  <2> QED BY <1>1, <1>n, <2>1, <2>2 DEF FilesInv, RunInv, Types, Stored
<1>3. /\ RunInv' /\ \A o \in Clients : ~Building(o)' /\ ~Building(o) /\ running' # <<o, "view">>
  BY <1>1, NobodyRuns, BuildingFacts, RunningFacts DEF Building
<1>4. \A o \in Clients : /\ stage'[o] = IF o = c THEN "receive" ELSE stage[o]
                         /\ handler'[o] = IF o = c THEN NoName ELSE handler[o]
  BY <1>1 DEF FilesInv, Types
<1>5. /\ \A o \in Clients, m \in Names : Claims(o, m)' <=> o # c /\ Claims(o, m)
      /\ \A o \in Clients : Claims(o, n) /\ n # NoName => o = c
  <2>1. Claims(c, n)
    BY <1>n DEF Claims
  <2>2. \A o \in Clients : Claims(o, n) /\ n # NoName => o = c
    BY <1>2, <2>1 DEF FilesInv, AppInv
  <2>3. \A o \in Clients, m \in Names : Claims(o, m)' <=> o # c /\ Claims(o, m)
    BY <1>3, <1>4, NameFacts DEF Claims
  <2> QED BY <2>2, <2>3
<1>6. /\ OpenStay /\ NothingNew(n) /\ RestStays(n) /\ BoundStays(n) /\ NoneOpened
      /\ \A e \in Defs : heap'[e].name \in AppNames => heap'[e].name = heap[e].name
      /\ halted' => halted
      /\ refused \subseteq refused'
      /\ refused' # refused => \E o \in Clients \ {c} : Mode(o, "view") # "NA" /\ OpenName(o, "view") = n
      /\ \A e \in Defs : heap'[e].name \in Names => e \in Dir' \/ heap'[e].name[1] \in refused'
  <2>1. CASE n = NoName /\ UNCHANGED ramfs /\ UNCHANGED refused
    <3>1. NamesStay /\ BytesStay /\ NoneOpened /\ halted' = halted
      BY <2>1, RamfsStays
    <3>2. /\ OpenStay /\ NothingNew(n) /\ RestStays(n) /\ BoundStays(n)
      BY <2>1, <3>1, NothingRenamed
    <3>3. \A e \in Defs : heap'[e].name \in AppNames => heap'[e].name = heap[e].name
      BY <3>1 DEF NamesStay
    <3>4. LossInv'
      BY <2>1, <3>1, LossesStay DEF FilesInv
    <3> QED BY <2>1, <3>1, <3>2, <3>3, <3>4 DEF LossInv
  <2>2. CASE n # NoName /\ Fs!FRemove(n) /\ Refusals(c, n)
    <3>1. n \in AppNames /\ n \in Names /\ Bound(n)
      BY <1>2, <1>n, <2>2, NameFacts DEF FilesInv, AppInv, Claims
    <3>2. /\ OpenStay /\ NothingNew(n) /\ RestStays(n) /\ BoundStays(n) /\ NoneOpened
          /\ \A e \in Defs : heap'[e].name \in AppNames => heap'[e].name = heap[e].name
          /\ halted' => ~Bound(n)
          /\ \A e \in Defs : heap'[e].name \in Names =>
               \/ e \in Dir'
               \/ heap[e].name[1] \in refused /\ heap'[e].name = heap[e].name
               \/ e \in Dir /\ ~Unopened(e) /\ heap[e].name = n /\ heap'[e].name = n
      BY <2>2, <3>1, RemovedFacts
    <3>3. /\ refused \subseteq refused'
          /\ IsRefused(n) => n[1] \in refused'
          /\ refused' # refused => \E o \in Clients \ {c} : Mode(o, "view") # "NA" /\ OpenName(o, "view") = n
      <4>1. \A o \in Clients, l \in Stored : n # Path(o, l)
        BY <3>1, NameFacts
      <4> QED BY <1>2, <1>3, <2>2, <3>1, <4>1, RefusalFacts
    <3>4. ASSUME NEW e \in Defs, heap'[e].name \in Names
          PROVE  e \in Dir' \/ heap'[e].name[1] \in refused'
      <4>1. e \in Dir /\ ~Unopened(e) /\ heap[e].name = n => IsRefused(n)
        BY <3>1, RefusedFacts
      <4> QED BY <3>2, <3>3, <3>4, <4>1
    <3> QED BY <3>1, <3>2, <3>3, <3>4
  <2> QED BY <1>1, <2>1, <2>2
<1>7. Types'
  BY <1>1 DEF FilesInv, Types, Path, Running, Stages
<1>8. StageInv'
  BY <1>1, <1>2, <1>4, <1>6, ViewsClose DEF FilesInv, StageInv, NoneOpened
<1>9. HandleInv'
  <2>1. StoredOpen'
    <3> SUFFICES ASSUME NEW o \in Clients, NEW l \in Stored, Mode(o, l)' # "NA"
                 PROVE  filename'[o][l] # NoName /\ OpenName(o, l)' = Path(o, l)
      BY DEF StoredOpen, Path
    <3> QED BY <1>1, <1>6, StoredOpenStays DEF FilesInv, HandleInv, ClosesOnly, NoneOpened
  <2>2. AppOpen'
    <3>1. \A o \in Clients : Mode(o, "app")' = "NA"
      BY <1>3, <1>6, OpenNameStays DEF FilesInv, HandleInv, AppOpen, ClosesOnly, Kinds, NoneOpened
    <3> QED BY <3>1 DEF AppOpen
  <2> QED BY <1>3, <2>1, <2>2 DEF HandleInv, ViewOpen
<1>10. KeptInv'
  <2> SUFFICES ASSUME NEW o \in Clients, NEW l \in Stored PROVE Keeps(o, l)'
    BY DEF KeptInv
  <2>1. Stays(o, l) /\ Keeps(o, l) /\ SameNames(o, l) /\ Path(o, l) # n
    BY <1>1, <1>2, <1>6, NameFacts DEF FilesInv, KeptInv, NoneOpened, ClosesOnly, SameNames
  <2>2. (stage[o] = "clean" => stage'[o] = "clean") \/ filename[o][l] = NoName
    BY <1>2, <1>4
  <2> QED BY <1>6, <2>1, <2>2, KeepsStays
<1>11. OwnedInv'
  <2>1. ASSUME NEW o \in Clients, NEW m \in Names \ {n}, Owner(o, m) PROVE Owner(o, m)'
    <3>1. Claims(o, m) => o # c
      BY <1>3, <1>n, <2>1 DEF Claims
    <3> QED BY <1>1, <1>5, <2>1, <3>1 DEF Owner
  <2> QED BY <1>6, <2>1, OwnersStay DEF FilesInv
<1>12. AppInv'
  <2>1. \A o \in Clients, m \in AppNames : Claims(o, m)' => Claims(o, m) /\ m # n
    BY <1>5, NameFacts
  <2> QED BY <1>1, <1>3, <1>6, <2>1, AppsStay DEF FilesInv
<1>13. LossInv'
  BY <1>6 DEF FilesInv, LossInv
<1>14. ShareInv'
  <2> SUFFICES ASSUME ~Shared, NEW o \in Clients
               PROVE  /\ refused' = {}
                      /\ view'[o] # NoName =>
                            view'[o] \in {Path(o, "headers"), Path(o, "body"), handler'[o]}
                      /\ Mode(o, "view")' # "NA" =>
                            OpenName(o, "view")' \in {Path(o, "headers"), Path(o, "body"), handler'[o]}
    BY DEF ShareInv, Mine, Path
  <2>1. refused' = {}
    <3> SUFFICES ASSUME NEW q \in Clients \ {c}, Mode(q, "view") # "NA", OpenName(q, "view") = n
                 PROVE  n = NoName
      <4>1. refused = {}
        BY DEF FilesInv, ShareInv
      <4>2. n = NoName => refused' = refused
        BY <1>1
      <4> QED BY <1>6, <4>1, <4>2
    <3>1. n \in {Path(q, "headers"), Path(q, "body"), handler[q]} /\ "headers" \in Stored /\ "body" \in Stored
      BY DEF FilesInv, ShareInv, Mine, Stored
    <3>2. handler[q] = n => Claims(q, n)
      BY DEF Claims
    <3> QED BY <1>2, <1>5, <3>1, <3>2, NameFacts
  <2>2. Mode(o, "view")' # "NA" => Mode(o, "view") # "NA" /\ OpenName(o, "view")' = OpenName(o, "view")
    BY <1>6, OpenNameStays DEF NoneOpened, ClosesOnly, Kinds
  <2>3. o # c => /\ view[o] # NoName => Mine(o, view[o])
                 /\ Mode(o, "view") # "NA" => Mine(o, OpenName(o, "view"))
    BY DEF FilesInv, ShareInv
  <2>4. CASE o = c
    BY <1>1, <1>2, <2>1, <2>2, <2>4
  <2>5. CASE o # c
    BY <1>1, <1>4, <2>1, <2>2, <2>3, <2>5 DEF Mine
  <2> QED BY <2>4, <2>5
<1> QED BY <1>3, <1>7, <1>8, <1>9, <1>10, <1>11, <1>12, <1>13, <1>14 DEF FilesInv

-----------------------------------------------------------------------------
(* The file system under its users                                         *)

LEMMA InitFiles == Init => FilesInv
<1> SUFFICES ASSUME Init PROVE FilesInv
  OBVIOUS
<1>1. /\ heap = [d \in Defs |-> Fs!Freed] /\ file_ram_def = <<>>
      /\ file = [h \in Clients \X Kinds |-> Fs!Closed] /\ halted = FALSE
  BY DEF Init, Fs!Init
<1>2. Dir = {}
  BY <1>1 DEF Dir, Ram!Listed, Ram!In
<1>3. \A c \in Clients, k \in Kinds : Mode(c, k) = "NA"
  BY <1>1 DEF Mode, Fs!Closed
<1>4. \A d \in Defs : heap[d].name = NoName
  BY <1>1 DEF Fs!Freed
<1>5. Types
  <2>1. 0 \in 0..MaxFiles
    BY BoundsAssumption
  <2> QED BY <2>1 DEF Init, Types, Stages, Running, Stored
<1>6. RunInv /\ \A c \in Clients : ~Building(c)
  BY BuildingFacts, RunningFacts DEF Init, RunInv, Building
<1>7. \A c \in Clients : /\ stage[c] = "receive" /\ handler[c] = NoName /\ view[c] = NoName
                         /\ \A k \in Stored : filename[c][k] = NoName /\ stored[c][k] = <<>>
  BY DEF Init, Stored
<1>8. StageInv /\ HandleInv
  BY <1>3, <1>6, <1>7 DEF StageInv, HandleInv, StoredOpen, AppOpen, ViewOpen, Kinds, Stored
<1>9. KeptInv /\ OwnedInv
  BY <1>2, <1>7 DEF KeptInv, Keeps, OwnedInv, Bound
<1>10. AppInv
  BY <1>4, <1>6, <1>7, NameFacts DEF AppInv, Claims
<1>11. LossInv /\ ShareInv
  BY <1>1, <1>3, <1>4, <1>7, NameFacts DEF LossInv, ShareInv, Kinds, Init
<1> QED BY <1>5, <1>6, <1>8, <1>9, <1>10, <1>11 DEF FilesInv

LEMMA FilesStep ==
    ASSUME Ram!IInv, FilesInv, [Next]_vars
    PROVE  FilesInv'
<1>1. CASE UNCHANGED vars
  <2>1. /\ UNCHANGED ramfs /\ UNCHANGED <<stage, filename, view, handler, ajax_id, stored, refused>>
        /\ running' = running
    BY <1>1 DEF vars, ramfs
  <2>2. /\ heap' = heap /\ file' = file /\ halted' = halted /\ Dir' = Dir
    BY <2>1 DEF ramfs, Dir, Ram!Listed, Ram!In
  <2>3. NamesStay /\ BytesStay /\ NoneOpened
    BY <2>1, RamfsStays
  <2>4. \A c \in Clients : Building(c)' <=> Building(c)
    BY <2>1 DEF Building
  <2>5. Types' /\ RunInv' /\ StageInv'
    BY <2>1, <2>2, <2>4 DEF FilesInv, Types, RunInv, StageInv, Path, Mode
  <2> QED BY <2>1, <2>2, <2>3, <2>4, <2>5, Quiet DEF FilesInv
<1>2. ASSUME NEW c \in Clients, NEW k \in Stored, Create(c, k) \/ Store(c, k) \/ CloseStored(c, k)
      PROVE  FilesInv'
  BY <1>2, CreateKeeps, StoreKeeps, CloseStoredKeeps
<1>3. ASSUME NEW c \in Clients, Received(c) \/ DefaultView(c) \/ AppCreate(c) \/ OpenView(c)
      PROVE  FilesInv'
  BY <1>3, ReceivedKeeps, DefaultViewKeeps, AppCreateKeeps, OpenViewKeeps
<1>4. ASSUME NEW c \in Clients, GiveUp(c) \/ CleanUp(c) PROVE FilesInv'
  BY <1>4, GiveUpKeeps, CleanUpKeeps
<1>5. ASSUME NEW c \in Clients, InHandler(c) PROVE FilesInv'
  <2>1. CASE \E k \in Stored : Reopen(c, k)
    BY <2>1, ReopenKeeps
  <2>2. CASE AppWrite(c) \/ AppClose(c) \/ AppView(c) \/ AppUndo(c)
    BY <2>2, AppWriteKeeps, AppCloseKeeps, AppViewKeeps, AppUndoKeeps
  <2>3. CASE CleanClose(c) \/ CleanRemove(c) \/ Served(c)
    BY <2>3, CleanCloseKeeps, CleanRemoveKeeps, ServedKeeps
  <2> QED BY <1>5, <2>1, <2>2, <2>3 DEF InHandler, Stored
<1> QED BY <1>1, <1>2, <1>3, <1>4, <1>5 DEF Next, Stored

\* Every step is one the file system allows, or none of its.
LEMMA UsesStep ==
    ASSUME FilesInv, [Next]_vars
    PROVE  [Ram!Next]_(Ram!vars)
<1>1. UNCHANGED ramfs => [Ram!Next]_(Ram!vars)
  BY DEF ramfs, Ram!vars
<1>2. \A c \in Clients, k \in Kinds : Handle(c, k) \in Clients \X Kinds
  BY DEF Handle
<1>3. ASSUME NEW h \in Clients \X Kinds, NEW n \in Names,
             Fs!OpenRead(h, n) \/ OpenWrite(h, n) \/ Fs!OpenWriteFails(h, n)
      PROVE  Ram!Next
  <2>1. OpenWrite(h, n) => Ram!OpenWrite(h, n)
    BY Operations DEF OpenWrite, Ram!OpenWrite
  <2> QED BY <1>3, <2>1, Operations DEF Ram!Next
<1>4. ASSUME NEW h \in Clients \X Kinds, Fs!FClose(h) \/ \E p \in Pieces : Fs!FWrite(h, p)
      PROVE  Ram!Next
  BY <1>4, Operations DEF Ram!Next
<1>5. ASSUME NEW n \in Names, Fs!FRemove(n) PROVE Ram!Next
  BY <1>5, Operations DEF Ram!Next
<1>6. \A k \in Stored : k \in Kinds
  BY DEF Stored, Kinds
<1>7. ASSUME NEW c \in Clients, NEW k \in Stored, Create(c, k) \/ Store(c, k) \/ CloseStored(c, k)
      PROVE  Ram!Next
  <2>1. Path(c, k) \in Names
    BY NameFacts
  <2> QED BY <1>2, <1>3, <1>4, <1>6, <1>7, <2>1 DEF Create, Store, CloseStored
<1>8. ASSUME NEW c \in Clients, Received(c) \/ DefaultView(c) \/ GiveUp(c) \/ CleanUp(c) \/ AppView(c)
      PROVE  UNCHANGED ramfs
  BY <1>8 DEF Received, DefaultView, GiveUp, CleanUp, AppView
<1>9. ASSUME NEW c \in Clients, AppCreate(c) \/ AppWrite(c) \/ AppClose(c) \/ AppUndo(c)
      PROVE  Ram!Next \/ UNCHANGED ramfs
  <2>1. "app" \in Kinds
    BY DEF Kinds
  <2>2. AppCreate(c) => OpenWrite(Handle(c, "app"), App(ajax_id + 1)) /\ App(ajax_id + 1) \in Names
    <3>1. ajax_id < MaxFiles => ajax_id + 1 \in 1..MaxFiles
      BY BoundsAssumption DEF FilesInv, Types
    <3> QED BY <3>1, AppFacts, NameFacts DEF AppCreate, App
  <2>3. AppUndo(c) => Fs!FRemove(AppName) /\ AppName \in Names
    <3>1. AppUndo(c) => Building(c)
      BY DEF AppUndo, In, Building, Builds, Build
    <3> QED BY <3>1, NameFacts DEF AppUndo, FilesInv, AppInv
  <2>4. CASE AppCreate(c)
    BY <1>2, <1>3, <2>1, <2>2, <2>4
  <2>5. CASE AppWrite(c) \/ AppClose(c)
    BY <1>2, <1>4, <2>1, <2>5 DEF AppWrite, AppClose
  <2>6. CASE AppUndo(c)
    BY <1>5, <2>3, <2>6
  <2> QED BY <1>9, <2>4, <2>5, <2>6
<1>10. ASSUME NEW c \in Clients, OpenView(c) PROVE Ram!Next \/ UNCHANGED ramfs
  <2>1. view[c] \in Names /\ "view" \in Kinds
    BY <1>10 DEF OpenView, Visit, FilesInv, StageInv, Types, Kinds
  <2> QED BY <1>2, <1>3, <1>10, <2>1 DEF OpenView
<1>11. ASSUME NEW c \in Clients, NEW k \in Stored, Reopen(c, k) PROVE Ram!Next
  <2>1. filename[c][k] \in Names
    BY <1>11, NameFacts DEF Reopen, In, FilesInv, RunInv, Types
  <2> QED BY <1>2, <1>3, <1>6, <1>11, <2>1 DEF Reopen
<1>12. ASSUME NEW c \in Clients, CleanClose(c) \/ CleanRemove(c) \/ Served(c)
       PROVE  Ram!Next \/ UNCHANGED ramfs
  <2>1. CASE CleanClose(c)
    <3>1. NextFile(c) \in Kinds
      BY <2>1 DEF CleanClose, NextFile, Kinds
    <3> QED BY <1>2, <1>4, <2>1, <3>1 DEF CleanClose
  <2>2. CASE CleanRemove(c)
    <3>1. NextFile(c) \in Stored /\ filename[c][NextFile(c)] # NoName
      BY <2>2 DEF CleanRemove, NextFile, Stored
    <3>2. filename[c][NextFile(c)] \in Names
      BY <3>1 DEF FilesInv, Types
    <3> QED BY SMTT(60), <1>5, <2>2, <3>2 DEF CleanRemove
  <2>3. CASE Served(c)
    <3>1. handler[c] # NoName => handler[c] \in Names
      BY NameFacts DEF FilesInv, Types
    <3> QED BY <1>5, <2>3, <3>1 DEF Served, ramfs
  <2> QED BY <1>12, <2>1, <2>2, <2>3
<1>13. UNCHANGED vars => UNCHANGED ramfs
  BY DEF vars, ramfs
<1> QED BY <1>1, <1>7, <1>8, <1>9, <1>10, <1>11, <1>12, <1>13 DEF Next, InHandler, Stored

LEMMA InitRam == Init => Ram!Init
  BY DEF Init, Fs!Init, Ram!Init, Fs!Freed, Ram!Freed, Fs!Closed, Ram!Closed

LEMMA SpecFiles == Spec => [](Ram!IInv /\ FilesInv)
<1>1. Init => Ram!IInv /\ FilesInv
  BY InitRam, InitFiles, Assumed, Ram!InitInv
<1>2. ASSUME Ram!IInv /\ FilesInv, [Next]_vars PROVE (Ram!IInv /\ FilesInv)'
  <2>1. [Ram!Next]_(Ram!vars)
    BY <1>2, UsesStep
  <2>2. Ram!IInv'
    BY <1>2, <2>1, Assumed, Ram!StepKeeps
  <2> QED BY <1>2, <2>2, FilesStep
<1> QED BY <1>1, <1>2, PTL DEF Spec

-----------------------------------------------------------------------------
(* The theorems                                                            *)

\* Whatever the clients do with it, they use the file system only as RamFs allows: what is
\* shown of its counters and its list holds under the server.
THEOREM UsesFileSystem == Spec => Ram!Spec
<1>1. Init => Ram!Init
  BY InitRam
<1>2. Ram!IInv /\ FilesInv /\ [Next]_vars => [Ram!Next]_(Ram!vars)
  BY UsesStep
<1> QED BY <1>1, <1>2, SpecFiles, PTL DEF Spec, Ram!Spec

\* The file of a request is found under its name with what its client stored, whatever
\* the other clients open, create and remove.
THEOREM RequestIntactCorrect == Spec => []RequestIntact
<1>1. Ram!IInv /\ FilesInv => RequestIntact
  <2> SUFFICES ASSUME Ram!IInv, FilesInv, NEW c \in Clients, NEW k \in Stored,
                      filename[c][k] # NoName, stage[c] # "clean"
               PROVE  /\ Fs!Find(Path(c, k)) # 0
                      /\ heap[file_ram_def[Fs!Find(Path(c, k))]].cbuf = stored[c][k]
                      /\ Mode(c, k) # "NA" => file[<<c, k>>].fd = file_ram_def[Fs!Find(Path(c, k))]
    BY DEF RequestIntact, Stored, Handle
  <2>1. PICK d \in Dir : /\ heap[d].name = Path(c, k) /\ heap[d].cbuf = stored[c][k]
                         /\ Mode(c, k) # "NA" => file[<<c, k>>].fd = d
    BY DEF FilesInv, KeptInv, Keeps, Intact
  <2>2. Bound(Path(c, k)) /\ Path(c, k) \in Names
    BY <2>1, NameFacts DEF Bound
  <2>3. Fs!Find(Path(c, k)) # 0 /\ d = file_ram_def[Fs!Find(Path(c, k))]
    BY <2>1, <2>2, RefusedFacts, DirFacts
  <2> QED BY <2>1, <2>3
<1> QED BY <1>1, SpecFiles, PTL

\* No path through a controller or a cleanup forgets a file.
THEOREM OwnedCorrect == Spec => []EveryFileOwned
<1>1. Ram!IInv /\ FilesInv => EveryFileOwned
  <2> SUFFICES ASSUME Ram!IInv, FilesInv, NEW i \in DOMAIN file_ram_def
               PROVE  LET n == heap[file_ram_def[i]].name IN
                      \/ \E c \in Clients : n \in {filename[c]["headers"], filename[c]["body"], handler[c]}
                      \/ running # Nobody /\ running[2] \in Build /\ n = AppName
    BY DEF EveryFileOwned, Build
  <2>1. file_ram_def[i] \in Dir
    BY DEF Dir, Ram!Listed, Ram!In
  <2>2. PICK n \in Names : n = heap[file_ram_def[i]].name /\ Bound(n)
    BY <2>1, DirFacts DEF Bound
  <2>3. PICK c \in Clients : Owner(c, n)
    BY <2>2 DEF FilesInv, OwnedInv
  <2>4. Building(c) => running # Nobody /\ running[2] \in Build
    BY RunningFacts DEF Building, Builds
  <2> QED BY <2>2, <2>3, <2>4 DEF Owner, Claims
<1> QED BY <1>1, SpecFiles, PTL

\* Memory is lost, and a missing file asserted, only as another client was served the
\* file that is removed; never when no client serves the files of others.
THEOREM LossesCorrect == Spec => []OnlySharingLoses
<1>1. Ram!IInv /\ FilesInv => OnlySharingLoses
  <2> SUFFICES ASSUME Ram!IInv, FilesInv PROVE OnlySharingLoses
    OBVIOUS
  <2>1. ASSUME NEW d \in Defs, Lost(d) PROVE heap[d].name[1] \in refused
    <3>1. d \notin Dir /\ heap[d] # Fs!Freed
      BY <2>1 DEF Lost, Dir, Ram!Listed, Ram!In
    <3> QED BY <3>1, DirFacts DEF FilesInv, LossInv
  <2>2. refused # {} => Shared
    BY BoundsAssumption DEF FilesInv, ShareInv
  <2> QED BY <2>1, <2>2 DEF OnlySharingLoses, FilesInv, LossInv
<1> QED BY <1>1, SpecFiles, PTL
=============================================================================
