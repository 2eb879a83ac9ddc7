-------------------------------- MODULE RamFs --------------------------------
(***************************************************************************)
(* The RAM file system (fs.c) behind the file operations (os.c): a linked  *)
(* list of definitions, each with a list of cbufs and two handle counters, *)
(* and the elysian_file_t of its users.                                    *)
(*                                                                         *)
(* Users call any operation the assertions of os.c allow.  An allocation   *)
(* fails or not: memory is shared with everything else.  A failed          *)
(* assertion of fs.c stops the server (`halted').                          *)
(***************************************************************************)
EXTENDS Integers, SequencesExt

CONSTANTS
    Handles,   \* elysian_file_t objects of the users
    Names,     \* paths under the RAM root
    Pieces,    \* what one write stores: a sequence of bytes, not empty
    Defs,      \* addresses of elysian_file_ram_def_t
    NoDef,     \* the null pointer
    NoName,    \* the name of a definition that is not allocated
    MaxPieces, \* bound: writes to one file
    MaxRead    \* bound: bytes asked for by one read, and seek positions

ASSUME PiecesAssumption == \A p \in Pieces : p \in Seq(Nat) /\ p # <<>>
ASSUME HandlesAssumption == IsFiniteSet(Handles)
ASSUME NoDefAssumption  == NoDef \notin Defs
ASSUME NoNameAssumption == NoName \notin Names

VARIABLES
    heap,          \* Defs -> the definition at that address, or Freed
    file_ram_def,  \* the list, first to last
    file,          \* elysian_file_t: mode ("NA" when closed), fd, pos
    halted         \* an assertion stopped the server

vars == <<heap, file_ram_def, file, halted>>

-----------------------------------------------------------------------------
Freed == [name |-> NoName, cbuf |-> <<>>, read_handles |-> 0, write_handles |-> 0]
Closed == [mode |-> "NA", fd |-> NoDef, pos |-> 0]

\* The walk along the list stops at the first definition of that name; 0: none.
At(n, i) == /\ i \in DOMAIN file_ram_def
            /\ heap[file_ram_def[i]].name = n
            /\ \A j \in 1..(i - 1) : heap[file_ram_def[j]].name # n
Find(n) == IF \E i \in DOMAIN file_ram_def : At(n, i)
           THEN CHOOSE i \in DOMAIN file_ram_def : At(n, i) ELSE 0

Idle(d) == heap[d].read_handles = 0 /\ heap[d].write_handles = 0

\* The list and the heap without the definition at position i, if there is one.
\* Mutant: it stays in the list.
UnlinkedNot(i) == file_ram_def
Unlinked(i) == IF i = 0 THEN file_ram_def ELSE RemoveAt(file_ram_def, i)
Free(i) == IF i = 0 THEN heap ELSE [heap EXCEPT ![file_ram_def[i]] = Freed]

-----------------------------------------------------------------------------
(* elysian_fs_fopen                                                        *)

\* Mutant: a reader is let in while the file is being written.
ReadableAlways(d) == TRUE
Readable(d) == heap[d].write_handles = 0

OpenRead(h, n) ==
    /\ ~halted /\ file[h].mode = "NA"
    /\ Find(n) # 0
    /\ LET d == file_ram_def[Find(n)] IN
       /\ Readable(d)
       /\ heap' = [heap EXCEPT ![d].read_handles = @ + 1]
       /\ file' = [file EXCEPT ![h] = [mode |-> "READ", fd |-> d, pos |-> 0]]
    /\ UNCHANGED <<file_ram_def, halted>>

\* A file that nobody has open is removed first.
Replaceable(i) == i # 0 => Idle(file_ram_def[i])

OpenWriteAt(h, n, d) ==
    /\ ~halted /\ file[h].mode = "NA"
    /\ Replaceable(Find(n))
    /\ Free(Find(n))[d] = Freed
    /\ heap' = [Free(Find(n)) EXCEPT ![d] =
                  [name |-> n, cbuf |-> <<>>, read_handles |-> 0, write_handles |-> 1]]
    /\ file' = [file EXCEPT ![h] = [mode |-> "WRITE", fd |-> d, pos |-> 0]]
    /\ file_ram_def' = <<d>> \o Unlinked(Find(n))
    /\ UNCHANGED halted
OpenWrite(h, n) == \E d \in Defs : OpenWriteAt(h, n, d)

\* The new definition or its name cannot be allocated (POLL): the old file is gone.
OpenWriteFails(h, n) ==
    /\ ~halted /\ file[h].mode = "NA"
    /\ Replaceable(Find(n))
    /\ heap' = Free(Find(n))
    /\ file_ram_def' = Unlinked(Find(n))
    /\ UNCHANGED <<file, halted>>

-----------------------------------------------------------------------------
(* elysian_fs_fread, fwrite, fseek, fclose, fremove                        *)

\* The bytes fread copies: it skips the cbufs before pos, then takes n bytes.
Skipped(cbufs, pos) ==
    LET skip[i \in 0..Len(cbufs)] ==
        IF i = 0 THEN [at |-> 1, pos |-> pos]
        ELSE LET s == skip[i - 1] IN
             IF s.at = i /\ s.pos >= Len(cbufs[i]) THEN [at |-> i + 1, pos |-> s.pos - Len(cbufs[i])]
             ELSE s
    IN skip[Len(cbufs)]

\* Mutant: the position inside the first cbuf is not reset for the next one.
CopiedNoReset(cbufs, pos, n) ==
    LET start == Skipped(cbufs, pos)
        copy[i \in (start.at - 1)..Len(cbufs)] ==
            IF i < start.at THEN <<>>
            ELSE LET left == n - Len(copy[i - 1])
                     size == IF Len(cbufs[i]) - start.pos > left THEN left ELSE Len(cbufs[i]) - start.pos
                 IN copy[i - 1] \o SubSeq(cbufs[i], start.pos + 1, start.pos + size)
    IN copy[Len(cbufs)]
Copied(cbufs, pos, n) ==
    LET start == Skipped(cbufs, pos)
        copy[i \in (start.at - 1)..Len(cbufs)] ==
            IF i < start.at THEN <<>>
            ELSE LET from == IF i = start.at THEN start.pos ELSE 0
                     left == n - Len(copy[i - 1])
                     size == IF Len(cbufs[i]) - from > left THEN left ELSE Len(cbufs[i]) - from
                 IN copy[i - 1] \o SubSeq(cbufs[i], from + 1, from + size)
    IN copy[Len(cbufs)]

FRead(h, n) ==
    /\ ~halted /\ file[h].mode = "READ"
    /\ file' = [file EXCEPT ![h].pos = @ + Len(Copied(heap[file[h].fd].cbuf, @, n))]
    /\ UNCHANGED <<heap, file_ram_def, halted>>

FSeek(h, pos) ==
    /\ ~halted /\ file[h].mode = "READ"
    /\ IF pos < Len(FlattenSeq(heap[file[h].fd].cbuf))
       THEN file' = [file EXCEPT ![h].pos = pos] /\ UNCHANGED halted
       ELSE halted' = TRUE /\ UNCHANGED file
    /\ UNCHANGED <<heap, file_ram_def>>

\* One cbuf holds the whole write, or nothing is written (POLL).
FWrite(h, p) ==
    /\ ~halted /\ file[h].mode = "WRITE"
    /\ Len(heap[file[h].fd].cbuf) < MaxPieces
    /\ heap' = [heap EXCEPT ![file[h].fd].cbuf = Append(@, p)]
    /\ UNCHANGED <<file_ram_def, file, halted>>

\* Mutant: the writer is still counted after it closed.
CloseCountedKept(def, mode) == [def EXCEPT !.read_handles = IF mode = "READ" THEN @ - 1 ELSE @]
CloseCounted(def, mode) ==
    IF mode = "READ" THEN [def EXCEPT !.read_handles = @ - 1]
                     ELSE [def EXCEPT !.write_handles = @ - 1]

FClose(h) ==
    /\ ~halted /\ file[h].mode # "NA"
    /\ heap' = [heap EXCEPT ![file[h].fd] = CloseCounted(@, file[h].mode)]
    /\ file' = [file EXCEPT ![h] = Closed]
    /\ UNCHANGED <<file_ram_def, halted>>

\* Unlinked first, then freed unless it is open: a refused removal leaves a
\* definition that no list knows.  A name that is not found fails an assertion.
FRemove(n) ==
    /\ ~halted
    /\ LET i == Find(n) IN
       /\ halted' = (i = 0)
       /\ file_ram_def' = Unlinked(i)
       /\ heap' = IF i = 0 \/ ~Idle(file_ram_def[i]) THEN heap ELSE Free(i)
    /\ UNCHANGED file

-----------------------------------------------------------------------------
Init == /\ heap = [d \in Defs |-> Freed]
        /\ file_ram_def = <<>>
        /\ file = [h \in Handles |-> Closed]
        /\ halted = FALSE

Next == \/ \E h \in Handles, n \in Names :
              OpenRead(h, n) \/ OpenWrite(h, n) \/ OpenWriteFails(h, n)
        \/ \E h \in Handles : FClose(h) \/ \E p \in Pieces : FWrite(h, p)
        \/ \E h \in Handles, n \in 1..MaxRead : FRead(h, n) \/ FSeek(h, n - 1)
        \/ \E n \in Names : FRemove(n)

Spec == Init /\ [][Next]_vars

-----------------------------------------------------------------------------
(* Properties                                                              *)

Definitions == [name : Names \cup {NoName}, cbuf : Seq(Pieces),
                read_handles : Nat, write_handles : Nat]

\* TypeOK: every field of the definitions, of the list and of the files.
TypeOK ==
    /\ heap \in [Defs -> Definitions]
    /\ file_ram_def \in Seq(Defs)
    /\ file \in [Handles -> [mode : {"NA", "READ", "WRITE"}, fd : Defs \cup {NoDef}, pos : Nat]]
    /\ halted \in BOOLEAN

Users(d, mode) == {h \in Handles : file[h].mode = mode /\ file[h].fd = d}

\* HandlesCounted: a definition is freed, or replaced under its name, by what its
\* two counters say (fs.c:71, 279), so they must count exactly the files that
\* point to it: any number of readers, or one writer.  None points to freed memory.
HandlesCounted ==
    \A d \in Defs :
       /\ heap[d].read_handles = Cardinality(Users(d, "READ"))
       /\ heap[d].write_handles = Cardinality(Users(d, "WRITE"))
       /\ heap[d].write_handles = 0 \/ (heap[d].write_handles = 1 /\ heap[d].read_handles = 0)

\* ListSound: the list holds allocated definitions, each once and no two of one
\* name, so that the first one found is the only one (fs.c:36, 256).
ListSound ==
    /\ \A i \in DOMAIN file_ram_def : heap[file_ram_def[i]].name \in Names
    /\ \A i, j \in DOMAIN file_ram_def :
          heap[file_ram_def[i]].name = heap[file_ram_def[j]].name => i = j

\* ReadsMatch: whatever the sizes of the writes and of the reads, fread returns
\* the bytes that follow the position, as many as asked for until the end (fs.c:164).
ReadsMatch ==
    \A h \in Handles, n \in 1..MaxRead :
       file[h].mode = "READ" =>
          LET all == FlattenSeq(heap[file[h].fd].cbuf)
              end == IF file[h].pos + n < Len(all) THEN file[h].pos + n ELSE Len(all)
          IN Copied(heap[file[h].fd].cbuf, file[h].pos, n) = SubSeq(all, file[h].pos + 1, end)

-----------------------------------------------------------------------------
(* What the users see of it                                                *)

InUse == {n \in Names : Find(n) # 0}
ViewOf(h) ==
    IF file[h].mode = "NA" THEN [mode |-> "closed"]
    ELSE LET d == file[h].fd IN
         [mode |-> IF file[h].mode = "READ" THEN "read" ELSE "write",
          name |-> heap[d].name, content |-> heap[d].cbuf,
          linked |-> \E i \in DOMAIN file_ram_def : file_ram_def[i] = d]

Store == INSTANCE FileStore WITH
            files <- [n \in InUse |-> heap[file_ram_def[Find(n)]].cbuf],
            view  <- [h \in Handles |-> ViewOf(h)]

\* ImplementsStore: the RAM file system is a FileStore.  A file stays what its
\* reader opened until it is closed, through removals that are refused, names
\* that are reused and definitions whose memory is allocated again.
ImplementsStore == Store!Spec
==============================================================================
