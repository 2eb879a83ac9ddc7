----------------------------- MODULE RamFsProofs -----------------------------
(***************************************************************************)
(* Theorems about the RAM file system, for every number of files, names,   *)
(* users and definitions, and every content: its handle counters and its   *)
(* list are sound, it is a FileStore, and its reader finds what was        *)
(* written, whatever the chained buffers it is in and the seeks and reads  *)
(* before.                                                                 *)
(***************************************************************************)
EXTENDS RamFs, DataLemmas

-----------------------------------------------------------------------------
(* The inductive invariant                                                 *)

Listed == In(file_ram_def)

\* ListSound again, on the set of the listed definitions.
NamesUnique ==
    /\ Distinct(file_ram_def)
    /\ \A d \in Listed : heap[d].name \in Names
    /\ \A d, e \in Listed : heap[d].name = heap[e].name => d = e

\* The types, but for positions, which depend on what is in the files.
FileType(P) == [mode : {"NA", "READ", "WRITE"}, fd : Defs \cup {NoDef}, pos : P]
TypeInv ==
    /\ heap \in [Defs -> Definitions]
    /\ file_ram_def \in Seq(Defs)
    /\ \E P : 0 \in P /\ file \in [Handles -> FileType(P)]
    /\ halted \in BOOLEAN

\* An open file points to a definition.
OpenFiles == \A h \in Handles : file[h].mode # "NA" => file[h].fd \in Defs
\* What has no name is free.
Named == \A d \in Defs : heap[d].name \in Names \/ heap[d] = Freed

IInv == TypeInv /\ NamesUnique /\ OpenFiles /\ Named /\ HandlesCounted

LEMMA ListSoundIsUnique == TypeInv => (ListSound <=> NamesUnique)
<1> SUFFICES ASSUME TypeInv PROVE ListSound <=> NamesUnique
  OBVIOUS
<1>1. \A i \in DOMAIN file_ram_def : file_ram_def[i] \in Listed
  BY DEF Listed, In
<1>2. \A d \in Listed : \E i \in DOMAIN file_ram_def : d = file_ram_def[i]
  BY DEF Listed, In
<1>3. ASSUME ListSound PROVE NamesUnique
  <2>1. Distinct(file_ram_def)
    BY <1>3 DEF ListSound, Distinct
  <2> QED BY <1>2, <1>3, <2>1 DEF ListSound, NamesUnique
<1>4. ASSUME NamesUnique PROVE ListSound
  BY <1>1, <1>4 DEF ListSound, NamesUnique, Distinct
<1> QED BY <1>3, <1>4

\* Find gives the position of the definition of that name, if it is listed.
LEMMA FindFacts ==
    TypeInv /\ NamesUnique =>
      \A n \in Names :
        /\ Find(n) = 0 => \A d \in Listed : heap[d].name # n
        /\ Find(n) # 0 => /\ Find(n) \in 1..Len(file_ram_def)
                          /\ file_ram_def[Find(n)] \in Listed
                          /\ file_ram_def[Find(n)] \in Defs
                          /\ heap[file_ram_def[Find(n)]].name = n
<1> SUFFICES ASSUME TypeInv, NamesUnique, NEW n \in Names
             PROVE  /\ Find(n) = 0 => \A d \in Listed : heap[d].name # n
                    /\ Find(n) # 0 => /\ Find(n) \in 1..Len(file_ram_def)
                                      /\ file_ram_def[Find(n)] \in Listed
                                      /\ file_ram_def[Find(n)] \in Defs
                                      /\ heap[file_ram_def[Find(n)]].name = n
  OBVIOUS
<1>0. DOMAIN file_ram_def = 1..Len(file_ram_def) /\ file_ram_def \in Seq(Defs)
  BY DEF TypeInv
<1>1. \A i \in DOMAIN file_ram_def : file_ram_def[i] \in Listed
  BY DEF Listed, In
<1>2. \A i \in DOMAIN file_ram_def : heap[file_ram_def[i]].name = n => At(n, i)
  <2> SUFFICES ASSUME NEW i \in DOMAIN file_ram_def, heap[file_ram_def[i]].name = n,
                      NEW j \in 1..(i - 1), heap[file_ram_def[j]].name = n
               PROVE  FALSE
    BY DEF At
  <2>1. j \in DOMAIN file_ram_def /\ j # i
    BY <1>0
  <2> QED BY <1>1, <2>1 DEF NamesUnique, Distinct
<1>3. CASE \E i \in DOMAIN file_ram_def : At(n, i)
  <2>1. At(n, Find(n))
    BY <1>3 DEF Find
  <2>2. Find(n) \in DOMAIN file_ram_def /\ heap[file_ram_def[Find(n)]].name = n
    BY <2>1 DEF At
  <2> QED BY <1>0, <1>1, <2>2
<1>4. CASE ~\E i \in DOMAIN file_ram_def : At(n, i)
  <2>1. Find(n) = 0
    BY <1>4 DEF Find
  <2> QED BY <1>2, <1>4, <2>1 DEF Listed, In
<1> QED BY <1>3, <1>4

\* The definition a name is found at; for the rest, what is unlinked and freed.
LEMMA UnlinkedFacts ==
    ASSUME TypeInv, NamesUnique, NEW n \in Names
    PROVE  /\ Unlinked(Find(n)) \in Seq(Defs)
           /\ Distinct(Unlinked(Find(n)))
           /\ In(Unlinked(Find(n))) = {d \in Listed : heap[d].name # n}
<1>1. file_ram_def \in Seq(Defs)
  BY DEF TypeInv
<1>2. CASE Find(n) = 0
  <2>1. Unlinked(Find(n)) = file_ram_def
    BY <1>2 DEF Unlinked
  <2>2. \A d \in Listed : heap[d].name # n
    BY <1>2, FindFacts
  <2> QED BY <1>1, <2>1, <2>2 DEF NamesUnique, Listed
<1>3. CASE Find(n) # 0
  <2> DEFINE i == Find(n)
  <2>1. /\ i \in 1..Len(file_ram_def) /\ file_ram_def[i] \in Listed
        /\ heap[file_ram_def[i]].name = n
    BY <1>3, FindFacts
  <2>2. Unlinked(i) = RemoveAt(file_ram_def, i)
    BY <1>3 DEF Unlinked
  <2> HIDE DEF i
  <2>3. Distinct(file_ram_def)
    BY DEF NamesUnique
  <2>4. /\ Unlinked(i) \in Seq(Defs) /\ Distinct(Unlinked(i))
        /\ In(Unlinked(i)) = In(file_ram_def) \ {file_ram_def[i]}
    BY <1>1, <2>1, <2>2, <2>3, RemoveAtDistinct
  <2>5. In(file_ram_def) \ {file_ram_def[i]} = {d \in Listed : heap[d].name # n}
    BY <2>1 DEF NamesUnique, Listed
  <2> QED BY <2>4, <2>5 DEF i
<1> QED BY <1>2, <1>3

LEMMA FreedType == Freed \in Definitions
<1>1. <<>> \in Seq(Pieces)
  OBVIOUS
<1> QED BY <1>1 DEF Freed, Definitions

\* Freeing an idle definition leaves every counter alone.
LEMMA FreeFacts ==
    ASSUME TypeInv, NamesUnique, Named, NEW n \in Names, Replaceable(Find(n))
    PROVE  /\ Free(Find(n)) \in [Defs -> Definitions]
           /\ \A d \in Defs : /\ Free(Find(n))[d].read_handles = heap[d].read_handles
                              /\ Free(Find(n))[d].write_handles = heap[d].write_handles
                              /\ Free(Find(n))[d] = Freed \/ Free(Find(n))[d] = heap[d]
           /\ \A d \in Defs : (d \in Listed /\ heap[d].name = n) \/ Free(Find(n))[d] = heap[d]
           /\ \A d \in Listed : heap[d].name = n => Idle(d)
<1>1. heap \in [Defs -> Definitions]
  BY DEF TypeInv
<1>2. CASE Find(n) = 0
  <2>1. Free(Find(n)) = heap
    BY <1>2 DEF Free
  <2> QED BY <1>1, <1>2, <2>1, FindFacts
<1>3. CASE Find(n) # 0
  <2> DEFINE d == file_ram_def[Find(n)]
  <2>1. d \in Listed /\ d \in Defs /\ heap[d].name = n
    BY <1>3, FindFacts
  <2>2. Free(Find(n)) = [heap EXCEPT ![d] = Freed]
    BY <1>3 DEF Free
  <2>3. Idle(d)
    BY <1>3 DEF Replaceable
  <2> HIDE DEF d
  <2>4. Freed.read_handles = 0 /\ Freed.write_handles = 0
    BY DEF Freed
  <2>5. \A e \in Listed : heap[e].name = n => e = d
    BY <2>1 DEF NamesUnique
  <2> QED BY <1>1, <2>1, <2>2, <2>3, <2>4, <2>5, FreedType DEF Idle
<1> QED BY <1>2, <1>3

\* The users of a definition, by any value of file.
UsersOf(files, d, mode) == {h \in Handles : files[h].mode = mode /\ files[h].fd = d}

LEMMA UsersFinite ==
    ASSUME NEW d, NEW mode
    PROVE  /\ IsFiniteSet(Users(d, mode))
           /\ Cardinality(Users(d, mode)) \in Nat
           /\ Cardinality(Users(d, mode)) = 0 <=> Users(d, mode) = {}
<1>1. IsFiniteSet(Users(d, mode))
  BY HandlesAssumption, FS_Subset DEF Users
<1> QED BY <1>1, FS_CardinalityType, FS_EmptySet

LEMMA UserAdded ==
    ASSUME NEW d, NEW mode, NEW h, h \notin Users(d, mode)
    PROVE  Cardinality(Users(d, mode) \cup {h}) = Cardinality(Users(d, mode)) + 1
  BY UsersFinite, FS_AddElement

LEMMA UserGone ==
    ASSUME NEW d, NEW mode, NEW h, h \in Users(d, mode)
    PROVE  Cardinality(Users(d, mode) \ {h}) = Cardinality(Users(d, mode)) - 1
  BY UsersFinite, FS_RemoveElement

-----------------------------------------------------------------------------
(* Every operation keeps the invariant                                     *)

LEMMA DefinitionOps ==
    ASSUME NEW def \in Definitions
    PROVE  /\ \A k \in Nat : /\ [def EXCEPT !.read_handles = k] \in Definitions
                             /\ [def EXCEPT !.write_handles = k] \in Definitions
           /\ \A p \in Pieces : [def EXCEPT !.cbuf = Append(@, p)] \in Definitions
<1>1. def.cbuf \in Seq(Pieces)
  BY DEF Definitions
<1>2. \A p \in Pieces : Append(def.cbuf, p) \in Seq(Pieces)
  BY <1>1
<1> QED BY <1>2 DEF Definitions

\* No listed definition is renamed, and none is added.
LEMMA NamesKept ==
    ASSUME NamesUnique, Distinct(file_ram_def'), In(file_ram_def') \subseteq Listed,
           \A e \in In(file_ram_def') : heap'[e].name = heap[e].name
    PROVE  NamesUnique'
  BY DEF NamesUnique, Listed

LEMMA OpenReadKeeps ==
    ASSUME IInv, NEW h \in Handles, NEW n \in Names, OpenRead(h, n)
    PROVE  IInv'
<1> DEFINE d == file_ram_def[Find(n)]
           f == [mode |-> "READ", fd |-> d, pos |-> 0]
<1> USE DEF IInv
<1>1. Find(n) # 0 /\ file[h].mode = "NA" /\ Readable(d)
  BY DEF OpenRead
<1>2. d \in Listed /\ d \in Defs /\ heap[d].name = n
  BY <1>1, FindFacts
<1>3. /\ heap' = [heap EXCEPT ![d].read_handles = @ + 1]
      /\ file' = [file EXCEPT ![h] = f]
      /\ file_ram_def' = file_ram_def /\ halted' = halted
  BY DEF OpenRead
<1>p. PICK P : 0 \in P /\ file \in [Handles -> FileType(P)]
  BY DEF TypeInv
<1>4. f.mode = "READ" /\ f.fd = d /\ f \in FileType(P)
  BY <1>2, <1>p DEF FileType
<1> HIDE DEF d, f
<1>5. heap \in [Defs -> Definitions] /\ file \in [Handles -> FileType(P)]
  BY <1>p DEF TypeInv
<1>6. \A e \in Defs : /\ heap[e].read_handles \in Nat /\ heap[e].write_handles \in Nat
  BY <1>5 DEF Definitions
<1>7. heap' \in [Defs -> Definitions] /\ file' \in [Handles -> FileType(P)]
  <2>1. heap[d] \in Definitions /\ heap[d].read_handles + 1 \in Nat
    BY <1>2, <1>5, <1>6
  <2>2. [heap[d] EXCEPT !.read_handles = @ + 1] \in Definitions
    BY <2>1, DefinitionOps
  <2> QED BY <1>2, <1>3, <1>4, <1>5, <2>2
<1>8. \A e \in Defs : /\ heap'[e].name = heap[e].name
                      /\ heap'[e].write_handles = heap[e].write_handles
                      /\ heap'[e].read_handles = IF e = d THEN heap[e].read_handles + 1
                                                          ELSE heap[e].read_handles
                      /\ e # d => heap'[e] = heap[e]
  BY <1>2, <1>3, <1>5 DEF Definitions
<1>9. TypeInv'
  BY <1>p, <1>3, <1>7 DEF TypeInv
<1>10. NamesUnique'
  <2>1. Listed \subseteq Defs
    BY DEF TypeInv, Listed, In
  <2> QED BY <1>3, <1>8, <2>1, NamesKept DEF NamesUnique, Listed
<1>11. OpenFiles'
  BY <1>2, <1>3, <1>4, <1>5 DEF OpenFiles
<1>12. Named'
  BY <1>2, <1>8 DEF Named, NamesUnique
<1>13. HandlesCounted'
  <2> SUFFICES ASSUME NEW e \in Defs
               PROVE  /\ heap'[e].read_handles = Cardinality(UsersOf(file', e, "READ"))
                      /\ heap'[e].write_handles = Cardinality(UsersOf(file', e, "WRITE"))
                      /\ heap'[e].write_handles = 0
                         \/ (heap'[e].write_handles = 1 /\ heap'[e].read_handles = 0)
    BY DEF HandlesCounted, Users, UsersOf
  <2>1. /\ UsersOf(file', e, "READ") = IF d = e THEN Users(e, "READ") \cup {h} ELSE Users(e, "READ") \ {h}
        /\ UsersOf(file', e, "WRITE") = Users(e, "WRITE") \ {h}
    BY <1>3, <1>4, <1>5 DEF Users, UsersOf
  <2>2. h \notin Users(e, "READ") /\ h \notin Users(e, "WRITE")
    BY <1>1 DEF Users
  <2>3. UsersOf(file', e, "WRITE") = Users(e, "WRITE")
    BY <2>1, <2>2
  <2>4. CASE d = e
    <3>1. Cardinality(UsersOf(file', e, "READ")) = Cardinality(Users(e, "READ")) + 1
      BY <2>1, <2>2, <2>4, UserAdded
    <3> QED BY <1>1, <1>8, <2>3, <2>4, <3>1 DEF HandlesCounted, Readable
  <2>5. CASE d # e
    <3>1. UsersOf(file', e, "READ") = Users(e, "READ")
      BY <2>1, <2>2, <2>5
    <3> QED BY <1>8, <2>3, <2>5, <3>1 DEF HandlesCounted
  <2> QED BY <2>4, <2>5
<1> QED BY <1>9, <1>10, <1>11, <1>12, <1>13

LEMMA OpenWriteKeeps ==
    ASSUME IInv, NEW h \in Handles, NEW n \in Names, NEW d \in Defs, OpenWriteAt(h, n, d)
    PROVE  IInv'
<1> DEFINE i == Find(n)
           f == [mode |-> "WRITE", fd |-> d, pos |-> 0]
           new == [name |-> n, cbuf |-> <<>>, read_handles |-> 0, write_handles |-> 1]
           rest == Free(i)
<1> USE DEF IInv
<1>1. file[h].mode = "NA" /\ Replaceable(i) /\ rest[d] = Freed
  BY DEF OpenWriteAt
<1>2. /\ heap' = [rest EXCEPT ![d] = new]
      /\ file' = [file EXCEPT ![h] = f]
      /\ file_ram_def' = <<d>> \o Unlinked(i) /\ halted' = halted
  BY DEF OpenWriteAt
<1>3. /\ Unlinked(i) \in Seq(Defs) /\ Distinct(Unlinked(i))
      /\ In(Unlinked(i)) = {e \in Listed : heap[e].name # n}
  BY UnlinkedFacts
<1>4. /\ rest \in [Defs -> Definitions]
      /\ \A e \in Defs : /\ rest[e].read_handles = heap[e].read_handles
                         /\ rest[e].write_handles = heap[e].write_handles
                         /\ rest[e] = Freed \/ rest[e] = heap[e]
      /\ \A e \in Defs : (e \in Listed /\ heap[e].name = n) \/ rest[e] = heap[e]
  BY <1>1, FreeFacts
<1>p. PICK P : 0 \in P /\ file \in [Handles -> FileType(P)]
  BY DEF TypeInv
<1>5. f.mode = "WRITE" /\ f.fd = d /\ f \in FileType(P)
  BY <1>p DEF FileType
<1>6. new \in Definitions /\ new.name = n /\ new.read_handles = 0 /\ new.write_handles = 1
  <2>1. <<>> \in Seq(Pieces)
    OBVIOUS
  <2> QED BY <2>1 DEF Definitions
<1> HIDE DEF i, f, new, rest
<1>7. file \in [Handles -> FileType(P)] /\ Listed \subseteq Defs
  BY <1>p DEF TypeInv, Listed, In
<1>8. heap' \in [Defs -> Definitions] /\ file' \in [Handles -> FileType(P)]
  BY <1>2, <1>4, <1>5, <1>6, <1>7
<1>9. heap'[d] = new /\ \A e \in Defs : e # d => heap'[e] = rest[e]
  BY <1>2, <1>4
<1>10. d \notin In(Unlinked(i))
  <2> SUFFICES ASSUME d \in Listed, heap[d].name # n PROVE FALSE
    BY <1>3
  <2>1. heap[d] = Freed
    BY <1>1, <1>4
  <2>2. heap[d].name \in Names
    BY DEF NamesUnique
  <2> QED BY <2>1, <2>2, NoNameAssumption DEF Freed
<1>11. /\ file_ram_def' \in Seq(Defs) /\ Distinct(file_ram_def')
       /\ In(file_ram_def') = {e \in Listed : heap[e].name # n} \cup {d}
  BY <1>2, <1>3, <1>10, PrependDistinct
<1>12. TypeInv'
  BY <1>p, <1>2, <1>8, <1>11 DEF TypeInv
<1>13. NamesUnique'
  <2>1. \A e \in In(file_ram_def') : e = d \/ (e \in Listed /\ heap[e].name # n /\ heap'[e].name = heap[e].name)
    BY <1>4, <1>7, <1>9, <1>11
  <2>2. heap'[d].name = n
    BY <1>6, <1>9
  <2> QED BY <1>11, <2>1, <2>2 DEF NamesUnique, Listed
<1>14. OpenFiles'
  BY <1>2, <1>5, <1>7 DEF OpenFiles
<1>15. Named'
  BY <1>4, <1>6, <1>9 DEF Named
<1>16. HandlesCounted'
  <2> SUFFICES ASSUME NEW e \in Defs
               PROVE  /\ heap'[e].read_handles = Cardinality(UsersOf(file', e, "READ"))
                      /\ heap'[e].write_handles = Cardinality(UsersOf(file', e, "WRITE"))
                      /\ heap'[e].write_handles = 0
                         \/ (heap'[e].write_handles = 1 /\ heap'[e].read_handles = 0)
    BY DEF HandlesCounted, Users, UsersOf
  <2>1. /\ UsersOf(file', e, "WRITE") = IF d = e THEN Users(e, "WRITE") \cup {h} ELSE Users(e, "WRITE") \ {h}
        /\ UsersOf(file', e, "READ") = Users(e, "READ") \ {h}
    BY <1>2, <1>5, <1>7 DEF Users, UsersOf
  <2>2. h \notin Users(e, "READ") /\ h \notin Users(e, "WRITE")
    BY <1>1 DEF Users
  <2>3. UsersOf(file', e, "READ") = Users(e, "READ")
    BY <2>1, <2>2
  <2>4. CASE d = e
    <3>1. Cardinality(UsersOf(file', e, "WRITE")) = Cardinality(Users(e, "WRITE")) + 1
      BY <2>1, <2>2, <2>4, UserAdded
    <3>2. heap[e].read_handles = 0 /\ heap[e].write_handles = 0
      BY <1>1, <1>4, <2>4 DEF Freed
    <3> QED BY <1>6, <1>9, <2>3, <2>4, <3>1, <3>2 DEF HandlesCounted
  <2>5. CASE d # e
    <3>1. UsersOf(file', e, "WRITE") = Users(e, "WRITE")
      BY <2>1, <2>2, <2>5
    <3> QED BY <1>4, <1>9, <2>3, <2>5, <3>1 DEF HandlesCounted
  <2> QED BY <2>4, <2>5
<1> QED BY <1>12, <1>13, <1>14, <1>15, <1>16

\* The list shrinks and definitions are freed that nobody has open.
LEMMA RemovalKeeps ==
    ASSUME IInv, NEW n \in Names, file' = file, halted' \in BOOLEAN,
           file_ram_def' = Unlinked(Find(n)),
           heap' = heap \/ (Replaceable(Find(n)) /\ heap' = Free(Find(n)))
    PROVE  IInv'
<1> USE DEF IInv
<1>1. /\ file_ram_def' \in Seq(Defs) /\ Distinct(file_ram_def')
      /\ In(file_ram_def') = {e \in Listed : heap[e].name # n}
  BY UnlinkedFacts
<1>2. /\ heap' \in [Defs -> Definitions]
      /\ \A e \in Defs : /\ heap'[e].read_handles = heap[e].read_handles
                         /\ heap'[e].write_handles = heap[e].write_handles
                         /\ heap'[e] = Freed \/ heap'[e] = heap[e]
      /\ \A e \in Defs : (e \in Listed /\ heap[e].name = n) \/ heap'[e] = heap[e]
  <2>1. CASE heap' = heap
    BY <2>1 DEF TypeInv
  <2>2. CASE Replaceable(Find(n)) /\ heap' = Free(Find(n))
    BY <2>2, FreeFacts
  <2> QED BY <2>1, <2>2
<1>3. TypeInv'
  BY <1>1, <1>2 DEF TypeInv
<1>4. NamesUnique'
  <2>1. Listed \subseteq Defs
    BY DEF TypeInv, Listed, In
  <2>2. In(file_ram_def') \subseteq Listed /\ \A e \in In(file_ram_def') : heap'[e].name = heap[e].name
    BY <1>1, <1>2, <2>1
  <2> QED BY <1>1, <2>2, NamesKept
<1>5. OpenFiles' /\ Named'
  BY <1>2 DEF OpenFiles, Named
<1>6. HandlesCounted'
  <2> SUFFICES ASSUME NEW e \in Defs
               PROVE  /\ heap'[e].read_handles = Cardinality(UsersOf(file', e, "READ"))
                      /\ heap'[e].write_handles = Cardinality(UsersOf(file', e, "WRITE"))
                      /\ heap'[e].write_handles = 0
                         \/ (heap'[e].write_handles = 1 /\ heap'[e].read_handles = 0)
    BY DEF HandlesCounted, Users, UsersOf
  <2>1. UsersOf(file', e, "READ") = Users(e, "READ") /\ UsersOf(file', e, "WRITE") = Users(e, "WRITE")
    BY DEF Users, UsersOf
  <2> QED BY <1>2, <2>1 DEF HandlesCounted
<1> QED BY <1>3, <1>4, <1>5, <1>6

LEMMA FWriteKeeps ==
    ASSUME IInv, NEW h \in Handles, NEW p \in Pieces, FWrite(h, p)
    PROVE  IInv'
<1> DEFINE d == file[h].fd
<1> USE DEF IInv
<1>1. /\ heap' = [heap EXCEPT ![d].cbuf = Append(@, p)] /\ file[h].mode = "WRITE"
      /\ file' = file /\ file_ram_def' = file_ram_def /\ halted' = halted
  BY DEF FWrite
<1>2. d \in Defs
  BY <1>1 DEF OpenFiles
<1> HIDE DEF d
<1>3. heap \in [Defs -> Definitions]
  BY DEF TypeInv
<1>4. heap' \in [Defs -> Definitions]
  <2>1. [heap[d] EXCEPT !.cbuf = Append(@, p)] \in Definitions
    BY <1>2, <1>3, DefinitionOps
  <2> QED BY <1>1, <1>2, <1>3, <2>1
<1>5. \A e \in Defs : /\ heap'[e].name = heap[e].name
                      /\ heap'[e].read_handles = heap[e].read_handles
                      /\ heap'[e].write_handles = heap[e].write_handles
                      /\ e # d => heap'[e] = heap[e]
  BY <1>1, <1>2, <1>3 DEF Definitions
<1>6. TypeInv'
  BY <1>1, <1>4 DEF TypeInv
<1>7. NamesUnique'
  <2>1. Listed \subseteq Defs
    BY DEF TypeInv, Listed, In
  <2> QED BY <1>1, <1>5, <2>1, NamesKept DEF NamesUnique, Listed
<1>8. Named'
  <2>1. heap[d] # Freed
    <3>1. h \in Users(d, "WRITE")
      BY <1>1 DEF Users, d
    <3>2. heap[d].write_handles # 0
      BY <1>2, <3>1, UsersFinite DEF HandlesCounted
    <3> QED BY <3>2 DEF Freed
  <2> QED BY <1>2, <1>5, <2>1 DEF Named
<1>9. HandlesCounted'
  <2> SUFFICES ASSUME NEW e \in Defs
               PROVE  /\ heap'[e].read_handles = Cardinality(UsersOf(file', e, "READ"))
                      /\ heap'[e].write_handles = Cardinality(UsersOf(file', e, "WRITE"))
                      /\ heap'[e].write_handles = 0
                         \/ (heap'[e].write_handles = 1 /\ heap'[e].read_handles = 0)
    BY DEF HandlesCounted, Users, UsersOf
  <2>1. UsersOf(file', e, "READ") = Users(e, "READ") /\ UsersOf(file', e, "WRITE") = Users(e, "WRITE")
    BY <1>1 DEF Users, UsersOf
  <2> QED BY <1>5, <2>1 DEF HandlesCounted
<1>10. OpenFiles'
  BY <1>1 DEF OpenFiles
<1> QED BY <1>6, <1>7, <1>8, <1>9, <1>10

LEMMA FCloseKeeps ==
    ASSUME IInv, NEW h \in Handles, FClose(h)
    PROVE  IInv'
<1> DEFINE d == file[h].fd
           m == file[h].mode
<1> USE DEF IInv
<1>1. /\ heap' = [heap EXCEPT ![d] = CloseCounted(@, m)] /\ m # "NA"
      /\ file' = [file EXCEPT ![h] = Closed] /\ file_ram_def' = file_ram_def /\ halted' = halted
  BY DEF FClose
<1>2. d \in Defs
  BY <1>1 DEF OpenFiles
<1>3. m \in {"READ", "WRITE"}
  <2>1. PICK P : file \in [Handles -> FileType(P)]
    BY DEF TypeInv
  <2> QED BY <1>1, <2>1 DEF FileType
<1>4. h \in Users(d, m)
  BY DEF Users
<1> HIDE DEF d, m
<1>p. PICK P : 0 \in P /\ file \in [Handles -> FileType(P)]
  BY DEF TypeInv
<1>5. heap \in [Defs -> Definitions] /\ file \in [Handles -> FileType(P)] /\ Closed \in FileType(P)
  BY <1>p DEF TypeInv, FileType, Closed
<1>6. \A e \in Defs : heap[e].read_handles \in Nat /\ heap[e].write_handles \in Nat
  BY <1>5 DEF Definitions
<1>7. \A mode : Cardinality(Users(d, mode)) \in Nat /\ (Cardinality(Users(d, mode)) = 0 <=> Users(d, mode) = {})
  BY UsersFinite
<1>8. CloseCounted(heap[d], m) \in Definitions
  <2>1. CASE m = "READ"
    <3>1. heap[d].read_handles - 1 \in Nat
      BY <1>2, <1>4, <1>7, <2>1 DEF HandlesCounted
    <3> QED BY <1>2, <1>5, <2>1, <3>1, DefinitionOps DEF CloseCounted
  <2>2. CASE m = "WRITE"
    <3>1. heap[d].write_handles - 1 \in Nat
      BY <1>2, <1>4, <1>7, <2>2 DEF HandlesCounted
    <3> QED BY <1>2, <1>5, <2>2, <3>1, DefinitionOps DEF CloseCounted
  <2> QED BY <1>3, <2>1, <2>2
<1>9. heap' \in [Defs -> Definitions] /\ file' \in [Handles -> FileType(P)]
  BY <1>1, <1>2, <1>5, <1>8
<1>10. /\ heap'[d].name = heap[d].name
       /\ heap'[d].read_handles = IF m = "READ" THEN heap[d].read_handles - 1 ELSE heap[d].read_handles
       /\ heap'[d].write_handles = IF m = "WRITE" THEN heap[d].write_handles - 1 ELSE heap[d].write_handles
       /\ \A e \in Defs : e # d => heap'[e] = heap[e]
  BY <1>1, <1>2, <1>3, <1>5 DEF CloseCounted, Definitions
<1>11. TypeInv'
  BY <1>p, <1>1, <1>9 DEF TypeInv
<1>12. NamesUnique'
  <2>1. Listed \subseteq Defs
    BY DEF TypeInv, Listed, In
  <2> QED BY <1>1, <1>10, <2>1, NamesKept DEF NamesUnique, Listed
<1>13. OpenFiles'
  BY <1>1, <1>5 DEF OpenFiles, Closed
<1>14. Named'
  <2>1. heap[d] # Freed
    BY <1>2, <1>3, <1>4, <1>7 DEF HandlesCounted, Freed
  <2> QED BY <1>2, <1>10, <2>1 DEF Named
<1>15. HandlesCounted'
  <2> SUFFICES ASSUME NEW e \in Defs
               PROVE  /\ heap'[e].read_handles = Cardinality(UsersOf(file', e, "READ"))
                      /\ heap'[e].write_handles = Cardinality(UsersOf(file', e, "WRITE"))
                      /\ heap'[e].write_handles = 0
                         \/ (heap'[e].write_handles = 1 /\ heap'[e].read_handles = 0)
    BY DEF HandlesCounted, Users, UsersOf
  <2>1. \A mode \in {"READ", "WRITE"} : UsersOf(file', e, mode) = Users(e, mode) \ {h}
    <3> SUFFICES ASSUME NEW mode \in {"READ", "WRITE"} PROVE UsersOf(file', e, mode) = Users(e, mode) \ {h}
      OBVIOUS
    <3>1. Closed.mode # mode
      BY DEF Closed
    <3> QED BY <1>1, <1>5, <3>1 DEF Users, UsersOf
  <2>2. \A mode \in {"READ", "WRITE"} : h \in Users(e, mode) => mode = m /\ e = d
    BY DEF Users, m, d
  <2>3. CASE e = d
    <3>1. Cardinality(Users(d, m) \ {h}) = Cardinality(Users(d, m)) - 1
      BY <1>4, UserGone
    <3>2. CASE m = "READ"
      <4>1. UsersOf(file', e, "WRITE") = Users(e, "WRITE")
        BY <2>1, <2>2, <3>2
      <4>2. heap[d].write_handles = 0
        BY <1>2, <1>4, <1>7, <3>2 DEF HandlesCounted
      <4> QED BY <1>10, <2>1, <2>3, <3>1, <3>2, <4>1, <4>2 DEF HandlesCounted
    <3>3. CASE m = "WRITE"
      <4>1. UsersOf(file', e, "READ") = Users(e, "READ")
        BY <2>1, <2>2, <3>3
      <4>2. heap[d].write_handles = 1
        BY <1>2, <1>4, <1>7, <3>3 DEF HandlesCounted
      <4>3. /\ Cardinality(Users(d, "WRITE")) = heap[d].write_handles
            /\ Cardinality(Users(d, "READ")) = heap[d].read_handles
        BY <1>2 DEF HandlesCounted
      <4>4. heap'[d].write_handles = 0 /\ heap'[d].read_handles = heap[d].read_handles
        BY <1>10, <3>3, <4>2
      <4>5. Cardinality(UsersOf(file', e, "WRITE")) = 0
        BY <2>1, <2>3, <3>1, <3>3, <4>2, <4>3
      <4> QED BY <2>3, <4>1, <4>3, <4>4, <4>5
    <3> QED BY <1>3, <3>2, <3>3
  <2>4. CASE e # d
    <3>1. \A mode \in {"READ", "WRITE"} : UsersOf(file', e, mode) = Users(e, mode)
      BY <2>1, <2>2, <2>4
    <3> QED BY <1>10, <2>4, <3>1 DEF HandlesCounted
  <2> QED BY <2>3, <2>4
<1> QED BY <1>11, <1>12, <1>13, <1>14, <1>15

\* A read or a seek moves the position of one file.
LEMMA PositionKeeps ==
    ASSUME IInv, NEW h \in Handles, NEW k, halted' \in BOOLEAN,
           file' = file \/ file' = [file EXCEPT ![h].pos = k],
           heap' = heap, file_ram_def' = file_ram_def
    PROVE  IInv'
<1> USE DEF IInv
<1>1. PICK P : 0 \in P /\ file \in [Handles -> FileType(P)]
  BY DEF TypeInv
<1>2. /\ file' \in [Handles -> FileType(P \cup {k})]
      /\ \A g \in Handles : file'[g].mode = file[g].mode /\ file'[g].fd = file[g].fd
  BY <1>1 DEF FileType
<1>3. TypeInv' /\ NamesUnique'
  BY <1>1, <1>2 DEF TypeInv, NamesUnique, Listed
<1>4. HandlesCounted'
  <2> SUFFICES ASSUME NEW e \in Defs
               PROVE  /\ heap'[e].read_handles = Cardinality(UsersOf(file', e, "READ"))
                      /\ heap'[e].write_handles = Cardinality(UsersOf(file', e, "WRITE"))
                      /\ heap'[e].write_handles = 0
                         \/ (heap'[e].write_handles = 1 /\ heap'[e].read_handles = 0)
    BY DEF HandlesCounted, Users, UsersOf
  <2>1. UsersOf(file', e, "READ") = Users(e, "READ") /\ UsersOf(file', e, "WRITE") = Users(e, "WRITE")
    BY <1>2 DEF Users, UsersOf
  <2> QED BY <2>1 DEF HandlesCounted
<1>5. OpenFiles' /\ Named'
  BY <1>2 DEF OpenFiles, Named
<1> QED BY <1>3, <1>4, <1>5

LEMMA InitInv == Init => IInv
<1> SUFFICES ASSUME Init PROVE IInv
  OBVIOUS
<1> USE DEF Init
<1>1. file_ram_def = <<>> /\ DOMAIN file_ram_def = {}
  OBVIOUS
<1>2. TypeInv
  <2>1. file_ram_def \in Seq(Defs)
    BY <1>1
  <2>2. heap \in [Defs -> Definitions]
    BY FreedType
  <2>3. file \in [Handles -> FileType({0})]
    BY DEF FileType, Closed
  <2> QED BY <2>1, <2>2, <2>3 DEF TypeInv
<1>3. NamesUnique
  BY <1>1 DEF NamesUnique, Distinct, Listed, In
<1>4. OpenFiles /\ Named
  BY DEF OpenFiles, Named, Closed
<1>5. HandlesCounted
  <2>1. \A d \in Defs : Users(d, "READ") = {} /\ Users(d, "WRITE") = {}
    BY DEF Users, Closed
  <2> QED BY <2>1, FS_EmptySet DEF HandlesCounted, Freed
<1> QED BY <1>2, <1>3, <1>4, <1>5 DEF IInv

LEMMA StepKeeps == IInv /\ [Next]_vars => IInv'
<1> SUFFICES ASSUME IInv, [Next]_vars PROVE IInv'
  OBVIOUS
<1>0. TypeInv
  BY DEF IInv
<1>1. CASE UNCHANGED vars
  <2>1. heap' = heap /\ file_ram_def' = file_ram_def /\ file' = file /\ halted' = halted
    BY <1>1 DEF vars
  <2>2. TypeInv' /\ NamesUnique'
    BY <2>1 DEF IInv, TypeInv, NamesUnique, Listed
  <2>3. OpenFiles' /\ Named' /\ HandlesCounted'
    BY <2>1 DEF IInv, OpenFiles, Named, HandlesCounted, Users
  <2> QED BY <2>2, <2>3 DEF IInv
<1>2. ASSUME NEW h \in Handles, NEW n \in Names, OpenRead(h, n) PROVE IInv'
  BY <1>2, OpenReadKeeps
<1>3. ASSUME NEW h \in Handles, NEW n \in Names, OpenWrite(h, n) PROVE IInv'
  BY <1>3, OpenWriteKeeps DEF OpenWrite
<1>4. ASSUME NEW h \in Handles, NEW n \in Names, OpenWriteFails(h, n) PROVE IInv'
  <2>1. /\ file' = file /\ halted' \in BOOLEAN /\ file_ram_def' = Unlinked(Find(n))
        /\ Replaceable(Find(n)) /\ heap' = Free(Find(n))
    BY <1>0, <1>4 DEF OpenWriteFails, TypeInv
  <2> QED BY <2>1, RemovalKeeps
<1>5. ASSUME NEW h \in Handles, NEW p \in Pieces, FWrite(h, p) PROVE IInv'
  BY <1>5, FWriteKeeps
<1>6. ASSUME NEW h \in Handles, FClose(h) PROVE IInv'
  BY <1>6, FCloseKeeps
<1>7. ASSUME NEW h \in Handles, NEW n \in 1..MaxRead, FRead(h, n) PROVE IInv'
  <2> DEFINE k == file[h].pos + Len(Copied(heap[file[h].fd].cbuf, file[h].pos, n))
  <2>1. file' = [file EXCEPT ![h].pos = k]
    BY <1>0, <1>7 DEF FRead, TypeInv, FileType
  <2>2. heap' = heap /\ file_ram_def' = file_ram_def /\ halted' \in BOOLEAN
    BY <1>0, <1>7 DEF FRead, TypeInv
  <2> HIDE DEF k
  <2>3. PICK m : file' = [file EXCEPT ![h].pos = m]
    BY <2>1
  <2>4. /\ file' = file \/ file' = [file EXCEPT ![h].pos = m]
        /\ heap' = heap /\ file_ram_def' = file_ram_def /\ halted' \in BOOLEAN
    BY <2>2, <2>3
  <2> QED BY <2>4, PositionKeeps
<1>8. ASSUME NEW h \in Handles, NEW n \in 1..MaxRead, FSeek(h, n - 1) PROVE IInv'
  <2>1. /\ file' = file \/ file' = [file EXCEPT ![h].pos = n - 1]
        /\ heap' = heap /\ file_ram_def' = file_ram_def /\ halted' \in BOOLEAN
    BY <1>0, <1>8 DEF FSeek, TypeInv
  <2> QED BY <2>1, PositionKeeps
<1>9. ASSUME NEW n \in Names, FRemove(n) PROVE IInv'
  <2>1. /\ file' = file /\ file_ram_def' = Unlinked(Find(n)) /\ halted' \in BOOLEAN
        /\ heap' = heap \/ (Replaceable(Find(n)) /\ heap' = Free(Find(n)))
    BY <1>9 DEF FRemove, Replaceable
  <2> QED BY <2>1, RemovalKeeps
<1> QED BY <1>1, <1>2, <1>3, <1>4, <1>5, <1>6, <1>7, <1>8, <1>9 DEF Next

LEMMA SpecInv == Spec => []IInv
<1> QED BY InitInv, StepKeeps, PTL DEF Spec

-----------------------------------------------------------------------------
(* The theorems                                                            *)

\* The counters fopen, fclose and fremove decide by are exactly the files open on
\* the definition, whatever number of files, names and definitions there are.
THEOREM HandlesCorrect == Spec => []HandlesCounted
<1>1. IInv => HandlesCounted
  BY DEF IInv
<1> QED BY <1>1, SpecInv, PTL

\* The list never names a file twice and never holds freed memory.
THEOREM ListCorrect == Spec => []ListSound
<1>1. IInv => ListSound
  BY ListSoundIsUnique DEF IInv
<1> QED BY <1>1, SpecInv, PTL

-----------------------------------------------------------------------------
(* What the operations do, as their users see it                           *)

LEMMA UsersCounted ==
    ASSUME IInv, NEW g \in Handles, file[g].mode # "NA"
    PROVE  LET d == file[g].fd IN
           /\ d \in Defs /\ file[g].mode \in {"READ", "WRITE"}
           /\ file[g].mode = "READ" => heap[d].read_handles # 0 /\ heap[d].write_handles = 0
           /\ file[g].mode = "WRITE" =>
                /\ heap[d].write_handles # 0
                /\ \A k \in Handles : file[k].mode # "NA" /\ file[k].fd = d => k = g
<1> USE DEF IInv
<1>1. \A k \in Handles : file[k].mode \in {"NA", "READ", "WRITE"}
  <2>1. PICK P : file \in [Handles -> FileType(P)]
    BY DEF TypeInv
  <2> QED BY <2>1 DEF FileType
<1>2. PICK d \in Defs : d = file[g].fd
  BY DEF OpenFiles
<1>3. CASE file[g].mode = "READ"
  <2>1. g \in Users(d, "READ")
    BY <1>2, <1>3 DEF Users
  <2>2. heap[d].read_handles # 0
    BY <2>1, UsersFinite DEF HandlesCounted
  <2> QED BY <1>2, <1>3, <2>2 DEF HandlesCounted
<1>4. CASE file[g].mode = "WRITE"
  <2>1. g \in Users(d, "WRITE")
    BY <1>2, <1>4 DEF Users
  <2>2. heap[d].write_handles # 0
    BY <2>1, UsersFinite DEF HandlesCounted
  <2>3. Cardinality(Users(d, "WRITE")) = 1 /\ Cardinality(Users(d, "READ")) = 0
    BY <2>2 DEF HandlesCounted
  <2>4. Users(d, "READ") = {}
    BY <2>3, UsersFinite
  <2>5. Users(d, "WRITE") \ {g} = {}
    <3>1. Cardinality(Users(d, "WRITE") \ {g}) = 0
      BY <2>1, <2>3, UserGone
    <3>2. IsFiniteSet(Users(d, "WRITE") \ {g})
      BY UsersFinite, FS_Subset
    <3> QED BY <3>1, <3>2, FS_EmptySet
  <2>6. \A k \in Handles : file[k].mode # "NA" /\ file[k].fd = d => k = g
    BY <1>1, <2>4, <2>5 DEF Users
  <2> QED BY <1>2, <1>4, <2>2, <2>6
<1> QED BY <1>1, <1>3, <1>4

\* Nobody has an idle or a freed definition open.
LEMMA NobodyHas ==
    ASSUME IInv, NEW d \in Defs, heap[d].read_handles = 0, heap[d].write_handles = 0,
           NEW g \in Handles, file[g].mode # "NA"
    PROVE  file[g].fd # d
  BY UsersCounted

Unopened(d) == \A g \in Handles : file[g].mode # "NA" => file[g].fd # d

LEMMA IdleUnopened ==
    ASSUME IInv, NEW d \in Defs
    PROVE  Idle(d) <=> Unopened(d)
<1>1. ASSUME Idle(d) PROVE Unopened(d)
  BY <1>1, NobodyHas DEF Idle, Unopened
<1>2. ASSUME Unopened(d) PROVE Idle(d)
  <2>1. Users(d, "READ") = {} /\ Users(d, "WRITE") = {}
    BY <1>2 DEF Unopened, Users
  <2>2. Cardinality(Users(d, "READ")) = 0 /\ Cardinality(Users(d, "WRITE")) = 0
    BY <2>1, UsersFinite
  <2> QED BY <2>2 DEF IInv, HandlesCounted, Idle
<1> QED BY <1>1, <1>2

\* An open file points to a definition that has a name.
LEMMA OpenNamed ==
    ASSUME IInv, NEW g \in Handles, file[g].mode # "NA"
    PROVE  file[g].fd \in Defs /\ heap[file[g].fd].name \in Names
<1>1. file[g].fd \in Defs /\ ~Idle(file[g].fd)
  BY UsersCounted DEF Idle
<1>2. heap[file[g].fd] # Freed
  BY <1>1 DEF Freed, Idle
<1> QED BY <1>1, <1>2 DEF IInv, Named

Renamed == Listed' # Listed \/ \E e \in Defs : heap'[e].name # heap[e].name

LEMMA OpenReadDoes ==
    ASSUME IInv, NEW h \in Handles, NEW n \in Names, OpenRead(h, n)
    PROVE  /\ ~Renamed /\ halted' = halted
           /\ \A e \in Defs : heap'[e].cbuf = heap[e].cbuf
           /\ \E d \in Listed : /\ d \in Defs /\ heap[d].name = n
                               /\ file' = [file EXCEPT ![h] = [mode |-> "READ", fd |-> d, pos |-> 0]]
<1>1. /\ file_ram_def[Find(n)] \in Listed /\ file_ram_def[Find(n)] \in Defs
      /\ heap[file_ram_def[Find(n)]].name = n
  BY FindFacts DEF IInv, OpenRead
<1>2. heap \in [Defs -> Definitions]
  BY DEF IInv, TypeInv
<1>3. \A e \in Defs : heap'[e].name = heap[e].name /\ heap'[e].cbuf = heap[e].cbuf
  BY <1>2 DEF OpenRead, Definitions
<1> QED BY <1>1, <1>3 DEF OpenRead, Renamed, Listed

LEMMA FCloseDoes ==
    ASSUME IInv, NEW h \in Handles, FClose(h)
    PROVE  /\ ~Renamed /\ halted' = halted /\ file' = [file EXCEPT ![h] = Closed]
           /\ \A e \in Defs : heap'[e].cbuf = heap[e].cbuf
<1>1. heap \in [Defs -> Definitions] /\ file[h].fd \in Defs
  BY DEF IInv, TypeInv, OpenFiles, FClose
<1>2. \A e \in Defs : heap'[e].name = heap[e].name /\ heap'[e].cbuf = heap[e].cbuf
  BY <1>1 DEF FClose, Definitions, CloseCounted
<1> QED BY <1>2 DEF FClose, Renamed, Listed

LEMMA FWriteDoes ==
    ASSUME IInv, NEW h \in Handles, NEW p \in Pieces, FWrite(h, p)
    PROVE  /\ ~Renamed /\ halted' = halted /\ file' = file /\ file[h].fd \in Defs
           /\ heap'[file[h].fd].cbuf = Append(heap[file[h].fd].cbuf, p)
           /\ \A e \in Defs : e # file[h].fd => heap'[e].cbuf = heap[e].cbuf
<1>1. heap \in [Defs -> Definitions] /\ file[h].fd \in Defs
  BY DEF IInv, TypeInv, OpenFiles, FWrite
<1>2. \A e \in Defs : heap'[e].name = heap[e].name /\ (e # file[h].fd => heap'[e].cbuf = heap[e].cbuf)
  BY <1>1 DEF FWrite, Definitions
<1>3. heap'[file[h].fd].cbuf = Append(heap[file[h].fd].cbuf, p)
  BY <1>1 DEF FWrite, Definitions
<1> QED BY <1>1, <1>2, <1>3 DEF FWrite, Renamed, Listed

\* The file of that name is freed unless somebody has it open, and no other changes.
Removed(n, e) == e \in Listed /\ heap[e].name = n /\ Unopened(e) /\ heap'[e] = Freed

LEMMA Removal ==
    ASSUME IInv, NEW n \in Names, Replaceable(Find(n))
    PROVE  \A e \in Defs : \/ Free(Find(n))[e] = heap[e]
                           \/ /\ e \in Listed /\ heap[e].name = n /\ Unopened(e)
                              /\ Free(Find(n))[e] = Freed
  BY FreeFacts, IdleUnopened DEF IInv

LEMMA OpenWriteDoes ==
    ASSUME IInv, NEW h \in Handles, NEW n \in Names, NEW d \in Defs, OpenWriteAt(h, n, d)
    PROVE  /\ Listed' = {d} \cup {e \in Listed : heap[e].name # n} /\ halted' = halted
           /\ heap'[d].name = n /\ heap'[d].cbuf = <<>>
           /\ \A e \in Defs \ {d} : heap'[e] = heap[e] \/ Removed(n, e)
           /\ file' = [file EXCEPT ![h] = [mode |-> "WRITE", fd |-> d, pos |-> 0]]
           /\ file[h].mode = "NA"
<1>1. Replaceable(Find(n)) /\ file[h].mode = "NA"
  BY DEF OpenWriteAt
<1>2. Free(Find(n)) \in [Defs -> Definitions]
  BY <1>1, FreeFacts DEF IInv
<1>3. \A e \in Defs : Free(Find(n))[e] = heap[e]
                      \/ (/\ e \in Listed /\ heap[e].name = n /\ Unopened(e)
                          /\ Free(Find(n))[e] = Freed)
  BY <1>1, Removal
<1>4. /\ heap'[d] = [name |-> n, cbuf |-> <<>>, read_handles |-> 0, write_handles |-> 1]
      /\ \A e \in Defs \ {d} : heap'[e] = Free(Find(n))[e]
  BY <1>2 DEF OpenWriteAt
<1>5. Listed' = {d} \cup {e \in Listed : heap[e].name # n}
  <2>1. /\ Unlinked(Find(n)) \in Seq(Defs) /\ Distinct(Unlinked(Find(n)))
        /\ In(Unlinked(Find(n))) = {e \in Listed : heap[e].name # n}
    BY UnlinkedFacts DEF IInv
  <2>2. d \notin In(Unlinked(Find(n)))
    <3> SUFFICES ASSUME d \in Listed, heap[d].name # n PROVE FALSE
      BY <2>1
    <3>1. heap[d] = Freed
      BY <1>3 DEF OpenWriteAt
    <3>2. heap[d].name \in Names
      BY DEF IInv, NamesUnique
    <3> QED BY <3>1, <3>2, NoNameAssumption DEF Freed
  <2>3. file_ram_def' = <<d>> \o Unlinked(Find(n))
    BY DEF OpenWriteAt
  <2> QED BY <2>1, <2>2, <2>3, PrependDistinct DEF Listed
<1> QED BY <1>1, <1>3, <1>4, <1>5 DEF OpenWriteAt, Removed

LEMMA OpenWriteFailsDoes ==
    ASSUME IInv, NEW h \in Handles, NEW n \in Names, OpenWriteFails(h, n)
    PROVE  /\ Listed' = {e \in Listed : heap[e].name # n} /\ halted' = halted /\ file' = file
           /\ \A e \in Defs : heap'[e] = heap[e] \/ Removed(n, e)
<1>1. In(Unlinked(Find(n))) = {e \in Listed : heap[e].name # n}
  BY UnlinkedFacts DEF IInv
<1> QED BY <1>1, Removal DEF OpenWriteFails, Listed, Removed

\* A name that is not found fails the assertion; a file that is open stays, unlisted.
LEMMA FRemoveDoes ==
    ASSUME IInv, NEW n \in Names, FRemove(n)
    PROVE  /\ Listed' = {e \in Listed : heap[e].name # n} /\ file' = file
           /\ halted' => \A e \in Listed : heap[e].name # n
           /\ \A e \in Defs : heap'[e] = heap[e] \/ Removed(n, e)
           /\ \A e \in Listed : heap[e].name = n => Removed(n, e) \/ ~Unopened(e)
<1> DEFINE i == Find(n)
<1>1. In(Unlinked(i)) = {e \in Listed : heap[e].name # n}
  BY UnlinkedFacts DEF IInv
<1>2. /\ i = 0 => \A e \in Listed : heap[e].name # n
      /\ i # 0 => /\ file_ram_def[i] \in Listed /\ file_ram_def[i] \in Defs
                  /\ heap[file_ram_def[i]].name = n
                  /\ \A e \in Listed : heap[e].name = n => e = file_ram_def[i]
  BY FindFacts DEF IInv, NamesUnique
<1>3. CASE i = 0
  BY <1>1, <1>2, <1>3 DEF FRemove, Listed
<1>4. CASE i # 0 /\ ~Idle(file_ram_def[i])
  <2>1. ~Unopened(file_ram_def[i])
    BY <1>2, <1>4, IdleUnopened
  <2> QED BY <1>1, <1>2, <1>4, <2>1 DEF FRemove, Listed
<1>5. CASE i # 0 /\ Idle(file_ram_def[i])
  <2>1. Replaceable(i) /\ heap' = Free(i)
    BY <1>5 DEF FRemove, Replaceable
  <2>2. \A e \in Defs : heap'[e] = heap[e] \/ Removed(n, e)
    BY <2>1, Removal DEF Removed
  <2>3. heap'[file_ram_def[i]] = Freed /\ Unopened(file_ram_def[i])
    <3>1. heap \in [Defs -> Definitions]
      BY DEF IInv, TypeInv
    <3> QED BY <1>2, <1>5, <2>1, <3>1, IdleUnopened DEF Free
  <2> QED BY <1>1, <1>2, <1>5, <2>2, <2>3 DEF FRemove, Listed, Removed
<1> QED BY <1>3, <1>4, <1>5

-----------------------------------------------------------------------------
(* The file system is a FileStore: the directory and the views of the      *)
(* mapping are first restated on the set of the listed definitions, where  *)
(* they do not depend on the order of the list                             *)

Directory == [n \in InUse |-> heap[file_ram_def[Find(n)]].cbuf]
Views == [h \in Handles |-> ViewOf(h)]

IsDir(f, L, hp) ==
    /\ f = [n \in DOMAIN f |-> f[n]]
    /\ \A d \in L : hp[d].name \in DOMAIN f /\ f[hp[d].name] = hp[d].cbuf
    /\ \A n \in DOMAIN f : \E d \in L : hp[d].name = n

Shut == [mode |-> "closed"]
ViewIn(f, hp, L) ==
    IF f.mode = "NA" THEN Shut
    ELSE [mode |-> IF f.mode = "READ" THEN "read" ELSE "write",
          name |-> hp[f.fd].name, content |-> hp[f.fd].cbuf, linked |-> f.fd \in L]

\* A directory of the same contents is the same.
LEMMA DirSame ==
    ASSUME NEW f, NEW g, NEW L, NEW hp, NEW hq, IsDir(f, L, hp), IsDir(g, L, hq),
           \A d \in L : hq[d].name = hp[d].name /\ hq[d].cbuf = hp[d].cbuf
    PROVE  g = f
<1>1. \A n \in DOMAIN f : n \in DOMAIN g /\ g[n] = f[n]
  BY DEF IsDir
<1>2. \A n \in DOMAIN g : n \in DOMAIN f
  BY DEF IsDir
<1> QED BY <1>1, <1>2 DEF IsDir

\* What FileStore calls Unbound(n).
Without(f, n) == [m \in DOMAIN f \ {n} |-> f[m]]
LEMMA DirWithout ==
    ASSUME NEW f, NEW g, NEW L, NEW M, NEW hp, NEW hq, NEW n, IsDir(f, L, hp), IsDir(g, M, hq),
           \A d : d \in M <=> d \in L /\ hp[d].name # n,
           \A d \in M : hq[d].name = hp[d].name /\ hq[d].cbuf = hp[d].cbuf
    PROVE  g = Without(f, n)
<1>1. \A m \in DOMAIN f \ {n} : m \in DOMAIN g /\ g[m] = f[m]
  BY DEF IsDir
<1>2. \A m \in DOMAIN g : m \in DOMAIN f \ {n}
  BY DEF IsDir
<1> QED BY <1>1, <1>2 DEF IsDir, Without

\* What FileStore calls Bound(n, c).
With(f, n, c) == [m \in DOMAIN f \cup {n} |-> IF m = n THEN c ELSE f[m]]
Placed(f, g, L, M, hp, hq, n, d, c) ==
    /\ IsDir(f, L, hp) /\ IsDir(g, M, hq)
    /\ d \in M /\ \A e \in M : e = d \/ (e \in L /\ hp[e].name # n)
    /\ hq[d].name = n /\ hq[d].cbuf = c
    /\ \A e \in L : hp[e].name # n => /\ e \in M
                                      /\ hq[e].name = hp[e].name /\ hq[e].cbuf = hp[e].cbuf
LEMMA DirWith ==
    ASSUME NEW f, NEW g, NEW L, NEW M, NEW hp, NEW hq, NEW n, NEW d, NEW c,
           Placed(f, g, L, M, hp, hq, n, d, c)
    PROVE  g = With(f, n, c)
<1> USE DEF Placed
<1>1. \A m \in DOMAIN f : m # n => m \in DOMAIN g /\ g[m] = f[m]
  BY DEF IsDir
<1>2. n \in DOMAIN g /\ g[n] = c
  BY DEF IsDir
<1>3. \A m \in DOMAIN g : m \in DOMAIN f \cup {n}
  BY DEF IsDir
<1> DEFINE r == [m \in DOMAIN f \cup {n} |-> IF m = n THEN c ELSE f[m]]
<1>4. DOMAIN g = DOMAIN f \cup {n}
  BY <1>1, <1>2, <1>3
<1>5. \A m \in DOMAIN f \cup {n} : g[m] = r[m]
  BY <1>1, <1>2
<1>6. g = [m \in DOMAIN g |-> g[m]] /\ r = [m \in DOMAIN f \cup {n} |-> r[m]]
  BY DEF IsDir
<1> HIDE DEF r
<1>7. g = r
  BY <1>4, <1>5, <1>6
<1> QED BY <1>7 DEF r, With

\* The directory of the mapping is that of the listed definitions.
Seen ==
    /\ IsDir(Directory, Listed, heap)
    /\ Views = [h \in Handles |-> ViewIn(file[h], heap, Listed)]

LEMMA InvSeen == IInv => Seen
<1> SUFFICES ASSUME IInv PROVE Seen
  OBVIOUS
<1> USE DEF IInv
<1>1. DOMAIN Directory = InUse /\ Directory = [n \in DOMAIN Directory |-> Directory[n]]
  BY DEF Directory
<1>2. ASSUME NEW d \in Listed
      PROVE  heap[d].name \in DOMAIN Directory /\ Directory[heap[d].name] = heap[d].cbuf
  <2> DEFINE n == heap[d].name
  <2>1. n \in Names
    BY DEF NamesUnique
  <2>2. Find(n) # 0 /\ file_ram_def[Find(n)] \in Listed /\ heap[file_ram_def[Find(n)]].name = n
    BY <2>1, FindFacts
  <2>3. file_ram_def[Find(n)] = d
    BY <2>2 DEF NamesUnique
  <2>4. n \in InUse
    BY <2>1, <2>2 DEF InUse
  <2> QED BY <2>3, <2>4 DEF Directory
<1>3. \A n \in DOMAIN Directory : \E d \in Listed : heap[d].name = n
  BY <1>1, FindFacts DEF InUse
<1>4. \A h \in Handles : ViewOf(h) = ViewIn(file[h], heap, Listed)
  <2> TAKE h \in Handles
  <2> DEFINE b == \E i \in DOMAIN file_ram_def : file_ram_def[i] = file[h].fd
             c == file[h].fd \in Listed
  <2>1. b = c
    <3>1. (b => c) /\ (c => b)
      BY DEF Listed, In
    <3>2. b \in BOOLEAN /\ c \in BOOLEAN
      OBVIOUS
    <3> HIDE DEF b, c
    <3> QED BY <3>1, <3>2
  <2>2. ViewOf(h) = IF file[h].mode = "NA" THEN Shut
                    ELSE [mode |-> IF file[h].mode = "READ" THEN "read" ELSE "write",
                          name |-> heap[file[h].fd].name,
                          content |-> heap[file[h].fd].cbuf, linked |-> b]
    BY Zenon DEF ViewOf, Shut
  <2>3. ViewIn(file[h], heap, Listed)
          = IF file[h].mode = "NA" THEN Shut
            ELSE [mode |-> IF file[h].mode = "READ" THEN "read" ELSE "write",
                  name |-> heap[file[h].fd].name,
                  content |-> heap[file[h].fd].cbuf, linked |-> c]
    BY Zenon DEF ViewIn
  <2> HIDE DEF b, c
  <2> QED BY <2>1, <2>2, <2>3
<1> QED BY <1>1, <1>2, <1>3, <1>4 DEF Seen, IsDir, Views

-----------------------------------------------------------------------------
(* What the counters say of who has a definition open                      *)

LEMMA ViewFacts ==
    ASSUME IInv, Seen, NEW g \in Handles
    PROVE  /\ file[g].mode = "NA" => Views[g] = Shut
           /\ file[g].mode # "NA" =>
                /\ Views[g].mode = (IF file[g].mode = "READ" THEN "read" ELSE "write")
                /\ Views[g].name = heap[file[g].fd].name
                /\ Views[g].content = heap[file[g].fd].cbuf
                /\ Views[g].linked = (file[g].fd \in Listed)
                /\ Views[g].linked <=> file[g].fd \in Listed
                /\ Views[g] # Shut
<1>1. Views[g] = ViewIn(file[g], heap, Listed)
  BY DEF Seen
<1>2. CASE file[g].mode = "NA"
  BY <1>1, <1>2 DEF ViewIn
<1>3. CASE file[g].mode # "NA"
  <2>1. Views[g] = [mode |-> IF file[g].mode = "READ" THEN "read" ELSE "write",
                    name |-> heap[file[g].fd].name, content |-> heap[file[g].fd].cbuf,
                    linked |-> file[g].fd \in Listed]
    BY <1>1, <1>3 DEF ViewIn
  <2>2. Views[g].mode # "closed"
    BY <2>1
  <2>3. Views[g] # Shut
    BY <2>2 DEF Shut
  <2>4. Views[g].linked = (file[g].fd \in Listed)
    BY <2>1
  <2>5. Views[g].linked <=> file[g].fd \in Listed
    BY <2>4, Zenon
  <2> QED BY <1>3, <2>1, <2>3, <2>4, <2>5
<1> QED BY <1>2, <1>3

LEMMA ViewKept ==
    ASSUME NEW e, NEW f, NEW hp, NEW hq, NEW L, NEW M, e.mode = f.mode, e.fd = f.fd,
           f.mode # "NA" => /\ hq[f.fd].name = hp[f.fd].name /\ hq[f.fd].cbuf = hp[f.fd].cbuf
                            /\ f.fd \in L <=> f.fd \in M
    PROVE  ViewIn(e, hq, M) = ViewIn(f, hp, L)
<1> DEFINE b == f.fd \in L
           c == f.fd \in M
<1>1. b \in BOOLEAN /\ c \in BOOLEAN /\ (f.mode # "NA" => (b <=> c))
  OBVIOUS
<1>2. ViewIn(f, hp, L) = IF f.mode = "NA" THEN Shut
                         ELSE [mode |-> IF f.mode = "READ" THEN "read" ELSE "write",
                               name |-> hp[f.fd].name, content |-> hp[f.fd].cbuf, linked |-> b]
  BY Zenon DEF ViewIn
<1>3. ViewIn(e, hq, M) = IF f.mode = "NA" THEN Shut
                         ELSE [mode |-> IF f.mode = "READ" THEN "read" ELSE "write",
                               name |-> hq[f.fd].name, content |-> hq[f.fd].cbuf, linked |-> c]
  BY Zenon DEF ViewIn
<1> HIDE DEF b, c
<1> QED BY <1>1, <1>2, <1>3

\* The views of everybody but h, when the definitions that are open keep
\* name, content and place.
OthersKept(h) == \A g \in Handles : g # h => Views'[g] = Views[g]

LEMMA ViewsUpdated ==
    ASSUME Seen, Seen', NEW h \in Handles, NEW v, OthersKept(h), Views'[h] = v
    PROVE  Views' = [Views EXCEPT ![h] = v]
<1>1. Views = [g \in Handles |-> Views[g]] /\ Views' = [g \in Handles |-> Views'[g]]
  BY DEF Views
<1> DEFINE w == [Views EXCEPT ![h] = v]
<1>2. w = [g \in Handles |-> w[g]] /\ \A g \in Handles : w[g] = IF g = h THEN v ELSE Views[g]
  BY <1>1
<1>3. \A g \in Handles : w[g] = Views'[g]
  BY <1>2 DEF OthersKept
<1> HIDE DEF w
<1>4. Views' = w
  BY <1>1, <1>2, <1>3
<1> QED BY <1>4 DEF w

LEMMA ViewsSame ==
    ASSUME \A g \in Handles : Views'[g] = Views[g]
    PROVE  Views' = Views
  BY DEF Views

-----------------------------------------------------------------------------
(* Every operation is one of FileStore, or nothing                         *)

LEMMA OpenReadImplements ==
    ASSUME IInv, Seen, Seen', NEW h \in Handles, NEW n \in Names, OpenRead(h, n)
    PROVE  Store!OpenRead(h, n)
<1> DEFINE d == file_ram_def[Find(n)]
<1>1. /\ Find(n) # 0 /\ file[h].mode = "NA" /\ heap[d].write_handles = 0
      /\ heap' = [heap EXCEPT ![d].read_handles = @ + 1]
      /\ file' = [file EXCEPT ![h] = [mode |-> "READ", fd |-> d, pos |-> 0]]
      /\ file_ram_def' = file_ram_def
  BY DEF OpenRead, Readable
<1>2. d \in Listed /\ d \in Defs /\ heap[d].name = n
  BY <1>1, FindFacts DEF IInv
<1> HIDE DEF d
<1>3. Listed' = Listed /\ Listed \subseteq Defs
  BY <1>1 DEF Listed, In, IInv, TypeInv
<1>4. \A e \in Defs : heap'[e].name = heap[e].name /\ heap'[e].cbuf = heap[e].cbuf
  BY <1>1, <1>2 DEF IInv, TypeInv, Definitions
<1>5. \A g \in Handles : file'[g] = IF g = h THEN [mode |-> "READ", fd |-> d, pos |-> 0] ELSE file[g]
  BY <1>1 DEF IInv, TypeInv
<1>6. n \in DOMAIN Directory /\ Directory[n] = heap[d].cbuf
  BY <1>2 DEF Seen, IsDir
<1>7. Directory' = Directory
  BY <1>3, <1>4, DirSame DEF Seen
<1>8. Views[h] = Shut
  BY <1>1, ViewFacts
<1>9. ASSUME NEW g \in Handles, Views[g].mode # "closed", Views[g].name = n, Views[g].linked
      PROVE  Views[g].mode = "read"
  <2>1. file[g].mode # "NA"
    BY <1>9, ViewFacts DEF Shut
  <2>2. file[g].fd \in Listed /\ heap[file[g].fd].name = n
    BY <1>9, <2>1, ViewFacts
  <2>3. file[g].fd = d
    BY <1>2, <2>2 DEF IInv, NamesUnique
  <2> QED BY <1>1, <2>1, <2>3, UsersCounted, ViewFacts
<1>10. OthersKept(h)
  <2> SUFFICES ASSUME NEW g \in Handles, g # h PROVE Views'[g] = Views[g]
    BY DEF OthersKept
  <2>1. file'[g] = file[g] /\ (file[g].mode # "NA" => file[g].fd \in Defs)
    BY <1>5 DEF IInv, OpenFiles
  <2>2. ViewIn(file'[g], heap', Listed') = ViewIn(file[g], heap, Listed)
    BY <1>3, <1>4, <2>1, ViewKept
  <2> QED BY <2>2 DEF Seen
<1>11. Views'[h] = [mode |-> "read", name |-> n, content |-> Directory[n], linked |-> TRUE]
  <2>1. Views'[h] = ViewIn([mode |-> "READ", fd |-> d, pos |-> 0], heap', Listed')
    BY <1>5 DEF Seen
  <2>2. (d \in Listed') = TRUE
    BY <1>2, <1>3
  <2> QED BY <1>2, <1>4, <1>6, <2>1, <2>2 DEF ViewIn
<1>12. Views' = [Views EXCEPT ![h] = [mode |-> "read", name |-> n, content |-> Directory[n], linked |-> TRUE]]
  BY <1>10, <1>11, ViewsUpdated
<1> QED BY <1>6, <1>7, <1>8, <1>9, <1>12
        DEF Store!OpenRead, Store!OpenOn, Store!View, Store!Closed, Shut, Directory, Views

LEMMA OpenWriteImplements ==
    ASSUME IInv, Seen, Seen', NEW h \in Handles, NEW n \in Names, NEW d \in Defs, OpenWriteAt(h, n, d)
    PROVE  Store!OpenWrite(h, n)
<1> DEFINE rest == Free(Find(n))
           new == [name |-> n, cbuf |-> <<>>, read_handles |-> 0, write_handles |-> 1]
           f == [mode |-> "WRITE", fd |-> d, pos |-> 0]
<1>1. /\ file[h].mode = "NA" /\ Replaceable(Find(n)) /\ rest[d] = Freed
      /\ heap' = [rest EXCEPT ![d] = new] /\ file' = [file EXCEPT ![h] = f]
      /\ file_ram_def' = <<d>> \o Unlinked(Find(n))
  BY DEF OpenWriteAt
<1>2. /\ Unlinked(Find(n)) \in Seq(Defs) /\ Distinct(Unlinked(Find(n)))
      /\ In(Unlinked(Find(n))) = {e \in Listed : heap[e].name # n}
  BY UnlinkedFacts DEF IInv
<1>3. /\ rest \in [Defs -> Definitions]
      /\ \A e \in Defs : /\ rest[e].read_handles = heap[e].read_handles
                         /\ rest[e].write_handles = heap[e].write_handles
      /\ \A e \in Defs : (e \in Listed /\ heap[e].name = n) \/ rest[e] = heap[e]
      /\ \A e \in Listed : heap[e].name = n => Idle(e)
  BY <1>1, FreeFacts DEF IInv
<1>4. new.name = n /\ new.cbuf = <<>> /\ f.mode = "WRITE" /\ f.fd = d
  OBVIOUS
<1>5. \A g \in Handles : file'[g] = IF g = h THEN f ELSE file[g]
  BY <1>1 DEF IInv, TypeInv
<1> HIDE DEF rest, new, f
<1>6. heap'[d] = new /\ \A e \in Defs : e # d => heap'[e] = rest[e]
  BY <1>1, <1>3
<1>7. heap[d].read_handles = 0 /\ heap[d].write_handles = 0
  BY <1>1, <1>3 DEF Freed
<1>8. d \notin In(Unlinked(Find(n)))
  <2> SUFFICES ASSUME d \in Listed, heap[d].name # n PROVE FALSE
    BY <1>2
  <2>1. heap[d] = Freed
    BY <1>1, <1>3
  <2>2. heap[d].name \in Names
    BY DEF IInv, NamesUnique
  <2> QED BY <2>1, <2>2, NoNameAssumption DEF Freed
<1>9. Listed' = {e \in Listed : heap[e].name # n} \cup {d} /\ Listed \subseteq Defs
  <2>1. In(file_ram_def') = {e \in Listed : heap[e].name # n} \cup {d}
    BY <1>1, <1>2, <1>8, PrependDistinct
  <2>2. Listed \subseteq Defs
    BY DEF Listed, In, IInv, TypeInv
  <2> QED BY <2>1, <2>2 DEF Listed
<1>10. \A e \in Listed : heap[e].name # n => e # d /\ heap'[e] = heap[e]
  BY <1>2, <1>3, <1>6, <1>8, <1>9
<1>11. Directory' = With(Directory, n, <<>>)
  <2>1. IsDir(Directory, Listed, heap) /\ IsDir(Directory', Listed', heap')
    BY DEF Seen
  <2>2. \A e : e \in Listed' <=> (e \in Listed /\ heap[e].name # n) \/ e = d
    BY <1>9
  <2>3. heap'[d].name = n /\ heap'[d].cbuf = <<>>
    BY <1>4, <1>6
  <2>4. Placed(Directory, Directory', Listed, Listed', heap, heap', n, d, <<>>)
    BY <1>10, <2>1, <2>2, <2>3 DEF Placed
  <2> QED BY <2>4, DirWith
<1>12. Views[h] = Shut
  BY <1>1, ViewFacts
<1>13. ASSUME NEW g \in Handles, Views[g].mode # "closed", Views[g].name = n, Views[g].linked
       PROVE  FALSE
  <2>1. file[g].mode # "NA"
    BY <1>13, ViewFacts DEF Shut
  <2>2. file[g].fd \in Listed /\ heap[file[g].fd].name = n
    BY <1>13, <2>1, ViewFacts
  <2> QED BY <1>3, <1>9, <2>1, <2>2, NobodyHas DEF Idle
<1>14. OthersKept(h)
  <2> SUFFICES ASSUME NEW g \in Handles, g # h PROVE Views'[g] = Views[g]
    BY DEF OthersKept
  <2>1. file'[g] = file[g]
    BY <1>5
  <2>2. ASSUME file[g].mode # "NA"
        PROVE  /\ file[g].fd \in Defs /\ file[g].fd # d
               /\ ~(file[g].fd \in Listed /\ heap[file[g].fd].name = n)
    <3>1. file[g].fd \in Defs /\ file[g].fd # d
      BY <1>7, <2>2, NobodyHas DEF IInv, OpenFiles
    <3>2. ~(file[g].fd \in Listed /\ heap[file[g].fd].name = n)
      BY <1>3, <2>2, <3>1, NobodyHas DEF Idle
    <3> QED BY <3>1, <3>2
  <2>3. file[g].mode # "NA" => /\ heap'[file[g].fd] = heap[file[g].fd]
                               /\ file[g].fd \in Listed <=> file[g].fd \in Listed'
    BY <1>3, <1>6, <1>9, <2>2
  <2>4. ViewIn(file'[g], heap', Listed') = ViewIn(file[g], heap, Listed)
    BY <2>1, <2>3, ViewKept
  <2> QED BY <2>4 DEF Seen
<1>15. Views'[h] = [mode |-> "write", name |-> n, content |-> <<>>, linked |-> TRUE]
  <2>1. Views'[h] = ViewIn(f, heap', Listed')
    BY <1>5 DEF Seen
  <2>2. (d \in Listed') = TRUE
    BY <1>9
  <2> QED BY <1>4, <1>6, <2>1, <2>2 DEF ViewIn
<1>16. Views' = [Views EXCEPT ![h] = [mode |-> "write", name |-> n, content |-> <<>>, linked |-> TRUE]]
  BY <1>14, <1>15, ViewsUpdated
<1> QED BY <1>11, <1>12, <1>13, <1>16
        DEF Store!OpenWrite, Store!OpenOn, Store!View, Store!Closed, Store!Bound, With, Shut, Directory, Views

LEMMA Unlinking ==
    ASSUME NEW m, NEW n, NEW c, NEW r, NEW x, NEW y,
           r = [mode |-> m, name |-> n, content |-> c, linked |-> x]
    PROVE  [mode |-> m, name |-> n, content |-> c, linked |-> y] = [r EXCEPT !.linked = y]
  OBVIOUS

\* A file is removed that is idle, or one that is open and stays allocated.
LEMMA RemovalImplements ==
    ASSUME IInv, Seen, Seen', NEW n \in Names, Find(n) # 0, file' = file,
           file_ram_def' = Unlinked(Find(n)),
           heap' = heap \/ (Replaceable(Find(n)) /\ heap' = Free(Find(n)))
    PROVE  Store!Remove(n)
<1> DEFINE d == file_ram_def[Find(n)]
<1>1. d \in Listed /\ d \in Defs /\ heap[d].name = n
  BY FindFacts DEF IInv
<1> HIDE DEF d
<1>2. Listed' = {e \in Listed : heap[e].name # n} /\ Listed \subseteq Defs
  <2>1. In(file_ram_def') = {e \in Listed : heap[e].name # n}
    BY UnlinkedFacts DEF IInv
  <2>2. Listed \subseteq Defs
    BY DEF Listed, In, IInv, TypeInv
  <2> QED BY <2>1, <2>2 DEF Listed
<1>3. /\ \A e \in Defs : (e \in Listed /\ heap[e].name = n) \/ heap'[e] = heap[e]
      /\ \A g \in Handles : file[g].mode # "NA" => heap'[file[g].fd] = heap[file[g].fd]
  <2>1. CASE heap' = heap
    BY <2>1
  <2>2. CASE Replaceable(Find(n)) /\ heap' = Free(Find(n))
    <3>1. /\ \A e \in Defs : (e \in Listed /\ heap[e].name = n) \/ heap'[e] = heap[e]
          /\ \A e \in Listed : heap[e].name = n => Idle(e)
      BY <2>2, FreeFacts DEF IInv
    <3>2. ASSUME NEW g \in Handles, file[g].mode # "NA"
          PROVE  heap'[file[g].fd] = heap[file[g].fd]
      BY <1>2, <3>1, <3>2, NobodyHas DEF Idle, IInv, OpenFiles
    <3> QED BY <3>1, <3>2
  <2> QED BY <2>1, <2>2
<1>4. n \in DOMAIN Directory
  BY <1>1 DEF Seen, IsDir
<1>5. Directory' = Without(Directory, n)
  <2>1. IsDir(Directory, Listed, heap) /\ IsDir(Directory', Listed', heap')
    BY DEF Seen
  <2>2. \A e : e \in Listed' <=> e \in Listed /\ heap[e].name # n
    BY <1>2
  <2>3. \A e \in Listed' : heap'[e].name = heap[e].name /\ heap'[e].cbuf = heap[e].cbuf
    BY <1>2, <1>3
  <2> QED BY <2>1, <2>2, <2>3, DirWithout
<1>6. ASSUME NEW g \in Handles
      PROVE  Views'[g] = IF Views[g].mode # "closed" /\ Views[g].name = n /\ Views[g].linked
                         THEN [Views[g] EXCEPT !.linked = FALSE] ELSE Views[g]
  <2>1. Views'[g] = ViewIn(file[g], heap', Listed') /\ Views[g] = ViewIn(file[g], heap, Listed)
    BY DEF Seen
  <2>2. CASE file[g].mode # "NA" /\ file[g].fd \in Listed /\ heap[file[g].fd].name = n
    <3>1. (file[g].fd \in Listed) = TRUE /\ (file[g].fd \in Listed') = FALSE
      BY <1>2, <2>2
    <3>2. Views[g] = [mode |-> IF file[g].mode = "READ" THEN "read" ELSE "write",
                      name |-> n, content |-> heap[file[g].fd].cbuf, linked |-> TRUE]
      BY <2>1, <2>2, <3>1 DEF ViewIn
    <3>3. Views'[g] = [mode |-> IF file[g].mode = "READ" THEN "read" ELSE "write",
                       name |-> n, content |-> heap[file[g].fd].cbuf, linked |-> FALSE]
      BY <1>3, <2>1, <2>2, <3>1 DEF ViewIn
    <3>4. Views[g].mode # "closed" /\ Views[g].name = n /\ Views[g].linked
      BY <2>2, <3>2, ViewFacts
    <3>5. Views'[g] = [Views[g] EXCEPT !.linked = FALSE]
      <4>1. PICK x, y : x = TRUE /\ y = FALSE
        OBVIOUS
      <4>2. PICK m, c : /\ Views[g] = [mode |-> m, name |-> n, content |-> c, linked |-> x]
                        /\ Views'[g] = [mode |-> m, name |-> n, content |-> c, linked |-> y]
        BY <3>2, <3>3, <4>1
      <4>3. Views'[g] = [Views[g] EXCEPT !.linked = y]
        BY <4>2, Unlinking
      <4> QED BY <4>1, <4>3
    <3> QED BY <3>4, <3>5
  <2>3. CASE ~(file[g].mode # "NA" /\ file[g].fd \in Listed /\ heap[file[g].fd].name = n)
    <3>1. file[g].mode # "NA" => (file[g].fd \in Listed <=> file[g].fd \in Listed')
      BY <1>2, <2>3
    <3>2. Views'[g] = Views[g]
      BY <1>3, <2>1, <3>1, ViewKept
    <3>3. ~(Views[g].mode # "closed" /\ Views[g].name = n /\ Views[g].linked)
      BY <2>3, ViewFacts DEF Shut
    <3> QED BY <3>2, <3>3
  <2> QED BY <2>2, <2>3
<1>7. Views' = [g \in Handles |-> IF Views[g].mode # "closed" /\ Views[g].name = n /\ Views[g].linked
                                  THEN [Views[g] EXCEPT !.linked = FALSE] ELSE Views[g]]
  <2>1. Views' = [g \in Handles |-> Views'[g]]
    BY DEF Views
  <2> QED BY <1>6, <2>1
<1> QED BY <1>4, <1>5, <1>7 DEF Store!Remove, Store!OpenOn, Store!Unbound, Without, Directory, Views

LEMMA Longer ==
    ASSUME NEW r, NEW m, NEW n, NEW c, NEW x, NEW k,
           r = [mode |-> m, name |-> n, content |-> c, linked |-> x]
    PROVE  [mode |-> m, name |-> n, content |-> k, linked |-> x] = [r EXCEPT !.content = k]
  OBVIOUS

LEMMA FWriteImplements ==
    ASSUME IInv, Seen, Seen', NEW h \in Handles, NEW p \in Pieces, FWrite(h, p)
    PROVE  Store!Extend(h, p)
<1> DEFINE d == file[h].fd
           c == heap[d].cbuf \o <<p>>
<1>1. /\ file[h].mode = "WRITE" /\ heap' = [heap EXCEPT ![d].cbuf = Append(@, p)]
      /\ file' = file /\ file_ram_def' = file_ram_def
  BY DEF FWrite
<1>2. d \in Defs /\ \A k \in Handles : file[k].mode # "NA" /\ file[k].fd = d => k = h
  BY <1>1, UsersCounted
<1>3. Views[h].mode = "write" /\ Views[h].name = heap[d].name /\ Views[h].content = heap[d].cbuf
      /\ (Views[h].linked <=> d \in Listed)
  BY <1>1, ViewFacts
<1>4. Append(heap[d].cbuf, p) = c
  <2>1. heap[d].cbuf \in Seq(Pieces)
    BY <1>2 DEF IInv, TypeInv, Definitions
  <2> QED BY <2>1, AppendIsConcat
<1> HIDE DEF d, c
<1>5. Listed' = Listed
  BY <1>1 DEF Listed
<1>6. /\ \A e \in Defs : heap'[e].name = heap[e].name /\ (e # d => heap'[e] = heap[e])
      /\ heap'[d].cbuf = c
  BY <1>1, <1>2, <1>4 DEF IInv, TypeInv, Definitions
<1>7. Listed \subseteq Defs
  BY DEF Listed, In, IInv, TypeInv
<1>8. IsDir(Directory, Listed, heap) /\ IsDir(Directory', Listed', heap')
  BY DEF Seen
<1>9. Directory' = IF Views[h].linked THEN With(Directory, heap[d].name, c) ELSE Directory
  <2>1. CASE d \in Listed
    <3>1. \A e \in Listed : e = d \/ heap[e].name # heap[d].name
      BY <2>1 DEF IInv, NamesUnique
    <3>2. Placed(Directory, Directory', Listed, Listed', heap, heap', heap[d].name, d, c)
      BY <1>2, <1>5, <1>6, <1>7, <1>8, <2>1, <3>1 DEF Placed
    <3> QED BY <1>3, <2>1, <3>2, DirWith
  <2>2. CASE d \notin Listed
    <3>1. \A e \in Listed : heap'[e].name = heap[e].name /\ heap'[e].cbuf = heap[e].cbuf
      BY <1>6, <1>7, <2>2
    <3>2. Directory' = Directory
      BY <1>5, <1>8, <3>1, DirSame
    <3> QED BY <1>3, <2>2, <3>2
  <2> QED BY <2>1, <2>2
<1>10. OthersKept(h)
  <2> SUFFICES ASSUME NEW g \in Handles, g # h PROVE Views'[g] = Views[g]
    BY DEF OthersKept
  <2>1. file[g].mode # "NA" => file[g].fd \in Defs /\ file[g].fd # d
    BY <1>2 DEF IInv, OpenFiles
  <2>2. file'[g] = file[g]
    BY <1>1
  <2>3. file[g].mode # "NA" => /\ heap'[file[g].fd].name = heap[file[g].fd].name
                               /\ heap'[file[g].fd].cbuf = heap[file[g].fd].cbuf
    BY <1>6, <2>1
  <2>4. ViewIn(file'[g], heap', Listed') = ViewIn(file[g], heap, Listed)
    BY <1>5, <2>2, <2>3, ViewKept
  <2> QED BY <2>4 DEF Seen
<1>11. Views'[h] = [Views[h] EXCEPT !.content = c]
  <2>1. Views[h] = ViewIn(file[h], heap, Listed) /\ Views'[h] = ViewIn(file[h], heap', Listed)
    BY <1>1, <1>5 DEF Seen
  <2> DEFINE b == d \in Listed
  <2>2. Views[h] = [mode |-> "write", name |-> heap[d].name, content |-> heap[d].cbuf, linked |-> b]
    BY <1>1, <2>1 DEF ViewIn, d
  <2>3. Views'[h] = [mode |-> "write", name |-> heap'[d].name, content |-> heap'[d].cbuf, linked |-> b]
    BY <1>1, <2>1 DEF ViewIn, d
  <2> HIDE DEF b
  <2>4. Views'[h] = [mode |-> "write", name |-> heap[d].name, content |-> c, linked |-> b]
    BY <1>2, <1>6, <2>3
  <2> QED BY <2>2, <2>4, Longer
<1>12. Views' = [Views EXCEPT ![h] = [Views[h] EXCEPT !.content = c]]
  BY <1>10, <1>11, ViewsUpdated
<1>13. c = Views[h].content \o <<p>>
  BY <1>3 DEF c
<1>14. /\ Views[h].mode = "write"
       /\ Views' = [Views EXCEPT ![h].content = Views[h].content \o <<p>>]
       /\ Directory' = IF Views[h].linked THEN With(Directory, Views[h].name, Views[h].content \o <<p>>)
                       ELSE Directory
  BY <1>3, <1>9, <1>12, <1>13
<1> QED BY <1>14 DEF Store!Extend, Store!Bound, With, Directory, Views

LEMMA FCloseImplements ==
    ASSUME IInv, Seen, Seen', NEW h \in Handles, FClose(h)
    PROVE  Store!Close(h)
<1> DEFINE d == file[h].fd
<1>1. /\ file[h].mode # "NA" /\ heap' = [heap EXCEPT ![d] = CloseCounted(@, file[h].mode)]
      /\ file' = [file EXCEPT ![h] = Closed] /\ file_ram_def' = file_ram_def
  BY DEF FClose
<1>2. d \in Defs
  BY <1>1 DEF IInv, OpenFiles
<1> HIDE DEF d
<1>3. Listed' = Listed /\ Listed \subseteq Defs
  BY <1>1 DEF Listed, In, IInv, TypeInv
<1>4. \A e \in Defs : heap'[e].name = heap[e].name /\ heap'[e].cbuf = heap[e].cbuf
  BY <1>1, <1>2 DEF CloseCounted, IInv, TypeInv, Definitions
<1>5. \A g \in Handles : file'[g] = IF g = h THEN Closed ELSE file[g]
  BY <1>1 DEF IInv, TypeInv
<1>6. Directory' = Directory
  <2>1. \A e \in Listed : heap'[e].name = heap[e].name /\ heap'[e].cbuf = heap[e].cbuf
    BY <1>3, <1>4
  <2> QED BY <1>3, <2>1, DirSame DEF Seen
<1>7. OthersKept(h)
  <2> SUFFICES ASSUME NEW g \in Handles, g # h PROVE Views'[g] = Views[g]
    BY DEF OthersKept
  <2>1. file'[g] = file[g] /\ (file[g].mode # "NA" => file[g].fd \in Defs)
    BY <1>5 DEF IInv, OpenFiles
  <2>2. ViewIn(file'[g], heap', Listed') = ViewIn(file[g], heap, Listed)
    BY <1>3, <1>4, <2>1, ViewKept
  <2> QED BY <2>2 DEF Seen
<1>8. Views'[h] = Shut
  BY <1>5 DEF Seen, ViewIn, Closed
<1>9. Views' = [Views EXCEPT ![h] = Shut]
  BY <1>7, <1>8, ViewsUpdated
<1>10. Views[h] # Shut
  BY <1>1, ViewFacts
<1> QED BY <1>6, <1>9, <1>10 DEF Store!Close, Store!Closed, Shut, Directory, Views

\* A position is nothing that FileStore knows.
LEMMA PositionStutters ==
    ASSUME IInv, Seen, Seen', heap' = heap, file_ram_def' = file_ram_def,
           \A g \in Handles : file'[g].mode = file[g].mode /\ file'[g].fd = file[g].fd
    PROVE  Directory' = Directory /\ Views' = Views
<1>1. Listed' = Listed
  BY DEF Listed
<1>2. Directory' = Directory
  BY <1>1, DirSame DEF Seen
<1>3. ASSUME NEW g \in Handles PROVE Views'[g] = Views[g]
  <2>1. ViewIn(file'[g], heap', Listed') = ViewIn(file[g], heap, Listed)
    BY <1>1, ViewKept
  <2> QED BY <2>1 DEF Seen
<1> QED BY <1>2, <1>3, ViewsSame

-----------------------------------------------------------------------------
(* The theorem                                                             *)

LEMMA InitImplements == Init => Store!Init
<1> SUFFICES ASSUME Init PROVE Store!Init
  OBVIOUS
<1>1. IInv /\ Seen
  BY InitInv, InvSeen
<1>2. Listed = {}
  BY DEF Init, Listed, In
<1>3. DOMAIN Directory = {}
  BY <1>1, <1>2 DEF Seen, IsDir
<1>4. Directory = [n \in {} |-> <<>>]
  BY <1>1, <1>3 DEF Seen, IsDir
<1>5. \A h \in Handles : Views[h] = Shut
  BY <1>1, ViewFacts DEF Init, Closed
<1>6. Views = [h \in Handles |-> Shut]
  BY <1>5 DEF Views
<1> QED BY <1>4, <1>6 DEF Store!Init, Store!Closed, Shut, Directory, Views

LEMMA StepImplements ==
    ASSUME IInv, Seen, Seen', [Next]_vars
    PROVE  [Store!Next]_(Store!vars)
<1> DEFINE Still == Directory' = Directory /\ Views' = Views
<1>1. SUFFICES Store!Next \/ Still
  BY DEF Store!vars, Directory, Views
<1>2. CASE UNCHANGED vars
  BY <1>2, PositionStutters DEF vars
<1>3. ASSUME NEW h \in Handles, NEW n \in Names, OpenRead(h, n) PROVE Store!Next
  BY <1>3, OpenReadImplements DEF Store!Next
<1>4. ASSUME NEW h \in Handles, NEW n \in Names, OpenWrite(h, n) PROVE Store!Next
  BY <1>4, OpenWriteImplements DEF OpenWrite, Store!Next
<1>5. ASSUME NEW h \in Handles, NEW n \in Names, OpenWriteFails(h, n) PROVE Store!Next \/ Still
  <2>1. /\ file' = file /\ file_ram_def' = Unlinked(Find(n))
        /\ Replaceable(Find(n)) /\ heap' = Free(Find(n))
    BY <1>5 DEF OpenWriteFails
  <2>2. CASE Find(n) = 0
    BY <2>1, <2>2, PositionStutters DEF Unlinked, Free
  <2>3. CASE Find(n) # 0
    BY <2>1, <2>3, RemovalImplements DEF Store!Next
  <2> QED BY <2>2, <2>3
<1>6. ASSUME NEW h \in Handles, NEW p \in Pieces, FWrite(h, p) PROVE Store!Next
  BY <1>6, FWriteImplements DEF Store!Next
<1>7. ASSUME NEW h \in Handles, FClose(h) PROVE Store!Next
  BY <1>7, FCloseImplements DEF Store!Next
<1>8. ASSUME NEW h \in Handles, NEW n \in 1..MaxRead, FRead(h, n) \/ FSeek(h, n - 1) PROVE Still
  <2>1. \E k : file' = file \/ file' = [file EXCEPT ![h].pos = k]
    BY <1>8 DEF FRead, FSeek
  <2>2. PICK P : file \in [Handles -> FileType(P)]
    BY DEF IInv, TypeInv
  <2>3. \A g \in Handles : file'[g].mode = file[g].mode /\ file'[g].fd = file[g].fd
    BY <2>1, <2>2 DEF FileType
  <2>4. heap' = heap /\ file_ram_def' = file_ram_def
    BY <1>8 DEF FRead, FSeek
  <2> QED BY <2>3, <2>4, PositionStutters
<1>9. ASSUME NEW n \in Names, FRemove(n) PROVE Store!Next \/ Still
  <2>1. /\ file' = file /\ file_ram_def' = Unlinked(Find(n))
        /\ heap' = IF Find(n) = 0 \/ ~Idle(file_ram_def[Find(n)]) THEN heap ELSE Free(Find(n))
    BY <1>9 DEF FRemove
  <2>2. CASE Find(n) = 0
    BY <2>1, <2>2, PositionStutters DEF Unlinked
  <2>3. CASE Find(n) # 0
    <3>1. heap' = heap \/ (Replaceable(Find(n)) /\ heap' = Free(Find(n)))
      BY <2>1, <2>3 DEF Replaceable
    <3> QED BY <2>1, <2>3, <3>1, RemovalImplements DEF Store!Next
  <2> QED BY <2>2, <2>3
<1> HIDE DEF Still
<1> QED BY <1>2, <1>3, <1>4, <1>5, <1>6, <1>7, <1>8, <1>9 DEF Next

\* Whatever is refused, replaced and allocated again, the users of the RAM file
\* system see a FileStore: a reader keeps what it opened until it closes it.
THEOREM StoreImplemented == Spec => ImplementsStore
<1>1. IInv /\ IInv' /\ [Next]_vars => [Store!Next]_(Store!vars)
  <2>1. IInv => Seen
    BY InvSeen
  <2>2. (IInv => Seen)'
    BY <2>1, PTL
  <2> QED BY <2>1, <2>2, StepImplements
<1> QED BY <1>1, InitImplements, SpecInv, PTL DEF Spec, ImplementsStore, Store!Spec

-----------------------------------------------------------------------------
(* The place a reader is at: seeking                                       *)

\* Where the bytes of the first k cbufs end, and what they are.
Off(cbufs, k) == Length(Pre(cbufs, k))

\* The bytes up to a cbuf grow from cbuf to cbuf.
LEMMA Offsets ==
    ASSUME NEW B, NEW cbufs \in Seq(Seq(B))
    PROVE  /\ Len(cbufs) \in Nat /\ FlattenSeq(cbufs) \in Seq(B) /\ Len(FlattenSeq(cbufs)) \in Nat
           /\ Off(cbufs, 0) = 0 /\ Off(cbufs, Len(cbufs)) = Len(FlattenSeq(cbufs))
           /\ \A k \in 0..Len(cbufs) : Off(cbufs, k) \in 0..Len(FlattenSeq(cbufs))
           /\ \A k \in 1..Len(cbufs) :
                /\ cbufs[k] \in Seq(B) /\ Len(cbufs[k]) \in Nat
                /\ Off(cbufs, k) = Off(cbufs, k - 1) + Len(cbufs[k])
                /\ Slice(FlattenSeq(cbufs), Off(cbufs, k - 1), Off(cbufs, k)) = cbufs[k]
<1>1. /\ Len(cbufs) \in Nat /\ FlattenSeq(cbufs) \in Seq(B) /\ Len(FlattenSeq(cbufs)) \in Nat
      /\ Off(cbufs, 0) = 0 /\ Off(cbufs, Len(cbufs)) = Len(FlattenSeq(cbufs))
  <2>1. FlattenSeq(cbufs) \in Seq(B)
    BY FlattenAppend, EmptySeq
  <2> QED BY <2>1, PreLength DEF Off, Length, Bytes
<1>2. ASSUME NEW k \in 0..Len(cbufs) PROVE Off(cbufs, k) \in 0..Len(FlattenSeq(cbufs))
  <2>1. Length(cbufs) = Len(FlattenSeq(cbufs))
    BY DEF Length, Bytes
  <2>2. Length(Pre(cbufs, k)) \in Nat /\ Length(Pre(cbufs, k)) <= Length(cbufs)
    BY PreLength
  <2> QED BY <1>1, <2>1, <2>2 DEF Off
<1>3. ASSUME NEW k \in 1..Len(cbufs)
      PROVE  /\ cbufs[k] \in Seq(B) /\ Len(cbufs[k]) \in Nat
             /\ Off(cbufs, k) = Off(cbufs, k - 1) + Len(cbufs[k])
             /\ Slice(FlattenSeq(cbufs), Off(cbufs, k - 1), Off(cbufs, k)) = cbufs[k]
  <2>1. k \in 0..Len(cbufs) /\ k - 1 \in 0..Len(cbufs) /\ k > 0 /\ k \in 0..k
    BY <1>1
  <2>2. /\ cbufs[k] \in Seq(B)
        /\ Bytes(Pre(cbufs, k)) = Bytes(Pre(cbufs, k - 1)) \o cbufs[k]
        /\ Off(cbufs, k) = Off(cbufs, k - 1) + Len(cbufs[k])
    BY <2>1, PreGrows DEF Off
  <2> DEFINE a == Bytes(Pre(cbufs, k - 1))
             c == cbufs[k]
             u == Bytes(Pre(cbufs, k))
             b == Bytes(Post(cbufs, k))
             all == FlattenSeq(cbufs)
  <2>3. a \in Seq(B) /\ u \in Seq(B) /\ b \in Seq(B) /\ all = Cat(u, b)
    BY <2>1, PreLength DEF Bytes, Cat
  <2>4. u = Cat(a, c) /\ Len(a) = Off(cbufs, k - 1) /\ Len(u) = Off(cbufs, k)
    BY <2>2 DEF Cat, Off, Length
  <2>5. Len(cbufs[k]) \in Nat
    BY <2>2, LenProperties
  <2> HIDE DEF a, c, u, b, all
  <2>6. Len(u) = Len(a) + Len(c) /\ Slice(u, Len(a), Len(u)) = c /\ Len(a) \in Nat /\ Len(c) \in Nat
    <3>1. c \in Seq(B)
      BY <2>2 DEF c
    <3>2. /\ Len(Cat(a, c)) = Len(a) + Len(c) /\ Len(a) \in Nat /\ Len(c) \in Nat
          /\ Slice(Cat(a, c), Len(a), Len(a) + Len(c)) = c
      BY <2>3, <3>1, SliceOfCat
    <3> QED BY <2>4, <3>2
  <2>7. Slice(all, 0, Len(u)) = u /\ Len(all) = Len(u) + Len(b) /\ Len(b) \in Nat /\ all \in Seq(B)
    BY <2>3, SliceOfCat
  <2>8. Slice(Slice(all, 0, Len(u)), Len(a), Len(u)) = Slice(all, 0 + Len(a), 0 + Len(u))
    <3>1. Len(u) \in 0..Len(all) /\ 0 \in 0..Len(u) /\ Len(u) \in 0..(Len(u) - 0) /\ Len(a) \in 0..Len(u)
      BY <2>6, <2>7
    <3> QED BY <2>7, <3>1, SliceOfSlice
  <2>9. Slice(all, Len(a), Len(u)) = c
    BY <2>6, <2>7, <2>8
  <2> QED BY <2>2, <2>4, <2>5, <2>9 DEF c, all
<1> QED BY <1>1, <1>2, <1>3

SkipUp(cbufs, pos, f) ==
    [i \in 0..Len(cbufs) |->
        IF i = 0 THEN [at |-> 1, pos |-> pos]
        ELSE IF f[i - 1].at = i /\ f[i - 1].pos >= Len(cbufs[i])
             THEN [at |-> i + 1, pos |-> f[i - 1].pos - Len(cbufs[i])]
             ELSE f[i - 1]]
Skips(cbufs, pos) == CHOOSE f : f = SkipUp(cbufs, pos, f)

\* What the loop of elysian_fs_ram_fread that seeks computes, step by step.
LEMMA SkipsUnfold ==
    ASSUME NEW B, NEW cbufs \in Seq(Seq(B)), NEW pos \in Nat
    PROVE  /\ Skipped(cbufs, pos) = Skips(cbufs, pos)[Len(cbufs)]
           /\ Skips(cbufs, pos) = SkipUp(cbufs, pos, Skips(cbufs, pos))
<1>1. Skipped(cbufs, pos) = Skips(cbufs, pos)[Len(cbufs)]
  BY DEF Skipped, Skips, SkipUp
<1>2. Len(cbufs) \in Nat /\ \A i \in 1..Len(cbufs) : Len(cbufs[i]) \in Nat
  BY Offsets
<1> DEFINE S == [at : Int, pos : Int]
           c == [at |-> 1, pos |-> pos]
           D == [i \in 0..Len(cbufs) |-> [s \in S |->
                   IF i # 0 /\ s.at = i /\ s.pos >= Len(cbufs[i])
                   THEN [at |-> i + 1, pos |-> s.pos - Len(cbufs[i])] ELSE s]]
<1>3. c \in S /\ D \in [0..Len(cbufs) -> [S -> S]]
  BY <1>2
<1>4. PICK f \in [0..Len(cbufs) -> S] : f = Steps(0, Len(cbufs), c, D, f)
  <2> HIDE DEF c, D, S
  <2>1. 0 \in Int /\ Len(cbufs) \in Int /\ 0 <= Len(cbufs)
    BY <1>2
  <2>2. Solvable(0, Len(cbufs), S, c, D)
    BY <1>3, <2>1, RecursionDefined
  <2> QED BY <2>2 DEF Solvable
<1>5. f = SkipUp(cbufs, pos, f)
  <2>1. ASSUME NEW i \in 0..Len(cbufs) PROVE f[i] = SkipUp(cbufs, pos, f)[i]
    <3>1. f[i] = Steps(0, Len(cbufs), c, D, f)[i]
      BY <1>4
    <3>2. CASE i = 0
      BY <3>1, <3>2 DEF Steps, SkipUp
    <3>3. CASE i # 0
      <4>1. i - 1 \in 0..Len(cbufs) /\ f[i - 1] \in S
        <5>1. i - 1 \in 0..Len(cbufs)
          BY <1>2, <3>3
        <5> HIDE DEF S
        <5> QED BY <5>1
      <4>2. f[i] = D[i][f[i - 1]]
        BY <3>1, <3>3 DEF Steps
      <4> QED BY <3>3, <4>1, <4>2 DEF SkipUp
    <3> QED BY <3>2, <3>3
  <2>2. SkipUp(cbufs, pos, f) = [i \in 0..Len(cbufs) |-> SkipUp(cbufs, pos, f)[i]]
    BY DEF SkipUp
  <2> QED BY <1>4, <2>1, <2>2
<1> QED BY <1>1, <1>5 DEF Skips

\* A cbuf and the place in it where a position of the file is.
InCbuf(cbufs, pos, s) ==
    /\ s.at \in 1..(Len(cbufs) + 1) /\ s.pos \in Nat
    /\ s.pos + Off(cbufs, s.at - 1) = pos
    /\ s.at <= Len(cbufs) => s.pos < Len(cbufs[s.at])

\* Skipping leaves the cbuf that holds the position, and the position inside it.
LEMMA SkippedFinds ==
    ASSUME NEW B, NEW cbufs \in Seq(Seq(B)), NEW pos \in 0..Len(FlattenSeq(cbufs))
    PROVE  InCbuf(cbufs, pos, Skipped(cbufs, pos))
<1> DEFINE f == Skips(cbufs, pos)
           Holds(s, i) == /\ s.at \in 1..(i + 1) /\ s.pos \in Nat
                          /\ s.pos + Off(cbufs, s.at - 1) = pos
                          /\ s.at <= i => s.pos < Len(cbufs[s.at])
           Good == {i \in 0..Len(cbufs) : Holds(f[i], i)}
<1>1. pos \in Nat /\ Len(cbufs) \in Nat /\ Len(FlattenSeq(cbufs)) \in Nat
  BY Offsets
<1>2. f = SkipUp(cbufs, pos, f) /\ Skipped(cbufs, pos) = f[Len(cbufs)]
  BY <1>1, SkipsUnfold
<1> HIDE DEF f
<1>3. 0 \in Good
  <2>1. f[0] = [at |-> 1, pos |-> pos]
    BY <1>1, <1>2 DEF SkipUp
  <2>2. Off(cbufs, 0) = 0
    BY Offsets
  <2> QED BY <1>1, <2>1, <2>2
<1>4. ASSUME NEW i \in 0..(Len(cbufs) - 1), i \in Good PROVE i + 1 \in Good
  <2> DEFINE s == f[i]
             t == f[i + 1]
  <2>1. t = IF s.at = i + 1 /\ s.pos >= Len(cbufs[i + 1])
            THEN [at |-> i + 2, pos |-> s.pos - Len(cbufs[i + 1])] ELSE s
    <3>1. i + 1 \in 0..Len(cbufs) /\ (i + 1) - 1 = i /\ i + 1 # 0 /\ (i + 1) + 1 = i + 2
      BY <1>1
    <3> QED BY SMTT(60), <1>2, <3>1 DEF SkipUp
  <2>2. Holds(s, i)
    BY <1>4
  <2>3. /\ Len(cbufs[i + 1]) \in Nat /\ Off(cbufs, i) \in Nat
        /\ Off(cbufs, i + 1) = Off(cbufs, i) + Len(cbufs[i + 1])
    <3>1. i + 1 \in 1..Len(cbufs) /\ (i + 1) - 1 = i /\ i \in 0..Len(cbufs)
      BY <1>1
    <3> QED BY <3>1, Offsets
  <2> HIDE DEF s, t
  <2>4. Holds(t, i + 1)
    <3>1. CASE s.at = i + 1 /\ s.pos >= Len(cbufs[i + 1])
      <4>1. t.at = i + 2 /\ t.pos = s.pos - Len(cbufs[i + 1]) /\ t.at - 1 = i + 1 /\ s.at - 1 = i
        BY <1>1, <2>1, <3>1
      <4>2. s.pos + Off(cbufs, i) = pos
        BY <2>2, <4>1
      <4>3. t.pos + Off(cbufs, i + 1) = pos /\ t.pos \in Nat
        BY <2>2, <2>3, <3>1, <4>1, <4>2
      <4> QED BY <4>1, <4>3
    <3>2. CASE ~(s.at = i + 1 /\ s.pos >= Len(cbufs[i + 1]))
      <4>1. t = s
        BY <2>1, <3>2
      <4>2. s.at <= i + 1 => s.pos < Len(cbufs[s.at])
        <5> SUFFICES ASSUME s.at <= i + 1 PROVE s.pos < Len(cbufs[s.at])
          OBVIOUS
        <5>1. s.at \in 1..(i + 1) /\ s.pos \in Nat
          BY <2>2
        <5>2. CASE s.at = i + 1
          BY <2>3, <3>2, <5>1, <5>2
        <5>3. CASE s.at # i + 1
          <6>1. s.at <= i
            BY <5>1, <5>3
          <6> QED BY <2>2, <6>1
        <5> QED BY <5>2, <5>3
      <4> QED BY <2>2, <4>1, <4>2
    <3> QED BY <3>1, <3>2
  <2>5. i + 1 \in 0..Len(cbufs)
    BY <1>1
  <2> QED BY <2>4, <2>5 DEF t
<1>5. 0..Len(cbufs) \subseteq Good
  <2>1. 0 \in Int /\ Len(cbufs) \in Int
    BY <1>1
  <2> HIDE DEF Good
  <2> QED BY <1>3, <1>4, <2>1, IntervalInduction
<1>6. Holds(f[Len(cbufs)], Len(cbufs))
  <2>1. Len(cbufs) \in 0..Len(cbufs)
    BY <1>1
  <2> QED BY <1>5, <2>1
<1> QED BY <1>2, <1>6 DEF InCbuf

-----------------------------------------------------------------------------
(* The loop that copies                                                    *)

\* What the loop of fread has copied from cbuf i, and how it goes on.
From(s, i) == IF i = s.at THEN s.pos ELSE 0
Size(cbufs, s, n, done, i) ==
    IF Len(cbufs[i]) - From(s, i) > n - Len(done) THEN n - Len(done) ELSE Len(cbufs[i]) - From(s, i)
CopyOf(cbufs, s, n, done, i) ==
    done \o SubSeq(cbufs[i], From(s, i) + 1, From(s, i) + Size(cbufs, s, n, done, i))
CopyUp(cbufs, s, n, f) ==
    [i \in (s.at - 1)..Len(cbufs) |-> IF i < s.at THEN <<>> ELSE CopyOf(cbufs, s, n, f[i - 1], i)]
Copies(cbufs, s, n) == CHOOSE f : f = CopyUp(cbufs, s, n, f)

\* What the loop that copies computes, step by step.
LEMMA CopiedUnfolds ==
    ASSUME NEW cbufs, NEW pos, NEW n
    PROVE  Copied(cbufs, pos, n) = Copies(cbufs, Skipped(cbufs, pos), n)[Len(cbufs)]
BY DEF Copied, Copies, CopyUp, CopyOf, From, Size

\* Up to where cbuf i has been copied.
Until(cbufs, s, pos, n, i) ==
    IF i < s.at THEN pos ELSE IF pos + n < Off(cbufs, i) THEN pos + n ELSE Off(cbufs, i)

\* How many bytes of a cbuf are copied, from the first one or from a later one.
CopiesPart(pos, n, o, c, p, i, at, x, a, b, y) ==
    /\ x = IF i = at THEN p ELSE 0
    /\ a = IF i = at THEN pos ELSE IF pos + n < o THEN pos + n ELSE o
    /\ b = IF pos + n < o + c THEN pos + n ELSE o + c
    /\ y = IF c - x > n - (a - pos) THEN n - (a - pos) ELSE c - x

\* How much of one cbuf is copied.
LEMMA CopyBounds ==
    ASSUME NEW pos \in Nat, NEW n \in Nat, NEW o \in Nat, NEW c \in Nat, NEW p \in Nat, NEW i, NEW at,
           i = at => p + o = pos /\ p < c, i # at => pos < o,
           NEW x, NEW a, NEW b, NEW y, CopiesPart(pos, n, o, c, p, i, at, x, a, b, y)
    PROVE  /\ a \in Nat /\ b \in Nat /\ pos <= a /\ a <= b /\ b <= o + c /\ x \in Nat /\ y \in Int
           /\ a < b => a = o + x /\ x + y = b - o /\ x <= b - o /\ b - o <= c /\ b - o \in Nat
           /\ a = b => x + y < x + 1
<1>1. CASE i = at
  <2>1. x = p /\ a = pos /\ y = IF c - x > n - (a - pos) THEN n - (a - pos) ELSE c - x
    BY <1>1 DEF CopiesPart
  <2>2. b = IF pos + n < o + c THEN pos + n ELSE o + c
    BY DEF CopiesPart
  <2> QED BY ONLY <1>1, <2>1, <2>2, i = at => p + o = pos /\ p < c, pos \in Nat, n \in Nat, o \in Nat,
                  c \in Nat, p \in Nat
<1>2. CASE i # at
  <2>1. /\ x = 0 /\ a = (IF pos + n < o THEN pos + n ELSE o)
        /\ y = IF c - x > n - (a - pos) THEN n - (a - pos) ELSE c - x
    BY <1>2 DEF CopiesPart
  <2>2. b = IF pos + n < o + c THEN pos + n ELSE o + c
    BY DEF CopiesPart
  <2> QED BY ONLY <1>2, <2>1, <2>2, i # at => pos < o, pos \in Nat, n \in Nat, o \in Nat, c \in Nat
<1> QED BY <1>1, <1>2

\* One turn of the loop: the copy is what is between the two positions.
LEMMA CopyStep ==
    ASSUME NEW B, NEW cbufs \in Seq(Seq(B)), NEW n \in Nat, NEW pos \in 0..Len(FlattenSeq(cbufs)),
           NEW s, InCbuf(cbufs, pos, s), NEW i \in s.at..Len(cbufs)
    PROVE  LET part(k) == Slice(FlattenSeq(cbufs), pos, Until(cbufs, s, pos, n, k))
           IN part(i) = CopyOf(cbufs, s, n, part(i - 1), i)
<1> DEFINE all == FlattenSeq(cbufs)
           a == Until(cbufs, s, pos, n, i - 1)
           b == Until(cbufs, s, pos, n, i)
           o == Off(cbufs, i - 1)
           c == cbufs[i]
           x == From(s, i)
           z == Size(cbufs, s, n, Slice(all, pos, a), i)
<1>1. /\ s.at \in Nat /\ s.at >= 1 /\ s.at <= Len(cbufs) /\ s.pos \in Nat
      /\ s.pos + Off(cbufs, s.at - 1) = pos /\ s.pos < Len(cbufs[s.at])
      /\ i \in Nat /\ i >= s.at /\ i <= Len(cbufs) /\ Len(cbufs) \in Nat
  <2>1. Len(cbufs) \in Nat
    BY Offsets
  <2>2. s.at \in 1..(Len(cbufs) + 1)
    BY DEF InCbuf
  <2> QED BY <2>1, <2>2 DEF InCbuf
<1>2. pos \in Nat /\ pos <= Len(all) /\ Len(all) \in Nat /\ all \in Seq(B) /\ n \in Nat
  BY Offsets
<1>3. /\ c \in Seq(B) /\ Len(c) \in Nat /\ o \in Nat /\ o + Len(c) <= Len(all)
      /\ Off(cbufs, i) = o + Len(c) /\ Slice(all, o, o + Len(c)) = c
  <2>1. i \in 1..Len(cbufs) /\ i - 1 \in 0..Len(cbufs) /\ i \in 0..Len(cbufs)
    BY <1>1
  <2> QED BY <1>2, <2>1, Offsets
<1>4. i # s.at => pos < o
  <2> SUFFICES ASSUME i # s.at PROVE pos < o
    OBVIOUS
  <2>1. /\ s.at \in 1..Len(cbufs) /\ i - 1 \in 0..Len(cbufs) /\ s.at \in 0..(i - 1) /\ s.at - 1 \in 0..Len(cbufs)
        /\ s.at \in 0..Len(cbufs)
    BY SMTT(60), <1>1
  <2>2. Off(cbufs, s.at) = Off(cbufs, s.at - 1) + Len(cbufs[s.at])
    BY <2>1, Offsets
  <2>3. Off(cbufs, s.at) <= o
    BY <2>1, PreGrows DEF Off
  <2>4. Off(cbufs, s.at - 1) \in Nat /\ Len(cbufs[s.at]) \in Nat
    <3>1. Off(cbufs, s.at - 1) \in 0..Len(all)
      BY <2>1, Offsets
    <3>2. Len(cbufs[s.at]) \in Nat
      BY <2>1, Offsets
    <3> QED BY <1>2, <3>1, <3>2
  <2> DEFINE u == Off(cbufs, s.at - 1)
             v == Len(cbufs[s.at])
             w == Off(cbufs, s.at)
             p == s.pos
  <2>5. u \in Nat /\ v \in Nat /\ o \in Nat /\ p \in Nat /\ p + u = pos /\ p < v /\ w = u + v /\ w <= o
    BY <1>1, <1>3, <2>2, <2>3, <2>4
  <2> HIDE DEF o, u, v, w, p
  <2> QED BY ONLY <2>5
<1>5. /\ x = IF i = s.at THEN s.pos ELSE 0
      /\ a = IF i = s.at THEN pos ELSE IF pos + n < o THEN pos + n ELSE o
      /\ b = IF pos + n < o + Len(c) THEN pos + n ELSE o + Len(c)
  <2>1. (i - 1 < s.at) <=> (i = s.at)
    BY <1>1
  <2>2. ~(i < s.at)
    BY <1>1
  <2> HIDE DEF c, all
  <2> QED BY <1>3, <2>1, <2>2 DEF Until, From
<1> DEFINE y == IF Len(c) - x > n - (a - pos) THEN n - (a - pos) ELSE Len(c) - x
<1>6. /\ a \in Nat /\ b \in Nat /\ pos <= a /\ a <= b /\ b <= Len(all) /\ x \in Nat /\ y \in Int
      /\ a < b => a = o + x /\ x + y = b - o /\ x <= b - o /\ b - o <= Len(c) /\ b - o \in Nat
      /\ a = b => x + y < x + 1
  <2> DEFINE at == s.at
  <2>1. (i = at => s.pos + o = pos /\ s.pos < Len(c)) /\ (i # at => pos < o)
    BY <1>1, <1>4
  <2> HIDE DEF a, b, c, o, x, all, at
  <2>2. /\ a \in Nat /\ b \in Nat /\ pos <= a /\ a <= b /\ b <= o + Len(c) /\ x \in Nat /\ y \in Int
        /\ a < b => a = o + x /\ x + y = b - o /\ x <= b - o /\ b - o <= Len(c) /\ b - o \in Nat
        /\ a = b => x + y < x + 1
    <3>1. pos \in Nat /\ n \in Nat /\ o \in Nat /\ Len(c) \in Nat /\ s.pos \in Nat
      BY <1>1, <1>2, <1>3
    <3>2. CopiesPart(pos, n, o, Len(c), s.pos, i, at, x, a, b, y)
      BY <1>5 DEF at, CopiesPart
    <3> DEFINE lc == Len(c)
               p == s.pos
    <3>3. /\ (i = at => p + o = pos /\ p < lc) /\ (i # at => pos < o)
          /\ pos \in Nat /\ n \in Nat /\ o \in Nat /\ lc \in Nat /\ p \in Nat
          /\ CopiesPart(pos, n, o, lc, p, i, at, x, a, b, y)
      BY <2>1, <3>1, <3>2
    <3> HIDE DEF lc, p, y
    <3>4. /\ a \in Nat /\ b \in Nat /\ pos <= a /\ a <= b /\ b <= o + lc /\ x \in Nat /\ y \in Int
          /\ a < b => a = o + x /\ x + y = b - o /\ x <= b - o /\ b - o <= lc /\ b - o \in Nat
          /\ a = b => x + y < x + 1
      BY ONLY SMTT(60), <3>3, CopyBounds
    <3> QED BY <3>4 DEF lc
  <2> QED BY <1>3, <2>2
<1>7. Len(Slice(all, pos, a)) = a - pos /\ Slice(all, pos, a) \in Seq(B)
  <2>1. a \in 0..Len(all) /\ pos \in 0..a
    <3> HIDE DEF a, b, all
    <3> QED BY <1>2, <1>6
  <2> HIDE DEF a, all
  <2> QED BY <1>2, <2>1, SliceProperties
<1>8. z = y
  <2> HIDE DEF a, all
  <2> QED BY <1>7 DEF Size
<1> DEFINE d == SubSeq(c, x + 1, x + z)
<1>9. d = Slice(all, a, b)
  <2> HIDE DEF a, b, c, o, x, y, z, all
  <2>1. CASE a < b
    <3>1. d = Slice(c, x, b - o)
      BY <1>6, <1>8, <2>1 DEF Slice
    <3>2. Slice(Slice(all, o, o + Len(c)), x, b - o) = Slice(all, o + x, o + (b - o))
      <4>1. /\ o + Len(c) \in 0..Len(all) /\ o \in 0..(o + Len(c)) /\ b - o \in 0..(o + Len(c) - o)
            /\ x \in 0..(b - o)
        BY <1>2, <1>3, <1>6, <2>1
      <4> QED BY <1>2, <4>1, SliceOfSlice
    <3>3. o + (b - o) = b
      BY <1>3, <1>6
    <3> HIDE DEF d
    <3> QED BY <1>3, <1>6, <2>1, <3>1, <3>2, <3>3
  <2>2. CASE a = b
    <3>1. d = <<>>
      <4>1. x + z < x + 1 /\ x + 1 \in Int /\ x + z \in Int
        BY <1>6, <1>8, <2>2
      <4> QED BY <1>3, <4>1, SubSeqEmpty
    <3>2. Slice(all, a, b) = <<>>
      <4>1. a \in 0..Len(all)
        BY <1>2, <1>6
      <4> QED BY <1>2, <2>2, <4>1, SliceEnds
    <3> HIDE DEF d
    <3> QED BY <3>1, <3>2
  <2> HIDE DEF d
  <2> QED BY <1>6, <2>1, <2>2
<1>10. Cat(Slice(all, pos, a), Slice(all, a, b)) = Slice(all, pos, b)
  <2> HIDE DEF a, b, all
  <2>1. b \in 0..Len(all) /\ a \in 0..b /\ pos \in 0..a
    BY <1>2, <1>6
  <2> QED BY <1>2, <2>1, SliceJoin
<1>11. CopyOf(cbufs, s, n, Slice(all, pos, a), i) = Cat(Slice(all, pos, a), d)
  BY DEF CopyOf, Cat
<1>12. Slice(all, pos, b) = CopyOf(cbufs, s, n, Slice(all, pos, a), i)
  <2> HIDE DEF d, all, a, b
  <2> QED BY <1>9, <1>10, <1>11
<1> QED BY <1>12

\* fread returns the bytes after the position.
LEMMA CopiedIs ==
    ASSUME NEW B, NEW cbufs \in Seq(Seq(B)), NEW n \in Nat, NEW pos \in 0..Len(FlattenSeq(cbufs))
    PROVE  LET all == FlattenSeq(cbufs)
               end == IF pos + n < Len(all) THEN pos + n ELSE Len(all)
           IN /\ Copied(cbufs, pos, n) = SubSeq(all, pos + 1, end)
              /\ Len(Copied(cbufs, pos, n)) = end - pos /\ end \in 0..Len(all) /\ pos <= end
<1> DEFINE s == Skipped(cbufs, pos)
           all == FlattenSeq(cbufs)
           end == IF pos + n < Len(all) THEN pos + n ELSE Len(all)
           L == Len(cbufs)
           m == s.at - 1
           part(k) == Slice(all, pos, Until(cbufs, s, pos, n, k))
           g == [i \in m..L |-> part(i)]
           f == Copies(cbufs, s, n)
<1>1. pos \in Nat /\ pos <= Len(all) /\ Len(all) \in Nat /\ all \in Seq(B) /\ L \in Nat /\ Off(cbufs, L) = Len(all)
  BY Offsets
<1>0. InCbuf(cbufs, pos, s)
  BY SkippedFinds
<1> HIDE DEF s
<1>2. /\ s.at \in 1..(L + 1) /\ s.pos \in Nat /\ s.pos + Off(cbufs, s.at - 1) = pos
      /\ s.at <= L => s.pos < Len(cbufs[s.at])
  BY <1>0 DEF InCbuf
<1>3. \A i \in s.at..L : part(i) = CopyOf(cbufs, s, n, part(i - 1), i)
  BY <1>0, CopyStep
<1>4. part(m) = <<>>
  <2>1. Until(cbufs, s, pos, n, m) = pos
    <3> HIDE DEF s
    <3> QED BY <1>1, <1>2 DEF Until
  <2> QED BY <1>1, <2>1, SliceEnds
<1>5. part(L) = SubSeq(all, pos + 1, end)
  <2>1. Until(cbufs, s, pos, n, L) = end
    <3> HIDE DEF s, all
    <3>1. CASE L < s.at
      <4>1. s.at - 1 = L
        BY <1>1, <1>2, <3>1
      <4> QED BY <1>1, <1>2, <3>1, <4>1 DEF Until
    <3>2. CASE ~(L < s.at)
      BY <1>1, <3>2 DEF Until
    <3> QED BY <3>1, <3>2
  <2> HIDE DEF s, all, end
  <2> QED BY <2>1 DEF Slice
<1> HIDE DEF s, part, all, end
<1>6. m \in Int /\ L \in Int /\ m \in 0..L /\ s.at = m + 1
  BY <1>1, <1>2
<1>7. g = CopyUp(cbufs, s, n, g)
  <2>1. ASSUME NEW i \in m..L PROVE g[i] = IF i < s.at THEN <<>> ELSE CopyOf(cbufs, s, n, g[i - 1], i)
    <3>1. CASE i < s.at
      <4>1. i = m
        BY <1>6, <3>1
      <4> QED BY <1>4, <3>1, <4>1
    <3>2. CASE ~(i < s.at)
      <4>1. i \in s.at..L /\ i - 1 \in m..L
        BY <1>6, <3>2
      <4>2. g[i] = part(i) /\ g[i - 1] = part(i - 1)
        BY <4>1
      <4> QED BY <1>3, <3>2, <4>1, <4>2
    <3> QED BY <3>1, <3>2
  <2>2. CopyUp(cbufs, s, n, g) = [i \in m..L |-> IF i < s.at THEN <<>> ELSE CopyOf(cbufs, s, n, g[i - 1], i)]
    BY DEF CopyUp
  <2>3. g = [i \in m..L |-> g[i]]
    OBVIOUS
  <2> HIDE DEF g, m, L
  <2> QED BY <2>1, <2>2, <2>3
<1>8. f = CopyUp(cbufs, s, n, f)
  <2> HIDE DEF g, s
  <2> QED BY <1>7 DEF Copies
<1> HIDE DEF f, g
<1>9. \A i \in m..L : f[i] = IF i < s.at THEN <<>> ELSE CopyOf(cbufs, s, n, f[i - 1], i)
  BY <1>8 DEF CopyUp
<1>10. f[L] = part(L)
  <2> DEFINE Good == {i \in m..L : f[i] = part(i)}
  <2>1. m \in Good
    <3>1. m \in m..L /\ m < s.at
      BY <1>6
    <3>2. f[m] = <<>>
      BY <1>9, <3>1
    <3> QED BY <1>4, <3>1, <3>2
  <2>2. ASSUME NEW i \in m..(L - 1), i \in Good PROVE i + 1 \in Good
    <3>1. i + 1 \in m..L /\ ~(i + 1 < s.at) /\ (i + 1) - 1 = i /\ i + 1 \in s.at..L
      BY <1>6
    <3>2. f[i + 1] = CopyOf(cbufs, s, n, f[i], i + 1) /\ part(i + 1) = CopyOf(cbufs, s, n, part(i), i + 1)
      BY <1>3, <1>9, <3>1
    <3> QED BY <2>2, <3>1, <3>2
  <2>3. m..L \subseteq Good
    <3> HIDE DEF Good, m, L
    <3> QED BY <1>6, <2>1, <2>2, IntervalInduction
  <2>4. L \in m..L
    BY <1>6
  <2> QED BY <2>3, <2>4
<1>11. Copied(cbufs, pos, n) = SubSeq(all, pos + 1, end)
  BY <1>5, <1>10, CopiedUnfolds DEF f, s
<1>12. end \in 0..Len(all) /\ pos <= end
  BY <1>1 DEF end
<1>13. Len(SubSeq(all, pos + 1, end)) = end - pos
  <2>1. pos \in 0..end
    BY <1>1, <1>12
  <2> QED BY <1>1, <1>12, <2>1, SliceProperties DEF Slice
<1> QED BY <1>11, <1>12, <1>13 DEF end, all

-----------------------------------------------------------------------------
(* The positions of the readers, and the theorems about reading            *)

\* A reader's position is inside the file; the others have none.
ContentOf(h) == FlattenSeq(heap[file[h].fd].cbuf)
PositionOK(h) == IF file[h].mode = "READ" THEN file[h].pos \in 0..Len(ContentOf(h)) ELSE file[h].pos = 0
Positions == \A h \in Handles : PositionOK(h)

\* What an open file is.
LEMMA FileFacts ==
    ASSUME IInv, NEW g \in Handles
    PROVE  /\ file[g].mode \in {"NA", "READ", "WRITE"} /\ file[g].fd \in Defs \cup {NoDef}
           /\ file[g] = [mode |-> file[g].mode, fd |-> file[g].fd, pos |-> file[g].pos]
           /\ file[g].mode # "NA" => file[g].fd \in Defs
           /\ DOMAIN file = Handles
<1>1. PICK P : file \in [Handles -> FileType(P)]
  BY DEF IInv, TypeInv
<1> QED BY <1>1 DEF FileType, IInv, OpenFiles

\* What an open file points to is a list of pieces, and each of them is a sequence of numbers.
LEMMA CbufFacts ==
    ASSUME IInv, NEW d \in Defs
    PROVE  heap[d].cbuf \in Seq(Seq(Nat)) /\ Len(FlattenSeq(heap[d].cbuf)) \in Nat
<1>1. heap[d].cbuf \in Seq(Pieces)
  BY DEF IInv, TypeInv, Definitions
<1>2. Pieces \subseteq Seq(Nat)
  BY PiecesAssumption
<1>3. heap[d].cbuf \in Seq(Seq(Nat))
  BY <1>1, <1>2
<1> QED BY <1>3, Offsets

\* A position is good as long as the file, and what it names, stay the same.
LEMMA PositionKept ==
    ASSUME NEW g \in Handles, PositionOK(g), file'[g] = file[g],
           file[g].mode = "READ" => heap'[file[g].fd].cbuf = heap[file[g].fd].cbuf
    PROVE  PositionOK(g)'
BY DEF PositionOK, ContentOf

\* Nor do the positions of the others change.
LEMMA PositionsKept ==
    ASSUME IInv, Positions, file' = file,
           \A g \in Handles : file[g].mode = "READ" => heap'[file[g].fd].cbuf = heap[file[g].fd].cbuf
    PROVE  Positions'
<1> SUFFICES ASSUME NEW g \in Handles PROVE PositionOK(g)'
  BY DEF Positions
<1>1. PositionOK(g)
  BY DEF Positions
<1> QED BY <1>1, PositionKept

\* A definition that is freed was not open.
LEMMA OpenKept ==
    ASSUME IInv, NEW n, \A e \in Defs : heap'[e] = heap[e] \/ Removed(n, e),
           NEW g \in Handles, file[g].mode # "NA"
    PROVE  heap'[file[g].fd] = heap[file[g].fd]
<1>1. file[g].fd \in Defs
  BY FileFacts
<1> QED BY <1>1 DEF Removed, Unopened

\* A reader begins at the beginning.
LEMMA PosOpenRead ==
    ASSUME IInv, Positions, NEW h \in Handles, NEW n \in Names, OpenRead(h, n)
    PROVE  Positions'
<1> SUFFICES ASSUME NEW g \in Handles PROVE PositionOK(g)'
  BY DEF Positions
<1>1. \A e \in Defs : heap'[e].cbuf = heap[e].cbuf
  BY OpenReadDoes
<1>2. PICK d \in Defs : file' = [file EXCEPT ![h] = [mode |-> "READ", fd |-> d, pos |-> 0]]
  BY OpenReadDoes
<1>3. PositionOK(g) /\ (file[g].mode # "NA" => file[g].fd \in Defs) /\ DOMAIN file = Handles
  BY FileFacts DEF Positions
<1>4. CASE g = h
  <2>1. file'[g] = [mode |-> "READ", fd |-> d, pos |-> 0]
    BY <1>2, <1>3, <1>4
  <2>2. Len(FlattenSeq(heap'[d].cbuf)) \in Nat
    BY <1>1, CbufFacts
  <2> QED BY <2>1, <2>2 DEF PositionOK, ContentOf
<1>5. CASE g # h
  <2>1. file'[g] = file[g]
    BY <1>2, <1>3, <1>5
  <2> QED BY <1>1, <1>3, <2>1, PositionKept
<1> QED BY <1>4, <1>5

\* A closed file has no position.
LEMMA PosClose ==
    ASSUME IInv, Positions, NEW h \in Handles, FClose(h)
    PROVE  Positions'
<1> SUFFICES ASSUME NEW g \in Handles PROVE PositionOK(g)'
  BY DEF Positions
<1>1. file' = [file EXCEPT ![h] = Closed] /\ \A e \in Defs : heap'[e].cbuf = heap[e].cbuf
  BY FCloseDoes
<1>2. PositionOK(g) /\ (file[g].mode # "NA" => file[g].fd \in Defs) /\ DOMAIN file = Handles
  BY FileFacts DEF Positions
<1>3. CASE g = h
  <2>1. file'[g] = Closed
    BY <1>1, <1>2, <1>3
  <2> QED BY <2>1 DEF PositionOK, Closed
<1>4. CASE g # h
  <2>1. file'[g] = file[g]
    BY <1>1, <1>2, <1>4
  <2> QED BY <1>1, <1>2, <2>1, PositionKept
<1> QED BY <1>3, <1>4

\* The memory of a new definition was nobody's file.
LEMMA PosOpenWrite ==
    ASSUME IInv, Positions, NEW h \in Handles, NEW n \in Names, NEW d \in Defs, OpenWriteAt(h, n, d)
    PROVE  Positions'
<1> SUFFICES ASSUME NEW g \in Handles PROVE PositionOK(g)'
  BY DEF Positions
<1>1. /\ \A e \in Defs \ {d} : heap'[e] = heap[e] \/ Removed(n, e)
      /\ file' = [file EXCEPT ![h] = [mode |-> "WRITE", fd |-> d, pos |-> 0]]
  BY OpenWriteDoes
<1>2. PositionOK(g) /\ (file[g].mode # "NA" => file[g].fd \in Defs) /\ DOMAIN file = Handles
  BY FileFacts DEF Positions
<1>3. Unopened(d)
  <2>1. Replaceable(Find(n)) /\ Free(Find(n))[d] = Freed
    BY DEF OpenWriteAt
  <2>2. heap[d] = Freed \/ Unopened(d)
    BY <2>1, Removal
  <2>3. heap[d] = Freed => Idle(d)
    BY DEF Freed, Idle
  <2> QED BY <2>2, <2>3, IdleUnopened
<1>4. CASE g = h
  <2>1. file'[g] = [mode |-> "WRITE", fd |-> d, pos |-> 0]
    BY <1>1, <1>2, <1>4
  <2> QED BY <2>1 DEF PositionOK
<1>5. CASE g # h
  <2>1. file'[g] = file[g]
    BY <1>1, <1>2, <1>5
  <2>2. file[g].mode # "NA" => heap'[file[g].fd] = heap[file[g].fd]
    BY <1>1, <1>2, <1>3 DEF Removed, Unopened
  <2> QED BY <1>2, <2>1, <2>2, PositionKept
<1> QED BY <1>4, <1>5

\* Nobody reads the file that is written to.
LEMMA PosWrite ==
    ASSUME IInv, Positions, NEW h \in Handles, NEW p \in Pieces, FWrite(h, p)
    PROVE  Positions'
<1>1. file' = file /\ \A e \in Defs : e # file[h].fd => heap'[e].cbuf = heap[e].cbuf
  BY FWriteDoes
<1>2. file[h].mode = "WRITE"
  BY DEF FWrite
<1>3. ASSUME NEW g \in Handles, file[g].mode = "READ"
      PROVE heap'[file[g].fd].cbuf = heap[file[g].fd].cbuf
  <2>1. file[g].fd \in Defs
    BY <1>3, FileFacts
  <2>2. file[g].fd # file[h].fd
    BY <1>2, <1>3, UsersCounted
  <2> QED BY <1>1, <2>1, <2>2
<1> QED BY <1>1, <1>3, PositionsKept

\* A read does not go beyond the end.
LEMMA PosRead ==
    ASSUME IInv, Positions, NEW h \in Handles, NEW n \in Nat, FRead(h, n)
    PROVE  Positions'
<1> SUFFICES ASSUME NEW g \in Handles PROVE PositionOK(g)'
  BY DEF Positions
<1> DEFINE cbufs == heap[file[h].fd].cbuf
           k == file[h].pos + Len(Copied(cbufs, file[h].pos, n))
<1>1. PositionOK(g) /\ PositionOK(h) /\ DOMAIN file = Handles
  BY FileFacts DEF Positions
<1>2. file[h].mode = "READ" /\ heap' = heap /\ file' = [file EXCEPT ![h].pos = k]
  BY DEF FRead
<1>3. k \in 0..Len(ContentOf(h))
  <2>1. cbufs \in Seq(Seq(Nat)) /\ Len(FlattenSeq(cbufs)) \in Nat
    <3>1. file[h].fd \in Defs
      BY <1>2, FileFacts
    <3> QED BY <3>1, CbufFacts
  <2> DEFINE pos == file[h].pos
  <2>2. pos \in 0..Len(FlattenSeq(cbufs)) /\ ContentOf(h) = FlattenSeq(cbufs)
    BY <1>1, <1>2 DEF PositionOK, ContentOf
  <2> DEFINE len == Len(FlattenSeq(cbufs))
             end == IF pos + n < len THEN pos + n ELSE len
  <2> HIDE DEF cbufs, pos
  <2>3. Len(Copied(cbufs, pos, n)) = end - pos
    BY <2>1, <2>2, CopiedIs
  <2> HIDE DEF len
  <2>4. pos + (end - pos) = end /\ end \in 0..len
    BY <2>1, <2>2 DEF len
  <2> HIDE DEF end
  <2> QED BY <2>2, <2>3, <2>4 DEF k, len, pos
<1> HIDE DEF k
<1>4. CASE g = h
  <2>1. file'[g].mode = "READ" /\ file'[g].fd = file[g].fd /\ file'[g].pos = k
    <3>1. file[g] = [mode |-> file[g].mode, fd |-> file[g].fd, pos |-> file[g].pos]
      BY FileFacts
    <3>2. file'[g] = [file[g] EXCEPT !.pos = k]
      BY <1>1, <1>2, <1>4
    <3> QED BY <1>2, <1>4, <3>1, <3>2
  <2> QED BY <1>2, <1>3, <1>4, <2>1 DEF PositionOK, ContentOf
<1>5. CASE g # h
  <2>1. file'[g] = file[g]
    BY <1>1, <1>2, <1>5
  <2> QED BY <1>1, <1>2, <2>1, PositionKept
<1> QED BY <1>4, <1>5

\* A seek beyond the end goes to the end.
LEMMA PosSeek ==
    ASSUME IInv, Positions, NEW h \in Handles, NEW k \in Nat, FSeek(h, k)
    PROVE  Positions'
<1>1. DOMAIN file = Handles /\ file[h].mode = "READ" /\ heap' = heap
  BY FileFacts DEF FSeek
<1>2. CASE file' = file
  BY <1>1, <1>2, PositionsKept
<1>3. CASE k < Len(ContentOf(h)) /\ file' = [file EXCEPT ![h].pos = k]
  <2> SUFFICES ASSUME NEW g \in Handles PROVE PositionOK(g)'
    BY DEF Positions
  <2>1. PositionOK(g)
    BY DEF Positions
  <2>2. k \in 0..Len(ContentOf(h))
    <3>1. file[h].fd \in Defs
      BY <1>1, FileFacts
    <3>2. Len(ContentOf(h)) \in Nat
      BY <3>1, CbufFacts DEF ContentOf
    <3> QED BY <1>3, <3>2
  <2>3. CASE g = h
    <3>1. file[g] = [mode |-> file[g].mode, fd |-> file[g].fd, pos |-> file[g].pos]
      BY FileFacts
    <3>2. file'[g] = [file[g] EXCEPT !.pos = k]
      BY <1>1, <1>3, <2>3
    <3>3. file'[g].mode = "READ" /\ file'[g].fd = file[g].fd /\ file'[g].pos = k
      BY <1>1, <2>3, <3>1, <3>2
    <3> QED BY <1>1, <2>2, <2>3, <3>3 DEF PositionOK, ContentOf
  <2>4. CASE g # h
    <3>1. file'[g] = file[g]
      BY <1>1, <1>3, <2>4
    <3> QED BY <1>1, <2>1, <3>1, PositionKept
  <2> QED BY <2>3, <2>4
<1> QED BY <1>2, <1>3 DEF FSeek, ContentOf

\* One step of the file system, or none.
LEMMA PosStep == IInv /\ Positions /\ [Next]_vars => Positions'
<1> SUFFICES ASSUME IInv, Positions, [Next]_vars PROVE Positions'
  OBVIOUS
<1>1. CASE UNCHANGED vars
  BY <1>1, PositionsKept DEF vars
<1>2. ASSUME NEW h \in Handles, NEW n \in Names, OpenRead(h, n) PROVE Positions'
  BY <1>2, PosOpenRead
<1>3. ASSUME NEW h \in Handles, NEW n \in Names, OpenWrite(h, n) PROVE Positions'
  BY <1>3, PosOpenWrite DEF OpenWrite
<1>4. ASSUME NEW h \in Handles, NEW n \in Names, OpenWriteFails(h, n) PROVE Positions'
  BY <1>4, OpenWriteFailsDoes, OpenKept, PositionsKept
<1>5. ASSUME NEW h \in Handles, NEW p \in Pieces, FWrite(h, p) PROVE Positions'
  BY <1>5, PosWrite
<1>6. ASSUME NEW h \in Handles, FClose(h) PROVE Positions'
  BY <1>6, PosClose
<1>7. ASSUME NEW h \in Handles, NEW n \in 1..MaxRead, FRead(h, n) PROVE Positions'
  BY <1>7, PosRead
<1>8. ASSUME NEW h \in Handles, NEW n \in 1..MaxRead, FSeek(h, n - 1) PROVE Positions'
  BY <1>8, PosSeek
<1>9. ASSUME NEW n \in Names, FRemove(n) PROVE Positions'
  BY <1>9, FRemoveDoes, OpenKept, PositionsKept
<1> QED BY <1>1, <1>2, <1>3, <1>4, <1>5, <1>6, <1>7, <1>8, <1>9 DEF Next

\* Every reader is inside its file.
LEMMA SpecPositions == Spec => [](IInv /\ Positions)
<1>1. Init => Positions
  BY DEF Init, Positions, PositionOK, Closed
<1> QED BY <1>1, InitInv, StepKeeps, PosStep, PTL DEF Spec

\* Every position is a number, and everything else has its type too.
THEOREM RamTypes == Spec => []TypeOK
<1>1. IInv /\ Positions => TypeOK
  <2> SUFFICES ASSUME IInv, Positions PROVE TypeOK
    OBVIOUS
  <2>1. ASSUME NEW h \in Handles
        PROVE  file[h] \in [mode : {"NA", "READ", "WRITE"}, fd : Defs \cup {NoDef}, pos : Nat]
    <3>1. /\ file[h].mode \in {"NA", "READ", "WRITE"} /\ file[h].fd \in Defs \cup {NoDef}
          /\ file[h] = [mode |-> file[h].mode, fd |-> file[h].fd, pos |-> file[h].pos]
      BY FileFacts
    <3>2. file[h].pos \in Nat
      BY DEF Positions, PositionOK
    <3> QED BY <3>1, <3>2
  <2>2. file \in [Handles -> [mode : {"NA", "READ", "WRITE"}, fd : Defs \cup {NoDef}, pos : Nat]]
    <3>1. PICK P : file \in [Handles -> FileType(P)]
      BY DEF IInv, TypeInv
    <3> QED BY <2>1, <3>1
  <2> QED BY <2>2 DEF TypeOK, IInv, TypeInv
<1> QED BY <1>1, SpecPositions, PTL

\* fread skips the cbufs before the position and goes on with the next one: whatever the
\* sizes of the writes, it returns the bytes that follow the position, to the end at most.
THEOREM ReadsCorrect == Spec => []ReadsMatch
<1>1. IInv /\ Positions => ReadsMatch
  <2> SUFFICES ASSUME IInv, Positions, NEW h \in Handles, NEW n \in 1..MaxRead, file[h].mode = "READ"
               PROVE  LET all == FlattenSeq(heap[file[h].fd].cbuf)
                          end == IF file[h].pos + n < Len(all) THEN file[h].pos + n ELSE Len(all)
                      IN Copied(heap[file[h].fd].cbuf, file[h].pos, n)
                           = SubSeq(all, file[h].pos + 1, end)
    BY DEF ReadsMatch
  <2> DEFINE cbufs == heap[file[h].fd].cbuf
             pos == file[h].pos
  <2>1. cbufs \in Seq(Seq(Nat))
    BY FileFacts, CbufFacts
  <2>2. pos \in 0..Len(FlattenSeq(cbufs)) /\ n \in Nat
    BY DEF Positions, PositionOK, ContentOf
  <2> HIDE DEF cbufs, pos
  <2>3. LET all == FlattenSeq(cbufs)
            end == IF pos + n < Len(all) THEN pos + n ELSE Len(all)
        IN Copied(cbufs, pos, n) = SubSeq(all, pos + 1, end)
    BY <2>1, <2>2, CopiedIs
  <2> QED BY <2>3 DEF cbufs, pos
<1> QED BY <1>1, SpecPositions, PTL
==============================================================================
