--------------------------- MODULE SchedulerProofs ---------------------------
(***************************************************************************)
(* Theorems about the scheduler, for every number of clients and every     *)
(* amount of memory: its task list and its loop over it are sound.         *)
(***************************************************************************)
EXTENDS Scheduler, DataLemmas

-----------------------------------------------------------------------------
(* The inductive invariant                                                 *)

TypeInv == /\ place \in {"visit", "accept", "read", "time", "stopped"}
           /\ tasks \in Seq(Clients) /\ togo \in Seq(Clients)
           /\ state \in [Clients -> States]

Listed == Distinct(tasks) /\ In(tasks) = {c \in Clients : state[c] # "none"}

\* What the loop has still to visit is listed, each task once.
StillToVisit == Distinct(togo) /\ In(togo) \subseteq In(tasks)

\* A task that has quit will be visited by this very loop.
DeadVisited == \A c \in Clients : state[c] = "NULL" => place = "visit" /\ c \in In(togo)

IInv == TypeInv /\ Listed /\ StillToVisit /\ DeadVisited

LEMMA SlotsNatural == MaxClients \in Nat
  BY SizesAssumption

LEMMA InvImplies == IInv => TaskListSound /\ NoDeadTaskAtSockets
<1> SUFFICES ASSUME IInv PROVE TaskListSound /\ NoDeadTaskAtSockets
  OBVIOUS
<1>1. Len(tasks) <= MaxClients
  BY SlotsNatural, DistinctLength DEF IInv, TypeInv, Listed, Clients
<1>2. Members(tasks) = In(tasks)
  BY DEF Members, In
<1> QED BY <1>1, <1>2 DEF IInv, Listed, DeadVisited, Distinct, TaskListSound, NoDeadTaskAtSockets

-----------------------------------------------------------------------------
(* What most steps have in common: the same tasks are listed               *)

LEMMA SameTasks ==
    ASSUME IInv,
           place' \in {"visit", "accept", "read", "time", "stopped"},
           tasks' \in Seq(Clients), Distinct(tasks'), In(tasks') = In(tasks),
           togo' \in Seq(Clients), Distinct(togo'), In(togo') \subseteq In(tasks),
           state' \in [Clients -> States],
           \A c \in Clients : state'[c] = "none" <=> state[c] = "none",
           \A c \in Clients : state'[c] = "NULL" => place' = "visit" /\ c \in In(togo')
    PROVE  IInv'
  BY DEF IInv, TypeInv, Listed, StillToVisit, DeadVisited

\* The task at the head of the loop may change its state; if it does not quit the
\* loop goes on, and if it does it is looked at again.
LEMMA HeadVisited ==
    ASSUME IInv, NEW c \in Clients, place = "visit", togo # <<>>, c = Head(togo), state[c] # "NULL",
           NEW s \in States \ {"none"}, state' = state \/ state' = [state EXCEPT ![c] = s],
           place' = place, tasks' = tasks, GoOn(c)
    PROVE  IInv'
<1> USE DEF IInv
<1>1. /\ Tail(togo) \in Seq(Clients) /\ c \in In(togo)
      /\ Distinct(Tail(togo)) /\ In(Tail(togo)) = In(togo) \ {c}
  BY TailDistinct DEF TypeInv, StillToVisit
<1>2. state[c] # "none"
  BY <1>1 DEF Listed, StillToVisit
<1>3. /\ state' \in [Clients -> States]
      /\ \A d \in Clients : d # c => state'[d] = state[d]
      /\ state'[c] # "none"
  BY <1>2 DEF TypeInv
<1>4. CASE state'[c] = "NULL"
  <2>1. togo' = togo
    BY <1>4 DEF GoOn
  <2>2. \A d \in Clients : state'[d] = "NULL" => place' = "visit" /\ d \in In(togo')
    BY <1>1, <1>3, <2>1 DEF DeadVisited
  <2> QED BY <1>2, <1>3, <2>1, <2>2, SameTasks DEF TypeInv, Listed, StillToVisit
<1>5. CASE state'[c] # "NULL"
  <2>1. togo' = Tail(togo)
    BY <1>5 DEF GoOn
  <2>2. \A d \in Clients : state'[d] = "NULL" => place' = "visit" /\ d \in In(togo')
    BY <1>1, <1>3, <1>5, <2>1 DEF DeadVisited
  <2>3. togo' \in Seq(Clients) /\ Distinct(togo') /\ In(togo') \subseteq In(tasks)
    BY <1>1, <2>1 DEF StillToVisit
  <2>4. \A d \in Clients : state'[d] = "none" <=> state[d] = "none"
    BY <1>2, <1>3
  <2> QED BY <1>3, <2>2, <2>3, <2>4, SameTasks DEF TypeInv, Listed
<1> QED BY <1>4, <1>5

\* No task has quit when the sockets are looked at, so a loop there only needs to
\* stay within the list.
LEMMA SocketStep ==
    ASSUME IInv, place # "visit",
           place' \in {"visit", "accept", "read", "time", "stopped"}, tasks' = tasks,
           \/ togo' = tasks \/ togo' = togo \/ (togo # <<>> /\ togo' = Tail(togo)),
           state' \in [Clients -> States],
           \A c \in Clients : /\ state'[c] = "none" <=> state[c] = "none"
                              /\ state'[c] = "NULL" => state[c] = "NULL"
    PROVE  IInv'
<1> USE DEF IInv
<1>1. \A c \in Clients : state'[c] # "NULL"
  BY DEF DeadVisited
<1>2. togo' \in Seq(Clients) /\ Distinct(togo') /\ In(togo') \subseteq In(tasks)
  <2>1. CASE togo' = tasks
    BY <2>1 DEF TypeInv, Listed
  <2>2. CASE togo' = togo
    BY <2>2 DEF TypeInv, StillToVisit
  <2>3. CASE togo # <<>> /\ togo' = Tail(togo)
    <3>1. /\ Tail(togo) \in Seq(Clients) /\ Distinct(Tail(togo))
          /\ In(Tail(togo)) = In(togo) \ {Head(togo)}
      BY <2>3, TailDistinct DEF TypeInv, StillToVisit
    <3> QED BY <2>3, <3>1 DEF StillToVisit
  <2> QED BY <2>1, <2>2, <2>3
<1> QED BY <1>1, <1>2, SameTasks DEF TypeInv, Listed

-----------------------------------------------------------------------------
(* The steps that change the list                                          *)

LEMMA RemoveTaskKeeps ==
    ASSUME IInv, NEW c \in Clients, RemoveTask(c)
    PROVE  IInv'
<1> DEFINE i == CHOOSE i \in DOMAIN tasks : tasks[i] = c
<1> USE DEF IInv
<1>1. /\ togo # <<>> /\ c = Head(togo) /\ place' = place /\ place = "visit"
      /\ tasks' = RemoveAt(tasks, i) /\ togo' = Tail(togo) /\ state' = [state EXCEPT ![c] = "none"]
  BY DEF RemoveTask, Visiting, Unlink
<1>2. /\ Tail(togo) \in Seq(Clients) /\ c \in In(togo)
      /\ Distinct(Tail(togo)) /\ In(Tail(togo)) = In(togo) \ {c}
  BY <1>1, TailDistinct DEF TypeInv, StillToVisit
<1>3. i \in 1..Len(tasks) /\ tasks[i] = c
  <2>1. \E k \in DOMAIN tasks : tasks[k] = c
    BY <1>2 DEF StillToVisit, In
  <2>2. DOMAIN tasks = 1..Len(tasks)
    BY DEF TypeInv
  <2> QED BY <2>1, <2>2
<1> HIDE DEF i
<1>4. tasks' \in Seq(Clients) /\ Distinct(tasks') /\ In(tasks') = In(tasks) \ {c}
  BY <1>1, <1>3, RemoveAtDistinct DEF TypeInv, Listed
<1>5. /\ state' \in [Clients -> States] /\ state'[c] = "none"
      /\ \A d \in Clients : d # c => state'[d] = state[d]
  BY <1>1 DEF TypeInv, States
<1>6. TypeInv'
  BY <1>1, <1>2, <1>4, <1>5 DEF TypeInv
<1>7. Listed'
  BY <1>4, <1>5 DEF Listed
<1>8. StillToVisit'
  BY <1>1, <1>2, <1>4 DEF StillToVisit
<1>9. DeadVisited'
  BY <1>1, <1>2, <1>5 DEF DeadVisited
<1> QED BY <1>6, <1>7, <1>8, <1>9

\* A slot is free when a client is accepted, so there is a client to take.
LEMMA FreshFree ==
    ASSUME IInv, FreeSlots > 0
    PROVE  Fresh \in Clients /\ Fresh \notin In(tasks) /\ state[Fresh] = "none"
<1> USE DEF IInv
<1>1. Len(tasks) < MaxClients
  BY SlotsNatural DEF FreeSlots, TypeInv
<1>2. \E c \in Clients : c \notin In(tasks)
  BY <1>1, SlotsNatural, DistinctLength DEF TypeInv, Listed, Clients
<1>3. Members(tasks) = In(tasks)
  BY DEF Members, In
<1>4. Fresh \in Clients /\ Fresh \notin In(tasks)
  BY <1>2, <1>3 DEF Fresh
<1> QED BY <1>4 DEF Listed

LEMMA AcceptKeeps ==
    ASSUME IInv, Accept
    PROVE  IInv'
<1> USE DEF IInv
<1>1. /\ FreeSlots > 0 /\ place' = "read" /\ place = "accept" /\ togo' = tasks
      /\ tasks' = Append(tasks, Fresh) /\ state' = [state EXCEPT ![Fresh] = "receive"]
  BY DEF Accept, ToRead, Enter
<1>2. Fresh \in Clients /\ Fresh \notin In(tasks)
  BY <1>1, FreshFree
<1>3. tasks' \in Seq(Clients) /\ Distinct(tasks') /\ In(tasks') = In(tasks) \cup {Fresh}
  BY <1>1, <1>2, AppendDistinct DEF TypeInv, Listed
<1> HIDE DEF Fresh
<1>4. /\ state' \in [Clients -> States] /\ state'[Fresh] = "receive"
      /\ \A d \in Clients : d # Fresh => state'[d] = state[d]
  BY <1>1, <1>2 DEF TypeInv, States
<1>5. TypeInv'
  BY <1>1, <1>3, <1>4 DEF TypeInv
<1>6. Listed'
  BY <1>2, <1>3, <1>4 DEF Listed
<1>7. StillToVisit'
  BY <1>1, <1>3 DEF StillToVisit, Listed
<1>8. DeadVisited'
  BY <1>1, <1>4 DEF DeadVisited
<1> QED BY <1>5, <1>6, <1>7, <1>8

-----------------------------------------------------------------------------
(* The end of the pass                                                     *)

\* The least important task exists, so it is one of the list.
LEMMA LowestExists ==
    ASSUME TypeInv, tasks # <<>>
    PROVE  /\ Lowest \in In(tasks)
           /\ \A c \in In(tasks) : Priority(state[Lowest]) <= Priority(state[c])
<1> DEFINE P(i) == Priority(state[tasks[i]])
           T(p) == {i \in DOMAIN tasks : P(i) = p}
           First(i) == \A j \in DOMAIN tasks : P(i) <= P(j) /\ (j < i => P(i) # P(j))
<1>1. DOMAIN tasks \subseteq Nat /\ 1 \in DOMAIN tasks
  BY DEF TypeInv
<1>2. \A i \in DOMAIN tasks : P(i) \in {0, 1, 2}
  BY DEF Priority
<1> HIDE DEF P
<1>3. ASSUME NEW p \in {0, 1, 2}, T(p) # {}, \A q \in {0, 1, 2} : q < p => T(q) = {}
      PROVE  \E i \in DOMAIN tasks : First(i)
  <2>1. PICK i \in T(p) : \A j \in T(p) : i <= j
    BY <1>1, <1>3, Smallest
  <2> WITNESS i \in DOMAIN tasks
  <2> QED BY <1>1, <1>2, <1>3, <2>1
<1>4. T(0) # {} \/ T(1) # {} \/ T(2) # {}
  BY <1>1, <1>2
<1> HIDE DEF T, First
<1>5. PICK i \in DOMAIN tasks : First(i)
  BY <1>3, <1>4
<1>6. \E c \in Members(tasks) : \E k \in DOMAIN tasks : tasks[k] = c /\ First(k)
  BY <1>5 DEF Members
<1>7. Lowest \in Members(tasks) /\ \E k \in DOMAIN tasks : tasks[k] = Lowest /\ First(k)
  BY <1>6 DEF Lowest, First, P
<1>8. \A j \in DOMAIN tasks : Priority(state[Lowest]) <= Priority(state[tasks[j]])
  BY <1>7 DEF First, P
<1> QED BY <1>7, <1>8 DEF Members, In

LEMMA LowestListed ==
    ASSUME TypeInv, tasks # <<>>
    PROVE  Lowest \in In(tasks)
  BY LowestExists

LEMMA LowestLeast ==
    ASSUME IInv, NEW c \in In(tasks)
    PROVE  Priority(state[Lowest]) <= Priority(state[c])
<1>1. tasks # <<>>
  BY DEF In
<1> QED BY <1>1, LowestExists DEF IInv

LEMMA NothingToVisit ==
    ASSUME IInv, EndOfPass
    PROVE  /\ \A c \in Clients : state[c] # "NULL"
           /\ Starvation => Lowest \in Clients /\ state[Lowest] # "none"
<1> USE DEF IInv
<1>1. \A c \in Clients : state[c] # "NULL"
  BY DEF EndOfPass, DeadVisited, In
<1>2. ASSUME Starvation PROVE Lowest \in Clients /\ state[Lowest] # "none"
  <2>1. tasks # <<>>
    BY <1>2 DEF Starvation, Polling, Members
  <2> QED BY <2>1, LowestListed DEF Listed
<1> QED BY <1>1, <1>2

LEMMA EndOfPassKeeps ==
    ASSUME IInv, EndOfPass
    PROVE  IInv'
<1> USE DEF IInv
<1>1. /\ place = "visit" /\ togo = <<>> /\ place' = "accept" /\ togo' = togo /\ Rotate
      /\ state' = state \/ (Starvation /\ state' = [state EXCEPT ![Lowest] = "disconnect"])
  BY DEF EndOfPass, Recover, Abort, Enter
<1>2. /\ tasks' \in Seq(Clients) /\ Distinct(tasks') /\ In(tasks') = In(tasks)
  <2>1. CASE Len(tasks) < 2
    BY <1>1, <2>1 DEF Rotate, TypeInv, Listed
  <2>2. CASE ~(Len(tasks) < 2)
    <3>1. tasks \in Seq(Clients) /\ Distinct(tasks) /\ tasks # <<>>
      BY <2>2 DEF TypeInv, Listed
    <3>2. /\ Tail(tasks) \in Seq(Clients) /\ Head(tasks) \in In(tasks)
          /\ Distinct(Tail(tasks)) /\ In(Tail(tasks)) = In(tasks) \ {Head(tasks)}
      BY <3>1, TailDistinct
    <3>3. Head(tasks) \in Clients /\ Head(tasks) \notin In(Tail(tasks))
      BY <3>1, <3>2
    <3> DEFINE t == Tail(tasks)
               h == Head(tasks)
    <3>4. t \in Seq(Clients) /\ Distinct(t) /\ h \in Clients /\ h \notin In(t)
      BY <3>2, <3>3
    <3> HIDE DEF t, h
    <3>5. Append(t, h) \in Seq(Clients) /\ Distinct(Append(t, h)) /\ In(Append(t, h)) = In(t) \cup {h}
      BY <3>4, AppendDistinct
    <3>6. /\ Append(Tail(tasks), Head(tasks)) \in Seq(Clients)
          /\ Distinct(Append(Tail(tasks), Head(tasks)))
          /\ In(Append(Tail(tasks), Head(tasks))) = In(Tail(tasks)) \cup {Head(tasks)}
      BY <3>5 DEF t, h
    <3> QED BY <1>1, <2>2, <3>2, <3>6 DEF Rotate
  <2> QED BY <2>1, <2>2
<1>3. \A c \in Clients : state[c] # "NULL"
  BY NothingToVisit
<1>4. /\ state' \in [Clients -> States]
      /\ \A c \in Clients : state'[c] = "none" <=> state[c] = "none"
      /\ \A c \in Clients : state'[c] # "NULL"
  <2>1. CASE state' = state
    BY <1>3, <2>1 DEF TypeInv
  <2>2. CASE Starvation /\ state' = [state EXCEPT ![Lowest] = "disconnect"]
    <3>1. Lowest \in Clients /\ state[Lowest] # "none"
      BY <2>2, NothingToVisit
    <3> HIDE DEF Lowest
    <3> QED BY <1>3, <2>2, <3>1 DEF TypeInv, States
  <2> QED BY <1>1, <2>1, <2>2
<1>5. togo' \in Seq(Clients) /\ Distinct(togo') /\ In(togo') \subseteq In(tasks)
  BY <1>1 DEF TypeInv, StillToVisit
<1> QED BY <1>1, <1>2, <1>4, <1>5, SameTasks

-----------------------------------------------------------------------------
(* Every step, and the theorems                                            *)

LEMMA InitInv == Init => IInv
<1> SUFFICES ASSUME Init PROVE IInv
  OBVIOUS
<1>1. In(tasks) = {} /\ In(togo) = {} /\ Distinct(tasks) /\ Distinct(togo)
  BY DEF Init, In, Distinct
<1>2. \A c \in Clients : state[c] = "none"
  BY DEF Init
<1> QED BY <1>1, <1>2 DEF Init, IInv, TypeInv, Listed, StillToVisit, DeadVisited, States

LEMMA VisitKeeps ==
    ASSUME IInv, NEW c \in Clients, Visit(c)
    PROVE  IInv'
<1>1. CASE RemoveTask(c)
  BY <1>1, RemoveTaskKeeps
<1>2. CASE Skip(c)
  <2>1. /\ place = "visit" /\ togo # <<>> /\ c = Head(togo) /\ state[c] # "NULL"
        /\ state' = state /\ place' = place /\ tasks' = tasks /\ GoOn(c)
    BY <1>2 DEF Skip, Visiting, Live, GoOn
  <2> QED BY <2>1, HeadVisited DEF States
<1>3. ASSUME Poll(c), NEW s \in States \ {"none"}, state' = state \/ state' = [state EXCEPT ![c] = s],
             GoOn(c)
      PROVE  IInv'
  <2>1. /\ place = "visit" /\ togo # <<>> /\ c = Head(togo) /\ state[c] # "NULL"
        /\ place' = place /\ tasks' = tasks
    BY <1>3 DEF Poll, Visiting, Live
  <2> QED BY <1>3, <2>1, HeadVisited
<1>4. CASE PollReceive(c)
  <2>1. Poll(c) /\ GoOn(c) /\ (state' = state \/ state' = [state EXCEPT ![c] = "work"])
    BY <1>4 DEF PollReceive, Enter, Wait
  <2> QED BY <1>3, <2>1 DEF States
<1>5. CASE PollWork(c)
  <2>1. Poll(c) /\ GoOn(c)
    BY <1>5 DEF PollWork
  <2>2. \/ state' = state
        \/ state' = [state EXCEPT ![c] = "release"]
        \/ state' = [state EXCEPT ![c] = "disconnect"]
    BY <1>5 DEF PollWork, Enter, Wait
  <2> QED BY <1>3, <2>1, <2>2 DEF States
<1>6. CASE PollRelease(c)
  BY <1>3, <1>6 DEF PollRelease, Enter, States
<1>7. CASE PollDisconnect(c)
  BY <1>3, <1>7 DEF PollDisconnect, States
<1> QED BY <1>1, <1>2, <1>4, <1>5, <1>6, <1>7 DEF Visit

LEMMA SocketsKeep ==
    ASSUME IInv, Sockets
    PROVE  IInv'
<1> USE DEF IInv
<1>0. \A c \in Clients : state[c] \in States /\ state \in [Clients -> States]
  BY DEF TypeInv
<1>1. CASE Accept
  BY <1>1, AcceptKeeps
<1>2. ASSUME place \in {"accept", "read"}, place' \in {"read", "time"}, tasks' = tasks, state' = state,
             \/ togo' = tasks \/ togo' = togo \/ (togo # <<>> /\ togo' = Tail(togo))
      PROVE  IInv'
  BY <1>2, SocketStep DEF TypeInv
<1>3. CASE Reject \/ NoClient
  BY <1>2, <1>3 DEF Reject, NoClient, ToRead
<1>4. CASE NothingRead \/ Waited
  BY <1>2, <1>4 DEF NothingRead, Waited
<1>5. ASSUME NEW c \in Clients, Read(c) \/ Closed(c) PROVE IInv'
  <2>1. /\ place = "read" /\ place' = place /\ tasks' = tasks
        /\ togo # <<>> /\ togo' = Tail(togo) /\ Live(c)
    BY <1>5 DEF Read, Closed, Reading, Live
  <2>2. state' = state \/ state' = [state EXCEPT ![c] = "disconnect"]
    BY <1>5 DEF Read, Closed, Abort, Enter
  <2>3. /\ state' \in [Clients -> States]
        /\ \A d \in Clients : /\ state'[d] = "none" <=> state[d] = "none"
                              /\ state'[d] = "NULL" => state[d] = "NULL"
    BY <1>0, <2>1, <2>2 DEF Live, States
  <2> QED BY <2>1, <2>3, SocketStep
<1> QED BY <1>1, <1>3, <1>4, <1>5 DEF Sockets

LEMMA StepKeeps == IInv /\ [Next]_vars => IInv'
<1> SUFFICES ASSUME IInv, [Next]_vars PROVE IInv'
  OBVIOUS
<1>1. CASE UNCHANGED vars
  <2>1. place' = place /\ tasks' = tasks /\ togo' = togo /\ state' = state
    BY <1>1 DEF vars
  <2> QED BY <2>1 DEF IInv, TypeInv, Listed, StillToVisit, DeadVisited
<1>2. ASSUME NEW c \in Clients, Visit(c) PROVE IInv'
  BY <1>2, VisitKeeps
<1>3. CASE EndOfPass
  BY <1>3, EndOfPassKeeps
<1>4. CASE Sockets
  BY <1>4, SocketsKeep
<1>5. ASSUME NEW d, TimePasses(d) PROVE IInv'
  <2>1. place = "time" /\ place' = "visit" /\ togo' = tasks /\ tasks' = tasks /\ state' = state
    BY <1>5 DEF TimePasses
  <2> QED BY <2>1, SocketStep DEF IInv, TypeInv
<1>6. CASE Stop
  <2>1. place = "time" /\ place' = "stopped" /\ tasks' = tasks /\ togo' = togo
    BY <1>6 DEF Stop
  <2>2. state' = [c \in Clients |-> IF Live(c) THEN "disconnect" ELSE state[c]]
    BY <1>6 DEF Stop
  <2>3. /\ state' \in [Clients -> States]
        /\ \A c \in Clients : /\ state'[c] = "none" <=> state[c] = "none"
                              /\ state'[c] = "NULL" => state[c] = "NULL"
    BY <2>2 DEF IInv, TypeInv, Live, States
  <2> QED BY <2>1, <2>3, SocketStep
<1>7. CASE Stopped
  BY <1>1, <1>7 DEF Stopped
<1> QED BY <1>1, <1>2, <1>3, <1>4, <1>5, <1>6, <1>7 DEF Next, Ticks

LEMMA SpecInv == Spec => []IInv
<1> QED BY InitInv, StepKeeps, PTL DEF Spec

\* The task list holds every client that is there exactly once and never more than
\* there are slots, whatever quits, is accepted or is aborted during a pass.
THEOREM TaskListCorrect == Spec => []TaskListSound
<1> QED BY SpecInv, InvImplies, PTL

\* A task that quits during a pass is removed by the same pass, before the sockets
\* are looked at.
THEOREM NoDeadTaskCorrect == Spec => []NoDeadTaskAtSockets
<1> QED BY SpecInv, InvImplies, PTL

-----------------------------------------------------------------------------
(* Aborting for starvation: the invariant                                  *)

\* What the clocks and the memory of a client in state s can be.
Kept(s, p, q, h) ==
    /\ s \notin {"none", "NULL"} => h >= ClientUnits
    /\ s = "NULL" => h = 1
    /\ s = "none" => h = 0
    /\ s = "receive" => /\ h \in {ClientUnits, ClientUnits + 1}
                        /\ h = ClientUnits + 1 => p # Infinite
                        /\ p # Infinite => q # Infinite
    /\ s \in {"release", "disconnect"} => p = 0
    /\ s = "work" => p # Infinite /\ q # Infinite /\ h <= ClientUnits + Need

Numbers == /\ poll \in [Clients -> Clock] /\ poll_init \in [Clients -> Clock]
           /\ held \in [Clients -> Nat] /\ used \in Int /\ reserve \in Nat
           /\ t0 \in Nat \cup {Infinite}
           /\ used <= MaxMemory /\ (place # "read" => reserve = 0)
           /\ \A c \in Clients : Kept(state[c], poll[c], poll_init[c], held[c])

\* Every backoff is over before the detection is.
Delayed(c) == state[c] \in {"receive", "work"} /\ poll[c] \notin {0, Infinite}
Aging == \A c \in Clients : Delayed(c) => poll[c] + t0 <= Interval

\* So is every one that began before the detection did.
RefusedInv == t0 # Infinite =>
    \A c \in Clients : Delayed(c) /\ c \notin refused => poll[c] + t0 <= Interval

\* It will be polled, and polls again at once unless it is told to wait.
Hungry(c)  == poll[c] = 0 /\ \/ state[c] = "work"
                             \/ state[c] = "receive" /\ held[c] > ClientUnits
Leaving(c) == state[c] \in {"disconnect", "NULL"}

Before(s, a, b) == \E i, j \in DOMAIN s : i < j /\ s[i] = a /\ s[j] = b

\* Whoever is about to free memory comes before one who is about to take it.
Followed(s) == \A e \in In(s) : Leaving(e) => \E z \in Clients : Hungry(z) /\ Before(s, e, z)

\* A task that was visited will be polled by the next pass.
Busy == \E c \in In(tasks) \ In(togo) : Live(c) /\ poll[c] = 0

PassInv == place = "visit" /\ t0 # Infinite /\ ~told =>
    \/ Busy
    \/ Free >= 1 /\ (Aging \/ \E z \in In(togo) : Hungry(z))
    \/ Free < 1 /\ Followed(togo)

SocketInv == place \in {"accept", "read", "time"} /\ t0 # Infinite /\ ~told =>
    \/ Free + reserve >= 1 /\ Aging
    \/ Free + reserve < 1 /\ Followed(tasks)

\* Tasks are read in the order they are visited in, and memory is needed to notice
\* that a peer has closed.
ReadInv == /\ place = "read" => \A a, b \in Clients : Before(togo, a, b) => Before(tasks, a, b)
           /\ place = "read" /\ t0 # Infinite =>
                \A e \in Clients : Leaving(e) => \A z \in In(togo) : Before(tasks, e, z)
           /\ place = "accept" /\ t0 # Infinite => \A e \in Clients : ~Leaving(e)

ShortInv == PassInv /\ SocketInv /\ ReadInv /\ RefusedInv

LEMMA BeforeTail ==
    ASSUME NEW S, NEW s \in Seq(S), Distinct(s), s # <<>>
    PROVE  /\ \A a, b : Before(Tail(s), a, b) => Before(s, a, b)
           /\ \A b \in In(Tail(s)) : Before(s, Head(s), b)
           /\ \A a, b : Before(s, a, b) /\ a # Head(s) => Before(Tail(s), a, b)
           /\ \A a, b : Before(s, a, b) => a # b /\ b \in In(Tail(s))
<1> DEFINE t == Tail(s)
<1>1. /\ DOMAIN s = 1..Len(s) /\ DOMAIN t = 1..(Len(s) - 1) /\ Head(s) = s[1] /\ Len(s) \in Nat
      /\ \A j \in 1..(Len(s) - 1) : t[j] = s[j + 1]
  OBVIOUS
<1> HIDE DEF t
<1>2. ASSUME NEW a, NEW b, Before(t, a, b) PROVE Before(s, a, b)
  <2>1. PICK i, j \in DOMAIN t : i < j /\ t[i] = a /\ t[j] = b
    BY <1>2 DEF Before
  <2>2. i + 1 \in DOMAIN s /\ j + 1 \in DOMAIN s /\ i + 1 < j + 1 /\ s[i + 1] = a /\ s[j + 1] = b
    BY <1>1, <2>1
  <2> QED BY <2>2 DEF Before
<1>3. ASSUME NEW b \in In(t) PROVE Before(s, Head(s), b)
  <2>1. PICK j \in DOMAIN t : t[j] = b
    BY <1>3 DEF In
  <2>2. 1 \in DOMAIN s /\ j + 1 \in DOMAIN s /\ 1 < j + 1 /\ s[j + 1] = b
    BY <1>1, <2>1
  <2> QED BY <1>1, <2>2 DEF Before
<1>4. ASSUME NEW a, NEW b, Before(s, a, b)
      PROVE  a # b /\ b \in In(t) /\ (a # Head(s) => Before(t, a, b))
  <2>1. PICK i, j \in DOMAIN s : i < j /\ s[i] = a /\ s[j] = b
    BY <1>4 DEF Before
  <2>2. a # b
    BY <1>1, <2>1 DEF Distinct
  <2>3. j - 1 \in DOMAIN t /\ t[j - 1] = b
    BY <1>1, <2>1
  <2>4. a # Head(s) => i - 1 \in DOMAIN t /\ i - 1 < j - 1 /\ t[i - 1] = a
    BY <1>1, <2>1
  <2> QED BY <2>2, <2>3, <2>4 DEF In, Before
<1> QED BY <1>2, <1>3, <1>4 DEF t

LEMMA BeforeAppend ==
    ASSUME NEW S, NEW s \in Seq(S), NEW d \in S
    PROVE  \A a, b : Before(s, a, b) => Before(Append(s, d), a, b)
<1> DEFINE t == Append(s, d)
<1>1. DOMAIN s \subseteq DOMAIN t /\ \A j \in DOMAIN s : t[j] = s[j]
  OBVIOUS
<1> HIDE DEF t
<1> QED BY <1>1 DEF Before, t

-----------------------------------------------------------------------------
(* The clocks and the memory of one client                                 *)

LEMMA Sizes == /\ MaxClients \in Nat /\ MaxMemory \in Nat /\ ClientUnits \in Nat /\ ClientUnits >= 1
               /\ Need \in Nat /\ Need >= 1 /\ Interval \in Nat /\ Interval >= 1
               /\ Infinite \notin Nat
  BY SizesAssumption, IntervalAssumption, InfiniteAssumption

LEMMA BackoffBounded ==
    ASSUME NEW n \in 0..Interval
    PROVE  Backoff(n) \in 1..Interval
<1>1. CASE n < Interval \div 2
  <2>1. 2 * n <= Interval
    BY <1>1, Sizes
  <2> QED BY <2>1, <1>1, Sizes DEF Backoff
<1>2. CASE ~(n < Interval \div 2)
  BY <1>2, Sizes DEF Backoff
<1> QED BY <1>1, <1>2

LEMMA NumbersOf ==
    ASSUME Numbers, NEW c \in Clients,
           \A d \in Clients : d # c => /\ state'[d] = state[d] /\ poll'[d] = poll[d]
                                       /\ poll_init'[d] = poll_init[d] /\ held'[d] = held[d],
           poll' \in [Clients -> Clock], poll_init' \in [Clients -> Clock],
           held' \in [Clients -> Nat], used' \in Int, reserve' \in Nat,
           t0' \in Nat \cup {Infinite}, used' <= MaxMemory, place' # "read" => reserve' = 0,
           Kept(state'[c], poll'[c], poll_init'[c], held'[c])
    PROVE  Numbers'
<1>1. \A d \in Clients : Kept(state'[d], poll'[d], poll_init'[d], held'[d])
  BY DEF Numbers
<1> QED BY <1>1 DEF Numbers

LEMMA NumbersSame ==
    ASSUME Numbers, UNCHANGED <<state, poll, poll_init, held>>,
           used' \in Int, reserve' \in Nat, t0' \in Nat \cup {Infinite}, used' <= MaxMemory,
           place' # "read" => reserve' = 0
    PROVE  Numbers'
  BY DEF Numbers

LEMMA ReleaseAll ==
    ASSUME held \in [Clients -> Nat], used \in Int, NEW c \in Clients, NEW n \in Nat,
           Release(c, held[c] - n)
    PROVE  held' = [held EXCEPT ![c] = n] /\ used' = used - (held[c] - n)
<1>1. held[c] \in Int /\ held[c] + -(held[c] - n) = n
  OBVIOUS
<1> QED BY <1>1 DEF Release, Malloc

LEMMA NumbersVisit ==
    ASSUME IInv, Numbers, NEW c \in Clients, Visit(c)
    PROVE  Numbers'
<1> USE Sizes
<1>0. /\ state \in [Clients -> States] /\ poll \in [Clients -> Clock] /\ poll_init \in [Clients -> Clock]
      /\ held \in [Clients -> Nat] /\ used \in Int /\ reserve \in Nat /\ t0 \in Nat \cup {Infinite}
      /\ used <= MaxMemory /\ Kept(state[c], poll[c], poll_init[c], held[c])
      /\ 0 \in Clock /\ Infinite \in Clock
  BY DEF IInv, TypeInv, Numbers, Clock
<1>1. place = "visit" /\ place' = place /\ reserve' = reserve /\ t0' = t0 /\ reserve = 0
  BY DEF Visit, RemoveTask, Skip, PollReceive, PollWork, PollRelease, PollDisconnect, Poll,
     Visiting, Numbers
<1>2. CASE RemoveTask(c)
  <2>1. /\ state' = [state EXCEPT ![c] = "none"] /\ held' = [held EXCEPT ![c] = 0]
        /\ used' = used - 1 /\ poll' = poll /\ poll_init' = poll_init
    BY <1>0, <1>2 DEF RemoveTask, Release, Malloc, Kept
  <2>2. Kept("none", poll[c], poll_init[c], 0)
    BY DEF Kept
  <2> QED BY <1>0, <1>1, <2>1, <2>2, NumbersOf
<1>3. CASE Skip(c)
  BY <1>0, <1>1, <1>3, NumbersSame DEF Skip
<1>9. ASSUME Wait(c), state[c] \in {"receive", "work"}, poll[c] = 0 PROVE Numbers'
  <2> DEFINE b == Backoff(poll_init[c])
  <2>1. b \in 1..Interval
    BY <1>0, <1>9, BackoffBounded DEF Kept, Clock
  <2> HIDE DEF b
  <2>2. /\ held' = held /\ used' = used /\ state' = state
        /\ poll' = [poll EXCEPT ![c] = b] /\ poll_init' = [poll_init EXCEPT ![c] = b]
    BY <1>9 DEF Wait, PollSet, b
  <2>3. Kept(state[c], b, b, held[c]) /\ b \in Clock
    BY <1>0, <1>9, <2>1 DEF Kept, Clock
  <2> QED BY <1>0, <1>1, <2>2, <2>3, NumbersOf
<1>4. CASE PollReceive(c)
  <2>1. state[c] = "receive" /\ poll[c] = 0
    BY <1>4 DEF PollReceive, Poll
  <2>2. CASE held[c] = ClientUnits /\ PollSet(c, Infinite) /\ MemoryUnchanged /\ UNCHANGED state
    <3>1. /\ state' = state /\ held' = held /\ used' = used
          /\ poll' = [poll EXCEPT ![c] = Infinite] /\ poll_init' = [poll_init EXCEPT ![c] = Infinite]
      BY <2>2 DEF PollSet, MemoryUnchanged
    <3>2. Kept("receive", Infinite, Infinite, held[c])
      BY <1>0, <2>1, <2>2 DEF Kept
    <3> QED BY <1>0, <1>1, <2>1, <3>1, <3>2, NumbersOf
  <2>3. CASE Enter(c, "work") /\ MemoryUnchanged
    <3>1. /\ held' = held /\ used' = used /\ state' = [state EXCEPT ![c] = "work"]
          /\ poll' = [poll EXCEPT ![c] = 0] /\ poll_init' = [poll_init EXCEPT ![c] = 0]
      BY <2>3 DEF MemoryUnchanged, PollSet, Enter
    <3>2. Kept("work", 0, 0, held[c])
      BY <1>0, <2>1 DEF Kept
    <3> QED BY <1>0, <1>1, <3>1, <3>2, NumbersOf
  <2> QED BY <1>4, <1>9, <2>1, <2>2, <2>3 DEF PollReceive
<1>5. CASE PollWork(c)
  <2>0. state[c] = "work" /\ poll[c] = 0
    BY <1>5 DEF PollWork, Poll
  <2>1. CASE /\ held[c] < ClientUnits + Need /\ Free >= 1
             /\ Malloc(c, 1) /\ PollSet(c, 0) /\ UNCHANGED state
    <3>1. /\ held' = [held EXCEPT ![c] = held[c] + 1] /\ used' = used + 1 /\ state' = state
          /\ poll' = [poll EXCEPT ![c] = 0] /\ poll_init' = [poll_init EXCEPT ![c] = 0]
          /\ used' <= MaxMemory
      BY <1>0, <2>1 DEF Malloc, PollSet, Free
    <3>2. Kept("work", 0, 0, held[c] + 1)
      BY <1>0, <2>0, <2>1 DEF Kept
    <3> QED BY <1>0, <1>1, <2>0, <3>1, <3>2, NumbersOf
  <2>3. ASSUME NEW s \in {"release", "disconnect"}, Enter(c, s), MemoryUnchanged PROVE Numbers'
    <3>1. /\ held' = held /\ used' = used /\ state' = [state EXCEPT ![c] = s]
          /\ poll' = [poll EXCEPT ![c] = 0] /\ poll_init' = [poll_init EXCEPT ![c] = 0]
      BY <2>3 DEF MemoryUnchanged, PollSet, Enter
    <3>2. Kept(s, 0, 0, held[c])
      BY <1>0, <2>0 DEF Kept
    <3> QED BY <1>0, <1>1, <3>1, <3>2, NumbersOf
  <2> QED BY <1>5, <1>9, <2>0, <2>1, <2>3 DEF PollWork
<1>6. CASE PollRelease(c)
  <2>1. /\ state' = [state EXCEPT ![c] = "receive"] /\ state[c] = "release"
        /\ poll' = [poll EXCEPT ![c] = 0] /\ poll_init' = [poll_init EXCEPT ![c] = 0]
        /\ held' = [held EXCEPT ![c] = ClientUnits] /\ used' = used - (held[c] - ClientUnits)
        /\ held[c] >= ClientUnits
    <3>1. state[c] = "release" /\ Enter(c, "receive") /\ Release(c, held[c] - ClientUnits)
      BY <1>6 DEF PollRelease
    <3>2. held' = [held EXCEPT ![c] = ClientUnits] /\ used' = used - (held[c] - ClientUnits)
      BY <1>0, <3>1, ReleaseAll
    <3>3. held[c] >= ClientUnits
      BY <1>0, <3>1 DEF Kept
    <3> QED BY <3>1, <3>2, <3>3 DEF Enter, PollSet
  <2>2. Kept("receive", 0, 0, ClientUnits) /\ used' <= MaxMemory /\ used' \in Int
    BY <1>0, <2>1 DEF Kept
  <2> QED BY <1>0, <1>1, <2>1, <2>2, NumbersOf
<1>7. CASE PollDisconnect(c)
  <2>1. /\ state' = [state EXCEPT ![c] = "NULL"] /\ state[c] = "disconnect"
        /\ poll' = [poll EXCEPT ![c] = Infinite] /\ poll_init' = [poll_init EXCEPT ![c] = Infinite]
        /\ held' = [held EXCEPT ![c] = 1] /\ used' = used - (held[c] - 1) /\ held[c] >= ClientUnits
    <3>1. /\ state[c] = "disconnect" /\ Release(c, held[c] - 1) /\ PollSet(c, Infinite)
          /\ state' = [state EXCEPT ![c] = "NULL"]
      BY <1>7 DEF PollDisconnect
    <3>2. held' = [held EXCEPT ![c] = 1] /\ used' = used - (held[c] - 1)
      BY <1>0, <3>1, ReleaseAll
    <3>3. held[c] >= ClientUnits
      BY <1>0, <3>1 DEF Kept
    <3> QED BY <3>1, <3>2, <3>3 DEF PollSet
  <2>2. Kept("NULL", Infinite, Infinite, 1) /\ used' <= MaxMemory /\ used' \in Int
    BY <1>0, <2>1 DEF Kept
  <2> QED BY <1>0, <1>1, <2>1, <2>2, NumbersOf
<1> QED BY <1>2, <1>3, <1>4, <1>5, <1>6, <1>7 DEF Visit

LEMMA NumbersEndOfPass ==
    ASSUME IInv, Numbers, EndOfPass
    PROVE  Numbers'
<1>1. /\ place = "visit" /\ place' = "accept" /\ UNCHANGED <<held, used, reserve>>
      /\ t0' \in {t0, 0, Infinite}
      /\ \/ UNCHANGED <<state, poll, poll_init>>
         \/ Starvation /\ Enter(Lowest, "disconnect")
  BY DEF EndOfPass, Recover, Abort, Detection
<1>2. /\ used' \in Int /\ reserve' \in Nat /\ t0' \in Nat \cup {Infinite}
      /\ used' <= MaxMemory /\ reserve' = 0
  BY <1>1 DEF Numbers
<1>3. CASE UNCHANGED <<state, poll, poll_init>>
  BY <1>1, <1>2, <1>3, NumbersSame
<1>4. CASE Starvation /\ Enter(Lowest, "disconnect")
  <2>1. Lowest \in Clients /\ state[Lowest] \notin {"none", "NULL"}
    BY <1>4, NothingToVisit
  <2> DEFINE c == Lowest
  <2>2. /\ state' = [state EXCEPT ![c] = "disconnect"]
        /\ poll' = [poll EXCEPT ![c] = 0] /\ poll_init' = [poll_init EXCEPT ![c] = 0]
    BY <1>4 DEF Enter, PollSet
  <2> HIDE DEF c
  <2>3. Kept("disconnect", 0, 0, held[c]) /\ c \in Clients /\ 0 \in Clock
    BY <2>1, Sizes DEF c, Numbers, Kept, Clock
  <2>4. /\ state \in [Clients -> States] /\ poll \in [Clients -> Clock]
        /\ poll_init \in [Clients -> Clock] /\ held \in [Clients -> Nat]
    BY DEF IInv, TypeInv, Numbers
  <2> QED BY <1>1, <1>2, <2>2, <2>3, <2>4, NumbersOf
<1> QED BY <1>1, <1>3, <1>4

LEMMA NumbersSockets ==
    ASSUME IInv, Numbers, Sockets
    PROVE  Numbers'
<1> USE Sizes
<1>0. /\ state \in [Clients -> States] /\ poll \in [Clients -> Clock] /\ poll_init \in [Clients -> Clock]
      /\ held \in [Clients -> Nat] /\ used \in Int /\ reserve \in Nat /\ t0 \in Nat \cup {Infinite}
      /\ used <= MaxMemory /\ 0 \in Clock /\ (place # "read" => reserve = 0)
      /\ \A c \in Clients : Kept(state[c], poll[c], poll_init[c], held[c])
  BY DEF IInv, TypeInv, Numbers, Clock
<1>1. CASE Accept
  <2> DEFINE c == Fresh
  <2>1. /\ place' = "read" /\ reserve' = 0 /\ used' = used + ClientUnits /\ t0' = t0
        /\ state' = [state EXCEPT ![c] = "receive"] /\ held' = [held EXCEPT ![c] = @ + ClientUnits]
        /\ poll' = [poll EXCEPT ![c] = 0] /\ poll_init' = [poll_init EXCEPT ![c] = 0]
        /\ Free >= ClientUnits /\ FreeSlots > 0
    BY <1>1 DEF Accept, ToRead, Enter, PollSet, Malloc, Reserved
  <2>2. c \in Clients /\ state[c] = "none"
    BY <2>1, FreshFree
  <2> HIDE DEF c
  <2>3. held' = [held EXCEPT ![c] = ClientUnits]
    <3>1. held[c] + ClientUnits = ClientUnits
      BY <1>0, <2>2 DEF Kept
    <3> QED BY <2>1, <3>1
  <2>4. Kept("receive", 0, 0, ClientUnits) /\ used' <= MaxMemory /\ used' \in Int
    BY <1>0, <2>1 DEF Kept, Free
  <2> QED BY <1>0, <2>1, <2>2, <2>3, <2>4, NumbersOf
<1>2. CASE Reject \/ NoClient
  <2>1. /\ place' = "read" /\ reserve' = Reserved /\ used' = used + Reserved /\ t0' = t0
        /\ UNCHANGED <<state, poll, poll_init, held>>
    BY <1>2 DEF Reject, NoClient, ToRead
  <2>2. Reserved \in Nat /\ used + Reserved \in Int /\ used + Reserved <= MaxMemory
    BY <1>0 DEF Reserved, Free
  <2> QED BY <1>0, <2>1, <2>2, NumbersSame
<1>3. ASSUME NEW c \in Clients, Read(c) PROVE Numbers'
  <2>1. /\ place' = place /\ reserve' = reserve /\ used' = used + 1 /\ t0' = t0
        /\ state[c] = "receive" /\ held[c] = ClientUnits /\ held' = [held EXCEPT ![c] = held[c] + 1]
        /\ state' = state /\ Free >= 1
        /\ poll' = [poll EXCEPT ![c] = 0] /\ poll_init' = [poll_init EXCEPT ![c] = 0]
    BY <1>3 DEF Read, PollSet, Malloc
  <2>2. Kept("receive", 0, 0, held[c] + 1) /\ used' <= MaxMemory /\ used' \in Int
    BY <1>0, <2>1 DEF Kept, Free
  <2> QED BY <1>0, <2>1, <2>2, NumbersOf
<1>4. ASSUME NEW c \in Clients, Closed(c) PROVE Numbers'
  <2>1. /\ UNCHANGED <<place, reserve, used, t0, held>> /\ Live(c) /\ Abort(c)
    BY <1>4 DEF Closed
  <2>2. CASE UNCHANGED <<state, poll, poll_init>>
    BY <1>0, <2>1, <2>2, NumbersSame
  <2>3. CASE Enter(c, "disconnect")
    <3>1. Kept("disconnect", 0, 0, held[c])
      BY <1>0, <2>1 DEF Kept, Live
    <3>2. /\ state' = [state EXCEPT ![c] = "disconnect"]
          /\ poll' = [poll EXCEPT ![c] = 0] /\ poll_init' = [poll_init EXCEPT ![c] = 0]
      BY <2>3 DEF Enter, PollSet
    <3> QED BY <1>0, <2>1, <3>1, <3>2, NumbersOf
  <2> QED BY <2>1, <2>2, <2>3 DEF Abort
<1>5. CASE NothingRead
  BY <1>0, <1>5, NumbersSame DEF NothingRead
<1>6. CASE Waited
  BY <1>0, <1>6, NumbersSame DEF Waited, Unused
<1> QED BY <1>1, <1>2, <1>3, <1>4, <1>5, <1>6 DEF Sockets

LEMMA NumbersTime ==
    ASSUME IInv, Numbers, NEW d \in 0..2, TimePasses(d)
    PROVE  Numbers'
<1> USE Sizes
<1>1. /\ UNCHANGED <<state, poll_init, held, used, reserve>> /\ place = "time" /\ place' = "visit"
      /\ poll' = [c \in Clients |-> Passed(poll[c], d)]
      /\ t0' \in {t0, t0 + d} /\ (t0 = Infinite => t0' = t0)
  BY DEF TimePasses
<1>2. ASSUME NEW c \in Clients
      PROVE  /\ Passed(poll[c], d) \in Clock /\ (poll[c] = 0 => Passed(poll[c], d) = 0)
             /\ Passed(poll[c], d) = Infinite <=> poll[c] = Infinite
  BY DEF Passed, Clock, Numbers
<1>3. poll' \in [Clients -> Clock] /\ t0' \in Nat \cup {Infinite} /\ reserve' = 0
  BY <1>1, <1>2 DEF Numbers
<1>4. \A c \in Clients : Kept(state'[c], poll'[c], poll_init'[c], held'[c])
  BY <1>1, <1>2 DEF Numbers, Kept
<1> QED BY <1>1, <1>3, <1>4 DEF Numbers

LEMMA NumbersStop ==
    ASSUME IInv, Numbers, Stop
    PROVE  Numbers'
<1> USE Sizes
<1>1. /\ UNCHANGED <<held, used, reserve, t0>> /\ place = "time" /\ place' = "stopped"
      /\ state' = [c \in Clients |-> IF Live(c) THEN "disconnect" ELSE state[c]]
      /\ poll' = [c \in Clients |-> IF Live(c) /\ state[c] # "disconnect" THEN 0 ELSE poll[c]]
      /\ poll_init' = [c \in Clients |->
                         IF Live(c) /\ state[c] # "disconnect" THEN 0 ELSE poll_init[c]]
  BY DEF Stop
<1>2. poll' \in [Clients -> Clock] /\ poll_init' \in [Clients -> Clock]
  BY <1>1 DEF Numbers, Clock
<1>3. \A c \in Clients : Kept(state'[c], poll'[c], poll_init'[c], held'[c])
  BY <1>1 DEF Numbers, Kept, Live
<1> QED BY <1>1, <1>2, <1>3 DEF Numbers

LEMMA NumbersNext == IInv /\ Numbers /\ [Next]_vars => Numbers'
<1> SUFFICES ASSUME IInv, Numbers, [Next]_vars PROVE Numbers'
  OBVIOUS
<1>1. CASE UNCHANGED vars
  BY <1>1 DEF vars, Numbers
<1>2. CASE Next
  BY <1>1, <1>2, NumbersVisit, NumbersEndOfPass, NumbersSockets, NumbersTime, NumbersStop
     DEF Next, Ticks, Stopped
<1> QED BY <1>1, <1>2

-----------------------------------------------------------------------------
(* Aborting for starvation: a pass                                         *)

\* The task at the head of the loop is done with; a task that polls again at once
\* keeps the pass from being one of starvation.
LEMMA PassOn ==
    ASSUME IInv, Numbers, PassInv, NEW c \in Clients, place = "visit", togo # <<>>, c = Head(togo),
           t0 # Infinite, ~told,
           \A d \in Clients : d # c => /\ state'[d] = state[d] /\ poll'[d] = poll[d]
                                       /\ held'[d] = held[d],
           place' = place, tasks' = tasks, t0' = t0, togo' = Tail(togo),
           \/ state'[c] \in {"receive", "work", "release", "disconnect"} /\ poll'[c] = 0
           \/ ~Hungry(c) /\ (Delayed(c)' => Delayed(c) /\ poll'[c] = poll[c]) /\ used' = used
           \/ Free < 1 /\ used' = used
    PROVE  PassInv'
<1>1. /\ In(togo') = In(togo) \ {c} /\ c \in In(togo) /\ In(togo) \subseteq In(tasks)
      /\ togo \in Seq(Clients) /\ Distinct(togo) /\ In(togo) \subseteq Clients
      /\ In(tasks) \subseteq Clients
  BY TailDistinct DEF IInv, TypeInv, StillToVisit, Listed
<1>2. CASE state'[c] \in {"receive", "work", "release", "disconnect"} /\ poll'[c] = 0
  <2>1. c \in In(tasks') \ In(togo')
    BY <1>1
  <2> QED BY <1>2, <2>1 DEF PassInv, Busy, Live
<1>3. CASE Busy
  <2>1. PICK d \in In(tasks) \ In(togo) : Live(d) /\ poll[d] = 0
    BY <1>3 DEF Busy
  <2>2. d \in In(tasks') \ In(togo') /\ state'[d] = state[d] /\ poll'[d] = poll[d]
    BY <1>1, <2>1
  <2> QED BY <2>1, <2>2 DEF PassInv, Busy, Live
<1>4. CASE Followed(togo) /\ used' = used /\ Free < 1
  <2>1. ASSUME NEW e \in In(togo'), Leaving(e)' PROVE \E z \in Clients : Hungry(z)' /\ Before(togo', e, z)
    <3>1. e \in In(togo) /\ e # c /\ Leaving(e)
      BY <1>1, <2>1 DEF Leaving
    <3>2. PICK z \in Clients : Hungry(z) /\ Before(togo, e, z)
      BY <1>4, <3>1 DEF Followed
    <3>3. z \in In(Tail(togo)) /\ Before(Tail(togo), e, z)
      BY <1>1, <3>1, <3>2, BeforeTail
    <3>4. z # c /\ Hungry(z)'
      BY <1>1, <3>2, <3>3 DEF Hungry
    <3> QED BY <3>3, <3>4
  <2> QED BY <1>4, <2>1 DEF PassInv, Followed, Free
<1>5. CASE /\ ~Hungry(c) /\ (Delayed(c)' => Delayed(c) /\ poll'[c] = poll[c])
           /\ used' = used /\ Free >= 1
  <2>1. Aging => Aging'
    <3>1. \A d \in Clients : Delayed(d)' => Delayed(d) /\ poll'[d] = poll[d]
      BY <1>5 DEF Delayed
    <3> QED BY <3>1 DEF Aging
  <2>2. ASSUME NEW z \in In(togo), Hungry(z) PROVE z \in In(togo') /\ Hungry(z)'
    BY <1>1, <1>5, <2>2 DEF Hungry
  <2>3. Free' >= 1
    BY <1>5 DEF Free
  <2>4. CASE Aging
    BY <2>1, <2>3, <2>4 DEF PassInv
  <2>5. CASE \E z \in In(togo) : Hungry(z)
    BY <2>2, <2>3, <2>5 DEF PassInv
  <2>6. CASE Free < 1
    BY <1>5, <2>6, Sizes DEF Free, Numbers
  <2> QED BY <1>3, <2>4, <2>5, <2>6 DEF PassInv
<1>6. Free >= 1 \/ Free < 1
  BY Sizes DEF Free, Numbers
<1>7. CASE ~Busy /\ Free < 1 /\ used' = used
  <2>1. ~(Free >= 1)
    BY <1>7, Sizes DEF Free, Numbers
  <2> QED BY <1>4, <1>7, <2>1 DEF PassInv
<1> QED BY <1>2, <1>3, <1>5, <1>6, <1>7

\* What a task gives back is there for one that will be visited.
LEMMA PassFreed ==
    ASSUME IInv, Numbers, PassInv, NEW c \in Clients, place = "visit", togo # <<>>, c = Head(togo),
           t0 # Infinite, ~told, Leaving(c),
           \A d \in Clients : d # c => /\ state'[d] = state[d] /\ poll'[d] = poll[d]
                                       /\ held'[d] = held[d],
           place' = place, t0' = t0, In(tasks) \ {c} \subseteq In(tasks'),
           \/ togo' = togo /\ state'[c] = "NULL"
           \/ togo' = Tail(togo) /\ state'[c] = "none" /\ used' < used,
           used' \in Int, used' <= used
    PROVE  PassInv'
<1>1. /\ In(Tail(togo)) = In(togo) \ {c} /\ c \in In(togo) /\ In(togo) \subseteq In(tasks)
      /\ togo \in Seq(Clients) /\ Distinct(togo) /\ In(togo) \subseteq Clients
      /\ In(tasks) \subseteq Clients
  BY TailDistinct DEF IInv, TypeInv, StillToVisit, Listed
<1>2. In(togo') \subseteq In(togo) /\ In(togo) \ {c} \subseteq In(togo')
      /\ state'[c] \in {"NULL", "none"}
  BY <1>1
<1>3. CASE Busy
  <2>1. PICK d \in In(tasks) \ In(togo) : Live(d) /\ poll[d] = 0
    BY <1>3 DEF Busy
  <2>2. d \in In(tasks') \ In(togo') /\ state'[d] = state[d] /\ poll'[d] = poll[d]
    BY <1>1, <1>2, <2>1
  <2> QED BY <2>1, <2>2 DEF PassInv, Busy, Live
<1>4. Aging => Aging'
  <2>1. \A d \in Clients : Delayed(d)' => Delayed(d) /\ poll'[d] = poll[d]
    BY <1>2 DEF Delayed
  <2> QED BY <2>1 DEF Aging
<1>5. ASSUME NEW z \in Clients, Hungry(z), z \in In(togo) PROVE z \in In(togo') /\ Hungry(z)'
  <2>1. z # c
    BY <1>5 DEF Hungry, Leaving
  <2> QED BY <1>2, <1>5, <2>1 DEF Hungry
<1>6. used \in Int /\ MaxMemory \in Int /\ Free >= 0
  BY Sizes DEF Numbers, Free
<1>7. CASE Free >= 1 /\ (Aging \/ \E z \in In(togo) : Hungry(z))
  <2>1. Free' >= 1
    BY <1>6, <1>7 DEF Free
  <2> QED BY <1>1, <1>4, <1>5, <1>7, <2>1 DEF PassInv
<1>8. CASE Free < 1 /\ Followed(togo)
  <2>1. PICK z \in Clients : Hungry(z) /\ Before(togo, c, z)
    BY <1>1, <1>8 DEF Followed
  <2>2. z \in In(togo') /\ Hungry(z)'
    BY <1>1, <1>5, <2>1, BeforeTail
  <2>3. CASE MaxMemory - used' >= 1
    BY <2>2, <2>3 DEF PassInv, Free
  <2>4. CASE ~(MaxMemory - used' >= 1)
    <3>0. \A m, u, v \in Int : m - u >= 0 /\ ~(m - v >= 1) => ~(v < u) /\ m - v < 1
      OBVIOUS
    <3>1. ~(used' < used) /\ MaxMemory - used' < 1
      BY Zenon, <1>6, <2>4, <3>0 DEF Free
    <3>2. togo' = togo
      BY <3>1
    <3>3. Free' < 1
      BY <3>1 DEF Free
    <3>4. ASSUME NEW e \in In(togo'), Leaving(e)'
          PROVE  \E y \in Clients : Hungry(y)' /\ Before(togo', e, y)
      <4>1. e \in In(togo) /\ Leaving(e)
        BY <1>1, <3>2, <3>4 DEF Leaving
      <4>2. PICK y \in Clients : Hungry(y) /\ Before(togo, e, y)
        BY <1>8, <4>1 DEF Followed
      <4>3. y \in In(togo) /\ Hungry(y)'
        BY <1>1, <1>5, <4>2, BeforeTail
      <4> QED BY <3>2, <4>2, <4>3
    <3> QED BY <3>3, <3>4 DEF PassInv, Followed
  <2> QED BY <2>3, <2>4
<1> QED BY <1>3, <1>7, <1>8 DEF PassInv

LEMMA PassVisit ==
    ASSUME IInv, Numbers, PassInv, NEW c \in Clients, Visit(c)
    PROVE  PassInv'
<1>1. /\ place = "visit" /\ place' = place /\ togo # <<>> /\ c = Head(togo) /\ t0' = t0
  BY DEF Visit, RemoveTask, Skip, PollReceive, PollWork, PollRelease, PollDisconnect, Poll, Visiting
<1>2. /\ state \in [Clients -> States] /\ poll \in [Clients -> Clock] /\ poll_init \in [Clients -> Clock]
      /\ held \in [Clients -> Nat] /\ used \in Int /\ Kept(state[c], poll[c], poll_init[c], held[c])
  BY DEF IInv, TypeInv, Numbers
<1>3. SUFFICES ASSUME t0 # Infinite, ~told' PROVE PassInv'
  BY <1>1 DEF PassInv
<1>13. ~told /\ \A d \in Clients : d # c => held'[d] = held[d]
  <2>1. told' = told \/ told' = TRUE
    BY <1>3 DEF Visit, RemoveTask, Skip, PollReceive, PollWork, PollRelease, PollDisconnect,
       Wait, history
  <2>2. held' = held \/ \E n : held' = [held EXCEPT ![c] = held[c] + n]
    BY DEF Visit, RemoveTask, Skip, PollReceive, PollWork, PollRelease, PollDisconnect, Wait,
       Release, Malloc, MemoryUnchanged
  <2> QED BY <1>2, <1>3, <2>1, <2>2
<1>14. CASE Wait(c) /\ Poll(c) /\ GoOn(c)
  <2> DEFINE b == Backoff(poll_init[c])
  <2>1. /\ state' = state /\ poll' = [poll EXCEPT ![c] = b] /\ togo' = Tail(togo) /\ used' = used
        /\ tasks' = tasks /\ ~(Free >= 1)
    BY <1>3, <1>14 DEF Wait, PollSet, GoOn, Poll, Live
  <2> HIDE DEF b
  <2>2. Free < 1
    BY <1>2, <2>1, Sizes DEF Free
  <2> QED BY <1>1, <1>2, <1>3, <1>13, <2>1, <2>2, PassOn
<1>4. CASE RemoveTask(c)
  <2>1. /\ tasks' = Unlink(c) /\ togo' = Tail(togo) /\ state[c] = "NULL" /\ UNCHANGED poll
        /\ state' = [state EXCEPT ![c] = "none"] /\ Release(c, held[c])
    BY <1>4 DEF RemoveTask
  <2>2. used' = used - 1
    BY <1>2, <2>1 DEF Release, Malloc, Kept
  <2>3. In(tasks) \ {c} \subseteq In(tasks')
    <3>1. IInv' /\ Listed /\ Listed'
      BY <1>4, RemoveTaskKeeps DEF IInv
    <3>2. \A d \in Clients : d # c => state'[d] = state[d]
      BY <1>2, <2>1
    <3> QED BY <3>1, <3>2 DEF Listed
  <2> QED BY <1>1, <1>2, <1>3, <1>13, <2>1, <2>2, <2>3, PassFreed DEF Leaving
<1>5. CASE Skip(c)
  <2>1. /\ UNCHANGED <<state, poll, used, tasks>> /\ togo' = Tail(togo) /\ poll[c] # 0
    BY <1>5 DEF Skip
  <2>2. ~Hungry(c) /\ (Delayed(c)' => Delayed(c) /\ poll'[c] = poll[c])
    BY <2>1 DEF Hungry, Delayed
  <2> QED BY <1>1, <1>3, <1>13, <2>1, <2>2, PassOn
<1>6. CASE PollReceive(c)
  <2>1. state[c] = "receive" /\ GoOn(c) /\ tasks' = tasks /\ Poll(c)
    BY <1>6 DEF PollReceive, Poll
  <2>2. CASE held[c] = ClientUnits /\ PollSet(c, Infinite) /\ MemoryUnchanged /\ UNCHANGED state
    <3>1. /\ state' = state /\ used' = used /\ togo' = Tail(togo)
          /\ poll' = [poll EXCEPT ![c] = Infinite]
      BY <2>1, <2>2 DEF PollSet, GoOn, MemoryUnchanged
    <3>2. ~Hungry(c) /\ (Delayed(c)' => Delayed(c) /\ poll'[c] = poll[c])
      BY <1>2, <2>1, <2>2, <3>1, Sizes DEF Hungry, Delayed
    <3> QED BY <1>1, <1>2, <1>3, <1>13, <2>1, <3>1, <3>2, PassOn
  <2>3. CASE Enter(c, "work")
    <3>1. /\ state' = [state EXCEPT ![c] = "work"] /\ poll' = [poll EXCEPT ![c] = 0]
          /\ togo' = Tail(togo)
      BY <1>2, <2>1, <2>3 DEF Enter, PollSet, GoOn
    <3> QED BY <1>1, <1>2, <1>3, <1>13, <2>1, <3>1, PassOn
  <2> QED BY <1>6, <1>14, <2>1, <2>2, <2>3 DEF PollReceive
<1>7. CASE PollWork(c)
  <2>1. /\ state[c] = "work" /\ GoOn(c) /\ tasks' = tasks /\ Poll(c)
    BY <1>7 DEF PollWork, Poll
  <2>2. CASE PollSet(c, 0) /\ UNCHANGED state
    <3>1. state' = state /\ poll' = [poll EXCEPT ![c] = 0] /\ togo' = Tail(togo)
      BY <2>1, <2>2 DEF PollSet, GoOn
    <3> QED BY <1>1, <1>2, <1>3, <1>13, <2>1, <3>1, PassOn
  <2>4. ASSUME NEW s \in {"release", "disconnect"}, Enter(c, s) PROVE PassInv'
    <3>1. /\ state' = [state EXCEPT ![c] = s] /\ poll' = [poll EXCEPT ![c] = 0]
          /\ togo' = Tail(togo)
      BY <1>2, <2>1, <2>4 DEF Enter, PollSet, GoOn
    <3> QED BY <1>1, <1>2, <1>3, <1>13, <2>1, <3>1, PassOn
  <2> QED BY <1>7, <1>14, <2>1, <2>2, <2>4 DEF PollWork
<1>8. CASE PollRelease(c)
  <2>1. /\ state' = [state EXCEPT ![c] = "receive"] /\ poll' = [poll EXCEPT ![c] = 0]
        /\ togo' = Tail(togo) /\ tasks' = tasks
    BY <1>2, <1>8 DEF PollRelease, Enter, PollSet, GoOn, Poll
  <2> QED BY <1>1, <1>2, <1>3, <1>13, <2>1, PassOn
<1>9. CASE PollDisconnect(c)
  <2>1. /\ state[c] = "disconnect" /\ Release(c, held[c] - 1) /\ tasks' = tasks
        /\ state' = [state EXCEPT ![c] = "NULL"] /\ poll' = [poll EXCEPT ![c] = Infinite]
        /\ togo' = togo
    BY <1>2, <1>9 DEF PollDisconnect, PollSet, GoOn, Poll
  <2>2. used' = used - (held[c] - 1) /\ held[c] >= 1
    BY <1>2, <2>1, ReleaseAll, Sizes DEF Kept
  <2> QED BY <1>1, <1>2, <1>3, <1>13, <2>1, <2>2, PassFreed DEF Leaving
<1> QED BY <1>4, <1>5, <1>6, <1>7, <1>8, <1>9 DEF Visit

\* When the detection goes on, no task that could free memory is left, and if there
\* is memory, every backoff began before the detection did.
LEMMA PassEnds ==
    ASSUME IInv, Numbers, PassInv, EndOfPass
    PROVE  PassInv' /\ SocketInv' /\ ReadInv'
<1>1. /\ place = "visit" /\ place' = "accept" /\ togo = <<>> /\ UNCHANGED <<used, reserve>>
      /\ reserve = 0
  BY DEF EndOfPass, Numbers
<1>2. PassInv'
  BY <1>1 DEF PassInv
<1>3. SUFFICES ASSUME t0' # Infinite PROVE SocketInv' /\ ReadInv'
  BY <1>1, <1>2 DEF SocketInv, ReadInv
<1>4. /\ Starvation /\ ~Recover /\ UNCHANGED <<state, poll, held>> /\ told' = told
      /\ t0' = IF t0 = Infinite THEN 0 ELSE t0
  BY <1>3 DEF EndOfPass, Detection, history
<1>5. /\ Members(tasks) = In(tasks) /\ In(tasks) = {c \in Clients : state[c] # "none"}
  BY DEF Members, In, IInv, Listed
<1>6. ASSUME NEW c \in Clients, Live(c) PROVE poll[c] # 0
  <2>1. c \in In(tasks) /\ 0 # Infinite
    BY <1>5, <1>6, Sizes DEF Live
  <2> QED BY <1>4, <1>5, <1>6, <2>1 DEF Starvation, Polling, Starving
<1>7. ~Busy
  BY <1>5, <1>6 DEF Busy
<1>8. \A e \in Clients : ~Leaving(e)
  BY <1>6, NothingToVisit DEF Leaving, Live, Numbers, Kept
<1>9. ReadInv'
  BY <1>1, <1>4, <1>8 DEF ReadInv, Leaving
<1>10. Followed(tasks)'
  <2>1. In(tasks') \subseteq Clients
    BY EndOfPassKeeps DEF IInv, Listed
  <2> QED BY <1>4, <1>8, <2>1 DEF Followed, Leaving
<1>11. CASE t0 = Infinite
  <2>1. Aging'
    BY <1>4, <1>11, Sizes DEF Aging, Delayed, Numbers, Clock
  <2> QED BY <1>1, <1>9, <1>10, <2>1, Sizes DEF SocketInv, Free, Numbers
<1>12. CASE t0 # Infinite
  <2>1. \A z : z \notin In(togo)
    BY <1>1 DEF In
  <2>2. told \/ (Free >= 1 /\ Aging) \/ Free < 1
    BY <1>1, <1>7, <1>12, <2>1 DEF PassInv
  <2>3. Aging => Aging'
    BY <1>4, <1>12 DEF Aging, Delayed
  <2>4. Free' + reserve' = Free
    BY <1>1, Sizes DEF Free, Numbers
  <2> QED BY <1>4, <1>9, <1>10, <2>2, <2>3, <2>4 DEF SocketInv
<1> QED BY <1>11, <1>12

-----------------------------------------------------------------------------
(* Aborting for starvation: the sockets and the clock                      *)

LEMMA ReadAccepted ==
    ASSUME IInv, Numbers, SocketInv, ReadInv, Accept \/ Reject \/ NoClient
    PROVE  PassInv' /\ SocketInv' /\ ReadInv'
<1>1. /\ place = "accept" /\ place' = "read" /\ togo' = tasks /\ t0' = t0 /\ reserve = 0
      /\ told' = told
      /\ \/ /\ Reserved # 0 /\ FreeSlots > 0 /\ tasks' = Append(tasks, Fresh)
            /\ Enter(Fresh, "receive") /\ used' = used + ClientUnits /\ reserve' = 0
         \/ /\ tasks' = tasks /\ UNCHANGED <<state, poll>>
            /\ used' = used + Reserved /\ reserve' = Reserved
  BY DEF Accept, Reject, NoClient, ToRead, Malloc, Numbers, history
<1>2. PassInv'
  BY <1>1 DEF PassInv
<1>3. /\ state \in [Clients -> States] /\ poll \in [Clients -> Clock] /\ tasks \in Seq(Clients)
      /\ used \in Int
  BY DEF IInv, TypeInv, Numbers
<1>4. /\ \A c \in Clients : \/ state'[c] = state[c] /\ poll'[c] = poll[c]
                            \/ state'[c] = "receive" /\ poll'[c] = 0
      /\ \A a, b \in Clients : Before(tasks, a, b) => Before(tasks', a, b)
  <2>1. CASE Reserved # 0 /\ FreeSlots > 0 /\ tasks' = Append(tasks, Fresh) /\ Enter(Fresh, "receive")
    <3> DEFINE f == Fresh
    <3>1. f \in Clients
      BY <2>1, FreshFree
    <3>2. /\ tasks' = Append(tasks, f) /\ state' = [state EXCEPT ![f] = "receive"]
          /\ poll' = [poll EXCEPT ![f] = 0]
      BY <2>1 DEF Enter, PollSet
    <3> HIDE DEF f
    <3> QED BY <1>3, <3>1, <3>2, BeforeAppend
  <2> QED BY <1>1, <2>1
<1>5. ReadInv'
  <2>1. \A a, b \in Clients : Before(togo', a, b) => Before(tasks', a, b)
    BY <1>1, <1>4
  <2>2. t0' # Infinite => \A e \in Clients : ~Leaving(e)'
    BY <1>1, <1>4 DEF ReadInv, Leaving
  <2> QED BY <1>1, <2>1, <2>2 DEF ReadInv
<1>6. SocketInv'
  <2>1. SUFFICES ASSUME t0 # Infinite, ~told PROVE SocketInv'
    BY <1>1 DEF SocketInv
  <2>2. \A e \in Clients : ~Leaving(e)'
    BY <1>1, <1>4, <2>1 DEF ReadInv, Leaving
  <2>3. Followed(tasks)'
    <3>1. In(tasks') \subseteq Clients
      BY SocketsKeep DEF Sockets, IInv, Listed
    <3> QED BY <2>2, <3>1 DEF Followed
  <2>4. Aging => Aging'
    BY <1>1, <1>4 DEF Aging, Delayed
  <2>5. /\ (MaxMemory - used') + reserve' \in Int /\ (MaxMemory - used) + reserve \in Int
        /\ (MaxMemory - used') + reserve' <= (MaxMemory - used) + reserve
    BY <1>1, <1>3, Sizes DEF Reserved
  <2>0. \A a, b \in Int : (a <= b /\ a >= 1 => ~(b < 1)) /\ (~(a >= 1) => a < 1)
    OBVIOUS
  <2>6. CASE (MaxMemory - used') + reserve' >= 1
    <3>1. ~((MaxMemory - used) + reserve < 1)
      BY Zenon, <2>5, <2>6, <2>0
    <3> QED BY <1>1, <2>1, <2>4, <2>6, <3>1 DEF SocketInv, Free
  <2>7. CASE ~((MaxMemory - used') + reserve' >= 1)
    <3>1. (MaxMemory - used') + reserve' < 1
      BY Zenon, <2>5, <2>7, <2>0
    <3> QED BY <2>3, <3>1 DEF SocketInv, Free
  <2> QED BY <2>6, <2>7
<1> QED BY <1>2, <1>5, <1>6

\* A task that is passed over: what was known of the others still is.
LEMMA ReadOn ==
    ASSUME IInv, place = "read", togo # <<>>, place' = place, tasks' = tasks, togo' = Tail(togo),
           ReadInv
    PROVE  /\ \A a, b \in Clients : Before(togo', a, b) => Before(tasks', a, b)
           /\ In(togo') \subseteq In(togo)
           /\ Head(togo) \in In(togo) /\ \A z \in In(togo') : Before(tasks', Head(togo), z)
           /\ In(togo) \subseteq Clients /\ In(tasks) \subseteq Clients
<1>1. /\ togo \in Seq(Clients) /\ Distinct(togo) /\ In(togo) \subseteq Clients
      /\ In(tasks) \subseteq Clients
      /\ Head(togo) \in In(togo) /\ In(Tail(togo)) = In(togo) \ {Head(togo)}
  BY TailDistinct DEF IInv, TypeInv, StillToVisit, Listed
<1>2. /\ \A a, b : Before(Tail(togo), a, b) => Before(togo, a, b)
      /\ \A b \in In(Tail(togo)) : Before(togo, Head(togo), b)
  BY <1>1, BeforeTail
<1>3. \A a, b \in Clients : Before(togo, a, b) => Before(tasks, a, b)
  BY DEF ReadInv
<1> QED BY <1>1, <1>2, <1>3

LEMMA ReadRead ==
    ASSUME IInv, Numbers, SocketInv, ReadInv, NEW c \in Clients, Read(c)
    PROVE  PassInv' /\ SocketInv' /\ ReadInv'
<1>1. /\ place = "read" /\ place' = place /\ togo # <<>> /\ c = Head(togo) /\ t0' = t0
      /\ tasks' = tasks /\ togo' = Tail(togo) /\ used' = used + 1 /\ reserve' = reserve /\ Free >= 1
      /\ state[c] = "receive" /\ state' = state /\ poll' = [poll EXCEPT ![c] = 0] /\ told' = told
      /\ held[c] = ClientUnits /\ held' = [held EXCEPT ![c] = held[c] + 1]
  BY DEF Read, Reading, PollSet, Malloc, history
<1>2. /\ state \in [Clients -> States] /\ poll \in [Clients -> Clock] /\ used \in Int /\ reserve \in Nat
      /\ held \in [Clients -> Nat]
  BY DEF IInv, TypeInv, Numbers
<1>3. /\ \A a, b \in Clients : Before(togo', a, b) => Before(tasks', a, b)
      /\ In(togo') \subseteq In(togo) /\ c \in In(togo) /\ In(tasks) \subseteq Clients
  BY <1>1, ReadOn
<1>4. PassInv'
  BY <1>1 DEF PassInv
<1>5. \A e \in Clients : Leaving(e)' => Leaving(e)
  BY <1>1, <1>2 DEF Leaving
<1>6. ReadInv'
  BY <1>1, <1>3, <1>5 DEF ReadInv
<1>7. SocketInv'
  <2>1. SUFFICES ASSUME t0 # Infinite, ~told PROVE SocketInv'
    BY <1>1 DEF SocketInv
  <2>2. Aging'
    <3>1. ~(Free + reserve < 1)
      BY <1>1, <1>2, Sizes DEF Free
    <3>2. Aging
      BY <1>1, <2>1, <3>1 DEF SocketInv
    <3> QED BY <1>1, <1>2, <3>2 DEF Aging, Delayed
  <2>3. Followed(tasks)'
    <3>1. Hungry(c)'
      BY <1>1, <1>2, Sizes DEF Hungry
    <3>2. \A e \in Clients : Leaving(e)' => Before(tasks', e, c)
      BY <1>1, <1>3, <1>5, <2>1 DEF ReadInv
    <3> QED BY <1>1, <1>3, <3>1, <3>2 DEF Followed
  <2>4. Free' + reserve' >= 1 \/ Free' + reserve' < 1
    BY <1>1, <1>2, Sizes DEF Free
  <2> QED BY <2>2, <2>3, <2>4 DEF SocketInv
<1> QED BY <1>4, <1>6, <1>7

LEMMA ReadClosed ==
    ASSUME IInv, Numbers, SocketInv, ReadInv, NEW c \in Clients, Closed(c)
    PROVE  PassInv' /\ SocketInv' /\ ReadInv'
<1>1. /\ place = "read" /\ place' = place /\ togo # <<>> /\ c = Head(togo) /\ t0' = t0
      /\ tasks' = tasks /\ togo' = Tail(togo) /\ used' = used /\ reserve' = reserve /\ Free >= 1
      /\ Abort(c) /\ told' = told
  BY DEF Closed, Reading, history
<1>2. /\ state \in [Clients -> States] /\ poll \in [Clients -> Clock] /\ used \in Int /\ reserve \in Nat
  BY DEF IInv, TypeInv, Numbers
<1>3. /\ \A a, b \in Clients : Before(togo', a, b) => Before(tasks', a, b)
      /\ In(togo') \subseteq In(togo) /\ \A z \in In(togo') : Before(tasks', c, z)
  BY <1>1, ReadOn
<1>4. PassInv'
  BY <1>1 DEF PassInv
<1>5. \A e \in Clients : e # c => state'[e] = state[e] /\ poll'[e] = poll[e]
  BY <1>1, <1>2 DEF Abort, Enter, PollSet
<1>6. state'[c] = "disconnect"
  BY <1>1, <1>2 DEF Abort, Enter
<1>7. ReadInv'
  <2>1. ASSUME t0' # Infinite, NEW e \in Clients, Leaving(e)', NEW z \in In(togo')
        PROVE  Before(tasks', e, z)
    <3>1. CASE e = c
      BY <1>3, <3>1
    <3>2. CASE e # c
      <4>1. Leaving(e)
        BY <1>5, <2>1, <3>2 DEF Leaving
      <4> QED BY <1>1, <1>3, <2>1, <4>1 DEF ReadInv
    <3> QED BY <3>1, <3>2
  <2> QED BY <1>1, <1>3, <2>1 DEF ReadInv
<1>8. SocketInv'
  <2>1. SUFFICES ASSUME t0 # Infinite, ~told PROVE SocketInv'
    BY <1>1 DEF SocketInv
  <2>2. Free' + reserve' >= 1 /\ ~(Free + reserve < 1)
    BY <1>1, <1>2, Sizes DEF Free
  <2>3. Aging
    BY <1>1, <2>1, <2>2 DEF SocketInv
  <2>4. Aging'
    BY <1>1, <1>5, <1>6, <2>3 DEF Aging, Delayed
  <2> QED BY <2>2, <2>4 DEF SocketInv
<1> QED BY <1>4, <1>7, <1>8

LEMMA ReadRest ==
    ASSUME IInv, Numbers, SocketInv, ReadInv, NothingRead \/ Waited
    PROVE  PassInv' /\ SocketInv' /\ ReadInv'
<1>1. /\ place = "read" /\ t0' = t0 /\ tasks' = tasks /\ UNCHANGED <<state, poll, held>> /\ told' = told
      /\ \/ place' = place /\ togo # <<>> /\ togo' = Tail(togo) /\ used' = used /\ reserve' = reserve
         \/ place' = "time" /\ used' = used - reserve /\ reserve' = 0
  BY DEF NothingRead, Waited, Unused, history
<1>2. PassInv'
  BY <1>1 DEF PassInv
<1>3. /\ Aging => Aging'
      /\ Followed(tasks) => Followed(tasks)'
      /\ \A e \in Clients : Leaving(e)' <=> Leaving(e)
  BY <1>1 DEF Aging, Delayed, Followed, Leaving, Hungry
<1>4. Free' + reserve' = Free + reserve
  <2>1. (used' = used /\ reserve' = reserve) \/ (used' = used - reserve /\ reserve' = 0)
    BY <1>1
  <2>2. used \in Int /\ reserve \in Int
    BY DEF Numbers
  <2>3. CASE used' = used /\ reserve' = reserve
    BY <2>3 DEF Free
  <2>4. CASE used' = used - reserve /\ reserve' = 0
    <3>1. (MaxMemory - (used - reserve)) + 0 = (MaxMemory - used) + reserve
      BY <2>2, Sizes
    <3> QED BY <2>4, <3>1 DEF Free
  <2> QED BY <2>1, <2>3, <2>4
<1>5. SocketInv'
  <2>1. CASE told
    BY Zenon, <1>1, <2>1 DEF SocketInv
  <2>2. CASE t0 = Infinite
    BY <1>1, <2>2 DEF SocketInv
  <2>3. CASE t0 # Infinite /\ ~told
    <3>1. \/ Free + reserve >= 1 /\ Aging
          \/ Free + reserve < 1 /\ Followed(tasks)
      BY <1>1, <2>3 DEF SocketInv
    <3> QED BY <1>3, <1>4, <3>1 DEF SocketInv
  <2> QED BY <2>1, <2>2, <2>3
<1>6. ReadInv'
  <2>1. CASE place' = "time"
    BY <2>1 DEF ReadInv
  <2>2. CASE place' = place /\ togo # <<>> /\ togo' = Tail(togo)
    BY <1>1, <1>3, <2>2, ReadOn DEF ReadInv
  <2> QED BY <1>1, <2>1, <2>2
<1> QED BY <1>2, <1>5, <1>6

\* A backoff runs down as fast as the detection goes on.
LEMMA DelayedTime ==
    ASSUME Numbers, NEW d \in 0..2, TimePasses(d), t0 # Infinite, NEW c \in Clients, Delayed(c)'
    PROVE  Delayed(c) /\ (poll[c] + t0 <= Interval => poll'[c] + t0' <= Interval)
<1>1. /\ state' = state /\ poll'[c] = Passed(poll[c], d) /\ t0 \in Nat /\ poll[c] \in Clock
      /\ t0' = IF t0 > Interval THEN t0 ELSE t0 + d
  BY DEF TimePasses, Numbers
<1>2. /\ poll[c] \in Nat /\ poll[c] > d /\ poll'[c] = poll[c] - d /\ state[c] \in {"receive", "work"}
  BY <1>1, Sizes DEF Delayed, Passed, Clock
<1>3. Delayed(c)
  BY <1>2, Sizes DEF Delayed
<1>4. poll[c] + t0 <= Interval => poll'[c] + t0' <= Interval
  BY <1>1, <1>2, Sizes
<1> QED BY <1>3, <1>4

LEMMA ShortTime ==
    ASSUME IInv, Numbers, SocketInv, NEW d \in 0..2, TimePasses(d)
    PROVE  PassInv' /\ SocketInv' /\ ReadInv'
<1>1. /\ place = "time" /\ place' = "visit" /\ togo' = tasks
      /\ UNCHANGED <<state, used, reserve, held, told>>
      /\ poll' = [c \in Clients |-> Passed(poll[c], d)]
      /\ t0' = IF t0 = Infinite \/ t0 > Interval THEN t0 ELSE t0 + d
  BY DEF TimePasses, history
<1>2. reserve = 0 /\ used \in Int /\ t0 \in Nat \cup {Infinite}
  BY <1>1 DEF Numbers
<1>3. SocketInv' /\ ReadInv'
  BY <1>1 DEF SocketInv, ReadInv
<1>4. CASE t0 = Infinite
  <2>1. t0' = Infinite
    BY <1>1, <1>4
  <2> QED BY <1>3, <2>1 DEF PassInv
<1>5. CASE t0 # Infinite
  <2>1. Aging => Aging'
    BY <1>5, DelayedTime DEF Aging
  <2>2. Followed(tasks) => Followed(togo)'
    <3>1. In(tasks) \subseteq Clients
      BY DEF IInv, Listed
    <3>2. \A z \in Clients : Hungry(z) => Hungry(z)'
      BY <1>1, Sizes DEF Hungry, Passed
    <3> QED BY <1>1, <3>1, <3>2 DEF Followed, Leaving
  <2>3. Free' = Free /\ Free + reserve = Free
    BY <1>1, <1>2, Sizes DEF Free
  <2>4. told \/ (Free >= 1 /\ Aging) \/ (Free < 1 /\ Followed(tasks))
    BY Zenon, <1>1, <1>5, <2>3 DEF SocketInv
  <2>5. told' \/ (Free' >= 1 /\ Aging') \/ (Free' < 1 /\ Followed(togo)')
    BY Zenon, <1>1, <2>1, <2>2, <2>3, <2>4
  <2> QED BY Zenon, <1>3, <2>5 DEF PassInv
<1> QED BY <1>3, <1>4, <1>5

-----------------------------------------------------------------------------
(* Aborting for starvation: who has been told to wait                      *)

LEMMA RefusedSame ==
    ASSUME RefusedInv, t0' = t0,
           \A c \in Clients : Delayed(c)' /\ c \notin refused' =>
                                 Delayed(c) /\ c \notin refused /\ poll'[c] = poll[c]
    PROVE  RefusedInv'
  BY DEF RefusedInv

\* The loop and the sockets: a backoff that begins is remembered.
LEMMA RefusedVisit ==
    ASSUME IInv, Numbers, RefusedInv, NEW c \in Clients, Visit(c)
    PROVE  RefusedInv'
<1>1. /\ state \in [Clients -> States] /\ poll \in [Clients -> Clock]
      /\ t0' = t0 /\ (Live(c) => poll[c] = 0 \/ Skip(c))
      /\ \A d \in Clients : d # c => /\ state'[d] = state[d] /\ poll'[d] = poll[d]
                                     /\ d \in refused => d \in refused'
  BY DEF Visit, RemoveTask, Skip, PollReceive, PollWork, PollRelease, PollDisconnect, Poll, Wait,
     history, Enter, PollSet, IInv, TypeInv, Numbers, Live
<1>2. SUFFICES ASSUME t0 # Infinite PROVE RefusedInv'
  BY <1>1 DEF RefusedInv
<1>3. ASSUME Delayed(c)', c \notin refused'
      PROVE  Delayed(c) /\ c \notin refused /\ poll'[c] = poll[c]
  <2>1. CASE Skip(c)
    BY <1>3, <2>1 DEF Skip, Delayed, history
  <2>2. CASE RemoveTask(c)
    BY <1>1, <1>3, <2>2 DEF RemoveTask, Delayed
  <2>3. CASE Wait(c)
    BY <1>2, <1>3, <2>3 DEF Wait
  <2>4. CASE /\ state' \in {state, [state EXCEPT ![c] = "work"]}
             /\ PollSet(c, Infinite) \/ PollSet(c, 0)
    BY <1>1, <1>3, <2>4 DEF PollSet, Delayed
  <2>5. CASE PollReceive(c)
    BY <2>3, <2>4, <2>5 DEF PollReceive, Enter
  <2>6. ASSUME NEW s \in {"receive", "release", "disconnect"}, Enter(c, s) PROVE FALSE
    BY <1>1, <1>3, <2>6 DEF Enter, PollSet, Delayed
  <2>7. CASE PollWork(c)
    BY <2>3, <2>4, <2>6, <2>7 DEF PollWork
  <2>8. CASE PollRelease(c)
    BY <2>6, <2>8 DEF PollRelease
  <2>9. CASE PollDisconnect(c)
    BY <1>1, <1>3, <2>9 DEF PollDisconnect, Delayed
  <2> QED BY <2>1, <2>2, <2>5, <2>7, <2>8, <2>9 DEF Visit
<1>4. \A d \in Clients : Delayed(d)' /\ d \notin refused' =>
                           Delayed(d) /\ d \notin refused /\ poll'[d] = poll[d]
  BY <1>1, <1>3 DEF Delayed
<1> QED BY <1>1, <1>4, RefusedSame

LEMMA RefusedNext == IInv /\ Numbers /\ RefusedInv /\ [Next]_vars => RefusedInv'
<1> SUFFICES ASSUME IInv, Numbers, RefusedInv, [Next]_vars PROVE RefusedInv'
  OBVIOUS
<1>0. /\ state \in [Clients -> States] /\ poll \in [Clients -> Clock]
  BY DEF IInv, TypeInv, Numbers
<1>1. ASSUME t0' = t0, refused' = refused,
             \A c \in Clients : \/ state'[c] = state[c] /\ poll'[c] = poll[c]
                                \/ poll'[c] = 0 \/ state'[c] = "disconnect"
      PROVE  RefusedInv'
  BY <1>1, RefusedSame DEF Delayed
<1>2. CASE UNCHANGED vars
  BY <1>1, <1>2 DEF vars
<1>3. ASSUME NEW c \in Clients, Visit(c) PROVE RefusedInv'
  BY <1>3, RefusedVisit
<1>4. CASE EndOfPass
  <2>1. SUFFICES ASSUME t0' # Infinite PROVE RefusedInv'
    BY DEF RefusedInv
  <2>2. UNCHANGED <<state, poll, refused>> /\ t0' = IF t0 = Infinite THEN 0 ELSE t0
    BY <1>4, <2>1 DEF EndOfPass, Detection, history
  <2>3. CASE t0 = Infinite
    BY <2>2, <2>3, Sizes DEF RefusedInv, Delayed, Numbers, Clock
  <2>4. CASE t0 # Infinite
    BY <1>1, <2>2, <2>4
  <2> QED BY <2>3, <2>4
<1>5. CASE Accept
  <2>1. Fresh \in Clients
    BY <1>5, FreshFree DEF Accept
  <2> HIDE DEF Fresh
  <2>2. /\ t0' = t0 /\ refused' = refused /\ poll' = [poll EXCEPT ![Fresh] = 0]
        /\ state' = [state EXCEPT ![Fresh] = "receive"]
    BY <1>5 DEF Accept, Enter, PollSet, history
  <2> QED BY <1>0, <1>1, <2>1, <2>2
<1>6. CASE Reject \/ NoClient \/ NothingRead \/ Waited
  BY <1>1, <1>6 DEF Reject, NoClient, NothingRead, Waited, history
<1>7. ASSUME NEW c \in Clients, Read(c) \/ Closed(c) PROVE RefusedInv'
  BY <1>0, <1>1, <1>7 DEF Read, Closed, Abort, Enter, PollSet, history
<1>8. ASSUME NEW d \in 0..2, TimePasses(d) PROVE RefusedInv'
  <2>1. refused' = refused /\ (t0 = Infinite => t0' = Infinite)
    BY <1>8 DEF TimePasses, history
  <2> QED BY <1>8, <2>1, DelayedTime DEF RefusedInv
<1>9. CASE Stop
  <2>1. /\ t0' = t0 /\ refused' = refused
        /\ state' = [c \in Clients |-> IF Live(c) THEN "disconnect" ELSE state[c]]
        /\ poll' = [c \in Clients |-> IF Live(c) /\ state[c] # "disconnect" THEN 0 ELSE poll[c]]
    BY <1>9 DEF Stop, history
  <2> QED BY <1>1, <2>1
<1> QED BY <1>2, <1>3, <1>4, <1>5, <1>6, <1>7, <1>8, <1>9 DEF Next, Sockets, Ticks, Stopped

LEMMA ShortNext == IInv /\ Numbers /\ ShortInv /\ [Next]_vars => ShortInv'
<1> SUFFICES ASSUME IInv, Numbers, ShortInv, [Next]_vars PROVE ShortInv'
  OBVIOUS
<1> USE DEF ShortInv
<1>8. RefusedInv'
  BY RefusedNext
<1>1. CASE UNCHANGED vars
  BY <1>1, <1>8 DEF vars, PassInv, SocketInv, ReadInv, Busy, Aging, Delayed, Followed, Hungry,
     Leaving, Free, Live
<1>2. ASSUME NEW c \in Clients, Visit(c) PROVE ShortInv'
  <2>1. place' = "visit"
    BY <1>2 DEF Visit, RemoveTask, Skip, PollReceive, PollWork, PollRelease, PollDisconnect, Poll,
       Visiting
  <2>2. SocketInv' /\ ReadInv'
    BY <2>1 DEF SocketInv, ReadInv
  <2> QED BY <1>2, <1>8, <2>2, PassVisit
<1>3. CASE EndOfPass
  BY <1>3, <1>8, PassEnds
<1>4. CASE Sockets
  BY <1>4, <1>8, ReadAccepted, ReadRead, ReadClosed, ReadRest DEF Sockets
<1>5. CASE TimePasses(0) \/ Ticks
  BY <1>5, <1>8, ShortTime DEF Ticks
<1>6. CASE Stop
  BY <1>6, <1>8 DEF Stop, PassInv, SocketInv, ReadInv
<1>7. CASE Stopped
  BY <1>1, <1>7 DEF Stopped
<1> QED BY <1>1, <1>2, <1>3, <1>4, <1>5, <1>6, <1>7 DEF Next

LEMMA InitShort == Init => Numbers /\ ShortInv
<1> SUFFICES ASSUME Init PROVE Numbers /\ ShortInv
  OBVIOUS
<1>1. Numbers
  BY Sizes DEF Init, Numbers, Kept, Clock
<1>2. ShortInv
  BY DEF Init, ShortInv, PassInv, SocketInv, ReadInv, RefusedInv
<1> QED BY <1>1, <1>2

LEMMA SpecShort == Spec => [](Numbers /\ ShortInv)
<1>1. Init => Numbers /\ ShortInv
  BY InitShort
<1>2. IInv /\ (Numbers /\ ShortInv) /\ [Next]_vars => (Numbers /\ ShortInv)'
  BY NumbersNext, ShortNext
<1> QED BY <1>1, <1>2, SpecInv, PTL DEF Spec

LEMMA AbortStarved ==
    ASSUME IInv, Numbers, ShortInv, Next, place = "visit", place' = "accept", aborted' # None
    PROVE  /\ Polling \subseteq refused
           /\ Free < 1 \/ told
           /\ \A c \in Polling \cup {aborted'} : state[c] \in {"receive", "work"}
<1>1. EndOfPass
  BY DEF Next, Visit, RemoveTask, Skip, PollReceive, PollWork, PollRelease, PollDisconnect, Poll,
     Visiting, Sockets, Accept, Reject, NoClient, Read, Closed, NothingRead, Waited, Reading,
     Ticks, TimePasses, Stop, Stopped, vars
<1>2. Recover /\ aborted' = Lowest /\ Starvation /\ togo = <<>>
  BY <1>1 DEF EndOfPass, Recover
<1>3. t0 \in Nat /\ t0 > Interval
  BY <1>2 DEF Recover, Numbers
<1>4. Members(tasks) = In(tasks) /\ In(tasks) \subseteq Clients
  BY DEF Members, In, IInv, Listed
<1>5. ASSUME NEW c \in Polling
      PROVE  c \in Clients /\ Delayed(c) /\ ~(poll[c] + t0 <= Interval)
  <2>1. c \in Clients /\ Live(c) /\ poll[c] # Infinite /\ poll[c] # 0
    BY <1>2, <1>4, <1>5 DEF Starvation, Starving, Polling
  <2>2. Kept(state[c], poll[c], poll_init[c], held[c]) /\ poll[c] \in Clock
    BY <2>1 DEF Numbers
  <2>3. poll[c] \in Nat
    BY <2>1, <2>2, Sizes DEF Clock
  <2>4. Delayed(c)
    BY <2>1, <2>2 DEF Kept, Live, Delayed
  <2> QED BY <1>3, <2>1, <2>3, <2>4, Sizes
<1>6. Free < 1 \/ told
  <2>1. ~Busy
    <3>1. ASSUME NEW c \in In(tasks), Live(c), poll[c] = 0 PROVE FALSE
      BY <1>2, <1>4, <3>1, Sizes DEF Starvation, Starving, Polling
    <3> QED BY <3>1 DEF Busy
  <2>2. PICK c \in Polling : TRUE
    BY <1>2 DEF Starvation
  <2>3. ~Aging
    BY <1>5 DEF Aging
  <2>4. \A z : z \notin In(togo)
    BY <1>2 DEF In
  <2>5. place = "visit" /\ t0 # Infinite
    BY <1>3, Sizes
  <2> QED BY <2>1, <2>3, <2>4, <2>5 DEF ShortInv, PassInv
<1>7. Polling \subseteq refused
  BY <1>3, <1>5, Sizes DEF ShortInv, RefusedInv
<1>8. state[Lowest] \in {"receive", "work"}
  <2>1. PICK c \in Polling : TRUE
    BY <1>2 DEF Starvation
  <2>2. c \in In(tasks) /\ Priority(state[c]) \in {0, 1}
    BY <1>4, <1>5 DEF Polling, Priority, Delayed
  <2>3. Priority(state[Lowest]) <= Priority(state[c])
    BY <2>2, LowestLeast
  <2> QED BY <2>2, <2>3 DEF Priority
<1> QED BY <1>2, <1>5, <1>6, <1>7, <1>8 DEF Delayed

\* A client is only aborted for starvation when every task that polls was told to wait
\* since the detection began, while there is no memory or with one of them told so by
\* something else, and never one that is leaving.  That memory given back since the
\* detection began ends the starvation depends on the order tasks are read and
\* visited in.
THEOREM AbortCorrect == Spec => AbortOnlyStarved
<1> DEFINE Justified == place = "visit" /\ place' = "accept" /\ aborted' # None =>
                          /\ Polling \subseteq refused
                          /\ Free < 1 \/ told
                          /\ \A c \in Polling \cup {aborted'} : state[c] \in {"receive", "work"}
<1>1. IInv /\ (Numbers /\ ShortInv) /\ [Next]_vars => [Justified]_vars
  BY AbortStarved
<1> HIDE DEF Justified
<1>2. Spec => [][Justified]_vars
  BY <1>1, SpecInv, SpecShort, PTL DEF Spec
<1> QED BY <1>2 DEF Justified, AbortOnlyStarved

-----------------------------------------------------------------------------
(* The memory ledger                                                       *)

\* The counter is what is allocated for the wait and what the clients hold.
Ledger == used = reserve + SumOf(Clients, held)

LEMMA ClientsFinite == IsFiniteSet(Clients)
  BY Sizes, FS_Interval DEF Clients

\* Memory that changes hands changes the counter and the sum alike.
LEMMA LedgerOf ==
    ASSUME Numbers, Ledger, NEW c \in Clients, NEW n \in Int, Malloc(c, n),
           reserve' = reserve, held' \in [Clients -> Int]
    PROVE  Ledger'
<1>1. held \in [Clients -> Int]
  BY DEF Numbers
<1>2. held' = [held EXCEPT ![c] = held[c] + n] /\ used' = used + n
  BY DEF Malloc
<1>3. /\ held'[c] = held[c] + n
      /\ \A d \in Clients : d # c => held'[d] = held[d]
  BY <1>1, <1>2
<1>4. SumOf(Clients, held) \in Int /\ SumOf(Clients, held') = SumOf(Clients, held) + (held'[c] - held[c])
  BY <1>1, <1>3, ClientsFinite, SumChanges
<1> DEFINE before == SumOf(Clients, held)
           after == SumOf(Clients, held')
<1>5. /\ before \in Int /\ after = before + n /\ used = reserve + before /\ reserve \in Int
      /\ used' = used + n
  <2>1. held[c] \in Int
    BY <1>1
  <2>2. (held[c] + n) - held[c] = n
    BY <2>1
  <2> QED BY <1>2, <1>3, <1>4, <2>2 DEF Ledger, Numbers
<1> HIDE DEF before, after
<1>6. used' = reserve + after
  BY <1>5
<1> QED BY <1>6 DEF Ledger, after

\* A wait that holds more, or less, changes the counter by as much.
LEMMA LedgerWait ==
    ASSUME Numbers, Ledger, NEW n \in Int, used' = used + n, reserve' = reserve + n,
           UNCHANGED held
    PROVE  Ledger'
<1> DEFINE sum == SumOf(Clients, held)
<1>1. sum \in Int
  <2>1. used \in Int /\ reserve \in Int /\ held \in [Clients -> Int]
    BY DEF Numbers
  <2>2. 1 \in Clients
    BY SizesAssumption DEF Clients
  <2> QED BY <2>1, <2>2, ClientsFinite, SumChanges
<1>2. used = reserve + sum /\ reserve \in Int
  BY DEF Ledger, Numbers
<1> HIDE DEF sum
<1>3. used' = reserve' + sum
  BY <1>1, <1>2
<1> QED BY <1>3 DEF Ledger, sum

LEMMA LedgerSame ==
    ASSUME Ledger, UNCHANGED <<used, reserve, held>>
    PROVE  Ledger'
  BY DEF Ledger

LEMMA LedgerVisit ==
    ASSUME IInv, Numbers, Ledger, Numbers', NEW c \in Clients, Visit(c)
    PROVE  Ledger'
<1>1. /\ held' \in [Clients -> Int] /\ held[c] \in Int /\ ClientUnits \in Int
      /\ \A m \in Int : -m \in Int
  BY Sizes DEF Numbers
<1>2. reserve' = reserve
  BY DEF Visit, RemoveTask, Skip, PollReceive, PollWork, PollRelease, PollDisconnect, Poll
<1>3. CASE RemoveTask(c)
  BY <1>1, <1>2, <1>3, LedgerOf DEF RemoveTask, Release
<1>4. CASE Skip(c)
  BY <1>4, LedgerSame DEF Skip
<1>5. CASE PollReceive(c)
  BY <1>2, <1>5, LedgerSame DEF PollReceive, MemoryUnchanged, Wait
<1>6. CASE PollWork(c)
  <2>1. CASE Malloc(c, 1)
    BY <1>1, <1>2, <2>1, LedgerOf
  <2>2. CASE MemoryUnchanged
    BY <1>2, <2>2, LedgerSame DEF MemoryUnchanged
  <2> QED BY <1>6, <2>1, <2>2 DEF PollWork, Wait, MemoryUnchanged
<1>7. CASE PollRelease(c)
  <2>1. Malloc(c, -(held[c] - ClientUnits)) /\ -(held[c] - ClientUnits) \in Int
    BY <1>1, <1>7 DEF PollRelease, Release
  <2> QED BY <1>1, <1>2, <2>1, LedgerOf
<1>8. CASE PollDisconnect(c)
  <2>1. Malloc(c, -(held[c] - 1)) /\ -(held[c] - 1) \in Int
    BY <1>1, <1>8 DEF PollDisconnect, Release
  <2> QED BY <1>1, <1>2, <2>1, LedgerOf
<1> QED BY <1>3, <1>4, <1>5, <1>6, <1>7, <1>8 DEF Visit

LEMMA LedgerSockets ==
    ASSUME IInv, Numbers, Ledger, Numbers', Sockets
    PROVE  Ledger'
<1>1. /\ held' \in [Clients -> Int] /\ reserve \in Int /\ used \in Int /\ ClientUnits \in Int
      /\ Reserved \in Int /\ (place # "read" => reserve = 0)
  BY Sizes DEF Numbers, Reserved
<1>2. CASE Accept
  <2>1. Fresh \in Clients
    BY <1>2, FreshFree DEF IInv, Accept
  <2>2. Malloc(Fresh, ClientUnits) /\ reserve' = reserve
    BY <1>1, <1>2 DEF Accept
  <2> QED BY <1>1, <2>1, <2>2, LedgerOf
<1>3. CASE Reject \/ NoClient
  <2>1. used' = used + Reserved /\ reserve' = Reserved /\ reserve = 0 /\ held' = held
    BY <1>1, <1>3 DEF Reject, NoClient
  <2>2. reserve' = reserve + Reserved
    BY <1>1, <2>1
  <2> QED BY <1>1, <2>1, <2>2, LedgerWait
<1>4. ASSUME NEW c \in Clients, Read(c) PROVE Ledger'
  BY <1>1, <1>4, LedgerOf DEF Read
<1>5. ASSUME NEW c \in Clients, Closed(c) PROVE Ledger'
  BY <1>5, LedgerSame DEF Closed
<1>6. CASE NothingRead
  BY <1>6, LedgerSame DEF NothingRead
<1>7. CASE Waited
  <2>1. -reserve \in Int /\ used - reserve = used + (-reserve) /\ 0 = reserve + (-reserve)
    BY <1>1
  <2>2. used' = used - reserve /\ reserve' = 0 /\ held' = held
    BY <1>7 DEF Waited, Unused
  <2>3. used' = used + (-reserve) /\ reserve' = reserve + (-reserve)
    BY <2>1, <2>2
  <2> QED BY <2>1, <2>2, <2>3, LedgerWait
<1> QED BY <1>2, <1>3, <1>4, <1>5, <1>6, <1>7 DEF Sockets

LEMMA LedgerNext == IInv /\ Numbers /\ Ledger /\ [Next]_vars => Ledger'
<1> SUFFICES ASSUME IInv, Numbers, Ledger, [Next]_vars PROVE Ledger'
  OBVIOUS
<1>1. Numbers'
  BY NumbersNext
<1>2. CASE UNCHANGED vars
  BY <1>2, LedgerSame DEF vars
<1>3. ASSUME NEW c \in Clients, Visit(c) PROVE Ledger'
  BY <1>1, <1>3, LedgerVisit
<1>4. CASE Sockets
  BY <1>1, <1>4, LedgerSockets
<1>5. CASE EndOfPass \/ TimePasses(0) \/ Ticks \/ Stop
  BY <1>5, LedgerSame DEF EndOfPass, TimePasses, Ticks, Stop
<1> QED BY <1>2, <1>3, <1>4, <1>5 DEF Next, Stopped

LEMMA InitLedger == Init => Ledger
<1> SUFFICES ASSUME Init PROVE Ledger
  OBVIOUS
<1>1. held \in [Clients -> Int] /\ (\A c \in Clients : held[c] = 0) /\ used = 0 /\ reserve = 0
  BY DEF Init
<1>2. SumOf(Clients, held) = 0
  BY <1>1, ClientsFinite, SumOfZeros
<1> QED BY <1>1, <1>2 DEF Ledger

\* The memory counter is at every moment what the clients and the wait hold together,
\* never beyond the cap, and a client that is gone holds nothing.
THEOREM LedgerCorrect == Spec => []MemoryLedger
<1>1. Init => Ledger
  BY InitLedger
<1>2. IInv /\ (Numbers /\ ShortInv) /\ Ledger /\ [Next]_vars => Ledger'
  BY LedgerNext
<1>3. Numbers /\ ShortInv /\ Ledger => MemoryLedger
  BY DEF Ledger, SumOf, Numbers, Kept, MemoryLedger
<1> QED BY <1>1, <1>2, <1>3, SpecInv, SpecShort, PTL DEF Spec
=============================================================================
