------------------------------ MODULE Scheduler ------------------------------
(***************************************************************************)
(* The scheduler (scheduler.c) with several clients that share its slots   *)
(* and its memory: the pass over the task list, the starvation detection,  *)
(* the round robin, the wait for socket events and the clock.              *)
(*                                                                         *)
(* A client is reduced to what the scheduler sees of the state machine     *)
(* that module Connection describes: whether it polls, how much memory it  *)
(* holds and how important its state is.                                   *)
(*   receive     waits for a request, and polls to store it once it has    *)
(*               come (request_store), low priority;                       *)
(*   work        polls and takes memory until it holds Need units, then    *)
(*               has its controller called, normal priority;               *)
(*   release     has been served and polls to give its memory back         *)
(*               (keepalive), high priority;                               *)
(*   disconnect  polls to give everything back and quits, high priority;   *)
(*   NULL        has quit: the task is still in the list.                  *)
(* The first two back off when they are told to wait: by lack of memory,   *)
(* and also by a controller that asks to be called again or an external    *)
(* file system that is busy.  The scheduler sees no difference.  A         *)
(* request is one buffer here, and clean-ups succeed (see Connection for   *)
(* the refused ones).  The state timers are left to Connection: what is    *)
(* shown here holds without their help.                                    *)
(***************************************************************************)
EXTENDS Integers, SequencesExt

CONSTANTS
    Infinite,     \* ELYSIAN_TIME_INFINITE
    MaxClients,   \* ELYSIAN_MAX_CLIENTS_NUM
    MaxMemory,    \* the memory cap, in units; a received buffer is one unit
    ClientUnits,  \* units of an elysian_client_t with its task
    Need,         \* units a request needs to be served, beyond those of its client
    Interval,     \* ELYSIAN_INTERACTIVE_INTERVAL_MS in ticks: the longest backoff
    MaxArrivals   \* connections and requests the peers send

Clients == 1..MaxClients

ASSUME InfiniteAssumption  == Infinite \notin Nat
ASSUME SizesAssumption     == /\ MaxClients \in Nat \ {0}
                              /\ MaxMemory \in Nat
                              /\ ClientUnits \in Nat \ {0}
                              /\ Need \in Nat \ {0}
                              /\ MaxArrivals \in Nat
ASSUME IntervalAssumption  == Interval \in Nat \ {0}

VARIABLES
    place,      \* where the scheduler is: "visit", "accept", "read", "time" or "stopped"
    tasks,      \* the task list, first to last
    togo,       \* the tasks the loop being executed has still to visit
    state,      \* task->state of each client
    poll,       \* task->poll_delta
    poll_init,  \* task->poll_delta_init
    held,       \* memory units each client holds
    used,       \* elysian_mem_usage_bytes
    reserve,    \* units held for the next client while waiting for socket events
    t0,         \* time since starvation_detection_t0, or Infinite
    aborted,    \* the client aborted by the last pass, or none
    arrivals,   \* connections and requests received so far
    refused,    \* history: the clients told to wait since the detection began
    told        \* history: whether one of them was while memory was free

history == <<refused, told>>
vars == <<place, tasks, togo, state, poll, poll_init, held, used, reserve, t0, aborted, arrivals,
          refused, told>>

-----------------------------------------------------------------------------
States == {"none", "receive", "work", "release", "disconnect", "NULL"}
Live(c) == state[c] \in {"receive", "work", "release", "disconnect"}
None == 0
Clock == 0..Interval \cup {Infinite}

Members(s) == {s[i] : i \in DOMAIN s}
Free == MaxMemory - used

Passed(delta, d) == IF delta = Infinite THEN Infinite
                    ELSE IF delta > d THEN delta - d ELSE 0

\* elysian_schdlr_state_poll_set, and the backoff that doubles up to Interval.
PollSet(c, delta) == /\ poll' = [poll EXCEPT ![c] = delta]
                     /\ poll_init' = [poll_init EXCEPT ![c] = delta]
Backoff(init) == IF init = 0 THEN 1
                 ELSE IF init < Interval \div 2 THEN 2 * init ELSE Interval

\* Entering a state: its clocks start off, and its ENTRY asks to be polled.
Enter(c, s) == /\ state' = [state EXCEPT ![c] = s]
               /\ PollSet(c, 0)

Priority(s) == CASE s = "receive" -> 0
                 [] s = "work"    -> 1
                 [] OTHER         -> 2

\* elysian_mem_malloc and elysian_mem_free on behalf of a client.
Malloc(c, n) == /\ held' = [held EXCEPT ![c] = @ + n]
                /\ used' = used + n
Release(c, n) == Malloc(c, -n)
MemoryUnchanged == UNCHANGED <<held, used>>

-----------------------------------------------------------------------------
(* The pass over the tasks: elysian_schdlr_exec_immediate_events           *)

Visiting(c) == place = "visit" /\ togo # <<>> /\ c = Head(togo)

\* The loop goes on with the task it saved before the handler ran; a task that
\* quit meanwhile is looked at once more, and removed.
\* Mutant: it goes on at once.
GoOnAtOnce(c) == togo' = Tail(togo)
GoOn(c) == togo' = IF state'[c] = "NULL" THEN togo ELSE Tail(togo)

\* Mutant: the first task is unlinked.
UnlinkFirst(c) == Tail(tasks)
Unlink(c) == RemoveAt(tasks, CHOOSE i \in DOMAIN tasks : tasks[i] = c)

\* A task that has quit leaves the list; its client is already freed.
RemoveTask(c) ==
    /\ Visiting(c) /\ state[c] = "NULL"
    /\ tasks' = Unlink(c)
    /\ togo' = Tail(togo)
    /\ state' = [state EXCEPT ![c] = "none"]
    /\ Release(c, held[c])
    /\ refused' = refused \ {c}
    /\ UNCHANGED <<place, poll, poll_init, reserve, t0, aborted, arrivals, told>>

\* A task whose poll clock has not run out: nothing is thrown.
Skip(c) ==
    /\ Visiting(c) /\ Live(c) /\ poll[c] # 0
    /\ togo' = Tail(togo)
    /\ UNCHANGED <<place, tasks, state, poll, poll_init, held, used, reserve, t0, aborted, arrivals,
                   history>>

\* POLL is thrown.
Poll(c) ==
    /\ Visiting(c) /\ Live(c) /\ poll[c] = 0
    /\ UNCHANGED <<place, tasks, reserve, t0, aborted, arrivals>>

\* A handler is told to wait (ELYSIAN_ERR_POLL) and backs off.
Wait(c) ==
    /\ PollSet(c, Backoff(poll_init[c]))
    /\ IF t0 = Infinite THEN UNCHANGED history
       ELSE refused' = refused \cup {c} /\ told' = IF Free >= 1 THEN TRUE ELSE told
    /\ UNCHANGED <<state, held, used>>

\* request_store stores the request and goes on, or has none and waits for the socket.
PollReceive(c) ==
    /\ Poll(c) /\ state[c] = "receive"
    /\ \/ /\ held[c] = ClientUnits /\ PollSet(c, Infinite)
          /\ MemoryUnchanged /\ UNCHANGED <<state, history>>
       \/ /\ held[c] > ClientUnits /\ Enter(c, "work")
          /\ MemoryUnchanged /\ UNCHANGED history
       \/ Wait(c)
    /\ GoOn(c)

\* The request is worked on as far as memory, its controller and files allow.
PollWork(c) ==
    /\ Poll(c) /\ state[c] = "work"
    /\ \/ /\ held[c] < ClientUnits + Need /\ Free >= 1
          /\ Malloc(c, 1) /\ PollSet(c, 0)
          /\ UNCHANGED <<state, history>>
       \/ /\ held[c] = ClientUnits + Need
          /\ \E s \in {"release", "disconnect"} : Enter(c, s)
          /\ MemoryUnchanged /\ UNCHANGED history
       \/ Wait(c)
    /\ GoOn(c)

PollRelease(c) ==
    /\ Poll(c) /\ state[c] = "release"
    /\ Enter(c, "receive")
    /\ Release(c, held[c] - ClientUnits)
    /\ UNCHANGED history
    /\ GoOn(c)

\* Everything but the task structure, counted as the last unit, is freed.
PollDisconnect(c) ==
    /\ Poll(c) /\ state[c] = "disconnect"
    /\ state' = [state EXCEPT ![c] = "NULL"]
    /\ PollSet(c, Infinite)
    /\ Release(c, held[c] - 1)
    /\ UNCHANGED history
    /\ GoOn(c)

-----------------------------------------------------------------------------
(* The end of the pass                                                     *)

Polling  == {c \in Members(tasks) : Live(c) /\ poll[c] # Infinite}
Starving == {c \in Polling : poll[c] # 0}

\* All polling tasks are starving, and there are at least two of them.
Starvation == Polling = Starving /\ \E c, d \in Polling : c # d

\* elysian_schdlr_get_lowest_priority_task: the first of the least important.
Lowest == CHOOSE c \in Members(tasks) :
            \E i \in DOMAIN tasks :
               /\ tasks[i] = c
               /\ \A j \in DOMAIN tasks :
                    /\ Priority(state[tasks[i]]) <= Priority(state[tasks[j]])
                    /\ j < i => Priority(state[tasks[i]]) # Priority(state[tasks[j]])

\* Starvation has lasted for more than Interval.
\* Mutant: starvation of any length.
RecoverEarly == Starvation /\ t0 # Infinite
Recover == Starvation /\ t0 # Infinite /\ t0 > Interval

\* Mutant: the detection is started again by every pass.
DetectionRestarted == t0' = IF ~Starvation \/ Recover THEN Infinite ELSE 0
Detection == t0' = IF ~Starvation \/ Recover THEN Infinite
                   ELSE IF t0 = Infinite THEN 0 ELSE t0

\* ABORT sends every state but disconnect there.  The handler never quits at
\* once, so the branch that makes all polling tasks poll again is not reached.
Abort(c) == IF state[c] = "disconnect" THEN UNCHANGED <<state, poll, poll_init>>
            ELSE Enter(c, "disconnect")

\* The first task becomes the last one.
\* Mutant: the round robin swaps the first and the last task.
RotateSwaps == tasks' = IF Len(tasks) < 2 THEN tasks
                        ELSE <<tasks[Len(tasks)]>> \o SubSeq(tasks, 2, Len(tasks) - 1)
                               \o <<Head(tasks)>>
Rotate == tasks' = IF Len(tasks) < 2 THEN tasks ELSE Append(Tail(tasks), Head(tasks))

EndOfPass ==
    /\ place = "visit" /\ togo = <<>>
    /\ Detection
    /\ IF Recover THEN Abort(Lowest) /\ aborted' = Lowest
       ELSE aborted' = None /\ UNCHANGED <<state, poll, poll_init>>
    /\ IF t0' = Infinite THEN refused' = {} /\ told' = FALSE ELSE UNCHANGED history
    /\ Rotate
    /\ place' = "accept"
    /\ UNCHANGED <<togo, held, used, reserve, arrivals>>

-----------------------------------------------------------------------------
(* Waiting for the sockets: elysian_schdlr_exec_socket_events              *)

\* The memory of the next client is allocated before the wait, if there is any.
Reserved == IF Free >= ClientUnits THEN ClientUnits ELSE 0

Arrive == arrivals < MaxArrivals /\ arrivals' = arrivals + 1

\* The tasks in the read set are those of the list before a client is accepted.
ToRead == place' = "read" /\ togo' = tasks

FreeSlots == MaxClients - Len(tasks)
Fresh == CHOOSE c \in Clients : c \notin Members(tasks)

Accept ==
    /\ place = "accept" /\ Reserved # 0 /\ FreeSlots > 0
    /\ Arrive
    /\ tasks' = Append(tasks, Fresh)
    /\ Enter(Fresh, "receive")
    /\ Malloc(Fresh, ClientUnits)
    /\ reserve' = 0
    /\ ToRead
    /\ UNCHANGED <<t0, aborted, history>>

\* With no slot left the connection is closed.
Reject ==
    /\ place = "accept" /\ Reserved # 0 /\ FreeSlots = 0
    /\ Arrive
    /\ reserve' = Reserved /\ used' = used + Reserved
    /\ ToRead
    /\ UNCHANGED <<tasks, state, poll, poll_init, held, t0, aborted, history>>

NoClient ==
    /\ place = "accept"
    /\ reserve' = Reserved /\ used' = used + Reserved
    /\ ToRead
    /\ UNCHANGED <<tasks, state, poll, poll_init, held, t0, aborted, arrivals, history>>

Reading(c) == place = "read" /\ togo # <<>> /\ c = Head(togo)

\* Data for a client is read only into a buffer there is memory for; READ has it
\* stored by the next POLL.
Read(c) ==
    /\ Reading(c) /\ state[c] = "receive" /\ held[c] = ClientUnits /\ Free >= 1
    /\ Arrive
    /\ PollSet(c, 0)
    /\ Malloc(c, 1)
    /\ togo' = Tail(togo)
    /\ UNCHANGED <<place, tasks, state, reserve, t0, aborted, history>>

\* That the peer has closed is only noticed by reading.
Closed(c) ==
    /\ Reading(c) /\ Live(c) /\ Free >= 1
    /\ Abort(c)
    /\ togo' = Tail(togo)
    /\ UNCHANGED <<place, tasks, held, used, reserve, t0, aborted, arrivals, history>>

NothingRead ==
    /\ place = "read" /\ togo # <<>>
    /\ togo' = Tail(togo)
    /\ UNCHANGED <<place, tasks, state, poll, poll_init, held, used, reserve, t0, aborted, arrivals,
                   history>>

\* Mutant: it is kept.
UnusedKept == 0
\* What the wait allocated and did not use is freed.
Unused == reserve

Waited ==
    /\ place = "read" /\ togo = <<>>
    /\ place' = "time"
    /\ used' = used - Unused /\ reserve' = 0
    /\ UNCHANGED <<tasks, togo, state, poll, poll_init, held, t0, aborted, arrivals, history>>

\* elysian_schdlr_time_advance, then the next pass.
TimePasses(d) ==
    /\ place = "time"
    /\ poll' = [c \in Clients |-> Passed(poll[c], d)]
    /\ t0' = IF t0 = Infinite \/ t0 > Interval THEN t0 ELSE t0 + d
    /\ place' = "visit" /\ togo' = tasks
    /\ UNCHANGED <<tasks, state, poll_init, held, used, reserve, aborted, arrivals, history>>

\* elysian_schdlr_stop: every task is told, and nothing runs any more.
Stop ==
    /\ place = "time"
    /\ place' = "stopped"
    /\ state' = [c \in Clients |-> IF Live(c) THEN "disconnect" ELSE state[c]]
    /\ poll' = [c \in Clients |-> IF Live(c) /\ state[c] # "disconnect" THEN 0 ELSE poll[c]]
    /\ poll_init' = [c \in Clients |->
                       IF Live(c) /\ state[c] # "disconnect" THEN 0 ELSE poll_init[c]]
    /\ UNCHANGED <<tasks, togo, held, used, reserve, t0, aborted, arrivals, history>>

Stopped == place = "stopped" /\ UNCHANGED vars

-----------------------------------------------------------------------------
Visit(c) == \/ RemoveTask(c) \/ Skip(c) \/ PollReceive(c) \/ PollWork(c)
            \/ PollRelease(c) \/ PollDisconnect(c)

Sockets == \/ Accept \/ Reject \/ NoClient
           \/ \E c \in Clients : Read(c) \/ Closed(c)
           \/ NothingRead \/ Waited

Ticks == \E d \in 1..2 : TimePasses(d)

Init == /\ place = "visit" /\ tasks = <<>> /\ togo = <<>>
        /\ state = [c \in Clients |-> "none"]
        /\ poll = [c \in Clients |-> Infinite]
        /\ poll_init = [c \in Clients |-> Infinite]
        /\ held = [c \in Clients |-> 0]
        /\ used = 0 /\ reserve = 0
        /\ t0 = Infinite /\ aborted = None /\ arrivals = 0
        /\ refused = {} /\ told = FALSE

Next == \/ \E c \in Clients : Visit(c)
        \/ EndOfPass \/ Sockets
        \/ TimePasses(0) \/ Ticks
        \/ Stop \/ Stopped

\* The server's loop goes on, and time is not stuck for ever.
Fairness == WF_vars(Next) /\ SF_vars(Ticks)

Spec == Init /\ [][Next]_vars
FairSpec == Spec /\ Fairness

-----------------------------------------------------------------------------
(* Properties                                                              *)

TypeOK == /\ place \in {"visit", "accept", "read", "time", "stopped"}
          /\ tasks \in Seq(Clients) /\ togo \in Seq(Clients)
          /\ state \in [Clients -> States]
          /\ poll \in [Clients -> Clock] /\ poll_init \in [Clients -> Clock]
          /\ held \in [Clients -> Nat] /\ used \in Int /\ reserve \in Nat
          /\ t0 \in Nat \cup {Infinite}
          /\ aborted \in Clients \cup {None} /\ arrivals \in 0..MaxArrivals
          /\ refused \subseteq Clients /\ told \in BOOLEAN

\* The list holds every client that is not gone exactly once, and never more than
\* there are slots, so that free_client_slots does not run below zero.
TaskListSound ==
    /\ Len(tasks) <= MaxClients
    /\ \A i, j \in DOMAIN tasks : tasks[i] = tasks[j] => i = j
    /\ Members(tasks) = {c \in Clients : state[c] # "none"}

\* The memory counter is what the clients and the wait hold together, and within
\* the cap: nothing a client held survives it.
MemoryLedger ==
    /\ used = reserve + MapThenSumSet(LAMBDA c : held[c], Clients)
    /\ used <= MaxMemory
    /\ \A c \in Clients : state[c] = "none" => held[c] = 0

\* A task that has quit is gone before the scheduler looks at the sockets, whose
\* handling asserts that no event is for a removed client.
NoDeadTaskAtSockets ==
    place \in {"accept", "read", "time"} => \A c \in Clients : state[c] # "NULL"

\* A client is aborted for starvation only when every polling client has been
\* polled since the detection began and was told to wait, and there is no memory or
\* one of them was told to wait with memory free: if memory had come free meanwhile,
\* a longest backoff is over before the detection is, so some task would have been
\* polled and got it.  And the abort is not wasted on a client that is leaving.
AbortOnlyStarved ==
    [][place = "visit" /\ place' = "accept" /\ aborted' # None =>
         /\ Polling \subseteq refused
         /\ Free < 1 \/ told
         /\ \A c \in Polling \cup {aborted'} : state[c] \in {"receive", "work"}]_vars

\* Two clients that work on requests do not deadlock over memory: one of them gets
\* on, or starvation is detected and clients are aborted one after the other until
\* there is memory.  (A single one may starve, until its state timer ends it.)
StarvationEnds == \A c, d \in Clients :
    c < d /\ state[c] = "work" /\ state[d] = "work"
        ~> (state[c] # "work" \/ state[d] # "work" \/ place = "stopped")

\* Every client comes first in the list, the place that is served first, whatever
\* clients come and go.
EveryoneFirst == \A c \in Clients :
    Live(c) ~> (~Live(c) \/ Head(tasks) = c \/ place = "stopped")
=============================================================================
