---------------------------- MODULE RequestCycle ----------------------------
(***************************************************************************)
(* What one connection promises its peer, without the scheduler, the       *)
(* timers, the memory and the files: requests are taken one at a time,     *)
(* each is answered at most once, the connection is reused or upgraded     *)
(* only after an answer, and it may be closed at any moment.               *)
(***************************************************************************)
EXTENDS Naturals

VARIABLES
    phase,     \* what the connection is doing
    answers    \* responses started for the request being served

cycle == <<phase, answers>>

Phases == {"free", "idle", "receiving", "serving", "talking", "closing"}

Open == Phases \ {"free", "closing"}

Move(from, to) == phase = from /\ phase' = to

Init == phase = "free" /\ answers = 0

\* A slot is taken, or given back.
Accept == Move("free", "idle") /\ UNCHANGED answers
Free   == Move("closing", "free") /\ answers' = 0

\* A request is waited for, has arrived (or cannot be read), is answered.
Begin  == Move("idle", "receiving") /\ answers' = 0
Serve  == Move("receiving", "serving") /\ UNCHANGED answers
Answer == phase = "serving" /\ answers = 0 /\ answers' = 1 /\ UNCHANGED phase

\* Only an answered request lets the connection go on.
Reuse   == answers = 1 /\ Move("serving", "idle") /\ UNCHANGED answers
Upgrade == answers = 1 /\ Move("serving", "talking") /\ UNCHANGED answers

Close == phase \in Open /\ phase' = "closing" /\ UNCHANGED answers

Next == \/ Accept \/ Free \/ Begin \/ Serve \/ Answer
        \/ Reuse \/ Upgrade \/ Close

Spec == Init /\ [][Next]_cycle

=============================================================================
