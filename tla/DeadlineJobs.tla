---------------------------- MODULE DeadlineJobs ----------------------------
(***************************************************************************)
(* What a table of scheduled actions promises (store/scheduled.go and the  *)
(* sweepers that drain it): a job is scheduled once with a deadline, its   *)
(* effect is attempted only when the deadline has passed, at least one     *)
(* attempt precedes its consumption, and a consumed job never comes back.  *)
(* Untried, a job is done only if the creator that scheduled it is still   *)
(* at work and withdraws it.  Nothing here knows of sweeps, batches,       *)
(* crashes or failing calls: the detailed modules hide those behind a      *)
(* refinement mapping.                                                     *)
(***************************************************************************)
EXTENDS Naturals

CONSTANTS Job,   \* the rows the table may come to hold
          Time   \* the deadlines a job may be given, natural numbers

VARIABLES clock,    \* the time the deadlines are compared with
          status,   \* status[j]: where job j is in its life
          deadline, \* deadline[j]: when job j falls due (0 before it exists)
          creating  \* the jobs whose creator has work left that may fail

jobVars == <<clock, status, deadline, creating>>

Status == {"none", "waiting", "tried", "done"}

Init ==
    /\ clock = 0
    /\ status = [j \in Job |-> "none"]
    /\ deadline = [j \in Job |-> 0]
    /\ creating = {}

Tick ==
    /\ clock' = clock + 1
    /\ UNCHANGED <<status, deadline, creating>>

(* Scheduling is all its creator has to do, or the first half of it.         *)
Schedule(j) ==
    /\ status[j] = "none"
    /\ \E d \in Time : deadline' = [deadline EXCEPT ![j] = d]
    /\ status' = [status EXCEPT ![j] = "waiting"]
    /\ creating' \in {creating, creating \cup {j}}
    /\ UNCHANGED clock

(* Creators finish, or die with the process: the jobs are theirs no more.    *)
LetGo ==
    /\ creating' \in SUBSET creating
    /\ UNCHANGED <<clock, status, deadline>>

(* The creator takes back a job nobody has acted on.                         *)
Withdraw(j) ==
    /\ j \in creating
    /\ status[j] = "waiting"
    /\ status' = [status EXCEPT ![j] = "done"]
    /\ creating' = creating \ {j}
    /\ UNCHANGED <<clock, deadline>>

Try(j) ==
    /\ status[j] = "waiting"
    /\ deadline[j] <= clock
    /\ status' = [status EXCEPT ![j] = "tried"]
    /\ UNCHANGED <<clock, deadline, creating>>

(* A tried job may be consumed by its creator, too.                          *)
Consume(j) ==
    /\ status[j] = "tried"
    /\ status' = [status EXCEPT ![j] = "done"]
    /\ creating' \in {creating, creating \ {j}}
    /\ UNCHANGED <<clock, deadline>>

Next ==
    \/ Tick \/ LetGo
    \/ \E j \in Job : Schedule(j) \/ Withdraw(j) \/ Try(j) \/ Consume(j)

SafeSpec == Init /\ [][Next]_jobVars

(* A job that has fallen due is carried through to its end. *)
Spec == SafeSpec /\ \A j \in Job : WF_jobVars(Try(j) \/ Consume(j))
=============================================================================
