------------------------------ MODULE Lockout ------------------------------
(***************************************************************************)
(* Logging in to the dashboard as one Discord user: whoever is not an      *)
(* administrator is counted, and after LockThreshold failures refused for  *)
(* a while.  Every attempt is a request of its own, which first looks at   *)
(* the user's failRecord, then asks the database, then counts or clears;   *)
(* the janitor drops records nobody has touched, in three steps of its     *)
(* own: it fetches a record, looks at it, and deletes the user's record.   *)
(* A record stays in the hands of those that fetched it when it leaves the *)
(* map.                                                                    *)
(***************************************************************************)
EXTENDS Handlers, Sequences, FiniteSets

CONSTANTS LockThreshold, LockWindow, LockDuration,  \* five, 15 minutes, 15 minutes
          IdleEvict                                 \* rateIdleEvictAfter, 30 minutes

ASSUME LockoutAssumption ==
    /\ {LockThreshold, LockWindow, LockDuration, IdleEvict} \subseteq Nat
    /\ 0 < LockThreshold /\ LockWindow <= LockDuration /\ LockDuration < IdleEvict

VARIABLES
    failRecords,  \* the records made so far
    loginFails,   \* which of them the map holds, or 0
    isAdmin,      \* the user is in the table admins
    attempts,     \* where each request stands
    janitor,      \* where its sweep stands, and with which record, and when it began
    fails,        \* history: when each record has counted since it last locked
    locks,        \* history: how many failures within the window each lock stood for
    lock,         \* history: the last lock of a record in the map, whether it was lifted,
                  \* and whether the janitor was at work on the user when it was made
    slipped       \* history: an attempt that began under a lock got past it

lockVars == <<failRecords, loginFails, isAdmin, attempts, janitor, fails, locks, lock, slipped>>

NewRecord == [count |-> 0, windowStart |-> now, lockedUntil |-> 0, lastSeen |-> now]
NoAttempt == [pc |-> "idle", rec |-> 0, under |-> 0]
NoSweep == [pc |-> "idle", rec |-> 0, since |-> 0]

LockInit ==
    /\ failRecords = <<>> /\ loginFails = 0
    /\ isAdmin \in BOOLEAN
    /\ attempts = [p \in Proc |-> NoAttempt]
    /\ janitor = NoSweep
    /\ fails = <<>> /\ locks = {}
    /\ lock = [until |-> 0, lifted |-> TRUE, raced |-> FALSE]
    /\ slipped = FALSE

AttemptOver(p) == attempts' = [attempts EXCEPT ![p] = NoAttempt]
InForce == now < lock.until /\ ~lock.lifted

(* handleAuthCallback, once Discord has said who it is: isLockedOut fetches  *)
(* the record.                                                               *)
AuthCallback(p) ==
    /\ Called
    /\ attempts[p].pc = "idle"
    /\ attempts' = [attempts EXCEPT ![p] = [pc |-> "look", rec |-> loginFails, under |-> IF InForce THEN lock.until ELSE 0]]
    /\ UNCHANGED <<failRecords, loginFails, isAdmin, janitor, fails, locks, lock, slipped>>

IsLockedOut(p) ==
    LET it == attempts[p]
        refused == it.rec # 0 /\ now < failRecords[it.rec].lockedUntil
    IN
    /\ it.pc = "look"
    /\ IF refused THEN AttemptOver(p) ELSE attempts' = [attempts EXCEPT ![p].pc = "ask"]
    /\ slipped' = (slipped \/ (~refused /\ InForce /\ it.under = lock.until))
    /\ UNCHANGED <<env, failRecords, loginFails, isAdmin, janitor, fails, locks, lock>>

(* IsAdmin: an error means no administrator.                                 *)
AskIsAdmin(p) ==
    /\ attempts[p].pc = "ask"
    /\ \/ attempts' = [attempts EXCEPT ![p].pc = IF isAdmin THEN "clear" ELSE "fail"] /\ UNCHANGED env
       \/ Fault /\ attempts' = [attempts EXCEPT ![p].pc = "fail"]
    /\ UNCHANGED <<failRecords, loginFails, isAdmin, janitor, fails, locks, lock, slipped>>

(* failRecordFor                                                             *)
FailRecordFor(p) ==
    /\ attempts[p].pc = "fail"
    /\ IF loginFails = 0
       THEN /\ failRecords' = Append(failRecords, NewRecord) /\ loginFails' = Len(failRecords) + 1
            /\ fails' = Append(fails, <<>>)
       ELSE UNCHANGED <<failRecords, loginFails, fails>>
    /\ attempts' = [attempts EXCEPT ![p].pc = "count", ![p].rec = loginFails']
    /\ UNCHANGED <<env, isAdmin, janitor, locks, lock, slipped>>

\* Mutant: a failure counts however long ago it was.
WindowNeverPast(rec) == FALSE

WindowPast(rec) == now > rec.windowStart + LockWindow

(* recordLoginFail: the clock is read and the record's lock taken.           *)
RecordLoginFail(p) ==
    LET r == attempts[p].rec
        old == failRecords[r]
        seen == IF WindowPast(old)
                THEN [old EXCEPT !.count = 1, !.windowStart = now, !.lastSeen = now]
                ELSE [old EXCEPT !.count = @ + 1, !.lastSeen = now]
        locking == seen.count >= LockThreshold /\ now >= old.lockedUntil
        counted == Append(fails[r], now)
        Recent == {i \in 1..Len(counted) : counted[i] + LockWindow >= now}
    IN
    /\ attempts[p].pc = "count"
    /\ failRecords' = [failRecords EXCEPT ![r] =
          IF locking THEN [seen EXCEPT !.lockedUntil = now + LockDuration, !.count = 0, !.windowStart = now] ELSE seen]
    /\ IF locking
       THEN /\ locks' = locks \cup {Cardinality(Recent)}
            /\ lock' = IF r # loginFails THEN lock
                       ELSE [until |-> now + LockDuration, lifted |-> FALSE, raced |-> janitor.pc # "idle"]
       ELSE UNCHANGED <<locks, lock>>
    /\ fails' = [fails EXCEPT ![r] = IF locking THEN <<>> ELSE counted]
    /\ AttemptOver(p)
    /\ UNCHANGED <<env, loginFails, isAdmin, janitor, slipped>>

(* clearLoginFails; the session that follows is the business of Sessions.    *)
ClearLoginFails(p) ==
    /\ attempts[p].pc = "clear"
    /\ loginFails' = 0
    /\ lock' = [lock EXCEPT !.lifted = TRUE]
    /\ AttemptOver(p)
    /\ UNCHANGED <<env, failRecords, isAdmin, janitor, fails, locks, slipped>>

---------------------------------------------------------------------------
(* sweepLoginFails, by the janitor: the cutoff is taken, Range comes to the  *)
(* user's record.                                                            *)
SweepFetch ==
    /\ janitor.pc = "idle" /\ loginFails # 0
    /\ janitor' = [pc |-> "look", rec |-> loginFails, since |-> now]
    /\ UNCHANGED <<env, failRecords, loginFails, isAdmin, attempts, fails, locks, lock, slipped>>

IdleLong(rec) == rec.lastSeen + IdleEvict < janitor.since

(* The sweep is done with the user; a lock it has left is like any other.    *)
SweepOver == janitor' = NoSweep

(* Under the record's lock, which is then let go.                            *)
SweepLook ==
    /\ janitor.pc = "look"
    /\ IF IdleLong(failRecords[janitor.rec])
       THEN janitor' = [janitor EXCEPT !.pc = "drop"] /\ UNCHANGED lock
       ELSE SweepOver /\ lock' = [lock EXCEPT !.raced = FALSE]
    /\ UNCHANGED <<env, failRecords, loginFails, isAdmin, attempts, fails, locks, slipped>>

(* Whatever record the map now holds goes: one that has been locked since,   *)
(* too, which lifts the lock.                                                *)
SweepDrop ==
    /\ janitor.pc = "drop"
    /\ loginFails' = 0
    /\ lock' = [lock EXCEPT !.lifted = @ \/ lock.raced, !.raced = FALSE]
    /\ SweepOver
    /\ UNCHANGED <<env, failRecords, isAdmin, attempts, fails, locks, slipped>>

(* Somebody becomes an administrator, or stops being one.                    *)
AppointAdmin ==
    /\ Called
    /\ isAdmin' = ~isAdmin
    /\ UNCHANGED <<failRecords, loginFails, attempts, janitor, fails, locks, lock, slipped>>

LockTick == Passes /\ UNCHANGED lockVars

LockRestart ==
    /\ Fault
    /\ loginFails' = 0
    /\ lock' = [lock EXCEPT !.lifted = TRUE, !.raced = FALSE]
    /\ attempts' = [p \in Proc |-> NoAttempt]
    /\ SweepOver
    /\ UNCHANGED <<failRecords, isAdmin, fails, locks, slipped>>

LockNext ==
    \/ \E p \in Proc : \/ AuthCallback(p) \/ IsLockedOut(p) \/ AskIsAdmin(p)
                       \/ FailRecordFor(p) \/ RecordLoginFail(p) \/ ClearLoginFails(p)
    \/ SweepFetch \/ SweepLook \/ SweepDrop \/ AppointAdmin \/ LockTick \/ LockRestart

LockSpec == HandlersInit /\ LockInit /\ [][LockNext]_<<env, lockVars>>

---------------------------------------------------------------------------
LockTypeOK ==
    /\ failRecords \in Seq([count : 0..MaxCalls, windowStart : Time, lockedUntil : Nat, lastSeen : Time])
    /\ loginFails \in 0..Len(failRecords)
    /\ attempts \in [Proc -> [pc : {"idle", "look", "ask", "fail", "count", "clear"},
                              rec : 0..Len(failRecords), under : Nat]]
    /\ janitor \in [pc : {"idle", "look", "drop"}, rec : 0..Len(failRecords), since : Time]
    /\ fails \in Seq(Seq(Time)) /\ Len(fails) = Len(failRecords)
    /\ locks \subseteq Nat
    /\ lock \in [until : Nat, lifted : BOOLEAN, raced : BOOLEAN]
    /\ {isAdmin, slipped} \subseteq BOOLEAN

(* A lock stands for LockThreshold failures of its record within the window, *)
(* and as long as it lasts no attempt begun under it gets as far as asking   *)
(* whether the user is an administrator.  Lifted before its time is a lock   *)
(* only by a login that was past the check before, by a restart, or by the   *)
(* janitor if it was made while the janitor was at work on the user: what    *)
(* was locked when the janitor fetched it is never dropped.  And a login     *)
(* that clears the record between its fetch and its count leaves a lock      *)
(* nobody sees.                                                              *)
LockHolds == ~slipped /\ \A n \in locks : n >= LockThreshold
=============================================================================
