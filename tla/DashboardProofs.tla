--------------------------- MODULE DashboardProofs --------------------------
(***************************************************************************)
(* The dashboard and the commands beside it: the invariants of logins, of the *)
(* configuration of a guild, of the console and of sessions, each of its own *)
(* specification and with its types; and at the end what all of them keep  *)
(* under MCDashboard, whichever of them is at work.                        *)
(***************************************************************************)
EXTENDS MCDashboard, FiniteSetTheorems, SequenceTheorems, TLAPS

---------------------------------------------------------------------------
(* Time never goes back, whatever a step makes of it.                        *)
LEMMA EnvTypes ==
  ASSUME HandlersTypeOK, Called \/ Fault \/ Passes \/ UNCHANGED env
  PROVE  HandlersTypeOK' /\ now \in Nat /\ now' \in Nat /\ now <= now' /\ now \in Time
BY HandlersAssumption DEF HandlersTypeOK, Called, Fault, Passes, env, Time

(* A list is what it holds at each of its places.                            *)
LEMMA ListOf ==
  ASSUME NEW S, NEW s, NEW n \in Nat, s \in [1..n -> S]
  PROVE  s \in Seq(S)
BY SeqDef

---------------------------------------------------------------------------
(* Lockout: for any attempts, failures and sweeps a lock lasts until its   *)
(* end, until a login that was under way lifts it, or until a janitor that *)
(* was at work when it was made drops it.                                  *)
(* A record's lock ends within LockDuration of its last touch, so that the   *)
(* janitor, who waits for longer, finds none that is locked; and its count   *)
(* are the last failures of it, all of them since windowStart.               *)
FailRecord == [count : Nat, windowStart : Nat, lockedUntil : Nat, lastSeen : Nat]
AttemptType == [pc : {"idle", "look", "ask", "fail", "count", "clear"}, rec : Nat, under : Nat]
LockType == [until : Nat, lifted : BOOLEAN, raced : BOOLEAN]

LockTyped ==
    /\ failRecords \in Seq(FailRecord)
    /\ loginFails \in 0..Len(failRecords)
    /\ attempts \in [Proc -> AttemptType]
    /\ fails \in Seq(Seq(Nat)) /\ Len(fails) = Len(failRecords)
    /\ lock \in LockType
    /\ janitor \in [pc : {"idle", "look", "drop"}, rec : Nat, since : Nat]

Tracks(it, times) ==
    /\ it.lastSeen <= now /\ it.windowStart <= now /\ it.lockedUntil <= it.lastSeen + LockDuration
    /\ it.count <= Len(times)
    /\ \A i \in 1..Len(times) : Len(times) < i + it.count => it.windowStart <= times[i]

Tracked == \A r \in 1..Len(failRecords) : Tracks(failRecords[r], fails[r])

LockedTo(r, t) == r \in 1..Len(failRecords) /\ t <= failRecords[r].lockedUntil

(* A lock in force is that of the record in the map, and an attempt that     *)
(* began under it has that record in its hands.                              *)
Bound(it) ==
    /\ it.pc = "look" /\ 0 < it.under => LockedTo(it.rec, it.under)
    /\ it.pc = "count" => it.rec \in 1..Len(failRecords)

(* The janitor fetched the record of a lock that was in force by then, and   *)
(* goes on to drop it only if there was none.                                *)
Sweeping ==
    /\ janitor.since <= now /\ janitor.rec <= Len(failRecords)
    /\ janitor.pc = "look" => janitor.rec \in 1..Len(failRecords)
    /\ janitor.pc = "look" /\ InForce /\ ~lock.raced => LockedTo(janitor.rec, lock.until)
    /\ janitor.pc = "drop" /\ InForce => lock.raced

LockIInv ==
    /\ HandlersTypeOK /\ LockTyped
    /\ Tracked /\ Sweeping
    /\ InForce => LockedTo(loginFails, lock.until)
    /\ \A p \in Proc : Bound(attempts[p])
    /\ LockHolds

---------------------------------------------------------------------------
LEMMA LockNumbers ==
  /\ LockThreshold \in Nat /\ LockWindow \in Nat /\ LockDuration \in Nat /\ IdleEvict \in Nat
  /\ LockDuration < IdleEvict
BY LockoutAssumption DEF LockoutAssumption

LEMMA RestingAttempt == NoAttempt \in AttemptType /\ NoAttempt.pc = "idle"
BY DEF NoAttempt, AttemptType

LEMMA RestingJanitor ==
  /\ NoSweep \in [pc : {"idle", "look", "drop"}, rec : Nat, since : Nat]
  /\ NoSweep.pc = "idle" /\ NoSweep.rec = 0 /\ NoSweep.since = 0
BY DEF NoSweep

LEMMA RecordTyped ==
  ASSUME LockTyped, NEW r \in 1..Len(failRecords)
  PROVE  /\ failRecords[r] \in FailRecord /\ fails[r] \in Seq(Nat)
         /\ failRecords[r].count \in Nat /\ failRecords[r].windowStart \in Nat
         /\ failRecords[r].lockedUntil \in Nat /\ failRecords[r].lastSeen \in Nat
<1>1. failRecords[r] \in FailRecord /\ fails[r] \in Seq(Nat)
  BY DEF LockTyped
<1>. QED
  BY <1>1 DEF FailRecord

LEMMA LockInitIInv == HandlersInit /\ LockInit => LockIInv
<1>. SUFFICES ASSUME HandlersInit, LockInit PROVE LockIInv
  OBVIOUS
<1>1. HandlersTypeOK
  BY HandlersAssumption DEF HandlersInit, HandlersTypeOK, Time
<1>2. LockTyped
  BY RestingAttempt, RestingJanitor DEF LockInit, LockTyped, LockType
<1>3. Tracked /\ ~InForce /\ LockHolds
  BY DEF LockInit, Tracked, InForce, LockHolds
<1>5. Sweeping
  BY <1>1, RestingJanitor DEF LockInit, Sweeping, HandlersTypeOK, Time
<1>4. \A p \in Proc : Bound(attempts[p])
  BY RestingAttempt DEF LockInit, Bound
<1>. QED
  BY <1>1, <1>2, <1>3, <1>4, <1>5 DEF LockIInv

---------------------------------------------------------------------------
(* A step the janitor has no part in, which makes a lock only as one that is *)
(* raced if the janitor is at work.                                          *)
LEMMA JanitorWaits ==
  ASSUME LockIInv, UNCHANGED janitor, now \in Nat, now' \in Nat, now <= now',
         Len(failRecords) \in Nat, Len(failRecords') \in Nat, Len(failRecords) <= Len(failRecords'),
         InForce' /\ janitor.pc # "idle" => (InForce /\ UNCHANGED lock) \/ lock'.raced,
         \A s, t \in Nat : LockedTo(s, t) => LockedTo(s, t)'
  PROVE  Sweeping'
<1>1. janitor.rec \in Nat /\ janitor.since \in Nat /\ lock.until \in Nat
  BY DEF LockIInv, LockTyped, LockType
<1>2. Sweeping
  BY DEF LockIInv
<1>3. janitor'.since <= now' /\ janitor'.rec <= Len(failRecords')
  BY <1>1, <1>2 DEF Sweeping
<1>4. janitor'.pc = "look" => janitor'.rec \in 1..Len(failRecords')
  BY <1>1, <1>2 DEF Sweeping
<1>5. ASSUME janitor.pc = "look", InForce', ~lock'.raced PROVE LockedTo(janitor.rec, lock.until)'
  <2>1. InForce /\ UNCHANGED lock
    BY <1>5
  <2>2. LockedTo(janitor.rec, lock.until)
    BY <1>2, <1>5, <2>1 DEF Sweeping
  <2>4. \A s, t \in Nat : LockedTo(s, t) => s \in 1..Len(failRecords') /\ t <= failRecords'[s].lockedUntil
    BY DEF LockedTo
  <2>. QED
    BY <1>1, <2>1, <2>2, <2>4 DEF LockedTo
<1>6. janitor.pc = "drop" /\ InForce' => lock'.raced
  BY <1>2 DEF Sweeping
<1>. QED
  BY <1>3, <1>4, <1>5, <1>6 DEF Sweeping

(* A step that leaves the records and the lock as they are, whose time may   *)
(* pass.                                                                     *)
LEMMA RecordsStay ==
  ASSUME LockIInv, HandlersTypeOK', LockTyped', now \in Nat, now' \in Nat, now <= now',
         UNCHANGED <<failRecords, fails>>,
         InForce' => InForce /\ UNCHANGED <<lock, loginFails>>,
         \A p \in Proc : Bound(attempts[p])', LockHolds', Sweeping'
  PROVE  LockIInv'
<1>1. Tracked'
  <2>. SUFFICES ASSUME NEW r \in 1..Len(failRecords) PROVE Tracks(failRecords[r], fails[r])'
    BY DEF Tracked
  <2>1. Tracks(failRecords[r], fails[r]) /\ failRecords[r].lastSeen \in Nat /\ failRecords[r].windowStart \in Nat
    BY RecordTyped DEF LockIInv, Tracked
  <2>. QED
    BY <2>1 DEF Tracks
<1>2. InForce' => LockedTo(loginFails, lock.until)'
  BY DEF LockIInv, LockedTo
<1>. QED
  BY <1>1, <1>2 DEF LockIInv

LEMMA LockQuiet ==
  ASSUME LockIInv, LockTyped', HandlersTypeOK', now \in Nat, now' \in Nat, now <= now',
         UNCHANGED <<failRecords, fails, locks>>, ~slipped', UNCHANGED janitor \/ janitor' = NoSweep,
         (UNCHANGED lock /\ loginFails' = loginFails) \/ lock'.lifted,
         \A p \in Proc : Bound(attempts[p])'
  PROVE  LockIInv'
<1>1. InForce' => InForce /\ UNCHANGED <<lock, loginFails>>
  BY DEF InForce, LockIInv, LockTyped, LockType
<1>2. LockHolds'
  BY DEF LockIInv, LockHolds
<1>3. Len(failRecords) \in Nat /\ Len(failRecords') = Len(failRecords)
  BY DEF LockIInv, LockTyped
<1>4. Sweeping'
  <2>1. CASE UNCHANGED janitor
    <3>1. \A s, t \in Nat : LockedTo(s, t) => LockedTo(s, t)'
      BY DEF LockedTo
    <3>. QED
      BY <1>1, <1>3, <2>1, <3>1, JanitorWaits
  <2>2. CASE janitor' = NoSweep
    BY <1>3, <2>2, RestingJanitor DEF Sweeping
  <2>. QED
    BY <2>1, <2>2
<1>. QED
  BY <1>1, <1>2, <1>4, RecordsStay

(* An attempt that moves on.                                                 *)
LEMMA AttemptMoves ==
  ASSUME LockTyped, \A q \in Proc : Bound(attempts[q]), UNCHANGED failRecords,
         NEW p \in Proc, NEW it \in AttemptType, attempts' = [attempts EXCEPT ![p] = it], Bound(it)
  PROVE  attempts' \in [Proc -> AttemptType] /\ \A q \in Proc : Bound(attempts[q])'
<1>1. \A q \in Proc : attempts'[q] = IF q = p THEN it ELSE attempts[q]
  BY DEF LockTyped
<1>2. \A q \in Proc : Bound(attempts'[q])
  BY <1>1
<1>3. \A q \in Proc : Bound(attempts[q])'
  BY <1>2 DEF Bound, LockedTo
<1>. QED
  BY <1>3 DEF LockTyped

LEMMA AuthBinds ==
  ASSUME LockIInv, NEW p \in Proc, AuthCallback(p), HandlersTypeOK', now \in Nat, now' \in Nat, now <= now'
  PROVE  LockIInv'
<1>. DEFINE it == [pc |-> "look", rec |-> loginFails, under |-> IF InForce THEN lock.until ELSE 0]
<1>1. it \in AttemptType
  BY DEF LockIInv, LockTyped, LockType, AttemptType
<1>2. Bound(it)
  BY DEF Bound, LockIInv
<1>3. attempts' = [attempts EXCEPT ![p] = it] /\ UNCHANGED failRecords
  BY DEF AuthCallback
<1>. HIDE DEF it
<1>4. attempts' \in [Proc -> AttemptType] /\ \A q \in Proc : Bound(attempts[q])'
  BY <1>1, <1>2, <1>3, AttemptMoves DEF LockIInv
<1>5. UNCHANGED <<failRecords, loginFails, fails, locks, lock, slipped, janitor>>
  BY DEF AuthCallback
<1>6. LockTyped'
  BY <1>4, <1>5 DEF LockIInv, LockTyped
<1>. QED
  BY <1>4, <1>5, <1>6, LockQuiet DEF LockIInv, LockHolds

(* Who holds the record of the lock they began under is refused.             *)
LEMMA LookRefuses ==
  ASSUME LockIInv, NEW p \in Proc, IsLockedOut(p), HandlersTypeOK', now \in Nat, now' \in Nat, now <= now'
  PROVE  LockIInv'
<1>. DEFINE it == attempts[p]
            refused == it.rec # 0 /\ now < failRecords[it.rec].lockedUntil
            new == IF refused THEN NoAttempt ELSE [it EXCEPT !.pc = "ask"]
<1>1. it \in AttemptType /\ it.pc = "look" /\ Bound(it)
  BY DEF IsLockedOut, LockIInv, LockTyped
<1>2. new \in AttemptType /\ Bound(new)
  BY <1>1, RestingAttempt DEF AttemptType, Bound
<1>3. attempts' = [attempts EXCEPT ![p] = new]
  BY DEF IsLockedOut, AttemptOver
<1>4. UNCHANGED <<env, failRecords, loginFails, fails, locks, lock, janitor>>
  BY DEF IsLockedOut
<1>5. ~slipped'
  <2>1. SUFFICES ASSUME InForce, it.under = lock.until PROVE refused
    BY DEF IsLockedOut, LockIInv, LockHolds
  <2>2. lock.until \in Nat /\ now < lock.until
    BY <2>1 DEF InForce, LockIInv, LockTyped, LockType
  <2>3. it.rec \in 1..Len(failRecords) /\ lock.until <= failRecords[it.rec].lockedUntil
    BY <1>1, <2>1, <2>2 DEF Bound, LockedTo
  <2>4. failRecords[it.rec].lockedUntil \in Nat
    BY <2>3, RecordTyped DEF LockIInv
  <2>. QED
    BY <2>2, <2>3, <2>4
<1>. HIDE DEF new
<1>6. attempts' \in [Proc -> AttemptType] /\ \A q \in Proc : Bound(attempts[q])'
  BY <1>2, <1>3, <1>4, AttemptMoves DEF LockIInv
<1>7. LockTyped'
  BY <1>4, <1>6 DEF LockIInv, LockTyped
<1>. QED
  BY <1>4, <1>5, <1>6, <1>7, LockQuiet DEF LockIInv, LockHolds

---------------------------------------------------------------------------
(* The failure a record counts.                                              *)

LEMMA Appended ==
  ASSUME NEW times \in Seq(Nat), NEW t \in Nat
  PROVE  /\ Append(times, t) \in Seq(Nat) /\ Len(Append(times, t)) = Len(times) + 1 /\ Len(times) \in Nat
         /\ \A i \in 1..Len(times) + 1 : Append(times, t)[i] = IF i = Len(times) + 1 THEN t ELSE times[i]
OBVIOUS

LEMMA SeenTyped ==
  ASSUME NEW it \in FailRecord, NEW c \in Nat, NEW t \in Nat
  PROVE  /\ [it EXCEPT !.count = c, !.windowStart = t, !.lastSeen = t] \in FailRecord
         /\ [it EXCEPT !.count = it.count + 1, !.lastSeen = t] \in FailRecord
<1>. DEFINE a == [it EXCEPT !.count = c]
            b == [a EXCEPT !.windowStart = t]
            d == [it EXCEPT !.count = it.count + 1]
<1>1. a \in FailRecord /\ d \in FailRecord
  BY DEF FailRecord
<1>. HIDE DEF a, d
<1>2. b \in FailRecord
  BY <1>1 DEF FailRecord
<1>. HIDE DEF b
<1>3. [b EXCEPT !.lastSeen = t] \in FailRecord /\ [d EXCEPT !.lastSeen = t] \in FailRecord
  BY <1>1, <1>2 DEF FailRecord
<1>. QED
  BY <1>3 DEF a, b, d

LEMMA LockedTyped ==
  ASSUME NEW it \in FailRecord, NEW u \in Nat, NEW t \in Nat
  PROVE  [it EXCEPT !.lockedUntil = u, !.count = 0, !.windowStart = t] \in FailRecord
<1>. DEFINE a == [it EXCEPT !.lockedUntil = u]
            b == [a EXCEPT !.count = 0]
<1>1. a \in FailRecord
  BY DEF FailRecord
<1>. HIDE DEF a
<1>2. b \in FailRecord
  BY <1>1 DEF FailRecord
<1>. HIDE DEF b
<1>3. [b EXCEPT !.windowStart = t] \in FailRecord
  BY <1>2 DEF FailRecord
<1>. QED
  BY <1>3 DEF a, b

LEMMA LateOnes ==
  ASSUME NEW times \in Seq(Nat), NEW t \in Nat, NEW n \in Nat, NEW w \in Nat, NEW start \in Nat,
         NEW Late, Late = {i \in 1..Len(Append(times, t)) : Append(times, t)[i] + w >= t},
         n <= Len(times) + 1, t <= start + w,
         \A i \in 1..Len(times) + 1 : Len(times) + 1 < i + n => start <= Append(times, t)[i]
  PROVE  Cardinality(Late) \in Nat /\ n <= Cardinality(Late)
<1>. DEFINE m == Len(times) + 1
            counted == Append(times, t)
<1>0. Len(times) \in Nat
  OBVIOUS
<1>1. m \in Nat /\ Len(counted) = m /\ counted \in Seq(Nat)
  BY <1>0
<1>4. IsFiniteSet(Late) /\ Cardinality(Late) \in Nat
  <2>1. Late \subseteq 1..m
    BY <1>1
  <2>. HIDE DEF m
  <2>2. IsFiniteSet(1..m)
    BY <1>1, FS_Interval
  <2>. QED
    BY <2>1, <2>2, FS_Subset, FS_CardinalityType
<1>2. CASE n = 0
  <2>1. \A c \in Nat : 0 <= c
    OBVIOUS
  <2>. QED
    BY <1>2, <1>4, <2>1
<1>3. CASE n # 0
  <2>. DEFINE a == m - n + 1
  <2>1. a \in Nat /\ a <= m /\ a >= 1 /\ m - a + 1 = n
    BY <1>1, <1>3
  <2>2. \A i \in a..m : i \in 1..m /\ m < i + n
    BY <1>1, <2>1
  <2>3. \A i \in a..m : counted[i] \in Nat /\ start <= counted[i]
    BY <1>1, <2>2
  <2>4. \A i \in a..m : counted[i] + w >= t
    BY <2>3
  <2>5. a..m \subseteq Late
    BY <1>1, <2>2, <2>4
  <2>7. Cardinality(a..m) = n
    <3>. HIDE DEF a, m
    <3>1. a \in Int /\ m \in Int /\ ~(a > m)
      BY <1>1, <2>1
    <3>. QED
      BY <2>1, <3>1, FS_Interval
  <2>8. Cardinality(a..m) <= Cardinality(Late)
    BY <1>4, <2>5, FS_Subset
  <2>. QED
    BY <1>4, <2>7, <2>8
<1>. QED
  BY <1>2, <1>3

LEMMA FailCounts ==
  ASSUME LockIInv, NEW p \in Proc, RecordLoginFail(p), HandlersTypeOK', now \in Nat, now' \in Nat, now <= now'
  PROVE  LockIInv'
<1>. DEFINE r == attempts[p].rec
            old == failRecords[r]
            seen == IF WindowPast(old)
                    THEN [old EXCEPT !.count = 1, !.windowStart = now, !.lastSeen = now]
                    ELSE [old EXCEPT !.count = @ + 1, !.lastSeen = now]
            locking == seen.count >= LockThreshold /\ now >= old.lockedUntil
            counted == Append(fails[r], now)
            Recent == {i \in 1..Len(counted) : counted[i] + LockWindow >= now}
            new == IF locking THEN [seen EXCEPT !.lockedUntil = now + LockDuration, !.count = 0, !.windowStart = now] ELSE seen
            times == IF locking THEN <<>> ELSE counted
<1>1. r \in 1..Len(failRecords) /\ now' = now
  BY DEF RecordLoginFail, LockIInv, Bound, env
<1>2. /\ old \in FailRecord /\ fails[r] \in Seq(Nat) /\ Tracks(old, fails[r])
      /\ old.count \in Nat /\ old.windowStart \in Nat /\ old.lockedUntil \in Nat /\ old.lastSeen \in Nat
  BY <1>1, RecordTyped DEF LockIInv, Tracked
<1>. HIDE DEF old
<1>3. seen \in FailRecord
  BY <1>2, SeenTyped
<1>4. /\ seen.lastSeen = now /\ seen.lockedUntil = old.lockedUntil
      /\ seen.count \in Nat /\ seen.windowStart \in Nat
      /\ seen.windowStart <= now /\ now <= seen.windowStart + LockWindow
  <2>1. CASE WindowPast(old)
    <3>1. /\ seen.lastSeen = now /\ seen.lockedUntil = old.lockedUntil
          /\ seen.count = 1 /\ seen.windowStart = now
      BY <1>2, <2>1 DEF FailRecord
    <3>. HIDE DEF seen
    <3>. QED
      BY <3>1, LockNumbers
  <2>2. CASE ~(WindowPast(old))
    <3>1. /\ seen.lastSeen = now /\ seen.lockedUntil = old.lockedUntil
          /\ seen.count = old.count + 1 /\ seen.windowStart = old.windowStart
      BY <1>2, <2>2 DEF FailRecord
    <3>. HIDE DEF seen
    <3>. QED
      BY <1>2, <2>2, <3>1, LockNumbers DEF Tracks, WindowPast
  <2>. QED
    BY <2>1, <2>2
<1>7. old.lockedUntil <= now + LockDuration
  BY <1>2, LockNumbers DEF Tracks
<1>5. counted \in Seq(Nat) /\ Len(counted) = Len(fails[r]) + 1 /\ Len(fails[r]) \in Nat
      /\ \A i \in 1..Len(counted) : counted[i] = IF i = Len(fails[r]) + 1 THEN now ELSE fails[r][i]
  <2>. PICK before \in Seq(Nat) : before = fails[r]
    BY <1>2
  <2>. PICK t \in Nat : t = now
    OBVIOUS
  <2>1. counted = Append(before, t)
    OBVIOUS
  <2>2. /\ Append(before, t) \in Seq(Nat) /\ Len(Append(before, t)) = Len(before) + 1 /\ Len(before) \in Nat
        /\ \A i \in 1..Len(before) + 1 : Append(before, t)[i] = IF i = Len(before) + 1 THEN t ELSE before[i]
    BY Appended
  <2>. HIDE DEF counted, r
  <2>. QED
    BY <2>1, <2>2
<1>6. /\ seen.count <= Len(counted)
      /\ \A i \in 1..Len(counted) : Len(counted) < i + seen.count => seen.windowStart <= counted[i]
  <2>1. CASE WindowPast(old)
    <3>1. seen.count = 1 /\ seen.windowStart = now
      BY <1>2, <2>1 DEF FailRecord
    <3>. HIDE DEF seen, counted
    <3>. QED
      BY <1>5, <3>1
  <2>2. CASE ~(WindowPast(old))
    <3>1. seen.count = old.count + 1 /\ seen.windowStart = old.windowStart
      BY <1>2, <2>2 DEF FailRecord
    <3>2. /\ old.count <= Len(fails[r])
          /\ \A i \in 1..Len(fails[r]) : Len(fails[r]) < i + old.count => old.windowStart <= fails[r][i]
          /\ old.windowStart <= now
      BY <1>2 DEF Tracks
    <3>. HIDE DEF seen, counted, r
    <3>3. ASSUME NEW i \in 1..Len(counted), Len(counted) < i + seen.count
          PROVE  seen.windowStart <= counted[i]
      <4>1. CASE i = Len(fails[r]) + 1
        BY <1>5, <3>1, <3>2, <4>1
      <4>2. CASE i # Len(fails[r]) + 1
        <5>. DEFINE n == Len(fails[r])
        <5>0. n \in Nat /\ Len(counted) = n + 1 /\ i \in 1..(n + 1) /\ i # n + 1 /\ n + 1 < i + (old.count + 1)
          BY <1>2, <1>5, <3>1, <3>3, <4>2
        <5>. HIDE DEF n
        <5>2. i \in 1..n /\ n < i + old.count
          BY <1>2, <5>0
        <5>1. i \in 1..Len(fails[r]) /\ Len(fails[r]) < i + old.count
          BY <5>2 DEF n
        <5>. QED
          BY <1>5, <3>1, <3>2, <4>2, <5>1
      <4>. QED
        BY <4>1, <4>2
    <3>. QED
      BY <1>2, <1>5, <3>1, <3>2, <3>3
  <2>. QED
    BY <2>1, <2>2
<1>8. /\ new \in FailRecord /\ times \in Seq(Nat)
      /\ new.lastSeen = now /\ old.lockedUntil <= new.lockedUntil /\ new.lockedUntil <= now + LockDuration
      /\ locking => new.lockedUntil = now + LockDuration
  <2>1. CASE locking
    <3>0. new = [seen EXCEPT !.lockedUntil = now + LockDuration, !.count = 0, !.windowStart = now] /\ now + LockDuration \in Nat
      BY <2>1, LockNumbers
    <3>1. new \in FailRecord /\ new.lastSeen = now /\ new.lockedUntil = now + LockDuration
      <4>. HIDE DEF seen, new
      <4>. QED
        BY <1>3, <1>4, <3>0, LockedTyped DEF FailRecord
    <3>2. times \in Seq(Nat)
      BY <2>1
    <3>. HIDE DEF new, seen
    <3>. QED
      BY <1>2, <1>7, <3>1, <3>2, LockNumbers
  <2>2. CASE ~locking
    <3>1. new = seen /\ times = counted
      BY <2>2
    <3>. HIDE DEF new, seen, counted, times, locking
    <3>. QED
      BY <1>2, <1>3, <1>4, <1>5, <1>7, <2>2, <3>1, LockNumbers
  <2>. QED
    BY <2>1, <2>2
<1>9. Tracks(new, times)
  <2>1. CASE locking
    <3>1. new.windowStart = now /\ new.count = 0 /\ times = <<>>
      BY <1>3, <2>1 DEF FailRecord
    <3>. HIDE DEF new, seen, times
    <3>. QED
      BY <1>8, <3>1 DEF Tracks
  <2>2. CASE ~locking
    <3>1. new = seen /\ times = counted
      BY <2>2
    <3>. HIDE DEF new, seen, counted, times
    <3>. QED
      BY <1>4, <1>6, <1>8, <3>1 DEF Tracks
  <2>. QED
    BY <2>1, <2>2
<1>10. locking => Cardinality(Recent) \in Nat /\ LockThreshold <= Cardinality(Recent)
  <2>. SUFFICES ASSUME locking PROVE Cardinality(Recent) \in Nat /\ LockThreshold <= Cardinality(Recent)
    OBVIOUS
  <2>1. LockThreshold <= seen.count
    BY DEF locking
  <2>2. Cardinality(Recent) \in Nat /\ seen.count <= Cardinality(Recent)
    <3>1. \A i \in 1..Len(fails[r]) + 1 : Len(fails[r]) + 1 < i + seen.count => seen.windowStart <= Append(fails[r], now)[i]
      <4>. HIDE DEF seen
      <4>. QED
        BY <1>5, <1>6
    <3>2. seen.count <= Len(fails[r]) + 1
      BY <1>5, <1>6
    <3>3. PICK ts \in Seq(Nat) : ts = fails[r]
      BY <1>2
    <3>4. PICK n \in Nat, start \in Nat : n = seen.count /\ start = seen.windowStart
      BY <1>4
    <3>5. Recent = {i \in 1..Len(Append(ts, now)) : Append(ts, now)[i] + LockWindow >= now}
      BY <3>3
    <3>. HIDE DEF seen, r, Recent
    <3>6. /\ n <= Len(ts) + 1 /\ now <= start + LockWindow
          /\ \A i \in 1..Len(ts) + 1 : Len(ts) + 1 < i + n => start <= Append(ts, now)[i]
      BY <1>4, <3>1, <3>2, <3>3, <3>4
    <3>. QED
      BY <3>4, <3>5, <3>6, LateOnes, LockNumbers
  <2>. HIDE DEF seen, Recent
  <2>. QED
    BY <1>4, <2>1, <2>2, LockNumbers
<1>11. /\ failRecords' = [failRecords EXCEPT ![r] = new]
       /\ fails' = [fails EXCEPT ![r] = times]
       /\ attempts' = [attempts EXCEPT ![p] = NoAttempt]
       /\ UNCHANGED <<loginFails, slipped, janitor>>
       /\ locks' = locks \/ (locking /\ locks' = locks \cup {Cardinality(Recent)})
       /\ lock' = lock \/ (locking /\ r = loginFails /\ lock' = [until |-> now + LockDuration, lifted |-> FALSE, raced |-> janitor.pc # "idle"])
  BY DEF RecordLoginFail, AttemptOver, old
<1>. HIDE DEF r, old, seen, locking, counted, Recent, new, times
<1>12. /\ failRecords' \in Seq(FailRecord) /\ Len(failRecords') = Len(failRecords)
       /\ fails' \in Seq(Seq(Nat)) /\ Len(fails') = Len(failRecords)
       /\ \A s \in 1..Len(failRecords) : /\ failRecords'[s] = IF s = r THEN new ELSE failRecords[s]
                                         /\ fails'[s] = IF s = r THEN times ELSE fails[s]
  BY <1>1, <1>8, <1>11 DEF LockIInv, LockTyped
<1>13. LockTyped'
  <2>1. lock' \in LockType
    <3>1. lock \in LockType /\ now + LockDuration \in Nat
      BY LockNumbers DEF LockIInv, LockTyped
    <3>2. [until |-> now + LockDuration, lifted |-> FALSE, raced |-> janitor.pc # "idle"] \in LockType
      BY <3>1 DEF LockType
    <3>3. lock' = lock \/ lock' = [until |-> now + LockDuration, lifted |-> FALSE, raced |-> janitor.pc # "idle"]
      BY <1>11
    <3>. QED
      BY <3>1, <3>2, <3>3
  <2>2. attempts' \in [Proc -> AttemptType]
    BY <1>11, RestingAttempt DEF LockIInv, LockTyped
  <2>. QED
    BY <1>11, <1>12, <2>1, <2>2 DEF LockIInv, LockTyped
<1>14. Tracked'
  <2>1. \A s \in 1..Len(failRecords) : Tracks(failRecords'[s], fails'[s])
    BY <1>9, <1>12 DEF LockIInv, Tracked
  <2>. QED
    BY <1>1, <1>12, <2>1 DEF Tracked, Tracks
<1>15. ASSUME NEW s, NEW t \in Nat, LockedTo(s, t) PROVE LockedTo(s, t)'
  <2>1. s \in 1..Len(failRecords) /\ failRecords[s].lockedUntil \in Nat
    BY <1>15, RecordTyped DEF LockedTo, LockIInv
  <2>2. CASE s = r
    <3>1. failRecords[s].lockedUntil <= failRecords'[s].lockedUntil /\ failRecords'[s].lockedUntil \in Nat
      BY <1>8, <1>12, <2>1, <2>2 DEF old, FailRecord
    <3>. QED
      BY <1>12, <1>15, <2>1, <3>1 DEF LockedTo
  <2>3. CASE s # r
    BY <1>12, <1>15, <2>1, <2>3 DEF LockedTo
  <2>. QED
    BY <2>2, <2>3
<1>16. InForce' => LockedTo(loginFails, lock.until)'
  <2>1. CASE lock' = lock
    <3>1. InForce' => InForce /\ lock.until \in Nat
      BY <1>1, <2>1 DEF InForce, LockIInv, LockTyped, LockType
    <3>2. InForce => LockedTo(loginFails, lock.until)
      BY DEF LockIInv
    <3>. QED
      BY <1>11, <1>15, <2>1, <3>1, <3>2 DEF LockedTo
  <2>2. CASE locking /\ r = loginFails /\ lock' = [until |-> now + LockDuration, lifted |-> FALSE, raced |-> janitor.pc # "idle"]
    <3>1. lock'.until = now + LockDuration /\ failRecords'[r].lockedUntil = now + LockDuration
      BY <1>1, <1>8, <1>12, <2>2
    <3>. QED
      BY <1>1, <1>11, <1>12, <2>2, <3>1, LockNumbers DEF LockedTo
  <2>. QED
    BY <1>11, <2>1, <2>2
<1>17. \A q \in Proc : Bound(attempts[q])'
  <2>. SUFFICES ASSUME NEW q \in Proc PROVE Bound(attempts[q])'
    OBVIOUS
  <2>1. attempts'[q] = NoAttempt \/ attempts'[q] = attempts[q]
    BY <1>11 DEF LockIInv, LockTyped
  <2>2. Bound(attempts[q]) /\ attempts[q].under \in Nat
    BY DEF LockIInv, LockTyped, AttemptType
  <2>. QED
    BY <1>12, <1>15, <2>1, <2>2, RestingAttempt DEF Bound
<1>18. LockHolds'
  BY <1>10, <1>11, LockNumbers DEF LockIInv, LockHolds
<1>19. Sweeping'
  <2>1. InForce' /\ janitor.pc # "idle" => (InForce /\ UNCHANGED lock) \/ lock'.raced
    <3>1. CASE lock' = lock
      BY <1>1, <3>1 DEF InForce
    <3>2. CASE lock' = [until |-> now + LockDuration, lifted |-> FALSE, raced |-> janitor.pc # "idle"]
      <4>1. lock'.raced = (janitor.pc # "idle")
        BY <3>2, Zenon
      <4>. QED
        BY <4>1
    <3>. QED
      BY <1>11, <3>1, <3>2
  <2>2. Len(failRecords) \in Nat
    BY DEF LockIInv, LockTyped
  <2>3. \A t \in Nat, s \in Nat : LockedTo(s, t) => LockedTo(s, t)'
    BY <1>15
  <2>. QED
    BY <1>11, <1>12, <2>1, <2>2, <2>3, JanitorWaits
<1>. QED
  BY <1>13, <1>14, <1>16, <1>17, <1>18, <1>19 DEF LockIInv

---------------------------------------------------------------------------
(* The other steps.                                                          *)
LEMMA LoginMoves ==
  ASSUME LockIInv, NEW p \in Proc, AskIsAdmin(p) \/ FailRecordFor(p) \/ ClearLoginFails(p),
         HandlersTypeOK', now \in Nat, now' \in Nat, now <= now'
  PROVE  LockIInv'
<1>1. ~slipped' /\ UNCHANGED locks /\ attempts[p] \in AttemptType
  BY DEF AskIsAdmin, FailRecordFor, ClearLoginFails, LockIInv, LockHolds, LockTyped
<1>2. CASE AskIsAdmin(p)
  <2>1. PICK pc \in {"clear", "fail"} : attempts' = [attempts EXCEPT ![p] = [attempts[p] EXCEPT !.pc = pc]]
    BY <1>2 DEF AskIsAdmin
  <2>2. [attempts[p] EXCEPT !.pc = pc] \in AttemptType /\ Bound([attempts[p] EXCEPT !.pc = pc])
    BY <1>1 DEF AttemptType, Bound
  <2>3. UNCHANGED <<failRecords, loginFails, fails, lock, janitor>>
    BY <1>2 DEF AskIsAdmin
  <2>4. attempts' \in [Proc -> AttemptType] /\ \A q \in Proc : Bound(attempts[q])'
    BY <2>1, <2>2, <2>3, AttemptMoves DEF LockIInv
  <2>5. LockTyped'
    BY <2>3, <2>4 DEF LockIInv, LockTyped
  <2>. QED
    BY <1>1, <2>3, <2>4, <2>5, LockQuiet
<1>3. CASE FailRecordFor(p)
  <2>. DEFINE it == [[attempts[p] EXCEPT !.pc = "count"] EXCEPT !.rec = loginFails']
  <2>1. /\ attempts' = [attempts EXCEPT ![p] = it] /\ UNCHANGED <<env, locks, lock, slipped, janitor>>
    BY <1>3 DEF FailRecordFor
  <2>2. \/ loginFails # 0 /\ UNCHANGED <<failRecords, loginFails, fails>>
        \/ /\ loginFails = 0 /\ failRecords' = Append(failRecords, NewRecord)
           /\ loginFails' = Len(failRecords) + 1 /\ fails' = Append(fails, <<>>)
    BY <1>3 DEF FailRecordFor
  <2>3. NewRecord \in FailRecord /\ Tracks(NewRecord, <<>>)
    BY LockNumbers DEF NewRecord, FailRecord, Tracks
  <2>4. /\ failRecords' \in Seq(FailRecord) /\ fails' \in Seq(Seq(Nat)) /\ Len(fails') = Len(failRecords')
        /\ Len(failRecords) \in Nat /\ loginFails' \in 1..Len(failRecords') /\ Len(failRecords) <= Len(failRecords')
    <3>1. Len(failRecords) \in Nat /\ Len(failRecords) = Len(fails)
          /\ failRecords \in Seq(FailRecord) /\ fails \in Seq(Seq(Nat)) /\ loginFails \in 0..Len(failRecords)
      BY DEF LockIInv, LockTyped
    <3>2. <<>> \in Seq(Nat)
      OBVIOUS
    <3>3. CASE loginFails # 0 /\ UNCHANGED <<failRecords, loginFails, fails>>
      BY <3>1, <3>3
    <3>4. CASE loginFails = 0 /\ failRecords' = Append(failRecords, NewRecord)
               /\ loginFails' = Len(failRecords) + 1 /\ fails' = Append(fails, <<>>)
      <4>1. Append(failRecords, NewRecord) \in Seq(FailRecord) /\ Len(Append(failRecords, NewRecord)) = Len(failRecords) + 1
        BY <2>3, <3>1
      <4>2. Append(fails, <<>>) \in Seq(Seq(Nat)) /\ Len(Append(fails, <<>>)) = Len(fails) + 1
        BY <3>1, <3>2
      <4>. QED
        BY <3>1, <3>4, <4>1, <4>2
    <3>. QED
      BY <2>2, <3>3, <3>4
  <2>5. \A r \in 1..Len(failRecords') :
           \/ r \in 1..Len(failRecords) /\ failRecords'[r] = failRecords[r] /\ fails'[r] = fails[r]
           \/ failRecords'[r] = NewRecord /\ fails'[r] = <<>>
    <3>1. failRecords \in Seq(FailRecord) /\ fails \in Seq(Seq(Nat)) /\ Len(fails) = Len(failRecords)
      BY DEF LockIInv, LockTyped
    <3>2. CASE failRecords' = Append(failRecords, NewRecord) /\ fails' = Append(fails, <<>>)
      <4>1. \A r \in 1..Len(failRecords') : failRecords'[r] = IF r \in 1..Len(failRecords) THEN failRecords[r] ELSE NewRecord
        BY <2>3, <3>1, <3>2
      <4>2. \A r \in 1..Len(failRecords') : fails'[r] = IF r \in 1..Len(failRecords) THEN fails[r] ELSE <<>>
        BY <3>1, <3>2
      <4>. QED
        BY <4>1, <4>2
    <3>. QED
      BY <2>2, <3>2
  <2>6. \A r \in 1..Len(failRecords) : failRecords'[r] = failRecords[r] /\ r \in 1..Len(failRecords')
    <3>1. \A r \in 1..Len(failRecords) : failRecords'[r] = failRecords[r]
      <4>1. failRecords \in Seq(FailRecord)
        BY DEF LockIInv, LockTyped
      <4>. QED
        BY <2>2, <2>3, <4>1
    <3>2. \A m, n \in Nat : m <= n => \A r \in 1..m : r \in 1..n
      OBVIOUS
    <3>3. Len(failRecords') \in Nat
      BY <2>4
    <3>. QED
      BY <2>4, <3>1, <3>2, <3>3
  <2>7. it \in AttemptType /\ it.pc = "count" /\ it.rec = loginFails'
    <3>. DEFINE x == [attempts[p] EXCEPT !.pc = "count"]
    <3>1. x \in AttemptType /\ x.pc = "count" /\ loginFails' \in Nat
      <4>1. x \in AttemptType /\ x.pc = "count"
        BY <1>1 DEF AttemptType
      <4>2. Len(failRecords') \in Nat
        BY <2>4
      <4>. QED
        BY <2>4, <4>1, <4>2
    <3>. HIDE DEF x
    <3>2. [x EXCEPT !.rec = loginFails'] \in AttemptType /\ [x EXCEPT !.rec = loginFails'].pc = "count"
          /\ [x EXCEPT !.rec = loginFails'].rec = loginFails'
      BY <3>1 DEF AttemptType
    <3>. QED
      BY <3>2 DEF x
  <2>. HIDE DEF it
  <2>8. attempts' \in [Proc -> AttemptType] /\ \A q \in Proc : attempts'[q] = IF q = p THEN it ELSE attempts[q]
    BY <2>1, <2>7 DEF LockIInv, LockTyped
  <2>9. LockTyped'
    BY <2>1, <2>4, <2>8 DEF LockIInv, LockTyped
  <2>10. \A r, t : LockedTo(r, t) => LockedTo(r, t)'
    BY <2>6 DEF LockedTo
  <2>11. \A q \in Proc : Bound(attempts[q])'
    <3>1. \A q \in Proc : Bound(attempts[q]) /\ attempts[q] \in AttemptType
      BY DEF LockIInv, LockTyped
    <3>. QED
      BY <2>4, <2>6, <2>7, <2>8, <2>10, <3>1 DEF Bound
  <2>12. InForce' => LockedTo(loginFails, lock.until)'
    <3>1. InForce' => InForce /\ loginFails # 0
      BY <2>1 DEF env, InForce, LockIInv, LockedTo
    <3>. QED
      BY <2>1, <2>2, <2>10, <3>1 DEF LockIInv, LockedTo
  <2>13. Tracked'
    <3>1. \A r \in 1..Len(failRecords') : Tracks(failRecords'[r], fails'[r])
      BY <2>3, <2>5 DEF LockIInv, Tracked
    <3>. QED
      BY <2>1, <3>1 DEF env, Tracked, Tracks
  <2>14. Sweeping'
    <3>1. Len(failRecords') \in Nat
      BY <2>4
    <3>2. InForce' => InForce /\ UNCHANGED lock
      BY <2>1 DEF env, InForce
    <3>. QED
      BY <2>1, <2>4, <2>10, <3>1, <3>2, JanitorWaits
  <2>. QED
    BY <2>1, <2>9, <2>11, <2>12, <2>13, <2>14 DEF LockIInv, LockHolds
<1>4. CASE ClearLoginFails(p)
  <2>1. attempts' = [attempts EXCEPT ![p] = NoAttempt] /\ UNCHANGED <<failRecords, fails, janitor>>
        /\ loginFails' = 0 /\ lock' = [lock EXCEPT !.lifted = TRUE]
    BY <1>4 DEF ClearLoginFails, AttemptOver
  <2>2. NoAttempt \in AttemptType /\ Bound(NoAttempt)
    BY RestingAttempt DEF Bound
  <2>3. attempts' \in [Proc -> AttemptType] /\ \A q \in Proc : Bound(attempts[q])'
    BY <2>1, <2>2, AttemptMoves DEF LockIInv
  <2>4. lock' \in LockType /\ lock'.lifted
    BY <2>1 DEF LockIInv, LockTyped, LockType
  <2>5. LockTyped'
    BY <2>1, <2>3, <2>4 DEF LockIInv, LockTyped
  <2>. QED
    BY <1>1, <2>1, <2>3, <2>4, <2>5, LockQuiet
<1>. QED
  BY <1>2, <1>3, <1>4

(* The janitor is done with the user, and leaves the record.                 *)
LEMMA JanitorDone ==
  ASSUME LockIInv, HandlersTypeOK', now \in Nat, UNCHANGED <<failRecords, fails, attempts, locks, slipped, now, loginFails>>,
         lock' = [lock EXCEPT !.raced = FALSE], janitor' = NoSweep, LockHolds', \A p \in Proc : Bound(attempts[p])'
  PROVE  LockIInv'
<1>1. lock \in LockType /\ Len(failRecords) \in Nat
  BY DEF LockIInv, LockTyped
<1>2. lock' \in LockType /\ lock'.until = lock.until /\ lock'.lifted = lock.lifted
  BY <1>1 DEF LockType
<1>3. LockTyped'
  BY <1>2, RestingJanitor DEF LockIInv, LockTyped
<1>4. InForce' => InForce
  BY <1>2 DEF InForce
<1>5. Tracked' /\ (InForce => LockedTo(loginFails, lock.until)')
  BY <1>2 DEF LockIInv, Tracked, Tracks, LockedTo
<1>6. Sweeping'
  BY <1>1, RestingJanitor DEF Sweeping
<1>. QED
  BY <1>3, <1>4, <1>5, <1>6 DEF LockIInv

(* The janitor finds no locked record: one that is locked was touched within *)
(* LockDuration.  What it then drops is in force only if it was locked since *)
(* the janitor fetched it.                                                   *)
LEMMA SweepSpares ==
  ASSUME LockIInv, SweepFetch \/ SweepLook \/ SweepDrop, HandlersTypeOK', now \in Nat, now' \in Nat, now <= now'
  PROVE  LockIInv'
<1>1. UNCHANGED <<failRecords, fails, attempts, locks, slipped, now>> /\ Len(failRecords) \in Nat
  BY DEF SweepFetch, SweepLook, SweepDrop, env, LockIInv, LockTyped
<1>2. Sweeping /\ janitor \in [pc : {"idle", "look", "drop"}, rec : Nat, since : Nat] /\ lock \in LockType
      /\ loginFails \in 0..Len(failRecords)
  BY DEF LockIInv, LockTyped
<1>3. LockHolds' /\ \A p \in Proc : Bound(attempts[p])'
  BY <1>1 DEF LockIInv, LockHolds, Bound, LockedTo
<1>4. CASE SweepFetch
  <2>1. janitor' = [pc |-> "look", rec |-> loginFails, since |-> now] /\ UNCHANGED <<loginFails, lock>> /\ loginFails # 0
    BY <1>4 DEF SweepFetch
  <2>2. InForce' = InForce /\ (InForce => LockedTo(loginFails, lock.until)')
    BY <1>1, <2>1 DEF InForce, LockIInv, LockedTo
  <2>3. LockTyped'
    BY <1>1, <1>2, <2>1 DEF LockIInv, LockTyped
  <2>4. Sweeping'
    <3>1. janitor'.pc = "look" /\ janitor'.rec = loginFails /\ janitor'.since = now
      BY <2>1
    <3>. QED
      BY <1>1, <1>2, <2>1, <2>2, <3>1 DEF Sweeping, LockedTo
  <2>. QED
    BY <1>1, <1>3, <2>1, <2>2, <2>3, <2>4, RecordsStay
<1>5. CASE SweepLook
  <2>. DEFINE r == janitor.rec
  <2>1. janitor.pc = "look" /\ r \in 1..Len(failRecords) /\ UNCHANGED loginFails
    BY <1>2, <1>5 DEF SweepLook, Sweeping
  <2>2. Tracks(failRecords[r], fails[r])
    BY <2>1 DEF LockIInv, Tracked
  <2>3. failRecords[r].lockedUntil \in Nat /\ failRecords[r].lastSeen \in Nat
    BY <2>1, RecordTyped DEF LockIInv
  <2>4. CASE IdleLong(failRecords[r])
    <3>1. UNCHANGED lock /\ janitor' = [janitor EXCEPT !.pc = "drop"]
      BY <1>5, <2>4 DEF SweepLook
    <3>2. failRecords[r].lockedUntil < now
      <4>1. failRecords[r].lastSeen + IdleEvict < janitor.since /\ janitor.since \in Nat /\ janitor.since <= now
        BY <1>2, <2>4 DEF IdleLong, Sweeping
      <4>. QED
        BY <2>2, <2>3, <4>1, LockNumbers DEF Tracks
    <3>3. InForce => lock.raced
      BY <1>2, <2>1, <2>3, <3>2 DEF Sweeping, InForce, LockedTo, LockType
    <3>4. InForce' = InForce
      BY <1>1, <3>1 DEF InForce
    <3>5. LockTyped'
      BY <1>1, <1>2, <2>1, <3>1 DEF LockIInv, LockTyped
    <3>6. Sweeping'
      <4>1. janitor'.pc = "drop" /\ janitor'.rec = r /\ janitor'.since = janitor.since
        BY <1>2, <3>1
      <4>. QED
        BY <1>1, <1>2, <3>1, <3>3, <3>4, <4>1 DEF Sweeping
    <3>. QED
      BY <1>1, <1>3, <2>1, <3>1, <3>4, <3>5, <3>6, RecordsStay
  <2>5. CASE ~IdleLong(failRecords[r])
    <3>1. lock' = [lock EXCEPT !.raced = FALSE] /\ janitor' = NoSweep
      BY <1>5, <2>5 DEF SweepLook, SweepOver
    <3>. QED
      BY <1>1, <1>2, <1>3, <2>1, <3>1, JanitorDone
  <2>. QED
    BY <2>4, <2>5
<1>6. CASE SweepDrop
  <2>1. lock' = [lock EXCEPT !.lifted = lock.lifted \/ lock.raced, !.raced = FALSE]
        /\ janitor' = NoSweep /\ loginFails' = 0 /\ janitor.pc = "drop"
    BY <1>6 DEF SweepDrop, SweepOver
  <2>2. lock' \in LockType /\ lock'.until = lock.until /\ (lock.lifted \/ lock.raced => lock'.lifted)
    <3>. DEFINE x == [lock EXCEPT !.lifted = lock.lifted \/ lock.raced]
    <3>1. x \in LockType /\ x.until = lock.until /\ (lock.lifted \/ lock.raced => x.lifted)
      BY <1>2, Zenon DEF LockType
    <3>2. lock' = [x EXCEPT !.raced = FALSE]
      BY <2>1
    <3>. HIDE DEF x
    <3>. QED
      BY <3>1, <3>2 DEF LockType
  <2>3. ~InForce'
    BY <1>1, <1>2, <2>1, <2>2 DEF InForce, Sweeping
  <2>4. LockTyped'
    BY <1>1, <2>1, <2>2, RestingJanitor DEF LockIInv, LockTyped
  <2>5. Sweeping'
    BY <1>1, <2>1, <2>3, RestingJanitor DEF Sweeping
  <2>. QED
    BY <1>1, <1>3, <2>3, <2>4, <2>5, RecordsStay
<1>. QED
  BY <1>4, <1>5, <1>6

LEMMA LockRests ==
  ASSUME LockIInv, AppointAdmin \/ LockTick \/ LockRestart \/ UNCHANGED <<env, lockVars>>,
         HandlersTypeOK', now \in Nat, now' \in Nat, now <= now'
  PROVE  LockIInv'
<1>1. UNCHANGED <<failRecords, fails, locks, slipped>> /\ ~slipped
  BY DEF AppointAdmin, LockTick, LockRestart, lockVars, LockIInv, LockHolds
<1>2. \A p \in Proc : attempts'[p] = attempts[p] \/ attempts'[p] = NoAttempt
  BY DEF AppointAdmin, LockTick, LockRestart, lockVars
<1>3. attempts' \in [Proc -> AttemptType]
  BY RestingAttempt DEF AppointAdmin, LockTick, LockRestart, lockVars, LockIInv, LockTyped
<1>4. /\ (UNCHANGED lock /\ loginFails' = loginFails) \/ (lock'.lifted /\ loginFails' = 0)
      /\ UNCHANGED janitor \/ janitor' = NoSweep
  BY DEF AppointAdmin, LockTick, LockRestart, SweepOver, lockVars, LockIInv, LockTyped, LockType
<1>7. lock' \in LockType
  <2>1. lock' = lock \/ lock' = [lock EXCEPT !.lifted = TRUE, !.raced = FALSE]
    BY DEF AppointAdmin, LockTick, LockRestart, lockVars
  <2>2. lock \in LockType
    BY DEF LockIInv, LockTyped
  <2>. QED
    BY <2>1, <2>2 DEF LockType
<1>5. \A p \in Proc : Bound(attempts[p])'
  BY <1>1, <1>2, RestingAttempt DEF LockIInv, Bound, LockedTo
<1>6. LockTyped'
  BY <1>1, <1>3, <1>4, <1>7, RestingJanitor DEF LockIInv, LockTyped
<1>. QED
  BY <1>1, <1>4, <1>5, <1>6, LockQuiet

---------------------------------------------------------------------------
LEMMA LockEnv ==
  ASSUME [LockNext]_<<env, lockVars>>
  PROVE  Called \/ Fault \/ Passes \/ UNCHANGED env
BY DEF LockNext, AuthCallback, IsLockedOut, AskIsAdmin, FailRecordFor, RecordLoginFail, ClearLoginFails,
       SweepFetch, SweepLook, SweepDrop, AppointAdmin, LockTick, LockRestart, env

LEMMA LockNextIInv == LockIInv /\ [LockNext]_<<env, lockVars>> => LockIInv'
<1>. SUFFICES ASSUME LockIInv, [LockNext]_<<env, lockVars>> PROVE LockIInv'
  OBVIOUS
<1>1. HandlersTypeOK' /\ now \in Nat /\ now' \in Nat /\ now <= now'
  BY LockEnv, EnvTypes DEF LockIInv
<1>2. ASSUME NEW p \in Proc, AuthCallback(p) PROVE LockIInv'
  BY <1>1, <1>2, AuthBinds
<1>3. ASSUME NEW p \in Proc, IsLockedOut(p) PROVE LockIInv'
  BY <1>1, <1>3, LookRefuses
<1>4. ASSUME NEW p \in Proc, AskIsAdmin(p) \/ FailRecordFor(p) \/ ClearLoginFails(p) PROVE LockIInv'
  BY <1>1, <1>4, LoginMoves
<1>5. ASSUME NEW p \in Proc, RecordLoginFail(p) PROVE LockIInv'
  BY <1>1, <1>5, FailCounts
<1>6. CASE SweepFetch \/ SweepLook \/ SweepDrop
  BY <1>1, <1>6, SweepSpares
<1>7. CASE AppointAdmin \/ LockTick \/ LockRestart \/ UNCHANGED <<env, lockVars>>
  BY <1>1, <1>7, LockRests
<1>. QED
  BY <1>2, <1>3, <1>4, <1>5, <1>6, <1>7 DEF LockNext

(* A lock stands for LockThreshold failures within the window, and no login  *)
(* begun under it gets past it, for any attempts at once, any threshold and  *)
(* windows and any time the janitor chooses (recordLoginFail, isLockedOut,   *)
(* sweepLoginFails).  The janitor lifts none that was in force when it       *)
(* fetched the record: only one made while it looks and deletes.             *)
THEOREM LocksHold == LockSpec => []LockHolds
<1>1. HandlersInit /\ LockInit => LockIInv
  BY LockInitIInv
<1>2. LockIInv /\ [LockNext]_<<env, lockVars>> => LockIInv'
  BY LockNextIInv
<1>3. LockIInv => LockHolds
  BY DEF LockIInv
<1>. QED
  BY <1>1, <1>2, <1>3, PTL DEF LockSpec

---------------------------------------------------------------------------
(* Counting goroutines by where they stand.                                  *)
StandAt(f, pcs) == {p \in Proc : f[p].pc \in pcs}
OneIn(pc, pcs) == IF pc \in pcs THEN 1 ELSE 0

LEMMA NobodyStands ==
  ASSUME NEW f, NEW pcs, \A p \in Proc : f[p].pc \notin pcs
  PROVE  IsFiniteSet(StandAt(f, pcs)) /\ Cardinality(StandAt(f, pcs)) = 0
<1>1. StandAt(f, pcs) = {}
  BY DEF StandAt
<1>. QED
  BY <1>1, FS_EmptySet

LEMMA OneMoves ==
  ASSUME NEW f, NEW g, NEW pcs, NEW p \in Proc, \A q \in Proc : q # p => g[q] = f[q],
         IsFiniteSet(StandAt(f, pcs))
  PROVE  /\ IsFiniteSet(StandAt(g, pcs))
         /\ Cardinality(StandAt(f, pcs)) \in Nat /\ Cardinality(StandAt(g, pcs)) \in Nat
         /\ Cardinality(StandAt(g, pcs)) + OneIn(f[p].pc, pcs) = Cardinality(StandAt(f, pcs)) + OneIn(g[p].pc, pcs)
<1>. DEFINE F == StandAt(f, pcs)
            G == StandAt(g, pcs)
<1>1. Cardinality(F) \in Nat
  BY FS_CardinalityType
<1>2. CASE f[p].pc \in pcs /\ g[p].pc \in pcs
  <2>1. G = F
    BY <1>2 DEF StandAt
  <2>. QED
    BY <1>1, <1>2, <2>1 DEF OneIn
<1>3. CASE f[p].pc \notin pcs /\ g[p].pc \notin pcs
  <2>1. G = F
    BY <1>3 DEF StandAt
  <2>. QED
    BY <1>1, <1>3, <2>1 DEF OneIn
<1>4. CASE f[p].pc \in pcs /\ g[p].pc \notin pcs
  <2>1. G = F \ {p} /\ p \in F
    BY <1>4 DEF StandAt
  <2>2. IsFiniteSet(G) /\ Cardinality(G) = Cardinality(F) - 1 /\ Cardinality(G) \in Nat
    BY <1>1, <2>1, FS_RemoveElement, FS_CardinalityType
  <2>. QED
    BY <1>1, <1>4, <2>2 DEF OneIn
<1>5. CASE f[p].pc \notin pcs /\ g[p].pc \in pcs
  <2>1. G = F \cup {p} /\ p \notin F
    BY <1>5 DEF StandAt
  <2>2. IsFiniteSet(G) /\ Cardinality(G) = Cardinality(F) + 1
    BY <1>1, <2>1, FS_AddElement
  <2>. QED
    BY <1>1, <1>5, <2>2 DEF OneIn
<1>. QED
  BY <1>2, <1>3, <1>4, <1>5

---------------------------------------------------------------------------
(* The types of logins.  A failure is counted for an attempt that was called *)
(* for: what a record counts and the attempts that may still fail are no     *)
(* more than the calls.                                                      *)
Unanswered == {"look", "ask", "fail", "count"}

LockBounds ==
    /\ IsFiniteSet(StandAt(attempts, Unanswered)) /\ Cardinality(StandAt(attempts, Unanswered)) <= calls
    /\ \A r \in 1..Len(failRecords) :
          /\ failRecords[r].count + Cardinality(StandAt(attempts, Unanswered)) <= calls
          /\ failRecords[r].windowStart <= MaxTime /\ failRecords[r].lastSeen <= MaxTime
    /\ \A p \in Proc : attempts[p].rec <= Len(failRecords)
    /\ fails \in Seq(Seq(Time)) /\ locks \subseteq Nat /\ isAdmin \in BOOLEAN

LEMMA NoAttemptFields == NoAttempt.rec = 0 /\ NoAttempt.pc = "idle"
BY DEF NoAttempt

LEMMA LockInitBounds == HandlersInit /\ LockInit => LockBounds
<1>. SUFFICES ASSUME HandlersInit, LockInit PROVE LockBounds
  OBVIOUS
<1>1. \A p \in Proc : attempts[p].pc \notin Unanswered /\ attempts[p].rec = 0
  BY NoAttemptFields DEF LockInit, Unanswered
<1>2. Len(failRecords) = 0 /\ fails \in Seq(Seq(Time)) /\ locks \subseteq Nat /\ isAdmin \in BOOLEAN /\ calls = 0
  BY DEF LockInit, HandlersInit
<1>3. IsFiniteSet(StandAt(attempts, Unanswered)) /\ Cardinality(StandAt(attempts, Unanswered)) = 0
  BY <1>1, NobodyStands
<1>. QED
  BY <1>1, <1>2, <1>3 DEF LockBounds

LEMMA LockTypes == LockIInv /\ LockBounds => LockTypeOK
<1>. SUFFICES ASSUME LockIInv, LockBounds PROVE LockTypeOK
  OBVIOUS
<1>1. calls \in Nat /\ MaxCalls \in Nat /\ calls <= MaxCalls /\ MaxTime \in Nat /\ LockTyped /\ Len(failRecords) \in Nat
  BY HandlersAssumption DEF LockIInv, HandlersTypeOK, LockTyped
<1>2. Cardinality(StandAt(attempts, Unanswered)) \in Nat
  BY FS_CardinalityType DEF LockBounds
<1>. DEFINE Rec == [count : 0..MaxCalls, windowStart : Time, lockedUntil : Nat, lastSeen : Time]
            Att == [pc : {"idle", "look", "ask", "fail", "count", "clear"}, rec : 0..Len(failRecords), under : Nat]
<1>3. ASSUME NEW r \in 1..Len(failRecords) PROVE failRecords[r] \in Rec
  <2>1. failRecords[r] \in FailRecord
    BY <1>1, RecordTyped
  <2>2. failRecords[r].count \in Nat /\ failRecords[r].windowStart \in Nat /\ failRecords[r].lastSeen \in Nat
    BY <1>1, RecordTyped
  <2>3. failRecords[r].count <= MaxCalls
    BY <1>1, <1>2, <2>2 DEF LockBounds
  <2>4. failRecords[r].windowStart \in Time /\ failRecords[r].lastSeen \in Time /\ failRecords[r].count \in 0..MaxCalls
    BY <1>1, <2>2, <2>3 DEF LockBounds, Time
  <2>. QED
    BY <2>1, <2>4 DEF FailRecord
<1>4. failRecords \in Seq(Rec)
  <2>1. failRecords \in [1..Len(failRecords) -> Rec]
    BY <1>1, <1>3 DEF LockTyped
  <2>. HIDE DEF Rec
  <2>. QED
    BY <1>1, <2>1, ListOf, Zenon
<1>5. ASSUME NEW p \in Proc PROVE attempts[p] \in Att
  <2>1. attempts[p] \in AttemptType /\ attempts[p].rec <= Len(failRecords)
    BY <1>1 DEF LockTyped, LockBounds
  <2>. QED
    BY <1>1, <2>1 DEF AttemptType
<1>6. attempts \in [Proc -> Att]
  BY <1>1, <1>5 DEF LockTyped
<1>7. slipped = FALSE
  BY DEF LockIInv, LockHolds
<1>8. janitor \in [pc : {"idle", "look", "drop"}, rec : 0..Len(failRecords), since : Time]
  <2>1. janitor \in [pc : {"idle", "look", "drop"}, rec : Nat, since : Nat] /\ Sweeping /\ now \in Time
    BY <1>1 DEF LockIInv, LockTyped, HandlersTypeOK
  <2>2. janitor.rec \in 0..Len(failRecords) /\ janitor.since \in Time
    BY <1>1, <2>1 DEF Sweeping, Time
  <2>. QED
    BY <2>1, <2>2
<1>. QED
  BY <1>1, <1>4, <1>6, <1>7, <1>8 DEF LockType, LockTypeOK, LockTyped, LockBounds

(* One attempt moves on, and what a record counts for it is paid for by it   *)
(* or by a call.                                                             *)
Dues(r) == IF r \in 1..Len(failRecords) THEN failRecords[r].count ELSE 0

LockPays(p, x) ==
    /\ attempts' = [attempts EXCEPT ![p] = x]
    /\ Len(failRecords) <= Len(failRecords') /\ x.rec <= Len(failRecords')
    /\ OneIn(x.pc, Unanswered) + calls <= calls' + OneIn(attempts[p].pc, Unanswered)
    /\ \A r \in 1..Len(failRecords') :
          /\ failRecords'[r].windowStart <= MaxTime /\ failRecords'[r].lastSeen <= MaxTime
          /\ \/ failRecords'[r].count = 0
             \/ failRecords'[r].count + OneIn(x.pc, Unanswered) + calls
                   <= calls' + Dues(r) + OneIn(attempts[p].pc, Unanswered)
    /\ fails' \in Seq(Seq(Time)) /\ locks' \subseteq Nat /\ isAdmin' \in BOOLEAN

LEMMA PaidFor ==
  ASSUME NEW m \in Nat, NEW n \in Nat, NEW a \in Nat, NEW b \in Nat, NEW r \in Nat, NEW s \in Nat,
         NEW c \in Nat, NEW d \in Nat, n + a = m + b, r + m <= c, s + b + c <= d + r + a
  PROVE  s + n <= d
OBVIOUS

LEMMA LockBoundsMoved ==
  ASSUME LockTyped, LockTyped', LockBounds, calls \in Nat, calls' \in Nat, NEW p \in Proc, NEW x, LockPays(p, x)
  PROVE  LockBounds'
<1>. DEFINE m == Cardinality(StandAt(attempts, Unanswered))
            n == Cardinality(StandAt(attempts', Unanswered))
            a == OneIn(attempts[p].pc, Unanswered)
            b == OneIn(x.pc, Unanswered)
<1>1. attempts'[p] = x /\ \A q \in Proc : q # p => attempts'[q] = attempts[q]
  BY DEF LockPays, LockTyped
<1>2. IsFiniteSet(StandAt(attempts, Unanswered)) /\ m <= calls
  BY DEF LockBounds
<1>3. IsFiniteSet(StandAt(attempts', Unanswered)) /\ m \in Nat /\ n \in Nat /\ n + a = m + b
  BY <1>1, <1>2, OneMoves
<1>4. a \in Nat /\ b \in Nat
  BY DEF OneIn
<1>5. b + calls <= calls' + a
  BY DEF LockPays
<1>. HIDE DEF m, n, a, b
<1>6. n <= calls'
  <2>1. ASSUME NEW c \in Nat, NEW d \in Nat, m <= c, b + c <= d + a PROVE n <= d
    BY <1>3, <1>4, <2>1
  <2>. QED
    BY <1>2, <1>5, <2>1
<1>7. Len(failRecords) \in Nat /\ Len(failRecords') \in Nat
  BY DEF LockTyped
<1>8. ASSUME NEW r \in 1..Len(failRecords')
      PROVE  failRecords'[r].count + n <= calls'
  <2>. DEFINE s == failRecords'[r].count
              d == Dues(r)
  <2>1. s \in Nat
    <3>1. failRecords' \in Seq(FailRecord)
      BY DEF LockTyped
    <3>2. failRecords'[r] \in FailRecord
      BY <3>1
    <3>. QED
      BY <3>2 DEF FailRecord
  <2>2. d \in Nat /\ d + m <= calls
    <3>1. CASE r \in 1..Len(failRecords)
      BY <3>1, RecordTyped DEF Dues, LockBounds, m
    <3>2. CASE r \notin 1..Len(failRecords)
      BY <1>2, <1>3, <3>2 DEF Dues
    <3>. QED
      BY <3>1, <3>2
  <2>3. s = 0 \/ s + b + calls <= calls' + d + a
    BY DEF LockPays, a, b
  <2>. HIDE DEF s, d
  <2>4. s + n <= calls'
    <3>1. CASE s = 0
      BY <1>3, <1>6, <3>1
    <3>2. CASE s + b + calls <= calls' + d + a
      BY <1>3, <1>4, <2>1, <2>2, <3>2, PaidFor
    <3>. QED
      BY <2>3, <3>1, <3>2
  <2>. QED
    BY <2>4 DEF s
<1>9. ASSUME NEW q \in Proc PROVE attempts'[q].rec <= Len(failRecords')
  <2>1. CASE q = p
    BY <1>1, <2>1 DEF LockPays
  <2>2. CASE q # p
    <3>1. attempts'[q] = attempts[q] /\ attempts[q].rec \in Nat /\ attempts[q].rec <= Len(failRecords)
      BY <1>1, <2>2 DEF LockTyped, AttemptType, LockBounds
    <3>2. Len(failRecords) <= Len(failRecords')
      BY DEF LockPays
    <3>. QED
      BY <1>7, <3>1, <3>2
  <2>. QED
    BY <2>1, <2>2
<1>. QED
  BY <1>3, <1>6, <1>8, <1>9 DEF LockBounds, LockPays, n

---------------------------------------------------------------------------
(* The attempts that touch no record.                                        *)
LEMMA RecordsWithin ==
  ASSUME LockIInv, LockBounds
  PROVE  /\ Len(failRecords) \in Nat
         /\ \A r \in 1..Len(failRecords) : /\ failRecords[r].windowStart <= MaxTime /\ failRecords[r].lastSeen <= MaxTime
                                           /\ failRecords[r].count \in Nat
         /\ fails \in Seq(Seq(Time)) /\ locks \subseteq Nat /\ isAdmin \in BOOLEAN
         /\ \A p \in Proc : attempts[p] \in AttemptType /\ attempts[p].rec <= Len(failRecords)
         /\ loginFails <= Len(failRecords)
<1>1. \A r \in 1..Len(failRecords) : failRecords[r].count \in Nat
  BY RecordTyped DEF LockIInv
<1>. QED
  BY <1>1 DEF LockIInv, LockTyped, LockBounds

LEMMA AttemptGoesOn ==
  ASSUME LockIInv, LockBounds, calls \in Nat, calls' \in Nat, calls <= calls', NEW p \in Proc, NEW x,
         attempts' = [attempts EXCEPT ![p] = x], UNCHANGED <<failRecords, fails, locks, isAdmin>>,
         x.rec <= Len(failRecords),
         x.pc \in Unanswered => calls' = calls + 1 \/ attempts[p].pc \in Unanswered
  PROVE  LockPays(p, x)
<1>1. OneIn(x.pc, Unanswered) + calls <= calls' + OneIn(attempts[p].pc, Unanswered)
  <2>. DEFINE a == OneIn(attempts[p].pc, Unanswered)
              b == OneIn(x.pc, Unanswered)
  <2>1. a \in {0, 1} /\ b \in {0, 1} /\ (b = 1 => x.pc \in Unanswered) /\ (attempts[p].pc \in Unanswered => a = 1)
    BY DEF OneIn
  <2>. HIDE DEF a, b
  <2>2. b = 1 => calls' = calls + 1 \/ a = 1
    BY <2>1
  <2>3. ASSUME NEW c \in Nat, NEW d \in Nat, c <= d, b = 1 => d = c + 1 \/ a = 1
        PROVE  b + c <= d + a
    <3>1. CASE b = 0
      BY <2>1, <2>3, <3>1
    <3>2. CASE b = 1
      BY <2>1, <2>3, <3>2
    <3>. QED
      BY <2>1, <3>1, <3>2
  <2>. QED
    BY <2>2, <2>3 DEF a, b
<1>2. ASSUME NEW r \in 1..Len(failRecords)
      PROVE  failRecords[r].count + OneIn(x.pc, Unanswered) + calls
                   <= calls' + Dues(r) + OneIn(attempts[p].pc, Unanswered)
  <2>1. Dues(r) = failRecords[r].count /\ Dues(r) \in Nat
    BY <1>2, RecordsWithin DEF Dues
  <2>2. OneIn(x.pc, Unanswered) \in Nat /\ OneIn(attempts[p].pc, Unanswered) \in Nat
    BY DEF OneIn
  <2>. QED
    BY <1>1, <2>1, <2>2
<1>. QED
  BY <1>1, <1>2, RecordsWithin DEF LockPays

LEMMA OneReplaced ==
  ASSUME NEW S, NEW seq \in Seq(S), NEW i \in 1..Len(seq), NEW e \in S
  PROVE  [seq EXCEPT ![i] = e] \in Seq(S)
OBVIOUS

(* A failure is counted.                                                     *)
LEMMA CountPays ==
  ASSUME LockIInv, LockBounds, calls \in Nat, now \in Time, NEW p \in Proc, RecordLoginFail(p)
  PROVE  LockPays(p, NoAttempt) /\ UNCHANGED calls
<1>. DEFINE r == attempts[p].rec
            old == failRecords[r]
            seen == IF WindowPast(old)
                    THEN [old EXCEPT !.count = 1, !.windowStart = now, !.lastSeen = now]
                    ELSE [old EXCEPT !.count = @ + 1, !.lastSeen = now]
            locking == seen.count >= LockThreshold /\ now >= old.lockedUntil
            counted == Append(fails[r], now)
            Recent == {i \in 1..Len(counted) : counted[i] + LockWindow >= now}
            new == IF locking THEN [seen EXCEPT !.lockedUntil = now + LockDuration, !.count = 0, !.windowStart = now] ELSE seen
            times == IF locking THEN <<>> ELSE counted
<1>1. r \in 1..Len(failRecords) /\ calls' = calls /\ attempts[p].pc = "count"
  BY DEF RecordLoginFail, LockIInv, Bound, env
<1>2. /\ old \in FailRecord /\ old.count \in Nat /\ old.windowStart <= MaxTime /\ old.lastSeen <= MaxTime
      /\ fails[r] \in Seq(Time) /\ now \in Nat /\ now <= MaxTime
  <2>1. fails[r] \in Seq(Time)
    BY <1>1 DEF LockIInv, LockTyped, LockBounds
  <2>2. now \in Nat /\ now <= MaxTime
    BY HandlersAssumption DEF Time
  <2>. QED
    BY <1>1, <2>1, <2>2, RecordTyped, RecordsWithin DEF LockIInv
<1>3. /\ failRecords' = [failRecords EXCEPT ![r] = new]
      /\ fails' = [fails EXCEPT ![r] = times]
      /\ locks' = locks \/ locks' = locks \cup {Cardinality(Recent)}
      /\ attempts' = [attempts EXCEPT ![p] = NoAttempt] /\ isAdmin' = isAdmin
  BY Zenon DEF RecordLoginFail, AttemptOver
<1>. HIDE DEF old
<1>4. /\ seen \in FailRecord /\ seen.lastSeen = now /\ seen.windowStart <= MaxTime
      /\ seen.count \in Nat /\ seen.count <= old.count + 1
  <2>0. seen \in FailRecord
    BY <1>2, SeenTyped
  <2>1. CASE WindowPast(old)
    <3>1. seen.lastSeen = now /\ seen.count = 1 /\ seen.windowStart = now
      BY <1>2, <2>1 DEF FailRecord
    <3>. HIDE DEF seen
    <3>. QED
      BY <1>2, <2>0, <3>1
  <2>2. CASE ~(WindowPast(old))
    <3>1. seen.lastSeen = now /\ seen.count = old.count + 1 /\ seen.windowStart = old.windowStart
      BY <1>2, <2>2 DEF FailRecord
    <3>. HIDE DEF seen
    <3>. QED
      BY <1>2, <2>0, <3>1
  <2>. QED
    BY <2>1, <2>2
<1>. HIDE DEF seen
<1>5. /\ new.windowStart <= MaxTime /\ new.lastSeen <= MaxTime /\ new \in FailRecord
      /\ new.count = 0 \/ (new.count \in Nat /\ new.count <= old.count + 1)
  <2>1. CASE locking
    <3>1. new = [seen EXCEPT !.lockedUntil = now + LockDuration, !.count = 0, !.windowStart = now]
      BY <2>1
    <3>2. now + LockDuration \in Nat
      BY <1>2, LockNumbers
    <3>3. new \in FailRecord
      BY <1>2, <1>4, <3>1, <3>2, LockedTyped
    <3>4. new.count = 0 /\ new.windowStart = now /\ new.lastSeen = seen.lastSeen
      BY <1>4, <3>1 DEF FailRecord
    <3>. HIDE DEF new
    <3>. QED
      BY <1>2, <1>4, <3>3, <3>4
  <2>2. CASE ~locking
    <3>1. new = seen
      BY <2>2
    <3>. HIDE DEF new
    <3>. QED
      BY <1>2, <1>4, <3>1
  <2>. QED
    BY <2>1, <2>2
<1>6. times \in Seq(Time)
  <2>1. counted \in Seq(Time) /\ <<>> \in Seq(Time)
    <3>. HIDE DEF r
    <3>. QED
      BY <1>2, EmptySeq, AppendProperties
  <2>. HIDE DEF counted
  <2>. QED
    BY <2>1
<1>7. Cardinality(Recent) \in Nat
  <2>1. Len(counted) \in Nat
    <3>. HIDE DEF r
    <3>. QED
      BY <1>2, AppendProperties
  <2>. HIDE DEF counted
  <2>2. IsFiniteSet(1..Len(counted)) /\ Recent \subseteq 1..Len(counted)
    BY <2>1, FS_Interval
  <2>. HIDE DEF Recent
  <2>. QED
    BY <2>2, FS_Subset, FS_CardinalityType
<1>. HIDE DEF new, times, Recent
<1>8. Len(failRecords') = Len(failRecords) /\ \A s \in 1..Len(failRecords) : failRecords'[s] = IF s = r THEN new ELSE failRecords[s]
  <2>1. failRecords \in Seq(FailRecord)
    BY DEF LockIInv, LockTyped
  <2>. HIDE DEF r
  <2>. QED
    BY <1>1, <1>3, <1>5, <2>1
<1>9. fails' \in Seq(Seq(Time))
  <2>. HIDE DEF r
  <2>1. fails \in Seq(Seq(Time)) /\ r \in 1..Len(fails)
    BY <1>1 DEF LockBounds, LockIInv, LockTyped
  <2>2. [fails EXCEPT ![r] = times] \in Seq(Seq(Time))
    BY <1>6, <2>1, OneReplaced, Zenon
  <2>. QED
    BY <1>3, <2>2
<1>10. locks' \subseteq Nat
  BY <1>3, <1>7 DEF LockBounds
<1>11. OneIn("idle", Unanswered) = 0 /\ OneIn("count", Unanswered) = 1 /\ NoAttempt.pc = "idle" /\ NoAttempt.rec = 0
  BY NoAttemptFields DEF OneIn, Unanswered
<1>12. ASSUME NEW s \in 1..Len(failRecords)
       PROVE  /\ failRecords'[s].windowStart <= MaxTime /\ failRecords'[s].lastSeen <= MaxTime
              /\ failRecords'[s].count = 0 \/ failRecords'[s].count + 0 + calls <= calls' + Dues(s) + 1
  <2>1. CASE s = r
    <3>1. failRecords'[s] = new /\ Dues(s) = old.count
      BY <1>1, <1>8, <2>1 DEF Dues, old
    <3>. HIDE DEF r
    <3>. QED
      BY <1>1, <1>2, <1>5, <3>1
  <2>2. CASE s # r
    <3>1. failRecords'[s] = failRecords[s] /\ Dues(s) = failRecords[s].count
      BY <1>8, <2>2 DEF Dues
    <3>. HIDE DEF r
    <3>. QED
      BY <1>1, <3>1, RecordsWithin
  <2>. QED
    BY <2>1, <2>2
<1>13. \A s \in 1..Len(failRecords') :
          /\ failRecords'[s].windowStart <= MaxTime /\ failRecords'[s].lastSeen <= MaxTime
          /\ \/ failRecords'[s].count = 0
             \/ failRecords'[s].count + OneIn(NoAttempt.pc, Unanswered) + calls
                   <= calls' + Dues(s) + OneIn(attempts[p].pc, Unanswered)
  BY <1>1, <1>8, <1>11, <1>12
<1>14. OneIn(NoAttempt.pc, Unanswered) + calls <= calls' + OneIn(attempts[p].pc, Unanswered)
  BY <1>1, <1>11
<1>15. Len(failRecords) <= Len(failRecords') /\ NoAttempt.rec <= Len(failRecords')
  BY <1>8, <1>11, RecordsWithin
<1>16. isAdmin' \in BOOLEAN
  BY <1>3 DEF LockBounds
<1>. QED
  BY <1>1, <1>3, <1>9, <1>10, <1>13, <1>14, <1>15, <1>16 DEF LockPays

(* A record is fetched, or made.                                             *)
LEMMA FetchPays ==
  ASSUME LockIInv, LockIInv', LockBounds, calls \in Nat, now \in Time, NEW p \in Proc, FailRecordFor(p)
  PROVE  /\ LockPays(p, [[attempts[p] EXCEPT !.pc = "count"] EXCEPT !.rec = loginFails'])
         /\ UNCHANGED calls
<1>. DEFINE x == [[attempts[p] EXCEPT !.pc = "count"] EXCEPT !.rec = loginFails']
<1>1. /\ attempts' = [attempts EXCEPT ![p] = x] /\ UNCHANGED <<env, locks, isAdmin>>
      /\ attempts[p] \in AttemptType /\ attempts[p].pc = "fail"
  BY DEF FailRecordFor, LockIInv, LockTyped
<1>2. x.pc = "count" /\ x.rec = loginFails'
  <2>. DEFINE y == [attempts[p] EXCEPT !.pc = "count"]
  <2>1. DOMAIN y = {"pc", "rec", "under"} /\ y.pc = "count"
    BY <1>1 DEF AttemptType
  <2>. HIDE DEF y
  <2>2. [y EXCEPT !.rec = loginFails'].pc = "count" /\ [y EXCEPT !.rec = loginFails'].rec = loginFails'
    BY <2>1
  <2>. QED
    BY <2>2 DEF y
<1>. HIDE DEF x
<1>3. loginFails' <= Len(failRecords')
  BY DEF LockIInv, LockTyped
<1>4. OneIn("count", Unanswered) = 1 /\ OneIn("fail", Unanswered) = 1
  BY DEF OneIn, Unanswered
<1>5. CASE loginFails # 0 /\ UNCHANGED <<failRecords, loginFails, fails>>
  <2>1. calls' = calls /\ x.rec <= Len(failRecords) /\ attempts[p].pc \in Unanswered
    BY <1>1, <1>2, <1>3, <1>5 DEF env, Unanswered
  <2>2. UNCHANGED <<failRecords, fails, locks, isAdmin>> /\ attempts' = [attempts EXCEPT ![p] = x]
    BY <1>1, <1>5
  <2>3. LockPays(p, x)
    <3>1. calls' \in Nat /\ calls <= calls' /\ (x.pc \in Unanswered => calls' = calls + 1 \/ attempts[p].pc \in Unanswered)
      BY <2>1
    <3>. QED
      BY <2>1, <2>2, <3>1, AttemptGoesOn, Zenon
  <2>. QED
    BY <2>1, <2>3 DEF x
<1>6. CASE loginFails = 0 /\ failRecords' = Append(failRecords, NewRecord) /\ fails' = Append(fails, <<>>)
  <2>1. NewRecord \in FailRecord /\ NewRecord.count = 0 /\ NewRecord.windowStart = now /\ NewRecord.lastSeen = now
        /\ now <= MaxTime
    BY HandlersAssumption DEF NewRecord, FailRecord, Time
  <2>2. failRecords \in Seq(FailRecord) /\ fails \in Seq(Seq(Time)) /\ <<>> \in Seq(Time)
    BY EmptySeq DEF LockIInv, LockTyped, LockBounds
  <2>. HIDE DEF NewRecord
  <2>3. /\ Len(failRecords') = Len(failRecords) + 1 /\ Len(failRecords) \in Nat
        /\ \A r \in 1..Len(failRecords') : failRecords'[r] = IF r \in 1..Len(failRecords) THEN failRecords[r] ELSE NewRecord
    BY <1>6, <2>1, <2>2
  <2>4. fails' \in Seq(Seq(Time))
    BY <1>6, <2>2, AppendProperties
  <2>5. ASSUME NEW r \in 1..Len(failRecords')
        PROVE  /\ failRecords'[r].windowStart <= MaxTime /\ failRecords'[r].lastSeen <= MaxTime
               /\ failRecords'[r].count = 0 \/ failRecords'[r].count + 1 + calls <= calls + Dues(r) + 1
    <3>1. CASE r \in 1..Len(failRecords)
      <4>1. failRecords'[r] = failRecords[r] /\ Dues(r) = failRecords[r].count
        BY <2>3, <3>1 DEF Dues
      <4>. QED
        BY <3>1, <4>1, RecordsWithin
    <3>2. CASE r \notin 1..Len(failRecords)
      BY <2>1, <2>3, <3>2
    <3>. QED
      BY <3>1, <3>2
  <2>6. calls' = calls
    BY <1>1 DEF env
  <2>7. LockPays(p, x)
    BY <1>1, <1>2, <1>3, <1>4, <2>3, <2>4, <2>5, <2>6 DEF LockPays, LockBounds
  <2>. QED
    BY <2>6, <2>7 DEF x
<1>. QED
  BY <1>5, <1>6 DEF FailRecordFor

(* Nobody counts, and attempts only end.                                     *)
LEMMA LockBoundsRest ==
  ASSUME LockIInv, LockBounds, calls \in Nat, calls' \in Nat, calls <= calls',
         UNCHANGED <<failRecords, fails, locks>>, isAdmin' \in BOOLEAN,
         UNCHANGED attempts \/ attempts' = [p \in Proc |-> NoAttempt]
  PROVE  LockBounds'
<1>1. \A p \in Proc : attempts'[p].rec <= Len(failRecords)
  BY RecordsWithin, NoAttemptFields
<1>2. /\ IsFiniteSet(StandAt(attempts', Unanswered))
      /\ Cardinality(StandAt(attempts', Unanswered)) \in Nat /\ Cardinality(StandAt(attempts, Unanswered)) \in Nat
      /\ Cardinality(StandAt(attempts', Unanswered)) <= Cardinality(StandAt(attempts, Unanswered))
  <2>0. IsFiniteSet(StandAt(attempts, Unanswered)) /\ Cardinality(StandAt(attempts, Unanswered)) \in Nat
    BY FS_CardinalityType DEF LockBounds
  <2>1. CASE UNCHANGED attempts
    BY <2>0, <2>1
  <2>2. CASE attempts' = [p \in Proc |-> NoAttempt]
    <3>1. \A p \in Proc : attempts'[p].pc \notin Unanswered
      BY <2>2, NoAttemptFields DEF Unanswered
    <3>2. IsFiniteSet(StandAt(attempts', Unanswered)) /\ Cardinality(StandAt(attempts', Unanswered)) = 0
      BY <3>1, NobodyStands
    <3>. QED
      BY <2>0, <3>2
  <2>. QED
    BY <2>1, <2>2
<1>. DEFINE m == Cardinality(StandAt(attempts, Unanswered))
            n == Cardinality(StandAt(attempts', Unanswered))
<1>3. m \in Nat /\ n \in Nat /\ n <= m /\ m <= calls
  BY <1>2 DEF LockBounds
<1>4. \A r \in 1..Len(failRecords) : failRecords[r].count \in Nat /\ failRecords[r].count + m <= calls
  BY RecordsWithin DEF LockBounds
<1>. HIDE DEF m, n
<1>5. n <= calls' /\ \A r \in 1..Len(failRecords) : failRecords[r].count + n <= calls'
  BY <1>3, <1>4
<1>6. \A r \in 1..Len(failRecords') :
          /\ failRecords'[r].count + n <= calls'
          /\ failRecords'[r].windowStart <= MaxTime /\ failRecords'[r].lastSeen <= MaxTime
  BY <1>5, RecordsWithin
<1>7. (\A p \in Proc : attempts'[p].rec <= Len(failRecords')) /\ fails' \in Seq(Seq(Time)) /\ locks' \subseteq Nat
  BY <1>1 DEF LockBounds
<1>. QED
  BY <1>2, <1>5, <1>6, <1>7 DEF LockBounds, n

LEMMA LockBoundsStep ==
  ASSUME LockIInv, LockIInv', LockBounds, [LockNext]_<<env, lockVars>>
  PROVE  LockBounds'
<1>1. calls \in Nat /\ calls' \in Nat /\ now \in Time /\ LockTyped /\ LockTyped'
  BY HandlersAssumption DEF LockIInv, HandlersTypeOK
<1>2. calls <= calls'
  BY <1>1, LockEnv DEF Called, Fault, Passes, env
<1>3. ASSUME NEW p \in Proc, AuthCallback(p) PROVE LockBounds'
  <2>1. PICK u : attempts' = [attempts EXCEPT ![p] = [pc |-> "look", rec |-> loginFails, under |-> u]]
    BY <1>3 DEF AuthCallback
  <2>. DEFINE x == [pc |-> "look", rec |-> loginFails, under |-> u]
  <2>2. x.rec <= Len(failRecords) /\ x.pc \in Unanswered
    BY RecordsWithin DEF Unanswered
  <2>3. calls' = calls + 1 /\ UNCHANGED <<failRecords, fails, locks, isAdmin>>
    BY <1>3 DEF AuthCallback, Called
  <2>. HIDE DEF x
  <2>4. LockPays(p, x)
    BY <1>1, <1>2, <2>1, <2>2, <2>3, AttemptGoesOn DEF x
  <2>. QED
    BY <1>1, <2>4, LockBoundsMoved
<1>4. ASSUME NEW p \in Proc, IsLockedOut(p) \/ AskIsAdmin(p) \/ ClearLoginFails(p) PROVE LockBounds'
  <2>1. UNCHANGED <<calls, failRecords, fails, locks, isAdmin>>
    BY <1>4 DEF IsLockedOut, AskIsAdmin, ClearLoginFails, env, Fault
  <2>2. \/ attempts' = [attempts EXCEPT ![p] = NoAttempt]
        \/ /\ attempts[p].pc \in Unanswered
           /\ \E pc \in {"ask", "clear", "fail"} : attempts' = [attempts EXCEPT ![p] = [attempts[p] EXCEPT !.pc = pc]]
    BY <1>4 DEF IsLockedOut, AskIsAdmin, ClearLoginFails, AttemptOver, Unanswered
  <2>3. CASE attempts' = [attempts EXCEPT ![p] = NoAttempt]
    <3>1. NoAttempt.rec <= Len(failRecords) /\ NoAttempt.pc \notin Unanswered
      BY NoAttemptFields, RecordsWithin DEF Unanswered
    <3>2. LockPays(p, NoAttempt)
      BY <1>1, <1>2, <2>1, <2>3, <3>1, AttemptGoesOn
    <3>. QED
      BY <1>1, <3>2, LockBoundsMoved
  <2>4. CASE /\ attempts[p].pc \in Unanswered
             /\ \E pc \in {"ask", "clear", "fail"} : attempts' = [attempts EXCEPT ![p] = [attempts[p] EXCEPT !.pc = pc]]
    <3>1. PICK pc : attempts' = [attempts EXCEPT ![p] = [attempts[p] EXCEPT !.pc = pc]]
      BY <2>4
    <3>. DEFINE x == [attempts[p] EXCEPT !.pc = pc]
    <3>2. x.rec <= Len(failRecords)
      BY RecordsWithin DEF AttemptType
    <3>. HIDE DEF x
    <3>3. LockPays(p, x)
      BY <1>1, <1>2, <2>1, <2>4, <3>1, <3>2, AttemptGoesOn DEF x
    <3>. QED
      BY <1>1, <3>3, LockBoundsMoved
  <2>. QED
    BY <2>2, <2>3, <2>4
<1>5. ASSUME NEW p \in Proc, FailRecordFor(p) PROVE LockBounds'
  BY <1>1, <1>5, FetchPays, LockBoundsMoved
<1>6. ASSUME NEW p \in Proc, RecordLoginFail(p) PROVE LockBounds'
  BY <1>1, <1>6, CountPays, LockBoundsMoved
<1>7. CASE SweepFetch \/ SweepLook \/ SweepDrop \/ AppointAdmin \/ LockTick \/ LockRestart \/ UNCHANGED <<env, lockVars>>
  <2>1. UNCHANGED <<failRecords, fails, locks>> /\ (UNCHANGED attempts \/ attempts' = [p \in Proc |-> NoAttempt])
    BY <1>7 DEF SweepFetch, SweepLook, SweepDrop, AppointAdmin, LockTick, LockRestart, lockVars
  <2>2. isAdmin' = isAdmin \/ isAdmin' = ~isAdmin
    BY <1>7, Zenon DEF SweepFetch, SweepLook, SweepDrop, AppointAdmin, LockTick, LockRestart, lockVars
  <2>3. isAdmin' \in BOOLEAN
    BY <2>2, Zenon DEF LockBounds
  <2>. QED
    BY <1>1, <1>2, <2>1, <2>3, LockBoundsRest
<1>. QED
  BY <1>3, <1>4, <1>5, <1>6, <1>7 DEF LockNext

---------------------------------------------------------------------------
(* ConfigRows: for any commands, forms, exports, imports and failures each *)
(* table says what was asked for last, unless it is in doubt.              *)
(* The inductive invariant.  A handler has in its hands the row as it is,    *)
(* once it has read it, unless the table is in doubt; so has the cache when  *)
(* nobody is about to fill it; two handlers at work on one table put it in   *)
(* doubt; and an import among the rules has met all the old ones before the  *)
(* first new one.                                                            *)
Piece == {"pc", "table", "set", "row", "busy", "left", "old", "new"}
Held(t) == [Columns[t] -> Nat]
Sure(t) == confused[t] = {}

IsFile(f) == DOMAIN f = Table /\ \A t \in Table : f[t] = NoRow \/ SavedRow(t, f[t])
Whole(f) == IsFile(f) /\ f["guild"] # NoRow /\ f["rules"] # NoRow
Sections(f) == {t \in Table : f[t] # NoRow}
ToRules(left) == left \in Seq(Table) /\ left # <<>> /\ left[Len(left)] = "rules"

RowFits(it) ==
    /\ it.pc = "save" => it.row \in Held(it.table)
    /\ it.pc \in {"fill", "cache", "page"} => it.table = "guild" /\ SavedRow("guild", it.row)
    /\ it.pc = "export" => IsFile(it.row)
    /\ it.pc \in {"import", "importCache", "replace"} => Whole(it.row)

LeftFits(it) ==
    /\ it.left \in Seq(Table)
    /\ it.pc \in {"load", "fill"} /\ it.left # <<>> => it.table = "guild" /\ ToRules(it.left)
    /\ it.pc = "export" => ToRules(it.left)
    /\ it.pc \in {"import", "importCache", "replace"} =>
          ToRules(it.left) /\ \A i \in 1..Len(it.left) : it.row[it.left[i]] # NoRow

BusyFits(it) ==
    /\ it.pc \in {"load", "fill", "save", "cache", "page"} => it.busy = {it.table}
    /\ it.pc = "export" => it.busy = {}
    /\ it.pc \in {"import", "importCache", "replace"} => it.busy = Sections(it.row)

Fits(it) ==
    /\ DOMAIN it = Piece
    /\ it.pc \in {"idle", "load", "fill", "save", "cache", "page", "export", "import", "importCache", "replace"}
    /\ it.table \in Table \ {"rules"}
    /\ it.set \in [DOMAIN it.set -> Nat] /\ DOMAIN it.set \subseteq Columns[it.table]
    /\ it.busy \subseteq Table
    /\ it.old \subseteq Columns["rules"] /\ it.new \subseteq Columns["rules"]
    /\ it.pc = "idle" => it = Unconfigured
    /\ RowFits(it) /\ LeftFits(it) /\ BusyFits(it)

ConfigTyped ==
    /\ DOMAIN rows = Table /\ rows["rules"] # NoRow
    /\ \A t \in Table : rows[t] = NoRow \/ SavedRow(t, rows[t])
    /\ IsFile(bundle) /\ (bundle["guild"] # NoRow => bundle["rules"] # NoRow)
    /\ DOMAIN wanted = Table /\ \A t \in Table : wanted[t] \in Held(t)
    /\ guildCache = NoRow \/ SavedRow("guild", guildCache)
    /\ confused \in [Table -> SUBSET {"crossed", "defaults", "form", "partial"}]
    /\ DOMAIN configuring = Proc /\ \A p \in Proc : Fits(configuring[p])

HasRow(it) ==
    /\ it.pc \in {"fill", "page", "cache"} /\ Sure("guild") => it.row = Stored("guild")
    /\ it.pc = "save" /\ Sure(it.table) => it.row = Stored(it.table) \/ DOMAIN it.set = Columns[it.table]
    /\ it.pc = "importCache" /\ Sure("guild") => Clamped(it.row["guild"]) = Stored("guild")

Swapping(it) ==
    it.pc = "replace" /\ Sure("rules") =>
        /\ Named(rows["rules"]) = it.old \cup (Named(it.row["rules"]) \ it.new)
        /\ it.new \subseteq Named(it.row["rules"])
        /\ it.old # {} => it.new = Named(it.row["rules"])

Alone == \A p, q \in Proc, t \in Table :
    t \in configuring[p].busy /\ t \in configuring[q].busy /\ Sure(t) => p = q

CacheKnows ==
    Sure("guild") => \/ guildCache \in {NoRow, Stored("guild")}
                     \/ \E p \in Proc : configuring[p].pc \in {"cache", "importCache"}

ConfigIInv ==
    /\ ConfigTyped
    /\ \A p \in Proc : HasRow(configuring[p]) /\ Swapping(configuring[p])
    /\ Alone /\ CacheKnows /\ ConfigKept

---------------------------------------------------------------------------
LEMMA ConfigNumbers ==
  /\ DOMAIN Columns = Table /\ Columns["starboard"] = {"channel", "threshold", "enabled"}
  /\ {"prefix", "jail_role"} \subseteq Columns["guild"]
  /\ {"trap", "word"} \subseteq Columns["protection"] /\ "friend" \in Columns["antinuke"]
  /\ \A v \in Values : v \in Nat
  /\ \A t \in Table : NoRow \notin Held(t)
  /\ \A t \in Table : \A c \in Columns[t] :
        Low[c] \in Nat /\ High[c] \in Nat /\ Default[c] \in Low[c]..High[c]
<1>1. \A t \in Table : \A c \in Columns[t] : c \in Column
  BY DEF Column
<1>2. \A t \in Table : NoRow \notin Held(t)
  BY ConfigAssumption DEF ConfigAssumption, Held
<1>3. \A c \in Column : Low[c] \in Nat /\ High[c] \in Nat /\ Default[c] \in Low[c]..High[c]
  BY ConfigAssumption DEF ConfigAssumption
<1>. QED
  BY <1>1, <1>2, <1>3, ConfigAssumption DEF ConfigAssumption

LEMMA IdleFits ==
  /\ Fits(Unconfigured) /\ Unconfigured.pc = "idle" /\ Unconfigured.busy = {}
<1>1. <<>> \in Seq(Table)
  BY EmptySeq
<1>2. DOMAIN Unconfigured = Piece /\ DOMAIN Unconfigured.set = {} /\ Unconfigured.set \in [{} -> Nat]
  BY DEF Unconfigured, Piece
<1>. QED
  BY <1>1, <1>2 DEF Fits, RowFits, LeftFits, BusyFits, Unconfigured, Table

(* What a clamp leaves alone, and what it makes of a row.                    *)
LEMMA ClampFits ==
  ASSUME NEW t \in Table \ {"rules"}, NEW f, DOMAIN f \subseteq Columns[t], f \in [DOMAIN f -> Nat]
  PROVE  /\ DOMAIN Clamped(f) = DOMAIN f
         /\ \A c \in DOMAIN f : Clamped(f)[c] = Clamp(c, f[c]) /\ Clamp(c, f[c]) \in Low[c]..High[c]
         /\ DOMAIN f = Columns[t] => SavedRow(t, Clamped(f)) /\ Clamped(f) \in Held(t)
<1>1. \A c \in DOMAIN f : Low[c] \in Nat /\ High[c] \in Nat /\ Low[c] <= High[c] /\ f[c] \in Nat
  BY ConfigNumbers
<1>2. \A c \in DOMAIN f : Clamp(c, f[c]) \in Low[c]..High[c] /\ Clamp(c, f[c]) \in Nat
  BY <1>1 DEF Clamp
<1>3. DOMAIN Clamped(f) = DOMAIN f /\ \A c \in DOMAIN f : Clamped(f)[c] = Clamp(c, f[c])
  BY DEF Clamped
<1>4. ASSUME DOMAIN f = Columns[t] PROVE SavedRow(t, Clamped(f)) /\ Clamped(f) \in Held(t)
  <2>1. Clamped(f) \in [Columns[t] -> Nat]
    BY <1>2, <1>4 DEF Clamped
  <2>. QED
    BY <2>1, <1>2, <1>3, <1>4 DEF SavedRow, Held
<1>. QED
  BY <1>2, <1>3, <1>4

LEMMA ClampKeeps ==
  ASSUME NEW t \in Table \ {"rules"}, NEW r, SavedRow(t, r)
  PROVE  Clamped(r) = r /\ \A c \in Columns[t] : Clamp(c, r[c]) = r[c]
<1>1. \A c \in Columns[t] : Low[c] \in Nat /\ High[c] \in Nat /\ r[c] \in Low[c]..High[c]
  BY ConfigNumbers DEF SavedRow
<1>2. \A c \in Columns[t] : Clamp(c, r[c]) = r[c]
  BY <1>1 DEF Clamp
<1>3. r = [c \in Columns[t] |-> r[c]]
  BY DEF SavedRow
<1>. QED
  BY <1>2, <1>3 DEF Clamped

LEMMA DefaultsSaved ==
  ASSUME NEW t \in Table \ {"rules"}
  PROVE  SavedRow(t, Defaults(t)) /\ Defaults(t) \in Held(t)
BY ConfigNumbers DEF Defaults, SavedRow, Held

LEMMA StoredSaved ==
  ASSUME ConfigTyped, NEW t \in Table
  PROVE  SavedRow(t, Stored(t)) /\ Stored(t) \in Held(t)
<1>1. CASE rows[t] = NoRow
  BY <1>1, DefaultsSaved DEF ConfigTyped, Stored
<1>2. CASE rows[t] # NoRow
  BY <1>2 DEF ConfigTyped, Stored, SavedRow, Held
<1>. QED
  BY <1>1, <1>2

(* A step of one handler disturbs the others only on tables it shares with   *)
(* them, and those are in doubt.                                             *)
Others(p) == Proc \ {p}
Mine(p, t) == confused[t]' # {} \/ t \in configuring[p].busy \/ \A q \in Others(p) : t \notin configuring[q].busy

RestTyped ==
    /\ DOMAIN rows = Table /\ rows["rules"] # NoRow
    /\ \A t \in Table : rows[t] = NoRow \/ SavedRow(t, rows[t])
    /\ IsFile(bundle) /\ (bundle["guild"] # NoRow => bundle["rules"] # NoRow)
    /\ DOMAIN wanted = Table /\ \A t \in Table : wanted[t] \in Held(t)
    /\ guildCache = NoRow \/ SavedRow("guild", guildCache)
    /\ confused \in [Table -> SUBSET {"crossed", "defaults", "form", "partial"}]

LEMMA ConfigStep ==
  ASSUME ConfigIInv, NEW p \in Proc, RestTyped',
         DOMAIN configuring' = Proc, \A q \in Others(p) : configuring'[q] = configuring[q],
         Fits(configuring[p])', HasRow(configuring[p])', Swapping(configuring[p])',
         \A t \in Table : confused[t] # {} => confused'[t] # {},
         \A t \in Table : rows'[t] # rows[t] => Mine(p, t),
         \A t \in configuring'[p].busy : Mine(p, t),
         CacheKnows', ConfigKept'
  PROVE  ConfigIInv'
<1>1. ConfigTyped'
  BY DEF ConfigIInv, ConfigTyped, RestTyped, Others
<1>2. Alone'
  <2>. SUFFICES ASSUME NEW q \in Proc, NEW u \in Proc, NEW t \in Table,
                       t \in configuring'[q].busy, t \in configuring'[u].busy, Sure(t)'
                PROVE  q = u
    BY DEF Alone
  <2>1. Sure(t)
    BY DEF Sure
  <2>2. CASE q # p /\ u # p
    BY <2>1, <2>2 DEF ConfigIInv, Alone, Others
  <2>3. CASE q = p /\ u # p
    BY <2>1, <2>3 DEF ConfigIInv, Alone, Others, Mine, Sure
  <2>4. CASE q # p /\ u = p
    BY <2>1, <2>4 DEF ConfigIInv, Alone, Others, Mine, Sure
  <2>. QED
    BY <2>2, <2>3, <2>4
<1>3. ASSUME NEW q \in Others(p) PROVE HasRow(configuring[q])' /\ Swapping(configuring[q])'
  <2>1. \A t \in configuring[q].busy : t \in Table /\ (Sure(t)' => Sure(t) /\ rows'[t] = rows[t])
    <3>. SUFFICES ASSUME NEW t \in configuring[q].busy PROVE t \in Table /\ (Sure(t)' => Sure(t) /\ rows'[t] = rows[t])
      OBVIOUS
    <3>1. t \in Table /\ q \in Proc /\ q # p
      BY <1>3 DEF ConfigIInv, ConfigTyped, Fits, Others
    <3>2. Sure(t)' => Sure(t)
      BY <3>1 DEF Sure
    <3>3. ASSUME Sure(t)', rows'[t] # rows[t] PROVE FALSE
      BY <1>3, <3>1, <3>2, <3>3 DEF Mine, Sure, ConfigIInv, Alone
    <3>. QED
      BY <3>1, <3>2, <3>3
  <2>2. \A t \in configuring[q].busy : Sure(t)' => Stored(t)' = Stored(t)
    BY <2>1 DEF Stored
  <2>3. Fits(configuring[q]) /\ HasRow(configuring[q]) /\ Swapping(configuring[q])
    BY <1>3 DEF ConfigIInv, ConfigTyped, Others
  <2>4. configuring'[q] = configuring[q]
    OBVIOUS
  <2>5. HasRow(configuring[q])'
    <3>1. CASE configuring[q].pc \in {"fill", "page", "cache"}
      BY <2>1, <2>2, <2>3, <2>4, <3>1 DEF HasRow, Fits, BusyFits, RowFits
    <3>2. CASE configuring[q].pc = "save"
      BY <2>1, <2>2, <2>3, <2>4, <3>2 DEF HasRow, Fits, BusyFits
    <3>3. CASE configuring[q].pc = "importCache"
      <4>1. "guild" \in configuring[q].busy
        BY <2>3, <3>3 DEF Fits, BusyFits, RowFits, Whole, Sections, Table
      <4>. QED
        BY <2>1, <2>2, <2>3, <2>4, <3>3, <4>1 DEF HasRow
    <3>. QED
      BY <2>4, <3>1, <3>2, <3>3 DEF HasRow
  <2>6. Swapping(configuring[q])'
    <3>1. CASE configuring[q].pc = "replace"
      <4>1. "rules" \in configuring[q].busy
        BY <2>3, <3>1 DEF Fits, BusyFits, RowFits, Whole, Sections, Table
      <4>. QED
        BY <2>1, <2>3, <2>4, <3>1, <4>1 DEF Swapping
    <3>. QED
      BY <2>4, <3>1 DEF Swapping
  <2>. QED
    BY <2>5, <2>6
<1>. QED
  BY <1>1, <1>2, <1>3 DEF ConfigIInv, Others

---------------------------------------------------------------------------
(* Steps that write to no table.                                             *)
LEMMA ConfigQuiet ==
  ASSUME ConfigIInv, NEW p \in Proc, UNCHANGED <<rows, wanted>>,
         IsFile(bundle)', bundle'["guild"] # NoRow => bundle'["rules"] # NoRow,
         confused' \in [Table -> SUBSET {"crossed", "defaults", "form", "partial"}],
         DOMAIN configuring' = Proc, \A q \in Others(p) : configuring'[q] = configuring[q],
         Fits(configuring[p])', HasRow(configuring[p])', Swapping(configuring[p])',
         \A t \in Table : confused[t] # {} => confused'[t] # {},
         \A t \in configuring'[p].busy : Mine(p, t),
         configuring[p].pc = "replace" => configuring'[p].pc = "replace" \/ confused'["rules"] # {},
         guildCache' = NoRow \/ SavedRow("guild", guildCache'),
         \/ configuring[p].pc \notin {"cache", "importCache"} /\ UNCHANGED guildCache
         \/ confused'["guild"] # {}
         \/ guildCache' = Stored("guild")
  PROVE  ConfigIInv'
<1>1. RestTyped'
  BY DEF ConfigIInv, ConfigTyped, RestTyped, IsFile, SavedRow, Held, Table
<1>2. "guild" \in Table /\ "rules" \in Table /\ \A t \in Table : Stored(t)' = Stored(t) /\ (Sure(t)' => Sure(t))
  BY DEF Stored, Sure, Table
<1>3. CacheKnows'
  <2>. SUFFICES ASSUME Sure("guild")' PROVE CacheKnows'
    BY DEF CacheKnows
  <2>1. CASE configuring[p].pc \notin {"cache", "importCache"} /\ UNCHANGED guildCache
    BY <1>2, <2>1 DEF ConfigIInv, CacheKnows, Others
  <2>2. CASE guildCache' = Stored("guild")
    BY <1>2, <2>2 DEF CacheKnows
  <2>. QED
    BY <2>1, <2>2 DEF Sure
<1>4. ConfigKept'
  <2>. SUFFICES ASSUME NEW t \in Table, confused'[t] = {},
                       ~(t = "rules" /\ \E q \in Proc : configuring'[q].pc = "replace")
                PROVE  Stored(t)' = wanted'[t]
    BY DEF ConfigKept
  <2>1. ~(t = "rules" /\ \E q \in Proc : configuring[q].pc = "replace")
    BY DEF Others
  <2>. QED
    BY <1>2, <2>1 DEF ConfigIInv, ConfigKept
<1>. QED
  BY <1>1, <1>3, <1>4, ConfigStep

LEMMA EntersMarks ==
  ASSUME ConfigIInv, NEW p \in Proc, NEW tables \in SUBSET Table, Enters(p, tables)
  PROVE  /\ confused' \in [Table -> SUBSET {"crossed", "defaults", "form", "partial"}]
         /\ \A t \in Table : confused[t] # {} => confused'[t] # {}
         /\ \A t \in tables : Mine(p, t)
         /\ configuring[p].pc = "idle" /\ configuring[p].busy = {}
<1>1. confused \in [Table -> SUBSET {"crossed", "defaults", "form", "partial"}]
  BY DEF ConfigIInv, ConfigTyped
<1>2. configuring[p].pc = "idle" /\ configuring[p].busy = {}
  BY IdleFits DEF Enters, ConfigIInv, ConfigTyped, Fits
<1>. QED
  BY <1>1, <1>2 DEF Enters, Mine, Others

LEMMA StartsStep ==
  ASSUME ConfigIInv, NEW p \in Proc, NEW it, Starts(p, it), UNCHANGED <<rows, guildCache, bundle, wanted>>,
         Fits(it), it.pc \notin {"fill", "cache", "importCache", "replace"},
         it.pc = "page" => it.row = Stored("guild"),
         it.pc = "save" => DOMAIN it.set = Columns[it.table]
  PROVE  ConfigIInv'
<1>1. it.busy \in SUBSET Table /\ Enters(p, it.busy)
  BY DEF Starts, Fits
<1>2. DOMAIN configuring = Proc
  BY DEF ConfigIInv, ConfigTyped
<1>3. configuring' = [configuring EXCEPT ![p] = it]
  BY DEF Starts
<1>4. DOMAIN configuring' = Proc /\ configuring'[p] = it /\ \A q \in Others(p) : configuring'[q] = configuring[q]
  BY <1>2, <1>3 DEF Others
<1>5. Fits(configuring[p])'
  BY <1>4 DEF Fits, RowFits, LeftFits, BusyFits, IsFile, Whole, Held, SavedRow, Sections, ToRules
<1>6. HasRow(configuring[p])' /\ Swapping(configuring[p])'
  BY <1>4 DEF HasRow, Swapping, Stored
<1>7. IsFile(bundle)' /\ (bundle'["guild"] # NoRow => bundle'["rules"] # NoRow) /\ (guildCache' = NoRow \/ SavedRow("guild", guildCache'))
  BY DEF ConfigIInv, ConfigTyped, IsFile, SavedRow
<1>8. configuring[p].pc = "idle"
  BY <1>1, EntersMarks
<1>. QED
  BY <1>1, <1>4, <1>5, <1>6, <1>7, <1>8, EntersMarks, ConfigQuiet

(* A command is called, to read a row or to write one of its own.            *)
LEMMA AskFits ==
  ASSUME NEW t \in Table \ {"rules"}, NEW set, set \in [DOMAIN set -> Nat], DOMAIN set \subseteq Columns[t],
         NEW it, it = [Unconfigured EXCEPT !.pc = "load", !.table = t, !.set = set, !.busy = {t}]
  PROVE  Fits(it) /\ it.pc = "load"
<1>1. <<>> \in Seq(Table)
  BY EmptySeq
<1>2. /\ DOMAIN it = Piece /\ it.pc = "load" /\ it.table = t /\ it.set = set /\ it.busy = {t}
      /\ it.left = <<>> /\ it.old = {} /\ it.new = {}
  BY DEF Unconfigured, Piece
<1>3. RowFits(it)
  BY <1>2 DEF RowFits
<1>4. LeftFits(it)
  BY <1>1, <1>2 DEF LeftFits
<1>5. BusyFits(it)
  BY <1>2 DEF BusyFits
<1>. QED
  BY <1>2, <1>3, <1>4, <1>5 DEF Fits

LEMMA AsksStep ==
  ASSUME ConfigIInv, NEW p \in Proc, NEW t \in Table \ {"rules"}, NEW set,
         set \in [DOMAIN set -> Nat], DOMAIN set \subseteq Columns[t], Asks(p, "load", t, set)
  PROVE  ConfigIInv'
<1>. DEFINE it == [Unconfigured EXCEPT !.pc = "load", !.table = t, !.set = set, !.busy = {t}]
<1>1. Fits(it) /\ it.pc = "load"
  BY AskFits
<1>2. Starts(p, it) /\ UNCHANGED <<rows, guildCache, bundle, wanted>>
  BY DEF Asks
<1>. HIDE DEF it
<1>. QED
  BY <1>1, <1>2, StartsStep

LEMMA OneColumn ==
  ASSUME NEW c, NEW v \in Nat
  PROVE  Only(c, v) \in [DOMAIN Only(c, v) -> Nat] /\ DOMAIN Only(c, v) = {c}
BY DEF Only

LEMMA CommandsStep ==
  ASSUME ConfigIInv, NEW p \in Proc,
         \/ SetGuildConfig(p) \/ SetServerPrefix(p) \/ ResolvePrefix(p) \/ SetProtection(p) \/ SetHoneypot(p)
         \/ SetFilter(p) \/ SetAntinuke(p) \/ SetWhitelist(p) \/ StarboardOff(p)
  PROVE  ConfigIInv'
<1>1. ASSUME NEW t \in Table \ {"rules"}, NEW c \in Columns[t], NEW v \in Nat, Asks(p, "load", t, Only(c, v))
      PROVE  ConfigIInv'
  <2>. DEFINE set == Only(c, v)
  <2>1. DOMAIN set = {c} /\ set \in [DOMAIN set -> Nat]
    BY OneColumn
  <2>2. DOMAIN set \subseteq Columns[t]
    BY <2>1
  <2>3. Asks(p, "load", t, set)
    BY <1>1
  <2>. HIDE DEF set
  <2>. QED
    BY <2>1, <2>2, <2>3, AsksStep
<1>2. ASSUME NEW t \in Table \ {"rules"}, NEW cs \in SUBSET Columns[t], AsksOne(p, t, cs)
      PROVE  ConfigIInv'
  BY <1>1, <1>2, ConfigNumbers DEF AsksOne
<1>3. ASSUME NEW t \in Table \ {"rules"}, NEW c \in Columns[t], AsksList(p, t, c)
      PROVE  ConfigIInv'
  BY <1>1, <1>3 DEF AsksList
<1>4. CASE ResolvePrefix(p)
  <2>1. DOMAIN <<>> = {} /\ <<>> \in [{} -> Nat]
    OBVIOUS
  <2>. QED
    BY <1>4, <2>1, AsksStep DEF ResolvePrefix, Table
<1>5. CASE SetGuildConfig(p) \/ SetServerPrefix(p) \/ SetProtection(p) \/ SetAntinuke(p)
  <2>1. /\ {"guild", "protection", "antinuke"} \subseteq Table \ {"rules"}
        /\ {"prefix"} \in SUBSET Columns["guild"] /\ Columns["protection"] \cap {"msgs"} \in SUBSET Columns["protection"]
        /\ Columns["antinuke"] \cap {"score"} \in SUBSET Columns["antinuke"]
    BY ConfigNumbers DEF Table
  <2>. QED
    BY <1>2, <1>5, <2>1 DEF SetGuildConfig, SetServerPrefix, SetProtection, SetAntinuke
<1>6. CASE SetHoneypot(p) \/ SetFilter(p) \/ SetWhitelist(p)
  BY <1>3, <1>6, ConfigNumbers DEF SetHoneypot, SetFilter, SetWhitelist, Table
<1>7. CASE StarboardOff(p)
  <2>1. "starboard" \in Table \ {"rules"} /\ "enabled" \in Columns["starboard"] /\ 0 \in Nat
    BY ConfigNumbers DEF Table
  <2>. QED
    BY <1>1, <1>7, <2>1 DEF StarboardOff
<1>. QED
  BY <1>4, <1>5, <1>6, <1>7

LEMMA StarboardSetStep ==
  ASSUME ConfigIInv, NEW p \in Proc, StarboardSet(p)
  PROVE  ConfigIInv'
<1>1. PICK v \in Values \cup {3} :
        /\ Starts(p, [Unconfigured EXCEPT !.pc = "save", !.table = "starboard", !.busy = {"starboard"},
                        !.set = [channel |-> 1, threshold |-> v, enabled |-> 1],
                        !.row = Defaults("starboard")])
        /\ UNCHANGED <<rows, guildCache, bundle, wanted>>
  BY DEF StarboardSet
<1>. DEFINE set == [channel |-> 1, threshold |-> v, enabled |-> 1]
            it == [Unconfigured EXCEPT !.pc = "save", !.table = "starboard", !.busy = {"starboard"},
                     !.set = set, !.row = Defaults("starboard")]
<1>2. v \in Nat /\ "starboard" \in Table \ {"rules"} /\ Columns["starboard"] = {"channel", "threshold", "enabled"}
  BY ConfigNumbers DEF Table
<1>3. DOMAIN set = Columns["starboard"] /\ set \in [DOMAIN set -> Nat]
  BY <1>2
<1>4. Defaults("starboard") \in Held("starboard")
  BY <1>2, DefaultsSaved
<1>. HIDE DEF set
<1>5. /\ DOMAIN it = Piece /\ it.pc = "save" /\ it.table = "starboard" /\ it.set = set
      /\ it.row = Defaults("starboard") /\ it.busy = {"starboard"} /\ it.left = <<>> /\ it.old = {} /\ it.new = {}
  BY DEF Unconfigured, Piece
<1>6. Starts(p, it)
  BY <1>1 DEF set
<1>. HIDE DEF it
<1>7. Fits(it) /\ it.pc = "save" /\ DOMAIN it.set = Columns[it.table]
  <2>1. <<>> \in Seq(Table)
    BY EmptySeq
  <2>. QED
    BY <1>2, <1>3, <1>4, <1>5, <2>1 DEF Fits, RowFits, LeftFits, BusyFits, Piece
<1>. QED
  BY <1>1, <1>6, <1>7, StartsStep

LEMMA GuildPageStep ==
  ASSUME ConfigIInv, NEW p \in Proc, GuildPage(p)
  PROVE  ConfigIInv'
<1>. DEFINE it == [Unconfigured EXCEPT !.pc = "page", !.row = Stored("guild"), !.busy = {"guild"}]
<1>1. /\ DOMAIN it = Piece /\ it.pc = "page" /\ it.table = "guild" /\ it.set = <<>>
      /\ it.row = Stored("guild") /\ it.busy = {"guild"} /\ it.left = <<>> /\ it.old = {} /\ it.new = {}
  BY DEF Unconfigured, Piece
<1>2. Starts(p, it) /\ UNCHANGED <<rows, guildCache, bundle, wanted>>
  BY DEF GuildPage
<1>3. "guild" \in Table \ {"rules"} /\ SavedRow("guild", Stored("guild"))
  BY StoredSaved DEF Table, ConfigIInv
<1>. HIDE DEF it
<1>4. Fits(it) /\ it.pc = "page" /\ it.row = Stored("guild")
  <2>1. <<>> \in Seq(Table) /\ DOMAIN <<>> = {} /\ <<>> \in [{} -> Nat]
    BY EmptySeq
  <2>. QED
    BY <1>1, <1>3, <2>1 DEF Fits, RowFits, LeftFits, BusyFits, Piece
<1>. QED
  BY <1>2, <1>4, StartsStep

---------------------------------------------------------------------------
(* What the file has, in the order it is read in and written back.           *)
LEMMA Following ==
  ASSUME NEW t \in Table, NEW s, ToRules(s)
  PROVE  ToRules(<<t>> \o s) /\ \A i \in 1..Len(<<t>> \o s) : (<<t>> \o s)[i] = t \/ \E j \in 1..Len(s) : (<<t>> \o s)[i] = s[j]
<1>1. <<t>> \in Seq(Table) /\ s \in Seq(Table) /\ Len(<<t>>) = 1 /\ <<t>>[1] = t
  BY DEF ToRules
<1>2. Len(s) \in Nat \ {0}
  BY EmptySeq DEF ToRules
<1>. DEFINE r == <<t>> \o s
<1>3. /\ r \in Seq(Table) /\ Len(r) = Len(s) + 1
      /\ \A i \in 1..Len(s) + 1 : r[i] = IF i <= 1 THEN <<t>>[i] ELSE s[i - 1]
  BY <1>1, <1>2, ConcatProperties
<1>. HIDE DEF r
<1>4. r[Len(r)] = s[Len(s)] /\ r # <<>>
  BY <1>2, <1>3
<1>5. ASSUME NEW i \in 1..Len(r) PROVE r[i] = t \/ \E j \in 1..Len(s) : r[i] = s[j]
  <2>1. CASE i = 1
    BY <1>1, <1>2, <1>3, <2>1
  <2>2. CASE i # 1
    <3>1. i - 1 \in 1..Len(s) /\ r[i] = s[i - 1]
      BY <1>2, <1>3, <2>2
    <3>. QED
      BY <3>1
  <2>. QED
    BY <2>1, <2>2
<1>6. ToRules(r) /\ \A i \in 1..Len(r) : r[i] = t \/ \E j \in 1..Len(s) : r[i] = s[j]
  BY <1>3, <1>4, <1>5 DEF ToRules
<1>. QED
  BY <1>6 DEF r

LEMMA PresentFits ==
  ASSUME NEW f, Whole(f)
  PROVE  ToRules(Present(f)) /\ \A i \in 1..Len(Present(f)) : f[Present(f)[i]] # NoRow
<1>. DEFINE Good(s) == ToRules(s) /\ \A i \in 1..Len(s) : f[s[i]] # NoRow
<1>1. ASSUME NEW t \in Table, NEW s, Good(s) PROVE Good(Section(f, t) \o s)
  <2>1. CASE f[t] = NoRow
    BY <1>1, <2>1, ConcatEmptySeq DEF Section, ToRules
  <2>2. CASE f[t] # NoRow
    <3>1. Section(f, t) = <<t>>
      BY <2>2 DEF Section
    <3>. QED
      BY <1>1, <2>2, <3>1, Following
  <2>. QED
    BY <2>1, <2>2
<1>2. Good(Section(f, "rules"))
  <2>1. Section(f, "rules") = <<"rules">> /\ "rules" \in Table
    BY DEF Whole, Section, Table
  <2>2. <<"rules">> \in Seq(Table) /\ Len(<<"rules">>) = 1 /\ <<"rules">>[1] = "rules" /\ <<"rules">> # <<>>
    BY <2>1
  <2>. QED
    BY <2>1, <2>2 DEF Whole, ToRules
<1>3. \A t \in Table : Section(f, t) \in Seq(Table)
  BY EmptySeq DEF Section
<1>4. ASSUME NEW a \in Seq(Table), NEW b \in Seq(Table), NEW c \in Seq(Table) PROVE (a \o b) \o c = a \o (b \o c)
  BY ConcatAssociative
<1>5. {"guild", "protection", "starboard", "rules"} \subseteq Table
  BY DEF Table
<1>. DEFINE a == Section(f, "guild") b == Section(f, "protection") c == Section(f, "starboard") d == Section(f, "rules")
<1>6. a \in Seq(Table) /\ b \in Seq(Table) /\ c \in Seq(Table) /\ d \in Seq(Table) /\ a \o b \in Seq(Table)
  BY <1>3, <1>5, ConcatProperties
<1>7. ((a \o b) \o c) \o d = a \o (b \o (c \o d))
  <2>1. ((a \o b) \o c) \o d = (a \o b) \o (c \o d)
    BY <1>4, <1>6
  <2>2. c \o d \in Seq(Table)
    BY <1>6, ConcatProperties
  <2>. QED
    BY <1>4, <1>6, <2>1, <2>2
<1>8. Good(a \o (b \o (c \o d)))
  BY <1>1, <1>2, <1>5
<1>. QED
  BY <1>7, <1>8 DEF Present

LEMMA ExportGuildStep ==
  ASSUME ConfigIInv, NEW p \in Proc, ExportGuild(p)
  PROVE  ConfigIInv'
<1>. DEFINE left == <<"protection", "starboard", "rules">>
            it == [Unconfigured EXCEPT !.pc = "load", !.busy = {"guild"}, !.left = left]
<1>1. left \in Seq(Table) /\ ToRules(left)
  BY DEF ToRules, Table
<1>2. Starts(p, it) /\ UNCHANGED <<rows, guildCache, bundle, wanted>>
  BY DEF ExportGuild
<1>. HIDE DEF left
<1>3. /\ DOMAIN it = Piece /\ it.pc = "load" /\ it.table = "guild" /\ it.set = <<>>
      /\ it.busy = {"guild"} /\ it.left = left /\ it.old = {} /\ it.new = {}
  BY DEF Unconfigured, Piece
<1>. HIDE DEF it
<1>4. Fits(it)
  <2>1. DOMAIN <<>> = {} /\ <<>> \in [{} -> Nat]
    OBVIOUS
  <2>. QED
    BY <1>1, <1>3, <2>1 DEF Fits, RowFits, LeftFits, BusyFits, Table
<1>. QED
  BY <1>2, <1>3, <1>4, StartsStep

LEMMA ImportGuildStep ==
  ASSUME ConfigIInv, NEW p \in Proc, ImportGuild(p)
  PROVE  ConfigIInv'
<1>. DEFINE left == Present(bundle)
            busy == {t \in Table : bundle[t] # NoRow}
            it == [Unconfigured EXCEPT !.pc = "import", !.row = bundle, !.left = left, !.busy = busy]
<1>1. Whole(bundle)
  BY DEF ConfigIInv, ConfigTyped, ImportGuild, Whole
<1>2. ToRules(left) /\ left \in Seq(Table) /\ \A i \in 1..Len(left) : bundle[left[i]] # NoRow
  BY <1>1, PresentFits DEF ToRules
<1>3. Starts(p, it) /\ UNCHANGED <<rows, guildCache, bundle, wanted>>
  BY DEF ImportGuild
<1>4. busy = Sections(bundle) /\ busy \subseteq Table
  BY DEF Sections
<1>. HIDE DEF left, busy
<1>5. /\ DOMAIN it = Piece /\ it.pc = "import" /\ it.table = "guild" /\ it.set = <<>> /\ it.row = bundle
      /\ it.busy = busy /\ it.left = left /\ it.old = {} /\ it.new = {}
  BY DEF Unconfigured, Piece
<1>. HIDE DEF it
<1>6. Fits(it)
  <2>1. DOMAIN <<>> = {} /\ <<>> \in [{} -> Nat]
    OBVIOUS
  <2>. QED
    BY <1>1, <1>2, <1>4, <1>5, <2>1 DEF Fits, RowFits, LeftFits, BusyFits, Table
<1>. QED
  BY <1>3, <1>5, <1>6, StartsStep

---------------------------------------------------------------------------
(* A handler goes on, or ends, and no table is written.                      *)
Doubts == confused' \in [Table -> SUBSET {"crossed", "defaults", "form", "partial"}]
          /\ \A t \in Table : confused[t] # {} => confused'[t] # {}

LEMMA NoDoubt == ConfigIInv /\ UNCHANGED confused => Doubts
BY DEF ConfigIInv, ConfigTyped, Doubts

LEMMA Doubted ==
  ASSUME ConfigIInv, NEW t \in Table, NEW why \in {"crossed", "defaults", "form", "partial"}, Confuse(t, why)
  PROVE  Doubts /\ confused'[t] # {}
BY DEF ConfigIInv, ConfigTyped, Doubts, Confuse

LEMMA ConfigGoes ==
  ASSUME ConfigIInv, NEW p \in Proc, NEW it, configuring' = [configuring EXCEPT ![p] = it],
         Fits(it), it.busy \subseteq configuring[p].busy,
         HasRow(configuring[p])', Swapping(configuring[p])',
         UNCHANGED <<rows, bundle, wanted>>, Doubts,
         configuring[p].pc = "replace" => it.pc = "replace" \/ confused'["rules"] # {},
         guildCache' = NoRow \/ SavedRow("guild", guildCache'),
         \/ configuring[p].pc \notin {"cache", "importCache"} /\ UNCHANGED guildCache
         \/ confused'["guild"] # {}
         \/ guildCache' = Stored("guild")
  PROVE  ConfigIInv'
<1>1. DOMAIN configuring' = Proc /\ configuring'[p] = it /\ \A q \in Others(p) : configuring'[q] = configuring[q]
  BY DEF Others, ConfigIInv, ConfigTyped
<1>2. Fits(configuring[p])'
  BY <1>1 DEF Fits, RowFits, LeftFits, BusyFits, IsFile, Whole, Held, SavedRow, Sections, ToRules
<1>3. \A t \in configuring'[p].busy : Mine(p, t)
  BY <1>1 DEF Mine
<1>4. IsFile(bundle)' /\ (bundle'["guild"] # NoRow => bundle'["rules"] # NoRow)
  BY DEF ConfigIInv, ConfigTyped, IsFile, SavedRow
<1>. QED
  BY <1>1, <1>2, <1>3, <1>4, ConfigQuiet DEF Doubts

LEMMA ConfigOver ==
  ASSUME ConfigIInv, NEW p \in Proc, ConfigIdle(p),
         UNCHANGED <<rows, bundle, wanted>>, Doubts,
         configuring[p].pc = "replace" => confused'["rules"] # {},
         \/ configuring[p].pc \notin {"cache", "importCache"} /\ UNCHANGED guildCache
         \/ guildCache' = NoRow \/ SavedRow("guild", guildCache'),
         \/ configuring[p].pc \notin {"cache", "importCache"} /\ UNCHANGED guildCache
         \/ confused'["guild"] # {}
         \/ guildCache' = Stored("guild")
  PROVE  ConfigIInv'
<1>1. configuring' = [configuring EXCEPT ![p] = Unconfigured] /\ configuring'[p] = Unconfigured
  BY DEF ConfigIdle, ConfigIInv, ConfigTyped
<1>2. HasRow(configuring[p])' /\ Swapping(configuring[p])'
  BY <1>1, IdleFits DEF HasRow, Swapping
<1>3. guildCache' = NoRow \/ SavedRow("guild", guildCache')
  BY DEF ConfigIInv, ConfigTyped
<1>. QED
  BY <1>1, <1>2, <1>3, IdleFits, ConfigGoes

(* A row has been read, or stands for one.                                   *)
LEMMA LoadedStep ==
  ASSUME ConfigIInv, NEW p \in Proc, NEW row, configuring[p].pc \in {"load", "fill"},
         SavedRow(configuring[p].table, row), confused'[configuring[p].table] = {} => row = Stored(configuring[p].table),
         Loaded(p, row), UNCHANGED <<rows, bundle, wanted>>, Doubts,
         guildCache' = NoRow \/ SavedRow("guild", guildCache'),
         UNCHANGED guildCache \/ confused'["guild"] # {} \/ guildCache' = Stored("guild")
  PROVE  ConfigIInv'
<1>. DEFINE it == configuring[p]
<1>1. Fits(it)
  BY DEF ConfigIInv, ConfigTyped
<1>2. DOMAIN configuring = Proc
  BY DEF ConfigIInv, ConfigTyped
<1>3. CASE it.left # <<>>
  <2>. DEFINE file == [t \in Table |-> IF t = "guild" THEN row ELSE NoRow]
              next == [it EXCEPT !.pc = "export", !.busy = {}, !.row = file]
  <2>1. configuring' = [configuring EXCEPT ![p] = next]
    BY <1>3 DEF Loaded
  <2>2. it.table = "guild" /\ ToRules(it.left)
    BY <1>1, <1>3 DEF Fits, LeftFits
  <2>3. IsFile(file)
    BY <2>2 DEF IsFile, Table
  <2>4. /\ DOMAIN next = Piece /\ next.pc = "export" /\ next.table = it.table /\ next.set = it.set /\ next.row = file
        /\ next.busy = {} /\ next.left = it.left /\ next.old = it.old /\ next.new = it.new
    <3>. HIDE DEF file
    <3>. QED
      BY <1>1 DEF Fits, Piece
  <2>. HIDE DEF next, file
  <2>5. Fits(next)
    BY <1>1, <2>2, <2>3, <2>4 DEF Fits, RowFits, LeftFits, BusyFits
  <2>6. configuring'[p] = next
    BY <1>2, <2>1
  <2>7. HasRow(configuring[p])' /\ Swapping(configuring[p])'
    BY <2>4, <2>6 DEF HasRow, Swapping
  <2>. QED
    BY <2>1, <2>4, <2>5, <2>7, ConfigGoes
<1>4. CASE it.left = <<>> /\ NothingToDo(it, row)
  <2>1. ConfigIdle(p)
    BY <1>4 DEF Loaded, ConfigIdle
  <2>. QED
    BY <2>1, ConfigOver
<1>5. CASE it.left = <<>> /\ ~NothingToDo(it, row)
  <2>. DEFINE next == [it EXCEPT !.pc = "save", !.row = row]
  <2>1. configuring' = [configuring EXCEPT ![p] = next]
    BY <1>5 DEF Loaded
  <2>2. /\ DOMAIN next = Piece /\ next.pc = "save" /\ next.table = it.table /\ next.set = it.set /\ next.row = row
        /\ next.busy = it.busy /\ next.left = it.left /\ next.old = it.old /\ next.new = it.new
    BY <1>1 DEF Fits, Piece
  <2>. HIDE DEF next
  <2>3. Fits(next)
    BY <1>1, <1>5, <2>2 DEF Fits, RowFits, LeftFits, BusyFits, SavedRow, Held
  <2>4. configuring'[p] = next
    BY <1>2, <2>1
  <2>5. HasRow(configuring[p])' /\ Swapping(configuring[p])'
    BY <2>2, <2>4 DEF HasRow, Swapping, Stored, Sure
  <2>. QED
    BY <2>1, <2>2, <2>3, <2>5, ConfigGoes
<1>. QED
  BY <1>3, <1>4, <1>5

(* Nobody else is about to fill the cache while the table is sure.           *)
LEMMA CacheRead ==
  ASSUME ConfigIInv, NEW p \in Proc, "guild" \in configuring[p].busy, configuring[p].pc \notin {"cache", "importCache"},
         Sure("guild")
  PROVE  guildCache \in {NoRow, Stored("guild")}
<1>. SUFFICES ASSUME NEW q \in Proc, configuring[q].pc \in {"cache", "importCache"} PROVE FALSE
  BY DEF ConfigIInv, CacheKnows
<1>1. Fits(configuring[q]) /\ "guild" \in Table
  BY DEF ConfigIInv, ConfigTyped, Table
<1>2. "guild" \in configuring[q].busy
  BY <1>1 DEF Fits, BusyFits, RowFits, Whole, Sections
<1>. QED
  BY <1>1, <1>2 DEF ConfigIInv, Alone

LEMMA LoadRowStep ==
  ASSUME ConfigIInv, NEW p \in Proc, LoadRow(p)
  PROVE  ConfigIInv'
<1>. DEFINE it == configuring[p]
<1>1. Fits(it) /\ it.pc = "load" /\ it.busy = {it.table} /\ it.table \in Table \ {"rules"}
  BY DEF ConfigIInv, ConfigTyped, LoadRow, Fits, BusyFits
<1>2. UNCHANGED <<rows, guildCache, bundle, wanted, confused>> /\ Doubts
  BY NoDoubt DEF LoadRow
<1>3. guildCache = NoRow \/ SavedRow("guild", guildCache)
  BY DEF ConfigIInv, ConfigTyped
<1>4. SavedRow(it.table, Stored(it.table))
  BY <1>1, StoredSaved DEF ConfigIInv
<1>5. CASE it.table = "guild" /\ guildCache # NoRow /\ Loaded(p, guildCache)
  <2>1. Sure("guild") => guildCache = Stored("guild")
    BY <1>1, <1>5, CacheRead
  <2>2. SavedRow(it.table, guildCache) /\ (confused'[it.table] = {} => guildCache = Stored(it.table))
    BY <1>2, <1>3, <1>5, <2>1 DEF Sure
  <2>. QED
    BY <1>1, <1>2, <1>3, <1>5, <2>2, LoadedStep
<1>6. CASE it.table # "guild" /\ Loaded(p, Stored(it.table))
  BY <1>1, <1>2, <1>3, <1>4, <1>6, LoadedStep
<1>7. CASE configuring' = [configuring EXCEPT ![p].pc = "fill", ![p].row = Stored("guild")] /\ it.table = "guild"
  <2>. DEFINE next == [it EXCEPT !.pc = "fill", !.row = Stored("guild")]
  <2>1. configuring' = [configuring EXCEPT ![p] = next] /\ configuring'[p] = next
    BY <1>7 DEF ConfigIInv, ConfigTyped
  <2>2. /\ DOMAIN next = Piece /\ next.pc = "fill" /\ next.table = it.table /\ next.set = it.set /\ next.row = Stored("guild")
        /\ next.busy = it.busy /\ next.left = it.left /\ next.old = it.old /\ next.new = it.new
    BY <1>1 DEF Fits, Piece
  <2>. HIDE DEF next
  <2>3. Fits(next)
    BY <1>1, <1>4, <1>7, <2>2 DEF Fits, RowFits, LeftFits, BusyFits
  <2>4. HasRow(configuring[p])' /\ Swapping(configuring[p])'
    BY <1>2, <2>1, <2>2 DEF HasRow, Swapping, Stored
  <2>. QED
    BY <1>1, <1>2, <1>3, <2>1, <2>2, <2>3, <2>4, ConfigGoes
<1>. QED
  BY <1>1, <1>5, <1>6, <1>7 DEF LoadRow

LEMMA LoadFailsStep ==
  ASSUME ConfigIInv, NEW p \in Proc, LoadFails(p)
  PROVE  ConfigIInv'
<1>. DEFINE it == configuring[p]
<1>1. Fits(it) /\ it.pc = "load" /\ it.table \in Table \ {"rules"}
  BY DEF ConfigIInv, ConfigTyped, LoadFails, Fits
<1>2. UNCHANGED <<rows, guildCache, bundle, wanted>> /\ (guildCache' = NoRow \/ SavedRow("guild", guildCache'))
  BY DEF LoadFails, ConfigIInv, ConfigTyped
<1>3. CASE it.table \in {"protection", "antinuke"}
  <2>1. Doubts /\ (confused'[it.table] = {} => Defaults(it.table) = Stored(it.table))
    <3>1. CASE rows[it.table] # NoRow
      <4>1. Confuse(it.table, "defaults")
        BY <1>3, <3>1 DEF LoadFails
      <4>. QED
        BY <1>1, <4>1, Doubted DEF Sure
    <3>2. CASE rows[it.table] = NoRow
      <4>1. UNCHANGED confused
        BY <1>3, <3>2 DEF LoadFails
      <4>. QED
        BY <3>2, <4>1, NoDoubt DEF Stored
    <3>. QED
      BY <3>1, <3>2
  <2>2. SavedRow(it.table, Defaults(it.table)) /\ Loaded(p, Defaults(it.table))
    BY <1>1, <1>3, DefaultsSaved DEF LoadFails
  <2>. QED
    BY <1>1, <1>2, <2>1, <2>2, LoadedStep
<1>4. CASE it.table \notin {"protection", "antinuke"}
  <2>1. ConfigIdle(p) /\ Doubts
    BY <1>4, NoDoubt DEF LoadFails
  <2>. QED
    BY <1>1, <1>2, <2>1, ConfigOver
<1>. QED
  BY <1>3, <1>4

LEMMA FillGuildStep ==
  ASSUME ConfigIInv, NEW p \in Proc, FillGuild(p)
  PROVE  ConfigIInv'
<1>. DEFINE it == configuring[p]
<1>1. Fits(it) /\ it.pc = "fill" /\ it.table = "guild" /\ SavedRow("guild", it.row)
  BY DEF ConfigIInv, ConfigTyped, FillGuild, Fits, RowFits
<1>2. UNCHANGED <<rows, bundle, wanted, confused>> /\ Doubts /\ guildCache' = it.row /\ Loaded(p, it.row)
  BY NoDoubt DEF FillGuild
<1>3. Sure("guild")' => it.row = Stored("guild")
  BY <1>1, <1>2 DEF ConfigIInv, HasRow, Sure
<1>4. confused'["guild"] # {} \/ guildCache' = Stored("guild")
  BY <1>2, <1>3 DEF Sure
<1>5. confused'[it.table] = {} => it.row = Stored(it.table)
  BY <1>1, <1>3 DEF Sure
<1>6. SavedRow(it.table, it.row) /\ (guildCache' = NoRow \/ SavedRow("guild", guildCache'))
  BY <1>1, <1>2
<1>. QED
  BY <1>1, <1>2, <1>4, <1>5, <1>6, LoadedStep

LEMMA CacheGuildStep ==
  ASSUME ConfigIInv, NEW p \in Proc, CacheGuild(p)
  PROVE  ConfigIInv'
<1>. DEFINE it == configuring[p]
<1>1. Fits(it) /\ it.pc = "cache" /\ SavedRow("guild", it.row)
  BY DEF ConfigIInv, ConfigTyped, CacheGuild, Fits, RowFits
<1>2. UNCHANGED <<rows, bundle, wanted, confused>> /\ Doubts /\ guildCache' = it.row /\ ConfigIdle(p)
  BY NoDoubt DEF CacheGuild
<1>3. Sure("guild")' => it.row = Stored("guild")
  BY <1>1, <1>2 DEF ConfigIInv, HasRow, Sure
<1>. QED
  BY <1>1, <1>2, <1>3, ConfigOver DEF Sure

LEMMA ImportCacheStep ==
  ASSUME ConfigIInv, NEW p \in Proc, ImportCache(p)
  PROVE  ConfigIInv'
<1>. DEFINE it == configuring[p]
            row == Clamped(it.row["guild"])
            next == [it EXCEPT !.pc = "import"]
<1>1. Fits(it) /\ it.pc = "importCache" /\ Whole(it.row)
  BY DEF ConfigIInv, ConfigTyped, ImportCache, Fits, RowFits
<1>2. UNCHANGED <<rows, bundle, wanted, confused>> /\ Doubts /\ guildCache' = row
  BY NoDoubt DEF ImportCache
<1>3. SavedRow("guild", row)
  <2>1. SavedRow("guild", it.row["guild"]) /\ "guild" \in Table \ {"rules"}
    BY <1>1 DEF Whole, IsFile, Table
  <2>. QED
    BY <2>1, ClampKeeps
<1>4. Sure("guild")' => row = Stored("guild")
  BY <1>1, <1>2 DEF ConfigIInv, HasRow, Sure
<1>. HIDE DEF row
<1>5. configuring' = [configuring EXCEPT ![p] = next] /\ configuring'[p] = next
  BY DEF ImportCache, ConfigGoto, ConfigIInv, ConfigTyped
<1>6. /\ DOMAIN next = Piece /\ next.pc = "import" /\ next.table = it.table /\ next.set = it.set /\ next.row = it.row
      /\ next.busy = it.busy /\ next.left = it.left /\ next.old = it.old /\ next.new = it.new
  BY <1>1 DEF Fits, Piece
<1>. HIDE DEF next
<1>7. Fits(next)
  BY <1>1, <1>6 DEF Fits, RowFits, LeftFits, BusyFits
<1>8. HasRow(configuring[p])' /\ Swapping(configuring[p])'
  BY <1>5, <1>6 DEF HasRow, Swapping
<1>. QED
  BY <1>1, <1>2, <1>3, <1>4, <1>5, <1>6, <1>7, <1>8, ConfigGoes DEF Sure

LEMMA GuildPageLeftStep ==
  ASSUME ConfigIInv, NEW p \in Proc, GuildPageLeft(p)
  PROVE  ConfigIInv'
BY NoDoubt, ConfigOver DEF GuildPageLeft

LEMMA GuildFormStep ==
  ASSUME ConfigIInv, NEW p \in Proc, GuildForm(p)
  PROVE  ConfigIInv'
<1>. DEFINE it == configuring[p]
<1>1. PICK v \in Values :
        configuring' = [configuring EXCEPT ![p].pc = "save", ![p].row["jail_role"] = 0, ![p].set = Only("prefix", v)]
  BY DEF GuildForm
<1>. DEFINE row == [it.row EXCEPT !["jail_role"] = 0]
            set == Only("prefix", v)
            next == [it EXCEPT !.pc = "save", !.row = row, !.set = set]
<1>2. Fits(it) /\ it.pc = "page" /\ it.table = "guild" /\ SavedRow("guild", it.row)
  BY DEF ConfigIInv, ConfigTyped, GuildForm, Fits, RowFits
<1>3. UNCHANGED <<rows, guildCache, bundle, wanted>> /\ (guildCache' = NoRow \/ SavedRow("guild", guildCache'))
  BY DEF GuildForm, ConfigIInv, ConfigTyped
<1>4. Doubts /\ (Sure("guild")' => Sure("guild") /\ it.row["jail_role"] = 0)
  BY NoDoubt, Doubted DEF GuildForm, Sure, Doubts, Table
<1>5. row \in Held("guild") /\ (it.row["jail_role"] = 0 => row = it.row)
  BY <1>2, ConfigNumbers DEF SavedRow, Held
<1>6. DOMAIN set = {"prefix"} /\ set \in [DOMAIN set -> Nat] /\ DOMAIN set \subseteq Columns["guild"]
  <2>1. v \in Nat /\ "prefix" \in Columns["guild"]
    BY ConfigNumbers
  <2>2. DOMAIN set = {"prefix"} /\ set \in [DOMAIN set -> Nat]
    BY <2>1, OneColumn
  <2>. QED
    BY <2>1, <2>2
<1>7. configuring' = [configuring EXCEPT ![p] = next] /\ configuring'[p] = next
  BY <1>1, <1>2 DEF ConfigIInv, ConfigTyped, Fits, Piece
<1>. HIDE DEF row, set
<1>8. /\ DOMAIN next = Piece /\ next.pc = "save" /\ next.table = it.table /\ next.set = set /\ next.row = row
      /\ next.busy = it.busy /\ next.left = it.left /\ next.old = it.old /\ next.new = it.new
  BY <1>2 DEF Fits, Piece
<1>. HIDE DEF next
<1>9. Fits(next)
  BY <1>2, <1>5, <1>6, <1>8 DEF Fits, RowFits, LeftFits, BusyFits
<1>10. HasRow(configuring[p])' /\ Swapping(configuring[p])'
  <2>1. Sure("guild")' => row = Stored("guild")'
    BY <1>2, <1>3, <1>4, <1>5 DEF ConfigIInv, HasRow, Stored
  <2>. QED
    BY <1>2, <1>7, <1>8, <2>1 DEF HasRow, Swapping
<1>. QED
  BY <1>2, <1>3, <1>4, <1>7, <1>8, <1>9, <1>10, ConfigGoes

---------------------------------------------------------------------------
(* A table is written.                                                       *)
LEMMA ConfigWrites ==
  ASSUME ConfigIInv, NEW p \in Proc, NEW t0 \in Table, NEW r, NEW w, Doubts, Mine(p, t0),
         rows' = [rows EXCEPT ![t0] = r] \/ (UNCHANGED rows /\ r = rows[t0]), SavedRow(t0, r),
         wanted' = [wanted EXCEPT ![t0] = w] \/ (UNCHANGED wanted /\ w = wanted[t0]), w \in Held(t0),
         UNCHANGED <<guildCache, bundle>>,
         DOMAIN configuring' = Proc, \A q \in Others(p) : configuring'[q] = configuring[q],
         configuring'[p].busy \subseteq configuring[p].busy,
         Fits(configuring[p])', HasRow(configuring[p])', Swapping(configuring[p])',
         configuring[p].pc \notin {"cache", "importCache"},
         t0 = "guild" => configuring'[p].pc \in {"cache", "importCache"},
         configuring[p].pc = "replace" => t0 = "rules",
         \/ confused'[t0] # {} \/ r = w
         \/ t0 = "rules" /\ configuring'[p].pc = "replace"
  PROVE  ConfigIInv'
<1>1. /\ DOMAIN rows = Table /\ DOMAIN wanted = Table
      /\ rows'[t0] = r /\ \A t \in Table \ {t0} : rows'[t] = rows[t]
      /\ wanted'[t0] = w /\ \A t \in Table \ {t0} : wanted'[t] = wanted[t]
      /\ DOMAIN rows' = Table /\ DOMAIN wanted' = Table
  BY DEF ConfigIInv, ConfigTyped
<1>2. r # NoRow
  BY ConfigNumbers DEF SavedRow, Held
<1>3. RestTyped'
  <2>1. DOMAIN rows' = Table /\ rows'["rules"] # NoRow /\ \A t \in Table : rows'[t] = NoRow \/ SavedRow(t, rows'[t])
    <3>1. \A t \in Table : rows[t] = NoRow \/ SavedRow(t, rows[t])
      BY DEF ConfigIInv, ConfigTyped
    <3>2. \A t \in Table : rows'[t] = NoRow \/ SavedRow(t, rows'[t])
      BY <1>1, <3>1
    <3>. QED
      BY <1>1, <1>2, <3>2 DEF ConfigIInv, ConfigTyped, Table
  <2>2. \A t \in Table : wanted'[t] \in Held(t)
    BY <1>1 DEF ConfigIInv, ConfigTyped
  <2>3. IsFile(bundle)' /\ (bundle'["guild"] # NoRow => bundle'["rules"] # NoRow)
    BY DEF ConfigIInv, ConfigTyped, IsFile, SavedRow
  <2>4. guildCache' = NoRow \/ SavedRow("guild", guildCache')
    BY DEF ConfigIInv, ConfigTyped
  <2>. QED
    BY <1>1, <2>1, <2>2, <2>3, <2>4 DEF RestTyped, Doubts, Held, SavedRow
<1>4. Stored(t0)' = r /\ \A t \in Table \ {t0} : Stored(t)' = Stored(t)
  BY <1>1, <1>2 DEF Stored
<1>5. CacheKnows'
  <2>1. CASE t0 = "guild"
    BY <2>1 DEF CacheKnows
  <2>2. CASE t0 # "guild"
    <3>1. "guild" \in Table \ {t0}
      BY <2>2 DEF Table
    <3>2. Stored("guild")' = Stored("guild") /\ (Sure("guild")' => Sure("guild"))
      BY <1>4, <3>1 DEF Doubts, Sure
    <3>. QED
      BY <3>2 DEF ConfigIInv, CacheKnows, Others
  <2>. QED
    BY <2>1, <2>2
<1>6. ConfigKept'
  <2>. SUFFICES ASSUME NEW t \in Table, confused'[t] = {},
                       ~(t = "rules" /\ \E q \in Proc : configuring'[q].pc = "replace")
                PROVE  Stored(t)' = wanted'[t]
    BY DEF ConfigKept
  <2>1. CASE t = t0
    BY <1>1, <1>4, <2>1
  <2>2. CASE t # t0
    <3>1. confused[t] = {} /\ ~(t = "rules" /\ \E q \in Proc : configuring[q].pc = "replace")
      BY <2>2 DEF Doubts, Others
    <3>. QED
      BY <1>1, <1>4, <2>2, <3>1 DEF ConfigIInv, ConfigKept
  <2>. QED
    BY <2>1, <2>2
<1>7. \A t \in Table : rows'[t] # rows[t] => Mine(p, t)
  BY <1>1
<1>8. \A t \in configuring'[p].busy : Mine(p, t)
  BY DEF Mine
<1>. QED
  BY <1>3, <1>5, <1>6, <1>7, <1>8, ConfigStep DEF Doubts

(* A row is saved from what was read.                                        *)
LEMMA Saved ==
  ASSUME ConfigIInv, NEW p \in Proc, configuring[p].pc = "save", NEW it, it = configuring[p], NEW t, t = it.table,
         NEW r, r = Clamped(Changed(it)), NEW w, w = Over(Clamped(it.set), wanted[t])
  PROVE  SavedRow(t, r) /\ w \in Held(t) /\ (Sure(t) => r = w)
<1>1. /\ t \in Table \ {"rules"} /\ it.row \in Held(t)
      /\ it.set \in [DOMAIN it.set -> Nat] /\ DOMAIN it.set \subseteq Columns[t]
  BY DEF ConfigIInv, ConfigTyped, Fits, RowFits
<1>2. wanted[t] \in Held(t)
  BY <1>1 DEF ConfigIInv, ConfigTyped
<1>. DEFINE set == it.set  row == it.row  all == Changed(it)  cut == Clamped(set)
<1>3. /\ DOMAIN all = Columns[t] /\ all \in [DOMAIN all -> Nat]
      /\ \A c \in Columns[t] : all[c] = IF c \in DOMAIN set THEN set[c] ELSE row[c]
  BY <1>1 DEF Changed, Over, Held
<1>4. DOMAIN cut = DOMAIN set /\ \A c \in DOMAIN set : cut[c] = Clamp(c, set[c]) /\ Clamp(c, set[c]) \in Low[c]..High[c]
  BY <1>1, ClampFits
<1>5. \A c \in DOMAIN set : cut[c] \in Nat
  BY <1>1, <1>4, ConfigNumbers
<1>6. /\ DOMAIN w = Columns[t] /\ w \in Held(t) /\ w = [c \in Columns[t] |-> w[c]]
      /\ \A c \in Columns[t] : w[c] = IF c \in DOMAIN set THEN cut[c] ELSE wanted[t][c]
  BY <1>2, <1>4, <1>5 DEF Over, Held
<1>. HIDE DEF all
<1>7. SavedRow(t, r) /\ \A c \in Columns[t] : r[c] = Clamp(c, all[c])
  <2>1. r = Clamped(all)
    BY DEF all
  <2>. QED
    BY <1>1, <1>3, <2>1, ClampFits
<1>8. r = [c \in Columns[t] |-> r[c]]
  BY <1>7 DEF SavedRow
<1>9. ASSUME Sure(t) PROVE r = w
  <2>1. row = Stored(t) \/ DOMAIN set = Columns[t]
    BY <1>9 DEF ConfigIInv, HasRow
  <2>2. wanted[t] = Stored(t)
    BY <1>1, <1>9 DEF ConfigIInv, ConfigKept, Sure
  <2>3. \A c \in Columns[t] : Clamp(c, Stored(t)[c]) = Stored(t)[c]
    BY <1>1, ClampKeeps, StoredSaved DEF ConfigIInv
  <2>4. ASSUME NEW c \in Columns[t] PROVE r[c] = w[c]
    <3>1. CASE c \in DOMAIN set
      BY <1>3, <1>4, <1>6, <1>7, <3>1
    <3>2. CASE c \notin DOMAIN set
      <4>1. row = Stored(t) /\ all[c] = row[c] /\ w[c] = wanted[t][c] /\ r[c] = Clamp(c, all[c])
        BY <1>3, <1>6, <1>7, <2>1, <3>2
      <4>. QED
        BY <2>2, <2>3, <4>1
    <3>. QED
      BY <3>1, <3>2
  <2>. QED
    BY <1>6, <1>8, <2>4
<1>. QED
  BY <1>6, <1>7, <1>9

LEMMA SaveRowStep ==
  ASSUME ConfigIInv, NEW p \in Proc, SaveRow(p)
  PROVE  ConfigIInv'
<1>. PICK it : it = configuring[p]
  OBVIOUS
<1>. PICK t : t = it.table
  OBVIOUS
<1>. PICK r : r = Clamped(Changed(it))
  OBVIOUS
<1>. PICK w : w = Over(Clamped(it.set), wanted[t])
  OBVIOUS
<1>1. Fits(it) /\ it.pc = "save" /\ t \in Table \ {"rules"} /\ it.busy = {t}
  BY DEF ConfigIInv, ConfigTyped, SaveRow, Fits, BusyFits
<1>2. UNCHANGED <<guildCache, bundle, confused>> /\ Doubts
  BY NoDoubt DEF SaveRow
<1>3. SavedRow(t, r) /\ w \in Held(t) /\ (Sure(t) => r = w)
  BY <1>1, Saved
<1>4. Mine(p, t)
  BY <1>1 DEF Mine
<1>5. DOMAIN configuring = Proc /\ DOMAIN rows = Table
  BY DEF ConfigIInv, ConfigTyped
<1>6. CASE ConfigIdle(p) /\ UNCHANGED <<rows, wanted>>
  BY <1>1, <1>2, <1>6, ConfigOver
<1>7. ASSUME rows' = [rows EXCEPT ![t] = r], wanted' = [wanted EXCEPT ![t] = w], t # "guild", ConfigIdle(p)
      PROVE  ConfigIInv'
  <2>1. /\ DOMAIN configuring' = Proc /\ configuring'[p] = Unconfigured
        /\ \A q \in Others(p) : configuring'[q] = configuring[q]
    BY <1>5, <1>7 DEF ConfigIdle, Others
  <2>2. configuring'[p].busy \subseteq it.busy /\ Fits(configuring[p])' /\ HasRow(configuring[p])' /\ Swapping(configuring[p])'
    <3>1. Fits(configuring[p])'
      BY <2>1, IdleFits DEF Fits, RowFits, LeftFits, BusyFits, IsFile, Whole, Held, SavedRow, Sections, ToRules
    <3>. QED
      BY <2>1, <3>1, IdleFits DEF HasRow, Swapping
  <2>3. confused'[t] # {} \/ r = w
    BY <1>2, <1>3 DEF Sure
  <2>4. /\ configuring[p].pc \notin {"cache", "importCache", "replace"} /\ t \in Table
        /\ configuring'[p].busy \subseteq configuring[p].busy
    BY <1>1, <2>2
  <2>. QED
    BY <1>2, <1>3, <1>4, <1>7, <2>1, <2>2, <2>3, <2>4, ConfigWrites
<1>8. ASSUME rows' = [rows EXCEPT ![t] = r], wanted' = [wanted EXCEPT ![t] = w], t = "guild",
             configuring' = [configuring EXCEPT ![p].pc = "cache", ![p].row = rows'["guild"]]
      PROVE  ConfigIInv'
  <2>. DEFINE next == [it EXCEPT !.pc = "cache", !.row = r]
  <2>1. rows'["guild"] = r /\ r # NoRow
    BY <1>1, <1>3, <1>5, <1>8, ConfigNumbers DEF SavedRow, Held
  <2>2. /\ DOMAIN configuring' = Proc /\ configuring'[p] = next
        /\ \A q \in Others(p) : configuring'[q] = configuring[q]
    BY <1>5, <1>8, <2>1 DEF Others
  <2>3. /\ DOMAIN next = Piece /\ next.pc = "cache" /\ next.table = t /\ next.set = it.set /\ next.row = r
        /\ next.busy = it.busy /\ next.left = it.left /\ next.old = it.old /\ next.new = it.new
    BY <1>1 DEF Fits, Piece
  <2>. HIDE DEF next
  <2>4. Fits(next)
    BY <1>1, <1>3, <1>8, <2>3 DEF Fits, RowFits, LeftFits, BusyFits
  <2>5. Fits(configuring[p])'
    BY <2>2, <2>4 DEF Fits, RowFits, LeftFits, BusyFits, IsFile, Whole, Held, SavedRow, Sections, ToRules
  <2>6. HasRow(configuring[p])' /\ Swapping(configuring[p])'
    <3>1. Stored("guild")' = r
      BY <2>1 DEF Stored
    <3>. QED
      BY <2>2, <2>3, <3>1 DEF HasRow, Swapping
  <2>7. confused'[t] # {} \/ r = w
    BY <1>2, <1>3 DEF Sure
  <2>8. /\ configuring[p].pc \notin {"cache", "importCache", "replace"} /\ t \in Table
        /\ configuring'[p].busy \subseteq configuring[p].busy /\ configuring'[p].pc = "cache"
    BY <1>1, <2>2, <2>3
  <2>. QED
    BY <1>2, <1>3, <1>4, <1>8, <2>2, <2>5, <2>6, <2>7, <2>8, ConfigWrites
<1>. QED
  BY <1>6, <1>7, <1>8 DEF SaveRow

(* A section of the file is written; the rules are the last.                 *)
LEMMA Onward ==
  ASSUME NEW s, ToRules(s), Len(s) # 1 \/ Head(s) # "rules"
  PROVE  ToRules(Tail(s)) /\ \A i \in 1..Len(Tail(s)) : \E j \in 1..Len(s) : Tail(s)[i] = s[j]
<1>1. s \in Seq(Table) /\ s # <<>> /\ Len(s) \in Nat \ {0} /\ Head(s) = s[1] /\ s[Len(s)] = "rules"
  BY EmptySeq DEF ToRules
<1>2. Tail(s) \in Seq(Table) /\ Len(Tail(s)) = Len(s) - 1 /\ \A i \in 1..Len(Tail(s)) : Tail(s)[i] = s[i + 1]
  BY <1>1, HeadTailProperties
<1>3. Len(s) # 1
  BY <1>1
<1>4. Len(Tail(s)) \in Nat \ {0} /\ Tail(s)[Len(Tail(s))] = s[Len(s)]
  BY <1>1, <1>2, <1>3
<1>5. Tail(s) # <<>>
  BY <1>4, EmptySeq
<1>6. ASSUME NEW i \in 1..Len(Tail(s)) PROVE \E j \in 1..Len(s) : Tail(s)[i] = s[j]
  <2>1. i + 1 \in 1..Len(s) /\ Tail(s)[i] = s[i + 1]
    BY <1>1, <1>2
  <2>. QED
    BY <2>1
<1>. QED
  BY <1>1, <1>2, <1>4, <1>5, <1>6 DEF ToRules

LEMMA ImportSectionStep ==
  ASSUME ConfigIInv, NEW p \in Proc, ImportSection(p)
  PROVE  ConfigIInv'
<1>. PICK it : it = configuring[p]
  OBVIOUS
<1>. PICK t : t = Head(it.left)
  OBVIOUS
<1>1. Fits(it) /\ it.pc = "import" /\ Whole(it.row) /\ ToRules(it.left) /\ it.busy = Sections(it.row) /\ t # "rules"
  BY DEF ConfigIInv, ConfigTyped, ImportSection, Fits, RowFits, LeftFits, BusyFits
<1>2. UNCHANGED <<guildCache, bundle, confused>> /\ Doubts
  BY NoDoubt DEF ImportSection
<1>3. t \in Table \ {"rules"} /\ it.row[t] # NoRow
  <2>1. it.left \in Seq(Table) /\ it.left # <<>> /\ Len(it.left) \in Nat \ {0} /\ t = it.left[1]
    BY <1>1, EmptySeq DEF ToRules
  <2>. QED
    BY <1>1, <2>1 DEF Fits, LeftFits
<1>. PICK r : r = Clamped(it.row[t])
  OBVIOUS
<1>4. SavedRow(t, r) /\ r \in Held(t)
  <2>1. SavedRow(t, it.row[t])
    BY <1>1, <1>3 DEF Whole, IsFile
  <2>. QED
    BY <1>3, <2>1, ClampKeeps DEF SavedRow, Held
<1>5. Mine(p, t)
  BY <1>1, <1>3 DEF Mine, Sections
<1>6. DOMAIN configuring = Proc /\ DOMAIN rows = Table
  BY DEF ConfigIInv, ConfigTyped
<1>7. CASE ConfigIdle(p) /\ UNCHANGED <<rows, wanted>>
  BY <1>1, <1>2, <1>7, ConfigOver
<1>8. ASSUME rows' = [rows EXCEPT ![t] = r], wanted' = [wanted EXCEPT ![t] = r],
             configuring' = [configuring EXCEPT ![p].left = Tail(it.left), ![p].pc = IF t = "guild" THEN "importCache" ELSE "import"]
      PROVE  ConfigIInv'
  <2>. PICK pc : pc = IF t = "guild" THEN "importCache" ELSE "import"
    OBVIOUS
  <2>. PICK next : next = [it EXCEPT !.left = Tail(it.left), !.pc = pc]
    OBVIOUS
  <2>1. rows'[t] = r /\ r # NoRow
    BY <1>3, <1>4, <1>6, <1>8, ConfigNumbers
  <2>2. /\ DOMAIN configuring' = Proc /\ configuring'[p] = next
        /\ \A q \in Others(p) : configuring'[q] = configuring[q]
    BY <1>6, <1>8 DEF Others
  <2>3. /\ DOMAIN next = Piece /\ next.pc = pc /\ next.table = it.table /\ next.set = it.set /\ next.row = it.row
        /\ next.busy = it.busy /\ next.left = Tail(it.left) /\ next.old = it.old /\ next.new = it.new
    BY <1>1 DEF Fits, Piece
  <2>4. LeftFits(next)
    <3>1. ToRules(next.left) /\ \A i \in 1..Len(next.left) : \E j \in 1..Len(it.left) : next.left[i] = it.left[j]
      BY <1>1, <2>3, Onward
    <3>2. \A j \in 1..Len(it.left) : it.row[it.left[j]] # NoRow
      BY <1>1 DEF Fits, LeftFits
    <3>3. \A i \in 1..Len(next.left) : next.row[next.left[i]] # NoRow
      BY <2>3, <3>1, <3>2
    <3>4. next.left \in Seq(Table)
      BY <3>1 DEF ToRules
    <3>. QED
      BY <2>3, <3>1, <3>3, <3>4 DEF LeftFits
  <2>5. Fits(next)
    BY <1>1, <2>3, <2>4 DEF Fits, RowFits, BusyFits
  <2>6. Fits(configuring[p])'
    BY <2>2, <2>5 DEF Fits, RowFits, LeftFits, BusyFits, IsFile, Whole, Held, SavedRow, Sections, ToRules
  <2>7. HasRow(configuring[p])' /\ Swapping(configuring[p])'
    <3>1. t = "guild" => Stored("guild")' = r
      BY <2>1 DEF Stored
    <3>. QED
      BY <2>2, <2>3, <3>1 DEF HasRow, Swapping
  <2>8. /\ configuring[p].pc \notin {"cache", "importCache", "replace"} /\ t \in Table
        /\ configuring'[p].busy \subseteq configuring[p].busy /\ (t = "guild" => configuring'[p].pc = "importCache")
    BY <1>1, <1>3, <2>2, <2>3
  <2>. QED
    BY <1>2, <1>4, <1>5, <1>8, <2>2, <2>6, <2>7, <2>8, ConfigWrites
<1>. QED
  BY <1>7, <1>8 DEF ImportSection

LEMMA ExportSectionStep ==
  ASSUME ConfigIInv, NEW p \in Proc, ExportSection(p)
  PROVE  ConfigIInv'
<1>. PICK it : it = configuring[p]
  OBVIOUS
<1>. PICK row : row = [it.row EXCEPT ![Head(it.left)] = rows[Head(it.left)]]
  OBVIOUS
<1>1. Fits(it) /\ it.pc = "export" /\ IsFile(it.row) /\ ToRules(it.left) /\ it.busy = {}
  BY DEF ConfigIInv, ConfigTyped, ExportSection, Fits, RowFits, LeftFits, BusyFits
<1>2. UNCHANGED <<rows, guildCache, wanted, confused>> /\ Doubts /\ (guildCache' = NoRow \/ SavedRow("guild", guildCache'))
  BY NoDoubt DEF ExportSection, ConfigIInv, ConfigTyped
<1>3. it.left \in Seq(Table) /\ it.left # <<>> /\ Len(it.left) \in Nat \ {0} /\ Head(it.left) = it.left[1] /\ Head(it.left) \in Table
  BY <1>1, EmptySeq DEF ToRules
<1>4. DOMAIN row = Table /\ IsFile(row) /\ (Len(it.left) = 1 => row["rules"] # NoRow)
  <2>1. \A t \in Table : rows[t] = NoRow \/ SavedRow(t, rows[t])
    BY DEF ConfigIInv, ConfigTyped
  <2>2. rows["rules"] # NoRow
    BY DEF ConfigIInv, ConfigTyped
  <2>3. DOMAIN row = Table /\ \A t \in Table : row[t] = IF t = Head(it.left) THEN rows[t] ELSE it.row[t]
    BY <1>1 DEF IsFile
  <2>4. IsFile(row)
    BY <1>1, <2>1, <2>3 DEF IsFile
  <2>5. Len(it.left) = 1 => row["rules"] = rows["rules"]
    BY <1>1, <1>3, <2>3 DEF ToRules, Table
  <2>. QED
    BY <2>2, <2>3, <2>4, <2>5
<1>5. DOMAIN configuring = Proc /\ IsFile(bundle) /\ (bundle["guild"] # NoRow => bundle["rules"] # NoRow)
  BY DEF ConfigIInv, ConfigTyped
<1>6. CASE ConfigIdle(p) /\ UNCHANGED bundle
  BY <1>1, <1>2, <1>6, ConfigOver
<1>7. CASE ConfigIdle(p) /\ bundle' = row /\ Len(it.left) = 1
  <2>1. /\ DOMAIN configuring' = Proc /\ configuring'[p] = Unconfigured
        /\ \A q \in Others(p) : configuring'[q] = configuring[q]
    BY <1>5, <1>7 DEF ConfigIdle, Others
  <2>2. Fits(configuring[p])' /\ HasRow(configuring[p])' /\ Swapping(configuring[p])'
    <3>1. Fits(configuring[p])'
      BY <2>1, IdleFits DEF Fits, RowFits, LeftFits, BusyFits, IsFile, Whole, Held, SavedRow, Sections, ToRules
    <3>. QED
      BY <2>1, <3>1, IdleFits DEF HasRow, Swapping
  <2>3. IsFile(bundle)' /\ (bundle'["guild"] # NoRow => bundle'["rules"] # NoRow)
    BY <1>4, <1>7 DEF IsFile, SavedRow
  <2>4. \A t \in configuring'[p].busy : Mine(p, t)
    BY <2>1, IdleFits
  <2>. QED
    BY <1>1, <1>2, <2>1, <2>2, <2>3, <2>4, ConfigQuiet DEF Doubts
<1>8. CASE configuring' = [configuring EXCEPT ![p].row = row, ![p].left = Tail(it.left)] /\ UNCHANGED bundle /\ Len(it.left) # 1
  <2>. PICK next : next = [it EXCEPT !.row = row, !.left = Tail(it.left)]
    OBVIOUS
  <2>1. configuring' = [configuring EXCEPT ![p] = next] /\ configuring'[p] = next
    BY <1>5, <1>8
  <2>2. /\ DOMAIN next = Piece /\ next.pc = "export" /\ next.table = it.table /\ next.set = it.set /\ next.row = row
        /\ next.busy = {} /\ next.left = Tail(it.left) /\ next.old = it.old /\ next.new = it.new
    BY <1>1 DEF Fits, Piece
  <2>3. ToRules(Tail(it.left)) /\ Tail(it.left) \in Seq(Table)
    BY <1>1, <1>8, Onward DEF ToRules
  <2>4. Fits(next)
    BY <1>1, <1>4, <2>2, <2>3 DEF Fits, RowFits, LeftFits, BusyFits
  <2>5. HasRow(configuring[p])' /\ Swapping(configuring[p])'
    BY <2>1, <2>2 DEF HasRow, Swapping
  <2>. QED
    BY <1>1, <1>2, <1>8, <2>1, <2>2, <2>4, <2>5, ConfigGoes
<1>. QED
  BY <1>6, <1>7, <1>8 DEF ExportSection

---------------------------------------------------------------------------
(* The rules.                                                                *)
LEMMA RuleColumns ==
  ASSUME ConfigIInv, NEW n \in Columns["rules"], NEW v \in {0, 1}, NEW r, r = [rows["rules"] EXCEPT ![n] = v]
  PROVE  /\ SavedRow("rules", r)
         /\ [rows EXCEPT !["rules"][n] = v] = [rows EXCEPT !["rules"] = r]
         /\ Named(r) = IF v = 1 THEN Named(rows["rules"]) \cup {n} ELSE Named(rows["rules"]) \ {n}
<1>1. SavedRow("rules", rows["rules"]) /\ DOMAIN rows = Table /\ "rules" \in Table
  BY DEF ConfigIInv, ConfigTyped, Table
<1>2. /\ rows["rules"] \in [Columns["rules"] -> Nat]
      /\ \A c \in Columns["rules"] : rows["rules"][c] \in {0, 1}
  BY <1>1 DEF SavedRow
<1>3. r \in [Columns["rules"] -> Nat] /\ \A c \in Columns["rules"] : r[c] = IF c = n THEN v ELSE rows["rules"][c]
  BY <1>2
<1>4. SavedRow("rules", r)
  BY <1>2, <1>3 DEF SavedRow
<1>5. Named(r) = IF v = 1 THEN Named(rows["rules"]) \cup {n} ELSE Named(rows["rules"]) \ {n}
  BY <1>2, <1>3 DEF Named
<1>. QED
  BY <1>4, <1>5

LEMMA AutomateRuleStep ==
  ASSUME ConfigIInv, NEW p \in Proc, AutomateRule(p)
  PROVE  ConfigIInv'
<1>1. PICK n \in Columns["rules"], v \in {0, 1} :
        /\ rows' = [rows EXCEPT !["rules"][n] = v]
        /\ wanted' = [wanted EXCEPT !["rules"][n] = v]
  BY DEF AutomateRule
<1>. PICK r : r = [rows["rules"] EXCEPT ![n] = v]
  OBVIOUS
<1>. PICK w : w = [wanted["rules"] EXCEPT ![n] = v]
  OBVIOUS
<1>2. SavedRow("rules", r) /\ rows' = [rows EXCEPT !["rules"] = r]
  BY <1>1, RuleColumns
<1>3. wanted["rules"] \in Held("rules") /\ "rules" \in Table
  BY DEF ConfigIInv, ConfigTyped, Table
<1>4. w \in Held("rules") /\ wanted' = [wanted EXCEPT !["rules"] = w]
  BY <1>1, <1>3 DEF Held
<1>5. /\ Doubts /\ Mine(p, "rules") /\ configuring[p].pc = "idle" /\ UNCHANGED <<guildCache, bundle, configuring>>
  <2>1. {"rules"} \in SUBSET Table /\ Enters(p, {"rules"}) /\ UNCHANGED <<guildCache, bundle, configuring>>
    BY <1>3 DEF AutomateRule
  <2>. QED
    BY <2>1, EntersMarks DEF Doubts
<1>6. Fits(configuring[p])
  BY DEF ConfigIInv, ConfigTyped
<1>7. Fits(configuring[p])'
  BY <1>5, <1>6 DEF Fits, RowFits, LeftFits, BusyFits, IsFile, Whole, Held, SavedRow, Sections, ToRules
<1>8. HasRow(configuring[p])' /\ Swapping(configuring[p])'
  BY <1>5 DEF HasRow, Swapping
<1>9. confused'["rules"] # {} \/ r = w
  <2>. SUFFICES ASSUME confused'["rules"] = {} PROVE r = w
    OBVIOUS
  <2>1. confused["rules"] = {}
    BY <1>3, <1>5 DEF Doubts
  <2>2. \A q \in Proc : configuring[q].pc # "replace"
    <3>1. \A q \in Others(p) : "rules" \notin configuring[q].busy
      BY <1>5, <1>6, IdleFits DEF Mine, Fits
    <3>2. \A q \in Proc : configuring[q].pc = "replace" => "rules" \in configuring[q].busy
      BY <1>3 DEF ConfigIInv, ConfigTyped, Fits, BusyFits, RowFits, Whole, Sections
    <3>. QED
      BY <1>5, <3>1, <3>2 DEF Others
  <2>3. Stored("rules") = wanted["rules"]
    BY <1>3, <2>1, <2>2 DEF ConfigIInv, ConfigKept
  <2>4. Stored("rules") = rows["rules"]
    BY DEF Stored, ConfigIInv, ConfigTyped
  <2>. QED
    BY <2>3, <2>4
<1>10. DOMAIN configuring' = Proc /\ (\A q \in Others(p) : configuring'[q] = configuring[q]) /\ configuring'[p].busy \subseteq configuring[p].busy
  BY <1>5 DEF ConfigIInv, ConfigTyped
<1>. QED
  BY <1>2, <1>3, <1>4, <1>5, <1>7, <1>8, <1>9, <1>10, ConfigWrites

LEMMA ListRulesStep ==
  ASSUME ConfigIInv, NEW p \in Proc, ListRules(p)
  PROVE  ConfigIInv'
<1>. PICK it : it = configuring[p]
  OBVIOUS
<1>1. Fits(it) /\ it.pc = "import" /\ Whole(it.row)
  BY DEF ConfigIInv, ConfigTyped, ListRules, Fits, RowFits
<1>2. UNCHANGED <<rows, guildCache, bundle, wanted, confused>> /\ Doubts /\ (guildCache' = NoRow \/ SavedRow("guild", guildCache'))
  BY NoDoubt DEF ListRules, ConfigIInv, ConfigTyped
<1>3. CASE ConfigIdle(p)
  BY <1>1, <1>2, <1>3, ConfigOver
<1>4. CASE configuring' = [configuring EXCEPT ![p].pc = "replace", ![p].old = Named(rows["rules"]), ![p].new = Named(it.row["rules"])]
  <2>. PICK old : old = Named(rows["rules"])
    OBVIOUS
  <2>. PICK new : new = Named(it.row["rules"])
    OBVIOUS
  <2>. PICK next : next = [it EXCEPT !.pc = "replace", !.old = old, !.new = new]
    OBVIOUS
  <2>1. configuring' = [configuring EXCEPT ![p] = next] /\ configuring'[p] = next
    BY <1>4 DEF ConfigIInv, ConfigTyped
  <2>2. /\ DOMAIN next = Piece /\ next.pc = "replace" /\ next.table = it.table /\ next.set = it.set /\ next.row = it.row
        /\ next.busy = it.busy /\ next.left = it.left /\ next.old = old /\ next.new = new
    BY <1>1 DEF Fits, Piece
  <2>3. old \subseteq Columns["rules"] /\ new \subseteq Columns["rules"]
    BY DEF Named
  <2>4. Fits(next)
    BY <1>1, <2>2, <2>3 DEF Fits, RowFits, LeftFits, BusyFits
  <2>5. HasRow(configuring[p])' /\ Swapping(configuring[p])'
    <3>1. old = Named(rows'["rules"]) /\ new = Named(next.row["rules"])
      BY <1>2, <2>2
    <3>2. HasRow(configuring[p])'
      BY <2>1, <2>2 DEF HasRow
    <3>. QED
      BY <2>1, <2>2, <3>1, <3>2 DEF Swapping, Named
  <2>. QED
    BY <1>1, <1>2, <2>1, <2>2, <2>4, <2>5, ConfigGoes
<1>. QED
  BY <1>3, <1>4 DEF ListRules

LEMMA ReplaceStep ==
  ASSUME ConfigIInv, NEW p \in Proc, configuring[p].pc = "replace",
         NEW there \in {0, 1}, NEW n, n \in IF there = 1 THEN configuring[p].old ELSE configuring[p].new,
         there = 0 => configuring[p].old = {},
         ReplaceRule(p, n, there), UNCHANGED <<guildCache, bundle, wanted>>
  PROVE  ConfigIInv'
<1>. PICK it : it = configuring[p]
  OBVIOUS
<1>1. Fits(it) /\ it.pc = "replace" /\ Whole(it.row) /\ it.busy = Sections(it.row)
  BY DEF ConfigIInv, ConfigTyped, Fits, RowFits, BusyFits
<1>2. "rules" \in Table /\ n \in Columns["rules"] /\ DOMAIN configuring = Proc
  BY <1>1 DEF Table, Fits, ConfigIInv, ConfigTyped
<1>3. CASE rows["rules"][n] # there
  <2>1. ConfigIdle(p) /\ Confuse("rules", "partial") /\ UNCHANGED rows
    BY <1>3 DEF ReplaceRule
  <2>2. Doubts /\ confused'["rules"] # {}
    BY <1>2, <2>1, Doubted
  <2>. QED
    BY <1>1, <2>1, <2>2, ConfigOver
<1>4. CASE rows["rules"][n] = there
  <2>. PICK v \in {0, 1} : v = 1 - there
    OBVIOUS
  <2>. PICK r : r = [rows["rules"] EXCEPT ![n] = v]
    OBVIOUS
  <2>. PICK new : new = IF there = 1 THEN it.new ELSE it.new \ {n}
    OBVIOUS
  <2>. PICK next : next = [it EXCEPT !.old = it.old \ {n}, !.new = new]
    OBVIOUS
  <2>1. /\ SavedRow("rules", r) /\ rows' = [rows EXCEPT !["rules"] = r]
        /\ Named(r) = IF v = 1 THEN Named(rows["rules"]) \cup {n} ELSE Named(rows["rules"]) \ {n}
    BY <1>2, <1>4, RuleColumns DEF ReplaceRule
  <2>2. UNCHANGED confused /\ Doubts
    BY <1>4, NoDoubt DEF ReplaceRule
  <2>3. DOMAIN configuring' = Proc /\ configuring'[p] = next /\ \A q \in Others(p) : configuring'[q] = configuring[q]
    <3>1. configuring' = [configuring EXCEPT ![p].old = it.old \ {n}, ![p].new = new]
      BY <1>4 DEF ReplaceRule
    <3>. QED
      BY <1>2, <3>1 DEF Others
  <2>4. /\ DOMAIN next = Piece /\ next.pc = "replace" /\ next.table = it.table /\ next.set = it.set /\ next.row = it.row
        /\ next.busy = it.busy /\ next.left = it.left /\ next.old = it.old \ {n} /\ next.new = new
    BY <1>1 DEF Fits, Piece
  <2>5. Fits(next)
    BY <1>1, <2>4 DEF Fits, RowFits, LeftFits, BusyFits
  <2>6. Fits(configuring[p])'
    BY <2>3, <2>5 DEF Fits, RowFits, LeftFits, BusyFits, IsFile, Whole, Held, SavedRow, Sections, ToRules
  <2>7. rows'["rules"] = r
    BY <1>2, <2>1 DEF ConfigIInv, ConfigTyped
  <2>8. Swapping(configuring[p])'
    <3>. SUFFICES ASSUME Sure("rules")
                  PROVE  /\ Named(r) = next.old \cup (Named(it.row["rules"]) \ new)
                         /\ new \subseteq Named(it.row["rules"])
                         /\ next.old # {} => new = Named(it.row["rules"])
      BY <2>2, <2>3, <2>4, <2>7 DEF Swapping, Sure
    <3>1. /\ Named(rows["rules"]) = it.old \cup (Named(it.row["rules"]) \ it.new)
          /\ it.new \subseteq Named(it.row["rules"])
          /\ it.old # {} => it.new = Named(it.row["rules"])
      BY <1>1 DEF ConfigIInv, Swapping
    <3>2. CASE there = 1
      <4>1. n \in it.old /\ new = it.new /\ Named(r) = Named(rows["rules"]) \ {n}
        BY <2>1, <3>2
      <4>. QED
        BY <2>4, <3>1, <4>1
    <3>3. CASE there = 0
      <4>1. n \in it.new /\ it.old = {} /\ new = it.new \ {n} /\ Named(r) = Named(rows["rules"]) \cup {n}
        BY <2>1, <3>3
      <4>. QED
        BY <2>4, <3>1, <4>1
    <3>. QED
      BY <3>2, <3>3
  <2>9. HasRow(configuring[p])'
    BY <2>3, <2>4 DEF HasRow
  <2>10. PICK w : w = wanted["rules"]
    OBVIOUS
  <2>11. w \in Held("rules") /\ UNCHANGED wanted /\ w = wanted["rules"]
    BY <1>2, <2>10 DEF ConfigIInv, ConfigTyped
  <2>12. Mine(p, "rules")
    BY <1>1, <1>2 DEF Mine, Sections, Whole
  <2>13. /\ configuring[p].pc \notin {"cache", "importCache"} /\ configuring'[p].pc = "replace"
         /\ configuring'[p].busy \subseteq configuring[p].busy
    BY <1>1, <2>3, <2>4
  <2>. QED
    BY <1>2, <2>1, <2>2, <2>3, <2>6, <2>8, <2>9, <2>11, <2>12, <2>13, ConfigWrites
<1>. QED
  BY <1>3, <1>4

LEMMA ReplaceRulesStep ==
  ASSUME ConfigIInv, NEW p \in Proc, ReplaceRules(p)
  PROVE  ConfigIInv'
<1>1. configuring[p].pc = "replace" /\ UNCHANGED <<guildCache, bundle, wanted>>
  BY DEF ReplaceRules
<1>2. CASE \E n \in configuring[p].old : ReplaceRule(p, n, 1)
  BY <1>1, <1>2, ReplaceStep
<1>3. CASE configuring[p].old = {} /\ \E n \in configuring[p].new : ReplaceRule(p, n, 0)
  BY <1>1, <1>3, ReplaceStep
<1>4. CASE ConfigIdle(p) /\ Confuse("rules", "partial") /\ UNCHANGED rows
  <2>1. Doubts /\ confused'["rules"] # {}
    BY <1>4, Doubted DEF Table
  <2>. QED
    BY <1>1, <1>4, <2>1, ConfigOver
<1>. QED
  BY <1>2, <1>3, <1>4 DEF ReplaceRules

LEMMA ImportDoneStep ==
  ASSUME ConfigIInv, NEW p \in Proc, ImportDone(p)
  PROVE  ConfigIInv'
<1>. PICK it : it = configuring[p]
  OBVIOUS
<1>1. /\ Fits(it) /\ it.pc = "replace" /\ Whole(it.row) /\ it.busy = Sections(it.row) /\ it.old \cup it.new = {}
      /\ UNCHANGED <<rows, guildCache, bundle, confused>> /\ Doubts
  BY NoDoubt DEF ConfigIInv, ConfigTyped, ImportDone, Fits, RowFits, BusyFits
<1>. PICK r : r = rows["rules"]
  OBVIOUS
<1>. PICK w : w = it.row["rules"]
  OBVIOUS
<1>2. "rules" \in Table /\ SavedRow("rules", r) /\ UNCHANGED rows /\ r = rows["rules"]
  BY <1>1 DEF Table, ConfigIInv, ConfigTyped
<1>3. SavedRow("rules", w) /\ w \in Held("rules") /\ wanted' = [wanted EXCEPT !["rules"] = w]
  BY <1>1, <1>2 DEF Whole, IsFile, ImportDone, SavedRow, Held
<1>4. /\ DOMAIN configuring' = Proc /\ configuring'[p] = Unconfigured
      /\ \A q \in Others(p) : configuring'[q] = configuring[q]
  BY DEF ConfigIInv, ConfigTyped, ImportDone, ConfigIdle, Others
<1>5. Fits(configuring[p])' /\ HasRow(configuring[p])' /\ Swapping(configuring[p])' /\ configuring'[p].busy = {}
  <2>1. Fits(configuring[p])'
    BY <1>4, IdleFits DEF Fits, RowFits, LeftFits, BusyFits, IsFile, Whole, Held, SavedRow, Sections, ToRules
  <2>. QED
    BY <1>4, <2>1, IdleFits DEF HasRow, Swapping
<1>6. confused'["rules"] # {} \/ r = w
  <2>. SUFFICES ASSUME Sure("rules") PROVE r = w
    BY <1>1 DEF Sure
  <2>1. Named(r) = Named(w)
    BY <1>1 DEF ConfigIInv, Swapping
  <2>2. /\ r \in [Columns["rules"] -> Nat] /\ w \in [Columns["rules"] -> Nat]
        /\ \A n \in Columns["rules"] : r[n] \in {0, 1} /\ w[n] \in {0, 1}
    BY <1>2, <1>3 DEF SavedRow
  <2>3. \A n \in Columns["rules"] : r[n] = w[n]
    BY <2>1, <2>2 DEF Named
  <2>. QED
    BY <2>2, <2>3
<1>7. Mine(p, "rules")
  BY <1>1, <1>2 DEF Mine, Sections, Whole
<1>8. configuring[p].pc \notin {"cache", "importCache"} /\ configuring'[p].busy \subseteq configuring[p].busy
  BY <1>1, <1>5
<1>. QED
  BY <1>1, <1>2, <1>3, <1>4, <1>5, <1>6, <1>7, <1>8, ConfigWrites

---------------------------------------------------------------------------
LEMMA ConfigOutside ==
  ASSUME ConfigIInv, ExpireGuild \/ ConfigRestart \/ UNCHANGED <<env, configVars>>
  PROVE  ConfigIInv'
<1>1. UNCHANGED <<rows, bundle, wanted>>
  BY DEF ExpireGuild, ConfigRestart, configVars
<1>2. guildCache' = guildCache \/ guildCache' = NoRow
  BY DEF ExpireGuild, ConfigRestart, configVars
<1>3. /\ DOMAIN configuring' = Proc
      /\ (\A p \in Proc : configuring'[p] = configuring[p]) \/ (guildCache' = NoRow /\ \A p \in Proc : configuring'[p] = Unconfigured)
  BY DEF ExpireGuild, ConfigRestart, configVars, ConfigIInv, ConfigTyped
<1>4. /\ Doubts
      /\ \A p \in Proc : configuring[p].pc = "replace" => confused'["rules"] # {} \/ configuring'[p] = configuring[p]
  <2>1. CASE UNCHANGED confused /\ ~ConfigRestart
    <3>1. \A p \in Proc : configuring'[p] = configuring[p]
      BY <2>1 DEF ExpireGuild, configVars
    <3>. QED
      BY <2>1, <3>1, NoDoubt
  <2>2. CASE UNCHANGED confused /\ ConfigRestart /\ \A p \in Proc : configuring[p].pc # "replace"
    BY <2>2, NoDoubt
  <2>3. CASE Confuse("rules", "partial")
    BY <2>3, Doubted DEF Table
  <2>. QED
    BY <2>1, <2>2, <2>3 DEF ExpireGuild, ConfigRestart, configVars
<1>5. "guild" \in Table /\ "rules" \in Table /\ \A t \in Table : Stored(t)' = Stored(t) /\ (Sure(t)' => Sure(t))
  BY <1>1, <1>4 DEF Stored, Sure, Doubts, Table
<1>6. \A p \in Proc : Fits(configuring[p]) /\ HasRow(configuring[p]) /\ Swapping(configuring[p])
  BY DEF ConfigIInv, ConfigTyped
<1>7. \A p \in Proc : Fits(configuring'[p])
  BY <1>3, <1>6, IdleFits
<1>8. ConfigTyped'
  <2>1. \A p \in Proc : Fits(configuring[p])'
    BY <1>7 DEF Fits, RowFits, LeftFits, BusyFits, IsFile, Whole, Held, SavedRow, Sections, ToRules
  <2>. QED
    BY <1>1, <1>2, <1>3, <1>4, <2>1 DEF ConfigIInv, ConfigTyped, Doubts, IsFile, Held, SavedRow
<1>9. \A p \in Proc : HasRow(configuring[p])' /\ Swapping(configuring[p])'
  <2>. SUFFICES ASSUME NEW p \in Proc PROVE HasRow(configuring[p])' /\ Swapping(configuring[p])'
    OBVIOUS
  <2>1. CASE configuring'[p] = Unconfigured
    BY <2>1, IdleFits DEF HasRow, Swapping
  <2>2. CASE configuring'[p] = configuring[p]
    BY <1>1, <1>5, <1>6, <2>2 DEF HasRow, Swapping, Fits
  <2>. QED
    BY <1>3, <2>1, <2>2
<1>10. Alone'
  BY <1>3, <1>5, IdleFits DEF ConfigIInv, Alone
<1>11. CacheKnows'
  BY <1>2, <1>3, <1>5 DEF ConfigIInv, CacheKnows
<1>12. ConfigKept'
  <2>. SUFFICES ASSUME NEW t \in Table, confused'[t] = {},
                       ~(t = "rules" /\ \E q \in Proc : configuring'[q].pc = "replace")
                PROVE  Stored(t)' = wanted'[t]
    BY DEF ConfigKept
  <2>1. confused[t] = {} /\ ~(t = "rules" /\ \E q \in Proc : configuring[q].pc = "replace")
    BY <1>4, <1>5 DEF Sure
  <2>. QED
    BY <1>1, <1>5, <2>1 DEF ConfigIInv, ConfigKept
<1>. QED
  BY <1>8, <1>9, <1>10, <1>11, <1>12 DEF ConfigIInv

LEMMA ConfigInitIInv == HandlersInit /\ ConfigInit => ConfigIInv
<1>. SUFFICES ASSUME ConfigInit PROVE ConfigIInv
  OBVIOUS
<1>1. \A p \in Proc : configuring[p] = Unconfigured
  BY DEF ConfigInit
<1>2. /\ DOMAIN rows = Table /\ rows["rules"] # NoRow
      /\ \A t \in Table : rows[t] = NoRow \/ SavedRow(t, rows[t])
  BY ConfigAssumption DEF ConfigAssumption, ConfigInit
<1>3. \A t \in Table : Stored(t) \in Held(t)
  <2>. SUFFICES ASSUME NEW t \in Table PROVE Stored(t) \in Held(t)
    OBVIOUS
  <2>1. CASE rows[t] = NoRow
    BY <1>2, <2>1, DefaultsSaved DEF Stored
  <2>2. CASE rows[t] # NoRow
    BY <1>2, <2>2 DEF Stored, SavedRow, Held
  <2>. QED
    BY <2>1, <2>2
<1>4. ConfigTyped
  <2>1. IsFile(bundle) /\ bundle["guild"] = NoRow
    BY DEF ConfigInit, IsFile, Table
  <2>2. DOMAIN wanted = Table /\ \A t \in Table : wanted[t] \in Held(t)
    BY <1>3 DEF ConfigInit
  <2>3. confused \in [Table -> SUBSET {"crossed", "defaults", "form", "partial"}] /\ DOMAIN configuring = Proc /\ guildCache = NoRow
    BY DEF ConfigInit
  <2>. QED
    BY <1>1, <1>2, <2>1, <2>2, <2>3, IdleFits DEF ConfigTyped
<1>5. \A p \in Proc : HasRow(configuring[p]) /\ Swapping(configuring[p])
  BY <1>1, IdleFits DEF HasRow, Swapping
<1>6. Alone /\ CacheKnows /\ ConfigKept
  BY <1>1, IdleFits DEF Alone, CacheKnows, ConfigKept, ConfigInit
<1>. QED
  BY <1>4, <1>5, <1>6 DEF ConfigIInv

LEMMA ConfigNextIInv == ConfigIInv /\ [ConfigNext]_<<env, configVars>> => ConfigIInv'
<1>. SUFFICES ASSUME ConfigIInv, [ConfigNext]_<<env, configVars>> PROVE ConfigIInv'
  OBVIOUS
<1>1. ASSUME NEW p \in Proc,
             \/ SetGuildConfig(p) \/ SetServerPrefix(p) \/ ResolvePrefix(p) \/ SetProtection(p) \/ SetHoneypot(p)
             \/ SetFilter(p) \/ SetAntinuke(p) \/ SetWhitelist(p) \/ StarboardOff(p)
      PROVE  ConfigIInv'
  BY <1>1, CommandsStep
<1>2. ASSUME NEW p \in Proc, StarboardSet(p) \/ GuildPage(p) \/ ExportGuild(p) \/ ImportGuild(p)
      PROVE  ConfigIInv'
  BY <1>2, StarboardSetStep, GuildPageStep, ExportGuildStep, ImportGuildStep
<1>3. ASSUME NEW p \in Proc, LoadRow(p) \/ LoadFails(p) \/ FillGuild(p) \/ SaveRow(p) \/ CacheGuild(p) \/ GuildForm(p) \/ GuildPageLeft(p)
      PROVE  ConfigIInv'
  BY <1>3, LoadRowStep, LoadFailsStep, FillGuildStep, SaveRowStep, CacheGuildStep, GuildFormStep, GuildPageLeftStep
<1>4. ASSUME NEW p \in Proc, AutomateRule(p) \/ ExportSection(p) \/ ImportSection(p) \/ ImportCache(p) \/ ListRules(p) \/ ReplaceRules(p) \/ ImportDone(p)
      PROVE  ConfigIInv'
  BY <1>4, AutomateRuleStep, ExportSectionStep, ImportSectionStep, ImportCacheStep, ListRulesStep, ReplaceRulesStep, ImportDoneStep
<1>5. CASE ExpireGuild \/ ConfigRestart \/ UNCHANGED <<env, configVars>>
  BY <1>5, ConfigOutside
<1>. QED
  BY <1>1, <1>2, <1>3, <1>4, <1>5 DEF ConfigNext

(* Each table of a guild's configuration says what the last commands asked   *)
(* for, column by column and within its limits, however commands, the form   *)
(* of the dashboard, exports and imports fall, unless the table is in doubt: *)
(* two handlers were at work on it at once (the read-modify-write of the     *)
(* commands and of handleGuilds), its row could not be read, the form        *)
(* emptied the jail role, or an import stopped among the rules.              *)
THEOREM RowsStayAsked == ConfigSpec => []ConfigKept
<1>1. ConfigIInv => ConfigKept
  BY DEF ConfigIInv
<1>. QED
  BY <1>1, ConfigInitIInv, ConfigNextIInv, PTL DEF ConfigSpec

---------------------------------------------------------------------------
(* The types, which the invariant has.                                       *)
LEMMA ConfigTypes == ConfigIInv => ConfigTypeOK
<1>. SUFFICES ASSUME ConfigIInv PROVE ConfigTypeOK
  OBVIOUS
<1>1. ConfigTyped
  BY DEF ConfigIInv
<1>2. \A t \in Table : /\ rows[t] = NoRow \/ SavedRow(t, rows[t])
                       /\ bundle[t] = NoRow \/ SavedRow(t, bundle[t])
                       /\ wanted[t] \in [Columns[t] -> Nat]
  BY <1>1 DEF ConfigTyped, IsFile, Held
<1>3. ASSUME NEW p \in Proc
      PROVE  LET it == configuring[p] IN
          /\ it.pc \in {"idle", "load", "fill", "save", "cache", "page", "export", "import", "importCache", "replace"}
          /\ it.table \in Table /\ it.busy \subseteq Table /\ it.left \in Seq(Table)
          /\ it.old \cup it.new \subseteq Columns["rules"]
          /\ it.pc = "idle" => it = Unconfigured
  BY <1>1 DEF ConfigTyped, Fits, LeftFits
<1>. QED
  BY <1>1, <1>2, <1>3 DEF ConfigTyped, ConfigTypeOK

---------------------------------------------------------------------------
(* Console: for any number of requests, stages, confirmations and restarts, *)
(* what the console carries out was staged as it is, confirmed in time, and *)
(* is carried out once for one staging.                                    *)
USE HandlersAssumption, ConsoleAssumption DEF HandlersAssumption, ConsoleAssumption

---------------------------------------------------------------------------
(* The inductive invariant: types; a request past the comparison of the      *)
(* token has what was staged; a nonce belongs to the tokens, to one request  *)
(* that took it, or to one deed.                                             *)

ExecType == [pc : {"idle", "consume", "act"}, nonce : Nat, deed : ConsoleDeeds, at : Nat]
StageType == [deed : ConsoleDeeds, exp : Nat]
CarriedType == [nonce : Nat, deed : ConsoleDeeds, at : Nat]

ConsoleTyped ==
    /\ now \in Nat
    /\ staged \in Seq(StageType)
    /\ confirmTokens \subseteq 1..Len(staged)
    /\ executing \in [Proc -> ExecType]
    /\ carried \in Seq(CarriedType)

AsStaged(x) == x.nonce \in 1..Len(staged) /\ x.deed = staged[x.nonce].deed /\ x.at <= staged[x.nonce].exp

AsStagedAll ==
    /\ \A p \in Proc : executing[p].pc # "idle" => AsStaged(executing[p])
    /\ \A i \in 1..Len(carried) : AsStaged(carried[i])

CarriesOut(p) == executing[p].pc = "act"

OnceEach ==
    /\ \A p \in Proc : CarriesOut(p) => executing[p].nonce \notin confirmTokens
    /\ \A p, q \in Proc : CarriesOut(p) /\ CarriesOut(q) /\ executing[p].nonce = executing[q].nonce => p = q
    /\ \A i \in 1..Len(carried) : carried[i].nonce \notin confirmTokens
    /\ \A i \in 1..Len(carried), p \in Proc : CarriesOut(p) => executing[p].nonce # carried[i].nonce
    /\ \A i, j \in 1..Len(carried) : carried[i].nonce = carried[j].nonce => i = j

ConsoleIInv == ConsoleTyped /\ AsStagedAll /\ OnceEach

---------------------------------------------------------------------------
LEMMA ConsoleIdleTyped == NoExec \in ExecType /\ NoExec.pc = "idle"
<1>1. (CHOOSE d \in ConsoleDeeds : TRUE) \in ConsoleDeeds
  OBVIOUS
<1>. QED
  BY <1>1 DEF NoExec, ExecType

LEMMA ConsoleInitIInv == HandlersInit /\ ConsoleInit => ConsoleIInv
<1>. SUFFICES ASSUME HandlersInit, ConsoleInit PROVE ConsoleIInv
  OBVIOUS
<1>1. ConsoleTyped
  BY ConsoleIdleTyped DEF HandlersInit, ConsoleInit, ConsoleTyped
<1>2. (\A p \in Proc : executing[p].pc = "idle") /\ Len(carried) = 0
  BY ConsoleIdleTyped DEF ConsoleInit
<1>. QED
  BY <1>1, <1>2 DEF ConsoleIInv, AsStagedAll, OnceEach, CarriesOut

(* A step that ends requests, or drops tokens, and stages and carries out    *)
(* nothing, disturbs nothing.                                                *)
LEMMA Fewer ==
  ASSUME ConsoleIInv, now' \in Nat, UNCHANGED <<staged, carried>>,
         confirmTokens' \subseteq confirmTokens, executing' \in [Proc -> ExecType],
         \A p \in Proc : executing'[p].pc = "idle" \/ executing'[p] = executing[p]
  PROVE  ConsoleIInv'
<1>1. ConsoleTyped'
  BY DEF ConsoleIInv, ConsoleTyped
<1>2. AsStagedAll'
  BY DEF ConsoleIInv, AsStagedAll, AsStaged
<1>3. \A p \in Proc : CarriesOut(p)' => CarriesOut(p) /\ executing'[p] = executing[p]
  BY DEF CarriesOut
<1>4. OnceEach'
  BY <1>3 DEF ConsoleIInv, OnceEach
<1>. QED
  BY <1>1, <1>2, <1>4 DEF ConsoleIInv

LEMMA StageStep ==
  ASSUME ConsoleIInv, ConsoleStage
  PROVE  ConsoleIInv'
<1>1. PICK d \in ConsoleDeeds : staged' = Append(staged, [deed |-> d, exp |-> now + ConfirmTTL])
  BY DEF ConsoleStage
<1>0. now \in Nat /\ staged \in Seq(StageType) /\ [deed |-> d, exp |-> now + ConfirmTTL] \in StageType
  BY DEF ConsoleIInv, ConsoleTyped, StageType
<1>2. /\ staged' \in Seq(StageType)
      /\ Len(staged') = Len(staged) + 1 /\ Len(staged) \in Nat
      /\ \A n \in 1..Len(staged) : staged'[n] = staged[n]
  BY <1>0, <1>1
<1>3. /\ confirmTokens' = confirmTokens \cup {Len(staged) + 1}
      /\ UNCHANGED <<executing, carried, now>>
  BY DEF ConsoleStage, Called
<1>4. ConsoleTyped'
  <2>1. confirmTokens' \subseteq 1..Len(staged')
    <3>1. confirmTokens \subseteq 1..Len(staged)
      BY DEF ConsoleIInv, ConsoleTyped
    <3>2. 1..Len(staged') = 1..Len(staged) \cup {Len(staged) + 1}
      BY <1>2
    <3>. QED
      BY <1>3, <3>1, <3>2
  <2>2. now' \in Nat /\ executing' \in [Proc -> ExecType] /\ carried' \in Seq(CarriedType)
    BY <1>3 DEF ConsoleIInv, ConsoleTyped
  <2>. QED
    BY <1>2, <2>1, <2>2 DEF ConsoleTyped
<1>5. AsStagedAll'
  BY <1>2, <1>3 DEF ConsoleIInv, AsStagedAll, AsStaged
<1>6. OnceEach'
  <2>1. \A p \in Proc : CarriesOut(p) => executing[p].nonce # Len(staged) + 1
    BY <1>2 DEF ConsoleIInv, AsStagedAll, AsStaged, CarriesOut
  <2>2. \A i \in 1..Len(carried) : carried[i].nonce # Len(staged) + 1
    BY <1>2 DEF ConsoleIInv, AsStagedAll, AsStaged
  <2>3. \A p \in Proc : CarriesOut(p)' <=> CarriesOut(p)
    BY <1>3 DEF CarriesOut
  <2>. QED
    BY <1>3, <2>1, <2>2, <2>3 DEF ConsoleIInv, OnceEach
<1>. QED
  BY <1>4, <1>5, <1>6 DEF ConsoleIInv

LEMMA ConfirmStep ==
  ASSUME ConsoleIInv, NEW p \in Proc, ConsoleConfirm(p)
  PROVE  ConsoleIInv'
<1>1. PICK n \in 1..Len(staged), d \in ConsoleDeeds :
          IF n \notin confirmTokens THEN UNCHANGED <<confirmTokens, executing>>
          ELSE IF now > staged[n].exp THEN confirmTokens' = confirmTokens \ {n} /\ UNCHANGED executing
          ELSE /\ executing' = [executing EXCEPT ![p] =
                      IF d = staged[n].deed THEN [pc |-> "consume", nonce |-> n, deed |-> d, at |-> now] ELSE NoExec]
               /\ UNCHANGED confirmTokens
  BY DEF ConsoleConfirm
<1>2. UNCHANGED <<staged, carried, now>>
  BY DEF ConsoleConfirm, Called
<1>3. CASE UNCHANGED executing /\ confirmTokens' \subseteq confirmTokens
  BY <1>2, <1>3, Fewer DEF ConsoleIInv, ConsoleTyped
<1>4. CASE executing' = [executing EXCEPT ![p] = NoExec] /\ UNCHANGED confirmTokens
  <2>1. executing' \in [Proc -> ExecType]
    BY <1>4, ConsoleIdleTyped DEF ConsoleIInv, ConsoleTyped
  <2>2. \A q \in Proc : executing'[q].pc = "idle" \/ executing'[q] = executing[q]
    BY <1>4, ConsoleIdleTyped DEF ConsoleIInv, ConsoleTyped
  <2>. QED
    BY <1>2, <1>4, <2>1, <2>2, Fewer DEF ConsoleIInv, ConsoleTyped
<1>5. CASE /\ d = staged[n].deed /\ now <= staged[n].exp
           /\ executing' = [executing EXCEPT ![p] = [pc |-> "consume", nonce |-> n, deed |-> d, at |-> now]]
           /\ UNCHANGED confirmTokens
  <2>. DEFINE x == [pc |-> "consume", nonce |-> n, deed |-> d, at |-> now]
  <2>1. x \in ExecType /\ x.pc = "consume" /\ AsStaged(x)
    BY <1>5 DEF ExecType, AsStaged, ConsoleIInv, ConsoleTyped
  <2>2. executing' = [executing EXCEPT ![p] = x]
    BY <1>5
  <2>. HIDE DEF x
  <2>3. executing' \in [Proc -> ExecType] /\ executing'[p] = x
        /\ \A q \in Proc \ {p} : executing'[q] = executing[q]
    BY <2>1, <2>2 DEF ConsoleIInv, ConsoleTyped
  <2>4. ConsoleTyped'
    BY <1>2, <1>5, <2>3 DEF ConsoleIInv, ConsoleTyped
  <2>5. AsStagedAll'
    BY <1>2, <2>1, <2>3 DEF ConsoleIInv, AsStagedAll, AsStaged
  <2>6. \A q \in Proc : CarriesOut(q)' => q # p /\ CarriesOut(q) /\ executing'[q] = executing[q]
    BY <2>1, <2>3 DEF CarriesOut
  <2>7. OnceEach'
    BY <1>2, <1>5, <2>6 DEF ConsoleIInv, OnceEach
  <2>. QED
    BY <2>4, <2>5, <2>7 DEF ConsoleIInv
<1>. QED
  <2>1. now \in Nat /\ staged[n] \in StageType
    BY DEF ConsoleIInv, ConsoleTyped
  <2>2. staged[n].exp \in Nat
    BY <2>1 DEF StageType
  <2>. QED
    BY <1>1, <1>3, <1>4, <1>5, <2>1, <2>2

LEMMA ConsumeStep ==
  ASSUME ConsoleIInv, NEW p \in Proc, ConfirmConsume(p)
  PROVE  ConsoleIInv'
<1>. DEFINE n == executing[p].nonce
<1>1. /\ confirmTokens' = confirmTokens \ {n}
      /\ UNCHANGED <<staged, carried, now>>
      /\ executing[p].pc = "consume"
  BY DEF ConfirmConsume, env
<1>2. CASE executing' = [executing EXCEPT ![p] = NoExec]
  <2>1. executing' \in [Proc -> ExecType]
    BY <1>2, ConsoleIdleTyped DEF ConsoleIInv, ConsoleTyped
  <2>2. \A q \in Proc : executing'[q].pc = "idle" \/ executing'[q] = executing[q]
    BY <1>2, ConsoleIdleTyped DEF ConsoleIInv, ConsoleTyped
  <2>. QED
    BY <1>1, <2>1, <2>2, Fewer DEF ConsoleIInv, ConsoleTyped
<1>3. CASE n \in confirmTokens /\ executing' = [executing EXCEPT ![p].pc = "act"]
  <2>. DEFINE x == [executing[p] EXCEPT !.pc = "act"]
  <2>1. executing[p] \in ExecType
    BY DEF ConsoleIInv, ConsoleTyped
  <2>2. x \in ExecType /\ x.pc = "act" /\ x.nonce = n /\ x.deed = executing[p].deed /\ x.at = executing[p].at
    BY <2>1 DEF ExecType
  <2>3. executing' = [executing EXCEPT ![p] = x]
    BY <1>3
  <2>. HIDE DEF x
  <2>4. executing' \in [Proc -> ExecType] /\ executing'[p] = x
        /\ \A q \in Proc \ {p} : executing'[q] = executing[q]
    BY <2>2, <2>3 DEF ConsoleIInv, ConsoleTyped
  <2>5. ConsoleTyped'
    BY <1>1, <2>4 DEF ConsoleIInv, ConsoleTyped
  <2>6. AsStaged(executing[p])
    BY <1>1 DEF ConsoleIInv, AsStagedAll
  <2>7. AsStagedAll'
    BY <1>1, <2>2, <2>4, <2>6 DEF ConsoleIInv, AsStagedAll, AsStaged
  <2>8. \A q \in Proc \ {p} : CarriesOut(q)' => CarriesOut(q) /\ executing'[q] = executing[q] /\ executing[q].nonce # n
    BY <1>3, <2>4 DEF CarriesOut, ConsoleIInv, OnceEach
  <2>9. executing'[p].nonce = n /\ \A i \in 1..Len(carried) : carried[i].nonce # n
    BY <1>3, <2>2, <2>4 DEF ConsoleIInv, OnceEach
  <2>10. OnceEach'
    BY <1>1, <2>8, <2>9 DEF ConsoleIInv, OnceEach
  <2>. QED
    BY <2>5, <2>7, <2>10 DEF ConsoleIInv
<1>. QED
  BY <1>2, <1>3 DEF ConfirmConsume, Consumed, ExecOver

LEMMA ActStep ==
  ASSUME ConsoleIInv, NEW p \in Proc, ConsoleAct(p)
  PROVE  ConsoleIInv'
<1>. DEFINE x == [nonce |-> executing[p].nonce, deed |-> executing[p].deed, at |-> executing[p].at]
<1>1. /\ executing' = [executing EXCEPT ![p] = NoExec]
      /\ UNCHANGED <<confirmTokens, staged, now>>
      /\ CarriesOut(p)
  BY DEF ConsoleAct, ExecOver, env, CarriesOut
<1>2. executing' \in [Proc -> ExecType]
  BY <1>1, ConsoleIdleTyped DEF ConsoleIInv, ConsoleTyped
<1>3. \A q \in Proc : executing'[q].pc = "idle" \/ (q # p /\ executing'[q] = executing[q])
  BY <1>1, ConsoleIdleTyped DEF ConsoleIInv, ConsoleTyped
<1>4. CASE UNCHANGED carried
  BY <1>1, <1>2, <1>3, <1>4, Fewer DEF ConsoleIInv, ConsoleTyped
<1>5. CASE carried' = Append(carried, x)
  <2>1. executing[p] \in ExecType /\ AsStaged(executing[p])
    BY <1>1 DEF ConsoleIInv, ConsoleTyped, AsStagedAll, CarriesOut
  <2>2. x \in CarriedType /\ AsStaged(x) /\ x.nonce = executing[p].nonce
    BY <2>1 DEF ExecType, CarriedType, AsStaged
  <2>. HIDE DEF x
  <2>3. /\ carried' \in Seq(CarriedType) /\ Len(carried) \in Nat
        /\ Len(carried') = Len(carried) + 1
        /\ carried'[Len(carried) + 1] = x
        /\ \A i \in 1..Len(carried) : carried'[i] = carried[i]
    BY <1>5, <2>2 DEF ConsoleIInv, ConsoleTyped
  <2>4. \A i \in 1..Len(carried') : i \in 1..Len(carried) \/ i = Len(carried) + 1
    BY <2>3
  <2>5. ConsoleTyped'
    BY <1>1, <1>2, <2>3 DEF ConsoleIInv, ConsoleTyped
  <2>6. AsStagedAll'
    BY <1>1, <1>3, <2>2, <2>3, <2>4 DEF ConsoleIInv, AsStagedAll, AsStaged
  <2>7. \A q \in Proc : CarriesOut(q)' => CarriesOut(q) /\ q # p /\ executing'[q] = executing[q]
    BY <1>3 DEF CarriesOut
  <2>8. /\ x.nonce \notin confirmTokens
        /\ \A i \in 1..Len(carried) : carried[i].nonce # x.nonce
        /\ \A q \in Proc : CarriesOut(q) /\ q # p => executing[q].nonce # x.nonce
    BY <1>1, <2>2 DEF ConsoleIInv, OnceEach
  <2>9. \A i, j \in 1..Len(carried') : carried'[i].nonce = carried'[j].nonce => i = j
    BY <2>3, <2>4, <2>8 DEF ConsoleIInv, OnceEach
  <2>10. /\ \A i \in 1..Len(carried') : carried'[i].nonce \notin confirmTokens'
         /\ \A i \in 1..Len(carried'), q \in Proc : CarriesOut(q)' => executing'[q].nonce # carried'[i].nonce
    BY <1>1, <2>3, <2>4, <2>7, <2>8 DEF ConsoleIInv, OnceEach
  <2>11. OnceEach'
    BY <1>1, <2>7, <2>9, <2>10 DEF ConsoleIInv, OnceEach
  <2>. QED
    BY <2>5, <2>6, <2>11 DEF ConsoleIInv
<1>. QED
  BY <1>4, <1>5 DEF ConsoleAct

LEMMA ConsoleStepIInv == ConsoleIInv /\ [ConsoleNext]_<<env, consoleVars>> => ConsoleIInv'
<1>. SUFFICES ASSUME ConsoleIInv, [ConsoleNext]_<<env, consoleVars>> PROVE ConsoleIInv'
  OBVIOUS
<1>1. CASE ConsoleStage
  BY <1>1, StageStep
<1>2. CASE \E p \in Proc : ConsoleConfirm(p) \/ ConfirmConsume(p) \/ ConsoleAct(p)
  BY <1>2, ConfirmStep, ConsumeStep, ActStep
<1>3. CASE SweepConfirmTokens
  BY <1>3, Fewer DEF SweepConfirmTokens, env, ConsoleIInv, ConsoleTyped
<1>4. CASE ConsoleTick
  <2>1. now' \in Nat /\ UNCHANGED <<confirmTokens, staged, executing, carried>>
    BY <1>4 DEF ConsoleTick, Passes, consoleVars, ConsoleIInv, ConsoleTyped
  <2>. QED
    BY <2>1, Fewer DEF ConsoleIInv, ConsoleTyped
<1>5. CASE ConsoleRestart
  <2>1. executing' \in [Proc -> ExecType] /\ \A p \in Proc : executing'[p].pc = "idle"
    BY <1>5, ConsoleIdleTyped DEF ConsoleRestart
  <2>. QED
    BY <1>5, <2>1, Fewer DEF ConsoleRestart, Fault, ConsoleIInv, ConsoleTyped
<1>6. CASE UNCHANGED <<env, consoleVars>>
  BY <1>6, Fewer DEF env, consoleVars, ConsoleIInv, ConsoleTyped
<1>. QED
  BY <1>1, <1>2, <1>3, <1>4, <1>5, <1>6 DEF ConsoleNext

LEMMA ConsoleConfirmed == ConsoleIInv => ConfirmOnce
<1> SUFFICES ASSUME ConsoleIInv, NEW i \in 1..Len(carried)
             PROVE  /\ AsStaged(carried[i])
                    /\ \A j \in 1..Len(carried) : carried[j].nonce = carried[i].nonce => j = i
  BY DEF ConfirmOnce, AsStaged
<1>. QED
  BY DEF ConsoleIInv, AsStagedAll, OnceEach

(* The console's promise, for any number of requests at once: what is        *)
(* carried out was staged and confirmed in time, once for one staging.       *)
THEOREM CarriedOutOnce == ConsoleSpec => []ConfirmOnce
<1>1. ConsoleIInv => ConfirmOnce
  BY ConsoleConfirmed
<1>. QED
  BY <1>1, ConsoleInitIInv, ConsoleStepIInv, PTL DEF ConsoleSpec

---------------------------------------------------------------------------
(* The types of the console.                                                 *)
ConsoleBounds == /\ \A p \in Proc : executing[p].nonce <= Len(staged) /\ executing[p].at <= MaxTime
                 /\ \A i \in 1..Len(carried) : carried[i].at <= MaxTime

LEMMA NoExecFields == NoExec.nonce = 0 /\ NoExec.at = 0
BY DEF NoExec

LEMMA ConsoleTypes == ConsoleIInv /\ ConsoleBounds => ConsoleTypeOK
<1>. SUFFICES ASSUME ConsoleIInv, ConsoleBounds PROVE ConsoleTypeOK
  OBVIOUS
<1>1. ConsoleTyped /\ MaxTime \in Nat /\ Len(staged) \in Nat
  BY HandlersAssumption DEF ConsoleIInv, ConsoleTyped
<1>2. ASSUME NEW p \in Proc
      PROVE  executing[p] \in [pc : {"idle", "consume", "act"}, nonce : 0..Len(staged), deed : ConsoleDeeds, at : Time]
  <2>1. executing[p] \in ExecType /\ executing[p].nonce <= Len(staged) /\ executing[p].at <= MaxTime
    BY <1>1 DEF ConsoleTyped, ConsoleBounds
  <2>. QED
    BY <1>1, <2>1 DEF ExecType, Time
<1>3. ASSUME NEW i \in 1..Len(carried)
      PROVE  carried[i] \in [nonce : 1..Len(staged), deed : ConsoleDeeds, at : Time]
  <2>1. carried[i] \in CarriedType /\ carried[i].nonce \in 1..Len(staged) /\ carried[i].at <= MaxTime
    BY <1>1 DEF ConsoleTyped, ConsoleBounds, ConsoleIInv, AsStagedAll, AsStaged
  <2>. QED
    BY <1>1, <2>1 DEF CarriedType, Time
<1>4. executing \in [Proc -> [pc : {"idle", "consume", "act"}, nonce : 0..Len(staged), deed : ConsoleDeeds, at : Time]]
  BY <1>1, <1>2 DEF ConsoleTyped
<1>5. carried \in Seq([nonce : 1..Len(staged), deed : ConsoleDeeds, at : Time])
  <2>1. carried \in [1..Len(carried) -> [nonce : 1..Len(staged), deed : ConsoleDeeds, at : Time]] /\ Len(carried) \in Nat
    BY <1>1, <1>3 DEF ConsoleTyped
  <2>. QED
    BY <2>1, ListOf, Zenon
<1>. QED
  BY <1>1, <1>4, <1>5 DEF ConsoleTyped, ConsoleTypeOK, StageType

LEMMA ConsoleInitBounds == ConsoleInit => ConsoleBounds
<1>. SUFFICES ASSUME ConsoleInit PROVE ConsoleBounds
  OBVIOUS
<1>1. staged = <<>> /\ carried = <<>> /\ \A p \in Proc : executing[p] = NoExec
  BY DEF ConsoleInit
<1>2. Len(staged) = 0 /\ Len(carried) = 0
  BY <1>1
<1>. QED
  BY <1>1, <1>2, NoExecFields, HandlersAssumption DEF ConsoleBounds

LEMMA ConsoleBoundsStep ==
  ASSUME HandlersTypeOK, ConsoleIInv, ConsoleBounds, [ConsoleNext]_<<env, consoleVars>>
  PROVE  ConsoleBounds'
<1>1. ConsoleTyped /\ now <= MaxTime /\ MaxTime \in Nat /\ Len(staged) \in Nat
  BY HandlersAssumption DEF HandlersTypeOK, Time, ConsoleIInv, ConsoleTyped
<1>2. ASSUME Len(staged') \in Nat, Len(staged) <= Len(staged'), UNCHANGED carried,
             \A p \in Proc : \/ executing'[p] = NoExec
                              \/ executing'[p] = executing[p]
                              \/ /\ executing'[p].nonce = executing[p].nonce
                                 /\ executing'[p].at = executing[p].at
      PROVE  ConsoleBounds'
  <2>. SUFFICES ASSUME NEW p \in Proc PROVE executing'[p].nonce <= Len(staged') /\ executing'[p].at <= MaxTime
    BY <1>2 DEF ConsoleBounds
  <2>1. executing[p].nonce \in Nat /\ executing[p].nonce <= Len(staged) /\ executing[p].at <= MaxTime
    BY <1>1 DEF ConsoleBounds, ConsoleTyped, ExecType
  <2>. QED
    BY <1>1, <1>2, <2>1, NoExecFields
<1>3. CASE ConsoleStage
  <2>1. PICK d \in ConsoleDeeds : staged' = Append(staged, [deed |-> d, exp |-> now + ConfirmTTL])
    BY <1>3 DEF ConsoleStage
  <2>2. [deed |-> d, exp |-> now + ConfirmTTL] \in StageType
    BY <1>1, ConsoleAssumption DEF ConsoleTyped, StageType
  <2>3. Len(staged') = Len(staged) + 1
    BY <1>1, <2>1, <2>2 DEF ConsoleTyped
  <2>. QED
    BY <1>1, <1>2, <1>3, <2>3 DEF ConsoleStage
<1>4. ASSUME NEW p \in Proc, ConsoleConfirm(p) PROVE ConsoleBounds'
  <2>1. PICK n \in 1..Len(staged), d \in ConsoleDeeds :
             UNCHANGED executing \/ executing' = [executing EXCEPT ![p] = [pc |-> "consume", nonce |-> n, deed |-> d, at |-> now]]
                                \/ executing' = [executing EXCEPT ![p] = NoExec]
    BY <1>4, Zenon DEF ConsoleConfirm
  <2>2. UNCHANGED <<staged, carried>>
    BY <1>4 DEF ConsoleConfirm
  <2>3. CASE UNCHANGED executing
    BY <2>2, <2>3 DEF ConsoleBounds
  <2>4. CASE executing' = [executing EXCEPT ![p] = NoExec]
    <3>1. \A q \in Proc : executing'[q] = NoExec \/ executing'[q] = executing[q]
      BY <1>1, <2>4 DEF ConsoleTyped
    <3>. QED
      BY <1>1, <1>2, <2>2, <3>1
  <2>5. CASE executing' = [executing EXCEPT ![p] = [pc |-> "consume", nonce |-> n, deed |-> d, at |-> now]]
    <3>1. ASSUME NEW q \in Proc PROVE executing'[q].nonce <= Len(staged') /\ executing'[q].at <= MaxTime
      BY <1>1, <2>2, <2>5 DEF ConsoleTyped, ConsoleBounds
    <3>. QED
      BY <2>2, <3>1 DEF ConsoleBounds
  <2>. QED
    BY <2>1, <2>3, <2>4, <2>5
<1>5. ASSUME NEW p \in Proc, ConfirmConsume(p) PROVE ConsoleBounds'
  <2>1. UNCHANGED <<staged, carried>>
    BY <1>5 DEF ConfirmConsume
  <2>2. executing' = [executing EXCEPT ![p].pc = "act"] \/ executing' = [executing EXCEPT ![p] = NoExec]
    BY <1>5 DEF ConfirmConsume, ExecOver
  <2>3. CASE executing' = [executing EXCEPT ![p].pc = "act"]
    <3>1. ASSUME NEW q \in Proc PROVE executing'[q].nonce = executing[q].nonce /\ executing'[q].at = executing[q].at
      BY <1>1, <2>3 DEF ConsoleTyped, ExecType
    <3>. QED
      BY <1>1, <1>2, <2>1, <3>1
  <2>4. CASE executing' = [executing EXCEPT ![p] = NoExec]
    <3>1. \A q \in Proc : executing'[q] = NoExec \/ executing'[q] = executing[q]
      BY <1>1, <2>4 DEF ConsoleTyped
    <3>. QED
      BY <1>1, <1>2, <2>1, <3>1
  <2>. QED
    BY <2>2, <2>3, <2>4
<1>6. ASSUME NEW p \in Proc, ConsoleAct(p) PROVE ConsoleBounds'
  <2>. DEFINE it == executing[p]
              x == [nonce |-> it.nonce, deed |-> it.deed, at |-> it.at]
  <2>1. UNCHANGED staged /\ executing' = [executing EXCEPT ![p] = NoExec]
    BY <1>6 DEF ConsoleAct, ExecOver
  <2>2. \A q \in Proc : executing'[q].nonce <= Len(staged') /\ executing'[q].at <= MaxTime
    BY <1>1, <2>1, NoExecFields DEF ConsoleTyped, ConsoleBounds
  <2>3. CASE carried' = Append(carried, x)
    <3>1. x \in CarriedType /\ x.at <= MaxTime
      BY <1>1 DEF ConsoleTyped, ExecType, CarriedType, ConsoleBounds
    <3>. HIDE DEF x
    <3>2. ASSUME NEW i \in 1..Len(carried') PROVE carried'[i].at <= MaxTime
      BY <1>1, <2>3, <3>1 DEF ConsoleTyped, ConsoleBounds
    <3>. QED
      BY <2>2, <3>2 DEF ConsoleBounds
  <2>4. CASE UNCHANGED carried
    BY <2>2, <2>4 DEF ConsoleBounds
  <2>. QED
    BY <1>6, <2>3, <2>4, Zenon DEF ConsoleAct
<1>7. CASE SweepConfirmTokens \/ ConsoleTick \/ UNCHANGED <<env, consoleVars>>
  BY <1>7 DEF SweepConfirmTokens, ConsoleTick, consoleVars, ConsoleBounds
<1>8. CASE ConsoleRestart
  <2>1. (\A q \in Proc : executing'[q] = NoExec) /\ UNCHANGED <<staged, carried>>
    BY <1>8 DEF ConsoleRestart
  <2>. QED
    BY <1>1, <1>2, <2>1
<1>. QED
  BY <1>3, <1>4, <1>5, <1>6, <1>7, <1>8 DEF ConsoleNext

---------------------------------------------------------------------------
(* Sessions: for any users, requests, changes of roles and grants and      *)
(* failing calls, nothing is changed from the dashboard without the right. *)
USE SessionsAssumption DEF SessionsAssumption

---------------------------------------------------------------------------
(* The inductive invariant.  A request has seen the role and the grant its   *)
(* user has now (Current); what it has passed on its way, its own record     *)
(* says (Entitled); and sessions, pages and requests are dated by the epoch, *)
(* those that are old by an earlier one (Behind).                            *)

SessionType == [id : Nat, epoch : Nat]
Ops == View \cup GuildOps \cup ConsoleOps \cup AdminOps
Before == {"idle", "role", "drop"}
RequestSteps == Before \cup {"token", "scope", "bump", "deleteGrants"} \cup GuildOps \cup ConsoleOps \cup AdminOps
RoleOrNone == Role \cup {NoRoleRow}

RequestType ==
    [pc : RequestSteps, user : User, op : Ops, target : User, sess : SessionType \cup {NoSession}, role : RoleOrNone,
     token : Token, held : SUBSET RoleOrNone, granted : BOOLEAN, aged : BOOLEAN, guessed : BOOLEAN]

SessionsTyped ==
    /\ adminRole \in [User -> RoleOrNone]
    /\ guildAdmins \subseteq User
    /\ sessions \in [User -> SessionType \cup {NoSession}]
    /\ sessionIDs \in Nat
    /\ page \in [User -> Token]
    /\ requests \in [Proc -> RequestType]

Matches(it) == it.token.id = it.sess.id /\ it.token.epoch = it.sess.epoch

Entitled(it) ==
    /\ it.pc # "idle" =>
          /\ it.sess \in SessionType
          /\ it.token.old /\ it.token.id = it.sess.id => it.token.epoch < it.sess.epoch
    /\ it.pc \notin Before =>
          /\ it.role \in Role /\ Passed(it.role, it.op)
          /\ ~it.guessed => it.role \in it.held
    /\ it.pc \notin Before \cup {"token"} => it.op \notin View /\ Matches(it)
    /\ it.pc \notin Before \cup {"token", "scope"} => (it.op \in GuildOps => it.role # "admin" \/ it.granted)

Current(it) ==
    it.pc # "idle" => /\ RoleOf(it.user) \in it.held
                      /\ it.user \in guildAdmins => it.granted

Behind(t, u, old) ==
    /\ t.id <= sessionIDs
    /\ sessions[u] # NoSession /\ sessions[u].id = t.id =>
          /\ t.epoch <= sessions[u].epoch
          /\ old => t.epoch < sessions[u].epoch

Dated(it) == it.pc # "idle" => Behind(it.sess, it.user, it.aged)

Good(it) == Entitled(it) /\ Current(it) /\ Dated(it)

Pages ==
    /\ \A u \in User : sessions[u] # NoSession => sessions[u].id <= sessionIDs
    /\ \A u \in User : Behind(page[u], u, page[u].old)

SessionIInv ==
    /\ SessionsTyped
    /\ Pages
    /\ \A p \in Proc : Good(requests[p])
    /\ misused = {}

---------------------------------------------------------------------------
LEMMA SessionRestTyped == NoRequest \in RequestType /\ NoRequest.pc = "idle"
<1>1. (CHOOSE u \in User : TRUE) \in User
  OBVIOUS
<1>2. NoPage \in Token
  BY DEF NoPage, Token
<1>. QED
  BY <1>1, <1>2 DEF NoRequest, RequestType, RequestSteps, Before, Ops, View, RoleOrNone

LEMMA RestGood == Good(NoRequest)
  BY SessionRestTyped DEF Good, Entitled, Current, Dated, Before

LEMMA RoleTyped ==
  ASSUME adminRole \in [User -> RoleOrNone], NEW u \in User
  PROVE  RoleOf(u) \in RoleOrNone
  BY DEF RoleOf, RoleOrNone, Role

LEMMA SessionInitIInv == SessionsInit => SessionIInv
<1>. SUFFICES ASSUME SessionsInit PROVE SessionIInv
  OBVIOUS
<1>1. PICK a \in StartAdmins : adminRole = a.roles /\ guildAdmins = a.grants
  BY DEF SessionsInit
<1>2. adminRole \in [User -> RoleOrNone] /\ guildAdmins \subseteq User
  BY <1>1 DEF RoleOrNone
<1>3. /\ sessions \in [User -> SessionType \cup {NoSession}]
      /\ \A u \in User : sessions[u] = NoSession \/ sessions[u] = [id |-> 1, epoch |-> 0]
      /\ sessionIDs = 1
  BY DEF SessionsInit, SessionType
<1>4. \A u \in User : page[u] = NoPage \/ page[u] = [id |-> 1, epoch |-> 0, old |-> FALSE]
  BY DEF SessionsInit
<1>5. page \in [User -> Token]
  BY DEF SessionsInit, NoPage, Token
<1>6. requests \in [Proc -> RequestType] /\ \A p \in Proc : requests[p] = NoRequest
  BY SessionRestTyped DEF SessionsInit
<1>7. \A u \in User : Behind(page[u], u, page[u].old)
  BY <1>3, <1>4 DEF Behind, NoPage
<1>8. SessionsTyped
  BY <1>2, <1>3, <1>5, <1>6 DEF SessionsTyped
<1>9. Pages
  BY <1>3, <1>7 DEF Pages
<1>10. \A p \in Proc : Good(requests[p])
  BY <1>6, RestGood DEF SessionsInit
<1>. QED
  BY <1>8, <1>9, <1>10 DEF SessionIInv, SessionsInit

---------------------------------------------------------------------------
(* One request moves on and nothing else changes.                            *)
LEMMA SessionLocal ==
  ASSUME SessionIInv, NEW p \in Proc, NEW x \in RequestType, Good(x),
         requests' = [requests EXCEPT ![p] = x],
         UNCHANGED <<adminRole, guildAdmins, sessions, sessionIDs, page>>, misused' = {}
  PROVE  SessionIInv'
<1>1. SessionsTyped'
  BY DEF SessionIInv, SessionsTyped
<1>2. Pages'
  BY DEF SessionIInv, Pages, Behind
<1>3. \A q \in Proc : requests'[q] \in RequestType /\ Good(requests'[q])
  BY DEF SessionIInv, SessionsTyped
<1>4. \A q \in Proc : Good(requests[q])'
  <2> SUFFICES ASSUME NEW q \in Proc PROVE Good(requests[q])'
    OBVIOUS
  <2>1. Good(requests'[q])
    BY <1>3
  <2>. QED
    BY <2>1 DEF Good, Entitled, Current, Dated, RoleOf, Behind
<1>. QED
  BY <1>1, <1>2, <1>4 DEF SessionIInv

LEMMA SessionOver ==
  ASSUME SessionIInv, NEW p \in Proc, RequestOver(p),
         UNCHANGED <<adminRole, guildAdmins, sessions, sessionIDs, page>>, misused' = {}
  PROVE  SessionIInv'
  BY SessionRestTyped, RestGood, SessionLocal DEF RequestOver

(* Whoever comes as far as a change has the right to it.                     *)
LEMMA NothingWrong ==
  ASSUME SessionIInv, NEW p \in Proc, requests[p].pc \notin Before \cup {"token", "scope"}
  PROVE  Wrongs(requests[p]) = {}
<1>. DEFINE it == requests[p]
<1>1. it \in RequestType /\ Entitled(it)
  BY DEF SessionIInv, SessionsTyped, Good
<1>. HIDE DEF it
<1>2. it.pc \notin Before \cup {"token", "scope"}
  BY DEF it
<1>3. /\ it.role \in Role /\ it.role # NoRoleRow /\ Passed(it.role, it.op)
      /\ ~it.guessed => it.role \in it.held
  BY <1>1, <1>2 DEF Entitled, Role, NoRoleRow
<1>4. ~(~it.guessed /\ \A r \in it.held : r = NoRoleRow \/ ~Passed(r, it.op))
  BY <1>3
<1>5. ~(~it.guessed /\ it.op \in GuildOps /\ "superadmin" \notin it.held /\ ~it.granted)
  <2>. SUFFICES ASSUME ~it.guessed, it.op \in GuildOps, "superadmin" \notin it.held, ~it.granted PROVE FALSE
    OBVIOUS
  <2>1. it.role # "admin"
    BY <1>1, <1>2 DEF Entitled
  <2>2. it.role # "viewer"
    BY <1>3 DEF Passed, GuildOps, View, ConsoleOps, AdminOps
  <2>3. it.role # "superadmin"
    BY <1>3
  <2>. QED
    BY <1>3, <2>1, <2>2, <2>3 DEF Role
<1>6. ~it.token.old
  <2>1. it.token.id = it.sess.id /\ it.token.epoch = it.sess.epoch /\ it.pc # "idle"
    BY <1>1, <1>2 DEF Entitled, Matches, Before
  <2>2. it.sess \in SessionType /\ it.token \in Token
    BY <1>1, <2>1 DEF Entitled, RequestType
  <2>3. it.token.old => it.token.epoch < it.sess.epoch
    BY <1>1, <2>1 DEF Entitled
  <2>4. it.sess.epoch \in Nat /\ it.token.old \in BOOLEAN
    BY <2>2 DEF SessionType, Token
  <2>. QED
    BY <2>1, <2>3, <2>4
<1>7. Wrongs(it) = {}
  BY <1>4, <1>5, <1>6 DEF Wrongs
<1>. QED
  BY <1>7 DEF it

---------------------------------------------------------------------------
LEMMA LoginStep ==
  ASSUME SessionIInv, NEW u \in User, Login(u)
  PROVE  SessionIInv'
<1>1. /\ sessionIDs \in Nat /\ sessionIDs' = sessionIDs + 1
      /\ sessions' = [sessions EXCEPT ![u] = [id |-> sessionIDs + 1, epoch |-> 0]]
      /\ UNCHANGED <<adminRole, guildAdmins, page, requests, misused>>
  BY DEF Login, SessionIInv, SessionsTyped
<1>2. sessions' \in [User -> SessionType \cup {NoSession}]
  BY <1>1 DEF SessionIInv, SessionsTyped, SessionType
<1>3. SessionsTyped'
  BY <1>1, <1>2 DEF SessionIInv, SessionsTyped
<1>4. ASSUME NEW t, NEW w \in User, NEW old, t.id \in Nat, Behind(t, w, old)
      PROVE  Behind(t, w, old)'
  BY <1>1, <1>4 DEF Behind, SessionIInv, SessionsTyped, SessionType
<1>5. Pages'
  <2>1. \A w \in User : page[w].id \in Nat
    BY DEF SessionIInv, SessionsTyped, Token
  <2>2. \A w \in User : sessions'[w] # NoSession => sessions'[w].id <= sessionIDs'
    BY <1>1 DEF SessionIInv, SessionsTyped, Pages, SessionType
  <2>3. \A w \in User : Behind(page[w], w, page[w].old)'
    BY <1>1, <1>4, <2>1 DEF SessionIInv, Pages
  <2>. QED
    BY <2>2, <2>3 DEF Pages
<1>6. \A p \in Proc : Good(requests[p])'
  <2>. SUFFICES ASSUME NEW p \in Proc PROVE Good(requests[p])'
    OBVIOUS
  <2>1. Good(requests[p]) /\ requests[p] \in RequestType
    BY DEF SessionIInv, SessionsTyped
  <2>2. Entitled(requests[p])' /\ Current(requests[p])'
    BY <1>1, <2>1 DEF Good, Entitled, Current, RoleOf
  <2>3. requests[p].pc # "idle" => requests[p].sess.id \in Nat /\ requests[p].user \in User
    BY <2>1 DEF Good, Entitled, RequestType, SessionType
  <2>4. Dated(requests[p])'
    BY <1>1, <1>4, <2>1, <2>3 DEF Good, Dated
  <2>. QED
    BY <2>2, <2>4 DEF Good
<1>. QED
  BY <1>1, <1>3, <1>5, <1>6 DEF SessionIInv

(* Sessions end; nothing else changes but one request.                       *)
LEMMA Ending ==
  ASSUME SessionIInv, NEW p \in Proc, NEW x \in RequestType, Good(x),
         requests' = [requests EXCEPT ![p] = x] \/ UNCHANGED requests,
         sessions' \in [User -> SessionType \cup {NoSession}],
         \A u \in User : sessions'[u] = NoSession \/ sessions'[u] = sessions[u],
         UNCHANGED <<adminRole, guildAdmins, sessionIDs, page, misused>>
  PROVE  SessionIInv'
<1>1. SessionsTyped'
  BY DEF SessionIInv, SessionsTyped
<1>2. Pages'
  BY DEF SessionIInv, Pages, Behind
<1>3. \A q \in Proc : requests'[q] \in RequestType /\ Good(requests'[q])
  BY DEF SessionIInv, SessionsTyped
<1>4. \A q \in Proc : Good(requests[q])'
  <2> SUFFICES ASSUME NEW q \in Proc PROVE Good(requests[q])'
    OBVIOUS
  <2>1. Good(requests'[q]) /\ requests'[q].user \in User
    BY <1>3 DEF RequestType
  <2>. QED
    BY <2>1 DEF Good, Entitled, Current, Dated, RoleOf, Behind
<1>. QED
  BY <1>1, <1>2, <1>4 DEF SessionIInv

LEMMA LogoutStep ==
  ASSUME SessionIInv, NEW u \in User, Logout(u)
  PROVE  SessionIInv'
<1>1. /\ sessions' = [sessions EXCEPT ![u] = NoSession]
      /\ UNCHANGED <<adminRole, guildAdmins, sessionIDs, page, requests, misused>>
  BY DEF Logout
<1>2. /\ sessions' \in [User -> SessionType \cup {NoSession}]
      /\ \A w \in User : sessions'[w] = NoSession \/ sessions'[w] = sessions[w]
  BY <1>1 DEF SessionIInv, SessionsTyped
<1>3. SessionsTyped' /\ Pages'
  BY <1>1, <1>2 DEF SessionIInv, SessionsTyped, Pages, Behind
<1>4. \A p \in Proc : Good(requests[p])'
  <2>. SUFFICES ASSUME NEW p \in Proc PROVE Good(requests[p])'
    OBVIOUS
  <2>1. Good(requests[p]) /\ requests[p].user \in User
    BY DEF SessionIInv, SessionsTyped, RequestType
  <2>. QED
    BY <1>1, <1>2, <2>1 DEF Good, Entitled, Current, Dated, RoleOf, Behind
<1>. QED
  BY <1>1, <1>3, <1>4 DEF SessionIInv

LEMMA RequestStep ==
  ASSUME SessionIInv, NEW p \in Proc, Request(p)
  PROVE  SessionIInv'
<1>1. PICK u \in User, op \in View \cup GuildOps \cup ConsoleOps \cup AdminOps :
          /\ sessions[u] # NoSession
          /\ requests' = [requests EXCEPT ![p] =
                [NoRequest EXCEPT !.pc = "role", !.user = u, !.op = op, !.sess = sessions[u], !.token = page[u],
                                  !.held = {RoleOf(u)}, !.granted = u \in guildAdmins]]
  BY DEF Request
<1>. DEFINE x == [NoRequest EXCEPT !.pc = "role", !.user = u, !.op = op, !.sess = sessions[u], !.token = page[u],
                                   !.held = {RoleOf(u)}, !.granted = u \in guildAdmins]
<1>2. sessions[u] \in SessionType /\ page[u] \in Token /\ RoleOf(u) \in RoleOrNone /\ (u \in guildAdmins) \in BOOLEAN
  BY <1>1, RoleTyped DEF SessionIInv, SessionsTyped
<1>3. x \in RequestType
  BY <1>2, SessionRestTyped DEF RequestType, RequestSteps, Before, Ops
<1>4. /\ x.pc = "role" /\ x.user = u /\ x.sess = sessions[u] /\ x.token = page[u] /\ x.held = {RoleOf(u)}
      /\ x.granted = (u \in guildAdmins) /\ x.aged = FALSE
  BY DEF NoRequest
<1>5. requests' = [requests EXCEPT ![p] = x]
  BY <1>1
<1>. HIDE DEF x
<1>6. /\ page[u].old /\ page[u].id = sessions[u].id => page[u].epoch < sessions[u].epoch
      /\ sessions[u].id <= sessionIDs
  BY <1>1 DEF SessionIInv, Pages, Behind
<1>7. Good(x)
  <2>1. Entitled(x)
    BY <1>2, <1>4, <1>6 DEF Entitled, Before
  <2>2. Current(x)
    BY <1>4 DEF Current
  <2>3. Dated(x)
    BY <1>2, <1>4, <1>6 DEF Dated, Behind, SessionType
  <2>. QED
    BY <2>1, <2>2, <2>3 DEF Good
<1>. QED
  BY <1>3, <1>5, <1>7, SessionLocal DEF Request, SessionIInv

LEMMA ResolveStep ==
  ASSUME SessionIInv, NEW p \in Proc, ResolveRole(p)
  PROVE  SessionIInv'
<1>. DEFINE it == requests[p]
            fallback == IF it.user \in Seed THEN "superadmin" ELSE NoRoleRow
<1>1. it \in RequestType /\ Good(it) /\ it.pc = "role"
  BY DEF SessionIInv, SessionsTyped, ResolveRole
<1>2. UNCHANGED <<adminRole, guildAdmins, sessions, sessionIDs, page>> /\ misused' = {}
  BY DEF ResolveRole, SessionIInv
<1>3. ASSUME NEW role \in RoleOrNone, NEW guessed \in BOOLEAN, ~guessed => role \in it.held,
             requests' = [requests EXCEPT ![p] =
                  IF role = NoRoleRow THEN [@ EXCEPT !.pc = "drop"]
                  ELSE IF Passed(role, it.op) THEN [@ EXCEPT !.pc = "token", !.role = role, !.guessed = guessed]
                  ELSE NoRequest]
      PROVE  SessionIInv'
  <2>1. CASE role = NoRoleRow
    <3>. DEFINE x == [it EXCEPT !.pc = "drop"]
    <3>1. x \in RequestType
      BY <1>1 DEF RequestType, RequestSteps, Before
    <3>2. Good(x)
      BY <1>1 DEF Good, Entitled, Current, Dated, Before, RequestType
    <3>3. requests' = [requests EXCEPT ![p] = x]
      BY <1>3, <2>1 DEF SessionIInv, SessionsTyped
    <3>. HIDE DEF x
    <3>. QED
      BY <1>2, <3>1, <3>2, <3>3, SessionLocal
  <2>2. CASE role # NoRoleRow /\ Passed(role, it.op)
    <3>. DEFINE x == [it EXCEPT !.pc = "token", !.role = role, !.guessed = guessed]
    <3>1. x \in RequestType
      BY <1>1 DEF RequestType, RequestSteps
    <3>2. role \in Role
      BY <2>2 DEF RoleOrNone
    <3>3. Good(x)
      BY <1>1, <1>3, <2>2, <3>2 DEF Good, Entitled, Current, Dated, Before, RequestType
    <3>4. requests' = [requests EXCEPT ![p] = x]
      BY <1>3, <2>2 DEF SessionIInv, SessionsTyped
    <3>. HIDE DEF x
    <3>. QED
      BY <1>2, <3>1, <3>3, <3>4, SessionLocal
  <2>3. CASE role # NoRoleRow /\ ~Passed(role, it.op)
    BY <1>2, <1>3, <2>3, SessionOver DEF RequestOver
  <2>. QED
    BY <2>1, <2>2, <2>3
<1>4. fallback \in RoleOrNone /\ RoleOf(it.user) \in RoleOrNone /\ RoleOf(it.user) \in it.held
  BY <1>1, RoleTyped DEF RoleOrNone, Role, SessionIInv, SessionsTyped, RequestType, Good, Current
<1>5. ~(adminRole[it.user] # NoRoleRow) => fallback = RoleOf(it.user)
  BY DEF RoleOf
<1>6. (adminRole[it.user] # NoRoleRow) \in BOOLEAN
  OBVIOUS
<1>. QED
  BY <1>3, <1>4, <1>5, <1>6 DEF ResolveRole

LEMMA DropStep ==
  ASSUME SessionIInv, NEW p \in Proc, DropSession(p)
  PROVE  SessionIInv'
<1>1. /\ requests' = [requests EXCEPT ![p] = NoRequest]
      /\ UNCHANGED <<adminRole, guildAdmins, sessionIDs, page, misused>>
  BY DEF DropSession, RequestOver
<1>2. /\ sessions' \in [User -> SessionType \cup {NoSession}]
      /\ \A w \in User : sessions'[w] = NoSession \/ sessions'[w] = sessions[w]
  BY DEF DropSession, SessionIInv, SessionsTyped
<1>. QED
  BY <1>1, <1>2, SessionRestTyped, RestGood, Ending

LEMMA TokenStep ==
  ASSUME SessionIInv, NEW p \in Proc, CheckToken(p)
  PROVE  SessionIInv'
<1>. DEFINE it == requests[p]
<1>1. it \in RequestType /\ Good(it) /\ it.pc = "token" /\ it.sess \in SessionType
  BY DEF SessionIInv, SessionsTyped, CheckToken, Good, Entitled
<1>2. UNCHANGED <<adminRole, guildAdmins, sessions, sessionIDs, misused>>
  BY DEF CheckToken
<1>3. CASE it.op \in View
  <2>. DEFINE x == [id |-> it.sess.id, epoch |-> it.sess.epoch, old |-> it.aged]
  <2>1. /\ page' = [page EXCEPT ![it.user] = x]
        /\ requests' = [requests EXCEPT ![p] = NoRequest]
    BY <1>3 DEF CheckToken, RequestOver
  <2>2. x \in Token /\ it.user \in User
    BY <1>1 DEF RequestType, SessionType, Token
  <2>3. Behind(x, it.user, x.old)
    BY <1>1 DEF Good, Dated, Behind
  <2>. HIDE DEF x
  <2>4. SessionsTyped'
    BY <1>2, <2>1, <2>2, SessionRestTyped DEF SessionIInv, SessionsTyped
  <2>5. Pages'
    BY <1>2, <2>1, <2>2, <2>3 DEF SessionIInv, SessionsTyped, Pages, Behind
  <2>6. \A q \in Proc : Good(requests'[q])
    BY <2>1, RestGood DEF SessionIInv, SessionsTyped
  <2>7. \A q \in Proc : Good(requests[q])'
    <3> SUFFICES ASSUME NEW q \in Proc PROVE Good(requests[q])'
      OBVIOUS
    <3>1. Good(requests'[q])
      BY <2>6
    <3>. QED
      BY <1>2, <3>1 DEF Good, Entitled, Current, Dated, RoleOf, Behind
  <2>. QED
    BY <1>2, <2>4, <2>5, <2>7 DEF SessionIInv
<1>4. CASE it.op \notin View /\ ~ValidateCSRF(it.token, it.sess)
  BY <1>2, <1>4, SessionOver DEF CheckToken, RequestOver, SessionIInv
<1>5. CASE it.op \notin View /\ ValidateCSRF(it.token, it.sess)
  <2>. DEFINE pc == IF it.op \in GuildOps /\ it.role = "admin" THEN "scope" ELSE it.op
              x == [it EXCEPT !.pc = pc]
  <2>1. requests' = [requests EXCEPT ![p] = x] /\ UNCHANGED page
    BY <1>5 DEF CheckToken, SessionIInv, SessionsTyped
  <2>2. pc \in RequestSteps /\ pc \notin Before /\ pc # "token"
    BY <1>1, <1>5 DEF RequestSteps, RequestType, Ops, View, GuildOps, ConsoleOps, AdminOps, Before
  <2>3. pc # "scope" => (it.op \in GuildOps => it.role # "admin")
    BY <1>1, <1>5 DEF GuildOps, ConsoleOps, AdminOps, View
  <2>. HIDE DEF pc
  <2>4. x \in RequestType
    BY <1>1, <2>2 DEF RequestType
  <2>5. Good(x)
    <3>1. /\ x.pc = pc /\ x.user = it.user /\ x.op = it.op /\ x.sess = it.sess /\ x.role = it.role /\ x.token = it.token
          /\ x.held = it.held /\ x.granted = it.granted /\ x.aged = it.aged /\ x.guessed = it.guessed
      BY <1>1 DEF RequestType
    <3>. HIDE DEF x
    <3>2. Entitled(x)
      BY <1>1, <1>5, <2>2, <2>3, <3>1 DEF Good, Entitled, Matches, ValidateCSRF, Before
    <3>3. Current(x) /\ Dated(x)
      BY <1>1, <3>1 DEF Good, Current, Dated
    <3>. QED
      BY <3>2, <3>3 DEF Good
  <2>. HIDE DEF x
  <2>. QED
    BY <1>2, <2>1, <2>4, <2>5, SessionLocal DEF SessionIInv
<1>. QED
  BY <1>3, <1>4, <1>5

LEMMA ScopeStep ==
  ASSUME SessionIInv, NEW p \in Proc, CanManageGuild(p)
  PROVE  SessionIInv'
<1>. DEFINE it == requests[p]
<1>1. it \in RequestType /\ Good(it) /\ it.pc = "scope"
  BY DEF SessionIInv, SessionsTyped, CanManageGuild
<1>2. UNCHANGED <<adminRole, guildAdmins, sessions, sessionIDs, page>> /\ misused' = {}
  BY DEF CanManageGuild, SessionIInv
<1>3. CASE RequestOver(p)
  BY <1>2, <1>3, SessionOver
<1>4. CASE it.user \in guildAdmins /\ requests' = [requests EXCEPT ![p].pc = it.op]
  <2>. DEFINE x == [it EXCEPT !.pc = it.op]
  <2>1. requests' = [requests EXCEPT ![p] = x]
    BY <1>4 DEF SessionIInv, SessionsTyped
  <2>2. it.op \in RequestSteps /\ it.op \notin View
    BY <1>1 DEF Good, Entitled, Before, RequestSteps, RequestType, Ops
  <2>3. x \in RequestType
    BY <1>1, <2>2 DEF RequestType
  <2>4. /\ x.pc = it.op /\ x.user = it.user /\ x.op = it.op /\ x.sess = it.sess /\ x.role = it.role /\ x.token = it.token
        /\ x.held = it.held /\ x.granted = it.granted /\ x.aged = it.aged /\ x.guessed = it.guessed
    BY <1>1 DEF RequestType
  <2>. HIDE DEF x
  <2>5. it.granted
    BY <1>1, <1>4 DEF Good, Current
  <2>6. Entitled(x)
    BY <1>1, <2>2, <2>4, <2>5 DEF Good, Entitled, Matches, Before
  <2>7. Current(x) /\ Dated(x)
    BY <1>1, <2>4 DEF Good, Current, Dated
  <2>. QED
    BY <1>2, <2>1, <2>3, <2>6, <2>7, SessionLocal DEF Good
<1>. QED
  BY <1>3, <1>4 DEF CanManageGuild

LEMMA MutateStep ==
  ASSUME SessionIInv, NEW p \in Proc, Mutate(p)
  PROVE  SessionIInv'
<1>1. Wrongs(requests[p]) = {}
  BY NothingWrong DEF Mutate, Before
<1>2. misused' = {}
  BY <1>1 DEF Mutate, Judges, SessionIInv
<1>. QED
  BY <1>2, SessionOver DEF Mutate

(* The tables change, and every request under way takes note.                *)
LEMMA ChangeStep ==
  ASSUME SessionIInv, NEW p \in Proc, NEW roles \in [User -> RoleOrNone], NEW grants \in SUBSET User,
         NEW pc \in {"bump", "deleteGrants"}, NEW target \in User,
         requests[p].pc \in AdminOps \cup {"deleteGrants"},
         Changes(p, roles, grants, pc, target)
  PROVE  SessionIInv'
<1>. DEFINE rs == [requests EXCEPT ![p].pc = pc, ![p].target = target]
            Now(u) == IF roles[u] # NoRoleRow THEN roles[u] ELSE IF u \in Seed THEN "superadmin" ELSE NoRoleRow
<1>1. /\ adminRole' = roles /\ guildAdmins' = grants
      /\ UNCHANGED <<sessions, sessionIDs, page>>
      /\ requests' = Seen(rs, roles, grants)
  BY DEF Changes
<1>2. misused' = {}
  BY NothingWrong DEF Changes, Judges, SessionIInv, Before, ConsoleOps, AdminOps
<1>3. \A u \in User : RoleOf(u)' = Now(u) /\ Now(u) \in RoleOrNone
  BY <1>1 DEF RoleOf, RoleOrNone, Role
<1>4. ASSUME NEW q \in Proc
      PROVE  /\ rs[q] \in RequestType
             /\ (rs[q].pc = "idle") = (requests[q].pc = "idle")
             /\ rs[q].user = requests[q].user
             /\ Entitled(rs[q]) /\ Dated(rs[q])
  <2>1. requests[q] \in RequestType /\ Good(requests[q])
    BY DEF SessionIInv, SessionsTyped
  <2>2. CASE q # p
    BY <2>1, <2>2 DEF Good, SessionIInv, SessionsTyped
  <2>3. CASE q = p
    <3>. DEFINE x == [requests[p] EXCEPT !.pc = pc, !.target = target]
    <3>1. rs[q] = x
      BY <2>3 DEF SessionIInv, SessionsTyped
    <3>2. x \in RequestType
      BY <2>1, <2>3 DEF RequestType, RequestSteps
    <3>3. /\ x.pc = pc /\ x.user = requests[p].user /\ x.op = requests[p].op /\ x.sess = requests[p].sess
          /\ x.role = requests[p].role /\ x.token = requests[p].token /\ x.held = requests[p].held
          /\ x.granted = requests[p].granted /\ x.aged = requests[p].aged /\ x.guessed = requests[p].guessed
      BY <2>1, <2>3 DEF RequestType
    <3>. HIDE DEF x
    <3>4. requests[p].pc \notin Before \cup {"token", "scope"}
      BY DEF AdminOps, Before
    <3>5. Entitled(x)
      BY <2>1, <2>3, <3>3, <3>4 DEF Good, Entitled, Matches, Before
    <3>6. Dated(x)
      BY <2>1, <2>3, <3>3, <3>4 DEF Good, Dated, Before
    <3>7. x.pc # "idle" /\ requests[p].pc # "idle"
      BY <3>3, <3>4 DEF Before
    <3>. QED
      BY <2>3, <3>1, <3>2, <3>3, <3>5, <3>6, <3>7
  <2>. QED
    BY <2>2, <2>3
<1>. HIDE DEF rs
<1>5. ASSUME NEW q \in Proc
      PROVE  requests'[q] \in RequestType /\ Good(requests[q])'
  <2>. DEFINE y == rs[q]
              x == [y EXCEPT !.held = IF y.pc = "idle" THEN {} ELSE @ \cup {Now(y.user)},
                             !.granted = y.pc # "idle" /\ (@ \/ y.user \in grants)]
  <2>1. requests'[q] = x
    BY <1>1 DEF Seen
  <2>2. y \in RequestType /\ Entitled(y) /\ Dated(y)
    BY <1>4
  <2>3. y.user \in User /\ y.held \in SUBSET RoleOrNone /\ Now(y.user) \in RoleOrNone
    BY <1>3, <2>2 DEF RequestType
  <2>4. x \in RequestType
    BY <2>2, <2>3 DEF RequestType
  <2>5. /\ x.pc = y.pc /\ x.user = y.user /\ x.op = y.op /\ x.sess = y.sess /\ x.role = y.role /\ x.token = y.token
        /\ x.aged = y.aged /\ x.guessed = y.guessed
        /\ y.pc # "idle" => x.held = y.held \cup {Now(y.user)}
    BY <2>2 DEF RequestType
  <2>6. y.pc # "idle" => (x.granted <=> y.granted \/ y.user \in grants)
    BY <2>2 DEF RequestType
  <2>. HIDE DEF x, y
  <2>7. Entitled(x)
    BY <2>2, <2>5, <2>6 DEF Entitled, Matches, Before
  <2>8. x.pc # "idle" => /\ Now(x.user) \in x.held
                         /\ x.user \in grants => x.granted
    BY <2>5, <2>6
  <2>9. Dated(x)
    BY <2>2, <2>5 DEF Dated
  <2>11. Entitled(requests[q])'
    BY <2>1, <2>7 DEF Entitled
  <2>12. Current(requests[q])'
    BY <1>1, <2>1, <2>8 DEF Current, RoleOf
  <2>13. Dated(requests[q])'
    BY <1>1, <2>1, <2>9 DEF Dated, Behind
  <2>. QED
    BY <2>1, <2>4, <2>11, <2>12, <2>13 DEF Good
<1>6. requests' \in [Proc -> RequestType]
  BY <1>1, <1>5 DEF Seen
<1>7. SessionsTyped'
  BY <1>1, <1>6 DEF SessionIInv, SessionsTyped
<1>8. Pages'
  BY <1>1 DEF SessionIInv, Pages, Behind
<1>. QED
  BY <1>2, <1>5, <1>7, <1>8 DEF SessionIInv

LEMMA TableSteps ==
  ASSUME SessionIInv, NEW p \in Proc,
         AdminsRole(p) \/ GuildAdminGrant(p) \/ GuildAdminRevoke(p) \/ AdminsDelete(p)
  PROVE  SessionIInv'
<1>. USE DEF ConsoleOps, AdminOps
<1>1. adminRole \in [User -> RoleOrNone] /\ guildAdmins \in SUBSET User
  BY DEF SessionIInv, SessionsTyped
<1>2. CASE AdminsRole(p)
  <2>1. PICK u \in User, r \in Role : Changes(p, [adminRole EXCEPT ![u] = r], guildAdmins, "bump", u)
    BY <1>2 DEF AdminsRole
  <2>2. [adminRole EXCEPT ![u] = r] \in [User -> RoleOrNone]
    BY <1>1 DEF RoleOrNone
  <2>. QED
    BY <1>1, <1>2, <2>1, <2>2, ChangeStep DEF AdminsRole
<1>3. CASE GuildAdminGrant(p)
  <2>1. PICK u \in User : Changes(p, adminRole, guildAdmins \cup {u}, "bump", u)
    BY <1>3 DEF GuildAdminGrant
  <2>2. guildAdmins \cup {u} \in SUBSET User
    BY <1>1
  <2>. QED
    BY <1>1, <1>3, <2>1, <2>2, ChangeStep DEF GuildAdminGrant
<1>4. CASE GuildAdminRevoke(p)
  <2>1. PICK u \in User : Changes(p, adminRole, guildAdmins \ {u}, "bump", u)
    BY <1>4 DEF GuildAdminRevoke
  <2>2. guildAdmins \ {u} \in SUBSET User
    BY <1>1
  <2>. QED
    BY <1>1, <1>4, <2>1, <2>2, ChangeStep DEF GuildAdminRevoke
<1>5. CASE AdminsDelete(p)
  <2>1. PICK u \in User : Changes(p, [adminRole EXCEPT ![u] = NoRoleRow], guildAdmins, "deleteGrants", u)
    BY <1>5 DEF AdminsDelete
  <2>2. [adminRole EXCEPT ![u] = NoRoleRow] \in [User -> RoleOrNone]
    BY <1>1 DEF RoleOrNone
  <2>. QED
    BY <1>1, <1>5, <2>1, <2>2, ChangeStep DEF AdminsDelete
<1>. QED
  BY <1>2, <1>3, <1>4, <1>5

LEMMA GrantsStep ==
  ASSUME SessionIInv, NEW p \in Proc, DeleteGrants(p)
  PROVE  SessionIInv'
<1>1. CASE RequestOver(p) /\ UNCHANGED <<adminRole, guildAdmins, sessions, sessionIDs, page, misused>>
  BY <1>1, SessionOver DEF SessionIInv
<1>2. CASE LET u == requests[p].target IN Changes(p, adminRole, guildAdmins \ {u}, "bump", u)
  <2>. DEFINE u == requests[p].target
  <2>1. u \in User /\ adminRole \in [User -> RoleOrNone] /\ guildAdmins \ {u} \in SUBSET User
    BY DEF SessionIInv, SessionsTyped, RequestType
  <2>2. Changes(p, adminRole, guildAdmins \ {u}, "bump", u)
    BY <1>2
  <2>3. requests[p].pc \in AdminOps \cup {"deleteGrants"}
    BY DEF DeleteGrants
  <2>. HIDE DEF u
  <2>. QED
    BY <2>1, <2>2, <2>3, ChangeStep
<1>. QED
  BY <1>1, <1>2 DEF DeleteGrants

(* The epochs are raised: what was there before is behind.                   *)
LEMMA BumpStep ==
  ASSUME SessionIInv, NEW p \in Proc, BumpEpochs(p)
  PROVE  SessionIInv'
<1>1. UNCHANGED <<adminRole, guildAdmins, sessionIDs, misused>>
  BY DEF BumpEpochs
<1>2. CASE RequestOver(p) /\ UNCHANGED <<sessions, page>>
  BY <1>1, <1>2, SessionOver DEF SessionIInv
<1>3. CASE /\ sessions' = [u \in User |-> IF sessions[u] = NoSession THEN NoSession ELSE [sessions[u] EXCEPT !.epoch = @ + 1]]
           /\ page' = [u \in User |-> [page[u] EXCEPT !.old = TRUE]]
           /\ requests' = [q \in Proc |-> IF q = p THEN NoRequest ELSE [requests[q] EXCEPT !.aged = requests[q].pc # "idle"]]
  <2>1. ASSUME NEW u \in User, sessions[u] # NoSession
        PROVE  /\ sessions[u] \in SessionType /\ sessions'[u] \in SessionType
               /\ sessions'[u].id = sessions[u].id /\ sessions'[u].epoch = sessions[u].epoch + 1
    BY <1>3, <2>1 DEF SessionIInv, SessionsTyped, SessionType
  <2>2. \A u \in User : sessions[u] = NoSession => sessions'[u] = NoSession
    BY <1>3
  <2>3. \A u \in User : sessions'[u] # NoSession => sessions[u] # NoSession
    BY <2>2
  <2>4. sessions' \in [User -> SessionType \cup {NoSession}]
    BY <1>3, <2>1, <2>2
  <2>5. ASSUME NEW u \in User
        PROVE  /\ page[u] \in Token /\ page'[u] \in Token
               /\ page'[u].id = page[u].id /\ page'[u].epoch = page[u].epoch
    BY <1>3 DEF SessionIInv, SessionsTyped, Token
  <2>6. page' \in [User -> Token]
    BY <1>3, <2>5
  <2>8. Pages'
    <3>1. \A u \in User : sessions'[u] # NoSession => sessions'[u].id <= sessionIDs'
      BY <1>1, <2>1, <2>3 DEF SessionIInv, Pages
    <3>2. ASSUME NEW u \in User PROVE Behind(page[u], u, page[u].old)'
      <4>1. page[u].id \in Nat /\ page[u].epoch \in Nat /\ Behind(page[u], u, page[u].old)
        BY <2>5 DEF Token, SessionIInv, Pages
      <4>2. sessions'[u] # NoSession =>
              /\ sessions[u] # NoSession /\ sessions'[u].id = sessions[u].id
              /\ sessions'[u].epoch = sessions[u].epoch + 1 /\ sessions[u].epoch \in Nat
        BY <2>1, <2>3 DEF SessionType
      <4>. QED
        BY <1>1, <2>5, <4>1, <4>2 DEF Behind
    <3>. QED
      BY <3>1, <3>2 DEF Pages
  <2>9. ASSUME NEW q \in Proc
        PROVE  requests'[q] \in RequestType /\ Good(requests[q])'
    <3>1. CASE q = p
      <4>1. requests'[q] = NoRequest
        BY <1>3, <3>1
      <4>. QED
        BY <4>1, SessionRestTyped DEF Good, Entitled, Current, Dated, Before
    <3>2. CASE q # p
      <4>. DEFINE y == requests[q]
                  x == [y EXCEPT !.aged = y.pc # "idle"]
      <4>1. requests'[q] = x
        BY <1>3, <3>2
      <4>2. y \in RequestType /\ Good(y)
        BY DEF SessionIInv, SessionsTyped
      <4>3. x \in RequestType
        BY <4>2 DEF RequestType
      <4>4. /\ x.pc = y.pc /\ x.user = y.user /\ x.op = y.op /\ x.sess = y.sess /\ x.role = y.role /\ x.token = y.token
            /\ x.held = y.held /\ x.granted = y.granted /\ x.guessed = y.guessed /\ y.user \in User
        BY <4>2 DEF RequestType
      <4>. HIDE DEF x
      <4>5. Entitled(x)
        BY <4>2, <4>4 DEF Good, Entitled, Matches, Before
      <4>6. Entitled(requests[q])'
        BY <4>1, <4>5 DEF Entitled
      <4>7. Current(requests[q])'
        BY <1>1, <4>1, <4>2, <4>4 DEF Good, Current, RoleOf
      <4>8. Dated(requests[q])'
        <5>1. CASE y.pc # "idle"
          <6>1. y.sess.id \in Nat /\ y.sess.epoch \in Nat /\ Behind(y.sess, y.user, y.aged)
            BY <4>2, <5>1 DEF Good, Entitled, Dated, SessionType
          <6>2. sessions'[y.user] # NoSession =>
                  /\ sessions[y.user] # NoSession /\ sessions'[y.user].id = sessions[y.user].id
                  /\ sessions'[y.user].epoch = sessions[y.user].epoch + 1 /\ sessions[y.user].epoch \in Nat
            BY <2>1, <2>3, <4>4 DEF SessionType
          <6>. QED
            BY <1>1, <4>1, <4>4, <6>1, <6>2 DEF Dated, Behind
        <5>2. CASE y.pc = "idle"
          BY <4>1, <4>4, <5>2 DEF Dated
        <5>. QED
          BY <5>1, <5>2
      <4>. QED
        BY <4>1, <4>3, <4>6, <4>7, <4>8 DEF Good
    <3>. QED
      BY <3>1, <3>2
  <2>10. requests' \in [Proc -> RequestType]
    BY <1>3, <2>9
  <2>11. SessionsTyped'
    BY <1>1, <2>4, <2>6, <2>10 DEF SessionIInv, SessionsTyped
  <2>. QED
    BY <1>1, <2>8, <2>9, <2>11 DEF SessionIInv
<1>. QED
  BY <1>2, <1>3 DEF BumpEpochs

LEMMA LogoutAllStep ==
  ASSUME SessionIInv, NEW p \in Proc, LogoutAll(p)
  PROVE  SessionIInv'
<1>1. /\ UNCHANGED <<adminRole, guildAdmins, sessionIDs>>
      /\ \A u \in User : sessions'[u] = NoSession
      /\ sessions' \in [User -> SessionType \cup {NoSession}]
      /\ page' = [u \in User |-> [page[u] EXCEPT !.old = TRUE]]
      /\ requests' = [q \in Proc |-> IF q = p THEN NoRequest ELSE [requests[q] EXCEPT !.aged = requests[q].pc # "idle"]]
  BY DEF LogoutAll
<1>2. misused' = {}
  BY NothingWrong DEF LogoutAll, Judges, SessionIInv, Before
<1>3. ASSUME NEW u \in User
      PROVE  page'[u] \in Token /\ page'[u].id <= sessionIDs
  <2>1. page[u] \in Token /\ page[u].id <= sessionIDs
    BY DEF SessionIInv, SessionsTyped, Pages, Behind
  <2>. QED
    BY <1>1, <2>1 DEF Token
<1>4. page' \in [User -> Token]
  BY <1>1, <1>3
<1>5. Pages'
  BY <1>1, <1>3 DEF Pages, Behind
<1>6. ASSUME NEW q \in Proc
      PROVE  requests'[q] \in RequestType /\ Good(requests[q])'
  <2>1. CASE q = p
    <3>1. requests'[q] = NoRequest
      BY <1>1, <2>1
    <3>. QED
      BY <3>1, SessionRestTyped DEF Good, Entitled, Current, Dated, Before
  <2>2. CASE q # p
    <3>. DEFINE y == requests[q]
                x == [y EXCEPT !.aged = y.pc # "idle"]
    <3>1. requests'[q] = x
      BY <1>1, <2>2
    <3>2. y \in RequestType /\ Good(y)
      BY DEF SessionIInv, SessionsTyped
    <3>3. x \in RequestType
      BY <3>2 DEF RequestType
    <3>4. /\ x.pc = y.pc /\ x.user = y.user /\ x.op = y.op /\ x.sess = y.sess /\ x.role = y.role /\ x.token = y.token
          /\ x.held = y.held /\ x.granted = y.granted /\ x.guessed = y.guessed /\ y.user \in User
      BY <3>2 DEF RequestType
    <3>. HIDE DEF x
    <3>5. Entitled(x)
      BY <3>2, <3>4 DEF Good, Entitled, Matches, Before
    <3>6. Entitled(requests[q])'
      BY <3>1, <3>5 DEF Entitled
    <3>7. Current(requests[q])'
      BY <1>1, <3>1, <3>2, <3>4 DEF Good, Current, RoleOf
    <3>8. Dated(requests[q])'
      BY <1>1, <3>1, <3>2, <3>4 DEF Good, Dated, Behind
    <3>. QED
      BY <3>1, <3>3, <3>6, <3>7, <3>8 DEF Good
  <2>. QED
    BY <2>1, <2>2
<1>7. requests' \in [Proc -> RequestType]
  BY <1>1, <1>6
<1>8. SessionsTyped'
  BY <1>1, <1>4, <1>7 DEF SessionIInv, SessionsTyped
<1>. QED
  BY <1>2, <1>5, <1>6, <1>8 DEF SessionIInv

LEMMA RestartStep ==
  ASSUME SessionIInv, DashboardRestart
  PROVE  SessionIInv'
<1>1. requests' \in [Proc -> RequestType] /\ \A p \in Proc : requests'[p].pc = "idle"
  BY SessionRestTyped DEF DashboardRestart
<1>2. \A p \in Proc : Good(requests[p])'
  BY <1>1 DEF Good, Entitled, Current, Dated, Before
<1>3. SessionsTyped' /\ Pages'
  BY <1>1 DEF DashboardRestart, SessionIInv, SessionsTyped, Pages, Behind
<1>. QED
  BY <1>2, <1>3 DEF SessionIInv, DashboardRestart

LEMMA StutterStep ==
  ASSUME SessionIInv, UNCHANGED <<env, sessionVars>>
  PROVE  SessionIInv'
<1>. UNCHANGED <<adminRole, guildAdmins, sessions, sessionIDs, page, requests, misused>>
  BY DEF sessionVars
<1>1. SessionsTyped' /\ Pages'
  BY DEF SessionIInv, SessionsTyped, Pages, Behind
<1>2. \A p \in Proc : Good(requests[p])'
  BY DEF SessionIInv, Good, Entitled, Current, Dated, RoleOf, Behind
<1>. QED
  BY <1>1, <1>2 DEF SessionIInv

LEMMA SessionStepIInv == SessionIInv /\ [SessionsNext]_<<env, sessionVars>> => SessionIInv'
<1>. SUFFICES ASSUME SessionIInv, [SessionsNext]_<<env, sessionVars>> PROVE SessionIInv'
  OBVIOUS
<1>1. CASE \E u \in User : Login(u) \/ Logout(u)
  BY <1>1, LoginStep, LogoutStep
<1>2. ASSUME NEW p \in Proc,
             \/ Request(p) \/ ResolveRole(p) \/ DropSession(p) \/ CheckToken(p) \/ CanManageGuild(p)
             \/ Mutate(p) \/ AdminsRole(p) \/ GuildAdminGrant(p) \/ GuildAdminRevoke(p)
             \/ AdminsDelete(p) \/ DeleteGrants(p) \/ BumpEpochs(p) \/ LogoutAll(p)
      PROVE  SessionIInv'
  BY <1>2, RequestStep, ResolveStep, DropStep, TokenStep, ScopeStep, MutateStep, TableSteps, GrantsStep,
     BumpStep, LogoutAllStep
<1>. QED
  BY <1>1, <1>2, RestartStep, StutterStep DEF SessionsNext

(* A revoked right is gone: for any users, requests at once and failing      *)
(* calls nothing is done without the role and a page of this epoch, nor to a *)
(* guild (but for the console's message) without the grant.                 *)
THEOREM RightsHold == SessionsSpec => []RevokedIsOut
<1>1. SessionIInv => RevokedIsOut
  BY DEF SessionIInv, RevokedIsOut
<1>. QED
  BY <1>1, SessionInitIInv, SessionStepIInv, PTL DEF SessionsSpec

---------------------------------------------------------------------------
(* The types of sessions: none has the number nought.                        *)
Numbered == \A u \in User : sessions[u] # NoSession => sessions[u].id # 0

LEMMA SessionTypes == SessionIInv /\ Numbered => SessionsTypeOK
<1>. SUFFICES ASSUME SessionIInv, Numbered PROVE SessionsTypeOK
  OBVIOUS
<1>1. SessionsTyped /\ misused = {}
  BY DEF SessionIInv
<1>2. ASSUME NEW u \in User PROVE sessions[u] = NoSession \/ sessions[u] \in [id : 1..sessionIDs, epoch : Nat]
  <2>1. sessions[u] # NoSession => /\ sessions[u] \in SessionType
                                  /\ sessions[u].id <= sessionIDs /\ sessions[u].id # 0
    BY <1>1 DEF SessionIInv, Pages, SessionsTyped, Numbered
  <2>2. sessionIDs \in Nat
    BY <1>1 DEF SessionsTyped
  <2>. QED
    BY <2>1, <2>2 DEF SessionType
<1>3. ASSUME NEW p \in Proc
      PROVE LET it == requests[p] IN
          /\ it.pc \in {"idle", "role", "drop", "token", "scope", "deleteGrants", "bump"} \cup GuildOps \cup ConsoleOps \cup AdminOps
          /\ it.user \in User /\ it.target \in User /\ it.token \in Token
          /\ it.pc \in {"idle", "role", "drop"} \/ it.role \in Role
  <2>1. requests[p] \in RequestType /\ Entitled(requests[p])
    BY <1>1 DEF SessionIInv, SessionsTyped, Good
  <2>. QED
    BY <2>1 DEF RequestType, RequestSteps, Before, Entitled
<1>. QED
  BY <1>1, <1>2, <1>3 DEF SessionsTyped, SessionsTypeOK, RoleOrNone

LEMMA FirstNumbered == SessionsInit => Numbered
BY DEF SessionsInit, Numbered

LEMMA NumbersStay ==
  ASSUME SessionIInv, Numbered, [SessionsNext]_<<env, sessionVars>>
  PROVE  Numbered'
<1>1. sessions \in [User -> SessionType \cup {NoSession}] /\ sessionIDs \in Nat
  BY DEF SessionIInv, SessionsTyped
<1>2. ASSUME \A u \in User : \/ sessions'[u] = NoSession
                             \/ sessions[u] # NoSession /\ sessions'[u].id = sessions[u].id
                             \/ sessions'[u].id = sessionIDs + 1
      PROVE  Numbered'
  BY <1>1, <1>2 DEF Numbered
<1>3. CASE \E u \in User : Login(u) \/ Logout(u)
  BY <1>1, <1>2, <1>3 DEF Login, Logout
<1>4. ASSUME NEW p \in Proc, DropSession(p) PROVE Numbered'
  BY <1>1, <1>2, <1>4 DEF DropSession
<1>5. ASSUME NEW p \in Proc, BumpEpochs(p) PROVE Numbered'
  <2>1. CASE UNCHANGED sessions
    BY <2>1 DEF Numbered
  <2>2. CASE sessions' = [u \in User |-> IF sessions[u] = NoSession THEN NoSession ELSE [sessions[u] EXCEPT !.epoch = @ + 1]]
    <3>1. ASSUME NEW u \in User, sessions[u] # NoSession PROVE sessions'[u].id = sessions[u].id
      BY <1>1, <2>2, <3>1 DEF SessionType
    <3>. QED
      BY <1>2, <2>2, <3>1
  <2>. QED
    BY <1>5, <2>1, <2>2 DEF BumpEpochs
<1>6. ASSUME NEW p \in Proc, LogoutAll(p) PROVE Numbered'
  BY <1>2, <1>6 DEF LogoutAll
<1>7. CASE UNCHANGED sessions
  BY <1>7 DEF Numbered
<1>8. ASSUME NEW p \in Proc,
             \/ Request(p) \/ ResolveRole(p) \/ CheckToken(p) \/ CanManageGuild(p) \/ Mutate(p) \/ AdminsRole(p)
             \/ GuildAdminGrant(p) \/ GuildAdminRevoke(p) \/ AdminsDelete(p) \/ DeleteGrants(p)
      PROVE  UNCHANGED sessions
  BY <1>8, Zenon DEF Request, ResolveRole, CheckToken, CanManageGuild, Mutate, AdminsRole, GuildAdminGrant, GuildAdminRevoke,
              AdminsDelete, DeleteGrants, Changes
<1>9. DashboardRestart \/ UNCHANGED <<env, sessionVars>> => UNCHANGED sessions
  BY DEF DashboardRestart, sessionVars
<1>. QED
  BY <1>3, <1>4, <1>5, <1>6, <1>7, <1>8, <1>9 DEF SessionsNext

---------------------------------------------------------------------------
(* The dashboard as a whole.  The step of one part is a step of its own      *)
(* module; the others stay as they are, and so do their types and promises.  *)
Parts == {"config", "console", "lockout", "sessions"}
dashboardVars == <<feature, env, configVars, consoleVars, lockVars, sessionVars>>

ConfigJoined == IF feature = "config" THEN ConfigIInv ELSE ConfigTypeOK /\ ConfigKept
ConsoleJoined == IF feature = "console" THEN ConsoleIInv /\ ConsoleBounds ELSE ConsoleTypeOK /\ ConfirmOnce
LockJoined == IF feature = "lockout" THEN LockIInv /\ LockBounds ELSE LockTypeOK /\ LockHolds
SessionsJoined == IF feature = "sessions" THEN SessionIInv /\ Numbered ELSE SessionsTypeOK /\ RevokedIsOut

DashboardIInv ==
    /\ HandlersTypeOK /\ feature \in Parts
    /\ ConfigJoined /\ ConsoleJoined /\ LockJoined /\ SessionsJoined

(* What each part promises, by its own invariant.                            *)
LEMMA PartsKeep ==
  /\ ConfigIInv => ConfigTypeOK /\ ConfigKept
  /\ ConsoleIInv /\ ConsoleBounds => ConsoleTypeOK /\ ConfirmOnce
  /\ LockIInv /\ LockBounds => LockTypeOK /\ LockHolds
  /\ SessionIInv /\ Numbered => SessionsTypeOK /\ RevokedIsOut
<1>1. (ConfigIInv => ConfigKept) /\ (LockIInv => LockHolds) /\ (SessionIInv => RevokedIsOut)
  BY DEF ConfigIInv, LockIInv, SessionIInv, RevokedIsOut
<1>. QED
  BY <1>1, ConfigTypes, ConsoleTypes, ConsoleConfirmed, LockTypes, SessionTypes

LEMMA DashboardInitIInv == Init => DashboardIInv
<1>. SUFFICES ASSUME Init PROVE DashboardIInv
  OBVIOUS
<1>1. HandlersInit /\ ConfigInit /\ ConsoleInit /\ LockInit /\ SessionsInit /\ feature \in Parts
  BY Zenon DEF Init, Parts
<1>2. HandlersTypeOK
  BY <1>1, HandlersAssumption DEF HandlersInit, HandlersTypeOK, Time
<1>3. ConfigIInv /\ ConsoleIInv /\ ConsoleBounds
  BY <1>1, ConfigInitIInv, ConsoleInitIInv, ConsoleInitBounds
<1>4. LockIInv /\ LockBounds /\ SessionIInv /\ Numbered
  BY <1>1, LockInitIInv, LockInitBounds, SessionInitIInv, FirstNumbered
<1>. QED
  BY <1>1, <1>2, <1>3, <1>4, PartsKeep DEF DashboardIInv, ConfigJoined, ConsoleJoined, LockJoined, SessionsJoined

(* Who moves, and who does not.                                              *)
LEMMA OneMovesOn ==
  ASSUME [Next]_dashboardVars, feature \in Parts
  PROVE  /\ feature' = feature
         /\ feature = "config" => [ConfigNext]_<<env, configVars>>
         /\ feature # "config" => UNCHANGED configVars
         /\ feature = "console" => [ConsoleNext]_<<env, consoleVars>>
         /\ feature # "console" => UNCHANGED consoleVars
         /\ feature = "lockout" => [LockNext]_<<env, lockVars>>
         /\ feature # "lockout" => UNCHANGED lockVars
         /\ feature = "sessions" => [SessionsNext]_<<env, sessionVars>>
         /\ feature # "sessions" => UNCHANGED sessionVars
<1>1. CASE UNCHANGED dashboardVars
  <2>1. UNCHANGED <<feature, env, configVars, consoleVars, lockVars, sessionVars>>
    BY <1>1 DEF dashboardVars
  <2>. QED
    BY <2>1
<1>2. CASE Next
  BY <1>2 DEF Next, Parts
<1>. QED
  BY <1>1, <1>2

(* Whatever a step is, a call or a failure is counted, or time passes, or    *)
(* none of it.                                                               *)
LEMMA ConfigEnv ==
  ASSUME [ConfigNext]_<<env, configVars>>
  PROVE  Called \/ Fault \/ Passes \/ UNCHANGED env
<1>1. ASSUME NEW p \in Proc, SetGuildConfig(p) \/ SetServerPrefix(p) \/ ResolvePrefix(p) \/ SetProtection(p)
             \/ SetHoneypot(p) \/ SetFilter(p) \/ SetAntinuke(p) \/ SetWhitelist(p) \/ StarboardSet(p) \/ StarboardOff(p)
      PROVE  Called
  BY <1>1, Zenon DEF SetGuildConfig, SetServerPrefix, ResolvePrefix, SetProtection, SetHoneypot, SetFilter, SetAntinuke,
                     SetWhitelist, StarboardSet, StarboardOff, AsksOne, AsksList, Asks, Starts, Enters
<1>2. ASSUME NEW p \in Proc, LoadRow(p) \/ LoadFails(p) \/ FillGuild(p) \/ SaveRow(p) \/ CacheGuild(p)
      PROVE  Fault \/ UNCHANGED env
  BY <1>2, Zenon DEF LoadRow, LoadFails, FillGuild, SaveRow, CacheGuild
<1>3. ASSUME NEW p \in Proc, GuildPage(p) \/ GuildForm(p) \/ GuildPageLeft(p) \/ AutomateRule(p) \/ ExportGuild(p)
      PROVE  Called \/ UNCHANGED env
  BY <1>3, Zenon DEF GuildPage, GuildForm, GuildPageLeft, AutomateRule, ExportGuild, Starts, Enters
<1>4. ASSUME NEW p \in Proc, ExportSection(p) \/ ImportGuild(p) \/ ImportSection(p) \/ ImportCache(p)
             \/ ListRules(p) \/ ReplaceRules(p) \/ ImportDone(p)
      PROVE  Called \/ Fault \/ UNCHANGED env
  BY <1>4, Zenon DEF ExportSection, ImportGuild, ImportSection, ImportCache, ListRules, ReplaceRules, ImportDone, Starts, Enters
<1>5. ExpireGuild \/ ConfigRestart => Fault \/ UNCHANGED env
  BY Zenon DEF ExpireGuild, ConfigRestart
<1>. QED
  BY <1>1, <1>2, <1>3, <1>4, <1>5 DEF ConfigNext

LEMMA ConsoleEnv ==
  ASSUME [ConsoleNext]_<<env, consoleVars>>
  PROVE  Called \/ Fault \/ Passes \/ UNCHANGED env
BY DEF ConsoleNext, ConsoleStage, ConsoleConfirm, ConfirmConsume, ConsoleAct, SweepConfirmTokens, ConsoleTick, ConsoleRestart

LEMMA SessionsEnv ==
  ASSUME [SessionsNext]_<<env, sessionVars>>
  PROVE  Called \/ Fault \/ Passes \/ UNCHANGED env
<1>1. ASSUME NEW u \in User, Login(u) \/ Logout(u) PROVE Called
  BY <1>1, Zenon DEF Login, Logout
<1>2. ASSUME NEW p \in Proc, Request(p) \/ ResolveRole(p) \/ DropSession(p) \/ CheckToken(p) \/ CanManageGuild(p)
      PROVE  Called \/ Fault \/ UNCHANGED env
  BY <1>2, Zenon DEF Request, ResolveRole, DropSession, CheckToken, CanManageGuild
<1>3. ASSUME NEW p \in Proc, Mutate(p) \/ AdminsRole(p) \/ GuildAdminGrant(p) \/ GuildAdminRevoke(p)
             \/ AdminsDelete(p) \/ DeleteGrants(p) \/ BumpEpochs(p) \/ LogoutAll(p)
      PROVE  Fault \/ UNCHANGED env
  BY <1>3, Zenon DEF Mutate, AdminsRole, GuildAdminGrant, GuildAdminRevoke, AdminsDelete, DeleteGrants, BumpEpochs, LogoutAll, Changes
<1>4. DashboardRestart => Fault
  BY DEF DashboardRestart
<1>. QED
  BY <1>1, <1>2, <1>3, <1>4 DEF SessionsNext

LEMMA DashboardEnv ==
  ASSUME HandlersTypeOK, feature \in Parts, [Next]_dashboardVars
  PROVE  HandlersTypeOK'
<1>1. Called \/ Fault \/ Passes \/ UNCHANGED env
  BY OneMovesOn, ConfigEnv, ConsoleEnv, LockEnv, SessionsEnv DEF Parts
<1>. QED
  BY <1>1, EnvTypes

(* A part that is not picked keeps its types and its promise.                *)
LEMMA ConfigStays == UNCHANGED configVars /\ ConfigTypeOK /\ ConfigKept => (ConfigTypeOK /\ ConfigKept)'
BY DEF configVars, ConfigTypeOK, ConfigKept, Stored
LEMMA ConsoleStays == UNCHANGED consoleVars /\ ConsoleTypeOK /\ ConfirmOnce => (ConsoleTypeOK /\ ConfirmOnce)'
BY DEF consoleVars, ConsoleTypeOK, ConfirmOnce
LEMMA LockStays == UNCHANGED lockVars /\ LockTypeOK /\ LockHolds => (LockTypeOK /\ LockHolds)'
BY DEF lockVars, LockTypeOK, LockHolds
LEMMA SessionsStay == UNCHANGED sessionVars /\ SessionsTypeOK /\ RevokedIsOut => (SessionsTypeOK /\ RevokedIsOut)'
BY DEF sessionVars, SessionsTypeOK, RevokedIsOut

LEMMA DashboardNextIInv == DashboardIInv /\ [Next]_dashboardVars => DashboardIInv'
<1>. SUFFICES ASSUME DashboardIInv, [Next]_dashboardVars PROVE DashboardIInv'
  OBVIOUS
<1>1. HandlersTypeOK /\ feature \in Parts /\ feature' = feature
  BY OneMovesOn DEF DashboardIInv
<1>2. HandlersTypeOK'
  BY <1>1, DashboardEnv
<1>3. ConfigJoined'
  <2>1. CASE feature = "config"
    BY <1>1, <2>1, OneMovesOn, ConfigNextIInv DEF DashboardIInv, ConfigJoined
  <2>2. CASE feature # "config"
    BY <1>1, <2>2, OneMovesOn, ConfigStays DEF DashboardIInv, ConfigJoined
  <2>. QED
    BY <2>1, <2>2
<1>4. ConsoleJoined'
  <2>1. CASE feature = "console"
    <3>1. ConsoleIInv /\ ConsoleBounds /\ [ConsoleNext]_<<env, consoleVars>>
      BY <1>1, <2>1, OneMovesOn DEF DashboardIInv, ConsoleJoined
    <3>2. ConsoleIInv'
      BY <3>1, ConsoleStepIInv
    <3>3. ConsoleBounds'
      BY <1>1, <3>1, ConsoleBoundsStep
    <3>. QED
      BY <1>1, <2>1, <3>2, <3>3 DEF ConsoleJoined
  <2>2. CASE feature # "console"
    BY <1>1, <2>2, OneMovesOn, ConsoleStays DEF DashboardIInv, ConsoleJoined
  <2>. QED
    BY <2>1, <2>2
<1>5. LockJoined'
  <2>1. CASE feature = "lockout"
    <3>1. LockIInv /\ LockBounds /\ [LockNext]_<<env, lockVars>>
      BY <1>1, <2>1, OneMovesOn DEF DashboardIInv, LockJoined
    <3>2. LockIInv'
      BY <3>1, LockNextIInv
    <3>3. LockBounds'
      BY <3>1, <3>2, LockBoundsStep
    <3>. QED
      BY <1>1, <2>1, <3>2, <3>3 DEF LockJoined
  <2>2. CASE feature # "lockout"
    BY <1>1, <2>2, OneMovesOn, LockStays DEF DashboardIInv, LockJoined
  <2>. QED
    BY <2>1, <2>2
<1>6. SessionsJoined'
  <2>1. CASE feature = "sessions"
    <3>1. SessionIInv /\ Numbered /\ [SessionsNext]_<<env, sessionVars>>
      BY <1>1, <2>1, OneMovesOn DEF DashboardIInv, SessionsJoined
    <3>2. SessionIInv'
      BY <3>1, SessionStepIInv
    <3>3. Numbered'
      BY <3>1, NumbersStay
    <3>. QED
      BY <1>1, <2>1, <3>2, <3>3 DEF SessionsJoined
  <2>2. CASE feature # "sessions"
    BY <1>1, <2>2, OneMovesOn, SessionsStay DEF DashboardIInv, SessionsJoined
  <2>. QED
    BY <2>1, <2>2
<1>. QED
  BY <1>1, <1>2, <1>3, <1>4, <1>5, <1>6 DEF DashboardIInv

LEMMA DashboardRight ==
  DashboardIInv => /\ ConfigTypeOK /\ ConsoleTypeOK /\ LockTypeOK /\ SessionsTypeOK
                   /\ ConfigKept /\ ConfirmOnce /\ LockHolds /\ RevokedIsOut
BY PartsKeep DEF DashboardIInv, ConfigJoined, ConsoleJoined, LockJoined, SessionsJoined

(* For any part that is at work and any bounds: what MCDashboard lets the    *)
(* dashboard keep is what its types say: rows are cached, exported and saved *)
(* within their limits, a deed is dated within the time of the model and by  *)
(* a nonce that was given, a record counts no more failures than there were  *)
(* calls, and a session has a number that was drawn for it.                  *)
THEOREM DashboardTypeOK == Spec => []TypeOK
<1>1. Spec => []DashboardIInv
  BY DashboardInitIInv, DashboardNextIInv, PTL DEF Spec, dashboardVars
<1>2. DashboardIInv => TypeOK
  BY DashboardRight DEF DashboardIInv, TypeOK
<1>. QED
  BY <1>1, <1>2, PTL

(* What each part promises, under MCDashboard as it is checked: for any      *)
(* commands, forms, imports, logins, requests and changes of rights, and for *)
(* any bounds (the settings commands of internal/discord, the handlers of    *)
(* internal/web).                                                            *)
THEOREM DashboardKeeps == Spec => [](ConfigKept /\ ConfirmOnce /\ LockHolds /\ RevokedIsOut)
<1>1. Spec => []DashboardIInv
  BY DashboardInitIInv, DashboardNextIInv, PTL DEF Spec, dashboardVars
<1>. QED
  BY <1>1, DashboardRight, PTL
=============================================================================
