--------------------------- MODULE FeaturesProofs ---------------------------
(***************************************************************************)
(* What messages, members, calls and admins set off: the invariants of the *)
(* features of the bot, each of its own specification; then their types;   *)
(* and in the end all of it for MCFeatures, whichever of them is at work.  *)
(***************************************************************************)
EXTENDS MCFeatures, FiniteSetTheorems, SequenceTheorems, WellFoundedInduction, TLAPS

---------------------------------------------------------------------------
(* Time never goes back, whatever a step makes of it.                        *)
LEMMA EnvTypes ==
  ASSUME HandlersTypeOK, Called \/ Fault \/ Passes \/ UNCHANGED env
  PROVE  HandlersTypeOK' /\ now \in Nat /\ now' \in Nat /\ now <= now' /\ now \in Time
BY HandlersAssumption DEF HandlersTypeOK, Called, Fault, Passes, env, Time

---------------------------------------------------------------------------
(* Dispatch: for any calls, refusals and answers every command is run and  *)
(* logged as often as it may be, and prefix commands within the bucket.    *)
HandlingType == [pc : {"idle", "fast", "respond", "defer", "slow", "edit", "prefix", "log"}, call : 0..MaxCalls]
GivenType == [kind : {"none", "unknown", "fast", "slow", "prefix"}, at : Nat, ran : Nat, logged : Nat,
              answered : BOOLEAN, fast : {"unsent", "sent", "refused", "unheard"},
              ack : {"unsent", "sent", "refused", "unheard"}]

DispatchTyped ==
    /\ handling \in [Proc -> HandlingType]
    /\ given \in [Call -> GivenType]
    /\ bucket \in [tokens : 0..TokenCap * TokenCost, last : Nat]

(* What may be logged.                                                       *)
Loggable(g) ==
    /\ g.ran > 1 => g.fast = "refused"
    /\ g.ran = 0 => g.kind = "unknown" \/ (g.kind = "slow" /\ g.ack \in {"refused", "unheard"})

(* What has become of a call by the time its goroutine is at pc.             *)
InCourse(pc, g) ==
    /\ g.kind # "none" /\ g.logged = 0
    /\ pc = "fast" => g.kind = "fast" /\ g.ran = 0
    /\ pc = "respond" => g.kind = "fast" /\ g.ran = 1
    /\ pc = "defer" =>
          \/ g.kind = "slow" /\ g.ran = 0 /\ ~g.answered
          \/ g.kind = "fast" /\ g.ran = 1 /\ (~g.answered => g.fast = "refused")
    /\ pc = "slow" => g.ran = 0 \/ (g.ran = 1 /\ g.fast = "refused")
    /\ pc = "edit" => g.ran = 1 \/ (g.ran = 2 /\ g.fast = "refused")
    /\ pc = "prefix" => g.kind = "prefix" /\ g.ran = 0
    /\ pc = "log" => Loggable(g)

CallHeld(c) == \E p \in Proc : handling[p].call = c

Accounted ==
    /\ \A p \in Proc :
          IF handling[p].pc = "idle" THEN handling[p].call = 0
          ELSE handling[p].call \in 1..calls /\ InCourse(handling[p].pc, given[handling[p].call])
    /\ \A p, q \in Proc : p # q /\ handling[p].call = handling[q].call => handling[p].call = 0
    /\ \A c \in Call : c > calls \/ given[c].kind = "none" => given[c] = Ungiven
    /\ \A c \in Call : given[c].kind # "none" /\ ~CallHeld(c) => given[c].logged = 1 /\ Loggable(given[c])

PrefixesIn(c, d) == {e \in c..d : given[e].kind = "prefix"}

(* What ran since a command and what is left in the bucket was in a full     *)
(* bucket or came in since.                                                  *)
Paid ==
    /\ bucket.last <= now
    /\ \A c \in Call : given[c].kind = "prefix" =>
          /\ given[c].at <= bucket.last
          /\ TokenCost * Cardinality(PrefixesIn(c, MaxCalls)) + bucket.tokens
                <= TokenCap * TokenCost + (bucket.last - given[c].at)

PaidBetween ==
    \A c, d \in Call : given[c].kind = "prefix" /\ given[d].kind = "prefix" /\ c < d =>
        TokenCost * Cardinality(PrefixesIn(c, d)) <= TokenCap * TokenCost + (given[d].at - given[c].at)

DispatchIInv == HandlersTypeOK /\ DispatchTyped /\ Accounted /\ Paid /\ PaidBetween


---------------------------------------------------------------------------
LEMMA Capacity == TokenCost \in Nat /\ TokenCost > 0 /\ TokenCap \in Nat /\ TokenCap * TokenCost \in Nat
BY DispatchAssumption

LEMMA CallNumbers ==
  ASSUME HandlersTypeOK
  PROVE  /\ calls \in Nat /\ MaxCalls \in Nat /\ calls <= MaxCalls /\ Call \subseteq Nat
         /\ \A c \in 1..calls : c \in Call /\ c # 0 /\ c # calls + 1
         /\ calls < MaxCalls => calls + 1 \in Call
BY HandlersAssumption DEF HandlersTypeOK, Call

LEMMA UngivenTyped == Ungiven \in GivenType /\ Ungiven.kind = "none"
BY DEF Ungiven, GivenType

LEMMA UnhandledTyped == Unhandled \in HandlingType /\ Unhandled.pc = "idle" /\ Unhandled.call = 0
BY HandlersAssumption DEF Unhandled, HandlingType

LEMMA DispatchInitIInv == HandlersInit /\ DispatchInit => DispatchIInv
<1>. SUFFICES ASSUME HandlersInit, DispatchInit PROVE DispatchIInv
  OBVIOUS
<1>1. HandlersTypeOK
  BY HandlersAssumption DEF HandlersInit, HandlersTypeOK, Time
<1>2. /\ \A p \in Proc : handling[p] \in HandlingType /\ handling[p].pc = "idle" /\ handling[p].call = 0
      /\ \A c \in Call : given[c] = Ungiven /\ given[c] \in GivenType /\ given[c].kind = "none"
      /\ handling \in [Proc -> HandlingType] /\ given \in [Call -> GivenType]
  BY UngivenTyped, UnhandledTyped DEF DispatchInit
<1>3. bucket \in [tokens : 0..TokenCap * TokenCost, last : Nat] /\ bucket.last = 0
  BY Capacity DEF DispatchInit, Full
<1>4. now = 0
  BY DEF HandlersInit
<1>. QED
  BY <1>1, <1>2, <1>3, <1>4 DEF DispatchIInv, DispatchTyped, Accounted, Paid, PaidBetween

LEMMA DispatchEnv ==
  ASSUME [DispatchNext]_<<env, dispatchVars>>
  PROVE  Called \/ Fault \/ Passes \/ UNCHANGED env
BY DEF DispatchNext, SlashCommand, Receive, Execute, FastRespond, Defer, FinishEdit, LogCall, PrefixCommand,
       ExecutePrefix, DispatchTick, env

---------------------------------------------------------------------------
(* Counting the prefix commands.                                             *)

LEMMA PrefixesCounted ==
  ASSUME HandlersTypeOK, NEW c \in Call, NEW d \in Call
  PROVE  IsFiniteSet(PrefixesIn(c, d)) /\ Cardinality(PrefixesIn(c, d)) \in Nat
         /\ IsFiniteSet(PrefixesIn(c, MaxCalls)) /\ Cardinality(PrefixesIn(c, MaxCalls)) \in Nat
<1>1. c \in Int /\ d \in Int /\ MaxCalls \in Int
  BY CallNumbers
<1>2. IsFiniteSet(c..d) /\ IsFiniteSet(c..MaxCalls)
  BY <1>1, FS_Interval
<1>3. PrefixesIn(c, d) \subseteq c..d /\ PrefixesIn(c, MaxCalls) \subseteq c..MaxCalls
  BY DEF PrefixesIn
<1>. QED
  BY <1>2, <1>3, FS_Subset, FS_CardinalityType

(* A step that gives nobody a call leaves the account of the bucket as it    *)
(* was, but for the time and what a refused command does to the bucket.      *)
LEMMA SamePrefixes ==
  ASSUME \A c \in Call : given'[c].kind = given[c].kind
  PROVE  \A c, d \in Call : PrefixesIn(c, d)' = PrefixesIn(c, d) /\ PrefixesIn(c, MaxCalls)' = PrefixesIn(c, MaxCalls)
<1>. SUFFICES ASSUME NEW c \in Call, NEW d \in Call, NEW e, e \in c..d \/ e \in c..MaxCalls
              PROVE  e \in Call
  BY DEF PrefixesIn
<1>. QED
  BY HandlersAssumption DEF Call

LEMMA PaidStays ==
  ASSUME DispatchIInv, DispatchTyped', now \in Nat, now' \in Nat, now <= now',
         \A c \in Call : given'[c].kind = given[c].kind /\ given'[c].at = given[c].at,
         \/ bucket' = bucket
         \/ bucket'.last = now /\ bucket'.tokens <= Refilled
  PROVE  Paid' /\ PaidBetween'
<1>1. PaidBetween'
  BY SamePrefixes DEF DispatchIInv, PaidBetween
<1>2. /\ bucket.tokens \in Nat /\ bucket.last \in Nat /\ bucket.last <= now
      /\ bucket'.tokens \in Nat /\ bucket'.last \in Nat
  BY Capacity DEF DispatchIInv, DispatchTyped, Paid
<1>3. bucket'.tokens <= bucket.tokens + (bucket'.last - bucket.last) /\ bucket.last <= bucket'.last /\ bucket'.last <= now'
  BY <1>2, Capacity DEF Refilled, Least
<1>4. ASSUME NEW c \in Call, given'[c].kind = "prefix"
      PROVE  /\ given'[c].at <= bucket'.last
             /\ TokenCost * Cardinality(PrefixesIn(c, MaxCalls)') + bucket'.tokens
                   <= TokenCap * TokenCost + (bucket'.last - given'[c].at)
  <2>. DEFINE spent == TokenCost * Cardinality(PrefixesIn(c, MaxCalls))
              cap == TokenCap * TokenCost
  <2>1. PrefixesIn(c, MaxCalls)' = PrefixesIn(c, MaxCalls)
    BY SamePrefixes
  <2>2. spent \in Nat /\ cap \in Nat
    BY PrefixesCounted, Capacity DEF DispatchIInv
  <2>3. given[c].at \in Nat /\ given[c].at <= bucket.last /\ spent + bucket.tokens <= cap + (bucket.last - given[c].at)
    BY <1>4 DEF DispatchIInv, Paid, DispatchTyped, GivenType
  <2>. HIDE DEF spent, cap
  <2>4. given[c].at <= bucket'.last /\ spent + bucket'.tokens <= cap + (bucket'.last - given[c].at)
    BY <1>2, <1>3, <2>2, <2>3
  <2>. QED
    BY <2>1, <2>4 DEF spent, cap
<1>. QED
  BY <1>1, <1>3, <1>4 DEF Paid

---------------------------------------------------------------------------
(* A call comes in: the next number, a goroutine that was idle.              *)

LEMMA CallReceived ==
  ASSUME DispatchIInv, HandlersTypeOK', NEW p \in Proc, NEW kind \in {"unknown", "fast", "slow", "prefix"},
         NEW pc \in {"log", "fast", "defer", "prefix"},
         Receive(p, kind, pc),
         pc = "log" <=> kind = "unknown", pc = "fast" <=> kind = "fast",
         pc = "defer" <=> kind = "slow", pc = "prefix" <=> kind = "prefix"
  PROVE  /\ Accounted'
         /\ handling' \in [Proc -> HandlingType] /\ given' \in [Call -> GivenType]
         /\ calls + 1 \in Call
         /\ given[calls + 1] = Ungiven /\ given'[calls + 1].kind = kind
         /\ kind = "prefix" => given'[calls + 1].at = now
         /\ \A c \in Call : c # calls + 1 => given'[c] = given[c]
         /\ \A c \in Call : c > calls + 1 => given'[c] = Ungiven
<1>. DEFINE n == calls + 1
<1>1. /\ calls < MaxCalls /\ calls' = n /\ now' = now /\ n \in Call /\ n \in Nat /\ calls \in Nat
      /\ n \in 0..MaxCalls
  BY CallNumbers DEF Receive, Called, DispatchIInv, Call
<1>2. /\ handling' = [handling EXCEPT ![p] = [pc |-> pc, call |-> n]] /\ handling[p].pc = "idle"
      /\ given' = [given EXCEPT ![n].kind = kind, ![n].at = IF kind = "prefix" THEN now ELSE 0]
  BY DEF Receive
<1>3. given[n] = Ungiven /\ now \in Nat
  BY <1>1 DEF DispatchIInv, Accounted, HandlersTypeOK, Time
<1>. HIDE DEF n
<1>4. /\ handling'[p].pc = pc /\ handling'[p].call = n
      /\ \A q \in Proc \ {p} : handling'[q] = handling[q]
      /\ handling' \in [Proc -> HandlingType]
  BY <1>1, <1>2 DEF DispatchIInv, DispatchTyped, HandlingType
<1>5. /\ given'[n].kind = kind /\ given'[n].ran = 0 /\ given'[n].logged = 0 /\ given'[n].answered = FALSE
      /\ given'[n].fast = "unsent" /\ (kind = "prefix" => given'[n].at = now)
      /\ \A c \in Call : c # n => given'[c] = given[c]
  BY <1>1, <1>2, <1>3 DEF DispatchIInv, DispatchTyped, GivenType, Ungiven
<1>6. given' \in [Call -> GivenType]
  <2>. DEFINE at == IF kind = "prefix" THEN now ELSE 0
              g == [given[n] EXCEPT !.kind = kind, !.at = at]
  <2>1. given[n] \in GivenType /\ at \in Nat
    BY <1>1, <1>3 DEF DispatchIInv, DispatchTyped
  <2>2. g \in GivenType
    BY <2>1 DEF GivenType
  <2>3. given' = [given EXCEPT ![n] = g]
    BY <1>2
  <2>. QED
    BY <2>2, <2>3 DEF DispatchIInv, DispatchTyped
<1>7. \A q \in Proc : handling[q].call # n
  BY <1>1 DEF DispatchIInv, Accounted, n
<1>8. Accounted'
  <2>1. InCourse(pc, given'[n])
    BY <1>5 DEF InCourse, Loggable
  <2>2. ASSUME NEW q \in Proc
        PROVE  IF handling'[q].pc = "idle" THEN handling'[q].call = 0
               ELSE handling'[q].call \in 1..n /\ InCourse(handling'[q].pc, given'[handling'[q].call])
    <3>1. CASE q = p
      BY <1>1, <1>4, <2>1, <3>1 DEF Call
    <3>2. CASE q # p
      <4>1. handling[q].pc # "idle" => handling[q].call \in 1..calls /\ handling[q].call \in Call
        BY CallNumbers DEF DispatchIInv, Accounted
      <4>. QED
        BY <1>1, <1>4, <1>5, <1>7, <3>2, <4>1 DEF DispatchIInv, Accounted, n
    <3>. QED
      BY <3>1, <3>2
  <2>3. \A q, r \in Proc : q # r /\ handling'[q].call = handling'[r].call => handling'[q].call = 0
    BY <1>4, <1>7 DEF DispatchIInv, Accounted
  <2>4. \A c \in Call : c > n \/ given'[c].kind = "none" => given'[c] = Ungiven
    BY <1>1, <1>5 DEF DispatchIInv, Accounted, n, Call
  <2>5. \A c \in Call : given'[c].kind # "none" /\ ~CallHeld(c)' => given'[c].logged = 1 /\ Loggable(given'[c])
    <3>. SUFFICES ASSUME NEW c \in Call, given'[c].kind # "none", ~CallHeld(c)'
                  PROVE  given'[c].logged = 1 /\ Loggable(given'[c])
      OBVIOUS
    <3>1. c # n /\ c # 0
      BY <1>1, <1>4 DEF CallHeld, Call
    <3>2. ~CallHeld(c)
      BY <1>2, <1>4, <3>1 DEF CallHeld, DispatchIInv, Accounted
    <3>. QED
      BY <1>5, <3>1, <3>2 DEF DispatchIInv, Accounted
  <2>. QED
    BY <1>1, <2>2, <2>3, <2>4, <2>5 DEF Accounted, n
<1>9. \A c \in Call : c > n => given'[c] = Ungiven
  BY <1>1, <1>5 DEF DispatchIInv, Accounted, n, Call
<1>. QED
  BY <1>1, <1>3, <1>4, <1>5, <1>6, <1>8, <1>9 DEF n

(* A goroutine takes its call on, or lets go of it.                          *)
LEMMA CallTaken ==
  ASSUME DispatchIInv, HandlersTypeOK', now \in Nat, now' \in Nat, now <= now', calls' = calls, bucket' = bucket,
         NEW p \in Proc, handling[p].pc # "idle",
         NEW g \in GivenType, given' = [given EXCEPT ![handling[p].call] = g],
         g.kind = given[handling[p].call].kind, g.at = given[handling[p].call].at,
         NEW it \in HandlingType, handling' = [handling EXCEPT ![p] = it],
         \/ it.pc # "idle" /\ it.call = handling[p].call /\ InCourse(it.pc, g)
         \/ it = Unhandled /\ g.logged = 1 /\ Loggable(g)
  PROVE  DispatchIInv'
<1>. DEFINE n == handling[p].call
<1>1. n \in 1..calls /\ n \in Call /\ n # 0 /\ given[n].kind # "none" /\ calls \in Nat
  BY CallNumbers DEF DispatchIInv, Accounted, InCourse
<1>2. /\ given'[n] = g /\ given' \in [Call -> GivenType]
      /\ \A c \in Call : c # n => given'[c] = given[c]
  BY <1>1 DEF DispatchIInv, DispatchTyped
<1>3. /\ handling'[p] = it /\ handling' \in [Proc -> HandlingType]
      /\ \A q \in Proc \ {p} : handling'[q] = handling[q]
  BY DEF DispatchIInv, DispatchTyped
<1>. HIDE DEF n
<1>4. DispatchTyped'
  BY <1>2, <1>3 DEF DispatchIInv, DispatchTyped
<1>5. Paid' /\ PaidBetween'
  <2>1. \A c \in Call : given'[c].kind = given[c].kind /\ given'[c].at = given[c].at
    BY <1>2 DEF n
  <2>. QED
    BY <1>4, <2>1, PaidStays
<1>6. \A q \in Proc \ {p} : handling[q].call # n
  BY <1>1 DEF DispatchIInv, Accounted, n
<1>7. Accounted'
  <2>1. ASSUME NEW q \in Proc
        PROVE  IF handling'[q].pc = "idle" THEN handling'[q].call = 0
               ELSE handling'[q].call \in 1..calls /\ InCourse(handling'[q].pc, given'[handling'[q].call])
    <3>1. CASE q = p
      BY <1>1, <1>2, <1>3, <3>1, UnhandledTyped DEF n
    <3>2. CASE q # p
      <4>1. handling[q].pc # "idle" => handling[q].call \in 1..calls /\ handling[q].call \in Call
        BY CallNumbers DEF DispatchIInv, Accounted
      <4>. QED
        BY <1>2, <1>3, <1>6, <3>2, <4>1 DEF DispatchIInv, Accounted
    <3>. QED
      BY <3>1, <3>2
  <2>2. \A q, r \in Proc : q # r /\ handling'[q].call = handling'[r].call => handling'[q].call = 0
    BY <1>3, <1>6, UnhandledTyped DEF DispatchIInv, Accounted, n
  <2>3. \A c \in Call : c > calls \/ given'[c].kind = "none" => given'[c] = Ungiven
    BY <1>1, <1>2 DEF DispatchIInv, Accounted
  <2>4. ASSUME NEW c \in Call, given'[c].kind # "none", ~CallHeld(c)'
        PROVE  given'[c].logged = 1 /\ Loggable(given'[c])
    <3>1. CASE c = n
      BY <1>2, <1>3, <2>4, <3>1 DEF CallHeld, n
    <3>2. CASE c # n
      <4>1. ~CallHeld(c)
        BY <1>3, <2>4, <3>2 DEF CallHeld, n
      <4>. QED
        BY <1>2, <2>4, <3>2, <4>1 DEF DispatchIInv, Accounted
    <3>. QED
      BY <3>1, <3>2
  <2>. QED
    BY <2>1, <2>2, <2>3, <2>4 DEF Accounted
<1>. QED
  BY <1>4, <1>5, <1>7 DEF DispatchIInv

---------------------------------------------------------------------------
(* One lemma per action.                                                     *)

LEMMA SlashKeeps ==
  ASSUME DispatchIInv, HandlersTypeOK', now \in Nat, now' \in Nat, now <= now', NEW p \in Proc, SlashCommand(p)
  PROVE  DispatchIInv'
<1>1. PICK kind \in {"unknown", "fast", "slow"}, pc \in {"log", "fast", "defer"} :
         /\ Receive(p, kind, pc)
         /\ pc = "log" <=> kind = "unknown"
         /\ pc = "fast" <=> kind = "fast"
         /\ pc = "defer" <=> kind = "slow"
  BY DEF SlashCommand
<1>2. bucket' = bucket
  BY DEF SlashCommand
<1>. DEFINE n == calls + 1
<1>3. /\ Accounted'
      /\ handling' \in [Proc -> HandlingType] /\ given' \in [Call -> GivenType]
      /\ n \in Call /\ given[n] = Ungiven /\ given'[n].kind = kind
      /\ \A c \in Call : c # n => given'[c] = given[c]
  BY <1>1, CallReceived
<1>. HIDE DEF n
<1>4. DispatchTyped'
  BY <1>2, <1>3 DEF DispatchIInv, DispatchTyped
(* Neither before nor after is it a prefix command.                          *)
<1>5. \A c, d \in Call : PrefixesIn(c, d)' = PrefixesIn(c, d) /\ PrefixesIn(c, MaxCalls)' = PrefixesIn(c, MaxCalls)
  <2>1. \A c \in Call : given'[c].kind = "prefix" <=> given[c].kind = "prefix"
    BY <1>3, UngivenTyped
  <2>2. \A c, d \in Call : c..d \subseteq Call /\ c..MaxCalls \subseteq Call
    BY HandlersAssumption DEF Call
  <2>. QED
    BY <2>1, <2>2 DEF PrefixesIn
<1>6. \A c \in Call : given'[c].kind = "prefix" => given[c].kind = "prefix" /\ given'[c] = given[c]
  BY <1>3
<1>7. PaidBetween'
  BY <1>5, <1>6 DEF DispatchIInv, PaidBetween
<1>8. Paid'
  <2>1. bucket.last <= now'
    BY DEF DispatchIInv, Paid, DispatchTyped
  <2>. QED
    BY <1>2, <1>5, <1>6, <2>1 DEF DispatchIInv, Paid
<1>. QED
  BY <1>3, <1>4, <1>7, <1>8 DEF DispatchIInv

LEMMA PrefixKeeps ==
  ASSUME DispatchIInv, HandlersTypeOK', now \in Nat, now' \in Nat, now <= now', NEW p \in Proc, PrefixCommand(p)
  PROVE  DispatchIInv'
<1>1. /\ bucket.tokens \in Nat /\ bucket.last \in Nat /\ bucket.last <= now
      /\ Refilled \in Nat /\ Refilled <= TokenCap * TokenCost
      /\ Refilled <= bucket.tokens + (now - bucket.last)
  BY Capacity DEF DispatchIInv, DispatchTyped, Paid, Refilled, Least
<1>2. CASE UNCHANGED <<handling, given>> /\ Called /\ bucket'.last = now /\ bucket'.tokens <= Refilled
           /\ bucket' \in [tokens : 0..TokenCap * TokenCost, last : Nat]
  <2>1. DispatchTyped'
    BY <1>2 DEF DispatchIInv, DispatchTyped
  <2>2. Paid' /\ PaidBetween'
    BY <1>2, <2>1, PaidStays
  <2>3. Accounted'
    <3>1. calls' = calls + 1 /\ calls \in Nat
      BY <1>2, CallNumbers DEF Called, DispatchIInv
    <3>2. 1..calls \subseteq 1..(calls + 1) /\ \A c \in Call : c > calls + 1 => c > calls
      BY <3>1 DEF Call
    <3>3. \A c : CallHeld(c)' <=> CallHeld(c)
      BY <1>2 DEF CallHeld
    <3>. QED
      BY <1>2, <3>1, <3>2, <3>3 DEF DispatchIInv, Accounted
  <2>. QED
    BY <2>1, <2>2, <2>3 DEF DispatchIInv
<1>3. CASE Refilled >= TokenCost /\ Receive(p, "prefix", "prefix")
           /\ bucket' = [tokens |-> Refilled - TokenCost, last |-> now]
  <2>. DEFINE cap == TokenCap * TokenCost
  <2>0. PICK n : n = calls + 1
    OBVIOUS
  <2>1. /\ Accounted'
        /\ handling' \in [Proc -> HandlingType] /\ given' \in [Call -> GivenType]
        /\ n \in Call /\ given[n] = Ungiven /\ given'[n].kind = "prefix" /\ given'[n].at = now
        /\ \A c \in Call : c # n => given'[c] = given[c]
        /\ \A c \in Call : c > n => given'[c] = Ungiven
    BY <1>3, <2>0, CallReceived
  <2>2. now' = now
    BY <1>3 DEF Receive, Called
  <2>3. n \in Nat /\ MaxCalls \in Nat /\ n <= MaxCalls /\ 1 <= n
    BY <2>1, HandlersAssumption DEF Call
  <2>4. bucket' \in [tokens : 0..cap, last : Nat] /\ bucket'.tokens = Refilled - TokenCost /\ bucket'.last = now
    BY <1>1, <1>3, Capacity
  <2>5. DispatchTyped'
    BY <2>1, <2>4 DEF DispatchIInv, DispatchTyped
  <2>6. ASSUME NEW c \in Call, c <= n
        PROVE  PrefixesIn(c, MaxCalls)' = PrefixesIn(c, MaxCalls) \cup {n} /\ n \notin PrefixesIn(c, MaxCalls)
               /\ PrefixesIn(c, n)' = PrefixesIn(c, MaxCalls)'
    <3>1. c \in Nat /\ \A e : e \in c..MaxCalls => e \in Call
      BY HandlersAssumption DEF Call
    <3>2. \A e \in c..MaxCalls : given'[e].kind = "prefix" <=> (given[e].kind = "prefix" \/ e = n)
      BY <2>1, <3>1
    <3>3. given[n].kind # "prefix" /\ n \in c..MaxCalls
      BY <2>1, <2>3, <2>6, <3>1, UngivenTyped
    <3>4. \A e \in c..MaxCalls : given'[e].kind = "prefix" => e \in c..n
      <4>. SUFFICES ASSUME NEW e \in c..MaxCalls, e > n PROVE given'[e].kind # "prefix"
        BY <2>3, <3>1
      <4>. QED
        BY <2>1, <3>1, UngivenTyped
    <3>5. c..n \subseteq c..MaxCalls
      BY <2>3, <3>1
    <3>. QED
      BY <3>2, <3>3, <3>4, <3>5 DEF PrefixesIn
  <2>7. ASSUME NEW c \in Call, c <= n
        PROVE  /\ Cardinality(PrefixesIn(c, MaxCalls)) \in Nat
               /\ Cardinality(PrefixesIn(c, MaxCalls)') = Cardinality(PrefixesIn(c, MaxCalls)) + 1
    BY <2>6, <2>7, PrefixesCounted, FS_AddElement DEF DispatchIInv
  <2>8. ASSUME NEW c \in Call, given[c].kind = "prefix"
        PROVE  /\ c <= n /\ given'[c] = given[c] /\ given[c].at \in Nat /\ given[c].at <= now
               /\ TokenCost * Cardinality(PrefixesIn(c, MaxCalls)') + bucket'.tokens <= cap + (now - given[c].at)
    <3>. DEFINE k == Cardinality(PrefixesIn(c, MaxCalls))
    <3>1. c \in Nat /\ c <= n /\ c # n
      BY <2>0, <2>1, <2>3, <2>8, UngivenTyped, SMTT(30) DEF DispatchIInv, Accounted, Call
    <3>2. k \in Nat /\ Cardinality(PrefixesIn(c, MaxCalls)') = k + 1
      BY <2>7, <3>1
    <3>3. /\ given[c].at \in Nat /\ given[c].at <= bucket.last
          /\ TokenCost * k + bucket.tokens <= cap + (bucket.last - given[c].at)
      BY <2>8 DEF DispatchIInv, Paid, DispatchTyped, GivenType
    <3>. HIDE DEF k, cap
    <3>4. cap \in Nat /\ TokenCost * k \in Nat /\ TokenCost * (k + 1) = TokenCost * k + TokenCost /\ TokenCost \in Nat
      BY <3>2, Capacity DEF cap
    <3>5. given[c].at <= now /\ TokenCost * k + TokenCost + (Refilled - TokenCost) <= cap + (now - given[c].at)
      BY <1>1, <3>3, <3>4
    <3>. QED
      BY <2>1, <2>4, <3>1, <3>2, <3>3, <3>4, <3>5
  <2>9. Paid'
    <3>1. TokenCost * Cardinality(PrefixesIn(n, MaxCalls)') + bucket'.tokens <= cap + (now - now)
      <4>1. \A e \in n..MaxCalls : given'[e].kind = "prefix" <=> e = n
        <5>1. \A e \in n..MaxCalls : e \in Call /\ (e = n \/ e > n)
          BY <2>3 DEF Call
        <5>. QED
          BY <2>1, <5>1, UngivenTyped
      <4>2. PrefixesIn(n, MaxCalls)' = {n}
        BY <2>3, <4>1 DEF PrefixesIn
      <4>3. Cardinality(PrefixesIn(n, MaxCalls)') = 1
        BY <4>2, FS_Singleton
      <4>4. TokenCost * 1 + (Refilled - TokenCost) <= cap /\ cap + (now - now) = cap
        BY <1>1, Capacity
      <4>. QED
        BY <2>4, <4>3, <4>4
    <3>2. ASSUME NEW c \in Call, given'[c].kind = "prefix"
          PROVE  /\ given'[c].at <= bucket'.last
                 /\ TokenCost * Cardinality(PrefixesIn(c, MaxCalls)') + bucket'.tokens <= cap + (bucket'.last - given'[c].at)
      <4>1. CASE c = n
        BY <2>1, <2>4, <3>1, <4>1
      <4>2. CASE c # n
        BY <2>1, <2>4, <2>8, <3>2, <4>2
      <4>. QED
        BY <4>1, <4>2
    <3>. QED
      BY <2>2, <2>4, <3>2 DEF Paid
  <2>10. PaidBetween'
    <3>. SUFFICES ASSUME NEW c \in Call, NEW d \in Call, given'[c].kind = "prefix", given'[d].kind = "prefix", c < d
                  PROVE  TokenCost * Cardinality(PrefixesIn(c, d)') <= cap + (given'[d].at - given'[c].at)
      BY DEF PaidBetween
    <3>1. c \in Nat /\ d \in Nat /\ d <= n
      BY <2>1, <2>3, UngivenTyped DEF Call
    <3>2. c # n /\ given[c].kind = "prefix" /\ given'[c] = given[c] /\ c <= n
      BY <2>1, <2>3, <3>1
    <3>3. CASE d = n
      <4>1. PrefixesIn(c, n)' = PrefixesIn(c, MaxCalls)'
        BY <2>6, <3>2
      <4>. DEFINE m == Cardinality(PrefixesIn(c, MaxCalls)')
      <4>2. TokenCost * m + bucket'.tokens <= cap + (now - given[c].at) /\ m \in Nat
        BY <2>7, <2>8, <3>2
      <4>3. bucket'.tokens \in Nat /\ given[c].at \in Nat /\ cap \in Nat
        BY <2>4, <2>8, <3>2, Capacity
      <4>. HIDE DEF m, cap
      <4>4. TokenCost * m \in Nat
        BY <4>2, Capacity
      <4>5. TokenCost * m <= cap + (now - given[c].at)
        BY <4>2, <4>3, <4>4
      <4>6. given'[d].at = now
        BY <2>1, <3>3
      <4>7. PrefixesIn(c, d)' = PrefixesIn(c, MaxCalls)'
        BY <2>6, <3>2, <3>3 DEF PrefixesIn
      <4>. QED
        BY <3>2, <4>5, <4>6, <4>7 DEF m
    <3>4. CASE d # n
      <4>1. given[d].kind = "prefix" /\ given'[d] = given[d]
        BY <2>1, <3>4
      <4>2. \A e \in c..d : e \in Call /\ e # n
        BY <2>3, <3>1, <3>4 DEF Call
      <4>3. PrefixesIn(c, d)' = PrefixesIn(c, d)
        BY <2>1, <4>2 DEF PrefixesIn
      <4>. QED
        BY <3>2, <4>1, <4>3 DEF DispatchIInv, PaidBetween
    <3>. QED
      BY <3>3, <3>4
  <2>. QED
    BY <2>1, <2>5, <2>9, <2>10 DEF DispatchIInv
<1>4. CASE Refilled >= TokenCost /\ Called /\ UNCHANGED <<handling, given>>
           /\ bucket' = [tokens |-> Refilled - TokenCost, last |-> now]
  BY <1>1, <1>2, <1>4, Capacity
<1>5. CASE Called /\ UNCHANGED <<handling, given>> /\ bucket' = [tokens |-> Refilled, last |-> now]
  BY <1>1, <1>2, <1>5, Capacity
<1>. QED
  BY <1>3, <1>4, <1>5 DEF PrefixCommand

(* What a step of a goroutine with a call makes of it.                       *)
LEMMA TakenOn ==
  ASSUME DispatchIInv, HandlersTypeOK', now \in Nat, now' \in Nat, now <= now', calls' = calls, bucket' = bucket,
         NEW p \in Proc, handling[p].pc # "idle",
         NEW g \in GivenType, Gives(p, g), g.kind = Its(p).kind, g.at = Its(p).at,
         NEW pc \in {"fast", "respond", "defer", "slow", "edit", "prefix", "log"}, Goto(p, pc), InCourse(pc, g)
  PROVE  DispatchIInv'
<1>. DEFINE it == [handling[p] EXCEPT !.pc = pc]
<1>1. it \in HandlingType /\ it.pc = pc /\ it.call = handling[p].call
  BY DEF DispatchIInv, DispatchTyped, HandlingType
<1>2. handling' = [handling EXCEPT ![p] = it]
  BY DEF Goto
<1>. HIDE DEF it
<1>. QED
  BY <1>1, <1>2, CallTaken DEF Gives, Its

LEMMA ItsTyped ==
  ASSUME DispatchIInv, NEW p \in Proc, handling[p].pc # "idle"
  PROVE  /\ Its(p) \in GivenType /\ InCourse(handling[p].pc, Its(p))
         /\ handling[p] \in HandlingType /\ handling[p].call \in Call
         /\ given = [given EXCEPT ![handling[p].call] = Its(p)]
<1>1. handling[p].call \in 1..calls /\ InCourse(handling[p].pc, Its(p))
  BY DEF DispatchIInv, Accounted, Its
<1>2. handling[p].call \in Call
  BY <1>1, CallNumbers DEF DispatchIInv
<1>. QED
  BY <1>1, <1>2 DEF DispatchIInv, DispatchTyped, Its

LEMMA TakenKeeps ==
  ASSUME DispatchIInv, HandlersTypeOK', now \in Nat, now' \in Nat, now <= now', NEW p \in Proc,
         \/ Execute(p) \/ FastRespond(p) \/ Defer(p) \/ FinishEdit(p) \/ LogCall(p) \/ ExecutePrefix(p)
  PROVE  DispatchIInv'
<1>. DEFINE g == Its(p)
            pc == handling[p].pc
<1>1. calls' = calls /\ bucket' = bucket /\ pc # "idle"
  BY DEF Execute, FastRespond, Defer, FinishEdit, LogCall, ExecutePrefix, At, env, Fault
<1>2. g \in GivenType /\ InCourse(pc, g)
  BY <1>1, ItsTyped
<1>3. given = [given EXCEPT ![handling[p].call] = g]
  BY <1>1, ItsTyped
<1>. HIDE DEF g, pc
<1>4. CASE Execute(p)
  <2>. DEFINE h == [g EXCEPT !.ran = @ + 1]
  <2>1. Gives(p, h) /\ pc \in {"fast", "slow"} /\ Goto(p, IF pc = "fast" THEN "respond" ELSE "edit")
    BY <1>4 DEF Execute, At, g, pc
  <2>2. h \in GivenType /\ h.kind = g.kind /\ h.at = g.at /\ h.ran = g.ran + 1 /\ h.logged = g.logged /\ h.fast = g.fast
    BY <1>2 DEF GivenType
  <2>. HIDE DEF h
  <2>3. InCourse(IF pc = "fast" THEN "respond" ELSE "edit", h)
    BY <1>2, <2>1, <2>2 DEF InCourse, GivenType
  <2>. QED
    BY <1>1, <2>1, <2>2, <2>3, TakenOn DEF g, pc
<1>5. CASE FastRespond(p)
  <2>. DEFINE sent == [g EXCEPT !.answered = TRUE, !.fast = "sent"]
              refused == [g EXCEPT !.fast = "refused"]
              unheard == [g EXCEPT !.answered = TRUE, !.fast = "unheard"]
  <2>1. pc = "respond" /\ ((Gives(p, sent) /\ Goto(p, "log"))
                          \/ (Gives(p, refused) /\ Goto(p, "defer"))
                          \/ (Gives(p, unheard) /\ Goto(p, "defer")))
    BY <1>5 DEF FastRespond, At, g, pc
  <2>2. /\ sent \in GivenType /\ sent.kind = g.kind /\ sent.at = g.at /\ sent.ran = g.ran /\ sent.logged = g.logged
        /\ refused \in GivenType /\ refused.kind = g.kind /\ refused.at = g.at /\ refused.ran = g.ran /\ refused.logged = g.logged
        /\ refused.fast = "refused"
        /\ unheard \in GivenType /\ unheard.kind = g.kind /\ unheard.at = g.at /\ unheard.ran = g.ran
        /\ unheard.logged = g.logged /\ unheard.answered
    BY <1>2 DEF GivenType
  <2>. HIDE DEF sent, refused, unheard
  <2>3. InCourse("log", sent) /\ InCourse("defer", refused) /\ InCourse("defer", unheard)
    BY <1>2, <2>1, <2>2 DEF InCourse, Loggable, GivenType
  <2>. QED
    BY <1>1, <2>1, <2>2, <2>3, TakenOn DEF g, pc
<1>6. CASE Defer(p)
  <2>. DEFINE sent == [g EXCEPT !.answered = TRUE, !.ack = "sent"]
              refused == [g EXCEPT !.ack = "refused"]
              unheard == [g EXCEPT !.answered = TRUE, !.ack = "unheard"]
  <2>1. pc = "defer" /\ ((~g.answered /\ Gives(p, sent) /\ Goto(p, "slow"))
                        \/ (Gives(p, refused) /\ Goto(p, "log"))
                        \/ (Gives(p, unheard) /\ Goto(p, "log"))
                        \/ (g.answered /\ Gives(p, g) /\ Goto(p, "log")))
    BY <1>3, <1>6 DEF Defer, At, g, pc, Gives
  <2>2. /\ sent \in GivenType /\ sent.kind = g.kind /\ sent.at = g.at /\ sent.ran = g.ran /\ sent.logged = g.logged
        /\ sent.fast = g.fast
        /\ refused \in GivenType /\ refused.kind = g.kind /\ refused.at = g.at /\ refused.ran = g.ran /\ refused.logged = g.logged
        /\ refused.fast = g.fast /\ refused.ack = "refused"
        /\ unheard \in GivenType /\ unheard.kind = g.kind /\ unheard.at = g.at /\ unheard.ran = g.ran
        /\ unheard.logged = g.logged /\ unheard.fast = g.fast /\ unheard.ack = "unheard"
    BY <1>2 DEF GivenType
  <2>. HIDE DEF sent, refused, unheard
  <2>3. /\ g.answered => InCourse("log", g)
        /\ ~g.answered => InCourse("slow", sent)
        /\ InCourse("log", refused) /\ InCourse("log", unheard)
    BY <1>2, <2>1, <2>2 DEF InCourse, Loggable, GivenType
  <2>. QED
    BY <1>1, <1>2, <2>1, <2>2, <2>3, TakenOn DEF g, pc
<1>7. CASE FinishEdit(p)
  <2>1. pc = "edit" /\ Gives(p, g) /\ Goto(p, "log")
    BY <1>3, <1>7 DEF FinishEdit, At, g, pc, Gives
  <2>2. InCourse("log", g)
    BY <1>2, <2>1 DEF InCourse, Loggable, GivenType
  <2>. QED
    BY <1>1, <1>2, <2>1, <2>2, TakenOn DEF g, pc
<1>8. CASE LogCall(p)
  <2>. DEFINE h == [g EXCEPT !.logged = @ + 1]
  <2>1. given' = [given EXCEPT ![handling[p].call] = h] /\ pc = "log" /\ handling' = [handling EXCEPT ![p] = Unhandled]
    BY <1>8 DEF LogCall, At, g, pc, Gives
  <2>2. /\ h \in GivenType /\ h.kind = g.kind /\ h.at = g.at /\ h.ran = g.ran /\ h.logged = g.logged + 1
        /\ h.fast = g.fast /\ h.ack = g.ack
    BY <1>2 DEF GivenType
  <2>. HIDE DEF h
  <2>3. h.logged = 1 /\ Loggable(h)
    BY <1>2, <2>1, <2>2 DEF InCourse, Loggable, GivenType
  <2>. QED
    BY <1>1, <2>1, <2>2, <2>3, CallTaken, UnhandledTyped DEF g, pc, Its
<1>9. CASE ExecutePrefix(p)
  <2>. DEFINE h == [g EXCEPT !.ran = @ + 1, !.answered = TRUE]
  <2>1. Gives(p, h) /\ pc = "prefix" /\ Goto(p, "log")
    BY <1>9 DEF ExecutePrefix, At, g, pc
  <2>2. h \in GivenType /\ h.kind = g.kind /\ h.at = g.at /\ h.ran = g.ran + 1 /\ h.logged = g.logged
    <3>. DEFINE k == [g EXCEPT !.ran = @ + 1]
    <3>1. k \in GivenType /\ k.kind = g.kind /\ k.at = g.at /\ k.ran = g.ran + 1 /\ k.logged = g.logged
      BY <1>2 DEF GivenType
    <3>2. h = [k EXCEPT !.answered = TRUE]
      OBVIOUS
    <3>. HIDE DEF h, k
    <3>. QED
      BY <3>1, <3>2 DEF GivenType
  <2>. HIDE DEF h
  <2>3. InCourse("log", h)
    BY <1>2, <2>1, <2>2 DEF InCourse, Loggable, GivenType
  <2>. QED
    BY <1>1, <2>1, <2>2, <2>3, TakenOn DEF g, pc
<1>. QED
  BY <1>4, <1>5, <1>6, <1>7, <1>8, <1>9

LEMMA DispatchNextIInv ==
  ASSUME DispatchIInv, [DispatchNext]_<<env, dispatchVars>>
  PROVE  DispatchIInv'
<1>1. HandlersTypeOK' /\ now \in Nat /\ now' \in Nat /\ now <= now'
  BY DispatchEnv, EnvTypes DEF DispatchIInv
<1>2. ASSUME UNCHANGED <<handling, given, bucket, calls>> PROVE DispatchIInv'
  <2>1. DispatchTyped' /\ Accounted'
    BY <1>2 DEF DispatchIInv, DispatchTyped, Accounted, CallHeld
  <2>2. Paid' /\ PaidBetween'
    BY <1>1, <1>2, <2>1, PaidStays
  <2>. QED
    BY <1>1, <2>1, <2>2 DEF DispatchIInv
<1>3. ASSUME DispatchTick \/ UNCHANGED <<env, dispatchVars>> PROVE DispatchIInv'
  BY <1>2, <1>3 DEF DispatchTick, Passes, env, dispatchVars
<1>. QED
  BY <1>1, <1>3, SlashKeeps, PrefixKeeps, TakenKeeps DEF DispatchNext

LEMMA DispatchAccounts == DispatchIInv => RunsAccounted
<1>. SUFFICES ASSUME DispatchIInv PROVE RunsAccounted
  OBVIOUS
<1>1. ASSUME NEW c \in Call PROVE given[c].ran > 1 => given[c].fast = "refused"
  <2>1. CASE given[c].kind = "none"
    BY <2>1 DEF DispatchIInv, Accounted, Ungiven
  <2>2. CASE CallHeld(c)
    <3>1. PICK p \in Proc : handling[p].call = c
      BY <2>2 DEF CallHeld
    <3>2. handling[p].pc # "idle"
      BY <3>1 DEF DispatchIInv, Accounted, Call
    <3>3. /\ given[c] \in GivenType /\ InCourse(handling[p].pc, given[c])
          /\ handling[p] \in HandlingType
      BY <3>1, <3>2, ItsTyped DEF Its
    <3>. QED
      BY <3>2, <3>3 DEF InCourse, GivenType, HandlingType, Loggable
  <2>3. CASE ~CallHeld(c) /\ given[c].kind # "none"
    BY <2>3 DEF DispatchIInv, Accounted, Loggable
  <2>. QED
    BY <2>1, <2>2, <2>3
<1>2. ASSUME NEW c \in Call, given[c].kind # "none", \A p \in Proc : handling[p].call # c
      PROVE  given[c].logged = 1 /\ Loggable(given[c])
  BY <1>2 DEF DispatchIInv, Accounted, CallHeld
<1>3. ASSUME NEW c \in Call, NEW d \in Call, given[c].kind = "prefix", given[d].kind = "prefix", c < d
      PROVE  TokenCost * Cardinality({e \in c..d : given[e].kind = "prefix"})
               <= TokenCap * TokenCost + (given[d].at - given[c].at)
  BY <1>3 DEF DispatchIInv, PaidBetween, PrefixesIn
<1>. QED
  BY <1>1, <1>2, <1>3 DEF RunsAccounted, Loggable

(* Every call runs as often and is logged as it should be, and prefix        *)
(* commands are held to the rate: for any number of goroutines and calls and *)
(* any bucket.                                                               *)
THEOREM DispatchRunsAccounted == DispatchSpec => []RunsAccounted
<1>1. DispatchIInv => RunsAccounted
  BY DispatchAccounts
<1>. QED
  BY <1>1, DispatchInitIInv, DispatchNextIInv, PTL DEF DispatchSpec

---------------------------------------------------------------------------
(* Antispam: for any messages, times and settings two bursts, and two      *)
(* falls into the trap, are punished apart.                                *)
Distant(s, t, d) == s >= t + d \/ t >= s + d

(* Of the trap every punishment counts, of the burst detector those that     *)
(* were alone between its two lock sections.                                 *)
Counts(kind, it) == kind = "trap" \/ it.alone

ActsOf(kind) == {i \in 1..Len(acts) : acts[i].kind = kind /\ Counts(kind, acts[i])}
Holding(kind, pc) == {p \in Proc : screening[p].pc = pc /\ Counts(kind, screening[p])}

(* Times taken from the cooldown are apart, be they punished yet or not.     *)
Spaced(kind, pc, d) ==
    /\ \A i, j \in ActsOf(kind) : i # j => Distant(acts[i].at, acts[j].at, d)
    /\ \A p, q \in Holding(kind, pc) : p # q => Distant(screening[p].at, screening[q].at, d)
    /\ \A i \in ActsOf(kind), p \in Holding(kind, pc) : Distant(acts[i].at, screening[p].at, d)

Trapped(t) == honeypotCooldown # Never /\ t <= honeypotCooldown

TrapTaken ==
    /\ \A i \in ActsOf("trap") : Trapped(acts[i].at)
    /\ \A p \in Holding("trap", "trapped") : Trapped(screening[p].at)

(* No mark that is still to come sets the cooldown back behind t.            *)
MarksPassed(t) ==
    /\ spamCooldown # Never /\ t <= spamCooldown
    /\ \A q \in Marking : t <= screening[q].at

BurstTaken ==
    /\ spamCooldown # Never => spamCooldown <= now
    /\ \A i \in ActsOf("burst") : MarksPassed(acts[i].at)
    /\ \A p \in Holding("burst", "punish") : MarksPassed(screening[p].at)
    /\ \A p \in Marking : screening[p].at <= now
    /\ \A p \in Holding("burst", "mark") :
          Marking = {p} /\ (spamCooldown # Never => spamCooldown + SpamCooldown <= screening[p].at)

(* What the window holds does not matter: any count may be a burst.          *)
ScreenType == [pc : {"idle", "query", "fill", "screen", "trapped", "mark", "punish", "bust"},
               kind : Kind, mod : BOOLEAN, cfg : Row, at : Time, alone : BOOLEAN]
ActType == [kind : {"trap", "burst"}, at : Time, alone : BOOLEAN]

GuardTyped ==
    /\ guardRow \in Row
    /\ guardCache \in [cfg : Row, at : Time \cup {Never}]
    /\ {spamCooldown, honeypotCooldown} \subseteq Time \cup {Never}
    /\ screening \in [Proc -> ScreenType]
    /\ acts \in Seq(ActType)

GuardIInv ==
    /\ HandlersTypeOK /\ GuardTyped
    /\ TrapTaken /\ Spaced("trap", "trapped", TrapCooldown)
    /\ BurstTaken /\ Spaced("burst", "punish", SpamCooldown)

---------------------------------------------------------------------------
LEMMA UnscreenedTyped == Unscreened \in ScreenType /\ Unscreened.pc = "idle"
BY HandlersAssumption DEF Unscreened, ScreenType, Kind, Row, Time

LEMMA GuardInitIInv == HandlersInit /\ GuardInit => GuardIInv
<1>. SUFFICES ASSUME HandlersInit, GuardInit PROVE GuardIInv
  OBVIOUS
<1>1. HandlersTypeOK
  BY HandlersAssumption DEF HandlersInit, HandlersTypeOK, Time
<1>2. GuardTyped
  <2>1. screening \in [Proc -> ScreenType]
    BY UnscreenedTyped DEF GuardInit
  <2>. QED
    BY <2>1 DEF GuardInit, GuardTyped, ScreenType, Row
<1>3. \A p \in Proc : screening[p].pc = "idle"
  BY UnscreenedTyped DEF GuardInit
<1>4. Len(acts) = 0 /\ spamCooldown = Never /\ honeypotCooldown = Never
  BY DEF GuardInit
<1>5. \A kind : ActsOf(kind) = {} /\ Marking = {}
  BY <1>3, <1>4 DEF ActsOf, Marking
<1>6. \A kind, pc : pc # "idle" => Holding(kind, pc) = {}
  BY <1>3 DEF Holding
<1>. QED
  BY <1>1, <1>2, <1>4, <1>5, <1>6 DEF GuardIInv, TrapTaken, BurstTaken, Spaced

---------------------------------------------------------------------------
(* The types.                                                                *)


LEMMA GuardEnv ==
  ASSUME [GuardNext]_<<env, guardVars>>
  PROVE  Called \/ Fault \/ Passes \/ UNCHANGED env
<1>1. ASSUME NEW p \in Proc,
             \/ SeeMessage(p) \/ QuerySettings(p) \/ FillSettings(p) \/ ScreenPass(p)
             \/ FilterMessage(p) \/ TripHoneypot(p) \/ TrapPunish(p)
      PROVE  Called \/ Fault \/ UNCHANGED env
  BY <1>1 DEF SeeMessage, QuerySettings, FillSettings, ScreenPass, FilterMessage, TripHoneypot, TrapPunish, env
<1>2. ASSUME NEW p \in Proc,
             \/ CountMessage(p) \/ MarkBurst(p) \/ PunishBurst(p)
             \/ ChangeSettings(p) \/ InvalidateProtectionConfig(p)
      PROVE  Called \/ Fault \/ UNCHANGED env
  BY <1>2 DEF CountMessage, MarkBurst, PunishBurst, ChangeSettings, InvalidateProtectionConfig, env
<1>. QED
  BY <1>1, <1>2 DEF GuardNext, GuardTick, GuardRestart, env

LEMMA GuardTypes ==
  ASSUME HandlersTypeOK, GuardTyped, [GuardNext]_<<env, guardVars>>
  PROVE  HandlersTypeOK' /\ GuardTyped'
<1>. USE HandlersAssumption, AntispamAssumption
<1>1. screening \in [Proc -> ScreenType]
  BY DEF GuardTyped, ScreenType
<1>2. now \in Nat /\ now \in Time
  BY DEF HandlersTypeOK, Time
<1>3. HandlersTypeOK'
  BY GuardEnv, EnvTypes
<1>4. ASSUME NEW p \in Proc, SeeMessage(p) PROVE GuardTyped'
  <2>1. PICK m \in Messages : screening' = [screening EXCEPT ![p] =
              IF Within(guardCache.at, GuardTTL)
              THEN [[Unscreened EXCEPT !.kind = m.kind, !.mod = m.mod] EXCEPT !.pc = "screen", !.cfg = guardCache.cfg]
              ELSE [[Unscreened EXCEPT !.kind = m.kind, !.mod = m.mod] EXCEPT !.pc = "query"]]
    BY <1>4 DEF SeeMessage
  <2>2. m.kind \in Kind /\ m.mod \in BOOLEAN /\ guardCache.cfg \in Row
    BY DEF Kind, GuardTyped
  <2>. DEFINE it == [Unscreened EXCEPT !.kind = m.kind, !.mod = m.mod]
  <2>3. it \in ScreenType
    BY <2>2, UnscreenedTyped DEF ScreenType
  <2>4. [it EXCEPT !.pc = "screen", !.cfg = guardCache.cfg] \in ScreenType /\ [it EXCEPT !.pc = "query"] \in ScreenType
    BY <2>2, <2>3 DEF ScreenType
  <2>. HIDE DEF it
  <2>5. screening' \in [Proc -> ScreenType]
    BY <1>1, <2>1, <2>4 DEF it
  <2>. QED
    BY <1>4, <2>5 DEF SeeMessage, GuardTyped, ScreenType
<1>5. ASSUME NEW p \in Proc, QuerySettings(p) PROVE GuardTyped'
  <2>1. screening' \in [Proc -> ScreenType]
    BY <1>1, <1>5 DEF QuerySettings, GuardTyped, ScreenType, Row
  <2>. QED
    BY <1>5, <2>1 DEF QuerySettings, GuardTyped, ScreenType
<1>6. ASSUME NEW p \in Proc, FillSettings(p) PROVE GuardTyped'
  <2>1. screening' \in [Proc -> ScreenType] /\ screening[p].cfg \in Row
    BY <1>1, <1>6 DEF FillSettings, ScreenGoto, ScreenType
  <2>. QED
    BY <1>2, <1>6, <2>1 DEF FillSettings, GuardTyped, ScreenType
<1>7. ASSUME NEW p \in Proc, ScreenPass(p) \/ FilterMessage(p) PROVE GuardTyped'
  <2>1. screening' \in [Proc -> ScreenType]
    BY <1>1, <1>7, UnscreenedTyped DEF ScreenPass, FilterMessage, ScreenIdle
  <2>. QED
    BY <1>7, <2>1 DEF ScreenPass, FilterMessage, GuardTyped, ScreenType
<1>8. ASSUME NEW p \in Proc, TripHoneypot(p) PROVE GuardTyped'
  <2>1. screening' \in [Proc -> ScreenType]
    BY <1>1, <1>2, <1>8, UnscreenedTyped DEF TripHoneypot, Unscreened, ScreenType
  <2>. QED
    BY <1>2, <1>8, <2>1 DEF TripHoneypot, GuardTyped, ScreenType
<1>9. ASSUME NEW p \in Proc, TrapPunish(p) \/ PunishBurst(p) PROVE GuardTyped'
  <2>1. screening' \in [Proc -> ScreenType]
    BY <1>1, <1>9, UnscreenedTyped DEF TrapPunish, PunishBurst, ScreenIdle
  <2>2. ASSUME NEW kind \in {"trap", "burst"}
        PROVE  [kind |-> kind, at |-> screening[p].at, alone |-> screening[p].alone] \in ActType
    BY <1>1 DEF ActType, ScreenType
  <2>3. acts' \in Seq(ActType)
    BY <1>9, <2>2, SMTT(30) DEF TrapPunish, PunishBurst, Act, GuardTyped
  <2>. QED
    BY <1>9, <2>1, <2>3 DEF TrapPunish, PunishBurst, GuardTyped, ScreenType
<1>10. ASSUME NEW p \in Proc, CountMessage(p) PROVE GuardTyped'
  <2>1. [Unscreened EXCEPT !.pc = "mark", !.at = now, !.alone = Marking = {}] \in ScreenType
    BY <1>2, UnscreenedTyped DEF ScreenType
  <2>2. \A q \in Proc : screening[q] \in ScreenType /\ [screening[q] EXCEPT !.alone = FALSE] \in ScreenType
    BY <1>1 DEF ScreenType
  <2>3. screening' \in [Proc -> ScreenType]
    BY <1>1, <1>10, <2>1, <2>2, UnscreenedTyped, ZenonT(30) DEF CountMessage, ScreenIdle
  <2>. QED
    BY <1>10, <2>3 DEF CountMessage, GuardTyped, ScreenType
<1>11. ASSUME NEW p \in Proc, MarkBurst(p) PROVE GuardTyped'
  <2>1. screening' \in [Proc -> ScreenType] /\ screening[p].at \in Time
    BY <1>1, <1>11 DEF MarkBurst, ScreenGoto, ScreenType
  <2>. QED
    BY <1>11, <2>1 DEF MarkBurst, GuardTyped, ScreenType
<1>12. ASSUME NEW p \in Proc, ChangeSettings(p) PROVE GuardTyped'
  <2>1. screening' \in [Proc -> ScreenType]
    BY <1>1, <1>12 DEF ChangeSettings, ScreenGoto, ScreenType
  <2>. QED
    BY <1>12, <2>1 DEF ChangeSettings, GuardTyped, ScreenType, Row
<1>13. ASSUME NEW p \in Proc, InvalidateProtectionConfig(p) PROVE GuardTyped'
  <2>1. screening' \in [Proc -> ScreenType]
    BY <1>1, <1>13, UnscreenedTyped DEF InvalidateProtectionConfig, ScreenIdle
  <2>. QED
    BY <1>13, <2>1 DEF InvalidateProtectionConfig, GuardTyped, ScreenType, Row
<1>14. ASSUME GuardRestart PROVE GuardTyped'
  <2>1. screening' \in [Proc -> ScreenType]
    BY <1>14, UnscreenedTyped DEF GuardRestart
  <2>. QED
    BY <1>14, <2>1 DEF GuardRestart, GuardTyped, ScreenType, Row
<1>15. ASSUME UNCHANGED guardVars PROVE GuardTyped'
  BY <1>15 DEF guardVars, GuardTyped
<1>. QED
  BY <1>3, <1>4, <1>5, <1>6, <1>7, <1>8, <1>9, <1>10, <1>11, <1>12, <1>13, <1>14, <1>15
     DEF GuardNext, GuardTick

---------------------------------------------------------------------------
(* The numbers among the values.                                             *)

LEMMA GuardNumbers ==
  ASSUME HandlersTypeOK, GuardTyped
  PROVE  /\ Never \notin Nat /\ now \in Nat /\ SpamCooldown \in Nat /\ TrapCooldown \in Nat
         /\ spamCooldown # Never => spamCooldown \in Nat
         /\ honeypotCooldown # Never => honeypotCooldown \in Nat
         /\ \A i \in 1..Len(acts) : acts[i].at \in Nat
         /\ \A q \in Proc : screening[q].at \in Nat
<1>1. /\ Never \notin Nat /\ SpamCooldown \in Nat /\ TrapCooldown \in Nat
      /\ Time \subseteq Nat
  BY HandlersAssumption, AntispamAssumption DEF Time
<1>2. now \in Nat
  BY <1>1 DEF HandlersTypeOK
<1>3. \A i \in 1..Len(acts) : acts[i] \in ActType
  BY DEF GuardTyped
<1>4. \A i \in 1..Len(acts) : acts[i].at \in Nat
  BY <1>1, <1>3 DEF ActType
<1>5. \A q \in Proc : screening[q].at \in Nat
  BY <1>1 DEF GuardTyped, ScreenType
<1>6. /\ spamCooldown # Never => spamCooldown \in Nat
      /\ honeypotCooldown # Never => honeypotCooldown \in Nat
  BY <1>1 DEF GuardTyped
<1>. QED
  BY <1>1, <1>2, <1>4, <1>5, <1>6

(* Who holds a time, after a step in which nobody takes one.                 *)

KeepsTimes(q) ==
    screening'[q].pc \in {"trapped", "mark", "punish"} =>
        /\ screening'[q].pc = screening[q].pc
        /\ screening'[q].at = screening[q].at
        /\ screening'[q].alone = screening[q].alone

LEMMA GuardHolders == Marking \subseteq Proc /\ \A kind, pc : Holding(kind, pc) \subseteq Proc /\ ActsOf(kind) \subseteq 1..Len(acts)
BY DEF Marking, Holding, ActsOf

LEMMA GuardQuiet ==
  ASSUME GuardIInv, HandlersTypeOK', GuardTyped', now \in Nat, now' \in Nat, now <= now',
         UNCHANGED <<spamCooldown, honeypotCooldown, acts>>, \A q \in Proc : KeepsTimes(q)
  PROVE  GuardIInv'
<1>1. \A kind : ActsOf(kind)' = ActsOf(kind)
  BY DEF ActsOf, Counts
<1>2. \A kind, pc, p : pc \in {"trapped", "mark", "punish"} /\ p \in Holding(kind, pc)' =>
          p \in Holding(kind, pc) /\ screening'[p].at = screening[p].at
  BY DEF Holding, Counts, KeepsTimes
<1>3. \A p \in Marking' : p \in Marking /\ screening'[p].at = screening[p].at
  BY DEF Marking, KeepsTimes
<1>4. \A kind, pc, d : pc \in {"trapped", "mark", "punish"} /\ Spaced(kind, pc, d) => Spaced(kind, pc, d)'
  BY <1>1, <1>2 DEF Spaced
<1>5. TrapTaken'
  BY <1>1, <1>2 DEF GuardIInv, TrapTaken, Trapped
<1>6. BurstTaken'
  <2>1. \A t \in Nat : MarksPassed(t) => MarksPassed(t)'
    BY <1>3 DEF MarksPassed
  <2>2. spamCooldown' # Never => spamCooldown' <= now'
    BY DEF GuardIInv, BurstTaken, GuardTyped, Time
  <2>3. \A p \in Marking' : screening'[p].at <= now'
    BY <1>3 DEF GuardIInv, BurstTaken, GuardTyped, ScreenType, Time, Marking
  <2>4. \A p \in Holding("burst", "mark")' : Marking' = {p}
    <3>. SUFFICES ASSUME NEW p \in Holding("burst", "mark")' PROVE Marking' = {p}
      OBVIOUS
    <3>1. Marking = {p} /\ p \in Marking'
      BY <1>2 DEF GuardIInv, BurstTaken, Holding, Marking
    <3>. QED
      BY <1>3, <3>1
  <2>5. \A p \in Holding("burst", "mark")' : spamCooldown' # Never => spamCooldown' + SpamCooldown <= screening'[p].at
    BY <1>2 DEF GuardIInv, BurstTaken
  <2>6. /\ \A i \in ActsOf("burst")' : MarksPassed(acts[i].at)'
        /\ \A p \in Holding("burst", "punish")' : MarksPassed(screening[p].at)'
    BY <1>1, <1>2, <2>1, GuardHolders, GuardNumbers DEF GuardIInv, BurstTaken
  <2>. QED
    BY <2>2, <2>3, <2>4, <2>5, <2>6 DEF BurstTaken
<1>. QED
  BY <1>4, <1>5, <1>6 DEF GuardIInv

---------------------------------------------------------------------------
(* The steps at which a time is taken, settled or written down.              *)

LEMMA TripTakes ==
  ASSUME GuardIInv, HandlersTypeOK', GuardTyped', NEW p \in Proc, TripHoneypot(p)
  PROVE  GuardIInv'
<1>1. /\ now \in Nat /\ now' = now /\ acts' = acts /\ honeypotCooldown' = now /\ spamCooldown' = spamCooldown
      /\ now # Never
  BY GuardNumbers DEF TripHoneypot, env, GuardIInv
<1>2. /\ screening'[p].pc = "trapped" /\ screening'[p].at = now
      /\ screening[p].pc = "screen"
      /\ \A q \in Proc \ {p} : screening'[q] = screening[q]
  BY DEF TripHoneypot, GuardIInv, GuardTyped, Unscreened
<1>3. honeypotCooldown # Never => honeypotCooldown + TrapCooldown <= now
  BY <1>1, GuardNumbers DEF TripHoneypot, Within, GuardIInv
<1>4. ActsOf("trap")' = ActsOf("trap") /\ ActsOf("burst")' = ActsOf("burst")
  BY <1>1 DEF ActsOf, Counts
<1>5. /\ Marking' = Marking /\ p \notin Marking
      /\ \A pc \in {"mark", "punish"} : Holding("burst", pc)' = Holding("burst", pc) /\ p \notin Holding("burst", pc)
  BY <1>2 DEF Marking, Holding, Counts
<1>6. Holding("trap", "trapped")' = Holding("trap", "trapped") \cup {p} /\ p \notin Holding("trap", "trapped")
  BY <1>2 DEF Holding, Counts
<1>7. /\ \A i \in ActsOf("trap") : acts[i].at \in Nat /\ acts[i].at + TrapCooldown <= now
      /\ \A q \in Holding("trap", "trapped") : screening[q].at \in Nat /\ screening[q].at + TrapCooldown <= now
  BY <1>1, <1>3, GuardNumbers DEF GuardIInv, TrapTaken, Trapped, ActsOf, Holding
<1>8. TrapTaken'
  BY <1>1, <1>2, <1>4, <1>6, <1>7, GuardNumbers, GuardHolders DEF GuardIInv, TrapTaken, Trapped
<1>9. Spaced("trap", "trapped", TrapCooldown)'
  BY <1>1, <1>2, <1>4, <1>6, <1>7, GuardHolders DEF GuardIInv, Spaced, Distant
<1>10. Spaced("burst", "punish", SpamCooldown)'
  BY <1>1, <1>2, <1>4, <1>5, GuardHolders DEF GuardIInv, Spaced, Distant
<1>11. BurstTaken'
  <2>1. \A t \in Nat : MarksPassed(t) => MarksPassed(t)'
    BY <1>1, <1>2, <1>5, GuardHolders DEF MarksPassed
  <2>. QED
    <3>1. \A i \in ActsOf("burst") : MarksPassed(acts[i].at)'
      BY <1>1, <2>1, GuardNumbers, GuardHolders DEF GuardIInv, BurstTaken
    <3>2. \A q \in Holding("burst", "punish") : MarksPassed(screening[q].at)'
      BY <1>2, <1>5, <2>1, GuardNumbers, GuardHolders DEF GuardIInv, BurstTaken
    <3>. QED
      BY <1>1, <1>2, <1>4, <1>5, <3>1, <3>2, GuardHolders DEF GuardIInv, BurstTaken
<1>. QED
  BY <1>8, <1>9, <1>10, <1>11 DEF GuardIInv

LEMMA MarkTakes ==
  ASSUME GuardIInv, HandlersTypeOK', GuardTyped', NEW p \in Proc, CountMessage(p), ~Tolerated(Len(spamWindow'), screening[p].cfg.msgs)
  PROVE  GuardIInv'
<1>1. /\ now \in Nat /\ now' = now /\ acts' = acts
      /\ honeypotCooldown' = honeypotCooldown /\ spamCooldown' = spamCooldown
  BY GuardNumbers DEF CountMessage, env, GuardIInv
<1>2. /\ screening[p].pc = "screen"
      /\ screening' = [q \in Proc |->
              IF q = p THEN [Unscreened EXCEPT !.pc = "mark", !.at = now, !.alone = Marking = {}]
              ELSE IF q \in Marking THEN [screening[q] EXCEPT !.alone = FALSE] ELSE screening[q]]
  BY DEF CountMessage
<1>3. /\ screening'[p].pc = "mark" /\ screening'[p].at = now /\ screening'[p].alone = (Marking = {})
      /\ \A q \in Proc \ {p} : /\ screening'[q].pc = screening[q].pc
                               /\ screening'[q].at = screening[q].at
                               /\ screening'[q].alone = (q \notin Marking /\ screening[q].alone)
  BY <1>2, ZenonT(30) DEF Unscreened, GuardIInv, GuardTyped, ScreenType
<1>4. Marking' = Marking \cup {p} /\ p \notin Marking
  BY <1>2, <1>3 DEF Marking
<1>5. \A kind : ActsOf(kind)' = ActsOf(kind)
  BY <1>1 DEF ActsOf, Counts
<1>6. /\ Holding("trap", "trapped")' = Holding("trap", "trapped") /\ p \notin Holding("trap", "trapped")
      /\ Holding("burst", "punish")' = Holding("burst", "punish") /\ p \notin Holding("burst", "punish")
  BY <1>2, <1>3 DEF Holding, Counts, Marking
<1>7. TrapTaken' /\ Spaced("trap", "trapped", TrapCooldown)' /\ Spaced("burst", "punish", SpamCooldown)'
  BY <1>1, <1>3, <1>5, <1>6 DEF GuardIInv, TrapTaken, Trapped, Spaced, Holding
<1>8. \A t \in Nat : MarksPassed(t) => MarksPassed(t)'
  <2>. SUFFICES ASSUME NEW t \in Nat, MarksPassed(t) PROVE MarksPassed(t)'
    OBVIOUS
  <2>1. t <= now
    BY GuardNumbers DEF MarksPassed, GuardIInv, BurstTaken
  <2>2. \A q \in Marking' : t <= screening'[q].at
    BY <1>3, <1>4, <2>1 DEF MarksPassed, Marking
  <2>. QED
    BY <1>1, <2>2 DEF MarksPassed
<1>9. \A q \in Holding("burst", "mark")' :
         Marking' = {q} /\ (spamCooldown' # Never => spamCooldown' + SpamCooldown <= screening'[q].at)
  <2>. SUFFICES ASSUME NEW q \in Holding("burst", "mark")'
                PROVE  Marking' = {q} /\ (spamCooldown' # Never => spamCooldown' + SpamCooldown <= screening'[q].at)
    OBVIOUS
  <2>1. q = p
    BY <1>3 DEF Holding, Counts, Marking
  <2>2. Marking = {}
    BY <1>3, <2>1 DEF Holding, Counts
  <2>3. spamCooldown # Never => spamCooldown + SpamCooldown <= now
    BY <1>1, GuardNumbers DEF Tolerated, Within, GuardIInv
  <2>. QED
    BY <1>1, <1>3, <1>4, <2>1, <2>2, <2>3
<1>10. BurstTaken'
  <2>1. \A i \in ActsOf("burst") : MarksPassed(acts[i].at)'
    BY <1>1, <1>8, GuardNumbers, GuardHolders DEF GuardIInv, BurstTaken
  <2>2. \A q \in Holding("burst", "punish") : MarksPassed(screening[q].at)'
    BY <1>3, <1>6, <1>8, GuardNumbers, GuardHolders DEF GuardIInv, BurstTaken
  <2>3. \A q \in Marking' : screening'[q].at <= now'
    BY <1>1, <1>3, <1>4, GuardHolders DEF GuardIInv, BurstTaken
  <2>. QED
    BY <1>1, <1>5, <1>6, <1>9, <2>1, <2>2, <2>3 DEF GuardIInv, BurstTaken
<1>. QED
  BY <1>7, <1>10 DEF GuardIInv

LEMMA MarkSettles ==
  ASSUME GuardIInv, HandlersTypeOK', GuardTyped', NEW p \in Proc, MarkBurst(p)
  PROVE  GuardIInv'
<1>1. /\ now \in Nat /\ now' = now /\ acts' = acts
      /\ honeypotCooldown' = honeypotCooldown /\ spamCooldown' = screening[p].at
      /\ screening[p].pc = "mark" /\ screening[p].at \in Nat /\ screening[p].at # Never
  BY GuardNumbers DEF MarkBurst, env, GuardIInv
<1>2. /\ screening'[p].pc = "punish" /\ screening'[p].at = screening[p].at /\ screening'[p].alone = screening[p].alone
      /\ \A q \in Proc \ {p} : screening'[q] = screening[q]
  BY DEF MarkBurst, ScreenGoto, GuardIInv, GuardTyped, ScreenType
<1>3. Marking' = Marking \ {p} /\ p \in Marking
  BY <1>1, <1>2 DEF Marking
<1>4. \A kind : ActsOf(kind)' = ActsOf(kind)
  BY <1>1 DEF ActsOf, Counts
<1>5. Holding("trap", "trapped")' = Holding("trap", "trapped") /\ p \notin Holding("trap", "trapped")
  BY <1>1, <1>2 DEF Holding, Counts
<1>6. \A i \in 1..Len(acts) : acts[i].at \in Nat
  BY GuardNumbers DEF GuardIInv
<1>7. \A q \in Proc : screening[q].at \in Nat
  BY GuardNumbers DEF GuardIInv
<1>8. TrapTaken' /\ Spaced("trap", "trapped", TrapCooldown)'
  BY <1>1, <1>2, <1>4, <1>5, GuardHolders DEF GuardIInv, TrapTaken, Trapped, Spaced
(* Every time that counts lies a cooldown before the one of a lonely mark.   *)
<1>9. ASSUME NEW t \in Nat, MarksPassed(t) PROVE MarksPassed(t)' /\ (screening[p].alone => t + SpamCooldown <= screening[p].at)
  <2>1. MarksPassed(t)'
    BY <1>1, <1>2, <1>3, <1>9, GuardHolders DEF MarksPassed
  <2>2. screening[p].alone => spamCooldown \in Nat /\ spamCooldown + SpamCooldown <= screening[p].at
    BY <1>1, <1>9, GuardNumbers DEF MarksPassed, GuardIInv, BurstTaken, Holding, Counts
  <2>. QED
    BY <1>1, <1>9, <2>1, <2>2, GuardNumbers DEF MarksPassed, GuardIInv
<1>10. screening[p].alone => MarksPassed(screening[p].at)'
  <2>. SUFFICES ASSUME screening[p].alone PROVE MarksPassed(screening[p].at)'
    OBVIOUS
  <2>1. Marking' = {}
    BY <1>1, <1>3 DEF GuardIInv, BurstTaken, Holding, Counts
  <2>. QED
    BY <1>1, <1>2, <2>1 DEF MarksPassed
<1>11. /\ \A q \in Holding("burst", "punish")' :
             (q = p /\ screening[p].alone) \/ (q # p /\ q \in Holding("burst", "punish"))
       /\ \A q \in Holding("burst", "mark")' : q # p /\ q \in Holding("burst", "mark")
  BY <1>1, <1>2 DEF Holding, Counts
<1>12. Spaced("burst", "punish", SpamCooldown)'
  <2>1. /\ \A i \in ActsOf("burst") : screening[p].alone => acts[i].at + SpamCooldown <= screening[p].at
        /\ \A q \in Holding("burst", "punish") : screening[p].alone => screening[q].at + SpamCooldown <= screening[p].at
    BY <1>6, <1>7, <1>9 DEF GuardIInv, BurstTaken, ActsOf, Holding
  <2>. QED
    BY <1>1, <1>2, <1>4, <1>11, <2>1, GuardHolders DEF GuardIInv, Spaced, Distant
<1>13. BurstTaken'
  <2>1. spamCooldown' <= now'
    BY <1>1, <1>3 DEF GuardIInv, BurstTaken
  <2>2. \A q \in Holding("burst", "mark")' : FALSE
    BY <1>3, <1>11 DEF GuardIInv, BurstTaken, Holding
  <2>3. /\ \A i \in ActsOf("burst")' : MarksPassed(acts[i].at)'
        /\ \A q \in Holding("burst", "punish")' : MarksPassed(screening[q].at)'
    <3>1. \A i \in ActsOf("burst") : MarksPassed(acts[i].at)'
      BY <1>1, <1>6, <1>9, GuardHolders DEF GuardIInv, BurstTaken
    <3>2. \A q \in Holding("burst", "punish") : q # p => MarksPassed(screening[q].at)'
      <4>. SUFFICES ASSUME NEW q \in Holding("burst", "punish"), q # p PROVE MarksPassed(screening[q].at)'
        OBVIOUS
      <4>. DEFINE t == screening[q].at
      <4>1. t \in Nat /\ MarksPassed(t)
        BY <1>7 DEF GuardIInv, BurstTaken, Holding
      <4>2. screening'[q].at = t
        BY <1>2 DEF Holding
      <4>3. t <= spamCooldown' /\ spamCooldown' # Never /\ \A r \in Marking' : t <= screening'[r].at
        BY <1>1, <1>2, <1>3, <4>1, GuardHolders DEF MarksPassed
      <4>. QED
        BY <4>2, <4>3 DEF MarksPassed
    <3>. QED
      BY <1>2, <1>4, <1>10, <1>11, <3>1, <3>2 DEF MarksPassed
  <2>4. \A q \in Marking' : screening'[q].at <= now'
    BY <1>1, <1>2, <1>3, GuardHolders DEF GuardIInv, BurstTaken
  <2>. QED
    BY <2>1, <2>2, <2>3, <2>4 DEF BurstTaken
<1>. QED
  BY <1>8, <1>12, <1>13 DEF GuardIInv

(* A time that was held is written down.                                     *)
LEMMA PunishWrites ==
  ASSUME GuardIInv, HandlersTypeOK', GuardTyped', NEW p \in Proc, NEW kind, NEW pc,
         <<kind, pc>> \in {<<"trap", "trapped">>, <<"burst", "punish">>},
         screening[p].pc = pc, Act(kind, p), ScreenIdle(p),
         UNCHANGED <<now, spamCooldown, honeypotCooldown>>
  PROVE  GuardIInv'
<1>. DEFINE n == Len(acts) + 1
<1>1. /\ acts \in Seq(ActType) /\ Len(acts) \in Nat /\ Len(acts') = n
      /\ acts'[n].kind = kind /\ acts'[n].at = screening[p].at /\ acts'[n].alone = screening[p].alone
      /\ \A i \in 1..Len(acts) : acts'[i] = acts[i]
  BY DEF Act, GuardIInv, GuardTyped
<1>. HIDE DEF n
<1>2. screening'[p].pc = "idle" /\ \A q \in Proc \ {p} : screening'[q] = screening[q]
  BY UnscreenedTyped DEF ScreenIdle, GuardIInv, GuardTyped
<1>3. /\ Marking' = Marking /\ p \notin Marking
      /\ \A k, c : c \in {"trapped", "punish", "mark"} => Holding(k, c)' = Holding(k, c) \ {p}
  BY <1>2 DEF Marking, Holding, Counts
<1>4. ASSUME NEW k, NEW c, <<k, c>> \in {<<"trap", "trapped">>, <<"burst", "punish">>},
             NEW i \in ActsOf(k)'
      PROVE  \/ i \in ActsOf(k) /\ acts'[i].at = acts[i].at
             \/ i = n /\ p \in Holding(k, c) /\ acts'[i].at = screening[p].at
  <2>1. i \in 1..n /\ acts'[i].kind = k /\ (k = "trap" \/ acts'[i].alone)
    BY <1>1, <1>4 DEF ActsOf, Counts
  <2>2. CASE i = n
    BY <1>1, <1>4, <2>1, <2>2 DEF Holding, Counts
  <2>3. CASE i # n
    <3>1. i \in 1..Len(acts)
      BY <1>1, <2>1, <2>3 DEF n
    <3>. QED
      BY <1>1, <2>1, <3>1 DEF ActsOf, Counts
  <2>. QED
    BY <2>2, <2>3
<1>5. \A t \in Nat : MarksPassed(t) => MarksPassed(t)'
  BY <1>2, <1>3, GuardHolders DEF MarksPassed
<1>6. n \notin 1..Len(acts)
  BY <1>1 DEF n
<1>7. ASSUME NEW k, NEW c, NEW d, <<k, c>> \in {<<"trap", "trapped">>, <<"burst", "punish">>}, Spaced(k, c, d)
      PROVE  Spaced(k, c, d)'
  <2>1. \A q \in Holding(k, c)' : q # p /\ q \in Holding(k, c) /\ screening'[q].at = screening[q].at
    BY <1>2, <1>3, <1>7, GuardHolders
  <2>2. \A i, j \in ActsOf(k)' : i # j => Distant(acts'[i].at, acts'[j].at, d)
    BY <1>4, <1>7 DEF Spaced, Distant
  <2>3. \A i \in ActsOf(k)', q \in Holding(k, c)' : Distant(acts'[i].at, screening'[q].at, d)
    BY <1>4, <1>7, <2>1 DEF Spaced, Distant
  <2>. QED
    BY <1>7, <2>1, <2>2, <2>3 DEF Spaced
<1>8. TrapTaken'
  <2>1. \A t : Trapped(t) => Trapped(t)'
    BY DEF Trapped
  <2>2. \A i \in ActsOf("trap")' : Trapped(acts[i].at)'
    BY <1>4 DEF GuardIInv, TrapTaken, Trapped
  <2>. QED
    BY <1>2, <1>3, <2>2, GuardHolders DEF GuardIInv, TrapTaken, Trapped
<1>9. BurstTaken'
  <2>1. /\ \A i \in ActsOf("burst") : acts[i].at \in Nat /\ MarksPassed(acts[i].at)
        /\ \A q \in Holding("burst", "punish") : screening[q].at \in Nat /\ MarksPassed(screening[q].at)
    BY GuardNumbers, GuardHolders DEF GuardIInv, BurstTaken
  <2>2. \A i \in ActsOf("burst")' : MarksPassed(acts[i].at)'
    <3>. SUFFICES ASSUME NEW i \in ActsOf("burst")' PROVE MarksPassed(acts[i].at)'
      OBVIOUS
    <3>1. PICK t \in Nat : acts'[i].at = t /\ MarksPassed(t)
      BY <1>4, <2>1
    <3>. QED
      BY <1>5, <3>1 DEF MarksPassed
  <2>3. \A q \in Holding("burst", "punish")' : MarksPassed(screening[q].at)'
    <3>. SUFFICES ASSUME NEW q \in Holding("burst", "punish")' PROVE MarksPassed(screening[q].at)'
      OBVIOUS
    <3>1. PICK t \in Nat : screening'[q].at = t /\ MarksPassed(t)
      BY <1>2, <1>3, <2>1, GuardHolders
    <3>. QED
      BY <1>5, <3>1 DEF MarksPassed
  <2>4. \A q \in Marking' : screening'[q].at <= now'
    BY <1>2, <1>3, GuardHolders DEF GuardIInv, BurstTaken
  <2>5. \A q \in Holding("burst", "mark")' :
           Marking' = {q} /\ (spamCooldown' # Never => spamCooldown' + SpamCooldown <= screening'[q].at)
    BY <1>2, <1>3, GuardHolders DEF GuardIInv, BurstTaken
  <2>. QED
    BY <2>2, <2>3, <2>4, <2>5 DEF GuardIInv, BurstTaken
<1>. QED
  BY <1>7, <1>8, <1>9 DEF GuardIInv

LEMMA GuardNextIInv ==
  ASSUME GuardIInv, [GuardNext]_<<env, guardVars>>
  PROVE  GuardIInv'
<1>1. HandlersTypeOK' /\ GuardTyped' /\ now \in Nat /\ now' \in Nat /\ now <= now'
  BY GuardTypes, GuardEnv, EnvTypes DEF GuardIInv
<1>2. screening \in [Proc -> ScreenType]
  BY DEF GuardIInv, GuardTyped
<1>3. ASSUME NEW p \in Proc, SeeMessage(p) PROVE GuardIInv'
  <2>1. PICK m \in Messages : screening' = [screening EXCEPT ![p] =
              IF Within(guardCache.at, GuardTTL)
              THEN [[Unscreened EXCEPT !.kind = m.kind, !.mod = m.mod] EXCEPT !.pc = "screen", !.cfg = guardCache.cfg]
              ELSE [[Unscreened EXCEPT !.kind = m.kind, !.mod = m.mod] EXCEPT !.pc = "query"]]
    BY <1>3 DEF SeeMessage
  <2>2. screening'[p].pc \in {"screen", "query"} /\ \A q \in Proc \ {p} : screening'[q] = screening[q]
    BY <1>2, <2>1 DEF Unscreened
  <2>3. \A q \in Proc : KeepsTimes(q)
    BY <2>2 DEF KeepsTimes
  <2>. QED
    BY <1>1, <1>3, <2>3, GuardQuiet DEF SeeMessage
<1>4. ASSUME NEW p \in Proc, QuerySettings(p) PROVE GuardIInv'
  <2>1. \A q \in Proc : KeepsTimes(q)
    BY <1>2, <1>4 DEF QuerySettings, KeepsTimes, ScreenType
  <2>. QED
    BY <1>1, <1>4, <2>1, GuardQuiet DEF QuerySettings
<1>5. ASSUME NEW p \in Proc, FillSettings(p) PROVE GuardIInv'
  <2>1. \A q \in Proc : KeepsTimes(q)
    BY <1>2, <1>5 DEF FillSettings, ScreenGoto, KeepsTimes, ScreenType
  <2>. QED
    BY <1>1, <1>5, <2>1, GuardQuiet DEF FillSettings
<1>6. ASSUME NEW p \in Proc, ScreenIdle(p), UNCHANGED <<spamCooldown, honeypotCooldown, acts>> PROVE GuardIInv'
  <2>1. \A q \in Proc : KeepsTimes(q)
    BY <1>2, <1>6, UnscreenedTyped DEF ScreenIdle, KeepsTimes
  <2>. QED
    BY <1>1, <1>6, <2>1, GuardQuiet
<1>7. ASSUME NEW p \in Proc, ScreenPass(p) \/ FilterMessage(p) \/ InvalidateProtectionConfig(p) PROVE GuardIInv'
  BY <1>6, <1>7 DEF ScreenPass, FilterMessage, InvalidateProtectionConfig
<1>8. ASSUME NEW p \in Proc, TripHoneypot(p) PROVE GuardIInv'
  BY <1>1, <1>8, TripTakes
<1>9. ASSUME NEW p \in Proc, TrapPunish(p) PROVE GuardIInv'
  <2>1. CASE Act("trap", p) /\ UNCHANGED env
    BY <1>1, <1>9, <2>1, PunishWrites DEF TrapPunish, env
  <2>2. CASE UNCHANGED acts
    BY <1>6, <1>9, <2>2 DEF TrapPunish
  <2>. QED
    BY <1>9, <2>1, <2>2 DEF TrapPunish
<1>10. ASSUME NEW p \in Proc, PunishBurst(p) PROVE GuardIInv'
  <2>1. CASE Act("burst", p) /\ UNCHANGED env
    BY <1>1, <1>10, <2>1, PunishWrites DEF PunishBurst, env
  <2>2. CASE UNCHANGED acts
    BY <1>6, <1>10, <2>2 DEF PunishBurst
  <2>. QED
    BY <1>10, <2>1, <2>2 DEF PunishBurst
<1>11. ASSUME NEW p \in Proc, CountMessage(p) PROVE GuardIInv'
  <2>1. CASE Tolerated(Len(spamWindow'), screening[p].cfg.msgs)
    BY <1>6, <1>11, <2>1 DEF CountMessage, Tolerated
  <2>. QED
    BY <1>1, <1>11, <2>1, MarkTakes
<1>12. ASSUME NEW p \in Proc, MarkBurst(p) PROVE GuardIInv'
  BY <1>1, <1>12, MarkSettles
<1>13. ASSUME NEW p \in Proc, ChangeSettings(p) PROVE GuardIInv'
  <2>1. \A q \in Proc : KeepsTimes(q)
    BY <1>2, <1>13 DEF ChangeSettings, ScreenGoto, KeepsTimes, ScreenType
  <2>. QED
    BY <1>1, <1>13, <2>1, GuardQuiet DEF ChangeSettings
<1>14. ASSUME GuardRestart PROVE GuardIInv'
  <2>1. Len(acts') = 0 /\ spamCooldown' = Never /\ honeypotCooldown' = Never
    BY <1>14 DEF GuardRestart
  <2>2. \A p \in Proc : screening'[p].pc = "idle"
    BY <1>14, UnscreenedTyped DEF GuardRestart
  <2>3. /\ Marking' = {} /\ \A kind : ActsOf(kind)' = {}
        /\ \A kind, pc : pc # "idle" => Holding(kind, pc)' = {}
    BY <2>1, <2>2 DEF ActsOf, Marking, Holding
  <2>. QED
    BY <1>1, <2>1, <2>3 DEF GuardIInv, TrapTaken, BurstTaken, Spaced
<1>15. ASSUME UNCHANGED guardVars PROVE GuardIInv'
  <2>1. UNCHANGED <<spamCooldown, honeypotCooldown, acts, screening>>
    BY <1>15 DEF guardVars
  <2>2. \A q \in Proc : KeepsTimes(q)
    BY <2>1 DEF KeepsTimes
  <2>. QED
    BY <1>1, <2>1, <2>2, GuardQuiet
<1>. QED
  BY <1>3, <1>4, <1>5, <1>7, <1>8, <1>9, <1>10, <1>11, <1>12, <1>13, <1>14, <1>15
     DEF GuardNext, GuardTick

LEMMA GuardKeepsApart == GuardIInv => BurstsApart
<1>. SUFFICES ASSUME GuardIInv, NEW i \in 1..Len(acts), NEW j \in 1..Len(acts),
                     i # j, acts[i].kind = acts[j].kind, acts[i].at <= acts[j].at
              PROVE  \/ acts[i].kind = "trap" /\ acts[j].at >= acts[i].at + TrapCooldown
                     \/ /\ acts[i].kind = "burst"
                        /\ acts[i].alone /\ acts[j].alone => acts[j].at >= acts[i].at + SpamCooldown
  BY DEF BurstsApart
<1>1. acts[i].kind \in {"trap", "burst"}
  <2>1. acts[i] \in ActType
    BY DEF GuardIInv, GuardTyped
  <2>. QED
    BY <2>1 DEF ActType
<1>2. acts[i].at \in Nat /\ acts[j].at \in Nat /\ TrapCooldown \in Nat /\ SpamCooldown \in Nat
  BY GuardNumbers DEF GuardIInv
<1>3. CASE acts[i].kind = "trap"
  <2>1. i \in ActsOf("trap") /\ j \in ActsOf("trap")
    BY <1>3 DEF ActsOf, Counts
  <2>2. Distant(acts[i].at, acts[j].at, TrapCooldown)
    BY <2>1 DEF GuardIInv, Spaced
  <2>. QED
    BY <1>2, <1>3, <2>2 DEF Distant
<1>4. CASE acts[i].kind = "burst"
  <2>. SUFFICES ASSUME acts[i].alone, acts[j].alone PROVE acts[j].at >= acts[i].at + SpamCooldown
    BY <1>4
  <2>1. i \in ActsOf("burst") /\ j \in ActsOf("burst")
    BY <1>4 DEF ActsOf, Counts
  <2>2. Distant(acts[i].at, acts[j].at, SpamCooldown)
    BY <2>1 DEF GuardIInv, Spaced
  <2>. QED
    BY <1>2, <2>2 DEF Distant
<1>. QED
  BY <1>1, <1>3, <1>4

(* The trap punishes once in its cooldown, and so does the burst detector    *)
(* unless a message was counted between its two lock sections: for any       *)
(* messages, settings, goroutines, failing punishments and restarts.         *)
THEOREM GuardBurstsApart == GuardSpec => []BurstsApart
<1>1. GuardIInv => BurstsApart
  BY GuardKeepsApart
<1>. QED
  BY <1>1, GuardInitIInv, GuardNextIInv, PTL DEF GuardSpec

---------------------------------------------------------------------------
(* Levels: for any messages no award is lost, and the level is that of     *)
(* the experience, as long as the database is quicker than the gate.       *)
(* Induction over the natural numbers, told of sets.                         *)
LEMMA LeastIn ==
  ASSUME NEW S, S \subseteq Nat, S # {}
  PROVE  \E m \in S : \A k \in S : m <= k
<1>. DEFINE R == OpToRel(<, Nat)
<1>1. \E m \in S : \A k \in S : ~(<<k, m>> \in R)
  BY NatLessThanWellFounded, WFMin
<1>2. \A k, m \in Nat : k < m => <<k, m>> \in R
  BY DEF OpToRel
<1>. HIDE DEF R
<1>3. PICK m \in S : \A k \in S : ~(<<k, m>> \in R)
  BY <1>1
<1>4. \A k \in S : k \in Nat /\ m \in Nat /\ ~(k < m)
  BY <1>2, <1>3
<1>. QED
  BY <1>4

LEMMA Reaching ==
  ASSUME NEW T, 0 \in T, \A n \in Nat : n \in T => n + 1 \in T
  PROVE  Nat \subseteq T
<1>. SUFFICES ASSUME Nat \ T # {} PROVE FALSE
  OBVIOUS
<1>1. PICK m \in Nat \ T : \A k \in Nat \ T : m <= k
  BY LeastIn
<1>2. m # 0 /\ m - 1 \in Nat /\ m - 1 < m /\ (m - 1) + 1 = m
  BY <1>1
<1>. QED
  BY <1>1, <1>2

---------------------------------------------------------------------------
(* What levels cost.  The division in Threshold has no remainder.            *)
LEMMA Divides == \A n \in Nat : \E q \in Nat : n * (n + 1) * (2 * n + 1) = 6 * q
<1>. DEFINE T == {n \in Nat : \E q \in Nat : n * (n + 1) * (2 * n + 1) = 6 * q}
<1>1. 0 \in T
  OBVIOUS
<1>2. ASSUME NEW n \in Nat, n \in T PROVE n + 1 \in T
  <2>1. PICK q \in Nat : n * (n + 1) * (2 * n + 1) = 6 * q
    BY <1>2
  <2>2. (n + 1) * ((n + 1) + 1) * (2 * (n + 1) + 1) = 6 * (q + (n + 1) * (n + 1))
    BY <2>1
  <2>3. q + (n + 1) * (n + 1) \in Nat /\ n + 1 \in Nat
    BY <2>1
  <2>4. PICK r \in Nat : r = q + (n + 1) * (n + 1)
    BY <2>3
  <2>. QED
    BY <2>2, <2>3, <2>4
<1>. HIDE DEF T
<1>3. Nat \subseteq T
  BY <1>1, <1>2, Reaching
<1>. QED
  BY <1>3 DEF T

LEMMA NeedNat == \A l \in Nat : Need(l) \in Nat /\ Need(l) >= 100
<1>. SUFFICES ASSUME NEW l \in Nat PROVE Need(l) \in Nat /\ Need(l) >= 100
  OBVIOUS
<1>1. PICK s \in Nat : s = l * l
  OBVIOUS
<1>2. 5 * l * l = 5 * s
  BY <1>1
<1>. QED
  BY <1>2 DEF Need

LEMMA Quotient == \A q \in Nat : (6 * q * 5) \div 6 = 5 * q
OBVIOUS

LEMMA ThresholdIs ==
  ASSUME NEW l \in Nat, NEW q \in Nat, (l - 1) * l * (2 * l - 1) = 6 * q
  PROVE  Threshold(l) = 5 * q + 25 * l * (l - 1) + 100 * l
<1>1. ((l - 1) * l * (2 * l - 1) * 5) \div 6 = 5 * q
  BY Quotient
<1>. QED
  BY <1>1 DEF Threshold

LEMMA ThresholdSteps ==
  ASSUME NEW l \in Nat
  PROVE  Threshold(l) \in Nat /\ Threshold(l + 1) = Threshold(l) + Need(l)
<1>1. PICK q \in Nat : (l - 1) * l * (2 * l - 1) = 6 * q
  <2>1. CASE l = 0
    BY <2>1
  <2>2. CASE l # 0
    <3>1. PICK m \in Nat : l = m + 1
      BY <2>2
    <3>2. PICK q \in Nat : m * (m + 1) * (2 * m + 1) = 6 * q
      BY Divides
    <3>3. (l - 1) * l * (2 * l - 1) = m * (m + 1) * (2 * m + 1)
      BY <3>1
    <3>. QED
      BY <3>2, <3>3
  <2>. QED
    BY <2>1, <2>2
<1>2. PICK s \in Nat : s = l * l
  OBVIOUS
<1>3. q + s \in Nat /\ l + 1 \in Nat
  OBVIOUS
<1>4. ((l + 1) - 1) * (l + 1) * (2 * (l + 1) - 1) = 6 * (q + s)
  BY <1>1, <1>2
<1>5. Threshold(l) = 5 * q + 25 * l * (l - 1) + 100 * l
  BY <1>1, ThresholdIs
<1>6. Threshold(l + 1) = 5 * (q + s) + 25 * (l + 1) * ((l + 1) - 1) + 100 * (l + 1)
  BY <1>3, <1>4, ThresholdIs
<1>7. 25 * l * (l - 1) = 25 * s - 25 * l /\ 25 * (l + 1) * ((l + 1) - 1) = 25 * s + 25 * l /\ l <= s
  BY <1>2
<1>8. Need(l) = 5 * s + 50 * l + 100
  BY <1>2 DEF Need
<1>. QED
  BY <1>5, <1>6, <1>7, <1>8

LEMMA ThresholdZero == Threshold(0) = 0
BY DEF Threshold

(* Levels cost more and more, so that any experience stands between two.     *)
LEMMA ThresholdGrows ==
  ASSUME NEW j \in Nat, NEW k \in Nat, j < k
  PROVE  Threshold(j + 1) <= Threshold(k)
<1>. DEFINE T == {n \in Nat : Threshold(j + 1) <= Threshold(j + 1 + n)}
<1>1. 0 \in T
  BY ThresholdSteps
<1>2. ASSUME NEW n \in Nat, n \in T PROVE n + 1 \in T
  <2>. DEFINE i == j + 1 + n
  <2>1. i \in Nat /\ j + 1 + (n + 1) = i + 1 /\ Threshold(j + 1) <= Threshold(i)
    BY <1>2
  <2>. HIDE DEF i
  <2>2. Threshold(j + 1) \in Nat /\ Threshold(i) \in Nat /\ Need(i) \in Nat /\ Threshold(i + 1) = Threshold(i) + Need(i)
    BY <2>1, ThresholdSteps, NeedNat
  <2>3. Threshold(j + 1) <= Threshold(i + 1)
    BY <2>1, <2>2
  <2>4. Threshold(j + 1) <= Threshold(j + 1 + (n + 1))
    BY Zenon, <2>1, <2>3
  <2>. QED
    BY <2>4
<1>. HIDE DEF T
<1>3. k - (j + 1) \in T
  BY <1>1, <1>2, Reaching
<1>. QED
  BY <1>3 DEF T

Between(v, k) == Threshold(k) <= v /\ v < Threshold(k + 1)

LEMMA StandsBetween == \A v \in Nat : \E k \in Nat : Between(v, k)
<1>. DEFINE T == {v \in Nat : \E k \in Nat : Between(v, k)}
<1>1. 0 \in T
  <2>1. Between(0, 0)
    BY ThresholdZero, ThresholdSteps, NeedNat DEF Between
  <2>. QED
    BY <2>1
<1>2. ASSUME NEW v \in Nat, v \in T PROVE v + 1 \in T
  <2>1. PICK k \in Nat : Between(v, k)
    BY <1>2
  <2>2. /\ Threshold(k) \in Nat /\ Threshold(k + 1) \in Nat /\ k + 1 \in Nat
        /\ Need(k + 1) \in Nat /\ Need(k + 1) >= 100
        /\ Threshold((k + 1) + 1) = Threshold(k + 1) + Need(k + 1)
    BY ThresholdSteps, NeedNat
  <2>3. PICK l \in Nat : Between(v + 1, l)
    BY <2>1, <2>2 DEF Between
  <2>4. v + 1 \in Nat
    OBVIOUS
  <2>. QED
    BY <2>3, <2>4
<1>. HIDE DEF T
<1>3. Nat \subseteq T
  BY <1>1, <1>2, Reaching
<1>. QED
  BY <1>3 DEF T

LEMMA StandsOnce ==
  ASSUME NEW v \in Nat, NEW j \in Nat, NEW k \in Nat, Between(v, j), Between(v, k)
  PROVE  j = k
<1>1. Threshold(j) \in Nat /\ Threshold(k) \in Nat /\ Threshold(j + 1) \in Nat /\ Threshold(k + 1) \in Nat
  BY ThresholdSteps
<1>2. ~(j < k) /\ ~(k < j)
  BY <1>1, ThresholdGrows DEF Between
<1>. QED
  BY <1>2

---------------------------------------------------------------------------
(* The recursion of Climb has a solution, which is the level between whose   *)
(* cost and the next one's the experience stands.                            *)
CostOf(s) == Threshold(s.level) + s.rest
Stand(v) == LET k == CHOOSE l \in Nat : Between(v, l) IN [level |-> k, rest |-> v - Threshold(k)]
Climber(g) ==
    [s \in Standing |->
        IF s.rest >= Need(s.level) THEN g[[level |-> s.level + 1, rest |-> s.rest - Need(s.level)]] ELSE s]

LEMMA StandIs ==
  ASSUME NEW v \in Nat
  PROVE  /\ Stand(v) \in Standing /\ Between(v, Stand(v).level)
         /\ Stand(v).rest = v - Threshold(Stand(v).level)
<1>1. PICK k \in Nat : k = (CHOOSE l \in Nat : Between(v, l)) /\ Between(v, k)
  BY StandsBetween
<1>2. Threshold(k) \in Nat /\ v - Threshold(k) \in Nat
  BY <1>1, ThresholdSteps DEF Between
<1>3. Stand(v) = [level |-> k, rest |-> v - Threshold(k)]
  BY <1>1 DEF Stand
<1>. QED
  BY <1>1, <1>2, <1>3 DEF Standing

LEMMA StandingNat ==
  ASSUME NEW s \in Standing
  PROVE  /\ s.level \in Nat /\ s.rest \in Nat /\ s = [level |-> s.level, rest |-> s.rest]
         /\ CostOf(s) \in Nat /\ Need(s.level) \in Nat /\ Need(s.level) >= 100
         /\ Threshold(s.level + 1) = Threshold(s.level) + Need(s.level) /\ Threshold(s.level) \in Nat
<1>1. s.level \in Nat /\ s.rest \in Nat /\ s = [level |-> s.level, rest |-> s.rest]
  BY DEF Standing
<1>. QED
  BY <1>1, ThresholdSteps, NeedNat DEF CostOf

LEMMA StepKeepsCost ==
  ASSUME NEW s \in Standing, s.rest >= Need(s.level)
  PROVE  LET t == [level |-> s.level + 1, rest |-> s.rest - Need(s.level)]
         IN  t \in Standing /\ CostOf(t) = CostOf(s) /\ t.rest < s.rest
<1>. DEFINE t == [level |-> s.level + 1, rest |-> s.rest - Need(s.level)]
<1>1. t \in Standing /\ t.level = s.level + 1 /\ t.rest = s.rest - Need(s.level)
  BY StandingNat DEF Standing
<1>. HIDE DEF t
<1>2. CostOf(t) = CostOf(s) /\ t.rest < s.rest
  BY <1>1, StandingNat DEF CostOf
<1>. QED
  BY <1>1, <1>2 DEF t

LEMMA ClimbClimbs == Climb = Climber(Climb)
<1>. DEFINE g == [s \in Standing |-> Stand(CostOf(s))]
<1>1. ASSUME NEW s \in Standing
      PROVE  g[s] = IF s.rest >= Need(s.level) THEN g[[level |-> s.level + 1, rest |-> s.rest - Need(s.level)]] ELSE s
  <2>1. CASE s.rest >= Need(s.level)
    BY <2>1, StepKeepsCost
  <2>2. CASE ~(s.rest >= Need(s.level))
    <3>. DEFINE l == Stand(CostOf(s)).level
    <3>1. Between(CostOf(s), s.level)
      BY <2>2, StandingNat DEF CostOf, Between
    <3>2. Stand(CostOf(s)) \in Standing /\ Between(CostOf(s), l) /\ Stand(CostOf(s)).rest = CostOf(s) - Threshold(l) /\ l \in Nat
      BY StandIs, StandingNat
    <3>3. l = s.level
      BY <3>1, <3>2, StandsOnce, StandingNat
    <3>4. Stand(CostOf(s)).rest = s.rest
      BY <3>2, <3>3, StandingNat DEF CostOf
    <3>5. Stand(CostOf(s)) = s
      BY <3>2, <3>3, <3>4, StandingNat
    <3>. QED
      BY <2>2, <3>5
  <2>. QED
    BY <2>1, <2>2
<1>2. g = Climber(g)
  <2>1. Climber(g) = [s \in Standing |-> g[s]]
    BY <1>1 DEF Climber
  <2>. QED
    BY <2>1
<1>. HIDE DEF g
<1>3. Climb = CHOOSE c : c = Climber(c)
  BY Zenon DEF Climb, Climber
<1>4. (CHOOSE c : c = Climber(c)) = Climber(CHOOSE c : c = Climber(c))
  BY Zenon, <1>2
<1>. QED
  BY <1>3, <1>4

LEMMA ClimbArrives ==
  ASSUME NEW s \in Standing
  PROVE  Climb[s] \in Standing /\ Climb[s].rest < Need(Climb[s].level) /\ CostOf(Climb[s]) = CostOf(s)
<1>. DEFINE Arrives(x) == Climb[x] \in Standing /\ Climb[x].rest < Need(Climb[x].level) /\ CostOf(Climb[x]) = CostOf(x)
            T == {n \in Nat : \A x \in Standing : x.rest <= n => Arrives(x)}
<1>1. ASSUME NEW x \in Standing
      PROVE  Climb[x] = IF x.rest >= Need(x.level) THEN Climb[[level |-> x.level + 1, rest |-> x.rest - Need(x.level)]] ELSE x
  <2>1. Climber(Climb)[x] = IF x.rest >= Need(x.level) THEN Climb[[level |-> x.level + 1, rest |-> x.rest - Need(x.level)]] ELSE x
    BY DEF Climber
  <2>. QED
    BY <2>1, ClimbClimbs
<1>2. ASSUME NEW x \in Standing, ~(x.rest >= Need(x.level)) PROVE Arrives(x)
  <2>1. Climb[x] = x
    BY <1>1, <1>2
  <2>2. x.rest < Need(x.level)
    BY <1>2, StandingNat
  <2>. QED
    BY <2>1, <2>2
<1>3. 0 \in T
  BY <1>2, StandingNat
<1>4. ASSUME NEW n \in Nat, n \in T PROVE n + 1 \in T
  <2>. SUFFICES ASSUME NEW x \in Standing, x.rest <= n + 1 PROVE Arrives(x)
    OBVIOUS
  <2>1. CASE x.rest >= Need(x.level)
    <3>. DEFINE y == [level |-> x.level + 1, rest |-> x.rest - Need(x.level)]
    <3>1. y \in Standing /\ CostOf(y) = CostOf(x) /\ y.rest < x.rest
      BY <2>1, StepKeepsCost
    <3>2. Climb[x] = Climb[y]
      BY <1>1, <2>1
    <3>. HIDE DEF y
    <3>3. y.rest <= n
      BY <3>1, StandingNat
    <3>. QED
      BY <1>4, <3>1, <3>2, <3>3
  <2>2. CASE ~(x.rest >= Need(x.level))
    BY <1>2, <2>2
  <2>. QED
    BY <2>1, <2>2
<1>. HIDE DEF T, Arrives
<1>5. Nat \subseteq T
  BY <1>3, <1>4, Reaching
<1>6. s.rest \in T
  BY <1>5, StandingNat
<1>. QED
  BY <1>6, StandingNat DEF T, Arrives

LEMMA LevelCovers ==
  ASSUME NEW xp \in Nat
  PROVE  /\ XPLevelFor(xp) \in Nat /\ Threshold(XPLevelFor(xp)) <= xp
         /\ xp + XPToNext(xp) = Threshold(XPLevelFor(xp) + 1)
<1>. DEFINE s == [level |-> 0, rest |-> xp]
<1>1. s \in Standing /\ CostOf(s) = xp
  BY ThresholdZero DEF Standing, CostOf
<1>. HIDE DEF s
<1>2. PICK r \in Standing : r = Climb[s] /\ r.rest < Need(r.level) /\ CostOf(r) = xp
  BY <1>1, ClimbArrives
<1>3. XPLevelFor(xp) = r.level /\ XPToNext(xp) = Need(r.level) - r.rest
  BY <1>2 DEF XPLevelFor, XPToNext, Reached, s
<1>. QED
  BY <1>2, <1>3, StandingNat DEF CostOf

---------------------------------------------------------------------------
(* The inductive invariant.  Messages pass the gate apart, so that whoever   *)
(* has read the row and is not late yet finds it as it was.                  *)
AwardType == [pc : {"idle", "read", "write"}, at : Nat, cur : Nat]

LevelsTyped ==
    /\ gate \in Nat \cup {Never}
    /\ row \in [xp : Nat, level : Nat, last : Nat \cup {Never}]
    /\ awarding \in [Proc -> AwardType]
    /\ start \in Nat /\ granted \in Nat

Paying(p) == awarding[p].pc # "idle"
TooLate(p) == now >= awarding[p].at + GateTTL

GateApart ==
    /\ gate # Never => gate <= now
    /\ \A p \in Proc : Paying(p) => gate # Never /\ awarding[p].at <= gate
    /\ \A p, q \in Proc : Paying(p) /\ Paying(q) /\ p # q =>
          awarding[p].at + GateTTL <= awarding[q].at \/ awarding[q].at + GateTTL <= awarding[p].at

StillRead(p) == awarding[p].pc = "write" => TooLate(p) \/ (row.xp = awarding[p].cur /\ ~Within(row.last, XPCooldown))

LevelCovered == row.level = XPLevelFor(row.xp)

LevelsIInv ==
    /\ HandlersTypeOK /\ LevelsTyped
    /\ GateApart
    /\ ~slow => row.xp = start + granted /\ ~crowded /\ \A p \in Proc : StillRead(p)
    /\ LevelCovered

---------------------------------------------------------------------------
LEMMA LevelsNumbers == GateTTL \in Nat /\ XPCooldown \in Nat /\ Never \notin Nat
BY LevelsAssumption, HandlersAssumption

LEMMA RestingAward == Resting \in AwardType /\ Resting.pc = "idle"
BY DEF Resting, AwardType

LEMMA LevelsInitIInv == HandlersInit /\ LevelsInit => LevelsIInv
<1>. SUFFICES ASSUME HandlersInit, LevelsInit PROVE LevelsIInv
  OBVIOUS
<1>1. HandlersTypeOK
  BY HandlersAssumption DEF HandlersInit, HandlersTypeOK, Time
<1>2. start \in Nat /\ row = [xp |-> start, level |-> XPLevelFor(start), last |-> Never] /\ granted = 0
  BY LevelsAssumption DEF LevelsInit
<1>3. LevelsTyped
  BY <1>2, LevelCovers, RestingAward DEF LevelsInit, LevelsTyped
<1>4. GateApart
  BY RestingAward DEF LevelsInit, GateApart, Paying
<1>5. row.xp = start + granted /\ ~crowded /\ \A p \in Proc : StillRead(p)
  BY <1>2, RestingAward DEF LevelsInit, StillRead
<1>6. LevelCovered
  BY <1>2 DEF LevelCovered
<1>. QED
  BY <1>1, <1>3, <1>4, <1>5, <1>6 DEF LevelsIInv

---------------------------------------------------------------------------
(* A step at which everybody stays where they are or rests.                  *)
LEMMA LevelsRest ==
  ASSUME LevelsIInv, HandlersTypeOK', now \in Nat, now' \in Nat, now <= now',
         UNCHANGED <<row, start, granted, slow, crowded>>,
         \A q \in Proc : awarding'[q] = awarding[q] \/ awarding'[q] = Resting,
         awarding' \in [Proc -> AwardType],
         gate' = gate \/ (gate' = Never /\ \A q \in Proc : awarding'[q] = Resting)
  PROVE  LevelsIInv'
<1>1. LevelsTyped'
  BY DEF LevelsIInv, LevelsTyped
<1>2. \A q \in Proc : Paying(q)' => Paying(q) /\ awarding'[q] = awarding[q] /\ gate' = gate
  BY RestingAward DEF Paying
<1>3. GateApart'
  <2>1. gate' # Never => gate' <= now'
    BY DEF LevelsIInv, LevelsTyped, GateApart
  <2>. QED
    BY <1>2, <2>1 DEF LevelsIInv, GateApart
<1>4. ASSUME NEW q \in Proc, StillRead(q) PROVE StillRead(q)'
  <2>. SUFFICES ASSUME awarding'[q].pc = "write" PROVE TooLate(q)' \/ (row.xp = awarding'[q].cur /\ ~Within(row.last, XPCooldown)')
    BY DEF StillRead
  <2>1. awarding'[q] = awarding[q] /\ awarding[q].at \in Nat /\ (row.last # Never => row.last \in Nat)
    BY RestingAward DEF LevelsIInv, LevelsTyped, AwardType
  <2>2. TooLate(q) => TooLate(q)'
    BY <2>1, LevelsNumbers DEF TooLate
  <2>3. ~Within(row.last, XPCooldown) => ~Within(row.last, XPCooldown)'
    BY <2>1, LevelsNumbers DEF Within
  <2>. QED
    BY <1>4, <2>1, <2>2, <2>3 DEF StillRead
<1>5. LevelCovered'
  BY DEF LevelsIInv, LevelCovered
<1>. QED
  BY <1>1, <1>3, <1>4, <1>5 DEF LevelsIInv

LEMMA GatePasses ==
  ASSUME LevelsIInv, HandlersTypeOK', now \in Nat, NEW p \in Proc, PassGate(p)
  PROVE  LevelsIInv'
<1>. DEFINE it == [pc |-> "read", at |-> now, cur |-> 0]
<1>1. /\ now' = now /\ gate' = now /\ UNCHANGED <<row, start, granted, slow, crowded>>
      /\ awarding' = [awarding EXCEPT ![p] = it] /\ awarding[p].pc = "idle" /\ ~Within(gate, GateTTL)
  BY DEF PassGate, Called
<1>2. it \in AwardType
  BY DEF AwardType
<1>3. \A q \in Proc : awarding'[q] = IF q = p THEN it ELSE awarding[q]
  BY <1>1 DEF LevelsIInv, LevelsTyped
<1>4. LevelsTyped'
  <2>. HIDE DEF it
  <2>. QED
    BY <1>1, <1>2 DEF LevelsIInv, LevelsTyped
<1>5. ASSUME NEW q \in Proc, q # p, Paying(q)
      PROVE  awarding[q].at \in Nat /\ awarding[q].at <= now /\ awarding[q].at + GateTTL <= now
  <2>1. gate # Never /\ gate \in Nat /\ awarding[q].at \in Nat /\ awarding[q].at <= gate /\ gate <= now
    BY <1>5 DEF LevelsIInv, LevelsTyped, GateApart, AwardType
  <2>. QED
    BY <1>1, <2>1, LevelsNumbers DEF Within
<1>6. GateApart'
  <2>1. \A q \in Proc : Paying(q)' => q = p \/ (q # p /\ Paying(q))
    BY <1>3 DEF Paying
  <2>2. \A q \in Proc : Paying(q)' => gate' # Never /\ awarding'[q].at <= gate'
    BY <1>1, <1>3, <1>5, <2>1, LevelsNumbers
  <2>3. \A q, s \in Proc : Paying(q)' /\ Paying(s)' /\ q # s =>
          awarding'[q].at + GateTTL <= awarding'[s].at \/ awarding'[s].at + GateTTL <= awarding'[q].at
    BY <1>3, <1>5, <2>1 DEF LevelsIInv, GateApart
  <2>4. gate' # Never => gate' <= now'
    BY <1>1
  <2>. QED
    BY <2>2, <2>3, <2>4 DEF GateApart
<1>7. ASSUME NEW q \in Proc, StillRead(q) PROVE StillRead(q)'
  BY <1>1, <1>3, <1>7 DEF StillRead, TooLate, Within
<1>8. LevelCovered'
  BY <1>1 DEF LevelsIInv, LevelCovered
<1>. QED
  BY <1>1, <1>4, <1>6, <1>7, <1>8 DEF LevelsIInv

LEMMA RowRead ==
  ASSUME LevelsIInv, HandlersTypeOK', now \in Nat, now' \in Nat, now <= now', NEW p \in Proc, AwardRead(p)
  PROVE  LevelsIInv'
<1>1. now' = now /\ UNCHANGED <<gate, row, start, granted, slow, crowded>> /\ awarding[p].pc = "read"
  BY DEF AwardRead, Fault, env
<1>2. CASE Idle(p)
  <2>1. awarding' = [awarding EXCEPT ![p] = Resting]
    BY <1>2 DEF Idle
  <2>2. awarding' \in [Proc -> AwardType] /\ \A q \in Proc : awarding'[q] = awarding[q] \/ awarding'[q] = Resting
    BY <2>1, RestingAward DEF LevelsIInv, LevelsTyped
  <2>. QED
    BY <1>1, <2>2, LevelsRest
<1>3. CASE ~Idle(p)
  <2>. DEFINE it == [[awarding[p] EXCEPT !.pc = "write"] EXCEPT !.cur = row.xp]
  <2>1. awarding' = [awarding EXCEPT ![p] = it] /\ ~Within(row.last, XPCooldown)
    BY <1>3 DEF AwardRead
  <2>2. it \in AwardType /\ it.pc = "write" /\ it.at = awarding[p].at /\ it.cur = row.xp
    <3>. DEFINE x == [awarding[p] EXCEPT !.pc = "write"]
    <3>1. x \in AwardType /\ x.pc = "write" /\ x.at = awarding[p].at /\ row.xp \in Nat
      BY DEF LevelsIInv, LevelsTyped, AwardType
    <3>. HIDE DEF x
    <3>2. [x EXCEPT !.cur = row.xp] \in AwardType
          /\ [x EXCEPT !.cur = row.xp].pc = "write" /\ [x EXCEPT !.cur = row.xp].at = x.at /\ [x EXCEPT !.cur = row.xp].cur = row.xp
      BY <3>1 DEF AwardType
    <3>. QED
      BY <3>1, <3>2 DEF x
  <2>. HIDE DEF it
  <2>3. awarding' \in [Proc -> AwardType] /\ \A q \in Proc : awarding'[q] = IF q = p THEN it ELSE awarding[q]
    BY <2>1, <2>2 DEF LevelsIInv, LevelsTyped
  <2>4. LevelsTyped'
    BY <1>1, <2>3 DEF LevelsIInv, LevelsTyped
  <2>5. \A q \in Proc : (Paying(q)' <=> Paying(q)) /\ awarding'[q].at = awarding[q].at
    BY <1>1, <2>2, <2>3 DEF Paying
  <2>6. GateApart'
    BY <1>1, <2>5 DEF LevelsIInv, GateApart
  <2>7. ASSUME NEW q \in Proc, StillRead(q) PROVE StillRead(q)'
    BY <1>1, <2>1, <2>2, <2>3, <2>7 DEF StillRead, TooLate, Within
  <2>8. LevelCovered'
    BY <1>1 DEF LevelsIInv, LevelCovered
  <2>. QED
    BY <1>1, <2>4, <2>6, <2>7, <2>8 DEF LevelsIInv
<1>. QED
  BY <1>2, <1>3

(* An award that is not late finds the row it has read; and whoever read the *)
(* row before it is late by then.                                            *)
LEMMA RowWritten ==
  ASSUME LevelsIInv, HandlersTypeOK', now \in Nat, now' \in Nat, now <= now', NEW p \in Proc, AwardWrite(p)
  PROVE  LevelsIInv'
<1>1. /\ now' = now /\ UNCHANGED <<gate, start>> /\ awarding[p].pc = "write"
      /\ awarding' = [awarding EXCEPT ![p] = Resting]
  BY DEF AwardWrite, Fault, env, Idle
<1>2. awarding' \in [Proc -> AwardType] /\ \A q \in Proc : awarding'[q] = IF q = p THEN Resting ELSE awarding[q]
  BY <1>1, RestingAward DEF LevelsIInv, LevelsTyped
<1>3. CASE UNCHANGED <<row, granted, slow, crowded>>
  BY <1>1, <1>2, <1>3, LevelsRest
<1>4. CASE ~UNCHANGED <<row, granted, slow, crowded>>
  <2>1. PICK delta \in Amounts :
           LET xp == awarding[p].cur + delta IN
             /\ row' = [xp |-> xp, level |-> XPLevelFor(xp), last |-> now]
             /\ granted' = granted + delta
             /\ slow' = (slow \/ now >= awarding[p].at + GateTTL)
             /\ crowded' = (crowded \/ Within(row.last, XPCooldown))
    BY <1>4 DEF AwardWrite
  <2>. DEFINE xp == awarding[p].cur + delta
  <2>2. awarding[p].cur \in Nat /\ awarding[p].at \in Nat /\ delta \in Nat /\ xp \in Nat /\ granted \in Nat /\ start \in Nat
    BY LevelsAssumption DEF LevelsIInv, LevelsTyped, AwardType
  <2>3. /\ row'.xp = xp /\ row'.level = XPLevelFor(xp) /\ XPLevelFor(xp) \in Nat
        /\ row' \in [xp : Nat, level : Nat, last : Nat \cup {Never}]
    BY <2>1, <2>2, LevelCovers
  <2>4. LevelsTyped'
    BY <1>1, <1>2, <2>1, <2>2, <2>3 DEF LevelsIInv, LevelsTyped
  <2>5. \A q \in Proc : Paying(q)' => Paying(q) /\ q # p /\ awarding'[q] = awarding[q]
    BY <1>2, RestingAward DEF Paying
  <2>6. GateApart'
    BY <1>1, <2>5 DEF LevelsIInv, GateApart
  <2>7. LevelCovered'
    BY <2>3 DEF LevelCovered
  <2>8. ASSUME ~slow' PROVE row'.xp = start + granted' /\ ~crowded' /\ \A q \in Proc : StillRead(q)'
    <3>1. ~slow /\ ~TooLate(p)
      BY Zenon, <2>1, <2>8 DEF TooLate
    <3>2. row.xp = awarding[p].cur /\ ~Within(row.last, XPCooldown) /\ row.xp = start + granted /\ ~crowded
      BY <1>1, <3>1 DEF LevelsIInv, StillRead
    <3>3. row'.xp = start + granted'
      BY <2>1, <2>2, <2>3, <3>2
    <3>4. ~crowded'
      BY Zenon, <2>1, <3>2
    <3>5. ASSUME NEW q \in Proc, awarding'[q].pc = "write" PROVE TooLate(q)'
      <4>1. Paying(q) /\ Paying(p) /\ q # p /\ awarding'[q] = awarding[q]
        BY <1>1, <1>2, <3>5, RestingAward DEF Paying
      <4>2. awarding[q].at \in Nat /\ awarding[q].at <= now /\ awarding[p].at <= now
        <5>1. gate \in Nat /\ gate <= now /\ awarding[q].at <= gate /\ awarding[p].at <= gate
          BY <4>1 DEF LevelsIInv, LevelsTyped, GateApart
        <5>2. awarding[q].at \in Nat
          BY DEF LevelsIInv, LevelsTyped, AwardType
        <5>. QED
          BY <2>2, <5>1, <5>2
      <4>3. awarding[p].at + GateTTL <= awarding[q].at \/ awarding[q].at + GateTTL <= awarding[p].at
        BY <4>1 DEF LevelsIInv, GateApart
      <4>. QED
        BY <1>1, <2>2, <3>1, <4>1, <4>2, <4>3, LevelsNumbers DEF TooLate
    <3>. QED
      BY <3>3, <3>4, <3>5 DEF StillRead
  <2>. HIDE DEF xp
  <2>9. (~slow => row.xp = start + granted /\ ~crowded /\ \A q \in Proc : StillRead(q))'
    BY <1>1, <2>8
  <2>. QED
    BY <2>4, <2>6, <2>7, <2>9 DEF LevelsIInv
<1>. QED
  BY <1>3, <1>4

---------------------------------------------------------------------------
LEMMA LevelsNextIInv == LevelsIInv /\ [LevelsNext]_<<env, levelVars>> => LevelsIInv'
<1>. SUFFICES ASSUME LevelsIInv, [LevelsNext]_<<env, levelVars>> PROVE LevelsIInv'
  OBVIOUS
<1>1. Called \/ Fault \/ Passes \/ UNCHANGED env
  BY DEF LevelsNext, PassGate, AwardRead, AwardWrite, LevelsTick, LevelsRestart, env
<1>2. HandlersTypeOK' /\ now \in Nat /\ now' \in Nat /\ now <= now'
  BY <1>1, EnvTypes DEF LevelsIInv
<1>3. ASSUME NEW p \in Proc, PassGate(p) PROVE LevelsIInv'
  BY <1>2, <1>3, GatePasses
<1>4. ASSUME NEW p \in Proc, AwardRead(p) PROVE LevelsIInv'
  BY <1>2, <1>4, RowRead
<1>5. ASSUME NEW p \in Proc, AwardWrite(p) PROVE LevelsIInv'
  BY <1>2, <1>5, RowWritten
<1>6. CASE LevelsTick \/ LevelsRestart \/ UNCHANGED <<env, levelVars>>
  <2>1. /\ UNCHANGED <<row, start, granted, slow, crowded>>
        /\ \/ UNCHANGED <<awarding, gate>>
           \/ gate' = Never /\ awarding' = [p \in Proc |-> Resting]
    BY <1>6 DEF LevelsTick, LevelsRestart, levelVars
  <2>2. awarding' \in [Proc -> AwardType]
    BY <2>1, RestingAward DEF LevelsIInv, LevelsTyped
  <2>. QED
    BY <1>2, <2>1, <2>2, LevelsRest
<1>. QED
  BY <1>3, <1>4, <1>5, <1>6 DEF LevelsNext

LEMMA LevelsKept == LevelsIInv => AwardsKept
<1>. SUFFICES ASSUME LevelsIInv PROVE AwardsKept
  OBVIOUS
<1>1. row.xp \in Nat
  BY DEF LevelsIInv, LevelsTyped
<1>. QED
  BY <1>1, LevelCovers DEF LevelsIInv, LevelCovered, AwardsKept

(* As long as no award takes longer than its gate stays shut none is lost    *)
(* and no two are nearer than the cooldown, for any amounts and times and    *)
(* any number of messages at once; and whatever the member has, the level    *)
(* stored with it is the one it pays for and XPToNext says what is missing   *)
(* for the next (onMessageCreateXP, AwardXP, XPLevelFor, XPToNext).          *)
THEOREM AwardsStayKept == LevelsSpec => []AwardsKept
<1>1. HandlersInit /\ LevelsInit => LevelsIInv
  BY LevelsInitIInv
<1>2. LevelsIInv /\ [LevelsNext]_<<env, levelVars>> => LevelsIInv'
  BY LevelsNextIInv
<1>3. LevelsIInv => AwardsKept
  BY LevelsKept
<1>. QED
  BY <1>1, <1>2, <1>3, PTL DEF LevelsSpec

---------------------------------------------------------------------------
(* Starboard: for any stars, changes of the configuration and failing      *)
(* calls, a message has one card as long as no doubt has been noted.       *)
(* The inductive invariant.  Until the first doubt one handler at most is at *)
(* work on the card (Lone), everybody means the same board (SameBoard), and  *)
(* what that handler remembers is what the row says (KnowsCard).                 *)

StarSteps == HandlesCard \cup {"idle", "add", "drop", "added", "dropped"}

StarType == [pc : StarSteps, cfg : StarConfigs, stars : Nat, board : Nat]

StarTyped ==
    /\ starConfig \in StarConfigs
    /\ post \in [stars : Nat, board : Nat]
    /\ posted \in Nat
    /\ \A c \in cards : c = [channel |-> c.channel, id |-> c.id] /\ c.id \in Nat /\ c.id # NoCard
    /\ starring \in [Proc -> StarType]

Lone == \A p, q \in Proc : starring[p].pc \in HandlesCard /\ starring[q].pc \in HandlesCard => p = q

SameBoard ==
    /\ \A c \in cards : c.channel = starConfig.channel
    /\ \A p \in Proc : starring[p].pc # "idle" => starring[p].cfg.channel = starConfig.channel

KnowsCard(it) ==
    /\ it.pc \in {"post", "record"} => post.board = NoCard
    /\ it.pc = "record" => it.board # NoCard
    /\ it.pc = "delete" => it.board = post.board
    /\ it.pc = "clear" => cards = {}

Placed ==
    \A c \in cards : \/ c.id = post.board
                     \/ \E p \in Proc : starring[p].pc = "record" /\ starring[p].board = c.id

CardSure == Lone /\ SameBoard /\ (\A p \in Proc : KnowsCard(starring[p])) /\ Placed

StarIInv == StarTyped /\ (starDoubt = {} => CardSure)

---------------------------------------------------------------------------
LEMMA StarIdleTyped ==
  ASSUME StarTyped
  PROVE  Unstarred \in StarType /\ Unstarred.pc = "idle"
<1>1. (CHOOSE c \in StarConfigs : TRUE) \in StarConfigs
  BY DEF StarTyped
<1>. QED
  BY <1>1 DEF Unstarred, StarType, StarSteps, NoCard

LEMMA StarInitIInv == StarInit => StarIInv
<1>. SUFFICES ASSUME StarInit PROVE StarIInv
  OBVIOUS
<1>1. (CHOOSE c \in StarConfigs : TRUE) \in StarConfigs
  BY DEF StarInit
<1>2. Unstarred \in StarType /\ Unstarred.pc = "idle"
  BY <1>1 DEF Unstarred, StarType, StarSteps, NoCard
<1>3. starring \in [Proc -> StarType] /\ \A p \in Proc : starring[p].pc = "idle"
  BY <1>2 DEF StarInit
<1>4. StarTyped
  BY <1>3 DEF StarInit, StarTyped, NoCard
<1>5. CardSure
  BY <1>3 DEF StarInit, CardSure, Lone, SameBoard, KnowsCard, Placed, HandlesCard
<1>. QED
  BY <1>4, <1>5 DEF StarIInv

(* One handler moves on; the card and the row's claim to it stay.            *)
LEMMA StarLocal ==
  ASSUME StarIInv, NEW p \in Proc, NEW x \in StarType, starring' = [starring EXCEPT ![p] = x],
         UNCHANGED <<starConfig, cards, posted>>,
         post' \in [stars : Nat, board : Nat], post'.board = post.board,
         starDoubt \subseteq starDoubt',
         x.pc \notin HandlesCard,
         x.pc # "idle" => x.cfg.channel = starConfig.channel,
         starring[p].pc = "record" => starDoubt' # {}
  PROVE  StarIInv'
<1>1. /\ starring' \in [Proc -> StarType] /\ starring'[p] = x
      /\ \A q \in Proc : q # p => starring'[q] = starring[q]
  BY DEF StarIInv, StarTyped
<1>2. StarTyped'
  BY <1>1 DEF StarIInv, StarTyped
<1>3. ASSUME starDoubt' = {} PROVE CardSure'
  <2>1. CardSure /\ starring[p].pc # "record"
    BY <1>3 DEF StarIInv
  <2>2. Lone'
    BY <1>1, <2>1 DEF CardSure, Lone
  <2>3. SameBoard'
    BY <1>1, <2>1 DEF CardSure, SameBoard
  <2>4. ASSUME NEW q \in Proc PROVE KnowsCard(starring[q])'
    BY <1>1, <2>1 DEF CardSure, KnowsCard, HandlesCard
  <2>5. Placed'
    BY <1>1, <2>1 DEF CardSure, Placed
  <2>. QED
    BY <2>2, <2>3, <2>4, <2>5 DEF CardSure
<1>. QED
  BY <1>2, <1>3 DEF StarIInv

(* A handler is through.                                                     *)
LEMMA StarOver ==
  ASSUME StarIInv, NEW p \in Proc, StarIdle(p), UNCHANGED <<starConfig, post, cards, posted>>,
         starDoubt \subseteq starDoubt',
         starring[p].pc = "record" => starDoubt' # {}
  PROVE  StarIInv'
<1>1. Unstarred \in StarType /\ Unstarred.pc = "idle"
  BY StarIdleTyped DEF StarIInv
<1>2. Unstarred.pc \notin HandlesCard
  BY <1>1 DEF HandlesCard
<1>3. post' \in [stars : Nat, board : Nat] /\ post'.board = post.board
  BY DEF StarIInv, StarTyped
<1>. QED
  BY <1>1, <1>2, <1>3, StarLocal DEF StarIdle

---------------------------------------------------------------------------
LEMMA StarEventStep ==
  ASSUME StarIInv, NEW p \in Proc, StarEvent(p)
  PROVE  StarIInv'
<1>1. PICK pc \in {"add", "drop"} :
          starring' = [starring EXCEPT ![p] = [Unstarred EXCEPT !.pc = pc, !.cfg = starConfig]]
  BY DEF StarEvent
<1>. DEFINE x == [Unstarred EXCEPT !.pc = pc, !.cfg = starConfig]
<1>2. x \in StarType /\ x.pc = pc /\ x.cfg = starConfig
  BY StarIdleTyped DEF StarIInv, StarTyped, StarType, StarSteps
<1>3. starring' = [starring EXCEPT ![p] = x]
  BY <1>1
<1>4. pc \notin HandlesCard
  BY DEF HandlesCard
<1>. HIDE DEF x
<1>5. post' \in [stars : Nat, board : Nat] /\ post'.board = post.board
  BY DEF StarEvent, StarIInv, StarTyped
<1>. QED
  BY <1>2, <1>3, <1>4, <1>5, StarLocal DEF StarEvent

LEMMA StarCountStep ==
  ASSUME StarIInv, NEW p \in Proc, CountStar(p)
  PROVE  StarIInv'
<1>1. starring[p].pc \in {"add", "drop"} /\ UNCHANGED <<starConfig, cards, posted, starDoubt>>
  BY DEF CountStar
<1>2. CASE StarIdle(p) /\ UNCHANGED post
  BY <1>1, <1>2, StarOver
<1>3. CASE /\ post' = [post EXCEPT !.stars = IF starring[p].pc = "add" THEN @ + 1 ELSE StarLess(@)]
           /\ StarGoto(p, IF starring[p].pc = "add" THEN "added" ELSE "dropped")
  <2>. DEFINE pc == IF starring[p].pc = "add" THEN "added" ELSE "dropped"
              x == [starring[p] EXCEPT !.pc = pc]
  <2>1. starring[p] \in StarType /\ post \in [stars : Nat, board : Nat]
    BY DEF StarIInv, StarTyped
  <2>2. pc \in StarSteps \ (HandlesCard \cup {"idle"})
    BY DEF StarSteps, HandlesCard
  <2>. HIDE DEF pc
  <2>3. x \in StarType /\ x.pc = pc /\ x.cfg = starring[p].cfg
    BY <2>1, <2>2 DEF StarType
  <2>4. starring' = [starring EXCEPT ![p] = x]
    BY <1>3 DEF StarGoto, pc
  <2>5. post' \in [stars : Nat, board : Nat] /\ post'.board = post.board
    BY <1>3, <2>1 DEF StarLess
  <2>. HIDE DEF x
  <2>6. CASE starDoubt = {}
    <3>1. x.cfg.channel = starConfig.channel
      BY <1>1, <2>3, <2>6 DEF StarIInv, CardSure, SameBoard
    <3>. QED
      BY <1>1, <2>2, <2>3, <2>4, <2>5, <3>1, StarLocal
  <2>7. CASE starDoubt # {}
    <3>1. StarTyped'
      BY <1>1, <2>3, <2>4, <2>5 DEF StarIInv, StarTyped
    <3>. QED
      BY <1>1, <2>7, <3>1 DEF StarIInv
  <2>. QED
    BY <2>6, <2>7
<1>. QED
  BY <1>2, <1>3 DEF CountStar

LEMMA StarReadStep ==
  ASSUME StarIInv, NEW p \in Proc, ReadStars(p)
  PROVE  StarIInv'
<1>. DEFINE next == IF starring[p].pc = "added" THEN BumpDecision(post.stars, post.board, starring[p].cfg)
                    ELSE DropDecision(post.stars, post.board)
<1>1. starring[p].pc \in {"added", "dropped"} /\ UNCHANGED <<starConfig, post, cards, posted>>
  BY DEF ReadStars
<1>2. CASE StarIdle(p) /\ UNCHANGED starDoubt
  BY <1>1, <1>2, StarOver
<1>3. CASE /\ next \in HandlesCard
           /\ starring' = [starring EXCEPT ![p].pc = next, ![p].stars = post.stars, ![p].board = post.board]
           /\ Doubts(Crossing(p))
  <2>1. (next = "post" /\ post.board = NoCard) \/ next = "delete"
    BY <1>3 DEF BumpDecision, DropDecision, HandlesCard
  <2>. HIDE DEF next
  <2>. DEFINE x == [starring[p] EXCEPT !.pc = next, !.stars = post.stars, !.board = post.board]
  <2>2. starring[p] \in StarType /\ post \in [stars : Nat, board : Nat]
    BY DEF StarIInv, StarTyped
  <2>3. x \in StarType /\ x.pc = next /\ x.cfg = starring[p].cfg /\ x.board = post.board
    BY <1>3, <2>2 DEF StarType, StarSteps
  <2>4. starring' = [starring EXCEPT ![p] = x]
    BY <1>3
  <2>. HIDE DEF x
  <2>5. /\ starring' \in [Proc -> StarType] /\ starring'[p] = x
        /\ \A q \in Proc : q # p => starring'[q] = starring[q]
    BY <2>3, <2>4 DEF StarIInv, StarTyped
  <2>6. StarTyped'
    BY <1>1, <2>5 DEF StarIInv, StarTyped
  <2>7. ASSUME starDoubt' = {} PROVE CardSure'
    <3>1. CardSure /\ StarAt(HandlesCard) \subseteq {p}
      BY <1>3, <2>7 DEF StarIInv, Doubts, Crossing
    <3>2. \A q \in Proc : q # p => starring[q].pc \notin HandlesCard
      BY <3>1 DEF StarAt
    <3>3. Lone'
      BY <2>5, <3>2 DEF Lone
    <3>4. SameBoard'
      BY <1>1, <2>3, <2>5, <3>1 DEF CardSure, SameBoard
    <3>5. ASSUME NEW q \in Proc PROVE KnowsCard(starring[q])'
      <4>1. CASE q = p
        BY <1>1, <2>1, <2>3, <2>5, <4>1 DEF KnowsCard
      <4>2. CASE q # p
        BY <2>5, <3>2, <4>2 DEF KnowsCard, HandlesCard
      <4>. QED
        BY <4>1, <4>2
    <3>6. Placed'
      BY <1>1, <2>5, <3>1 DEF CardSure, Placed
    <3>. QED
      BY <3>3, <3>4, <3>5, <3>6 DEF CardSure
  <2>. QED
    BY <2>6, <2>7 DEF StarIInv
<1>. QED
  BY <1>2, <1>3 DEF ReadStars

(* The first card: with nothing in the row and nobody else at work there is  *)
(* no other.                                                                 *)
LEMMA StarPostStep ==
  ASSUME StarIInv, NEW p \in Proc, PostCard(p)
  PROVE  StarIInv'
<1>1. starring[p].pc = "post" /\ UNCHANGED <<starConfig, post>>
  BY DEF PostCard
<1>2. CASE StarIdle(p) /\ UNCHANGED <<cards, posted, starDoubt>>
  BY <1>1, <1>2, StarOver
<1>4. CASE StarIdle(p) /\ PostsCard(p) /\ Doubts({"unrecorded"})
  <2>. DEFINE card == [channel |-> starring[p].cfg.channel, id |-> posted + 1]
  <2>1. posted \in Nat /\ posted + 1 \in Nat /\ posted + 1 # NoCard /\ Unstarred \in StarType
    BY StarIdleTyped DEF StarIInv, StarTyped, NoCard
  <2>2. card = [channel |-> card.channel, id |-> card.id] /\ card.id = posted + 1
    OBVIOUS
  <2>3. cards' = cards \cup {card} /\ posted' = posted + 1 /\ starring' = [starring EXCEPT ![p] = Unstarred]
    BY <1>4 DEF PostsCard, StarIdle
  <2>. HIDE DEF card
  <2>4. StarTyped'
    BY <1>1, <2>1, <2>2, <2>3 DEF StarIInv, StarTyped
  <2>5. starDoubt' # {}
    BY <1>4 DEF Doubts
  <2>. QED
    BY <2>4, <2>5 DEF StarIInv
<1>3. CASE /\ posted' = posted + 1
           /\ cards' = cards \cup {[channel |-> starring[p].cfg.channel, id |-> posted + 1]}
           /\ starring' = [starring EXCEPT ![p].pc = "record", ![p].board = posted + 1]
           /\ UNCHANGED starDoubt
  <2>. DEFINE x == [starring[p] EXCEPT !.pc = "record", !.board = posted + 1]
              card == [channel |-> starring[p].cfg.channel, id |-> posted + 1]
  <2>1. starring[p] \in StarType /\ posted \in Nat /\ posted + 1 \in Nat
    BY DEF StarIInv, StarTyped
  <2>2. x \in StarType /\ x.pc = "record" /\ x.cfg = starring[p].cfg /\ x.board = posted + 1
    BY <2>1 DEF StarType, StarSteps, HandlesCard
  <2>3. starring' = [starring EXCEPT ![p] = x]
    BY <1>3
  <2>4. /\ card = [channel |-> card.channel, id |-> card.id]
        /\ card.channel = starring[p].cfg.channel /\ card.id = posted + 1
        /\ posted + 1 \in Nat /\ posted + 1 # NoCard
    BY <2>1 DEF NoCard
  <2>5. cards' = cards \cup {card}
    BY <1>3
  <2>. HIDE DEF x, card
  <2>6. /\ starring' \in [Proc -> StarType] /\ starring'[p] = x
        /\ \A q \in Proc : q # p => starring'[q] = starring[q]
    BY <2>2, <2>3 DEF StarIInv, StarTyped
  <2>7. StarTyped'
    BY <1>1, <1>3, <2>4, <2>5, <2>6 DEF StarIInv, StarTyped
  <2>8. ASSUME starDoubt' = {} PROVE CardSure'
    <3>1. CardSure
      BY <1>1, <1>3, <2>8 DEF StarIInv
    <3>2. \A q \in Proc : q # p => starring[q].pc \notin HandlesCard
      BY <1>1, <3>1 DEF CardSure, Lone, HandlesCard
    <3>3. post.board = NoCard
      BY <1>1, <3>1 DEF CardSure, KnowsCard
    <3>4. cards = {}
      BY <1>1, <3>1, <3>2, <3>3 DEF CardSure, Placed, StarIInv, StarTyped, HandlesCard
    <3>5. Lone'
      BY <2>6, <3>2 DEF Lone
    <3>6. SameBoard'
      BY <1>1, <2>2, <2>4, <2>5, <2>6, <3>1 DEF CardSure, SameBoard
    <3>7. ASSUME NEW q \in Proc PROVE KnowsCard(starring[q])'
      <4>1. CASE q = p
        BY <1>1, <2>2, <2>4, <2>6, <3>3, <4>1 DEF KnowsCard
      <4>2. CASE q # p
        BY <2>6, <3>2, <4>2 DEF KnowsCard, HandlesCard
      <4>. QED
        BY <4>1, <4>2
    <3>8. Placed'
      BY <2>2, <2>4, <2>5, <2>6, <3>4 DEF Placed
    <3>. QED
      BY <3>5, <3>6, <3>7, <3>8 DEF CardSure
  <2>. QED
    BY <2>7, <2>8 DEF StarIInv
<1>. QED
  BY <1>2, <1>3, <1>4 DEF PostCard, PostsCard

LEMMA StarRecordStep ==
  ASSUME StarIInv, NEW p \in Proc, RecordCard(p)
  PROVE  StarIInv'
<1>1. starring[p].pc = "record" /\ StarIdle(p) /\ UNCHANGED <<starConfig, cards, posted>>
  BY DEF RecordCard
<1>2. CASE Doubts({"unrecorded"}) /\ UNCHANGED post
  BY <1>1, <1>2, StarOver DEF Doubts
<1>3. CASE post' = [post EXCEPT !.board = starring[p].board] /\ UNCHANGED starDoubt
  <2>1. Unstarred \in StarType /\ Unstarred.pc = "idle" /\ "idle" \notin HandlesCard
    BY StarIdleTyped DEF StarIInv, HandlesCard
  <2>2. /\ starring' \in [Proc -> StarType] /\ starring'[p].pc = "idle"
        /\ \A q \in Proc : q # p => starring'[q] = starring[q]
    BY <1>1, <2>1 DEF StarIInv, StarTyped, StarIdle
  <2>3. post' \in [stars : Nat, board : Nat] /\ post'.board = starring[p].board
    BY <1>3 DEF StarIInv, StarTyped, StarType
  <2>4. StarTyped'
    BY <1>1, <2>2, <2>3 DEF StarIInv, StarTyped
  <2>5. ASSUME starDoubt' = {} PROVE CardSure'
    <3>1. CardSure
      BY <1>3, <2>5 DEF StarIInv
    <3>2. \A q \in Proc : q # p => starring[q].pc \notin HandlesCard
      BY <1>1, <3>1 DEF CardSure, Lone, HandlesCard
    <3>3. \A q \in Proc : starring'[q].pc \notin HandlesCard
      BY <2>1, <2>2, <3>2
    <3>4. post.board = NoCard
      BY <1>1, <3>1 DEF CardSure, KnowsCard
    <3>5. Lone' /\ \A q \in Proc : KnowsCard(starring[q])'
      BY <3>3 DEF Lone, KnowsCard, HandlesCard
    <3>6. SameBoard'
      BY <1>1, <2>2, <3>1 DEF CardSure, SameBoard
    <3>7. \A c \in cards : c.id = starring[p].board
      BY <1>1, <3>1, <3>2, <3>4 DEF CardSure, Placed, StarIInv, StarTyped, HandlesCard
    <3>8. Placed'
      BY <1>1, <2>3, <3>7 DEF Placed
    <3>. QED
      BY <3>5, <3>6, <3>8 DEF CardSure
  <2>. QED
    BY <2>4, <2>5 DEF StarIInv
<1>. QED
  BY <1>2, <1>3 DEF RecordCard

(* The only card there is goes.                                              *)
LEMMA StarDeleteStep ==
  ASSUME StarIInv, NEW p \in Proc, DeleteCard(p)
  PROVE  StarIInv'
<1>. DEFINE x == [starring[p] EXCEPT !.pc = "clear"]
            card == [channel |-> starring[p].cfg.channel, id |-> starring[p].board]
<1>1. /\ starring[p].pc = "delete" /\ starring' = [starring EXCEPT ![p] = x]
      /\ UNCHANGED <<starConfig, post, posted>> /\ starDoubt \subseteq starDoubt'
      /\ cards' = cards \ {card} \/ (starDoubt' # {} /\ cards' = cards)
  BY DEF DeleteCard, StarGoto, Doubts
<1>2. x \in StarType /\ x.pc = "clear" /\ x.cfg = starring[p].cfg
  BY DEF StarIInv, StarTyped, StarType, StarSteps, HandlesCard
<1>. HIDE DEF x
<1>3. /\ starring' \in [Proc -> StarType] /\ starring'[p] = x
      /\ \A q \in Proc : q # p => starring'[q] = starring[q]
  BY <1>1, <1>2 DEF StarIInv, StarTyped
<1>4. StarTyped'
  BY <1>1, <1>3 DEF StarIInv, StarTyped
<1>5. ASSUME starDoubt' = {} PROVE CardSure'
  <2>1. CardSure /\ cards' = cards \ {card}
    BY <1>1, <1>5 DEF StarIInv
  <2>2. \A q \in Proc : q # p => starring[q].pc \notin HandlesCard
    BY <1>1, <2>1 DEF CardSure, Lone, HandlesCard
  <2>3. \A q \in Proc : starring[q].pc # "record"
    BY <1>1, <2>2 DEF HandlesCard
  <2>4. starring[p].board = post.board /\ starring[p].cfg.channel = starConfig.channel
    BY <1>1, <2>1 DEF CardSure, KnowsCard, SameBoard
  <2>5. ASSUME NEW c \in cards PROVE c = card
    <3>1. c.id = post.board /\ c.channel = starConfig.channel
      BY <2>1, <2>3 DEF CardSure, Placed, SameBoard
    <3>2. c = [channel |-> c.channel, id |-> c.id]
      BY DEF StarIInv, StarTyped
    <3>. QED
      BY <2>4, <3>1, <3>2
  <2>6. cards' = {}
    BY <2>1, <2>5
  <2>7. Lone'
    BY <1>3, <2>2 DEF Lone
  <2>8. SameBoard'
    BY <1>1, <1>2, <1>3, <2>1, <2>6 DEF CardSure, SameBoard
  <2>9. ASSUME NEW q \in Proc PROVE KnowsCard(starring[q])'
    <3>1. CASE q = p
      BY <1>2, <1>3, <2>6, <3>1 DEF KnowsCard
    <3>2. CASE q # p
      BY <1>3, <2>2, <3>2 DEF KnowsCard, HandlesCard
    <3>. QED
      BY <3>1, <3>2
  <2>10. Placed'
    BY <2>6 DEF Placed
  <2>. QED
    BY <2>7, <2>8, <2>9, <2>10 DEF CardSure
<1>. QED
  BY <1>4, <1>5 DEF StarIInv

LEMMA StarClearStep ==
  ASSUME StarIInv, NEW p \in Proc, ClearCard(p)
  PROVE  StarIInv'
<1>1. starring[p].pc = "clear" /\ StarIdle(p) /\ UNCHANGED <<starConfig, cards, posted, starDoubt>>
  BY DEF ClearCard
<1>2. CASE UNCHANGED post
  BY <1>1, <1>2, StarOver
<1>3. CASE post' = [post EXCEPT !.board = NoCard]
  <2>1. Unstarred \in StarType /\ Unstarred.pc = "idle" /\ "idle" \notin HandlesCard
    BY StarIdleTyped DEF StarIInv, HandlesCard
  <2>2. /\ starring' \in [Proc -> StarType] /\ starring'[p].pc = "idle"
        /\ \A q \in Proc : q # p => starring'[q] = starring[q]
    BY <1>1, <2>1 DEF StarIInv, StarTyped, StarIdle
  <2>3. StarTyped'
    BY <1>1, <1>3, <2>2 DEF StarIInv, StarTyped, NoCard
  <2>4. ASSUME starDoubt' = {} PROVE CardSure'
    <3>1. CardSure
      BY <1>1, <2>4 DEF StarIInv
    <3>2. \A q \in Proc : starring'[q].pc \notin HandlesCard
      BY <1>1, <2>1, <2>2, <3>1 DEF CardSure, Lone, HandlesCard
    <3>3. cards' = {}
      BY <1>1, <3>1 DEF CardSure, KnowsCard
    <3>4. Lone' /\ Placed' /\ \A q \in Proc : KnowsCard(starring[q])'
      BY <3>2, <3>3 DEF Lone, Placed, KnowsCard, HandlesCard
    <3>5. SameBoard'
      BY <1>1, <2>2, <3>1, <3>3 DEF CardSure, SameBoard
    <3>. QED
      BY <3>4, <3>5 DEF CardSure
  <2>. QED
    BY <2>3, <2>4 DEF StarIInv
<1>. QED
  BY <1>2, <1>3 DEF ClearCard

LEMMA StarOutsideStep ==
  ASSUME StarIInv, ConfigureStarboard \/ StarRestart
  PROVE  StarIInv'
<1>1. CASE ConfigureStarboard
  <2>1. PICK c \in StarConfigs : /\ starConfig' = c
                                 /\ Doubts(IF c.channel # starConfig.channel THEN {"moved"} ELSE {})
    BY <1>1 DEF ConfigureStarboard
  <2>2. UNCHANGED <<post, cards, posted, starring>>
    BY <1>1 DEF ConfigureStarboard
  <2>3. StarTyped'
    BY <2>1, <2>2 DEF StarIInv, StarTyped
  <2>4. starDoubt' = {} => starDoubt = {} /\ starConfig'.channel = starConfig.channel
    BY <2>1 DEF Doubts
  <2>5. starDoubt' = {} => CardSure'
    BY <2>2, <2>4 DEF StarIInv, CardSure, Lone, SameBoard, KnowsCard, Placed
  <2>. QED
    BY <2>3, <2>5 DEF StarIInv
<1>2. CASE StarRestart
  <2>1. Unstarred \in StarType /\ Unstarred.pc = "idle"
    BY StarIdleTyped DEF StarIInv
  <2>2. UNCHANGED <<starConfig, post, cards, posted>> /\ starring' = [p \in Proc |-> Unstarred]
    BY <1>2 DEF StarRestart
  <2>3. StarTyped'
    BY <2>1, <2>2 DEF StarIInv, StarTyped
  <2>4. ASSUME starDoubt' = {} PROVE CardSure'
    <3>1. CardSure /\ \A p \in Proc : starring[p].pc # "record"
      BY <1>2, <2>4 DEF StarRestart, Doubts, StarIInv, StarAt
    <3>2. \A p \in Proc : starring'[p].pc = "idle"
      BY <2>1, <2>2
    <3>. QED
      BY <2>2, <3>1, <3>2 DEF CardSure, Lone, SameBoard, KnowsCard, Placed, HandlesCard
  <2>. QED
    BY <2>3, <2>4 DEF StarIInv
<1>. QED
  BY <1>1, <1>2

LEMMA StarNextIInv == StarIInv /\ [StarNext]_<<env, starVars>> => StarIInv'
<1>. SUFFICES ASSUME StarIInv, [StarNext]_<<env, starVars>> PROVE StarIInv'
  OBVIOUS
<1>1. CASE UNCHANGED <<env, starVars>>
  BY <1>1 DEF starVars, StarIInv, StarTyped, CardSure, Lone, SameBoard, KnowsCard, Placed
<1>. QED
  BY <1>1, StarEventStep, StarCountStep, StarReadStep, StarPostStep, StarRecordStep, StarDeleteStep, StarClearStep, StarOutsideStep DEF StarNext

---------------------------------------------------------------------------
(* For any stars and any configurations: a message has one card, as long as  *)
(* no two handlers crossed on it, no call failed after the card was there    *)
(* and the board stayed in its channel.                                      *)
THEOREM CardKept == StarSpec => []OneCard
<1>1. StarIInv => OneCard
  BY DEF StarIInv, CardSure, Placed, OneCard, StarAt
<1>. QED
  BY <1>1, StarInitIInv, StarNextIInv, PTL DEF StarSpec

---------------------------------------------------------------------------
(* Automation: for any rules, changes and updates an event is met by the   *)
(* rules of the table, and what comes and goes is owed nothing at the end. *)
(* The inductive invariant.  Of the rules: whoever is sure of the rules he   *)
(* runs has those that are on in the table, since nothing under way could    *)
(* have brought others (RulesFit).                                           *)
Enabled(table) == [n \in 1..Names |-> IF table[n] = NoRule THEN NoRule
                                      ELSE IF table[n].on THEN table[n] ELSE NoRule]

Fields(x) == x = [pc |-> x.pc, update |-> x.update, roles |-> x.roles, events |-> x.events,
              rules |-> x.rules, sure |-> x.sure]

RulesSound(it) ==
    /\ it.sure => settled
    /\ it.pc = "bust" => ~settled
    /\ it.pc = "fill" /\ settled => it.rules = Enabled(ruleTable)
    /\ it.pc = "fillNone" => ~it.sure
    /\ it.pc = "run" /\ it.sure => it.rules = Enabled(ruleTable)

CacheSound ==
    settled /\ ruleCache.at # Never /\ ~ruleCache.failed => ruleCache.rules = Enabled(ruleTable)

(* What an event fires of a table whose gates panic.                         *)
UntilGate(table, e) ==
    LET here == Matching(table, e) IN
    {n \in here : ~table[n].gated
                  /\ \A m \in here : m < n => ~table[m].gated /\ "stop" \notin table[m].actions}

RunsFit ==
    \A x \in lastRun : DOMAIN x.table = 1..Names /\ x.fired = UntilGate(x.table, x.event)

RulesFit == CacheSound /\ RunsFit /\ \A p \in Proc : RulesSound(automating[p])

(* Of the roles: as long as the bot is on track, every change it has not     *)
(* taken in yet is pending, and each makes up for what it owes.  h is the    *)
(* roles the member had after each.                                          *)
Waits == {"swap", "autorole", "prime", "drop"}

Waiting(p, u) == automating[p].pc \in Waits /\ automating[p].update = u
Swapping(u) == \E p \in Proc : automating[p].pc = "swap" /\ automating[p].update = u

OnTrack == ~misled /\ \A p \in Proc : automating[p].pc \in Waits \ {"autorole"} => automating[p].update > swapped

Owes(h, c) == {u \in (swapped + 1)..updates : Swapping(u) /\ c \in Diff(h[u - 1], h[u])}

Remembers(h) ==
    /\ h[swapped] = knownRoles /\ h[updates] = memberRoles
    /\ \A p \in Proc : /\ automating[p].pc \in Waits => h[automating[p].update] = automating[p].roles
                       /\ automating[p].pc = "autorole" => h[automating[p].update - 1] = {}
    /\ \A c \in Change : owed[c] = Cardinality(Owes(h, c))

RolesTracked ==
    OnTrack => /\ \A u \in (swapped + 1)..updates : \E p \in Proc : Waiting(p, u)
               /\ \E h \in [0..updates -> SUBSET RuleRoles] : Remembers(h)

Numbering ==
    /\ updates \in Nat /\ swapped \in 0..updates
    /\ \A p \in Proc : automating[p].pc \in Waits => automating[p].update \in (1..updates) \ {swapped}
    /\ \A p, q \in Proc : p # q /\ automating[p].pc \in Waits /\ automating[q].pc \in Waits =>
          automating[p].update # automating[q].update

AutoTyped ==
    /\ automating = [p \in Proc |-> automating[p]] /\ \A p \in Proc : Fields(automating[p])
    /\ ruleTable = [n \in 1..Names |-> ruleTable[n]]
    /\ memberRoles \subseteq RuleRoles
    /\ owed \in [Change -> Int]
    /\ \A p \in Proc : automating[p].pc \in Waits \ {"swap"} => automating[p].roles = {}

AutoIInv == HandlersTypeOK /\ AutoTyped /\ RulesFit /\ Numbering /\ RolesTracked

---------------------------------------------------------------------------
(* What a goroutine knows, a field at a time.                                *)
LEMMA PcSet ==
  ASSUME NEW x, Fields(x), NEW pc, NEW y, y = [x EXCEPT !.pc = pc]
  PROVE  Fields(y) /\ y.pc = pc /\ y.update = x.update /\ y.roles = x.roles /\ y.events = x.events
           /\ y.rules = x.rules /\ y.sure = x.sure
<1>1. PICK a, b, c, d, e, f : x = [pc |-> a, update |-> b, roles |-> c, events |-> d, rules |-> e, sure |-> f]
  BY DEF Fields
<1>2. y = [pc |-> pc, update |-> b, roles |-> c, events |-> d, rules |-> e, sure |-> f]
  BY <1>1
<1>. QED
  BY <1>1, <1>2 DEF Fields

LEMMA SureSet ==
  ASSUME NEW x, Fields(x), NEW sure, NEW y, y = [x EXCEPT !.sure = sure]
  PROVE  Fields(y) /\ y.pc = x.pc /\ y.update = x.update /\ y.roles = x.roles /\ y.events = x.events
           /\ y.rules = x.rules /\ y.sure = sure
<1>1. PICK a, b, c, d, e, f : x = [pc |-> a, update |-> b, roles |-> c, events |-> d, rules |-> e, sure |-> f]
  BY DEF Fields
<1>2. y = [pc |-> a, update |-> b, roles |-> c, events |-> d, rules |-> e, sure |-> sure]
  BY <1>1
<1>. QED
  BY <1>1, <1>2 DEF Fields

LEMMA RulesSet ==
  ASSUME NEW x, Fields(x), NEW rules, NEW y, y = [x EXCEPT !.rules = rules]
  PROVE  Fields(y) /\ y.pc = x.pc /\ y.update = x.update /\ y.roles = x.roles /\ y.events = x.events
           /\ y.rules = rules /\ y.sure = x.sure
<1>1. PICK a, b, c, d, e, f : x = [pc |-> a, update |-> b, roles |-> c, events |-> d, rules |-> e, sure |-> f]
  BY DEF Fields
<1>2. y = [pc |-> a, update |-> b, roles |-> c, events |-> d, rules |-> rules, sure |-> f]
  BY <1>1
<1>. QED
  BY <1>1, <1>2 DEF Fields

LEMMA EventsSet ==
  ASSUME NEW x, Fields(x), NEW changes, NEW y, y = [x EXCEPT !.events = changes]
  PROVE  Fields(y) /\ y.pc = x.pc /\ y.update = x.update /\ y.roles = x.roles /\ y.events = changes
           /\ y.rules = x.rules /\ y.sure = x.sure
<1>1. PICK a, b, c, d, e, f : x = [pc |-> a, update |-> b, roles |-> c, events |-> d, rules |-> e, sure |-> f]
  BY DEF Fields
<1>2. y = [pc |-> a, update |-> b, roles |-> c, events |-> changes, rules |-> e, sure |-> f]
  BY <1>1
<1>. QED
  BY <1>1, <1>2 DEF Fields

LEMMA UpdateSet ==
  ASSUME NEW x, Fields(x), NEW update, NEW y, y = [x EXCEPT !.update = update]
  PROVE  Fields(y) /\ y.pc = x.pc /\ y.update = update /\ y.roles = x.roles /\ y.events = x.events
           /\ y.rules = x.rules /\ y.sure = x.sure
<1>1. PICK a, b, c, d, e, f : x = [pc |-> a, update |-> b, roles |-> c, events |-> d, rules |-> e, sure |-> f]
  BY DEF Fields
<1>2. y = [pc |-> a, update |-> update, roles |-> c, events |-> d, rules |-> e, sure |-> f]
  BY <1>1
<1>. QED
  BY <1>1, <1>2 DEF Fields

LEMMA RolesSet ==
  ASSUME NEW x, Fields(x), NEW roles, NEW y, y = [x EXCEPT !.roles = roles]
  PROVE  Fields(y) /\ y.pc = x.pc /\ y.update = x.update /\ y.roles = roles /\ y.events = x.events
           /\ y.rules = x.rules /\ y.sure = x.sure
<1>1. PICK a, b, c, d, e, f : x = [pc |-> a, update |-> b, roles |-> c, events |-> d, rules |-> e, sure |-> f]
  BY DEF Fields
<1>2. y = [pc |-> a, update |-> b, roles |-> roles, events |-> d, rules |-> e, sure |-> f]
  BY <1>1
<1>. QED
  BY <1>1, <1>2 DEF Fields

FromCache(x, rules, sure) == [x EXCEPT !.pc = "run", !.rules = rules, !.sure = sure]

LEMMA FromCacheIs ==
  ASSUME NEW x, Fields(x), NEW rules, NEW sure, NEW y, y = FromCache(x, rules, sure)
  PROVE  Fields(y) /\ y.pc = "run" /\ y.rules = rules /\ y.sure = sure
<1>1. PICK k, l, m, n, q, f : x = [pc |-> k, update |-> l, roles |-> m, events |-> n, rules |-> q, sure |-> f]
  BY DEF Fields
<1>2. y = [pc |-> "run", update |-> l, roles |-> m, events |-> n, rules |-> rules, sure |-> sure]
  BY <1>1 DEF FromCache
<1>. QED
  BY <1>1, <1>2 DEF Fields

LEMMA UnautomatedIs ==
  /\ Fields(Unautomated) /\ Unautomated.pc = "idle" /\ Unautomated.update = 0 /\ Unautomated.roles = {}
  /\ Unautomated.rules = Nothing /\ ~Unautomated.sure
BY DEF Fields, Unautomated

LEMMA LooksIs ==
  ASSUME NEW p, NEW changes
  PROVE  /\ Fields(Looks(p, changes)) /\ Looks(p, changes).pc = "look"
         /\ Looks(p, changes).sure = settled
<1>. DEFINE a == [Unautomated EXCEPT !.pc = "look"]
            b == [a EXCEPT !.events = changes]
            c == [b EXCEPT !.sure = settled]
<1>1. Fields(a) /\ a.pc = "look"
  BY PcSet, UnautomatedIs
<1>2. Fields(b) /\ b.pc = "look"
  <2>. HIDE DEF a
  <2>. QED
    BY EventsSet, <1>1
<1>3. Fields(c) /\ c.pc = "look" /\ c.sure = settled
  <2>. HIDE DEF b
  <2>. QED
    BY SureSet, <1>2
<1>4. Looks(p, changes) = c
  BY DEF Looks
<1>. QED
  BY <1>3, <1>4

StartsAt(pc, update, roles) == [Unautomated EXCEPT !.pc = pc, !.update = update, !.roles = roles]

LEMMA NumberedIs ==
  ASSUME NEW pc, NEW update, NEW roles, NEW y, y = StartsAt(pc, update, roles)
  PROVE  Fields(y) /\ y.pc = pc /\ y.update = update /\ y.roles = roles /\ ~y.sure
<1>. DEFINE a == [Unautomated EXCEPT !.pc = pc]
            b == [a EXCEPT !.update = update]
            c == [b EXCEPT !.roles = roles]
<1>1. Fields(a) /\ a.pc = pc /\ ~a.sure
  BY PcSet, UnautomatedIs
<1>2. Fields(b) /\ b.pc = pc /\ b.update = update /\ ~b.sure
  <2>. HIDE DEF a
  <2>. QED
    BY UpdateSet, <1>1
<1>3. Fields(c) /\ c.pc = pc /\ c.update = update /\ c.roles = roles /\ ~c.sure
  <2>. HIDE DEF b
  <2>. QED
    BY RolesSet, <1>2
<1>4. y = c
  BY DEF StartsAt
<1>. QED
  BY <1>3, <1>4

---------------------------------------------------------------------------
(* The loop of RunFrom fires what matches from n on as long as nothing       *)
(* before has stopped it or made it panic.                                   *)
Matches(rules, e, n) == rules[n] # NoRule /\ Check(rules[n], e)
GoesPast(rules, n) == ~rules[n].gated /\ "stop" \notin rules[n].actions
Unstopped(rules, e, n, m) == \A k \in n..(m - 1) : Matches(rules, e, k) => GoesPast(rules, k)
Fired(rules, e, n) == {m \in n..Names : Matches(rules, e, m) /\ ~rules[m].gated /\ Unstopped(rules, e, n, m)}
Panics(rules, e, n) ==
    IF \E m \in n..Names : Matches(rules, e, m) /\ rules[m].gated /\ Unstopped(rules, e, n, m) THEN TRUE ELSE FALSE

Ends(rules, e, n) == [fired |-> Fired(rules, e, n), panic |-> Panics(rules, e, n)]

FiresAlso(run, n) == [run EXCEPT !.fired = @ \cup {n}]

RunsTo(rules, e, n, next) ==
    IF n > Names THEN [fired |-> {}, panic |-> FALSE]
    ELSE LET r == rules[n] IN
         IF r = NoRule THEN next
         ELSE IF ~Check(r, e) THEN next
         ELSE IF r.gated THEN [fired |-> {}, panic |-> TRUE]
         ELSE IF "stop" \in r.actions THEN [fired |-> {n}, panic |-> FALSE]
         ELSE FiresAlso(next, n)

Runner(rules, e, Run) == [n \in 1..(Names + 1) |-> RunsTo(rules, e, n, Run[n + 1])]

LEMMA RunIs ==
  ASSUME NEW rules, NEW e
  PROVE  RunFrom(rules, e) = (CHOOSE c : c = Runner(rules, e, c))[1]
BY Zenon DEF RunFrom, Runner, RunsTo, FiresAlso

LEMMA UnstoppedOn ==
  ASSUME NEW rules, NEW e, NEW n \in Nat, NEW m \in Nat, n < m
  PROVE  Unstopped(rules, e, n, m) <=> (Matches(rules, e, n) => GoesPast(rules, n)) /\ Unstopped(rules, e, n + 1, m)
<1>1. n..(m - 1) = {n} \cup ((n + 1)..(m - 1))
  OBVIOUS
<1>. QED
  BY <1>1 DEF Unstopped

LEMMA FiresToo ==
  ASSUME NEW fired, NEW panic, NEW n
  PROVE  FiresAlso([fired |-> fired, panic |-> panic], n) = [fired |-> fired \cup {n}, panic |-> panic]
BY DEF FiresAlso

LEMMA EndsOn ==
  ASSUME NEW rules, NEW e, NEW n \in 1..(Names + 1)
  PROVE  Ends(rules, e, n) = RunsTo(rules, e, n, Ends(rules, e, n + 1))
<1>. Names \in Nat /\ n \in Nat /\ n + 1 \in Nat
  BY AutomationAssumption
<1>1. CASE n > Names
  <2>1. n..Names = {}
    BY <1>1
  <2>. QED
    BY <1>1, <2>1 DEF Ends, Fired, Panics, RunsTo
<1>2. CASE n <= Names
  <2>1. n..Names = {n} \cup ((n + 1)..Names)
    BY <1>2
  <2>2. Unstopped(rules, e, n, n)
    <3>1. n..(n - 1) = {}
      OBVIOUS
    <3>. QED
      BY <3>1 DEF Unstopped
  <2>3. \A m \in (n + 1)..Names :
           Unstopped(rules, e, n, m) <=> (Matches(rules, e, n) => GoesPast(rules, n)) /\ Unstopped(rules, e, n + 1, m)
    BY UnstoppedOn
  <2>4. Fired(rules, e, n) = {m \in {n} : Matches(rules, e, n) /\ ~rules[n].gated}
                               \cup {m \in Fired(rules, e, n + 1) : Matches(rules, e, n) => GoesPast(rules, n)}
    BY <2>1, <2>2, <2>3 DEF Fired
  <2>5. Panics(rules, e, n) <=> \/ Matches(rules, e, n) /\ rules[n].gated
                                \/ Panics(rules, e, n + 1) /\ (Matches(rules, e, n) => GoesPast(rules, n))
    BY <2>1, <2>2, <2>3 DEF Panics
  <2>6. Panics(rules, e, n) \in BOOLEAN /\ Panics(rules, e, n + 1) \in BOOLEAN
    BY DEF Panics
  <2>7. CASE ~Matches(rules, e, n)
    <3>1. Ends(rules, e, n) = Ends(rules, e, n + 1)
      BY <2>4, <2>5, <2>6, <2>7 DEF Ends
    <3>. QED
      BY <1>2, <2>7, <3>1 DEF RunsTo, Matches
  <2>8. CASE Matches(rules, e, n) /\ rules[n].gated
    <3>1. Ends(rules, e, n) = [fired |-> {}, panic |-> TRUE]
      BY <2>4, <2>5, <2>6, <2>8 DEF Ends, GoesPast
    <3>. QED
      BY <1>2, <2>8, <3>1 DEF RunsTo, Matches
  <2>9. CASE Matches(rules, e, n) /\ ~rules[n].gated /\ "stop" \in rules[n].actions
    <3>1. Ends(rules, e, n) = [fired |-> {n}, panic |-> FALSE]
      BY <2>4, <2>5, <2>6, <2>9 DEF Ends, GoesPast
    <3>. QED
      BY <1>2, <2>9, <3>1 DEF RunsTo, Matches
  <2>10. CASE Matches(rules, e, n) /\ GoesPast(rules, n)
    <3>1. Ends(rules, e, n) = [fired |-> Fired(rules, e, n + 1) \cup {n}, panic |-> Panics(rules, e, n + 1)]
      BY <2>4, <2>5, <2>6, <2>10 DEF Ends, GoesPast
    <3>2. FiresAlso(Ends(rules, e, n + 1), n) = Ends(rules, e, n)
      BY <3>1, FiresToo DEF Ends
    <3>. QED
      BY <1>2, <2>10, <3>2 DEF RunsTo, Matches, GoesPast
  <2>. QED
    BY <2>7, <2>8, <2>9, <2>10 DEF GoesPast
<1>. QED
  BY <1>1, <1>2

LEMMA EndsRun ==
  ASSUME NEW rules, NEW e
  PROVE  \E c : c = Runner(rules, e, c)
<1>. DEFINE d == [n \in 1..(Names + 1) |-> Ends(rules, e, n)]
<1>. Names \in Nat
  BY AutomationAssumption
<1>1. ASSUME NEW n \in 1..(Names + 1) PROVE d[n] = RunsTo(rules, e, n, d[n + 1])
  <2>1. d[n] = Ends(rules, e, n)
    OBVIOUS
  <2>2. CASE n + 1 \in 1..(Names + 1)
    BY <2>1, <2>2, EndsOn
  <2>3. CASE n > Names
    BY <2>1, <2>3, EndsOn DEF RunsTo
  <2>4. n + 1 \in 1..(Names + 1) \/ n > Names
    OBVIOUS
  <2>. QED
    BY <2>2, <2>3, <2>4
<1>2. d = [n \in 1..(Names + 1) |-> d[n]]
  OBVIOUS
<1>. HIDE DEF d
<1>3. d = Runner(rules, e, d)
  BY <1>1, <1>2, Zenon DEF Runner
<1>. QED
  BY <1>3

LEMMA RunFires ==
  ASSUME NEW rules, NEW e
  PROVE  RunFrom(rules, e).fired = Fired(rules, e, 1)
<1>. Names \in Nat
  BY AutomationAssumption
<1>. DEFINE c == CHOOSE f : f = Runner(rules, e, f)
<1>1. c = Runner(rules, e, c)
  <2>1. \E f : f = Runner(rules, e, f)
    BY EndsRun
  <2>. QED
    BY <2>1, Zenon
<1>2. RunFrom(rules, e) = c[1]
  BY RunIs, Zenon
<1>. HIDE DEF c
<1>3. ASSUME NEW n \in 1..(Names + 1) PROVE c[n] = RunsTo(rules, e, n, c[n + 1])
  BY <1>1, Zenon DEF Runner
<1>. DEFINE T == {k \in Nat : \A n \in 1..(Names + 1) : n + k = Names + 1 => c[n] = Ends(rules, e, n)}
<1>4. 0 \in T
  <2>1. ASSUME NEW n \in 1..(Names + 1), n + 0 = Names + 1 PROVE c[n] = Ends(rules, e, n)
    <3>1. n > Names
      BY <2>1
    <3>2. c[n] = RunsTo(rules, e, n, c[n + 1])
      BY <1>3
    <3>. QED
      BY <3>1, <3>2, EndsOn DEF RunsTo
  <2>. QED
    BY <2>1
<1>5. ASSUME NEW k \in Nat, k \in T PROVE k + 1 \in T
  <2>1. ASSUME NEW n \in 1..(Names + 1), n + (k + 1) = Names + 1 PROVE c[n] = Ends(rules, e, n)
    <3>1. n + 1 \in 1..(Names + 1) /\ (n + 1) + k = Names + 1
      BY <2>1
    <3>2. c[n + 1] = Ends(rules, e, n + 1)
      BY <1>5, <3>1
    <3>. HIDE DEF T
    <3>3. c[n] = RunsTo(rules, e, n, Ends(rules, e, n + 1))
      BY <1>3, <3>2, Zenon
    <3>. QED
      BY <3>3, EndsOn
  <2>. QED
    BY <2>1
<1>. HIDE DEF T
<1>6. Names \in T
  BY <1>4, <1>5, Reaching
<1>7. c[1] = Ends(rules, e, 1)
  BY <1>6 DEF T
<1>. QED
  BY <1>2, <1>7 DEF Ends

(* What runs is what the table asks for up to a gate,                        *)
LEMMA EnabledRuled ==
  ASSUME NEW table, table = [n \in 1..Names |-> table[n]], NEW e
  PROVE  RunFrom(Enabled(table), e).fired = UntilGate(table, e)
<1>. Names \in Nat
  BY AutomationAssumption
<1>. DEFINE rules == Enabled(table)
            here == Matching(table, e)
<1>1. DOMAIN table = 1..Names
  OBVIOUS
<1>2. \A n \in 1..Names : Matches(rules, e, n) <=> n \in here
  BY <1>1 DEF Enabled, Matches, Matching
<1>3. \A n \in here : rules[n] = table[n]
  BY <1>1 DEF Enabled, Matching
<1>4. UntilGate(table, e) = {n \in here : ~table[n].gated
                            /\ \A m \in here : m < n => ~table[m].gated /\ "stop" \notin table[m].actions}
  BY DEF UntilGate
<1>5. here \subseteq 1..Names
  BY <1>1 DEF Matching
<1>. HIDE DEF rules, here
<1>6. \A n \in 1..Names : Unstopped(rules, e, 1, n) <=>
         \A m \in here : m < n => ~table[m].gated /\ "stop" \notin table[m].actions
  <2>. SUFFICES ASSUME NEW n \in 1..Names
                PROVE  Unstopped(rules, e, 1, n) <=>
                          \A m \in here : m < n => ~table[m].gated /\ "stop" \notin table[m].actions
    OBVIOUS
  <2>1. Unstopped(rules, e, 1, n) <=> \A m \in 1..(n - 1) : m \in here => GoesPast(rules, m)
    BY <1>2 DEF Unstopped
  <2>2. \A m \in here : m \in 1..(n - 1) <=> m < n
    BY <1>5
  <2>3. \A m \in here : GoesPast(rules, m) <=> ~table[m].gated /\ "stop" \notin table[m].actions
    BY <1>3, Zenon DEF GoesPast
  <2>. QED
    BY <2>1, <2>2, <2>3, Zenon
<1>7. Fired(rules, e, 1) = UntilGate(table, e)
  BY <1>2, <1>3, <1>4, <1>5, <1>6 DEF Fired
<1>. QED
  BY <1>7, RunFires DEF rules

(* which is all of it before the first gate, and nothing else beyond.        *)
LEMMA GatesApart ==
  ASSUME NEW table, DOMAIN table = 1..Names, NEW e
  PROVE  LET gates == {n \in Matching(table, e) : table[n].gated}
             plain == {n \in 1..Names : \A m \in gates : n < m}
         IN  /\ UntilGate(table, e) \cap plain = Ruled(table, e, {}) \cap plain
             /\ UntilGate(table, e) \subseteq Ruled(table, e, {}) \cup gates
<1>. DEFINE here == Matching(table, e)
            gates == {n \in here : table[n].gated}
            plain == {n \in 1..Names : \A m \in gates : n < m}
<1>0. Names \in Nat /\ here \subseteq 1..Names
  BY AutomationAssumption DEF Matching
<1>. HIDE DEF here
<1>1. Ruled(table, e, {}) = {n \in here : ~table[n].gated
                               /\ \A m \in here : m < n /\ ~table[m].gated => "stop" \notin table[m].actions}
  BY Zenon DEF Ruled, here
<1>2. UntilGate(table, e) \subseteq Ruled(table, e, {})
  BY <1>1 DEF UntilGate, here
<1>3. ASSUME NEW n \in plain, n \in Ruled(table, e, {}) PROVE n \in UntilGate(table, e)
  <2>1. \A m \in here : m < n => ~table[m].gated
    BY <1>0, <1>3
  <2>. QED
    BY <1>1, <1>3, <2>1 DEF UntilGate, here
<1>. QED
  BY <1>2, <1>3 DEF here

---------------------------------------------------------------------------

LEMMA AutoInitIInv == HandlersInit /\ RuleInit => AutoIInv
<1>. SUFFICES ASSUME HandlersInit, RuleInit PROVE AutoIInv
  OBVIOUS
<1>1. HandlersTypeOK
  BY HandlersAssumption DEF HandlersInit, HandlersTypeOK, Time
<1>2. automating = [p \in Proc |-> Unautomated] /\ \A p \in Proc : automating[p] = Unautomated
  BY DEF RuleInit
<1>3. AutoTyped
  <2>1. ruleTable = [n \in 1..Names |-> ruleTable[n]]
    BY AutomationAssumption DEF RuleInit
  <2>2. owed \in [Change -> Int]
    BY DEF RuleInit
  <2>3. memberRoles \subseteq RuleRoles
    BY DEF RuleInit
  <2>. QED
    BY <1>2, <2>1, <2>2, <2>3, UnautomatedIs DEF AutoTyped, Waits
<1>4. RulesFit
  BY <1>2, UnautomatedIs DEF RuleInit, RulesFit, CacheSound, RunsFit, RulesSound
<1>5. Numbering
  BY <1>2, UnautomatedIs DEF RuleInit, Numbering, Waits
<1>6. RolesTracked
  <2>. SUFFICES ASSUME OnTrack
                PROVE  /\ \A u \in (swapped + 1)..updates : \E p \in Proc : Waiting(p, u)
                       /\ \E h \in [0..updates -> SUBSET RuleRoles] : Remembers(h)
    BY DEF RolesTracked
  <2>1. updates = 0 /\ swapped = 0 /\ knownRoles = {} /\ memberRoles = {}
    BY Zenon DEF RuleInit, OnTrack
  <2>2. (swapped + 1)..updates = {}
    BY <2>1
  <2>. DEFINE h == [u \in 0..updates |-> {}]
  <2>3. h \in [0..updates -> SUBSET RuleRoles] /\ h[swapped] = {} /\ h[updates] = {}
    BY <2>1
  <2>. HIDE DEF h
  <2>4. \A c \in Change : Owes(h, c) = {}
    BY <2>2 DEF Owes
  <2>5. Remembers(h)
    BY <1>2, <2>1, <2>3, <2>4, UnautomatedIs, FS_EmptySet DEF Remembers, RuleInit, Waits
  <2>. QED
    BY <2>2, <2>3, <2>5
<1>. QED
  BY <1>1, <1>3, <1>4, <1>5, <1>6 DEF AutoIInv

LEMMA AutoMoved ==
  ASSUME AutoTyped, NEW p \in Proc, NEW y, Fields(y), automating' = [automating EXCEPT ![p] = y]
  PROVE  /\ automating' = [q \in Proc |-> automating'[q]] /\ \A q \in Proc : Fields(automating'[q])
         /\ automating'[p] = y /\ \A q \in Proc \ {p} : automating'[q] = automating[q]
<1>1. automating'[p] = y /\ \A q \in Proc \ {p} : automating'[q] = automating[q]
  BY DEF AutoTyped
<1>2. automating' = [q \in Proc |-> automating'[q]]
  BY DEF AutoTyped
<1>. QED
  BY <1>1, <1>2 DEF AutoTyped

(* Nobody begins or ends to wait with an update.                             *)
StandsAs(x, y) == \/ x.pc = y.pc /\ x.update = y.update /\ x.roles = y.roles
                  \/ x.pc \notin Waits /\ y.pc \notin Waits

LEMMA TrackRests ==
  ASSUME AutoTyped, Numbering, RolesTracked, \A q \in Proc : StandsAs(automating[q], automating'[q]), UNCHANGED roleVars
  PROVE  Numbering' /\ RolesTracked'
<1>. UNCHANGED <<memberRoles, knownRoles, owed, updates, swapped, misled>>
  BY DEF roleVars
<1>1. \A q \in Proc : /\ automating'[q].pc \in Waits <=> automating[q].pc \in Waits
                      /\ automating[q].pc \in Waits => /\ automating'[q].pc = automating[q].pc
                                                       /\ automating'[q].update = automating[q].update
                                                       /\ automating'[q].roles = automating[q].roles
  BY DEF StandsAs
<1>2. \A w \in Waits : \A q \in Proc : automating'[q].pc = w <=> automating[q].pc = w
  BY <1>1
<1>. "swap" \in Waits /\ "autorole" \in Waits
  BY DEF Waits
<1>3. Numbering'
  BY <1>1 DEF Numbering
<1>4. OnTrack' <=> OnTrack
  BY <1>1, <1>2 DEF OnTrack
<1>5. \A u : Swapping(u)' <=> Swapping(u)
  BY <1>1, <1>2 DEF Swapping
<1>6. \A q \in Proc : \A u : Waiting(q, u) => Waiting(q, u)'
  BY <1>1 DEF Waiting
<1>7. ASSUME NEW h, Remembers(h) PROVE Remembers(h)'
  <2>1. \A c : Owes(h, c)' = Owes(h, c)
    BY <1>5 DEF Owes
  <2>. QED
    BY <1>1, <1>2, <1>7, <2>1 DEF Remembers
<1>8. RolesTracked'
  BY <1>4, <1>6, <1>7 DEF RolesTracked
<1>. QED
  BY <1>3, <1>8

LEMMA RulesStand ==
  ASSUME AutoTyped, RulesFit, NEW p \in Proc, NEW y, Fields(y), automating' = [automating EXCEPT ![p] = y],
         UNCHANGED <<ruleTable, settled>>, RulesSound(y), CacheSound', RunsFit'
  PROVE  RulesFit'
<1>1. \A q \in Proc : automating'[q] = y \/ automating'[q] = automating[q]
  BY AutoMoved
<1>2. \A q \in Proc : RulesSound(automating'[q])
  BY <1>1, Zenon DEF RulesFit
<1>3. \A q \in Proc : RulesSound(automating[q])'
  BY <1>2 DEF RulesSound
<1>. QED
  BY <1>3 DEF RulesFit

LEMMA TypedStands ==
  ASSUME AutoTyped, NEW p \in Proc, NEW y, Fields(y), automating' = [automating EXCEPT ![p] = y],
         y.pc \in Waits \ {"swap"} => y.roles = {},
         ruleTable' = [n \in 1..Names |-> ruleTable'[n]], memberRoles' \subseteq RuleRoles, owed' \in [Change -> Int]
  PROVE  AutoTyped'
BY AutoMoved DEF AutoTyped

(* A goroutine on its way through the rules moves on.                        *)
LEMMA GoesOn ==
  ASSUME AutoIInv, HandlersTypeOK', NEW p \in Proc, NEW y, Fields(y), automating' = [automating EXCEPT ![p] = y],
         automating[p].pc \notin Waits, y.pc \notin Waits,
         UNCHANGED <<ruleTable, settled, roleVars>>, RulesSound(y), CacheSound', RunsFit'
  PROVE  AutoIInv'
<1>1. RulesFit'
  BY RulesStand DEF AutoIInv
<1>2. \A q \in Proc : StandsAs(automating[q], automating'[q])
  BY AutoMoved DEF StandsAs, AutoIInv
<1>3. Numbering' /\ RolesTracked'
  BY <1>2, TrackRests DEF AutoIInv
<1>4. AutoTyped'
  BY TypedStands DEF AutoIInv, AutoTyped, roleVars
<1>. QED
  BY <1>1, <1>3, <1>4 DEF AutoIInv

LEMMA PostSeen ==
  ASSUME AutoIInv, HandlersTypeOK', NEW p \in Proc, SeePost(p)
  PROVE  AutoIInv'
<1>1. PICK changes : automating' = [automating EXCEPT ![p] = Looks(p, changes)]
  BY DEF SeePost
<1>2. /\ Fields(Looks(p, changes)) /\ Looks(p, changes).pc \notin Waits /\ RulesSound(Looks(p, changes))
  BY LooksIs DEF RulesSound, Waits
<1>3. CacheSound' /\ RunsFit'
  BY DEF SeePost, AutoIInv, RulesFit, CacheSound, RunsFit
<1>4. automating[p].pc \notin Waits /\ UNCHANGED <<ruleTable, settled, roleVars>>
  BY DEF SeePost, Waits
<1>. HIDE DEF Looks
<1>. QED
  BY <1>1, <1>2, <1>3, <1>4, GoesOn

LEMMA RulesLookedUp ==
  ASSUME AutoIInv, HandlersTypeOK', NEW p \in Proc, LookForRules(p)
  PROVE  AutoIInv'
<1>. DEFINE it == automating[p]
            hit == FromCache(it, ruleCache.rules, it.sure /\ ~ruleCache.failed)
            miss == [it EXCEPT !.pc = "query"]
<1>1. Fields(it) /\ it.pc = "look" /\ RulesSound(it)
  BY DEF LookForRules, AutoIInv, AutoTyped, RulesFit
<1>2. CacheSound' /\ RunsFit' /\ CacheSound
  BY DEF LookForRules, AutoIInv, RulesFit, CacheSound, RunsFit
<1>3. automating[p].pc \notin Waits /\ UNCHANGED <<ruleTable, settled, roleVars>>
  BY <1>1 DEF LookForRules, Waits
<1>4. CASE Within(ruleCache.at, RuleTTL)
  <2>1. automating' = [automating EXCEPT ![p] = hit]
    BY <1>4, Zenon DEF LookForRules, FromCache
  <2>2. Fields(hit) /\ hit.pc = "run" /\ hit.rules = ruleCache.rules /\ (hit.sure => it.sure /\ ~ruleCache.failed)
    <3>1. PICK sure : sure = (it.sure /\ ~ruleCache.failed)
      BY Zenon
    <3>2. hit = FromCache(it, ruleCache.rules, sure)
      BY <3>1, Zenon
    <3>. HIDE DEF hit, it
    <3>3. Fields(hit) /\ hit.pc = "run" /\ hit.rules = ruleCache.rules /\ hit.sure = sure
      BY <1>1, <3>2, FromCacheIs
    <3>. QED
      BY <3>1, <3>3, Zenon
  <2>. HIDE DEF hit, it
  <2>6. ruleCache.at # Never
    BY <1>4 DEF Within
  <2>7. RulesSound(hit)
    BY <1>1, <1>2, <2>2, <2>6 DEF RulesSound, CacheSound
  <2>8. hit.pc \notin Waits
    BY <2>2 DEF Waits
  <2>. QED
    BY <1>2, <1>3, <2>1, <2>2, <2>7, <2>8, GoesOn
<1>5. CASE ~Within(ruleCache.at, RuleTTL)
  <2>1. automating' = [automating EXCEPT ![p] = miss]
    BY <1>5, Zenon DEF LookForRules
  <2>2. Fields(miss) /\ miss.pc = "query" /\ miss.sure = it.sure
    BY <1>1, PcSet
  <2>. HIDE DEF miss, it
  <2>3. RulesSound(miss) /\ miss.pc \notin Waits
    BY <1>1, <2>2 DEF RulesSound, Waits
  <2>. QED
    BY <1>2, <1>3, <2>1, <2>2, <2>3, GoesOn
<1>. QED
  BY <1>4, <1>5

LEMMA RulesQueried ==
  ASSUME AutoIInv, HandlersTypeOK', NEW p \in Proc, QueryRules(p)
  PROVE  AutoIInv'
<1>. DEFINE it == automating[p]
            full == [it EXCEPT !.pc = "fill"]
            got == [full EXCEPT !.rules = Enabled(ruleTable)]
            empty == [it EXCEPT !.pc = "fillNone"]
            none == [empty EXCEPT !.sure = FALSE]
<1>1. Fields(it) /\ it.pc = "query" /\ RulesSound(it)
  BY DEF QueryRules, AutoIInv, AutoTyped, RulesFit
<1>2. CacheSound' /\ RunsFit'
  BY DEF QueryRules, AutoIInv, RulesFit, CacheSound, RunsFit
<1>3. automating[p].pc \notin Waits /\ UNCHANGED <<ruleTable, settled, roleVars>>
  BY <1>1 DEF QueryRules, Waits
<1>4. automating' = [automating EXCEPT ![p] = got] \/ automating' = [automating EXCEPT ![p] = none]
  <2>1. CASE automating' = [automating EXCEPT ![p].pc = "fill", ![p].rules = Enabled(ruleTable)]
    BY <2>1 DEF AutoIInv, AutoTyped
  <2>2. CASE automating' = [automating EXCEPT ![p].pc = "fillNone", ![p].sure = FALSE]
    BY <2>2 DEF AutoIInv, AutoTyped
  <2>. QED
    BY <2>1, <2>2, Zenon DEF QueryRules, Enabled
<1>5. Fields(got) /\ got.pc = "fill" /\ got.rules = Enabled(ruleTable) /\ got.sure = it.sure
  <2>1. Fields(full) /\ full.pc = "fill" /\ full.sure = it.sure
    BY <1>1, PcSet
  <2>. HIDE DEF full
  <2>. QED
    BY <2>1, RulesSet, SMTT(30)
<1>6. Fields(none) /\ none.pc = "fillNone" /\ none.sure = FALSE
  <2>1. Fields(empty) /\ empty.pc = "fillNone"
    BY <1>1, PcSet
  <2>. HIDE DEF empty
  <2>. QED
    BY <2>1, SureSet
<1>. HIDE DEF it, got, none
<1>7. RulesSound(got) /\ got.pc \notin Waits
  BY <1>1, <1>5 DEF RulesSound, Waits
<1>8. RulesSound(none) /\ none.pc \notin Waits
  BY <1>6 DEF RulesSound, Waits
<1>9. CASE automating' = [automating EXCEPT ![p] = got]
  BY <1>2, <1>3, <1>5, <1>7, <1>9, GoesOn
<1>10. CASE automating' = [automating EXCEPT ![p] = none]
  BY <1>2, <1>3, <1>6, <1>8, <1>10, GoesOn
<1>. QED
  BY <1>4, <1>9, <1>10

LEMMA RulesFilled ==
  ASSUME AutoIInv, HandlersTypeOK', NEW p \in Proc, FillRules(p)
  PROVE  AutoIInv'
<1>. DEFINE it == automating[p]
            y == [it EXCEPT !.pc = "run"]
<1>1. Fields(it) /\ it.pc \in {"fill", "fillNone"} /\ RulesSound(it)
  BY DEF FillRules, AutoIInv, AutoTyped, RulesFit
<1>2. CacheSound' /\ RunsFit'
  <2>1. /\ ruleCache' = [rules |-> it.rules, failed |-> it.pc = "fillNone", at |-> now]
        /\ UNCHANGED <<ruleTable, settled, lastRun>>
    BY DEF FillRules
  <2>2. ruleCache'.rules = it.rules /\ (~ruleCache'.failed => it.pc = "fill")
    BY <1>1, <2>1
  <2>. QED
    BY <1>1, <2>1, <2>2 DEF CacheSound, RunsFit, RulesSound, AutoIInv, RulesFit
<1>3. it.pc \notin Waits /\ UNCHANGED <<ruleTable, settled, roleVars>>
  BY <1>1 DEF FillRules, Waits
<1>4. automating' = [automating EXCEPT ![p] = y]
  BY DEF FillRules
<1>5. Fields(y) /\ y.pc = "run" /\ y.rules = it.rules /\ y.sure = it.sure
  BY <1>1, PcSet
<1>. HIDE DEF y
<1>6. RulesSound(y) /\ y.pc \notin Waits
  BY <1>1, <1>5 DEF RulesSound, Waits
<1>. QED
  BY <1>2, <1>3, <1>4, <1>5, <1>6, GoesOn

LEMMA AutomationRun ==
  ASSUME AutoIInv, HandlersTypeOK', NEW p \in Proc, RunAutomation(p)
  PROVE  AutoIInv'
<1>. DEFINE it == automating[p]
            e == Head(it.events)
            table == ruleTable
<1>1. Fields(it) /\ it.pc = "run" /\ RulesSound(it) /\ table = [n \in 1..Names |-> table[n]]
  BY DEF RunAutomation, AutoIInv, AutoTyped, RulesFit
<1>2. RunsFit'
  <2>1. \A x \in lastRun' : it.sure /\ x = [event |-> e, table |-> table, fired |-> RunFrom(it.rules, e).fired]
    BY Zenon DEF RunAutomation
  <2>. HIDE DEF e
  <2>2. it.sure => RunFrom(it.rules, e).fired = UntilGate(table, e)
    <3>1. RunFrom(Enabled(table), e).fired = UntilGate(table, e)
      <4>. HIDE DEF table
      <4>. QED
        BY <1>1, EnabledRuled
    <3>. QED
      BY <1>1, <3>1 DEF RulesSound
  <2>3. DOMAIN table = 1..Names
    BY <1>1
  <2>. QED
    BY <2>1, <2>2, <2>3 DEF RunsFit
<1>3. CacheSound' /\ it.pc \notin Waits /\ UNCHANGED <<ruleTable, settled, roleVars>>
  BY <1>1 DEF RunAutomation, Waits, AutoIInv, RulesFit, CacheSound
<1>4. \/ automating' = [automating EXCEPT ![p] = Unautomated]
      \/ automating' = [automating EXCEPT ![p] = Looks(p, Tail(it.events))]
  BY Zenon DEF RunAutomation
<1>5. RulesSound(Unautomated) /\ Unautomated.pc \notin Waits /\ Fields(Unautomated)
  BY UnautomatedIs DEF RulesSound, Waits
<1>6. RulesSound(Looks(p, Tail(it.events))) /\ Looks(p, Tail(it.events)).pc \notin Waits /\ Fields(Looks(p, Tail(it.events)))
  BY LooksIs DEF RulesSound, Waits
<1>7. CASE automating' = [automating EXCEPT ![p] = Unautomated]
  BY <1>2, <1>3, <1>5, <1>7, GoesOn
<1>8. CASE automating' = [automating EXCEPT ![p] = Looks(p, Tail(it.events))]
  BY <1>2, <1>3, <1>6, <1>8, GoesOn
<1>. QED
  BY <1>4, <1>7, <1>8

(* A change of a rule makes nobody sure of anything.                         *)
LEMMA RuleSaved ==
  ASSUME AutoIInv, HandlersTypeOK', NEW p \in Proc, SaveRule(p)
  PROVE  AutoIInv'
<1>. DEFINE y == [Unautomated EXCEPT !.pc = "bust"]
            z(q) == [automating[q] EXCEPT !.sure = FALSE]
<1>1. Fields(y) /\ y.pc = "bust" /\ ~y.sure
  BY UnautomatedIs, PcSet
<1>2. \A q \in Proc : /\ Fields(z(q)) /\ z(q).pc = automating[q].pc /\ z(q).update = automating[q].update
                      /\ z(q).roles = automating[q].roles /\ ~z(q).sure
  <2>. SUFFICES ASSUME NEW q \in Proc
                PROVE  /\ Fields(z(q)) /\ z(q).pc = automating[q].pc /\ z(q).update = automating[q].update
                       /\ z(q).roles = automating[q].roles /\ ~z(q).sure
    BY Zenon
  <2>. DEFINE x == automating[q]
              w == [x EXCEPT !.sure = FALSE]
  <2>1. Fields(x)
    BY DEF AutoIInv, AutoTyped
  <2>2. Fields(w) /\ w.pc = x.pc /\ w.update = x.update /\ w.roles = x.roles /\ ~w.sure
    <3>. HIDE DEF x
    <3>. QED
      BY <2>1, SureSet
  <2>. QED
    BY <2>2
<1>3. automating' = [q \in Proc |-> IF q = p THEN y ELSE z(q)] /\ settled' = FALSE
  BY Zenon DEF SaveRule
<1>4. automating[p].pc = "idle" /\ UNCHANGED <<lastRun, roleVars>>
  BY DEF SaveRule
<1>5. ruleTable' = [n \in 1..Names |-> ruleTable'[n]]
  <2>1. PICK n \in 1..Names : \E r : ruleTable' = [ruleTable EXCEPT ![n] = r]
    BY DEF SaveRule
  <2>. QED
    BY <2>1 DEF AutoIInv, AutoTyped
<1>. HIDE DEF y, z
<1>6. \A q \in Proc : StandsAs(automating[q], automating'[q])
  BY <1>1, <1>2, <1>3, <1>4 DEF StandsAs, Waits
<1>7. Numbering' /\ RolesTracked'
  BY <1>4, <1>6, TrackRests DEF AutoIInv
<1>8. RulesFit'
  <2>1. \A q \in Proc : ~automating'[q].sure
    BY <1>1, <1>2, <1>3
  <2>. QED
    BY <1>3, <1>4, <2>1 DEF AutoIInv, RulesFit, CacheSound, RunsFit, RulesSound
<1>9. AutoTyped'
  <2>1. automating' = [q \in Proc |-> automating'[q]] /\ \A q \in Proc : Fields(automating'[q])
    BY <1>1, <1>2, <1>3
  <2>2. \A q \in Proc : automating'[q].pc \in Waits \ {"swap"} => automating'[q].roles = {}
    BY <1>1, <1>2, <1>3 DEF AutoIInv, AutoTyped, Waits
  <2>. QED
    BY <1>4, <1>5, <2>1, <2>2 DEF AutoIInv, AutoTyped, roleVars
<1>. QED
  BY <1>7, <1>8, <1>9 DEF AutoIInv

LEMMA RulesBusted ==
  ASSUME AutoIInv, HandlersTypeOK', NEW p \in Proc, BustRules(p)
  PROVE  AutoIInv'
<1>1. /\ automating' = [automating EXCEPT ![p] = Unautomated] /\ automating[p].pc = "bust"
      /\ UNCHANGED <<ruleTable, lastRun, roleVars>> /\ ruleCache'.at = Never
      /\ settled' => \A q \in Proc \ {p} : automating[q].pc \notin {"bust", "fill", "fillNone"}
  BY DEF BustRules, AutoIdle
<1>2. automating'[p] = Unautomated /\ \A q \in Proc \ {p} : automating'[q] = automating[q]
  BY <1>1, AutoMoved, UnautomatedIs DEF AutoIInv
<1>3. \A q \in Proc : StandsAs(automating[q], automating'[q])
  BY <1>1, <1>2, UnautomatedIs DEF StandsAs, Waits
<1>4. Numbering' /\ RolesTracked'
  BY <1>1, <1>3, TrackRests DEF AutoIInv
<1>5. ~settled /\ \A q \in Proc : ~automating'[q].sure
  BY <1>1, <1>2, UnautomatedIs DEF AutoIInv, RulesFit, RulesSound
<1>6. \A q \in Proc : RulesSound(automating[q])'
  BY <1>1, <1>2, <1>5, UnautomatedIs DEF RulesSound
<1>7. RulesFit'
  BY <1>1, <1>6 DEF AutoIInv, RulesFit, CacheSound, RunsFit
<1>8. AutoTyped'
  BY <1>1, UnautomatedIs, TypedStands DEF AutoIInv, AutoTyped, roleVars, Waits
<1>. QED
  BY <1>4, <1>7, <1>8 DEF AutoIInv

LEMMA TrackLost ==
  ASSUME AutoIInv, HandlersTypeOK', ForgetRoles \/ RuleRestart
  PROVE  AutoIInv'
<1>1. misled' /\ UNCHANGED <<ruleTable, lastRun, memberRoles, owed, updates, swapped>>
  BY DEF ForgetRoles, RuleRestart
<1>2. RolesTracked'
  BY <1>1 DEF RolesTracked, OnTrack
<1>3. CASE ForgetRoles
  <2>1. UNCHANGED <<automating, ruleCache, settled>>
    BY <1>3 DEF ForgetRoles
  <2>. QED
    BY <1>1, <1>2, <2>1 DEF AutoIInv, AutoTyped, Numbering, RulesFit, CacheSound, RunsFit, RulesSound
<1>4. CASE RuleRestart
  <2>1. /\ automating' = [p \in Proc |-> Unautomated] /\ \A p \in Proc : automating'[p] = Unautomated
        /\ ruleCache'.at = Never
    BY <1>4 DEF RuleRestart
  <2>2. RulesFit'
    BY <1>1, <2>1, UnautomatedIs DEF AutoIInv, RulesFit, CacheSound, RunsFit, RulesSound
  <2>3. Numbering' /\ AutoTyped'
    BY <1>1, <2>1, UnautomatedIs DEF AutoIInv, Numbering, AutoTyped, Waits
  <2>. QED
    BY <1>2, <2>2, <2>3 DEF AutoIInv
<1>. QED
  BY <1>3, <1>4

LEMMA AutoQuiet ==
  ASSUME AutoIInv, HandlersTypeOK', UNCHANGED ruleVars
  PROVE  AutoIInv'
<1>1. UNCHANGED <<ruleTable, ruleCache, automating, settled, lastRun, roleVars>>
  BY DEF ruleVars, roleVars
<1>2. Numbering' /\ RolesTracked'
  BY <1>1, TrackRests DEF AutoIInv, StandsAs
<1>3. RulesFit'
  BY <1>1 DEF AutoIInv, RulesFit, CacheSound, RunsFit, RulesSound
<1>. QED
  BY <1>1, <1>2, <1>3 DEF AutoIInv, AutoTyped, roleVars

---------------------------------------------------------------------------
(* The roles.  Handlers that stay as they are or, done with the autorole,    *)
(* come to prime.                                                            *)
ComesOn(x, y) == /\ y.update = x.update /\ y.roles = x.roles
                 /\ y.pc = x.pc \/ (x.pc = "autorole" /\ y.pc = "prime")

LEMMA OwesFinite ==
  ASSUME Numbering, NEW h, NEW c
  PROVE  IsFiniteSet(Owes(h, c)) /\ Cardinality(Owes(h, c)) \in Nat
<1>1. PICK a \in Int, b \in Int : a = swapped + 1 /\ b = updates
  BY DEF Numbering
<1>2. IsFiniteSet(a..b)
  BY FS_Interval
<1>3. Owes(h, c) \subseteq a..b
  BY <1>1 DEF Owes
<1>. QED
  BY <1>2, <1>3, FS_Subset, FS_CardinalityType

LEMMA OneMoreOrNot ==
  ASSUME NEW S, IsFiniteSet(S), NEW T, NEW n, n \notin S, NEW P \in BOOLEAN, T = S \cup (IF P THEN {n} ELSE {})
  PROVE  Cardinality(T) = Cardinality(S) + (IF P THEN 1 ELSE 0)
<1>1. CASE P
  <2>1. T = S \cup {n}
    BY <1>1
  <2>. QED
    BY <1>1, <2>1, FS_AddElement
<1>2. CASE ~P
  BY <1>2, FS_CardinalityType
<1>. QED
  BY <1>1, <1>2

LEMMA OneMoreUpdate ==
  ASSUME AutoTyped, Numbering, RolesTracked,
         NEW n, n = updates + 1, NEW a \in Proc, NEW pc \in Waits \ {"prime"}, NEW roles \in SUBSET RuleRoles,
         automating[a].pc \notin Waits,
         automating'[a].pc = pc, automating'[a].update = n, automating'[a].roles = roles,
         \A q \in Proc \ {a} : ComesOn(automating[q], automating'[q]),
         updates' = n, memberRoles' = roles, UNCHANGED <<knownRoles, swapped, misled>>,
         \A c \in Change : owed'[c] = owed[c] + (IF pc = "swap" /\ c \in Diff(memberRoles, roles) THEN 1 ELSE 0),
         pc = "autorole" => memberRoles = {}
  PROVE  Numbering' /\ RolesTracked'
<1>1. n \in Nat /\ n - 1 = updates /\ updates \in Nat /\ swapped \in Nat /\ swapped <= updates /\ 0 <= swapped
  BY DEF Numbering
<1>2. \A q \in Proc \ {a} : /\ automating'[q].pc \in Waits <=> automating[q].pc \in Waits
                            /\ automating'[q].update = automating[q].update
                            /\ automating'[q].roles = automating[q].roles
                            /\ automating'[q].pc = "swap" <=> automating[q].pc = "swap"
                            /\ automating'[q].pc = "autorole" => automating[q].pc = "autorole"
                            /\ automating[q].pc \in Waits \ {"autorole"} => automating'[q].pc \in Waits \ {"autorole"}
  BY DEF ComesOn, Waits
<1>3. \A q \in Proc \ {a} : automating[q].pc \in Waits =>
          /\ automating[q].update \in Nat /\ 1 <= automating[q].update /\ automating[q].update <= updates
          /\ automating[q].update - 1 \in Nat
  BY <1>1 DEF Numbering
<1>4. Numbering'
  BY <1>1, <1>2, <1>3 DEF Numbering
<1>5. RolesTracked'
  <2>. SUFFICES ASSUME OnTrack'
                PROVE  /\ \A u \in (swapped + 1)..n : \E q \in Proc : Waiting(q, u)'
                       /\ \E g \in [0..n -> SUBSET RuleRoles] : Remembers(g)'
    BY DEF RolesTracked
  <2>1. OnTrack
    BY <1>2 DEF OnTrack
  <2>2. \A u \in (swapped + 1)..n : \E q \in Proc : Waiting(q, u)'
    <3>1. \A u \in (swapped + 1)..updates : \E q \in Proc \ {a} : Waiting(q, u)
      BY <2>1 DEF RolesTracked, Waiting
    <3>2. \A u \in (swapped + 1)..updates : \E q \in Proc : Waiting(q, u)'
      BY <1>2, <3>1 DEF Waiting
    <3>3. \E q \in Proc : Waiting(q, n)'
      BY DEF Waiting
    <3>4. \A u \in (swapped + 1)..n : u \in (swapped + 1)..updates \/ u = n
      BY <1>1
    <3>. QED
      BY <3>2, <3>3, <3>4
  <2>3. PICK h \in [0..updates -> SUBSET RuleRoles] : Remembers(h)
    BY <2>1 DEF RolesTracked
  <2>. DEFINE g == [u \in 0..n |-> IF u = n THEN roles ELSE h[u]]
  <2>4. g \in [0..n -> SUBSET RuleRoles] /\ g[n] = roles /\ \A u \in 0..updates : g[u] = h[u]
    BY <1>1
  <2>. HIDE DEF g
  <2>5. g[swapped] = knownRoles /\ g[n] = roles
    BY <1>1, <2>3, <2>4 DEF Remembers
  <2>6. \A q \in Proc : automating'[q].pc \in Waits => g[automating'[q].update] = automating'[q].roles
    <3>1. \A q \in Proc \ {a} : automating'[q].pc \in Waits => g[automating'[q].update] = automating'[q].roles
      BY <1>1, <1>2, <1>3, <2>3, <2>4 DEF Remembers
    <3>. QED
      BY <2>5, <3>1
  <2>7. \A q \in Proc : automating'[q].pc = "autorole" => g[automating'[q].update - 1] = {}
    <3>1. ASSUME NEW q \in Proc \ {a}, automating'[q].pc = "autorole" PROVE g[automating'[q].update - 1] = {}
      <4>1. automating[q].pc = "autorole" /\ automating[q].pc \in Waits /\ automating'[q].update = automating[q].update
        BY <1>2, <3>1 DEF Waits
      <4>2. automating[q].update - 1 \in 0..updates
        BY <1>1, <1>3, <4>1
      <4>. QED
        BY <2>3, <2>4, <4>1, <4>2 DEF Remembers
    <3>2. pc = "autorole" => g[n - 1] = {}
      BY <1>1, <2>3, <2>4 DEF Remembers
    <3>. QED
      BY <3>1, <3>2
  <2>8. ASSUME NEW c \in Change PROVE owed'[c] = Cardinality(Owes(g, c)')
    <3>. DEFINE P == pc = "swap" /\ c \in Diff(memberRoles, roles)
    <3>1. n \notin Owes(h, c) /\ IsFiniteSet(Owes(h, c))
      <4>1. n \notin Owes(h, c)
        BY <1>1 DEF Owes
      <4>. QED
        BY <4>1, OwesFinite
    <3>2. \A u \in (swapped + 1)..updates : Swapping(u)' <=> Swapping(u)
      BY <1>1, <1>2 DEF Swapping, Waits
    <3>3. Swapping(n)' <=> pc = "swap"
      <4>1. \A q \in Proc \ {a} : automating'[q].pc = "swap" => automating'[q].update # n
        BY <1>1, <1>2, <1>3 DEF Waits
      <4>. QED
        BY <4>1 DEF Swapping
    <3>4. \A u \in (swapped + 1)..updates : g[u - 1] = h[u - 1] /\ g[u] = h[u]
      BY <1>1, <2>4
    <3>5. g[n - 1] = memberRoles /\ g[n] = roles
      BY <1>1, <2>3, <2>4 DEF Remembers
    <3>6. (swapped + 1)..n = ((swapped + 1)..updates) \cup {n}
      BY <1>1
    <3>7. Owes(g, c)' = {u \in (swapped + 1)..n : Swapping(u)' /\ c \in Diff(g[u - 1], g[u])}
      BY DEF Owes
    <3>8. Owes(g, c)' = Owes(h, c) \cup (IF P THEN {n} ELSE {})
      BY <3>2, <3>3, <3>4, <3>5, <3>6, <3>7 DEF Owes
    <3>9. P \in BOOLEAN
      OBVIOUS
    <3>10. Cardinality(Owes(g, c)') = Cardinality(Owes(h, c)) + (IF P THEN 1 ELSE 0)
      <4>. HIDE DEF P
      <4>. QED
        BY <3>1, <3>8, <3>9, OneMoreOrNot
    <3>. QED
      BY <2>3, <3>10 DEF Remembers
  <2>9. Remembers(g)'
    BY <2>5, <2>6, <2>7, <2>8 DEF Remembers
  <2>. QED
    BY <2>2, <2>4, <2>9
<1>. QED
  BY <1>4, <1>5

(* Who swaps in order raises what was owed for the update, and there was     *)
(* nothing to raise for those it passes over: they are joins.                *)
LEMMA SwapSettles ==
  ASSUME AutoTyped, Numbering, RolesTracked, NEW p \in Proc, automating[p].pc \in Waits \ {"autorole"},
         automating'[p].pc \notin Waits, \A q \in Proc \ {p} : automating'[q] = automating[q],
         knownRoles' = automating[p].roles, swapped' = automating[p].update,
         ~misled' => ~misled /\ swapped <= automating[p].update,
         UNCHANGED <<memberRoles, updates>>,
         \A c \in Change : owed'[c] = owed[c] - (IF automating[p].pc = "swap" /\ c \in Diff(knownRoles, automating[p].roles)
                                                 THEN 1 ELSE 0),
         owed \in [Change -> Int]
  PROVE  Numbering' /\ RolesTracked'
<1>. DEFINE w == automating[p].update
            roles == automating[p].roles
<1>1. w \in Nat /\ 1 <= w /\ w <= updates /\ w # swapped /\ updates \in Nat /\ swapped \in Nat
  BY DEF Numbering
<1>2. \A q \in Proc \ {p} : automating[q].pc \in Waits => automating[q].update # w
  BY DEF Numbering, Waits
<1>3. \A q \in Proc : automating'[q].pc \in Waits => q # p /\ automating[q].pc \in Waits /\ automating'[q] = automating[q]
  OBVIOUS
<1>. HIDE DEF w, roles
<1>. swapped' = w /\ knownRoles' = roles /\ automating[p].update = w /\ automating[p].roles = roles
  BY DEF w, roles
<1>4. Numbering'
  BY <1>1, <1>2, <1>3 DEF Numbering
<1>5. RolesTracked'
  <2>. SUFFICES ASSUME OnTrack'
                PROVE  /\ \A u \in (w + 1)..updates : \E q \in Proc : Waiting(q, u)'
                       /\ \E h \in [0..updates -> SUBSET RuleRoles] : Remembers(h)'
    BY DEF RolesTracked
  <2>1. ~misled /\ swapped < w
    BY <1>1 DEF OnTrack
  <2>2. \A q \in Proc \ {p} : automating[q].pc \in Waits /\ automating[q].pc # "autorole" => automating[q].update > w
    BY DEF OnTrack
  <2>3. OnTrack
    <3>1. \A q \in Proc \ {p} : automating[q].pc \in Waits => automating[q].update \in Nat
      BY DEF Numbering
    <3>. QED
      BY <1>1, <2>1, <2>2, <3>1 DEF OnTrack
  <2>4. \A u \in (swapped + 1)..updates : \E q \in Proc : Waiting(q, u)
    BY <2>3 DEF RolesTracked
  <2>5. PICK h \in [0..updates -> SUBSET RuleRoles] : Remembers(h)
    BY <2>3 DEF RolesTracked
  <2>6. \A u \in (w + 1)..updates : \E q \in Proc : Waiting(q, u)'
    <3>1. \A u \in (w + 1)..updates : u \in (swapped + 1)..updates /\ u # w
      BY <1>1, <2>1
    <3>2. \A u \in (w + 1)..updates : \E q \in Proc \ {p} : Waiting(q, u)
      BY <2>4, <3>1 DEF Waiting
    <3>. QED
      BY <3>2 DEF Waiting
  <2>7. h[w] = roles /\ h[updates] = memberRoles /\ h[swapped] = knownRoles
    BY <2>5 DEF Remembers
  <2>8. h[w - 1] = knownRoles
    <3>1. \A u \in (swapped + 1)..(w - 1) : h[u] = {} /\ h[u - 1] = {}
      <4>. SUFFICES ASSUME NEW u \in (swapped + 1)..(w - 1) PROVE h[u] = {} /\ h[u - 1] = {}
        OBVIOUS
      <4>1. u \in (swapped + 1)..updates /\ u \in Int /\ u < w
        BY <1>1, <2>1
      <4>2. PICK q \in Proc : Waiting(q, u)
        BY <2>4, <4>1
      <4>3. q # p /\ automating[q].pc \in Waits /\ automating[q].update = u
        BY <4>1, <4>2 DEF Waiting
      <4>4. automating[q].pc = "autorole"
        BY <1>1, <2>2, <4>1, <4>3
      <4>5. automating[q].roles = {}
        BY <4>4 DEF AutoTyped, Waits
      <4>. QED
        BY <2>5, <4>3, <4>4, <4>5 DEF Remembers
    <3>2. CASE w - 1 = swapped
      BY <2>7, <3>2
    <3>3. CASE w - 1 # swapped
      <4>1. w - 1 \in (swapped + 1)..(w - 1) /\ swapped + 1 \in (swapped + 1)..(w - 1) /\ (swapped + 1) - 1 = swapped
        BY <1>1, <2>1, <3>3
      <4>. QED
        BY <2>7, <3>1, <4>1
    <3>. QED
      BY <3>2, <3>3
  <2>9. ASSUME NEW c \in Change PROVE owed'[c] = Cardinality(Owes(h, c)')
    <3>. DEFINE P == automating[p].pc = "swap" /\ c \in Diff(knownRoles, roles)
    <3>1. Owes(h, c)' = {u \in (w + 1)..updates : Swapping(u)' /\ c \in Diff(h[u - 1], h[u])}
      BY DEF Owes
    <3>2. \A u \in (w + 1)..updates : Swapping(u)' <=> Swapping(u)
      <4>1. \A u \in (w + 1)..updates : u # w
        BY <1>1
      <4>. QED
        BY <4>1 DEF Swapping, Waits
    <3>3. \A u \in (swapped + 1)..(w - 1) : ~Swapping(u)
      BY <1>1, <2>2 DEF Swapping, Waits
    <3>4. Swapping(w) <=> automating[p].pc = "swap"
      BY <1>2 DEF Swapping, Waits
    <3>5. (swapped + 1)..updates = ((swapped + 1)..(w - 1)) \cup {w} \cup ((w + 1)..updates)
      BY <1>1, <2>1
    <3>6. Owes(h, c) = Owes(h, c)' \cup (IF P THEN {w} ELSE {})
      BY <2>7, <2>8, <3>1, <3>2, <3>3, <3>4, <3>5 DEF Owes
    <3>7. w \notin Owes(h, c)' /\ IsFiniteSet(Owes(h, c)') /\ Cardinality(Owes(h, c)') \in Nat
      <4>1. w \notin Owes(h, c)'
        BY <1>1, <3>1
      <4>2. Owes(h, c)' \subseteq Owes(h, c)
        BY <3>6
      <4>. QED
        BY <4>1, <4>2, OwesFinite, FS_Subset, FS_CardinalityType
    <3>8. P \in BOOLEAN
      OBVIOUS
    <3>9. Cardinality(Owes(h, c)) = Cardinality(Owes(h, c)') + (IF P THEN 1 ELSE 0)
      <4>. HIDE DEF P
      <4>. QED
        BY <3>6, <3>7, <3>8, OneMoreOrNot
    <3>10. owed[c] = Cardinality(Owes(h, c)) /\ owed'[c] = owed[c] - (IF P THEN 1 ELSE 0)
      BY <2>5 DEF Remembers
    <3>. QED
      BY <3>7, <3>9, <3>10
  <2>10. \A q \in Proc : /\ automating'[q].pc \in Waits => h[automating'[q].update] = automating'[q].roles
                         /\ automating'[q].pc = "autorole" => h[automating'[q].update - 1] = {}
    <3>1. \A q \in Proc : automating'[q].pc = "autorole" => automating'[q].pc \in Waits
      BY DEF Waits
    <3>. QED
      BY <1>3, <2>5, <3>1 DEF Remembers
  <2>11. Remembers(h)'
    BY <2>7, <2>9, <2>10 DEF Remembers
  <2>. QED
    BY <2>6, <2>11
<1>. QED
  BY <1>4, <1>5

(* The autorole is done with, or cannot be given.                            *)
LEMMA PrimesNext ==
  ASSUME AutoTyped, Numbering, RolesTracked, \A q \in Proc : ComesOn(automating[q], automating'[q]), UNCHANGED roleVars
  PROVE  Numbering' /\ RolesTracked'
<1>. UNCHANGED <<memberRoles, knownRoles, owed, updates, swapped, misled>>
  BY DEF roleVars
<1>1. \A q \in Proc : /\ automating'[q].pc \in Waits <=> automating[q].pc \in Waits
                      /\ automating'[q].update = automating[q].update
                      /\ automating'[q].roles = automating[q].roles
                      /\ automating'[q].pc = "swap" <=> automating[q].pc = "swap"
                      /\ automating'[q].pc = "autorole" => automating[q].pc = "autorole"
                      /\ automating[q].pc \in Waits \ {"autorole"} => automating'[q].pc \in Waits \ {"autorole"}
  BY DEF ComesOn, Waits
<1>2. Numbering'
  BY <1>1 DEF Numbering
<1>3. OnTrack' => OnTrack
  BY <1>1 DEF OnTrack
<1>4. \A u : Swapping(u)' <=> Swapping(u)
  BY <1>1 DEF Swapping
<1>5. \A q \in Proc : \A u : Waiting(q, u) => Waiting(q, u)'
  BY <1>1 DEF Waiting
<1>6. ASSUME NEW h, Remembers(h) PROVE Remembers(h)'
  <2>1. \A c : Owes(h, c)' = Owes(h, c)
    BY <1>4 DEF Owes
  <2>. QED
    BY <1>1, <1>6, <2>1 DEF Remembers
<1>7. RolesTracked'
  BY <1>3, <1>5, <1>6 DEF RolesTracked
<1>. QED
  BY <1>2, <1>7

LEMMA PlusIs ==
  ASSUME owed \in [Change -> Int], NEW changes, NEW k \in Int, owed' = Plus(changes, k)
  PROVE  /\ owed' \in [Change -> Int]
         /\ \A c \in Change : owed'[c] = owed[c] + (IF c \in changes THEN k ELSE 0)
BY DEF Plus

LEMMA UpdateBegins ==
  ASSUME AutoIInv, HandlersTypeOK', NEW p \in Proc, NEW pc \in Waits \ {"prime"}, NEW roles \in SUBSET RuleRoles,
         Numbered(p, pc, roles), owed' \in [Change -> Int],
         \A c \in Change : owed'[c] = owed[c] + (IF pc = "swap" /\ c \in Diff(memberRoles, roles) THEN 1 ELSE 0),
         pc # "swap" => roles = {}, pc = "autorole" => memberRoles = {}
  PROVE  AutoIInv'
<1>. DEFINE y == StartsAt(pc, updates + 1, roles)
<1>1. /\ automating[p].pc \notin Waits /\ updates' = updates + 1 /\ memberRoles' = roles
      /\ automating' = [automating EXCEPT ![p] = y]
      /\ UNCHANGED <<ruleTable, ruleCache, settled, lastRun, knownRoles, swapped, misled>>
  BY DEF Numbered, Waits, StartsAt
<1>2. Fields(y) /\ y.pc = pc /\ y.update = updates + 1 /\ y.roles = roles /\ ~y.sure
  BY NumberedIs
<1>. HIDE DEF y
<1>3. RulesSound(y)
  BY <1>2 DEF RulesSound, Waits
<1>4. AutoTyped /\ RulesFit /\ Numbering /\ RolesTracked
  BY DEF AutoIInv
<1>5. RulesFit'
  BY <1>1, <1>2, <1>3, <1>4, RulesStand DEF RulesFit, CacheSound, RunsFit
<1>6. AutoTyped'
  BY <1>1, <1>2, <1>4, TypedStands DEF AutoTyped
<1>7. Numbering' /\ RolesTracked'
  <2>1. automating'[p] = y /\ \A q \in Proc \ {p} : automating'[q] = automating[q]
    BY <1>1, <1>2, <1>4, AutoMoved
  <2>2. \A q \in Proc \ {p} : ComesOn(automating[q], automating'[q])
    BY <2>1 DEF ComesOn
  <2>3. PICK n : n = updates + 1
    OBVIOUS
  <2>. QED
    BY <1>1, <1>2, <1>4, <2>1, <2>2, <2>3, OneMoreUpdate
<1>. QED
  BY <1>5, <1>6, <1>7 DEF AutoIInv

LEMMA MemberChanges ==
  ASSUME AutoIInv, HandlersTypeOK', NEW p \in Proc, MemberUpdate(p) \/ MemberJoins(p) \/ MemberLeaves(p)
  PROVE  AutoIInv'
<1>. owed \in [Change -> Int]
  BY DEF AutoIInv, AutoTyped
<1>1. CASE MemberUpdate(p)
  <2>1. PICK roles \in SUBSET RuleRoles : Numbered(p, "swap", roles) /\ owed' = Plus(Diff(memberRoles, roles), 1)
    BY <1>1 DEF MemberUpdate
  <2>2. /\ owed' \in [Change -> Int]
        /\ \A c \in Change : owed'[c] = owed[c] + (IF c \in Diff(memberRoles, roles) THEN 1 ELSE 0)
    BY <2>1, PlusIs
  <2>. QED
    BY <2>1, <2>2, UpdateBegins DEF Waits
<1>2. CASE MemberJoins(p)
  <2>1. Numbered(p, "autorole", {}) /\ UNCHANGED owed /\ memberRoles = {}
    BY <1>2 DEF MemberJoins
  <2>2. \A c \in Change : owed'[c] = owed[c] + (IF "autorole" = "swap" /\ c \in Diff(memberRoles, {}) THEN 1 ELSE 0)
    BY <2>1
  <2>3. owed' \in [Change -> Int] /\ {} \in SUBSET RuleRoles /\ "autorole" \in Waits \ {"prime"} /\ "autorole" # "swap"
    BY <2>1 DEF Waits
  <2>. QED
    BY <2>1, <2>2, <2>3, UpdateBegins
<1>3. CASE MemberLeaves(p)
  <2>1. Numbered(p, "drop", {}) /\ UNCHANGED owed
    BY <1>3 DEF MemberLeaves
  <2>2. \A c \in Change : owed'[c] = owed[c] + (IF "drop" = "swap" /\ c \in Diff(memberRoles, {}) THEN 1 ELSE 0)
    BY <2>1
  <2>3. owed' \in [Change -> Int] /\ {} \in SUBSET RuleRoles /\ "drop" \in Waits \ {"prime"}
        /\ "drop" # "swap" /\ "drop" # "autorole"
    BY <2>1 DEF Waits
  <2>. QED
    BY <2>1, <2>2, <2>3, UpdateBegins
<1>. QED
  BY <1>1, <1>2, <1>3

LEMMA AutoroleGiven ==
  ASSUME AutoIInv, HandlersTypeOK', NEW p \in Proc, ApplyAutorole(p)
  PROVE  AutoIInv'
<1>. DEFINE it == automating[p]
            x == [it EXCEPT !.pc = "prime"]
<1>1. AutoTyped /\ RulesFit /\ Numbering /\ RolesTracked
  BY DEF AutoIInv
<1>2. Fields(it) /\ it.pc = "autorole" /\ RulesSound(it) /\ it.roles = {}
  BY <1>1 DEF ApplyAutorole, AutoTyped, RulesFit, Waits
<1>3. Fields(x) /\ x.pc = "prime" /\ x.update = it.update /\ x.roles = {} /\ x.sure = it.sure
  BY <1>2, PcSet
<1>4. UNCHANGED <<ruleTable, ruleCache, settled, lastRun, knownRoles, swapped, misled>>
  BY DEF ApplyAutorole
<1>. HIDE DEF x
<1>5. RulesSound(x) /\ ComesOn(it, x)
  BY <1>2, <1>3 DEF RulesSound, ComesOn
<1>6. CacheSound' /\ RunsFit'
  BY <1>1, <1>4 DEF RulesFit, CacheSound, RunsFit
<1>7. ASSUME automating' = [automating EXCEPT ![p] = x], UNCHANGED <<updates, memberRoles, owed>> PROVE AutoIInv'
  <2>1. RulesFit'
    BY <1>1, <1>3, <1>4, <1>5, <1>6, <1>7, RulesStand
  <2>2. AutoTyped'
    BY <1>1, <1>3, <1>4, <1>7, TypedStands DEF AutoTyped
  <2>3. \A q \in Proc : ComesOn(automating[q], automating'[q])
    BY <1>1, <1>3, <1>5, <1>7, AutoMoved DEF ComesOn
  <2>4. Numbering' /\ RolesTracked'
    BY <1>1, <1>4, <1>7, <2>3, PrimesNext DEF roleVars
  <2>. QED
    BY <2>1, <2>2, <2>4 DEF AutoIInv
<1>8. ASSUME NEW q \in Proc, automating[q].pc = "idle", NEW roles \in SUBSET RuleRoles, NEW y,
             y = StartsAt("swap", updates + 1, roles),
             automating' = [[automating EXCEPT ![p] = x] EXCEPT ![q] = y],
             updates' = updates + 1, memberRoles' = roles, owed' = Plus(Diff(memberRoles, roles), 1)
      PROVE  AutoIInv'
  <2>1. Fields(y) /\ y.pc = "swap" /\ y.update = updates + 1 /\ y.roles = roles /\ ~y.sure
    BY <1>8, NumberedIs
  <2>2. q # p /\ automating'[p] = x /\ automating'[q] = y /\ \A r \in Proc \ {p, q} : automating'[r] = automating[r]
    BY <1>1, <1>2, <1>8 DEF AutoTyped
  <2>3. automating' = [r \in Proc |-> automating'[r]] /\ \A r \in Proc : Fields(automating'[r])
    BY <1>1, <1>3, <1>8, <2>1, <2>2 DEF AutoTyped
  <2>4. RulesSound(y)
    BY <2>1 DEF RulesSound
  <2>5. \A r \in Proc : RulesSound(automating'[r])
    BY <1>1, <1>5, <2>2, <2>4, Zenon DEF RulesFit
  <2>6. RulesFit'
    BY <1>4, <1>6, <2>5 DEF RulesFit, RulesSound
  <2>7. /\ owed' \in [Change -> Int]
        /\ \A c \in Change : owed'[c] = owed[c] + (IF c \in Diff(memberRoles, roles) THEN 1 ELSE 0)
    BY <1>1, <1>8, PlusIs DEF AutoTyped
  <2>8. AutoTyped'
    BY <1>1, <1>3, <1>4, <1>8, <2>1, <2>2, <2>3, <2>7 DEF AutoTyped
  <2>9. Numbering' /\ RolesTracked'
    <3>1. \A r \in Proc \ {q} : ComesOn(automating[r], automating'[r])
      BY <1>5, <2>2 DEF ComesOn
    <3>2. automating[q].pc \notin Waits
      BY <1>8 DEF Waits
    <3>4. PICK pc \in Waits \ {"prime"} : pc = "swap" /\ pc # "autorole"
      BY DEF Waits
    <3>3. PICK n : n = updates + 1
      OBVIOUS
    <3>5. \A c \in Change : owed'[c] = owed[c] + (IF pc = "swap" /\ c \in Diff(memberRoles, roles) THEN 1 ELSE 0)
      BY <2>7, <3>4
    <3>6. /\ automating'[q].pc = pc /\ automating'[q].update = n /\ automating'[q].roles = roles
          /\ updates' = n /\ memberRoles' = roles
      BY <1>8, <2>1, <2>2, <3>3, <3>4
    <3>. QED
      BY <1>1, <1>4, <3>1, <3>2, <3>3, <3>4, <3>5, <3>6, OneMoreUpdate
  <2>. QED
    BY <2>6, <2>8, <2>9 DEF AutoIInv
<1>9. \/ automating' = [automating EXCEPT ![p].pc = "prime"] /\ UNCHANGED <<updates, memberRoles, owed>>
      \/ \E q \in Proc :
             /\ AutoRole # NoRole /\ automating[q].pc = "idle"
             /\ updates' = updates + 1
             /\ memberRoles' = memberRoles \cup {AutoRole}
             /\ owed' = Plus(Diff(memberRoles, memberRoles'), 1)
             /\ automating' = [automating EXCEPT ![p].pc = "prime", ![q] =
                   [Unautomated EXCEPT !.pc = "swap", !.update = updates + 1, !.roles = memberRoles']]
  BY Zenon DEF ApplyAutorole
<1>10. CASE automating' = [automating EXCEPT ![p].pc = "prime"] /\ UNCHANGED <<updates, memberRoles, owed>>
  <2>1. automating' = [automating EXCEPT ![p] = x]
    BY <1>10 DEF x
  <2>. QED
    BY <1>7, <1>10, <2>1
<1>11. ASSUME NEW q \in Proc,
             AutoRole # NoRole, automating[q].pc = "idle",
             updates' = updates + 1, memberRoles' = memberRoles \cup {AutoRole},
             owed' = Plus(Diff(memberRoles, memberRoles'), 1),
             automating' = [automating EXCEPT ![p].pc = "prime", ![q] =
                   [Unautomated EXCEPT !.pc = "swap", !.update = updates + 1, !.roles = memberRoles']]
       PROVE AutoIInv'
  <2>1. memberRoles' \in SUBSET RuleRoles
    BY <1>1, <1>11, AutomationAssumption DEF AutoTyped
  <2>2. PICK roles \in SUBSET RuleRoles : roles = memberRoles'
    BY <2>1
  <2>3. PICK y : y = StartsAt("swap", updates + 1, roles)
    OBVIOUS
  <2>4. automating' = [[automating EXCEPT ![p] = x] EXCEPT ![q] = y]
    BY <1>11, <2>2, <2>3 DEF x, StartsAt
  <2>. QED
    BY <1>8, <1>11, <2>2, <2>3, <2>4
<1>. QED
  BY <1>9, <1>10, <1>11

(* Whoever has waited takes the update in.                                   *)
LEMMA UpdateEnds ==
  ASSUME AutoIInv, HandlersTypeOK', NEW p \in Proc, automating[p].pc \in Waits \ {"autorole"},
         SwapRoles(p, automating[p].roles),
         NEW y, Fields(y), y.pc \notin Waits, RulesSound(y), automating' = [automating EXCEPT ![p] = y],
         owed' \in [Change -> Int],
         \A c \in Change : owed'[c] = owed[c] - (IF automating[p].pc = "swap" /\ c \in Diff(knownRoles, automating[p].roles)
                                                 THEN 1 ELSE 0)
  PROVE  AutoIInv'
<1>1. AutoTyped /\ RulesFit /\ Numbering /\ RolesTracked
  BY DEF AutoIInv
<1>2. /\ knownRoles' = automating[p].roles /\ swapped' = automating[p].update
      /\ UNCHANGED <<ruleTable, ruleCache, settled, lastRun, memberRoles, updates>>
  BY DEF SwapRoles
<1>3. ~misled' => ~misled /\ swapped <= automating[p].update
  <2>1. ~misled' => ~misled /\ ~(automating[p].update < swapped)
    BY Zenon DEF SwapRoles
  <2>2. automating[p].update \in Nat /\ swapped \in Nat
    BY <1>1 DEF Numbering
  <2>. QED
    BY <2>1, <2>2
<1>4. RulesFit'
  BY <1>1, <1>2, RulesStand DEF RulesFit, CacheSound, RunsFit
<1>5. AutoTyped'
  BY <1>1, <1>2, TypedStands DEF AutoTyped
<1>6. automating'[p] = y /\ \A q \in Proc \ {p} : automating'[q] = automating[q]
  BY <1>1, AutoMoved
<1>7. Numbering' /\ RolesTracked'
  BY <1>1, <1>2, <1>3, <1>6, SwapSettles DEF AutoTyped
<1>. QED
  BY <1>4, <1>5, <1>7 DEF AutoIInv

LEMMA LooksSound == \A p, changes : /\ Fields(Looks(p, changes)) /\ RulesSound(Looks(p, changes))
                                   /\ Looks(p, changes).pc \notin Waits
BY LooksIs DEF RulesSound, Waits

LEMMA RolesTakenIn ==
  ASSUME AutoIInv, HandlersTypeOK', NEW p \in Proc, UpdateRoles(p) \/ PrimeRoles(p) \/ DropRoles(p)
  PROVE  AutoIInv'
<1>. DEFINE it == automating[p]
<1>. owed \in [Change -> Int] /\ AutoTyped
  BY DEF AutoIInv, AutoTyped
<1>1. CASE UpdateRoles(p)
  <2>1. it.pc = "swap" /\ SwapRoles(p, it.roles) /\ owed' = Plus(Diff(knownRoles, it.roles), -1)
    BY <1>1 DEF UpdateRoles, RolesFromUpdate
  <2>2. \/ automating' = [automating EXCEPT ![p] = Unautomated]
        \/ \E changes : automating' = [automating EXCEPT ![p] = Looks(p, changes)]
    BY <1>1, Zenon DEF UpdateRoles, AutoIdle
  <2>3. /\ owed' \in [Change -> Int]
        /\ \A c \in Change : owed'[c] = owed[c] - (IF it.pc = "swap" /\ c \in Diff(knownRoles, it.roles) THEN 1 ELSE 0)
    <3>1. /\ owed' \in [Change -> Int]
          /\ \A c \in Change : owed'[c] = owed[c] + (IF c \in Diff(knownRoles, it.roles) THEN -1 ELSE 0)
      BY <2>1, PlusIs
    <3>2. \A c \in Change : owed[c] \in Int
      OBVIOUS
    <3>. QED
      BY <2>1, <3>1, <3>2
  <2>4. \E y : Fields(y) /\ y.pc \notin Waits /\ RulesSound(y) /\ automating' = [automating EXCEPT ![p] = y]
    <3>1. Fields(Unautomated) /\ Unautomated.pc \notin Waits /\ RulesSound(Unautomated)
      BY UnautomatedIs DEF RulesSound, Waits
    <3>. QED
      BY <2>2, <3>1, LooksSound
  <2>. QED
    BY <2>1, <2>3, <2>4, UpdateEnds DEF Waits
<1>2. CASE PrimeRoles(p) \/ DropRoles(p)
  <2>1. it.pc \in {"prime", "drop"} /\ SwapRoles(p, {}) /\ UNCHANGED owed
        /\ \E changes : automating' = [automating EXCEPT ![p] = Looks(p, changes)]
    BY <1>2 DEF PrimeRoles, DropRoles
  <2>2. it.roles = {}
    BY <2>1 DEF AutoTyped, Waits
  <2>3. \A c \in Change : owed'[c] = owed[c] - (IF it.pc = "swap" /\ c \in Diff(knownRoles, it.roles) THEN 1 ELSE 0)
    BY <2>1
  <2>4. \E y : Fields(y) /\ y.pc \notin Waits /\ RulesSound(y) /\ automating' = [automating EXCEPT ![p] = y]
    BY <2>1, LooksSound
  <2>. QED
    BY <2>1, <2>2, <2>3, <2>4, UpdateEnds DEF Waits
<1>. QED
  BY <1>1, <1>2

---------------------------------------------------------------------------
LEMMA AutoEnv ==
  ASSUME [RuleNext]_<<env, ruleVars>>
  PROVE  Called \/ Fault \/ Passes \/ UNCHANGED env
BY DEF RuleNext, SeePost, MemberUpdate, MemberJoins, MemberLeaves, ApplyAutorole, UpdateRoles, PrimeRoles, DropRoles,
       LookForRules, QueryRules, FillRules, RunAutomation, SaveRule, BustRules, ForgetRoles, RuleTick, RuleRestart

LEMMA AutoNextIInv == AutoIInv /\ [RuleNext]_<<env, ruleVars>> => AutoIInv'
<1>. SUFFICES ASSUME AutoIInv, [RuleNext]_<<env, ruleVars>> PROVE AutoIInv'
  OBVIOUS
<1>1. HandlersTypeOK'
  BY AutoEnv, EnvTypes DEF AutoIInv
<1>2. CASE \E p \in Proc : SeePost(p) \/ MemberUpdate(p) \/ MemberJoins(p) \/ MemberLeaves(p)
                          \/ ApplyAutorole(p) \/ UpdateRoles(p) \/ PrimeRoles(p) \/ DropRoles(p)
  BY <1>1, <1>2, PostSeen, MemberChanges, AutoroleGiven, RolesTakenIn
<1>3. CASE \E p \in Proc : LookForRules(p) \/ QueryRules(p) \/ FillRules(p) \/ RunAutomation(p)
                          \/ SaveRule(p) \/ BustRules(p)
  BY <1>1, <1>3, RulesLookedUp, RulesQueried, RulesFilled, AutomationRun, RuleSaved, RulesBusted
<1>4. CASE ForgetRoles \/ RuleRestart
  BY <1>1, <1>4, TrackLost
<1>5. CASE RuleTick \/ UNCHANGED <<env, ruleVars>>
  BY <1>1, <1>5, AutoQuiet DEF RuleTick
<1>. QED
  BY <1>2, <1>3, <1>4, <1>5 DEF RuleNext

LEMMA RulesRunThen == AutoIInv => RulesRun
<1>. SUFFICES ASSUME AutoIInv PROVE RulesRun
  OBVIOUS
<1>1. \A x \in lastRun : DOMAIN x.table = 1..Names /\ x.fired = UntilGate(x.table, x.event)
  BY DEF AutoIInv, RulesFit, RunsFit
<1>3. \A x \in lastRun : LET here == Matching(x.table, x.event)
                            gates == {n \in here : x.table[n].gated}
                            plain == {n \in 1..Names : \A m \in gates : n < m}
                        IN  /\ x.fired \cap plain = Ruled(x.table, x.event, {}) \cap plain
                            /\ x.fired \subseteq Ruled(x.table, x.event, {}) \cup gates
  BY <1>1, GatesApart
<1>2. ASSUME ~misled, \A p \in Proc : automating[p].pc \notin {"swap", "prime", "drop"}, NEW c \in Change
      PROVE  owed[c] = 0
  <2>1. OnTrack
    BY <1>2 DEF OnTrack, Waits
  <2>2. PICK h : Remembers(h)
    BY <2>1 DEF AutoIInv, RolesTracked
  <2>3. Owes(h, c) = {}
    BY <1>2 DEF Owes, Swapping
  <2>. QED
    BY <2>2, <2>3, FS_EmptySet DEF Remembers
<1>. QED
  BY <1>2, <1>3 DEF RulesRun

(* An event is met by the rules of the table, in their order, unless a       *)
(* change of them was under way; and what came and went is owed nothing once *)
(* every update is taken in, unless they were out of order.                  *)
THEOREM AutomationRulesRun == RuleSpec => []RulesRun
<1>1. AutoIInv => RulesRun
  BY RulesRunThen
<1>. QED
  BY <1>1, AutoInitIInv, AutoNextIInv, PTL DEF RuleSpec

---------------------------------------------------------------------------
(* Polls: for any votes, ends and failures a poll stays in the registry    *)
(* until its end or until sooner ones crowd it out, and what the message   *)
(* shows is what was voted, as long as nothing has crossed or failed.      *)
PollType == [ends : Nat, votes : Ballots, shown : Ballots]
PollingType == [pc : {"idle", "post", "create", "render", "edit", "end"},
                poll : Nat, ends : Nat, read : Ballots]
PollReasons == {"crossed", "refused", "restart"}

PollsTyped ==
    /\ polls \in Seq(PollType)
    /\ active \subseteq opened /\ opened \subseteq DOMAIN polls
    /\ polling \in [Proc -> PollingType]
    /\ pollDoubt \in [DOMAIN polls -> SUBSET PollReasons]

(* A goroutine that has a poll has one that was posted; one that takes a     *)
(* poll out has found it ended.                                              *)
PollNamed ==
    \A p \in Proc : LET it == polling[p] IN
        /\ it.pc \in {"create", "render", "edit", "end"} => it.poll \in DOMAIN polls
        /\ it.pc = "end" => now > polls[it.poll].ends

(* As long as nothing has crossed or failed, one goroutine at most is at     *)
(* work on the message, and what it has read is what the votes are.          *)
PollQuiet(i) ==
    /\ \A p, q \in Showing(i) : p = q
    /\ \A p \in Showing(i) : polling[p].read = polls[i].votes
    /\ Showing(i) = {} => polls[i].shown = polls[i].votes

NotSooner(i) == {j \in opened \ {i} : polls[j].ends >= polls[i].ends}
PollMadeRoom(i) == now <= polls[i].ends => Cardinality(NotSooner(i)) + 1 >= MaxActive

PollsIInv ==
    /\ HandlersTypeOK /\ PollsTyped /\ PollNamed
    /\ Cardinality(active) <= MaxActive
    /\ \A i \in DOMAIN polls : pollDoubt[i] = {} => PollQuiet(i)
    /\ \A i \in opened \ active : PollMadeRoom(i)


---------------------------------------------------------------------------
LEMMA UnpolledTyped == Unpolled \in PollingType /\ Unpolled.pc = "idle" /\ NoVotes \in Ballots
BY DEF Unpolled, PollingType, NoVotes, Ballots

LEMMA PollsInitIInv == HandlersInit /\ PollsInit => PollsIInv
<1>. SUFFICES ASSUME HandlersInit, PollsInit PROVE PollsIInv
  OBVIOUS
<1>1. HandlersTypeOK
  BY HandlersAssumption DEF HandlersInit, HandlersTypeOK, Time
<1>2. polls = <<>> /\ pollDoubt = <<>> /\ DOMAIN polls = {} /\ active = {} /\ opened = {}
  BY DEF PollsInit
<1>3. polling \in [Proc -> PollingType] /\ \A p \in Proc : polling[p].pc = "idle"
  BY UnpolledTyped DEF PollsInit
<1>4. pollDoubt \in [DOMAIN polls -> SUBSET PollReasons] /\ polls \in Seq(PollType)
  BY <1>2
<1>5. Cardinality(active) <= MaxActive
  BY <1>2, FS_EmptySet, PollsAssumption
<1>. QED
  BY <1>1, <1>2, <1>3, <1>4, <1>5 DEF PollsIInv, PollsTyped, PollNamed

---------------------------------------------------------------------------
LEMMA PollsEnv ==
  ASSUME [PollsNext]_<<env, pollVars>>
  PROVE  Called \/ Fault \/ Passes \/ UNCHANGED env
BY DEF PollsNext, StartPoll, PostPoll, CreatePoll, PollVote, EndPoll, RenderPoll, EditPollMessage,
       PollTick, PollRestart, env

LEMMA PollsFinite ==
  ASSUME PollsTyped
  PROVE  /\ Len(polls) \in Nat /\ DOMAIN polls = 1..Len(polls)
         /\ IsFiniteSet(opened) /\ IsFiniteSet(active)
         /\ Cardinality(active) \in Nat
         /\ \A i \in DOMAIN polls : polls[i] \in PollType /\ polls[i].ends \in Nat
         /\ \A i : IsFiniteSet(NotSooner(i)) /\ Cardinality(NotSooner(i)) \in Nat
<1>1. Len(polls) \in Nat /\ DOMAIN polls = 1..Len(polls)
  BY DEF PollsTyped
<1>2. IsFiniteSet(1..Len(polls))
  BY <1>1, FS_Interval
<1>3. IsFiniteSet(opened) /\ IsFiniteSet(active)
  BY <1>1, <1>2, FS_Subset DEF PollsTyped
<1>4. \A i : NotSooner(i) \subseteq opened
  BY DEF NotSooner
<1>5. \A i \in DOMAIN polls : polls[i] \in PollType
  BY <1>1 DEF PollsTyped
<1>. QED
  BY <1>1, <1>3, <1>4, <1>5, FS_Subset, FS_CardinalityType DEF PollType

LEMMA OneMore ==
  ASSUME NEW S, IsFiniteSet(S), NEW x
  PROVE  Cardinality(S \cup {x}) \in Nat /\ Cardinality(S \cup {x}) <= Cardinality(S) + 1
<1>1. Cardinality(S) \in Nat
  BY FS_CardinalityType
<1>2. Cardinality(S \cup {x}) = IF x \in S THEN Cardinality(S) ELSE Cardinality(S) + 1
  BY FS_AddElement
<1>. QED
  BY <1>1, <1>2

(* Room once made stays made.                                                *)
LEMMA RoomStays ==
  ASSUME PollsTyped, PollsTyped', now \in Nat, now' \in Nat, now <= now',
         opened \subseteq opened', \A j \in DOMAIN polls : polls'[j].ends = polls[j].ends,
         NEW i \in opened, PollMadeRoom(i)
  PROVE  PollMadeRoom(i)'
<1>1. NotSooner(i) \subseteq NotSooner(i)'
  BY DEF NotSooner, PollsTyped
<1>2. Cardinality(NotSooner(i)) <= Cardinality(NotSooner(i)') /\ Cardinality(NotSooner(i)') \in Nat
  <2>1. IsFiniteSet(NotSooner(i)')
    <3>1. NotSooner(i)' \subseteq opened'
      BY DEF NotSooner
    <3>2. IsFiniteSet(1..Len(polls')) /\ opened' \subseteq 1..Len(polls')
      <4>1. Len(polls') \in Nat /\ DOMAIN polls' = 1..Len(polls')
        BY DEF PollsTyped
      <4>. SUFFICES ASSUME NEW m \in Nat, Len(polls') = m, DOMAIN polls' = 1..m
                    PROVE  IsFiniteSet(1..Len(polls')) /\ opened' \subseteq 1..Len(polls')
        BY <4>1
      <4>2. IsFiniteSet(1..m)
        BY FS_Interval
      <4>3. opened' \subseteq 1..m
        BY DEF PollsTyped
      <4>. QED
        BY <4>2, <4>3
    <3>. QED
      BY <3>1, <3>2, FS_Subset
  <2>. QED
    BY <1>1, <2>1, FS_Subset, FS_CardinalityType
<1>3. Cardinality(NotSooner(i)) \in Nat /\ MaxActive \in Nat /\ i \in DOMAIN polls /\ polls[i].ends \in Nat
  BY PollsFinite, PollsAssumption DEF PollsTyped
<1>. QED
  BY <1>2, <1>3 DEF PollMadeRoom

(* A step that leaves a poll and those at work on its message alone.         *)
LEMMA PollQuietStays ==
  ASSUME NEW i, polls'[i].votes = polls[i].votes, polls'[i].shown = polls[i].shown,
         \A p \in Proc : (p \in Showing(i)' <=> p \in Showing(i)),
         \A p \in Showing(i) : polling'[p].read = polling[p].read,
         PollQuiet(i)
  PROVE  PollQuiet(i)'
<1>1. Showing(i)' = Showing(i)
  BY DEF Showing
<1>. QED
  BY <1>1 DEF PollQuiet

(* Steps of one goroutine on no poll's message that change no poll.          *)
LEMMA ElsewhereKeeps ==
  ASSUME PollsIInv, PollsTyped', HandlersTypeOK', now \in Nat, now' \in Nat, now <= now',
         polls' = polls, pollDoubt' = pollDoubt, NEW p \in Proc,
         \A q \in Proc \ {p} : polling'[q] = polling[q],
         polling[p].pc \notin {"render", "edit"}, polling'[p].pc \notin {"render", "edit"}
  PROVE  \A i \in DOMAIN polls' : pollDoubt'[i] = {} => PollQuiet(i)'
<1>. SUFFICES ASSUME NEW i \in DOMAIN polls, pollDoubt[i] = {} PROVE PollQuiet(i)'
  OBVIOUS
<1>1. \A q \in Proc : (q \in Showing(i)' <=> q \in Showing(i)) /\ (q \in Showing(i) => polling'[q] = polling[q])
  BY DEF Showing
<1>2. PollQuiet(i)
  BY DEF PollsIInv
<1>. QED
  BY <1>1, <1>2, PollQuietStays DEF Showing

---------------------------------------------------------------------------
(* One lemma per action.                                                     *)

LEMMA StartKeeps ==
  ASSUME PollsIInv, HandlersTypeOK', now \in Nat, now' \in Nat, now <= now', NEW p \in Proc, StartPoll(p)
  PROVE  PollsIInv'
<1>1. PICK d \in Lasts : polling' = [polling EXCEPT ![p] = [Unpolled EXCEPT !.pc = "post", !.ends = now + d]]
  BY DEF StartPoll
<1>2. UNCHANGED <<polls, active, opened, pollDoubt>> /\ now' = now /\ polling[p].pc = "idle"
  BY DEF StartPoll, Called
<1>3. d \in Nat /\ now + d \in Nat
  BY PollsAssumption
<1>4. [Unpolled EXCEPT !.pc = "post", !.ends = now + d] \in PollingType
  BY <1>3, UnpolledTyped DEF PollingType
<1>5. PollsTyped'
  BY <1>1, <1>2, <1>4 DEF PollsIInv, PollsTyped
<1>6. polling'[p].pc = "post" /\ \A q \in Proc \ {p} : polling'[q] = polling[q]
  BY <1>1 DEF PollsIInv, PollsTyped, Unpolled
<1>7. PollNamed'
  BY <1>2, <1>6 DEF PollsIInv, PollNamed
<1>8. \A i \in DOMAIN polls' : pollDoubt'[i] = {} => PollQuiet(i)'
  BY <1>2, <1>5, <1>6, ElsewhereKeeps
<1>9. \A i \in opened' \ active' : PollMadeRoom(i)'
  BY <1>2, <1>5, RoomStays DEF PollsIInv
<1>. QED
  BY <1>2, <1>5, <1>7, <1>8, <1>9 DEF PollsIInv

LEMMA PostKeeps ==
  ASSUME PollsIInv, HandlersTypeOK', now \in Nat, now' \in Nat, now <= now', NEW p \in Proc, PostPoll(p)
  PROVE  PollsIInv'
<1>1. polling[p].pc = "post" /\ active' = active /\ opened' = opened /\ now' = now
  BY DEF PostPoll, env, Fault
<1>2. CASE PollIdle(p) /\ UNCHANGED <<polls, pollDoubt>>
  <2>1. polling'[p].pc = "idle" /\ \A q \in Proc \ {p} : polling'[q] = polling[q]
    BY <1>2, UnpolledTyped DEF PollIdle, PollsIInv, PollsTyped
  <2>2. PollsTyped'
    BY <1>1, <1>2, UnpolledTyped DEF PollIdle, PollsIInv, PollsTyped
  <2>3. PollNamed'
    BY <1>1, <1>2, <2>1 DEF PollsIInv, PollNamed
  <2>4. \A i \in DOMAIN polls' : pollDoubt'[i] = {} => PollQuiet(i)'
    BY <1>1, <1>2, <2>1, <2>2, ElsewhereKeeps
  <2>5. \A i \in opened' \ active' : PollMadeRoom(i)'
    BY <1>1, <1>2, <2>2, RoomStays DEF PollsIInv
  <2>. QED
    BY <1>1, <2>2, <2>3, <2>4, <2>5 DEF PollsIInv
<1>3. CASE /\ polls' = Append(polls, [ends |-> polling[p].ends, votes |-> NoVotes, shown |-> NoVotes])
           /\ pollDoubt' = Append(pollDoubt, {})
           /\ polling' = [polling EXCEPT ![p].pc = "create", ![p].poll = Len(polls) + 1]
  <2>. DEFINE new == [ends |-> polling[p].ends, votes |-> NoVotes, shown |-> NoVotes]
              n == Len(polls) + 1
  <2>1. new \in PollType /\ new.votes = new.shown
    BY UnpolledTyped DEF PollType, PollsIInv, PollsTyped, PollingType
  <2>. HIDE DEF new
  <2>2. /\ polls \in Seq(PollType) /\ Len(polls) \in Nat /\ DOMAIN polls = 1..Len(polls)
        /\ n \in Nat /\ n \notin DOMAIN polls
    BY DEF PollsIInv, PollsTyped
  <2>3. polls' = Append(polls, new) /\ pollDoubt' = Append(pollDoubt, {})
    BY <1>3 DEF new
  <2>4. /\ polls' \in Seq(PollType) /\ DOMAIN polls' = 1..n /\ polls'[n] = new
        /\ \A i \in DOMAIN polls : polls'[i] = polls[i]
    BY <2>1, <2>2, <2>3, AppendProperties
  <2>5. /\ pollDoubt' \in [DOMAIN polls' -> SUBSET PollReasons]
        /\ \A i \in DOMAIN polls : pollDoubt'[i] = pollDoubt[i]
    <3>1. pollDoubt \in Seq(SUBSET PollReasons) /\ Len(pollDoubt) = Len(polls)
      <4>1. pollDoubt \in [1..Len(polls) -> SUBSET PollReasons]
        BY <2>2 DEF PollsIInv, PollsTyped
      <4>2. pollDoubt \in Seq(SUBSET PollReasons)
        BY <2>2, <4>1, SeqDef
      <4>. QED
        BY <2>2, <4>1, <4>2
    <3>2. {} \in SUBSET PollReasons
      OBVIOUS
    <3>3. Append(pollDoubt, {}) \in Seq(SUBSET PollReasons) /\ Len(Append(pollDoubt, {})) = n
          /\ \A i \in 1..Len(pollDoubt) : Append(pollDoubt, {})[i] = pollDoubt[i]
      BY <3>1, <3>2, AppendProperties
    <3>. QED
      BY <2>2, <2>3, <2>4, <3>1, <3>3, LenProperties
  <2>6. polling' \in [Proc -> PollingType]
    BY <1>3, <2>2, ZenonT(30) DEF PollsIInv, PollsTyped, PollingType
  <2>7. PollsTyped'
    BY <1>1, <2>2, <2>4, <2>5, <2>6 DEF PollsIInv, PollsTyped
  <2>8. /\ polling'[p].pc = "create" /\ polling'[p].poll = n
        /\ \A q \in Proc \ {p} : polling'[q] = polling[q]
    BY <1>3 DEF PollsIInv, PollsTyped, PollingType
  <2>9. PollNamed'
    <3>1. n \in DOMAIN polls' /\ DOMAIN polls \subseteq DOMAIN polls'
      BY <2>2, <2>4
    <3>. QED
      BY <1>1, <2>4, <2>8, <3>1 DEF PollsIInv, PollNamed
  <2>10. \A i \in DOMAIN polls' : pollDoubt'[i] = {} => PollQuiet(i)'
    <3>. SUFFICES ASSUME NEW i \in DOMAIN polls', pollDoubt'[i] = {} PROVE PollQuiet(i)'
      OBVIOUS
    <3>1. \A q \in Proc : (q \in Showing(i)' <=> q \in Showing(i)) /\ (q \in Showing(i) => polling'[q] = polling[q])
      BY <1>1, <2>8 DEF Showing
    <3>2. CASE i \in DOMAIN polls
      BY <2>4, <2>5, <3>1, <3>2, PollQuietStays DEF PollsIInv, Showing
    <3>3. CASE i = n
      <4>1. Showing(i) = {}
        BY <2>2, <3>3 DEF Showing, PollsIInv, PollNamed
      <4>2. Showing(i)' = {}
        BY <3>1, <4>1 DEF Showing
      <4>. QED
        BY <2>1, <2>4, <3>3, <4>2 DEF PollQuiet
    <3>. QED
      BY <2>2, <2>4, <3>2, <3>3
  <2>11. \A i \in opened' \ active' : PollMadeRoom(i)'
    BY <1>1, <2>4, <2>7, RoomStays DEF PollsIInv
  <2>. QED
    BY <1>1, <2>7, <2>9, <2>10, <2>11 DEF PollsIInv
<1>. QED
  BY <1>2, <1>3 DEF PostPoll

LEMMA CreateKeeps ==
  ASSUME PollsIInv, HandlersTypeOK', now \in Nat, now' \in Nat, now <= now', NEW p \in Proc, CreatePoll(p)
  PROVE  PollsIInv'
<1>. DEFINE new == polling[p].poll
<1>1. /\ polling[p].pc = "create" /\ opened' = opened \cup {new}
      /\ polls' = polls /\ pollDoubt' = pollDoubt /\ now' = now /\ PollIdle(p)
      /\ new \in DOMAIN polls
  BY DEF CreatePoll, env, PollsIInv, PollNamed
<1>. HIDE DEF new
<1>2. polling'[p].pc = "idle" /\ \A q \in Proc \ {p} : polling'[q] = polling[q]
  BY <1>1, UnpolledTyped DEF PollIdle, PollsIInv, PollsTyped
<1>3. /\ IsFiniteSet(opened) /\ IsFiniteSet(active) /\ Cardinality(active) \in Nat /\ MaxActive \in Nat
      /\ active \subseteq opened /\ opened \subseteq DOMAIN polls /\ Cardinality(active) <= MaxActive
      /\ \A i \in DOMAIN polls : polls[i].ends \in Nat
  BY PollsFinite, PollsAssumption DEF PollsIInv, PollsTyped
<1>4. \/ Cardinality(active) < MaxActive /\ active' = active \cup {new}
      \/ \E gone \in Oldest(active) : active' = (active \ {gone}) \cup {new} /\ Cardinality(active) >= MaxActive
  BY <1>3 DEF CreatePoll, new
<1>5. PollsTyped'
  BY <1>1, <1>3, <1>4, UnpolledTyped DEF PollIdle, PollsIInv, PollsTyped, Oldest
<1>6. Cardinality(active') <= MaxActive
  <2>1. CASE Cardinality(active) < MaxActive /\ active' = active \cup {new}
    BY <1>3, <2>1, OneMore
  <2>2. ASSUME NEW gone \in Oldest(active), active' = (active \ {gone}) \cup {new}
        PROVE  Cardinality(active') <= MaxActive
    <3>1. gone \in active
      BY DEF Oldest
    <3>2. IsFiniteSet(active \ {gone}) /\ Cardinality(active \ {gone}) = Cardinality(active) - 1
      BY <1>3, <3>1, FS_RemoveElement
    <3>. QED
      <4>1. Cardinality(active') <= Cardinality(active \ {gone}) + 1 /\ Cardinality(active') \in Nat
        BY <2>2, <3>2, OneMore
      <4>. QED
        BY <1>3, <3>2, <4>1
  <2>. QED
    BY <1>4, <2>1, <2>2
<1>7. PollNamed'
  BY <1>1, <1>2 DEF PollsIInv, PollNamed
<1>8. \A i \in DOMAIN polls' : pollDoubt'[i] = {} => PollQuiet(i)'
  BY <1>1, <1>2, <1>5, ElsewhereKeeps
<1>9. \A i \in opened' \ active' : PollMadeRoom(i)'
  <2>. SUFFICES ASSUME NEW i \in opened' \ active' PROVE PollMadeRoom(i)'
    OBVIOUS
  <2>1. i \in opened /\ i # new
    BY <1>1, <1>4
  <2>2. CASE i \notin active
    BY <1>1, <1>5, <2>1, <2>2, RoomStays DEF PollsIInv
(* The poll that goes is the oldest: the others that were active end no      *)
(* sooner, and there are as many as the store holds.                         *)
  <2>3. CASE i \in active
    <3>1. i \in Oldest(active) /\ Cardinality(active) >= MaxActive
      BY <1>4, <2>3
    <3>2. active \ {i} \subseteq NotSooner(i)
      BY <1>3, <3>1 DEF Oldest, NotSooner
    <3>3. Cardinality(active \ {i}) = Cardinality(active) - 1
      BY <1>3, <2>3, FS_RemoveElement
    <3>4. Cardinality(active \ {i}) <= Cardinality(NotSooner(i)) /\ Cardinality(NotSooner(i)) \in Nat
      BY <3>2, PollsFinite, FS_Subset DEF PollsIInv
    <3>5. PollMadeRoom(i)
      BY <1>3, <3>1, <3>3, <3>4 DEF PollMadeRoom
    <3>. QED
      BY <1>1, <1>5, <2>1, <3>5, RoomStays DEF PollsIInv
  <2>. QED
    BY <2>2, <2>3
<1>. QED
  BY <1>5, <1>6, <1>7, <1>8, <1>9 DEF PollsIInv

LEMMA EndKeeps ==
  ASSUME PollsIInv, HandlersTypeOK', now \in Nat, now' \in Nat, now <= now', NEW p \in Proc, EndPoll(p)
  PROVE  PollsIInv'
<1>. DEFINE old == polling[p].poll
<1>1. /\ polling[p].pc = "end" /\ active' = active \ {old} /\ opened' = opened
      /\ polls' = polls /\ pollDoubt' = pollDoubt /\ now' = now /\ PollIdle(p)
      /\ old \in DOMAIN polls /\ now > polls[old].ends
  BY DEF EndPoll, env, PollsIInv, PollNamed
<1>. HIDE DEF old
<1>2. polling'[p].pc = "idle" /\ \A q \in Proc \ {p} : polling'[q] = polling[q]
  BY <1>1, UnpolledTyped DEF PollIdle, PollsIInv, PollsTyped
<1>3. PollsTyped'
  BY <1>1, UnpolledTyped DEF PollIdle, PollsIInv, PollsTyped
<1>4. Cardinality(active') <= MaxActive
  <2>1. IsFiniteSet(active) /\ Cardinality(active) \in Nat /\ MaxActive \in Nat /\ Cardinality(active) <= MaxActive
    BY PollsFinite, PollsAssumption DEF PollsIInv
  <2>2. active' \subseteq active
    BY <1>1
  <2>3. Cardinality(active') <= Cardinality(active) /\ Cardinality(active') \in Nat
    BY <2>1, <2>2, FS_Subset, FS_CardinalityType
  <2>. QED
    BY <2>1, <2>3
<1>5. PollNamed'
  BY <1>1, <1>2 DEF PollsIInv, PollNamed
<1>6. \A i \in DOMAIN polls' : pollDoubt'[i] = {} => PollQuiet(i)'
  BY <1>1, <1>2, <1>3, ElsewhereKeeps
<1>7. \A i \in opened' \ active' : PollMadeRoom(i)'
  <2>. SUFFICES ASSUME NEW i \in opened' \ active' PROVE PollMadeRoom(i)'
    OBVIOUS
  <2>1. polls[i].ends \in Nat /\ polls[old].ends \in Nat
    BY <1>1, PollsFinite DEF PollsIInv, PollsTyped
  <2>2. PollMadeRoom(i)
    BY <1>1, <2>1 DEF PollsIInv, PollMadeRoom
  <2>. QED
    BY <1>1, <1>3, <2>2, RoomStays DEF PollsIInv
<1>. QED
  BY <1>3, <1>4, <1>5, <1>6, <1>7 DEF PollsIInv

LEMMA GoneKeeps ==
  ASSUME PollsIInv, HandlersTypeOK', PollsGone,
         polls' \in Seq(PollType), DOMAIN polls' = DOMAIN polls,
         \A i \in DOMAIN polls : Showing(i) = {} => polls'[i] = polls[i]
  PROVE  PollsIInv'
<1>1. active' = {} /\ opened' = {} /\ polling' = [p \in Proc |-> Unpolled] /\ pollDoubt' = Unshown
  BY DEF PollsGone
<1>2. polling' \in [Proc -> PollingType] /\ \A p \in Proc : polling'[p].pc = "idle"
  BY <1>1, UnpolledTyped
<1>3. pollDoubt' \in [DOMAIN polls' -> SUBSET PollReasons]
  BY <1>1 DEF Unshown, PollsIInv, PollsTyped, PollReasons
<1>4. PollsTyped' /\ PollNamed'
  BY <1>1, <1>2, <1>3 DEF PollsTyped, PollNamed
<1>5. Cardinality(active') <= MaxActive
  BY <1>1, FS_EmptySet, PollsAssumption
<1>6. ASSUME NEW i \in DOMAIN polls', pollDoubt'[i] = {} PROVE PollQuiet(i)'
  <2>1. Showing(i) = {} /\ pollDoubt[i] = {}
    BY <1>1, <1>6 DEF Unshown
  <2>2. Showing(i)' = {}
    BY <1>2 DEF Showing
  <2>. QED
    BY <2>1, <2>2 DEF PollQuiet, PollsIInv
<1>. QED
  BY <1>1, <1>4, <1>5, <1>6 DEF PollsIInv

LEMMA VoteKeeps ==
  ASSUME PollsIInv, HandlersTypeOK', now \in Nat, now' \in Nat, now <= now', NEW p \in Proc, PollVote(p)
  PROVE  PollsIInv'
<1>1. PICK i \in active, v \in Voter, o \in Option :
        IF now > polls[i].ends
        THEN /\ polling' = [polling EXCEPT ![p] = [Unpolled EXCEPT !.pc = "end", !.poll = i]]
             /\ UNCHANGED <<polls, active, opened, pollDoubt>>
        ELSE /\ polls' = [polls EXCEPT ![i].votes[v] = o]
             /\ \/ /\ polling' = [polling EXCEPT ![p] =
                              [Unpolled EXCEPT !.pc = "render", !.poll = i, !.read = polls'[i].votes]]
                   /\ pollDoubt' = [pollDoubt EXCEPT ![i] = IF Showing(i) = {} THEN @ ELSE @ \cup {"crossed"}]
                   /\ UNCHANGED <<active, opened>>
                \/ Reading(i) # {} /\ PollsGone
  BY DEF PollVote
<1>2. /\ polling[p].pc = "idle" /\ now' = now
      /\ polls \in Seq(PollType) /\ DOMAIN polls = 1..Len(polls) /\ i \in DOMAIN polls /\ i \in Nat
      /\ polls[i] \in PollType
  BY DEF PollVote, Called, PollsIInv, PollsTyped
<1>3. CASE now > polls[i].ends
  <2>1. [Unpolled EXCEPT !.pc = "end", !.poll = i] \in PollingType
    BY <1>2, UnpolledTyped DEF PollingType
  <2>2. polling' = [polling EXCEPT ![p] = [Unpolled EXCEPT !.pc = "end", !.poll = i]] /\ UNCHANGED <<polls, active, opened, pollDoubt>>
    BY <1>1, <1>3
  <2>3. PollsTyped'
    BY <2>1, <2>2 DEF PollsIInv, PollsTyped
  <2>4. /\ polling'[p].pc = "end" /\ polling'[p].poll = i /\ \A q \in Proc \ {p} : polling'[q] = polling[q]
    BY <2>2 DEF PollsIInv, PollsTyped, Unpolled
  <2>5. PollNamed'
    BY <1>2, <1>3, <2>2, <2>4 DEF PollsIInv, PollNamed
  <2>6. \A j \in DOMAIN polls' : pollDoubt'[j] = {} => PollQuiet(j)'
    BY <1>2, <2>2, <2>3, <2>4, ElsewhereKeeps
  <2>7. \A j \in opened' \ active' : PollMadeRoom(j)'
    BY <2>2, <2>3, RoomStays DEF PollsIInv
  <2>. QED
    BY <2>2, <2>3, <2>5, <2>6, <2>7 DEF PollsIInv
<1>4. CASE ~(now > polls[i].ends)
  <2>. DEFINE voted == [polls[i] EXCEPT !.votes[v] = o]
  <2>1. voted \in PollType /\ voted.ends = polls[i].ends
    BY <1>2 DEF PollType, Ballots
  <2>2. polls' = [polls EXCEPT ![i] = voted]
    BY <1>1, <1>4
  <2>. HIDE DEF voted
  <2>3. /\ polls' \in Seq(PollType) /\ DOMAIN polls' = DOMAIN polls /\ polls'[i] = voted
        /\ \A j \in DOMAIN polls \ {i} : polls'[j] = polls[j]
        /\ \A j \in DOMAIN polls : polls'[j].ends = polls[j].ends
    BY <1>2, <2>1, <2>2, ExceptSeq
  <2>4. CASE Reading(i) # {} /\ PollsGone
    <3>1. Showing(i) # {}
      BY <2>4 DEF Reading
    <3>. QED
      BY <2>3, <2>4, <3>1, GoneKeeps
  <2>5. CASE /\ polling' = [polling EXCEPT ![p] =
                              [Unpolled EXCEPT !.pc = "render", !.poll = i, !.read = polls'[i].votes]]
             /\ pollDoubt' = [pollDoubt EXCEPT ![i] = IF Showing(i) = {} THEN @ ELSE @ \cup {"crossed"}]
             /\ UNCHANGED <<active, opened>>
    <3>1. voted.votes \in Ballots
      BY <2>1 DEF PollType
    <3>2. [Unpolled EXCEPT !.pc = "render", !.poll = i, !.read = voted.votes] \in PollingType
      BY <1>2, <3>1, UnpolledTyped DEF PollingType
    <3>3. PollsTyped'
      BY <2>3, <2>5, <3>2 DEF PollsIInv, PollsTyped, PollReasons
    <3>4. /\ polling'[p].pc = "render" /\ polling'[p].poll = i /\ polling'[p].read = voted.votes
          /\ \A q \in Proc \ {p} : polling'[q] = polling[q]
      BY <2>3, <2>5 DEF PollsIInv, PollsTyped, Unpolled
    <3>5. PollNamed'
      BY <1>2, <2>3, <3>4 DEF PollsIInv, PollNamed
    <3>6. ASSUME NEW j \in DOMAIN polls, pollDoubt'[j] = {} PROVE PollQuiet(j)'
      <4>1. CASE j = i
        <5>1. Showing(i) = {}
          BY <1>2, <2>5, <3>6, <4>1 DEF PollsIInv, PollsTyped
        <5>2. Showing(i)' = {p}
          BY <3>4, <5>1 DEF Showing
        <5>. QED
          BY <2>3, <3>4, <4>1, <5>2 DEF PollQuiet
      <4>2. CASE j # i
        <5>1. pollDoubt[j] = {} /\ polls'[j] = polls[j]
          BY <2>3, <2>5, <3>6, <4>2 DEF PollsIInv, PollsTyped
        <5>2. \A q \in Proc : (q \in Showing(j)' <=> q \in Showing(j)) /\ (q \in Showing(j) => polling'[q] = polling[q])
          BY <1>2, <3>4, <4>2 DEF Showing
        <5>. QED
          BY <5>1, <5>2, PollQuietStays DEF PollsIInv, Showing
      <4>. QED
        BY <4>1, <4>2
    <3>7. \A j \in opened' \ active' : PollMadeRoom(j)'
      BY <2>3, <2>5, <3>3, RoomStays DEF PollsIInv
    <3>. QED
      BY <2>3, <2>5, <3>3, <3>5, <3>6, <3>7 DEF PollsIInv
  <2>. QED
    BY <1>1, <1>4, <2>4, <2>5
<1>. QED
  BY <1>3, <1>4

LEMMA RenderKeeps ==
  ASSUME PollsIInv, HandlersTypeOK', now \in Nat, now' \in Nat, now <= now', NEW p \in Proc, RenderPoll(p)
  PROVE  PollsIInv'
<1>. DEFINE i == polling[p].poll
<1>1. /\ polling[p].pc = "render" /\ UNCHANGED <<polls, active, opened, pollDoubt>> /\ now' = now
      /\ i \in DOMAIN polls
  BY DEF RenderPoll, env, PollsIInv, PollNamed
<1>2. PICK seen \in Ballots : /\ \A v \in Voter : seen[v] \in {polling[p].read[v], polls[i].votes[v]}
                              /\ polling' = [polling EXCEPT ![p].pc = "edit", ![p].read = seen]
  BY DEF RenderPoll
<1>3. polls[i].votes \in Ballots
  BY <1>1, PollsFinite DEF PollsIInv, PollType
<1>. HIDE DEF i
<1>4. PollsTyped'
  BY <1>1, <1>2, ZenonT(30) DEF PollsIInv, PollsTyped, PollingType
<1>5. /\ polling'[p].pc = "edit" /\ polling'[p].poll = i /\ polling'[p].read = seen
      /\ \A q \in Proc \ {p} : polling'[q] = polling[q]
  BY <1>2 DEF PollsIInv, PollsTyped, PollingType, i
<1>6. PollNamed'
  BY <1>1, <1>5 DEF PollsIInv, PollNamed
<1>7. ASSUME NEW j \in DOMAIN polls, pollDoubt[j] = {} PROVE PollQuiet(j)'
  <2>1. Showing(j)' = Showing(j)
    BY <1>1, <1>5 DEF Showing, i
  <2>2. PollQuiet(j)
    BY <1>7 DEF PollsIInv
  <2>3. \A q \in Showing(j) : polling'[q].read = polling[q].read
    <3>. SUFFICES ASSUME NEW q \in Showing(j) PROVE polling'[q].read = polling[q].read
      OBVIOUS
    <3>1. CASE q = p
      <4>1. polling[p].read = polls[i].votes /\ j = i
        BY <2>2, <3>1 DEF PollQuiet, Showing, i
      <4>2. seen = polls[i].votes
        BY <1>2, <1>3, <4>1 DEF Ballots
      <4>. QED
        BY <1>5, <3>1, <4>1, <4>2
    <3>2. CASE q # p
      BY <1>5, <3>2 DEF Showing
    <3>. QED
      BY <3>1, <3>2
  <2>. QED
    BY <1>1, <2>1, <2>2, <2>3 DEF PollQuiet
<1>8. \A j \in opened' \ active' : PollMadeRoom(j)'
  BY <1>1, <1>4, RoomStays DEF PollsIInv
<1>. QED
  BY <1>1, <1>4, <1>6, <1>7, <1>8 DEF PollsIInv

LEMMA EditKeeps ==
  ASSUME PollsIInv, HandlersTypeOK', now \in Nat, now' \in Nat, now <= now', NEW p \in Proc, EditPollMessage(p)
  PROVE  PollsIInv'
<1>. DEFINE i == polling[p].poll
            shown == [polls[i] EXCEPT !.shown = polling[p].read]
<1>1. /\ polling[p].pc = "edit" /\ UNCHANGED <<active, opened>> /\ now' = now /\ PollIdle(p)
      /\ i \in DOMAIN polls
  BY DEF EditPollMessage, env, Fault, PollsIInv, PollNamed
<1>2. \/ /\ polls' = [polls EXCEPT ![i].shown = polling[p].read]
         /\ pollDoubt' = [pollDoubt EXCEPT ![i] = IF Showing(i) = {p} /\ polling[p].read = polls[i].votes THEN {} ELSE @]
      \/ pollDoubt' = [pollDoubt EXCEPT ![i] = @ \cup {"refused"}] /\ UNCHANGED polls
  BY DEF EditPollMessage
<1>3. /\ polls \in Seq(PollType) /\ DOMAIN polls = 1..Len(polls) /\ polls[i] \in PollType
  BY <1>1, PollsFinite DEF PollsIInv, PollsTyped
<1>4. /\ shown \in PollType /\ shown.ends = polls[i].ends /\ shown.votes = polls[i].votes
      /\ shown.shown = polling[p].read
  BY <1>3 DEF PollType, PollsIInv, PollsTyped, PollingType
<1>5. polls' = [polls EXCEPT ![i] = shown] \/ polls' = polls
  BY <1>2
<1>. HIDE DEF i, shown
<1>6. /\ polls' \in Seq(PollType) /\ DOMAIN polls' = DOMAIN polls
      /\ \A j \in DOMAIN polls \ {i} : polls'[j] = polls[j]
      /\ \A j \in DOMAIN polls : polls'[j].ends = polls[j].ends /\ polls'[j].votes = polls[j].votes
  <2>1. CASE polls' = polls
    BY <1>3, <2>1
  <2>2. CASE polls' = [polls EXCEPT ![i] = shown]
    BY <1>1, <1>3, <1>4, <2>2, ExceptSeq
  <2>. QED
    BY <1>5, <2>1, <2>2
<1>7. polling'[p].pc = "idle" /\ \A q \in Proc \ {p} : polling'[q] = polling[q]
  BY <1>1, UnpolledTyped DEF PollIdle, PollsIInv, PollsTyped
<1>8. PollsTyped'
  <2>1. pollDoubt' \in [DOMAIN polls -> SUBSET PollReasons]
    BY <1>1, <1>2 DEF PollsIInv, PollsTyped, PollReasons
  <2>. QED
    BY <1>1, <1>6, <2>1, UnpolledTyped DEF PollIdle, PollsIInv, PollsTyped
<1>9. PollNamed'
  BY <1>1, <1>6, <1>7 DEF PollsIInv, PollNamed
<1>10. p \in Showing(i) /\ \A j : Showing(j)' = Showing(j) \ {p}
  BY <1>1, <1>7 DEF Showing, i
<1>11. ASSUME NEW j \in DOMAIN polls, pollDoubt'[j] = {} PROVE PollQuiet(j)'
  <2>1. CASE j # i
    <3>1. pollDoubt[j] = {} /\ polls'[j] = polls[j] /\ p \notin Showing(j)
      BY <1>2, <1>6, <1>11, <2>1 DEF PollsIInv, PollsTyped, Showing, i
    <3>2. \A q \in Proc : (q \in Showing(j)' <=> q \in Showing(j)) /\ (q \in Showing(j) => polling'[q] = polling[q])
      BY <1>7, <1>10, <3>1 DEF Showing
    <3>. QED
      BY <3>1, <3>2, PollQuietStays DEF PollsIInv, Showing
  <2>2. CASE j = i
    <3>1. /\ polls' = [polls EXCEPT ![i] = shown]
          /\ Showing(i) = {p} /\ polling[p].read = polls[i].votes
      <4>1. /\ polls' = [polls EXCEPT ![i].shown = polling[p].read]
            /\ pollDoubt' = [pollDoubt EXCEPT ![i] = IF Showing(i) = {p} /\ polling[p].read = polls[i].votes THEN {} ELSE @]
        BY <1>1, <1>2, <1>11, <2>2 DEF PollsIInv, PollsTyped
      <4>2. CASE pollDoubt[i] = {}
        <5>1. PollQuiet(i)
          BY <1>1, <4>2 DEF PollsIInv
        <5>. QED
          BY <1>10, <4>1, <5>1 DEF PollQuiet, shown
      <4>3. CASE pollDoubt[i] # {}
        BY <1>1, <1>11, <2>2, <4>1, <4>3 DEF PollsIInv, PollsTyped, shown
      <4>. QED
        BY <4>2, <4>3
    <3>2. polls'[i].shown = polls'[i].votes
      BY <1>1, <1>3, <1>4, <3>1
    <3>. QED
      BY <1>10, <2>2, <3>1, <3>2 DEF PollQuiet
  <2>. QED
    BY <2>1, <2>2
<1>12. \A j \in opened' \ active' : PollMadeRoom(j)'
  BY <1>1, <1>6, <1>8, RoomStays DEF PollsIInv
<1>. QED
  BY <1>1, <1>6, <1>8, <1>9, <1>11, <1>12 DEF PollsIInv

---------------------------------------------------------------------------
LEMMA PollsNextIInv ==
  ASSUME PollsIInv, [PollsNext]_<<env, pollVars>>
  PROVE  PollsIInv'
<1>1. HandlersTypeOK' /\ now \in Nat /\ now' \in Nat /\ now <= now'
  BY PollsEnv, EnvTypes DEF PollsIInv
<1>2. ASSUME PollRestart PROVE PollsIInv'
  BY <1>1, <1>2, GoneKeeps DEF PollRestart, PollsIInv, PollsTyped
<1>3. ASSUME UNCHANGED pollVars PROVE PollsIInv'
  <2>1. UNCHANGED <<polls, active, polling, opened, pollDoubt>>
    BY <1>3 DEF pollVars
  <2>2. PollsTyped' /\ Cardinality(active') <= MaxActive
    BY <2>1 DEF PollsIInv, PollsTyped
  <2>3. PollNamed'
    <3>1. \A p \in Proc : polling[p].pc = "end" => polls[polling[p].poll].ends \in Nat
      BY PollsFinite DEF PollsIInv, PollNamed
    <3>. QED
      BY <1>1, <2>1, <3>1 DEF PollsIInv, PollNamed
  <2>4. \A i \in DOMAIN polls : pollDoubt[i] = {} => PollQuiet(i)'
    BY <2>1 DEF PollsIInv, PollQuiet, Showing
  <2>5. \A i \in opened' \ active' : PollMadeRoom(i)'
    BY <1>1, <2>1, <2>2, RoomStays DEF PollsIInv
  <2>. QED
    BY <1>1, <2>1, <2>2, <2>3, <2>4, <2>5 DEF PollsIInv
<1>. QED
  BY <1>1, <1>2, <1>3, StartKeeps, PostKeeps, CreateKeeps, VoteKeeps, EndKeeps, RenderKeeps, EditKeeps
     DEF PollsNext, PollTick

LEMMA PollsKept == PollsIInv => PollKept
<1>. SUFFICES ASSUME PollsIInv PROVE PollKept
  OBVIOUS
<1>1. \A i \in DOMAIN polls : pollDoubt[i] = {} /\ Showing(i) = {} => polls[i].shown = polls[i].votes
  BY DEF PollsIInv, PollQuiet
<1>2. \A i \in opened \ active : now <= polls[i].ends => Cardinality(NotSooner(i)) + 1 >= MaxActive
  BY DEF PollsIInv, PollMadeRoom
<1>. QED
  BY <1>1, <1>2 DEF PollKept, NotSooner

(* What the message of a poll says and how long the poll takes votes, for    *)
(* any members, options, durations, goroutines and size of the store.        *)
THEOREM PollsStayKept == PollsSpec => []PollKept
<1>1. PollsIInv => PollKept
  BY PollsKept
<1>. QED
  BY <1>1, PollsInitIInv, PollsNextIInv, PTL DEF PollsSpec

---------------------------------------------------------------------------
(* Antinuke: for any deeds, fetches and restarts an entry of the audit log *)
(* is taken up once, and weighs once.                                      *)
(* The log never outgrows the numbers of its entries.                        *)
LogTyped ==
    /\ auditLog \in Seq([actor : Actor, weight : Nat, at : Nat])
    /\ Len(auditLog) <= calls
    /\ seenID \in 0..Len(auditLog) /\ base \in 0..seenID

(* An entry is taken up when seenID passes it, and then only once; between   *)
(* base and seenID none is left out, unless a fetch fell short.              *)
TakenUp ==
    /\ handled \in [Entry -> Nat]
    /\ \A e \in Entry : handled[e] <= 1 /\ (handled[e] # 0 => seenID # 0 /\ e <= seenID)
    /\ seenID # 0 /\ ~overrun => \A e \in (base + 1)..seenID : handled[e] = 1

(* Evidence against an actor is what they did and nobody was punished for.   *)
Accused ==
    /\ events \in [Actor -> [Entry -> Nat]]
    /\ \A a \in Actor, e \in Entry : events[a][e] # 0 =>
          /\ seenID # 0 /\ e <= seenID
          /\ auditLog[e].actor = a /\ weighed[e] = 0

Weighed ==
    /\ weighed \in [Entry -> Nat]
    /\ \A e \in Entry : /\ weighed[e] <= 1
                        /\ weighed[e] # 0 => e <= Len(auditLog) /\ (seenID # 0 => e <= seenID)

NukeIInv == HandlersTypeOK /\ LogTyped /\ TakenUp /\ Accused /\ Weighed

---------------------------------------------------------------------------
LEMMA NukeNumbers ==
  /\ MaxCalls \in Nat /\ FetchLimit \in Nat /\ FetchLimit > 0
  /\ Entry \subseteq Nat /\ \A e \in Entry : 1 <= e /\ e <= MaxCalls
BY HandlersAssumption, AntinukeAssumption DEF Entry

LEMMA LogNumbers ==
  ASSUME HandlersTypeOK, LogTyped
  PROVE  /\ Len(auditLog) \in Nat /\ calls \in Nat /\ seenID \in Nat /\ base \in Nat
         /\ Len(auditLog) <= MaxCalls /\ seenID <= Len(auditLog) /\ base <= seenID
         /\ 1..Len(auditLog) \subseteq Entry
<1>1. Len(auditLog) \in Nat /\ calls \in Nat /\ calls <= MaxCalls /\ MaxCalls \in Nat
  BY HandlersAssumption DEF HandlersTypeOK, LogTyped
<1>. QED
  BY <1>1 DEF LogTyped, Entry

LEMMA NukeInitIInv == HandlersInit /\ NukeInit => NukeIInv
<1>. SUFFICES ASSUME HandlersInit, NukeInit PROVE NukeIInv
  OBVIOUS
<1>1. HandlersTypeOK
  BY HandlersAssumption DEF HandlersInit, HandlersTypeOK, Time
<1>2. LogTyped
  BY DEF HandlersInit, NukeInit, LogTyped
<1>3. TakenUp
  BY DEF NukeInit, TakenUp
<1>4. Accused /\ Weighed
  BY DEF NukeInit, Accused, Weighed, NoEvents
<1>. QED
  BY <1>1, <1>2, <1>3, <1>4 DEF NukeIInv

---------------------------------------------------------------------------
(* A step that takes nothing up and weighs nothing, be the log longer or the *)
(* rest forgotten.                                                           *)
LEMMA LogGrows ==
  ASSUME NukeIInv, HandlersTypeOK', AuditEntry
  PROVE  NukeIInv'
<1>1. PICK d \in Deeds : auditLog' = Append(auditLog, [actor |-> d.actor, weight |-> d.weight, at |-> now])
  BY DEF AuditEntry
<1>. DEFINE Rec == [actor : Actor, weight : Nat, at : Nat]
            new == [actor |-> d.actor, weight |-> d.weight, at |-> now]
<1>2. new \in Rec /\ auditLog \in Seq(Rec)
  BY AntinukeAssumption, HandlersAssumption DEF NukeIInv, HandlersTypeOK, Time, LogTyped
<1>. HIDE DEF new
<1>3. auditLog' = Append(auditLog, new)
  BY <1>1 DEF new
<1>4. /\ auditLog' \in Seq(Rec) /\ Len(auditLog') = Len(auditLog) + 1 /\ Len(auditLog) \in Nat
      /\ \A e \in 1..Len(auditLog) : auditLog'[e] = auditLog[e]
  BY <1>2, <1>3
<1>5. calls' = calls + 1 /\ calls \in Nat /\ UNCHANGED <<seenID, events, base, handled, weighed, overrun>>
  BY HandlersAssumption DEF AuditEntry, Called, NukeIInv, HandlersTypeOK
<1>6. LogTyped'
  BY <1>4, <1>5 DEF NukeIInv, LogTyped
<1>7. TakenUp'
  BY <1>5 DEF NukeIInv, TakenUp
<1>8. Accused'
  <2>1. \A e \in Entry : seenID # 0 /\ e <= seenID => e \in 1..Len(auditLog)
    BY LogNumbers, NukeNumbers DEF NukeIInv
  <2>2. ASSUME NEW a \in Actor, NEW e \in Entry, events[a][e] # 0
        PROVE  /\ seenID # 0 /\ e <= seenID
               /\ auditLog'[e].actor = a /\ weighed[e] = 0
    BY <1>4, <2>1, <2>2 DEF NukeIInv, Accused
  <2>. QED
    BY <1>5, <2>2 DEF NukeIInv, Accused
<1>9. Weighed'
  <2>1. Len(auditLog') = Len(auditLog) + 1 /\ Len(auditLog) \in Nat
    BY <1>4
  <2>2. weighed' = weighed /\ seenID' = seenID /\ Weighed
    BY <1>5 DEF NukeIInv
  <2>3. ASSUME NEW e \in Entry, weighed[e] # 0 PROVE e <= Len(auditLog')
    <3>1. e <= Len(auditLog) /\ e \in Nat
      BY <2>2, <2>3, NukeNumbers DEF Weighed
    <3>. QED
      BY <2>1, <3>1
  <2>. QED
    BY <2>2, <2>3 DEF Weighed
<1>. QED
  BY <1>6, <1>7, <1>8, <1>9 DEF NukeIInv

LEMMA NukeQuiet ==
  ASSUME NukeIInv, HandlersTypeOK', calls <= calls',
         UNCHANGED <<auditLog, seenID, events, base, handled, weighed, overrun>>
  PROVE  NukeIInv'
<1>1. LogTyped'
  <2>1. Len(auditLog) \in Nat /\ calls \in Nat /\ calls' \in Nat
    BY HandlersAssumption DEF NukeIInv, LogTyped, HandlersTypeOK
  <2>. QED
    BY <2>1 DEF NukeIInv, LogTyped
<1>2. TakenUp' /\ Accused' /\ Weighed'
  BY DEF NukeIInv, TakenUp, Accused, Weighed
<1>. QED
  BY <1>1, <1>2 DEF NukeIInv

(* The first page only says where to begin.                                  *)
LEMMA BaselineSets ==
  ASSUME NukeIInv, HandlersTypeOK', FetchBaseline
  PROVE  NukeIInv'
<1>1. /\ seenID = 0 /\ seenID' = Len(auditLog) /\ base' = Len(auditLog)
      /\ UNCHANGED <<calls, auditLog, events, handled, weighed, overrun>>
  BY DEF FetchBaseline, env
<1>2. Len(auditLog) \in Nat
  BY LogNumbers DEF NukeIInv
<1>3. LogTyped'
  BY <1>1, <1>2 DEF NukeIInv, LogTyped
<1>4. TakenUp'
  BY <1>1, <1>2 DEF NukeIInv, TakenUp
<1>5. Accused'
  BY <1>1 DEF NukeIInv, Accused
<1>6. Weighed'
  BY <1>1 DEF NukeIInv, Weighed
<1>. QED
  BY <1>3, <1>4, <1>5, <1>6 DEF NukeIInv

LEMMA RestartForgets ==
  ASSUME NukeIInv, HandlersTypeOK', NukeRestart
  PROVE  NukeIInv'
<1>1. /\ seenID' = 0 /\ base' = 0 /\ UNCHANGED <<calls, auditLog, weighed>>
      /\ events' = [a \in Actor |-> NoEvents] /\ handled' = [e \in Entry |-> 0]
  BY DEF NukeRestart, Fault
<1>2. LogTyped'
  BY <1>1, LogNumbers DEF NukeIInv, LogTyped
<1>3. TakenUp'
  BY <1>1 DEF TakenUp
<1>4. Accused'
  BY <1>1 DEF Accused, NoEvents
<1>5. Weighed'
  BY <1>1 DEF NukeIInv, Weighed
<1>. QED
  BY <1>2, <1>3, <1>4, <1>5 DEF NukeIInv

---------------------------------------------------------------------------
(* What is fresh was not taken up before, and nobody was punished for it.    *)
LEMMA FetchTakesUp ==
  ASSUME NukeIInv, HandlersTypeOK', FetchEntries
  PROVE  NukeIInv'
<1>1. /\ seenID # 0 /\ seenID' = Len(auditLog) /\ UNCHANGED <<calls, auditLog, base, weighed>>
      /\ handled' = [e \in Entry |-> handled[e] + (IF e \in Fresh THEN 1 ELSE 0)]
      /\ ~overrun' => ~overrun /\ ~(seenID + FetchLimit < Len(auditLog))
      /\ \/ UNCHANGED events
         \/ \E known \in BOOLEAN : events' = [a \in Actor |->
               [e \in Entry |-> events[a][e] + (IF e \in Ingested(a, known) THEN 1 ELSE 0)]]
  <2>1. CASE Fresh = {}
    BY <2>1 DEF FetchEntries, env
  <2>2. ASSUME NEW known \in BOOLEAN, AntinukeOwner(known),
               events' = [a \in Actor |-> [e \in Entry |-> events[a][e] + (IF e \in Ingested(a, known) THEN 1 ELSE 0)]]
        PROVE  UNCHANGED calls
    BY <2>2 DEF AntinukeOwner, Fault, env
  <2>. QED
    BY <2>1, <2>2 DEF FetchEntries
<1>. DEFINE Charged(a) == {e \in Fresh : auditLog[e].actor = a}
<1>2. /\ Len(auditLog) \in Nat /\ seenID \in Nat /\ base \in Nat /\ seenID <= Len(auditLog) /\ base <= seenID
      /\ 1..Len(auditLog) \subseteq Entry
  BY LogNumbers DEF NukeIInv
<1>3. /\ \A e \in Fresh : e \in Entry /\ e \in Nat /\ seenID < e /\ e <= Len(auditLog)
      /\ \A e \in Entry : seenID < e /\ e <= Len(auditLog) /\ e + FetchLimit > Len(auditLog) => e \in Fresh
  BY <1>2, NukeNumbers DEF Fresh, Page
<1>4. LogTyped'
  BY <1>1, <1>2 DEF NukeIInv, LogTyped
<1>5. TakenUp'
  <2>1. handled' \in [Entry -> Nat] /\ \A e \in Entry : handled'[e] = handled[e] + (IF e \in Fresh THEN 1 ELSE 0)
    BY <1>1 DEF NukeIInv, TakenUp
  <2>2. ASSUME NEW e \in Entry
        PROVE  handled'[e] <= 1 /\ (handled'[e] # 0 => seenID' # 0 /\ e <= seenID')
    <3>1. handled[e] \in Nat /\ handled[e] <= 1 /\ (handled[e] # 0 => e <= seenID) /\ e \in Nat
      BY NukeNumbers DEF NukeIInv, TakenUp
    <3>2. CASE e \in Fresh
      BY <1>1, <1>2, <1>3, <2>1, <3>1, <3>2
    <3>3. CASE e \notin Fresh
      BY <1>1, <1>2, <2>1, <3>1, <3>3
    <3>. QED
      BY <3>2, <3>3
  <2>3. ASSUME ~overrun', NEW e \in (base + 1)..Len(auditLog) PROVE handled'[e] = 1
    <3>1. e \in Nat /\ e \in Entry /\ base < e /\ e <= Len(auditLog) /\ handled[e] \in Nat
      BY <1>2 DEF NukeIInv, TakenUp
    <3>2. CASE e <= seenID
      <4>1. handled[e] = 1
        BY <1>1, <1>2, <2>3, <3>1, <3>2 DEF NukeIInv, TakenUp
      <4>2. e \notin Fresh
        BY <1>2, <1>3, <3>1, <3>2
      <4>. QED
        BY <2>1, <3>1, <4>1, <4>2
    <3>3. CASE ~(e <= seenID)
      <4>1. seenID + FetchLimit >= Len(auditLog)
        BY <1>1, <1>2, <2>3, NukeNumbers
      <4>2. e \in Fresh
        BY <1>2, <1>3, <3>1, <3>3, <4>1, NukeNumbers
      <4>3. handled[e] = 0
        BY <1>2, <3>1, <3>3 DEF NukeIInv, TakenUp
      <4>. QED
        BY <2>1, <3>1, <4>2, <4>3
    <3>. QED
      BY <3>2, <3>3
  <2>. QED
    BY <1>1, <2>1, <2>2, <2>3 DEF TakenUp
<1>6. \A e \in Entry : weighed[e] # 0 => e <= seenID
  BY <1>1 DEF NukeIInv, Weighed
<1>7. Accused'
  <2>1. /\ events' \in [Actor -> [Entry -> Nat]]
        /\ \A a \in Actor, e \in Entry : events'[a][e] # 0 => events[a][e] # 0 \/ e \in Charged(a)
    <3>1. events \in [Actor -> [Entry -> Nat]]
      BY DEF NukeIInv, Accused
    <3>2. CASE UNCHANGED events
      BY <3>1, <3>2
    <3>3. ASSUME NEW known \in BOOLEAN,
                 events' = [a \in Actor |-> [e \in Entry |-> events[a][e] + (IF e \in Ingested(a, known) THEN 1 ELSE 0)]]
          PROVE  /\ events' \in [Actor -> [Entry -> Nat]]
                 /\ \A a \in Actor, e \in Entry : events'[a][e] # 0 => events[a][e] # 0 \/ e \in Charged(a)
      <4>1. ASSUME NEW a \in Actor
            PROVE  /\ events'[a] = [e \in Entry |-> events[a][e] + (IF e \in Ingested(a, known) THEN 1 ELSE 0)]
                   /\ events[a] \in [Entry -> Nat]
        BY <3>1, <3>3
      <4>2. ASSUME NEW a \in Actor, NEW e \in Entry
            PROVE  /\ events'[a][e] \in Nat
                   /\ events'[a][e] # 0 => events[a][e] # 0 \/ e \in Charged(a)
        <5>1. events'[a][e] = events[a][e] + (IF e \in Ingested(a, known) THEN 1 ELSE 0) /\ events[a][e] \in Nat
          BY <4>1
        <5>2. e \in Ingested(a, known) => e \in Charged(a)
          BY DEF Ingested
        <5>. HIDE DEF Charged
        <5>. QED
          BY <5>1, <5>2
      <4>. QED
        BY <3>3, <4>1, <4>2
    <3>. QED
      BY <1>1, <3>2, <3>3
  <2>2. ASSUME NEW a \in Actor, NEW e \in Charged(a)
        PROVE  e <= Len(auditLog) /\ auditLog[e].actor = a /\ (e \in Entry => weighed[e] = 0)
    BY <1>2, <1>3, <1>6
  <2>3. ASSUME NEW a \in Actor, NEW e \in Entry, events'[a][e] # 0
        PROVE  /\ Len(auditLog) # 0 /\ e <= Len(auditLog)
               /\ auditLog[e].actor = a /\ weighed[e] = 0
    <3>1. CASE events[a][e] # 0
      <4>1. seenID # 0 /\ e <= seenID /\ auditLog[e].actor = a /\ weighed[e] = 0
        BY <3>1 DEF NukeIInv, Accused
      <4>. QED
        BY <1>2, <4>1, NukeNumbers
    <3>2. CASE e \in Charged(a)
      BY <1>2, <2>2, <3>2, NukeNumbers
    <3>. QED
      BY <2>1, <2>3, <3>1, <3>2
  <2>. QED
    BY <1>1, <2>1, <2>3 DEF Accused
<1>8. Weighed'
  BY <1>1, <1>2 DEF NukeIInv, Weighed
<1>. QED
  BY <1>4, <1>5, <1>7, <1>8 DEF NukeIInv

---------------------------------------------------------------------------
(* One entry is evidence against one actor, so it counts once, and what      *)
(* counted is no evidence any more.                                          *)
LEMMA KeptLess ==
  ASSUME events \in [Actor -> [Entry -> Nat]], NEW a \in Actor
  PROVE  /\ Kept(a) \in [Entry -> Nat]
         /\ \A e \in Entry : Kept(a)[e] # 0 => events[a][e] # 0
         /\ LeftOf(a) \in [Entry -> Nat]
         /\ \A e \in Entry : LeftOf(a)[e] # 0 => ~Due(a) /\ events[a][e] # 0
<1>1. Kept(a) \in [Entry -> Nat] /\ \A e \in Entry : Kept(a)[e] # 0 => events[a][e] # 0
  BY DEF Kept
<1>. QED
  BY <1>1 DEF LeftOf, NoEvents

LEMMA ScoreSettles ==
  ASSUME NukeIInv, HandlersTypeOK', ScoreActors
  PROVE  NukeIInv'
<1>. DEFINE Against(e) == {a \in Actor : Due(a) /\ e \in Evidence(Kept(a))}
<1>1. /\ UNCHANGED <<calls, auditLog, seenID, base, handled, overrun>>
      /\ events' = [a \in Actor |-> LeftOf(a)]
      /\ weighed' = [e \in Entry |-> weighed[e] + Cardinality(Against(e))]
  BY DEF ScoreActors, env
<1>2. events \in [Actor -> [Entry -> Nat]] /\ weighed \in [Entry -> Nat]
  BY DEF NukeIInv, Accused, Weighed
<1>3. ASSUME NEW e \in Entry, NEW a \in Against(e)
      PROVE  /\ auditLog[e].actor = a /\ weighed[e] = 0 /\ a \in Actor /\ Due(a)
             /\ seenID # 0 /\ e <= seenID
  <2>1. a \in Actor /\ Due(a) /\ Kept(a)[e] > 0
    BY <1>3 DEF Evidence
  <2>2. events[a][e] # 0
    BY <1>2, <2>1, KeptLess
  <2>. QED
    BY <2>1, <2>2 DEF NukeIInv, Accused
<1>. HIDE DEF Against
<1>4. ASSUME NEW e \in Entry
      PROVE  Cardinality(Against(e)) \in {0, 1} /\ (Cardinality(Against(e)) # 0 => Against(e) # {})
  <2>1. CASE Against(e) = {}
    BY <2>1, FS_EmptySet
  <2>2. CASE Against(e) # {}
    <3>1. Against(e) = {auditLog[e].actor}
      BY <1>3, <2>2
    <3>. QED
      BY <2>2, <3>1, FS_Singleton
  <2>. QED
    BY <2>1, <2>2
<1>5. ASSUME NEW e \in Entry
      PROVE  /\ weighed'[e] \in Nat /\ weighed'[e] <= 1
             /\ weighed'[e] # 0 => weighed[e] # 0 \/ Against(e) # {}
             /\ Against(e) = {} => weighed'[e] = weighed[e]
  <2>1. weighed'[e] = weighed[e] + Cardinality(Against(e)) /\ weighed[e] \in Nat /\ weighed[e] <= 1
    BY <1>1, <1>2 DEF NukeIInv, Weighed
  <2>2. CASE Against(e) = {}
    BY <1>4, <2>1, <2>2, FS_EmptySet
  <2>3. CASE Against(e) # {}
    <3>1. weighed[e] = 0
      BY <1>3, <2>3
    <3>. QED
      BY <1>4, <2>1, <2>3, <3>1
  <2>. QED
    BY <2>2, <2>3
<1>6. LogTyped' /\ TakenUp'
  BY <1>1 DEF NukeIInv, LogTyped, TakenUp
<1>7. Accused'
  <2>1. events' \in [Actor -> [Entry -> Nat]]
    BY <1>1, <1>2, KeptLess
  <2>2. ASSUME NEW a \in Actor, NEW e \in Entry, events'[a][e] # 0
        PROVE  ~Due(a) /\ events[a][e] # 0
    BY <1>1, <1>2, <2>2, KeptLess
  <2>3. ASSUME NEW a \in Actor, NEW e \in Entry, events'[a][e] # 0
        PROVE  Against(e) = {} /\ seenID # 0 /\ e <= seenID /\ auditLog[e].actor = a /\ weighed[e] = 0
    BY <1>3, <2>2, <2>3 DEF NukeIInv, Accused
  <2>. QED
    BY <1>1, <1>5, <2>1, <2>3 DEF Accused
<1>8. Weighed'
  <2>1. weighed' \in [Entry -> Nat]
    BY <1>1, <1>5
  <2>2. ASSUME NEW e \in Entry, weighed'[e] # 0
        PROVE  e <= Len(auditLog) /\ (seenID # 0 => e <= seenID)
    <3>1. CASE weighed[e] # 0
      BY <3>1 DEF NukeIInv, Weighed
    <3>2. CASE Against(e) # {}
      <4>1. e <= seenID
        BY <1>3, <3>2
      <4>. QED
        BY <4>1, LogNumbers, NukeNumbers DEF NukeIInv
    <3>. QED
      BY <1>5, <2>2, <3>1, <3>2
  <2>. QED
    BY <1>1, <1>5, <2>1, <2>2 DEF Weighed
<1>. QED
  BY <1>6, <1>7, <1>8 DEF NukeIInv

---------------------------------------------------------------------------
LEMMA NukeNextIInv == NukeIInv /\ [NukeNext]_<<env, nukeVars>> => NukeIInv'
<1>. SUFFICES ASSUME NukeIInv, [NukeNext]_<<env, nukeVars>> PROVE NukeIInv'
  OBVIOUS
<1>1. Called \/ Fault \/ Passes \/ UNCHANGED env
  BY DEF NukeNext, AuditEntry, ConfigureAntinuke, SweepAntinuke, FetchFails, FetchBaseline, FetchEntries,
         AntinukeOwner, ScoreActors, NukeTick, NukeRestart, env
<1>2. HandlersTypeOK' /\ calls <= calls'
  BY <1>1, EnvTypes, HandlersAssumption DEF NukeIInv, HandlersTypeOK, Called, Fault, Passes, env
<1>3. CASE AuditEntry
  BY <1>2, <1>3, LogGrows
<1>4. CASE FetchBaseline
  BY <1>2, <1>4, BaselineSets
<1>5. CASE FetchEntries
  BY <1>2, <1>5, FetchTakesUp
<1>6. CASE ScoreActors
  BY <1>2, <1>6, ScoreSettles
<1>7. CASE NukeRestart
  BY <1>2, <1>7, RestartForgets
<1>8. CASE ConfigureAntinuke \/ SweepAntinuke \/ FetchFails \/ NukeTick \/ UNCHANGED <<env, nukeVars>>
  <2>1. UNCHANGED <<auditLog, seenID, events, base, handled, weighed, overrun>>
    BY <1>8 DEF ConfigureAntinuke, SweepAntinuke, FetchFails, NukeTick, nukeVars
  <2>. QED
    BY <1>2, <2>1, NukeQuiet
<1>. QED
  BY <1>3, <1>4, <1>5, <1>6, <1>7, <1>8 DEF NukeNext

(* Every entry of the audit log after the first one a process sees is taken  *)
(* up once, and counts in at most one punishment, for any actors, weights,   *)
(* thresholds and page sizes, failing fetches and restarts (pollAntinuke,    *)
(* punishAntinuke).                                                          *)
THEOREM EntriesCountOnce == NukeSpec => []EntriesOnce
<1>1. HandlersInit /\ NukeInit => NukeIInv
  BY NukeInitIInv
<1>2. NukeIInv /\ [NukeNext]_<<env, nukeVars>> => NukeIInv'
  BY NukeNextIInv
<1>3. NukeIInv => EntriesOnce
  BY DEF NukeIInv, TakenUp, Weighed, EntriesOnce
<1>. QED
  BY <1>1, <1>2, <1>3, PTL DEF NukeSpec

---------------------------------------------------------------------------
(* Folds over finite sets.  What a fold goes through has the type of what it *)
(* begins with, if every step keeps to it; and there is a fold.              *)
LEMMA SubsetSizes ==
  ASSUME NEW S, IsFiniteSet(S)
  PROVE  \E size \in [SUBSET S -> Nat] :
            /\ \A s \in SUBSET S : (size[s] = 0 <=> s = {}) /\ size[s] <= size[S]
            /\ \A s \in SUBSET S : \A x \in s : size[s \ {x}] = size[s] - 1
<1>. DEFINE size == [s \in SUBSET S |-> Cardinality(s)]
<1>1. ASSUME NEW s \in SUBSET S
      PROVE  /\ Cardinality(s) \in Nat /\ (Cardinality(s) = 0 <=> s = {}) /\ Cardinality(s) <= Cardinality(S)
             /\ \A x \in s : Cardinality(s \ {x}) = Cardinality(s) - 1
  BY FS_Subset, FS_CardinalityType, FS_RemoveElement, FS_EmptySet
<1>2. \A s \in SUBSET S : \A x \in s : s \ {x} \in SUBSET S
  OBVIOUS
<1>3. size \in [SUBSET S -> Nat]
  BY <1>1
<1>. QED
  BY <1>1, <1>2, <1>3

LEMMA FoldTyped ==
  ASSUME NEW S, IsFiniteSet(S), NEW T, NEW g, g[{}] \in T,
         \A s \in SUBSET S : s # {} => \E x \in s : g[s \ {x}] \in T => g[s] \in T
  PROVE  g[S] \in T
<1>1. PICK size \in [SUBSET S -> Nat] :
            /\ \A s \in SUBSET S : (size[s] = 0 <=> s = {}) /\ size[s] <= size[S]
            /\ \A s \in SUBSET S : \A x \in s : size[s \ {x}] = size[s] - 1
  BY SubsetSizes
<1>. DEFINE N == {n \in Nat : \A s \in SUBSET S : size[s] <= n => g[s] \in T}
<1>2. 0 \in N
  <2>1. \A s \in SUBSET S : size[s] <= 0 => s = {}
    BY <1>1
  <2>. QED
    BY <2>1
<1>3. ASSUME NEW n \in Nat, n \in N PROVE n + 1 \in N
  <2>. SUFFICES ASSUME NEW s \in SUBSET S, size[s] <= n + 1 PROVE g[s] \in T
    OBVIOUS
  <2>. SUFFICES ASSUME s # {} PROVE g[s] \in T
    OBVIOUS
  <2>1. PICK x \in s : g[s \ {x}] \in T => g[s] \in T
    OBVIOUS
  <2>2. s \ {x} \in SUBSET S /\ size[s \ {x}] = size[s] - 1 /\ size[s] \in Nat
    BY <1>1
  <2>. QED
    BY <1>3, <2>1, <2>2
<1>. HIDE DEF N
<1>4. Nat \subseteq N
  BY <1>2, <1>3, Reaching
<1>. QED
  BY <1>1, <1>4 DEF N

Folded(g, S, first, Pick, Step) ==
    \A s \in SUBSET S : g[s] = IF s = {} THEN first ELSE Step[Pick[s]][g[s \ {Pick[s]}]]

LEMMA FoldExists ==
  ASSUME NEW S, IsFiniteSet(S), NEW T, NEW first \in T,
         NEW Pick, \A s \in SUBSET S : s # {} => Pick[s] \in s,
         NEW Step, \A x \in S, t \in T : Step[x][t] \in T
  PROVE  \E g \in [SUBSET S -> T] : Folded(g, S, first, Pick, Step)
<1>1. PICK size \in [SUBSET S -> Nat] :
            /\ \A s \in SUBSET S : (size[s] = 0 <=> s = {}) /\ size[s] <= size[S]
            /\ \A s \in SUBSET S : \A x \in s : size[s \ {x}] = size[s] - 1
  BY SubsetSizes
<1>. DEFINE Upto(n) == {s \in SUBSET S : size[s] <= n}
            Folds(g, s) == g[s] = IF s = {} THEN first ELSE Step[Pick[s]][g[s \ {Pick[s]}]]
            N == {n \in Nat : \E g \in [Upto(n) -> T] : \A s \in Upto(n) : Folds(g, s)}
<1>2. 0 \in N
  <2>. DEFINE g == [s \in Upto(0) |-> first]
  <2>1. \A s \in Upto(0) : s = {}
    BY <1>1
  <2>2. g \in [Upto(0) -> T] /\ \A s \in Upto(0) : Folds(g, s)
    BY <2>1
  <2>. HIDE DEF g, Upto, Folds
  <2>. QED
    BY <2>2
<1>3. ASSUME NEW n \in Nat, n \in N PROVE n + 1 \in N
  <2>1. PICK h \in [Upto(n) -> T] : \A s \in Upto(n) : Folds(h, s)
    BY <1>3
  <2>. DEFINE g == [s \in Upto(n + 1) |-> IF s \in Upto(n) THEN h[s] ELSE Step[Pick[s]][h[s \ {Pick[s]}]]]
  <2>2. ASSUME NEW s \in Upto(n + 1), s # {}
        PROVE  Pick[s] \in s /\ s \ {Pick[s]} \in Upto(n) /\ s \ {Pick[s]} \in Upto(n + 1) /\ Pick[s] \in S
    <3>1. Pick[s] \in s /\ s \in SUBSET S /\ size[s] <= n + 1 /\ size[s] \in Nat
      BY <1>1, <2>2
    <3>2. s \ {Pick[s]} \in SUBSET S /\ size[s \ {Pick[s]}] = size[s] - 1
      BY <1>1, <3>1
    <3>. QED
      BY <3>1, <3>2
  <2>3. ASSUME NEW s \in Upto(n + 1), s \notin Upto(n) PROVE s # {}
    <3>1. size[s] = n + 1 /\ s \in SUBSET S
      BY <1>1, <2>3
    <3>. QED
      BY <1>1, <3>1
  <2>4. g \in [Upto(n + 1) -> T]
    BY <2>1, <2>2, <2>3
  <2>5. ASSUME NEW s \in Upto(n + 1) PROVE Folds(g, s)
    <3>1. s # {} => g[s \ {Pick[s]}] = h[s \ {Pick[s]}]
      BY <2>2
    <3>2. CASE s \in Upto(n)
      <4>1. g[s] = h[s] /\ Folds(h, s)
        BY <2>1, <3>2
      <4>. QED
        BY <3>1, <4>1
    <3>3. CASE s \notin Upto(n)
      <4>1. s # {} /\ g[s] = Step[Pick[s]][h[s \ {Pick[s]}]]
        BY <2>3, <3>3
      <4>. QED
        BY <3>1, <4>1
    <3>. QED
      BY <3>2, <3>3
  <2>. HIDE DEF g, Upto, Folds
  <2>. QED
    BY <2>4, <2>5
<1>. HIDE DEF Folds
<1>4. Nat \subseteq N
  <2>. HIDE DEF N
  <2>. QED
    BY <1>2, <1>3, Reaching
<1>5. size[S] \in N /\ Upto(size[S]) = SUBSET S
  BY <1>1, <1>4
<1>. HIDE DEF Upto
<1>6. PICK g \in [SUBSET S -> T] : \A s \in SUBSET S : Folds(g, s)
  BY <1>5
<1>. QED
  BY <1>6 DEF Folds, Folded

---------------------------------------------------------------------------
(* What actors are worth is a number, and what is left of a window a window. *)
WeightRun(es, S, g) ==
    [s \in SUBSET S |-> IF s = {} THEN 0
                        ELSE LET x == CHOOSE y \in s : TRUE
                             IN  es[x] * auditLog[x].weight + g[s \ {x}]]

LEMMA WeightNat ==
  ASSUME NEW S, IsFiniteSet(S), NEW es, \A x \in S : es[x] * auditLog[x].weight \in Nat, S = Evidence(es)
  PROVE  WeightOf(es) \in Nat
<1>. DEFINE Pick == [s \in SUBSET S |-> CHOOSE y \in s : TRUE]
            Step == [x \in S |-> [t \in Nat |-> es[x] * auditLog[x].weight + t]]
            f == CHOOSE g : g = WeightRun(es, S, g)
<1>1. \A s \in SUBSET S : s # {} => (CHOOSE y \in s : TRUE) \in s
  OBVIOUS
<1>2. \E g : g = WeightRun(es, S, g)
  <2>1. \A s \in SUBSET S : Pick[s] = CHOOSE y \in s : TRUE
    OBVIOUS
  <2>2. \A x \in S, t \in Nat : Step[x][t] = es[x] * auditLog[x].weight + t /\ Step[x][t] \in Nat
    OBVIOUS
  <2>. HIDE DEF Pick, Step
  <2>3. PICK g \in [SUBSET S -> Nat] : Folded(g, S, 0, Pick, Step)
    <3>1. \A s \in SUBSET S : s # {} => Pick[s] \in s
      BY <1>1, <2>1
    <3>2. \A x \in S, t \in Nat : Step[x][t] \in Nat
      BY <2>2
    <3>3. 0 \in Nat
      OBVIOUS
    <3>. QED
      BY <3>1, <3>2, <3>3, FoldExists
  <2>4. \A s \in SUBSET S : g[s] = IF s = {} THEN 0 ELSE LET x == CHOOSE y \in s : TRUE
                             IN  es[x] * auditLog[x].weight + g[s \ {x}]
    <3>. SUFFICES ASSUME NEW s \in SUBSET S, s # {}
                  PROVE  g[s] = es[CHOOSE y \in s : TRUE] * auditLog[CHOOSE y \in s : TRUE].weight + g[s \ {CHOOSE y \in s : TRUE}]
      BY <2>3 DEF Folded
    <3>1. PICK x \in s : x = CHOOSE y \in s : TRUE
      BY <1>1
    <3>2. x \in S /\ s \ {x} \in SUBSET S /\ g[s \ {x}] \in Nat /\ Pick[s] = x
      BY <2>1, <2>3, <3>1
    <3>3. g[s] = Step[x][g[s \ {x}]]
      BY <2>3, <3>2 DEF Folded
    <3>. QED
      BY <2>2, <3>1, <3>2, <3>3
  <2>5. WeightRun(es, S, g) = [s \in SUBSET S |-> g[s]]
    BY <2>4 DEF WeightRun
  <2>. QED
    BY <2>3, <2>5
<1>3. f = WeightRun(es, S, f)
  BY Zenon, <1>2
<1>4. WeightOf(es) = f[S]
  BY Zenon DEF WeightOf, MapThenSumSet, MapThenFoldSet, WeightRun
<1>. HIDE DEF f, Pick, Step
<1>5. \A s \in SUBSET S : f[s] = IF s = {} THEN 0 ELSE LET x == CHOOSE y \in s : TRUE
                             IN  es[x] * auditLog[x].weight + f[s \ {x}]
  BY <1>3 DEF WeightRun
<1>6. ASSUME NEW s \in SUBSET S, s # {} PROVE \E x \in s : f[s \ {x}] \in Nat => f[s] \in Nat
  <2>1. PICK x \in s : x = CHOOSE y \in s : TRUE
    BY <1>1, <1>6
  <2>2. f[s] = es[x] * auditLog[x].weight + f[s \ {x}]
    BY <1>5, <1>6, <2>1
  <2>3. PICK w \in Nat : w = es[x] * auditLog[x].weight
    BY <2>1
  <2>4. f[s \ {x}] \in Nat => f[s] \in Nat
    BY <2>2, <2>3
  <2>. QED
    BY <2>4
<1>7. f[{}] \in Nat
  BY <1>5
<1>. QED
  BY <1>4, <1>6, <1>7, FoldTyped

LEMMA MaxIn ==
  ASSUME NEW n \in Nat, NEW s \in SUBSET (1..n), s # {}
  PROVE  Max(s) \in s
<1>. DEFINE D == {n - x : x \in s}
<1>1. \A x \in s : x \in Nat /\ n - x \in Nat
  OBVIOUS
<1>2. D \subseteq Nat /\ D # {}
  BY <1>1
<1>3. PICK m \in D : \A k \in D : m <= k
  BY <1>2, LeastIn
<1>4. PICK x \in s : m = n - x
  BY <1>3
<1>5. ASSUME NEW y \in s PROVE x >= y
  <2>1. n - y \in D
    OBVIOUS
  <2>2. m <= n - y
    BY <1>3, <2>1
  <2>. HIDE DEF D
  <2>. QED
    BY <1>1, <1>4, <2>2
<1>6. \E z \in s : \A y \in s : z >= y
  BY <1>5
<1>. QED
  BY <1>6 DEF Max

WindowRun(S, g) ==
    [s \in SUBSET S |-> IF s = {} THEN <<>>
                        ELSE LET x == Max(s)
                             IN  IF spamWindow[x] + Window > now THEN Append(g[s \ {x}], spamWindow[x]) ELSE g[s \ {x}]]

LEMMA WindowTyped ==
  ASSUME spamWindow \in Seq(Time)
  PROVE  StillInWindow \in Seq(Time)
<1>. DEFINE S == DOMAIN spamWindow
            Pick == [s \in SUBSET S |-> Max(s)]
            Step == [x \in S |-> [t \in Seq(Time) |-> IF spamWindow[x] + Window > now THEN Append(t, spamWindow[x]) ELSE t]]
            f == CHOOSE g : g = WindowRun(S, g)
<1>1. S = 1..Len(spamWindow) /\ Len(spamWindow) \in Nat /\ IsFiniteSet(S)
  BY FS_Interval
<1>2. \A s \in SUBSET S : s # {} => Max(s) \in s
  BY <1>1, MaxIn
<1>3. \A x \in S : spamWindow[x] \in Time
  BY <1>1
<1>4. StillInWindow = f[S]
  BY Zenon DEF StillInWindow, FoldLeft, MapThenFoldSet, WindowRun
<1>5. \A s \in SUBSET S : Pick[s] = Max(s)
  OBVIOUS
<1>6. \A x \in S, t \in Seq(Time) :
          /\ Step[x][t] = IF spamWindow[x] + Window > now THEN Append(t, spamWindow[x]) ELSE t
          /\ Step[x][t] \in Seq(Time)
  BY <1>3
<1>. HIDE DEF S, Pick, Step
<1>7. \E g : g = WindowRun(S, g)
  <2>1. PICK g \in [SUBSET S -> Seq(Time)] : Folded(g, S, <<>>, Pick, Step)
    <3>1. \A s \in SUBSET S : s # {} => Pick[s] \in s
      BY <1>2, <1>5
    <3>2. \A x \in S, t \in Seq(Time) : Step[x][t] \in Seq(Time)
      BY <1>6
    <3>3. <<>> \in Seq(Time)
      OBVIOUS
    <3>. QED
      BY <1>1, <3>1, <3>2, <3>3, FoldExists
  <2>2. \A s \in SUBSET S : g[s] = IF s = {} THEN <<>> ELSE LET x == Max(s)
             IN  IF spamWindow[x] + Window > now THEN Append(g[s \ {x}], spamWindow[x]) ELSE g[s \ {x}]
    <3>. SUFFICES ASSUME NEW s \in SUBSET S, s # {}, NEW x \in s, x = Max(s)
                  PROVE  g[s] = IF spamWindow[x] + Window > now THEN Append(g[s \ {x}], spamWindow[x]) ELSE g[s \ {x}]
      BY <1>2, <2>1 DEF Folded
    <3>1. x \in S /\ s \ {x} \in SUBSET S /\ g[s \ {x}] \in Seq(Time) /\ Pick[s] = x
      BY <1>5, <2>1
    <3>2. g[s] = Step[x][g[s \ {x}]]
      BY <2>1, <3>1 DEF Folded
    <3>. QED
      BY <1>6, <3>1, <3>2
  <2>3. WindowRun(S, g) = [s \in SUBSET S |-> g[s]]
    BY <2>2 DEF WindowRun
  <2>. QED
    BY <2>1, <2>3
<1>8. f = WindowRun(S, f)
  BY Zenon, <1>7
<1>. HIDE DEF f
<1>9. \A s \in SUBSET S : f[s] = IF s = {} THEN <<>> ELSE LET x == Max(s)
             IN  IF spamWindow[x] + Window > now THEN Append(f[s \ {x}], spamWindow[x]) ELSE f[s \ {x}]
  BY <1>8 DEF WindowRun
<1>10. ASSUME NEW s \in SUBSET S, s # {} PROVE \E x \in s : f[s \ {x}] \in Seq(Time) => f[s] \in Seq(Time)
  <2>1. PICK x \in s : x = Max(s)
    BY <1>2, <1>10
  <2>2. f[s] = IF spamWindow[x] + Window > now THEN Append(f[s \ {x}], spamWindow[x]) ELSE f[s \ {x}]
    BY <1>9, <1>10, <2>1
  <2>3. f[s \ {x}] \in Seq(Time) => f[s] \in Seq(Time)
    BY <1>3, <2>2
  <2>. QED
    BY <2>3
<1>11. f[{}] \in Seq(Time)
  <2>1. {} \in SUBSET S
    OBVIOUS
  <2>2. f[{}] = <<>>
    BY <1>9, <2>1
  <2>. QED
    BY <2>2
<1>. QED
  BY <1>1, <1>4, <1>10, <1>11, FoldTyped

---------------------------------------------------------------------------
(* Antinuke: the types.                                                      *)
WatcherType == [pc : {"idle", "fetch", "score"}, cfg : AntinukeRows, at : Time]

LEMMA NoneDueTyped ==
  ASSUME antinukeRow \in AntinukeRows
  PROVE  NoneDue \in WatcherType
<1>1. (CHOOSE r \in AntinukeRows : TRUE) \in AntinukeRows
  OBVIOUS
<1>. QED
  BY <1>1, HandlersAssumption DEF NoneDue, WatcherType, Time

LEMMA NukeRests == NukeInit => NukeTypeOK
<1>. SUFFICES ASSUME NukeInit PROVE NukeTypeOK
  OBVIOUS
<1>1. antinukeRow \in AntinukeRows /\ watcher \in WatcherType
  BY NoneDueTyped DEF NukeInit
<1>2. events \in [Actor -> [Entry -> Nat]] /\ handled \in [Entry -> Nat] /\ weighed \in [Entry -> Nat]
  BY DEF NukeInit, NoEvents
<1>3. auditLog = <<>> /\ Len(auditLog) <= MaxCalls /\ {seenID, base} \subseteq 0..MaxCalls
  BY HandlersAssumption DEF NukeInit
<1>4. actedAt \in [Actor -> Time \cup {Never}] /\ {overrun, ownerKnown} \subseteq BOOLEAN /\ punished = {}
  BY DEF NukeInit
<1>. QED
  BY <1>1, <1>2, <1>3, <1>4 DEF NukeTypeOK, WatcherType

LEMMA RecentWeighs ==
  ASSUME NukeIInv, NukeTypeOK, NEW a \in Actor
  PROVE  WeightOf(Recent(a)) \in Nat
<1>1. events \in [Actor -> [Entry -> Nat]] /\ MaxCalls \in Nat
  BY HandlersAssumption DEF NukeIInv, Accused
<1>2. Kept(a) \in [Entry -> Nat] /\ \A e \in Entry : Kept(a)[e] # 0 => events[a][e] # 0
  BY <1>1, KeptLess
<1>3. Recent(a) \in [Entry -> Nat] /\ \A e \in Entry : Recent(a)[e] # 0 => Kept(a)[e] # 0
  BY <1>2 DEF Recent, Evidence
<1>. DEFINE S == Evidence(Recent(a))
<1>4. S \subseteq Entry /\ \A e \in S : Recent(a)[e] # 0
  BY <1>3 DEF Evidence
<1>5. IsFiniteSet(S)
  BY <1>1, <1>4, FS_Interval, FS_Subset DEF Entry
<1>6. ASSUME NEW e \in S PROVE Recent(a)[e] * auditLog[e].weight \in Nat
  <2>1. e \in Entry /\ Recent(a)[e] \in Nat /\ seenID # 0 /\ e <= seenID
    BY <1>2, <1>3, <1>4 DEF NukeIInv, Accused
  <2>2. e \in 1..Len(auditLog)
    BY <2>1, LogNumbers, NukeNumbers DEF NukeIInv
  <2>3. auditLog \in Seq([actor : Actor, weight : Nat, at : Time])
    BY DEF NukeTypeOK
  <2>4. \A R : auditLog \in Seq(R) => auditLog[e] \in R
    BY <2>2
  <2>5. auditLog[e] \in [actor : Actor, weight : Nat, at : Time]
    BY <2>3, <2>4
  <2>6. auditLog[e].weight \in Nat
    BY <2>5
  <2>. QED
    BY <2>1, <2>6
<1>. QED
  BY <1>5, <1>6, WeightNat

LEMMA NukeTypesStep ==
  ASSUME NukeIInv, NukeIInv', NukeTypeOK, [NukeNext]_<<env, nukeVars>>
  PROVE  NukeTypeOK'
<1>1. now \in Time /\ antinukeRow \in AntinukeRows /\ watcher \in WatcherType /\ MaxCalls \in Nat
  BY HandlersAssumption DEF NukeIInv, HandlersTypeOK, NukeTypeOK, WatcherType
<1>2. /\ Len(auditLog') <= MaxCalls /\ {seenID', base'} \subseteq 0..MaxCalls
      /\ events' \in [Actor -> [Entry -> Nat]] /\ handled' \in [Entry -> Nat] /\ weighed' \in [Entry -> Nat]
  <2>1. /\ Len(auditLog') \in Nat /\ calls' \in Nat /\ calls' <= MaxCalls /\ seenID' \in Nat /\ base' \in Nat
        /\ Len(auditLog') <= calls' /\ seenID' <= Len(auditLog') /\ base' <= seenID'
    BY HandlersAssumption DEF NukeIInv, HandlersTypeOK, LogTyped
  <2>. QED
    BY <1>1, <2>1 DEF NukeIInv, Accused, Weighed, TakenUp
<1>3. antinukeRow' \in AntinukeRows
  BY <1>1 DEF NukeNext, AuditEntry, ConfigureAntinuke, SweepAntinuke, FetchFails, FetchBaseline, FetchEntries,
         ScoreActors, NukeTick, NukeRestart, nukeVars
<1>4. watcher' \in WatcherType
  <2>1. CASE watcher' = NoneDue \/ watcher' = watcher
    BY <1>1, <2>1, NoneDueTyped
  <2>2. CASE SweepAntinuke
    BY <1>1, <2>2, HandlersAssumption DEF SweepAntinuke, WatcherType, Time
  <2>3. CASE FetchEntries
    BY <1>1, <2>1, <2>3 DEF FetchEntries, WatcherType
  <2>. QED
    BY <2>1, <2>2, <2>3 DEF NukeNext, AuditEntry, ConfigureAntinuke, FetchFails, FetchBaseline,
         ScoreActors, NukeTick, NukeRestart, nukeVars
<1>5. auditLog' \in Seq([actor : Actor, weight : Nat, at : Time])
  <2>1. auditLog \in Seq([actor : Actor, weight : Nat, at : Time])
    BY DEF NukeTypeOK
  <2>2. CASE AuditEntry
    <3>1. PICK d \in Deeds : auditLog' = Append(auditLog, [actor |-> d.actor, weight |-> d.weight, at |-> now])
      BY <2>2 DEF AuditEntry
    <3>2. [actor |-> d.actor, weight |-> d.weight, at |-> now] \in [actor : Actor, weight : Nat, at : Time]
      BY <1>1, AntinukeAssumption
    <3>. QED
      BY <2>1, <3>1, <3>2
  <2>3. CASE UNCHANGED auditLog
    BY <2>1, <2>3
  <2>. QED
    BY <2>2, <2>3 DEF NukeNext, ConfigureAntinuke, SweepAntinuke, FetchFails, FetchBaseline, FetchEntries,
         ScoreActors, NukeTick, NukeRestart, nukeVars
<1>6. actedAt' \in [Actor -> Time \cup {Never}]
  <2>1. actedAt \in [Actor -> Time \cup {Never}]
    BY DEF NukeTypeOK
  <2>2. CASE ScoreActors
    BY <1>1, <2>1, <2>2 DEF ScoreActors, WatcherType
  <2>3. CASE actedAt' = [a \in Actor |-> Never] \/ UNCHANGED actedAt
    BY <2>1, <2>3
  <2>. QED
    BY <2>2, <2>3 DEF NukeNext, AuditEntry, ConfigureAntinuke, SweepAntinuke, FetchFails, FetchBaseline, FetchEntries,
         NukeTick, NukeRestart, nukeVars
<1>7. {overrun', ownerKnown'} \subseteq BOOLEAN
  <2>1. overrun \in BOOLEAN /\ ownerKnown \in BOOLEAN
    BY DEF NukeTypeOK
  <2>2. CASE FetchEntries
    BY <2>1, <2>2 DEF FetchEntries, AntinukeOwner
  <2>3. CASE overrun' \in {overrun, FALSE} /\ ownerKnown' \in {ownerKnown, FALSE}
    BY <2>1, <2>3
  <2>. QED
    BY <2>2, <2>3 DEF NukeNext, AuditEntry, ConfigureAntinuke, SweepAntinuke, FetchFails, FetchBaseline,
         ScoreActors, NukeTick, NukeRestart, nukeVars
<1>8. punished' \subseteq [score : Nat, of : Nat]
  <2>1. punished \subseteq [score : Nat, of : Nat]
    BY DEF NukeTypeOK
  <2>2. CASE ScoreActors
    <3>1. PICK done \in SUBSET {a \in Actor \ {Owner} : Due(a)} :
            punished' = punished \cup {[score |-> WeightOf(Recent(a)), of |-> watcher.cfg.threshold] : a \in done}
      BY <2>2 DEF ScoreActors
    <3>2. watcher.cfg.threshold \in Nat
      BY <1>1, AntinukeAssumption DEF WatcherType
    <3>3. \A a \in done : [score |-> WeightOf(Recent(a)), of |-> watcher.cfg.threshold] \in [score : Nat, of : Nat]
      BY <3>2, RecentWeighs
    <3>. QED
      BY <2>1, <3>1, <3>3
  <2>3. CASE UNCHANGED punished
    BY <2>1, <2>3
  <2>. QED
    BY <2>2, <2>3 DEF NukeNext, AuditEntry, ConfigureAntinuke, SweepAntinuke, FetchFails, FetchBaseline, FetchEntries,
         NukeTick, NukeRestart, nukeVars
<1>. QED
  BY <1>2, <1>3, <1>4, <1>5, <1>6, <1>7, <1>8 DEF NukeTypeOK, WatcherType

---------------------------------------------------------------------------
(* Antispam: the types.                                                      *)
LEMMA GuardRests == GuardInit => GuardTypeOK
<1>. SUFFICES ASSUME GuardInit PROVE GuardTypeOK
  OBVIOUS
<1>1. screening \in [Proc -> ScreenType]
  BY UnscreenedTyped DEF GuardInit
<1>2. spamWindow \in Seq(Time) /\ acts \in Seq(ActType)
  BY DEF GuardInit
<1>. QED
  BY <1>1, <1>2 DEF GuardInit, GuardTypeOK, ScreenType, ActType, Row

LEMMA GuardTypesStep ==
  ASSUME GuardIInv, GuardIInv', GuardTypeOK, [GuardNext]_<<env, guardVars>>
  PROVE  GuardTypeOK'
<1>1. now \in Time /\ spamWindow \in Seq(Time) /\ StillInWindow \in Seq(Time)
  BY WindowTyped DEF GuardIInv, HandlersTypeOK, GuardTypeOK
<1>2. spamWindow' \in Seq(Time)
  <2>1. ASSUME NEW p \in Proc, CountMessage(p) PROVE spamWindow' \in Seq(Time)
    <3>1. spamWindow' = Append(StillInWindow, now)
      BY <2>1 DEF CountMessage
    <3>. QED
      BY <1>1, <3>1
  <2>2. CASE spamWindow' = <<>>
    BY <2>2
  <2>3. CASE UNCHANGED spamWindow
    BY <1>1, <2>3
  <2>. QED
    BY <2>1, <2>2, <2>3 DEF GuardNext, SeeMessage, QuerySettings, FillSettings, ScreenPass, FilterMessage, TripHoneypot,
         TrapPunish, MarkBurst, PunishBurst, ChangeSettings, InvalidateProtectionConfig, GuardTick, GuardRestart, guardVars
<1>. QED
  BY <1>2 DEF GuardIInv, GuardTyped, GuardTypeOK, ScreenType, ActType

---------------------------------------------------------------------------
(* Dispatch: the types.                                                      *)
GivenBounds == [kind : {"none", "unknown", "fast", "slow", "prefix"}, at : Time, ran : 0..2, logged : 0..1,
                answered : BOOLEAN, fast : Sending, ack : Sending]

LEMMA DispatchRests == DispatchInit => DispatchTypeOK
<1>. SUFFICES ASSUME DispatchInit PROVE DispatchTypeOK
  OBVIOUS
<1>1. Ungiven \in GivenBounds
  BY HandlersAssumption DEF Ungiven, GivenBounds, Sending, Time
<1>2. handling \in [Proc -> HandlingType] /\ given \in [Call -> GivenBounds]
  BY <1>1, UnhandledTyped DEF DispatchInit
<1>3. bucket \in [tokens : 0..TokenCap * TokenCost, last : Time]
  BY Capacity, HandlersAssumption DEF DispatchInit, Full, Time
<1>. QED
  BY <1>2, <1>3 DEF DispatchTypeOK, HandlingType, GivenBounds

LEMMA BoundsReceived ==
  ASSUME DispatchIInv, given \in [Call -> GivenBounds], NEW p \in Proc,
         NEW kind \in {"unknown", "fast", "slow", "prefix"}, NEW pc, Receive(p, kind, pc)
  PROVE  given' \in [Call -> GivenBounds]
<1>. DEFINE n == calls + 1
            at == IF kind = "prefix" THEN now ELSE 0
            g == [given[n] EXCEPT !.kind = kind, !.at = at]
<1>1. n \in Call /\ at \in Time
  BY CallNumbers, HandlersAssumption DEF Receive, Called, DispatchIInv, HandlersTypeOK, Time
<1>2. given[n] \in GivenBounds
  BY <1>1
<1>3. g \in GivenBounds
  BY <1>1, <1>2 DEF GivenBounds
<1>4. given' = [given EXCEPT ![n] = g]
  BY DEF Receive
<1>. QED
  BY <1>3, <1>4

LEMMA BoundsTaken ==
  ASSUME DispatchIInv, given \in [Call -> GivenBounds], NEW p \in Proc,
         \/ Execute(p) \/ FastRespond(p) \/ Defer(p) \/ FinishEdit(p) \/ LogCall(p) \/ ExecutePrefix(p)
  PROVE  given' \in [Call -> GivenBounds]
<1>. DEFINE g == Its(p)
            pc == handling[p].pc
<1>1. pc # "idle"
  BY DEF Execute, FastRespond, Defer, FinishEdit, LogCall, ExecutePrefix, At
<1>2. InCourse(pc, g) /\ handling[p].call \in Call
  BY <1>1, ItsTyped
<1>3. g \in GivenBounds
  BY <1>2 DEF Its
<1>. HIDE DEF g, pc
<1>4. ASSUME NEW h \in GivenBounds, Gives(p, h) PROVE given' \in [Call -> GivenBounds]
  BY <1>4 DEF Gives
<1>5. CASE UNCHANGED given
  BY <1>5
<1>6. CASE Execute(p)
  <2>. DEFINE h == [g EXCEPT !.ran = @ + 1]
  <2>1. Gives(p, h) /\ pc \in {"fast", "slow"}
    BY <1>6 DEF Execute, At, g, pc
  <2>2. g.ran \in {0, 1}
    BY <1>2, <2>1 DEF InCourse
  <2>3. h \in GivenBounds
    BY <1>3, <2>2 DEF GivenBounds
  <2>. QED
    BY <1>4, <2>1, <2>3
<1>7. CASE FastRespond(p)
  <2>. DEFINE sent == [g EXCEPT !.answered = TRUE, !.fast = "sent"]
              refused == [g EXCEPT !.fast = "refused"]
              unheard == [g EXCEPT !.answered = TRUE, !.fast = "unheard"]
  <2>1. Gives(p, sent) \/ Gives(p, refused) \/ Gives(p, unheard)
    BY <1>7 DEF FastRespond, g
  <2>2. sent \in GivenBounds /\ refused \in GivenBounds /\ unheard \in GivenBounds
    BY <1>3 DEF GivenBounds, Sending
  <2>. QED
    BY <1>4, <2>1, <2>2
<1>8. CASE Defer(p)
  <2>. DEFINE sent == [g EXCEPT !.answered = TRUE, !.ack = "sent"]
              refused == [g EXCEPT !.ack = "refused"]
              unheard == [g EXCEPT !.answered = TRUE, !.ack = "unheard"]
  <2>1. Gives(p, sent) \/ Gives(p, refused) \/ Gives(p, unheard) \/ UNCHANGED given
    BY <1>8 DEF Defer, g
  <2>2. sent \in GivenBounds /\ refused \in GivenBounds /\ unheard \in GivenBounds
    BY <1>3 DEF GivenBounds, Sending
  <2>. QED
    BY <1>4, <1>5, <2>1, <2>2
<1>9. CASE FinishEdit(p)
  BY <1>5, <1>9 DEF FinishEdit
<1>10. CASE LogCall(p)
  <2>. DEFINE h == [g EXCEPT !.logged = @ + 1]
  <2>1. Gives(p, h) /\ g.logged = 0
    BY <1>2, <1>10 DEF LogCall, g, InCourse
  <2>2. h \in GivenBounds
    BY <1>3, <2>1 DEF GivenBounds
  <2>. QED
    BY <1>4, <2>1, <2>2
<1>11. CASE ExecutePrefix(p)
  <2>. DEFINE k == [g EXCEPT !.ran = @ + 1]
              h == [k EXCEPT !.answered = TRUE]
  <2>1. Gives(p, [g EXCEPT !.ran = @ + 1, !.answered = TRUE]) /\ pc = "prefix"
    BY <1>11 DEF ExecutePrefix, At, g, pc
  <2>2. g.ran = 0
    BY <1>2, <2>1 DEF InCourse
  <2>3. k \in GivenBounds
    BY <1>3, <2>2 DEF GivenBounds
  <2>4. h \in GivenBounds
    BY <2>3 DEF GivenBounds
  <2>5. Gives(p, h)
    BY <2>1
  <2>. QED
    BY <1>4, <2>4, <2>5
<1>. QED
  BY <1>6, <1>7, <1>8, <1>9, <1>10, <1>11

LEMMA DispatchTypesStep ==
  ASSUME DispatchIInv, DispatchIInv', DispatchTypeOK, [DispatchNext]_<<env, dispatchVars>>
  PROVE  DispatchTypeOK'
<1>1. given \in [Call -> GivenBounds] /\ bucket.last \in Time /\ now \in Time
  BY DEF DispatchTypeOK, GivenBounds, DispatchIInv, HandlersTypeOK
<1>2. given' \in [Call -> GivenBounds]
  <2>1. ASSUME NEW p \in Proc, SlashCommand(p) \/ PrefixCommand(p) PROVE given' \in [Call -> GivenBounds]
    <3>1. CASE UNCHANGED given
      BY <1>1, <3>1
    <3>2. ASSUME NEW kind \in {"unknown", "fast", "slow", "prefix"}, NEW pc, Receive(p, kind, pc)
          PROVE  given' \in [Call -> GivenBounds]
      BY <1>1, <3>2, BoundsReceived
    <3>. QED
      BY <2>1, <3>1, <3>2 DEF SlashCommand, PrefixCommand
  <2>2. CASE UNCHANGED given
    BY <1>1, <2>2
  <2>3. CASE DispatchTick \/ UNCHANGED <<env, dispatchVars>>
    BY <2>2, <2>3 DEF DispatchTick, dispatchVars
  <2>. QED
    BY <1>1, <2>1, <2>3, BoundsTaken DEF DispatchNext
<1>3. bucket'.last \in Time
  <2>1. ASSUME NEW p \in Proc, PrefixCommand(p) PROVE bucket'.last = now
    BY <2>1 DEF PrefixCommand
  <2>2. ASSUME UNCHANGED bucket PROVE bucket'.last \in Time
    BY <1>1, <2>2
  <2>. QED
    BY <1>1, <2>1, <2>2 DEF DispatchNext, SlashCommand, Execute, FastRespond, Defer, FinishEdit, LogCall,
           ExecutePrefix, DispatchTick, dispatchVars
<1>4. handling' \in [Proc -> HandlingType] /\ bucket' \in [tokens : 0..TokenCap * TokenCost, last : Nat]
  BY DEF DispatchIInv, DispatchTyped
<1>5. bucket' \in [tokens : 0..TokenCap * TokenCost, last : Time]
  BY <1>3, <1>4
<1>. QED
  BY <1>2, <1>4, <1>5 DEF DispatchTypeOK, HandlingType, GivenBounds

---------------------------------------------------------------------------
(* Experience: the types.                                                    *)
AwardBounds == [pc : {"idle", "read", "write"}, at : Time, cur : Nat]

LEMMA RestingBound == Resting \in AwardBounds
BY HandlersAssumption DEF Resting, AwardBounds, Time

LEMMA LevelsRests == LevelsInit => LevelsTypeOK
<1>. SUFFICES ASSUME LevelsInit PROVE LevelsTypeOK
  OBVIOUS
<1>1. start \in Nat /\ XPLevelFor(start) \in Nat
  BY LevelsAssumption, LevelCovers DEF LevelsInit
<1>2. row \in [xp : Nat, level : Nat, last : Time \cup {Never}] /\ awarding \in [Proc -> AwardBounds]
  BY <1>1, RestingBound DEF LevelsInit
<1>. QED
  BY <1>2 DEF LevelsInit, LevelsTypeOK, AwardBounds

LEMMA LevelsTypesStep ==
  ASSUME LevelsIInv, LevelsIInv', LevelsTypeOK, [LevelsNext]_<<env, levelVars>>
  PROVE  LevelsTypeOK'
<1>1. now \in Time /\ awarding \in [Proc -> AwardBounds] /\ row.last \in Time \cup {Never}
      /\ gate \in Time \cup {Never} /\ start \in StartXP /\ slow \in BOOLEAN /\ crowded \in BOOLEAN
  BY DEF LevelsIInv, HandlersTypeOK, LevelsTypeOK, AwardBounds
<1>2. row' \in [xp : Nat, level : Nat, last : Nat \cup {Never}] /\ granted' \in Nat
  BY DEF LevelsIInv, LevelsTyped
<1>3. start' = start /\ (gate' = gate \/ gate' = now \/ gate' = Never)
  BY DEF LevelsNext, PassGate, AwardRead, AwardWrite, LevelsTick, LevelsRestart, levelVars
<1>4. ASSUME NEW p \in Proc, PassGate(p) PROVE LevelsTypeOK'
  <2>. DEFINE it == [pc |-> "read", at |-> now, cur |-> 0]
  <2>1. it \in AwardBounds
    BY <1>1 DEF AwardBounds
  <2>2. awarding' = [awarding EXCEPT ![p] = it] /\ UNCHANGED <<row, slow, crowded>>
    BY <1>4 DEF PassGate
  <2>. HIDE DEF it
  <2>3. awarding' \in [Proc -> AwardBounds]
    BY <1>1, <2>1, <2>2
  <2>. QED
    BY <1>1, <1>2, <1>3, <2>2, <2>3 DEF LevelsTypeOK, AwardBounds
<1>5. ASSUME NEW p \in Proc, Idle(p) PROVE awarding' \in [Proc -> AwardBounds]
  BY <1>1, <1>5, RestingBound DEF Idle
<1>6. ASSUME NEW p \in Proc, AwardRead(p) PROVE LevelsTypeOK'
  <2>1. UNCHANGED <<row, slow, crowded>>
    BY <1>6 DEF AwardRead
  <2>2. awarding' \in [Proc -> AwardBounds]
    <3>1. CASE Idle(p)
      BY <1>5, <3>1
    <3>2. CASE ~Idle(p)
      <4>. DEFINE x == [awarding[p] EXCEPT !.pc = "write"]
                  y == [x EXCEPT !.cur = row.xp]
      <4>1. awarding' = [awarding EXCEPT ![p] = y]
        BY <1>6, <3>2 DEF AwardRead
      <4>2. row.xp \in Nat
        BY DEF LevelsTypeOK
      <4>3. x \in AwardBounds
        BY <1>1 DEF AwardBounds
      <4>4. y \in AwardBounds
        BY <4>2, <4>3 DEF AwardBounds
      <4>. HIDE DEF y
      <4>. QED
        BY <1>1, <4>1, <4>4
    <3>. QED
      BY <3>1, <3>2
  <2>. QED
    BY <1>1, <1>2, <1>3, <2>1, <2>2 DEF LevelsTypeOK, AwardBounds
<1>7. ASSUME NEW p \in Proc, AwardWrite(p) PROVE LevelsTypeOK'
  <2>1. awarding' \in [Proc -> AwardBounds]
    BY <1>5, <1>7 DEF AwardWrite
  <2>2. row'.last \in Time \cup {Never} /\ slow' \in BOOLEAN /\ crowded' \in BOOLEAN
    <3>1. CASE UNCHANGED <<row, slow, crowded>>
      BY <1>1, <3>1
    <3>2. CASE ~UNCHANGED <<row, slow, crowded>>
      <4>1. PICK delta \in Amounts :
              LET xp == awarding[p].cur + delta IN
                /\ row' = [xp |-> xp, level |-> XPLevelFor(xp), last |-> now]
                /\ slow' = (slow \/ now >= awarding[p].at + GateTTL)
                /\ crowded' = (crowded \/ Within(row.last, XPCooldown))
        BY <1>7, <3>2 DEF AwardWrite
      <4>2. row'.last = now
        BY <4>1
      <4>3. slow' \in BOOLEAN
        BY Zenon, <4>1
      <4>4. crowded' \in BOOLEAN
        BY Zenon, <4>1
      <4>. QED
        BY <1>1, <4>2, <4>3, <4>4
    <3>. QED
      BY <3>1, <3>2
  <2>3. row' \in [xp : Nat, level : Nat, last : Time \cup {Never}]
    BY <1>2, <2>2
  <2>. QED
    BY <1>1, <1>2, <1>3, <2>1, <2>2, <2>3 DEF LevelsTypeOK, AwardBounds
<1>8. CASE LevelsTick \/ LevelsRestart \/ UNCHANGED <<env, levelVars>>
  <2>1. UNCHANGED <<row, slow, crowded>> /\ (awarding' = awarding \/ awarding' = [p \in Proc |-> Resting])
    BY <1>8 DEF LevelsTick, LevelsRestart, levelVars
  <2>2. awarding' \in [Proc -> AwardBounds]
    BY <1>1, <2>1, RestingBound
  <2>. QED
    BY <1>1, <1>2, <1>3, <2>1, <2>2 DEF LevelsTypeOK, AwardBounds
<1>. QED
  BY <1>4, <1>6, <1>7, <1>8 DEF LevelsNext

---------------------------------------------------------------------------
(* Polls: the types.                                                         *)
LEMMA UnpolledFields == Unpolled.poll = 0 /\ Unpolled.pc = "idle"
BY DEF Unpolled

LEMMA PollsRests == PollsInit => PollsTypeOK
<1>. SUFFICES ASSUME PollsInit PROVE PollsTypeOK
  OBVIOUS
<1>1. polls = <<>> /\ pollDoubt = <<>> /\ DOMAIN polls = {} /\ Len(polls) = 0 /\ active = {} /\ opened = {}
  BY DEF PollsInit
<1>2. \A p \in Proc : polling[p] = Unpolled /\ polling[p].poll = 0
  BY UnpolledFields DEF PollsInit
<1>3. polling \in [Proc -> PollingType]
  BY UnpolledTyped DEF PollsInit
<1>4. polling \in [Proc -> [pc : {"idle", "post", "create", "render", "edit", "end"},
                            poll : 0..Len(polls), ends : Nat, read : Ballots]]
  BY <1>1, <1>2, <1>3 DEF PollingType
<1>5. pollDoubt \in [DOMAIN polls -> SUBSET PollReasons] /\ polls \in Seq(PollType)
  BY <1>1
<1>6. Cardinality(active) <= MaxActive
  BY <1>1, FS_EmptySet, PollsAssumption
<1>. QED
  BY <1>1, <1>4, <1>5, <1>6 DEF PollsTypeOK, PollType, PollReasons

(* Who stands nowhere with a poll has none, or is where they were.           *)
LEMMA PollsFree ==
  ASSUME PollsIInv, [PollsNext]_<<env, pollVars>>, NEW q \in Proc,
         polling'[q].pc \in {"idle", "post"}
  PROVE  polling'[q] = polling[q] \/ polling'[q].poll = 0
<1>1. polling \in [Proc -> PollingType] /\ Len(polls) \in Nat
  BY PollsFinite DEF PollsIInv, PollsTyped
<1>2. ASSUME NEW p \in Proc, PollIdle(p) PROVE polling'[q] = polling[q] \/ polling'[q].poll = 0
  BY <1>1, <1>2, UnpolledFields DEF PollIdle
<1>3. ASSUME NEW p \in Proc, StartPoll(p) PROVE polling'[q] = polling[q] \/ polling'[q].poll = 0
  <2>1. PICK d \in Lasts : polling' = [polling EXCEPT ![p] = [Unpolled EXCEPT !.pc = "post", !.ends = now + d]]
    BY <1>3 DEF StartPoll
  <2>2. [Unpolled EXCEPT !.pc = "post", !.ends = now + d].poll = 0
    BY DEF Unpolled
  <2>. QED
    BY <1>1, <2>1, <2>2
<1>4. ASSUME NEW p \in Proc, PostPoll(p) PROVE polling'[q] = polling[q] \/ polling'[q].poll = 0
  <2>1. CASE PollIdle(p)
    BY <1>2, <2>1
  <2>2. CASE polling' = [polling EXCEPT ![p].pc = "create", ![p].poll = Len(polls) + 1]
    <3>1. polling'[p].pc = "create"
      BY <1>1, <2>2 DEF PollingType
    <3>2. q # p => polling'[q] = polling[q]
      BY <1>1, <2>2
    <3>. QED
      BY <3>1, <3>2
  <2>. QED
    BY <1>4, <2>1, <2>2 DEF PostPoll
<1>5. CASE PollsGone
  BY <1>5, UnpolledFields DEF PollsGone
<1>6. ASSUME NEW p \in Proc, PollVote(p) PROVE polling'[q] = polling[q] \/ polling'[q].poll = 0
  <2>1. CASE PollsGone
    BY <1>5, <2>1
  <2>2. CASE \E i \in active : \E b \in Ballots : polling' = [polling EXCEPT ![p] = [Unpolled EXCEPT !.pc = "end", !.poll = i]]
                  \/ polling' = [polling EXCEPT ![p] = [Unpolled EXCEPT !.pc = "render", !.poll = i, !.read = b]]
    <3>1. PICK i \in active, b \in Ballots : polling' = [polling EXCEPT ![p] = [Unpolled EXCEPT !.pc = "end", !.poll = i]]
                  \/ polling' = [polling EXCEPT ![p] = [Unpolled EXCEPT !.pc = "render", !.poll = i, !.read = b]]
      BY <2>2
    <3>2. /\ [Unpolled EXCEPT !.pc = "end", !.poll = i].pc = "end"
          /\ [Unpolled EXCEPT !.pc = "render", !.poll = i, !.read = b].pc = "render"
      BY DEF Unpolled
    <3>. QED
      BY <1>1, <3>1, <3>2
  <2>3. PollsIInv => active \subseteq DOMAIN polls
    BY DEF PollsIInv, PollsTyped
  <2>4. \A i \in active, v \in Voter, o \in Option :
           polls' = [polls EXCEPT ![i].votes[v] = o] => polls'[i].votes \in Ballots
    <3>. SUFFICES ASSUME NEW i \in active, NEW v \in Voter, NEW o \in Option, polls' = [polls EXCEPT ![i].votes[v] = o]
                  PROVE  polls'[i].votes \in Ballots
      OBVIOUS
    <3>1. i \in DOMAIN polls /\ polls[i] \in PollType
      BY <2>3, PollsFinite DEF PollsIInv
    <3>2. polls'[i].votes = [polls[i].votes EXCEPT ![v] = o]
      BY <3>1 DEF PollsIInv, PollsTyped, PollType
    <3>. QED
      BY <3>1, <3>2 DEF PollType, Ballots
  <2>. QED
    BY <1>6, <2>1, <2>2, <2>4, UnpolledTyped DEF PollVote
<1>7. ASSUME NEW p \in Proc, RenderPoll(p) PROVE polling'[q] = polling[q] \/ polling'[q].poll = 0
  <2>1. PICK seen \in Ballots : polling' = [polling EXCEPT ![p].pc = "edit", ![p].read = seen]
    BY <1>7 DEF RenderPoll
  <2>2. polling'[p].pc = "edit"
    BY <1>1, <2>1 DEF PollingType
  <2>3. q # p => polling'[q] = polling[q]
    BY <1>1, <2>1
  <2>. QED
    BY <2>2, <2>3
<1>8. ASSUME NEW p \in Proc, CreatePoll(p) \/ EndPoll(p) \/ EditPollMessage(p) PROVE polling'[q] = polling[q] \/ polling'[q].poll = 0
  BY <1>2, <1>8 DEF CreatePoll, EndPoll, EditPollMessage
<1>9. CASE PollTick \/ PollRestart \/ UNCHANGED <<env, pollVars>>
  BY <1>5, <1>9 DEF PollTick, PollRestart, pollVars
<1>. QED
  BY <1>3, <1>4, <1>6, <1>7, <1>8, <1>9 DEF PollsNext

LEMMA PollsGrow ==
  ASSUME PollsIInv, [PollsNext]_<<env, pollVars>>
  PROVE  Len(polls) <= Len(polls')
<1>1. Len(polls) \in Nat /\ polls \in Seq(PollType)
  BY PollsFinite DEF PollsIInv, PollsTyped
<1>2. CASE UNCHANGED polls
  BY <1>1, <1>2
<1>3. ASSUME NEW x, polls' = Append(polls, x) PROVE Len(polls) <= Len(polls')
  BY <1>1, <1>3
<1>4. ASSUME NEW i, NEW x, polls' = [polls EXCEPT ![i] = x] PROVE Len(polls) <= Len(polls')
  BY <1>1, <1>4
<1>5. ASSUME NEW p \in Proc, PollVote(p) PROVE Len(polls) <= Len(polls')
  <2>1. UNCHANGED polls \/ \E i \in active, v \in Voter, o \in Option : polls' = [polls EXCEPT ![i].votes[v] = o]
    BY <1>5 DEF PollVote
  <2>2. ASSUME NEW i, NEW v, NEW o, polls' = [polls EXCEPT ![i].votes[v] = o] PROVE Len(polls) <= Len(polls')
    BY <1>1, <2>2
  <2>. QED
    BY <1>2, <2>1, <2>2
<1>6. ASSUME NEW p \in Proc, EditPollMessage(p) PROVE Len(polls) <= Len(polls')
  <2>1. UNCHANGED polls \/ polls' = [polls EXCEPT ![polling[p].poll].shown = polling[p].read]
    BY <1>6 DEF EditPollMessage
  <2>2. ASSUME NEW i, NEW x, polls' = [polls EXCEPT ![i].shown = x] PROVE Len(polls) <= Len(polls')
    BY <1>1, <2>2
  <2>. QED
    BY <1>2, <2>1, <2>2
<1>7. ASSUME NEW p \in Proc, PostPoll(p) PROVE Len(polls) <= Len(polls')
  BY <1>2, <1>3, <1>7 DEF PostPoll
<1>. QED
  BY <1>2, <1>5, <1>6, <1>7 DEF PollsNext, StartPoll, CreatePoll, EndPoll, RenderPoll, PollTick, PollRestart, pollVars

LEMMA PollsTypesStep ==
  ASSUME PollsIInv, PollsIInv', PollsTypeOK, [PollsNext]_<<env, pollVars>>
  PROVE  PollsTypeOK'
<1>1. polling \in [Proc -> [pc : {"idle", "post", "create", "render", "edit", "end"},
                            poll : 0..Len(polls), ends : Nat, read : Ballots]]
  BY DEF PollsTypeOK
<1>2. polling' \in [Proc -> PollingType] /\ Len(polls)' \in Nat /\ DOMAIN polls' = 1..Len(polls')
  <2>1. PollsTyped'
    BY DEF PollsIInv
  <2>2. Len(polls') \in Nat /\ DOMAIN polls' = 1..Len(polls')
    BY <2>1 DEF PollsTyped
  <2>. QED
    BY <2>1, <2>2 DEF PollsTyped
<1>3. ASSUME NEW q \in Proc PROVE polling'[q].poll \in 0..Len(polls')
  <2>1. CASE polling'[q].pc \in {"idle", "post"}
    <3>1. Len(polls) \in Nat /\ polling[q].poll \in 0..Len(polls) /\ Len(polls) <= Len(polls')
      BY <1>1, PollsFinite, PollsGrow DEF PollsIInv
    <3>2. polling'[q] = polling[q] \/ polling'[q].poll = 0
      BY <2>1, PollsFree
    <3>. QED
      BY <1>2, <3>1, <3>2
  <2>2. CASE polling'[q].pc \notin {"idle", "post"}
    <3>1. polling'[q].pc \in {"create", "render", "edit", "end"}
      BY <1>2, <2>2 DEF PollingType
    <3>2. polling'[q].poll \in DOMAIN polls'
      BY <3>1 DEF PollsIInv, PollNamed
    <3>. QED
      BY <1>2, <3>2
  <2>. QED
    BY <2>1, <2>2
<1>4. polling' \in [Proc -> [pc : {"idle", "post", "create", "render", "edit", "end"},
                             poll : 0..Len(polls'), ends : Nat, read : Ballots]]
  BY <1>2, <1>3 DEF PollingType
<1>. QED
  BY <1>4 DEF PollsIInv, PollsTyped, PollsTypeOK, PollType, PollReasons

---------------------------------------------------------------------------
(* Counting goroutines by where they stand.                                  *)
StandAt(f, pcs) == {p \in Proc : f[p].pc \in pcs}
OneIn(pc, pcs) == IF pc \in pcs THEN 1 ELSE 0

LEMMA NobodyStands ==
  ASSUME NEW f, NEW pcs, \A p \in Proc : f[p].pc \notin pcs
  PROVE  IsFiniteSet(StandAt(f, pcs)) /\ Cardinality(StandAt(f, pcs)) = 0
<1>1. StandAt(f, pcs) = {}
  BY DEF StandAt
<1>. QED
  BY <1>1, FS_EmptySet

LEMMA OneMoves ==
  ASSUME NEW f, NEW g, NEW pcs, NEW p \in Proc, \A q \in Proc : q # p => g[q] = f[q],
         IsFiniteSet(StandAt(f, pcs))
  PROVE  /\ IsFiniteSet(StandAt(g, pcs))
         /\ Cardinality(StandAt(f, pcs)) \in Nat /\ Cardinality(StandAt(g, pcs)) \in Nat
         /\ Cardinality(StandAt(g, pcs)) + OneIn(f[p].pc, pcs) = Cardinality(StandAt(f, pcs)) + OneIn(g[p].pc, pcs)
<1>. DEFINE F == StandAt(f, pcs)
            G == StandAt(g, pcs)
<1>1. Cardinality(F) \in Nat
  BY FS_CardinalityType
<1>2. CASE f[p].pc \in pcs /\ g[p].pc \in pcs
  <2>1. G = F
    BY <1>2 DEF StandAt
  <2>. QED
    BY <1>1, <1>2, <2>1 DEF OneIn
<1>3. CASE f[p].pc \notin pcs /\ g[p].pc \notin pcs
  <2>1. G = F
    BY <1>3 DEF StandAt
  <2>. QED
    BY <1>1, <1>3, <2>1 DEF OneIn
<1>4. CASE f[p].pc \in pcs /\ g[p].pc \notin pcs
  <2>1. G = F \ {p} /\ p \in F
    BY <1>4 DEF StandAt
  <2>2. IsFiniteSet(G) /\ Cardinality(G) = Cardinality(F) - 1 /\ Cardinality(G) \in Nat
    BY <1>1, <2>1, FS_RemoveElement, FS_CardinalityType
  <2>. QED
    BY <1>1, <1>4, <2>2 DEF OneIn
<1>5. CASE f[p].pc \notin pcs /\ g[p].pc \in pcs
  <2>1. G = F \cup {p} /\ p \notin F
    BY <1>5 DEF StandAt
  <2>2. IsFiniteSet(G) /\ Cardinality(G) = Cardinality(F) + 1
    BY <1>1, <2>1, FS_AddElement
  <2>. QED
    BY <1>1, <1>5, <2>2 DEF OneIn
<1>. QED
  BY <1>2, <1>3, <1>4, <1>5

---------------------------------------------------------------------------
(* Starboard: the types.  Every call brings one star and one card at most:   *)
(* those still to come and those there are no more than the calls.           *)
WithStar == {"add"}
WithCard == {"add", "added", "post"}

StarBounds ==
    /\ IsFiniteSet(StandAt(starring, WithStar)) /\ Cardinality(StandAt(starring, WithStar)) + post.stars <= calls
    /\ IsFiniteSet(StandAt(starring, WithCard)) /\ Cardinality(StandAt(starring, WithCard)) + posted <= calls
    /\ post.board <= posted
    /\ \A p \in Proc : starring[p].stars <= MaxCalls /\ starring[p].board <= posted
    /\ \A c \in cards : c.id <= posted
    /\ starDoubt \subseteq {"crossed", "unrecorded", "undeleted", "moved"}

LEMMA UnstarredFields == Unstarred.pc = "idle" /\ Unstarred.stars = 0 /\ Unstarred.board = 0
BY DEF Unstarred, NoCard

LEMMA StarInitBounds == StarInit /\ calls \in Nat => StarBounds
<1>. SUFFICES ASSUME StarInit, calls \in Nat PROVE StarBounds
  OBVIOUS
<1>1. \A p \in Proc : starring[p] = Unstarred
  BY DEF StarInit
<1>2. \A p \in Proc : starring[p].pc \notin WithStar /\ starring[p].pc \notin WithCard
  BY <1>1, UnstarredFields DEF WithStar, WithCard
<1>3. post.stars = 0 /\ post.board = 0 /\ posted = 0 /\ cards = {} /\ starDoubt = {}
  BY DEF StarInit, NoCard
<1>. QED
  BY <1>1, <1>2, <1>3, NobodyStands, UnstarredFields, HandlersAssumption DEF StarBounds

LEMMA StarBoundsTyped == HandlersTypeOK /\ StarIInv /\ StarBounds => StarTypeOK
<1>. SUFFICES ASSUME HandlersTypeOK, StarIInv, StarBounds PROVE StarTypeOK
  OBVIOUS
<1>1. calls \in Nat /\ MaxCalls \in Nat /\ calls <= MaxCalls
  BY HandlersAssumption DEF HandlersTypeOK
<1>2. /\ post \in [stars : Nat, board : Nat] /\ posted \in Nat /\ starring \in [Proc -> StarType]
      /\ starConfig \in StarConfigs /\ \A c \in cards : c.id \in Nat /\ c.id # 0
  BY DEF StarIInv, StarTyped, NoCard
<1>3. Cardinality(StandAt(starring, WithStar)) \in Nat /\ Cardinality(StandAt(starring, WithCard)) \in Nat
  BY FS_CardinalityType DEF StarBounds
<1>4. post.stars <= MaxCalls /\ posted <= MaxCalls /\ post.board <= MaxCalls
  BY <1>1, <1>2, <1>3 DEF StarBounds
<1>5. post \in [stars : 0..MaxCalls, board : 0..MaxCalls] /\ posted \in 0..MaxCalls
  BY <1>1, <1>2, <1>4
<1>6. ASSUME NEW p \in Proc
      PROVE  starring[p] \in [pc : HandlesCard \cup {"idle", "add", "drop", "added", "dropped"},
                              cfg : StarConfigs, stars : 0..MaxCalls, board : 0..MaxCalls]
  <2>1. starring[p] \in StarType /\ starring[p].stars <= MaxCalls /\ starring[p].board <= posted
    BY <1>2 DEF StarBounds
  <2>. QED
    BY <1>1, <1>2, <1>4, <2>1 DEF StarType, StarSteps
<1>7. \A c \in cards : c.id \in 1..posted
  BY <1>2 DEF StarBounds
<1>8. starring \in [Proc -> [pc : HandlesCard \cup {"idle", "add", "drop", "added", "dropped"},
                              cfg : StarConfigs, stars : 0..MaxCalls, board : 0..MaxCalls]]
  BY <1>2, <1>6
<1>. QED
  BY <1>2, <1>5, <1>7, <1>8 DEF StarTypeOK, StarBounds

LEMMA StarRests == StarInit => StarTypeOK
<1>. SUFFICES ASSUME StarInit PROVE StarTypeOK
  OBVIOUS
<1>1. StarTyped
  BY StarInitIInv DEF StarIInv
<1>2. \A p \in Proc : starring[p] = Unstarred /\ starring[p] \in StarType
  BY <1>1 DEF StarInit, StarTyped
<1>3. starring \in [Proc -> [pc : HandlesCard \cup {"idle", "add", "drop", "added", "dropped"},
                              cfg : StarConfigs, stars : 0..MaxCalls, board : 0..MaxCalls]]
  BY <1>1, <1>2, UnstarredFields, HandlersAssumption DEF StarTyped, StarType, StarSteps
<1>. QED
  BY <1>3, HandlersAssumption DEF StarInit, StarTypeOK, NoCard

(* One goroutine moves, and what comes is paid for by it or by a call.       *)
StarPays(p, x) ==
    /\ starring' = [starring EXCEPT ![p] = x]
    /\ x.stars <= MaxCalls /\ x.board <= posted'
    /\ post' \in [stars : Nat, board : Nat] /\ posted' \in Nat /\ posted <= posted' /\ post'.board <= posted'
    /\ post'.stars + OneIn(x.pc, WithStar) + calls <= calls' + post.stars + OneIn(starring[p].pc, WithStar)
    /\ posted' + OneIn(x.pc, WithCard) + calls <= calls' + posted + OneIn(starring[p].pc, WithCard)
    /\ \A c \in cards' : c \in cards \/ c.id <= posted'
    /\ starDoubt' \subseteq {"crossed", "unrecorded", "undeleted", "moved"}

LEMMA PaidFor ==
  ASSUME NEW m \in Nat, NEW n \in Nat, NEW a \in Nat, NEW b \in Nat, NEW r \in Nat, NEW s \in Nat,
         NEW c \in Nat, NEW d \in Nat, n + a = m + b, m + r <= c, s + b + c <= d + r + a
  PROVE  n + s <= d
OBVIOUS

LEMMA StarBoundsMoved ==
  ASSUME StarIInv, StarBounds, calls \in Nat, calls' \in Nat, NEW p \in Proc, NEW x, StarPays(p, x)
  PROVE  StarBounds'
<1>1. /\ post \in [stars : Nat, board : Nat] /\ posted \in Nat /\ starring \in [Proc -> StarType]
      /\ \A c \in cards : c.id \in Nat
  BY DEF StarIInv, StarTyped
<1>2. starring'[p] = x /\ \A q \in Proc : q # p => starring'[q] = starring[q]
  BY <1>1 DEF StarPays
<1>3. \A pc, pcs : OneIn(pc, pcs) \in Nat
  BY DEF OneIn
<1>10. posted' \in Nat /\ posted <= posted' /\ x.stars <= MaxCalls /\ x.board <= posted'
  BY DEF StarPays
<1>4. IsFiniteSet(StandAt(starring', WithStar)) /\ Cardinality(StandAt(starring', WithStar)) + post'.stars <= calls'
  <2>. DEFINE a == OneIn(starring[p].pc, WithStar)
              b == OneIn(x.pc, WithStar)
              m == Cardinality(StandAt(starring, WithStar))
              n == Cardinality(StandAt(starring', WithStar))
  <2>0. IsFiniteSet(StandAt(starring, WithStar))
    BY DEF StarBounds
  <2>1. IsFiniteSet(StandAt(starring', WithStar)) /\ m \in Nat /\ n \in Nat /\ n + a = m + b
    BY <1>2, <2>0, OneMoves
  <2>2. a \in Nat /\ b \in Nat /\ post.stars \in Nat /\ post'.stars \in Nat
    BY <1>1, <1>3 DEF StarPays
  <2>3. m + post.stars <= calls /\ post'.stars + b + calls <= calls' + post.stars + a
    BY DEF StarBounds, StarPays
  <2>. HIDE DEF a, b, m, n
  <2>4. n + post'.stars <= calls'
    BY <2>1, <2>2, <2>3, PaidFor
  <2>. QED
    BY <2>1, <2>4 DEF n
<1>5. IsFiniteSet(StandAt(starring', WithCard)) /\ Cardinality(StandAt(starring', WithCard)) + posted' <= calls'
  <2>. DEFINE a == OneIn(starring[p].pc, WithCard)
              b == OneIn(x.pc, WithCard)
              m == Cardinality(StandAt(starring, WithCard))
              n == Cardinality(StandAt(starring', WithCard))
  <2>0. IsFiniteSet(StandAt(starring, WithCard))
    BY DEF StarBounds
  <2>1. IsFiniteSet(StandAt(starring', WithCard)) /\ m \in Nat /\ n \in Nat /\ n + a = m + b
    BY <1>2, <2>0, OneMoves
  <2>2. a \in Nat /\ b \in Nat
    BY <1>3
  <2>3. m + posted <= calls /\ posted' + b + calls <= calls' + posted + a
    BY DEF StarBounds, StarPays
  <2>. HIDE DEF a, b, m, n
  <2>4. posted \in Nat /\ posted' \in Nat
    BY <1>1, <1>10
  <2>5. n + posted' <= calls'
    BY <2>1, <2>2, <2>3, <2>4, PaidFor
  <2>. QED
    BY <2>1, <2>5 DEF n
<1>6. ASSUME NEW q \in Proc PROVE starring'[q].stars <= MaxCalls /\ starring'[q].board <= posted'
  <2>1. CASE q = p
    BY <1>2, <1>10, <2>1
  <2>2. CASE q # p
    <3>1. starring[q].stars <= MaxCalls /\ starring[q].board <= posted /\ starring[q].board \in Nat
      BY <1>1 DEF StarBounds, StarType
    <3>. QED
      BY <1>1, <1>2, <1>10, <2>2, <3>1
  <2>. QED
    BY <2>1, <2>2
<1>7. \A c \in cards' : c.id <= posted'
  BY <1>1, <1>10 DEF StarBounds, StarPays
<1>. QED
  BY <1>4, <1>5, <1>6, <1>7 DEF StarBounds, StarPays

LEMMA StarBoundsStep ==
  ASSUME HandlersTypeOK, HandlersTypeOK', StarIInv, StarBounds, [StarNext]_<<env, starVars>>
  PROVE  StarBounds'
<1>1. calls \in Nat /\ calls' \in Nat /\ MaxCalls \in Nat /\ calls <= MaxCalls
  BY HandlersAssumption DEF HandlersTypeOK
<1>2. /\ post \in [stars : Nat, board : Nat] /\ post.stars \in Nat /\ post.board \in Nat
      /\ posted \in Nat /\ starring \in [Proc -> StarType]
      /\ post.board <= posted /\ starDoubt \subseteq {"crossed", "unrecorded", "undeleted", "moved"}
  BY DEF StarIInv, StarTyped, StarBounds
<1>3. post.stars <= MaxCalls
  <2>1. Cardinality(StandAt(starring, WithStar)) \in Nat
    BY FS_CardinalityType DEF StarBounds
  <2>. QED
    BY <1>1, <1>2, <2>1 DEF StarBounds
<1>4. \A p \in Proc : starring[p] \in StarType /\ starring[p].board \in Nat /\ starring[p].board <= posted
                      /\ starring[p].stars <= MaxCalls
  BY <1>2 DEF StarBounds, StarType
<1>5. ASSUME NEW p \in Proc, StarIdle(p), UNCHANGED <<post, cards, posted, calls>>,
             starDoubt' \subseteq {"crossed", "unrecorded", "undeleted", "moved"}
      PROVE  StarBounds'
  <2>1. starring' = [starring EXCEPT ![p] = Unstarred]
    BY <1>5 DEF StarIdle
  <2>2. Unstarred.stars <= MaxCalls /\ Unstarred.board <= posted' /\ OneIn(Unstarred.pc, WithStar) = 0
        /\ OneIn(Unstarred.pc, WithCard) = 0
    BY <1>1, <1>2, <1>5, UnstarredFields DEF OneIn, WithStar, WithCard
  <2>3. OneIn(starring[p].pc, WithStar) \in Nat /\ OneIn(starring[p].pc, WithCard) \in Nat
    BY DEF OneIn
  <2>4. /\ post'.stars + OneIn(Unstarred.pc, WithStar) + calls <= calls' + post.stars + OneIn(starring[p].pc, WithStar)
        /\ posted' + OneIn(Unstarred.pc, WithCard) + calls <= calls' + posted + OneIn(starring[p].pc, WithCard)
    BY <1>1, <1>2, <1>5, <2>2, <2>3
  <2>5. StarPays(p, Unstarred)
    BY <1>1, <1>2, <1>5, <2>1, <2>2, <2>4 DEF StarPays
  <2>. QED
    BY <1>1, <2>5, StarBoundsMoved
<1>6. ASSUME NEW p \in Proc, StarEvent(p) PROVE StarBounds'
  <2>1. PICK pc \in {"add", "drop"} :
          starring' = [starring EXCEPT ![p] = [Unstarred EXCEPT !.pc = pc, !.cfg = starConfig]]
    BY <1>6 DEF StarEvent
  <2>. DEFINE x == [Unstarred EXCEPT !.pc = pc, !.cfg = starConfig]
  <2>2. x.pc = pc /\ x.stars = 0 /\ x.board = 0
    BY DEF Unstarred, NoCard
  <2>3. starring' = [starring EXCEPT ![p] = x]
    BY <2>1
  <2>. HIDE DEF x
  <2>4. calls' = calls + 1 /\ UNCHANGED <<post, cards, posted, starDoubt>> /\ starring[p].pc = "idle"
    BY <1>6 DEF StarEvent, Called
  <2>5. OneIn(x.pc, WithStar) <= 1 /\ OneIn(x.pc, WithCard) <= 1 /\ OneIn(starring[p].pc, WithStar) = 0
        /\ OneIn(starring[p].pc, WithCard) = 0 /\ OneIn(x.pc, WithStar) \in Nat /\ OneIn(x.pc, WithCard) \in Nat
    BY <2>4 DEF OneIn, WithStar, WithCard
  <2>6. /\ post'.stars + OneIn(x.pc, WithStar) + calls <= calls' + post.stars + OneIn(starring[p].pc, WithStar)
        /\ posted' + OneIn(x.pc, WithCard) + calls <= calls' + posted + OneIn(starring[p].pc, WithCard)
    BY <1>1, <1>2, <2>4, <2>5
  <2>7. StarPays(p, x)
    BY <1>1, <1>2, <2>2, <2>3, <2>4, <2>6 DEF StarPays
  <2>. QED
    BY <1>1, <2>7, StarBoundsMoved
<1>7. ASSUME NEW p \in Proc, CountStar(p) PROVE StarBounds'
  <2>1. starring[p].pc \in {"add", "drop"} /\ UNCHANGED <<cards, posted, starDoubt, calls>>
    BY <1>7 DEF CountStar, env, Fault
  <2>2. CASE StarIdle(p) /\ UNCHANGED post
    BY <1>2, <1>5, <2>1, <2>2
  <2>3. CASE /\ post' = [post EXCEPT !.stars = IF starring[p].pc = "add" THEN @ + 1 ELSE StarLess(@)]
             /\ StarGoto(p, IF starring[p].pc = "add" THEN "added" ELSE "dropped")
    <3>. DEFINE x == [starring[p] EXCEPT !.pc = IF starring[p].pc = "add" THEN "added" ELSE "dropped"]
    <3>1. x.pc = (IF starring[p].pc = "add" THEN "added" ELSE "dropped") /\ x.stars = starring[p].stars /\ x.board = starring[p].board
      BY <1>4 DEF StarType
    <3>2. starring' = [starring EXCEPT ![p] = x]
      BY <2>3 DEF StarGoto
    <3>. HIDE DEF x
    <3>3. post' \in [stars : Nat, board : Nat] /\ post'.board = post.board
          /\ post'.stars = IF starring[p].pc = "add" THEN post.stars + 1 ELSE StarLess(post.stars)
      BY <1>2, <2>3 DEF StarLess
    <3>4. CASE starring[p].pc = "add"
      <4>1. OneIn(x.pc, WithStar) = 0 /\ OneIn(x.pc, WithCard) = 1
            /\ OneIn(starring[p].pc, WithStar) = 1 /\ OneIn(starring[p].pc, WithCard) = 1
        BY <3>1, <3>4 DEF OneIn, WithStar, WithCard
      <4>2. /\ post'.stars + OneIn(x.pc, WithStar) + calls <= calls' + post.stars + OneIn(starring[p].pc, WithStar)
            /\ posted' + OneIn(x.pc, WithCard) + calls <= calls' + posted + OneIn(starring[p].pc, WithCard)
        BY <1>1, <1>2, <2>1, <3>3, <3>4, <4>1
      <4>90. StarPays(p, x)
        BY <1>1, <1>2, <1>4, <2>1, <3>1, <3>2, <3>3, <4>2 DEF StarPays
      <4>. QED
        BY <1>1, <4>90, StarBoundsMoved
    <3>5. CASE starring[p].pc = "drop"
      <4>1. OneIn(x.pc, WithStar) = 0 /\ OneIn(x.pc, WithCard) = 0
            /\ OneIn(starring[p].pc, WithStar) = 0 /\ OneIn(starring[p].pc, WithCard) = 0
        BY <3>1, <3>5 DEF OneIn, WithStar, WithCard
      <4>2. /\ post'.stars + OneIn(x.pc, WithStar) + calls <= calls' + post.stars + OneIn(starring[p].pc, WithStar)
            /\ posted' + OneIn(x.pc, WithCard) + calls <= calls' + posted + OneIn(starring[p].pc, WithCard)
        BY <1>1, <1>2, <2>1, <3>3, <3>5, <4>1 DEF StarLess
      <4>90. StarPays(p, x)
        BY <1>1, <1>2, <1>4, <2>1, <3>1, <3>2, <3>3, <4>2 DEF StarPays
      <4>. QED
        BY <1>1, <4>90, StarBoundsMoved
    <3>. QED
      BY <2>1, <3>4, <3>5
  <2>. QED
    BY <1>7, <2>2, <2>3 DEF CountStar
<1>8. ASSUME NEW p \in Proc, ReadStars(p) PROVE StarBounds'
  <2>. DEFINE next == IF starring[p].pc = "added" THEN BumpDecision(post.stars, post.board, starring[p].cfg)
                      ELSE DropDecision(post.stars, post.board)
  <2>1. starring[p].pc \in {"added", "dropped"} /\ UNCHANGED <<post, cards, posted, calls>>
    BY <1>8 DEF ReadStars, env, Fault
  <2>2. starDoubt' \subseteq {"crossed", "unrecorded", "undeleted", "moved"}
    BY <1>2, <1>8 DEF ReadStars, Doubts, Crossing
  <2>3. CASE StarIdle(p)
    BY <1>5, <2>1, <2>2, <2>3
  <2>4. CASE ~StarIdle(p)
    <3>1. next \in HandlesCard /\ starring' = [starring EXCEPT ![p].pc = next, ![p].stars = post.stars, ![p].board = post.board]
      BY <1>8, <2>4 DEF ReadStars
    <3>2. next = "post" => starring[p].pc = "added"
      BY <2>1 DEF DropDecision
    <3>. HIDE DEF next
    <3>. DEFINE x1 == [starring[p] EXCEPT !.pc = next]
                x2 == [x1 EXCEPT !.stars = post.stars]
                x == [x2 EXCEPT !.board = post.board]
    <3>3. x1 \in StarType /\ x1.pc = next
      BY <1>4, <3>1 DEF StarType, StarSteps
    <3>4. x2 \in StarType /\ x2.pc = next /\ x2.stars = post.stars
      <4>. HIDE DEF x1
      <4>. QED
        BY <1>2, <3>3 DEF StarType
    <3>5. x.pc = next /\ x.stars = post.stars /\ x.board = post.board
      <4>. HIDE DEF x2
      <4>. QED
        BY <3>4 DEF StarType
    <3>6. starring' = [starring EXCEPT ![p] = x]
      BY <3>1
    <3>. HIDE DEF x
    <3>7. OneIn(x.pc, WithStar) = 0 /\ OneIn(starring[p].pc, WithStar) = 0
          /\ OneIn(x.pc, WithCard) <= OneIn(starring[p].pc, WithCard)
          /\ OneIn(x.pc, WithCard) \in Nat /\ OneIn(starring[p].pc, WithCard) \in Nat
      BY <2>1, <3>1, <3>2, <3>5 DEF OneIn, WithStar, WithCard, HandlesCard
    <3>8. /\ post'.stars + OneIn(x.pc, WithStar) + calls <= calls' + post.stars + OneIn(starring[p].pc, WithStar)
          /\ posted' + OneIn(x.pc, WithCard) + calls <= calls' + posted + OneIn(starring[p].pc, WithCard)
      BY <1>1, <1>2, <2>1, <3>7
    <3>90. StarPays(p, x)
      BY <1>1, <1>2, <1>3, <2>1, <2>2, <3>5, <3>6, <3>8 DEF StarPays
    <3>. QED
      BY <1>1, <3>90, StarBoundsMoved
  <2>. QED
    BY <2>3, <2>4
<1>9. ASSUME NEW p \in Proc, PostCard(p) PROVE StarBounds'
  <2>1. starring[p].pc = "post" /\ UNCHANGED <<post, calls>>
    BY <1>9 DEF PostCard, env, Fault
  <2>2. CASE StarIdle(p) /\ UNCHANGED <<cards, posted, starDoubt>>
    BY <1>2, <1>5, <2>1, <2>2
  <2>4. CASE StarIdle(p) /\ PostsCard(p) /\ Doubts({"unrecorded"})
    <3>1. /\ posted' = posted + 1 /\ cards' = cards \cup {[channel |-> starring[p].cfg.channel, id |-> posted + 1]}
          /\ starring' = [starring EXCEPT ![p] = Unstarred]
      BY <2>4 DEF PostsCard, StarIdle
    <3>2. Unstarred.stars <= MaxCalls /\ Unstarred.board <= posted' /\ OneIn(Unstarred.pc, WithStar) = 0
          /\ OneIn(Unstarred.pc, WithCard) = 0
      BY <1>1, <1>2, <3>1, UnstarredFields DEF OneIn, WithStar, WithCard
    <3>3. OneIn(starring[p].pc, WithStar) = 0 /\ OneIn(starring[p].pc, WithCard) = 1
      BY <2>1 DEF OneIn, WithStar, WithCard
    <3>4. /\ post'.stars + OneIn(Unstarred.pc, WithStar) + calls <= calls' + post.stars + OneIn(starring[p].pc, WithStar)
          /\ posted' + OneIn(Unstarred.pc, WithCard) + calls <= calls' + posted + OneIn(starring[p].pc, WithCard)
      BY <1>1, <1>2, <2>1, <3>1, <3>2, <3>3
    <3>5. posted' \in Nat /\ posted <= posted' /\ post'.board <= posted'
      BY <1>2, <2>1, <3>1
    <3>6. \A c \in cards' : c \in cards \/ c.id <= posted'
      BY <1>2, <3>1
    <3>7. starDoubt' \subseteq {"crossed", "unrecorded", "undeleted", "moved"}
      BY <1>2, <2>4 DEF Doubts
    <3>8. StarPays(p, Unstarred)
      BY <1>1, <1>2, <2>1, <3>1, <3>2, <3>4, <3>5, <3>6, <3>7 DEF StarPays
    <3>. QED
      BY <1>1, <3>8, StarBoundsMoved
  <2>3. CASE /\ posted' = posted + 1
             /\ cards' = cards \cup {[channel |-> starring[p].cfg.channel, id |-> posted + 1]}
             /\ starring' = [starring EXCEPT ![p].pc = "record", ![p].board = posted + 1]
             /\ UNCHANGED starDoubt
    <3>. DEFINE x1 == [starring[p] EXCEPT !.pc = "record"]
                x == [x1 EXCEPT !.board = posted + 1]
    <3>1. x1 \in StarType /\ x1.pc = "record" /\ x1.stars = starring[p].stars
      BY <1>4 DEF StarType, StarSteps, HandlesCard
    <3>2. x.pc = "record" /\ x.stars = starring[p].stars /\ x.board = posted + 1
      <4>. HIDE DEF x1
      <4>. QED
        BY <3>1 DEF StarType
    <3>3. starring' = [starring EXCEPT ![p] = x]
      BY <2>3
    <3>. HIDE DEF x
    <3>4. OneIn(x.pc, WithStar) = 0 /\ OneIn(starring[p].pc, WithStar) = 0
          /\ OneIn(x.pc, WithCard) = 0 /\ OneIn(starring[p].pc, WithCard) = 1
      BY <2>1, <3>2 DEF OneIn, WithStar, WithCard
    <3>5. /\ post'.stars + OneIn(x.pc, WithStar) + calls <= calls' + post.stars + OneIn(starring[p].pc, WithStar)
          /\ posted' + OneIn(x.pc, WithCard) + calls <= calls' + posted + OneIn(starring[p].pc, WithCard)
      BY <1>1, <1>2, <2>1, <2>3, <3>4
    <3>6. \A c \in cards' : c \in cards \/ c.id <= posted'
      BY <1>2, <2>3
    <3>7. posted' \in Nat /\ posted <= posted' /\ post'.board <= posted' /\ x.board <= posted'
      BY <1>2, <2>1, <2>3, <3>2
    <3>8. starDoubt' \subseteq {"crossed", "unrecorded", "undeleted", "moved"}
      BY <1>2, <2>3
    <3>90. StarPays(p, x)
      BY <1>1, <1>2, <1>4, <2>1, <3>2, <3>3, <3>5, <3>6, <3>7, <3>8 DEF StarPays
    <3>. QED
      BY <1>1, <3>90, StarBoundsMoved
  <2>. QED
    BY <1>9, <2>2, <2>3, <2>4 DEF PostCard, PostsCard
(* What ends at rest and leaves the counts alone but for the row's board.    *)
<1>10. ASSUME NEW p \in Proc, NEW b \in Nat, b <= posted, StarIdle(p), UNCHANGED <<cards, posted, calls, starDoubt>>,
              post' = [post EXCEPT !.board = b]
       PROVE  StarBounds'
  <2>1. starring' = [starring EXCEPT ![p] = Unstarred]
    BY <1>10 DEF StarIdle
  <2>2. Unstarred.stars <= MaxCalls /\ Unstarred.board <= posted' /\ OneIn(Unstarred.pc, WithStar) = 0
        /\ OneIn(Unstarred.pc, WithCard) = 0
    BY <1>1, <1>2, <1>10, UnstarredFields DEF OneIn, WithStar, WithCard
  <2>3. OneIn(starring[p].pc, WithStar) \in Nat /\ OneIn(starring[p].pc, WithCard) \in Nat
    BY DEF OneIn
  <2>4. post' \in [stars : Nat, board : Nat] /\ post'.stars = post.stars /\ post'.board = b
    BY <1>2, <1>10
  <2>5. /\ post'.stars + OneIn(Unstarred.pc, WithStar) + calls <= calls' + post.stars + OneIn(starring[p].pc, WithStar)
        /\ posted' + OneIn(Unstarred.pc, WithCard) + calls <= calls' + posted + OneIn(starring[p].pc, WithCard)
    BY <1>1, <1>2, <1>10, <2>2, <2>3, <2>4
  <2>6. StarPays(p, Unstarred)
    BY <1>1, <1>2, <1>10, <2>1, <2>2, <2>4, <2>5 DEF StarPays
  <2>. QED
    BY <1>1, <2>6, StarBoundsMoved
<1>11. ASSUME NEW p \in Proc, RecordCard(p) PROVE StarBounds'
  <2>1. StarIdle(p) /\ UNCHANGED <<cards, posted, calls>>
    BY <1>11 DEF RecordCard, env, Fault
  <2>2. CASE post' = [post EXCEPT !.board = starring[p].board] /\ UNCHANGED starDoubt
    BY <1>4, <1>10, <2>1, <2>2
  <2>3. CASE Doubts({"unrecorded"}) /\ UNCHANGED post
    BY <1>2, <1>5, <2>1, <2>3 DEF Doubts
  <2>. QED
    BY <1>11, <2>2, <2>3 DEF RecordCard
<1>12. ASSUME NEW p \in Proc, ClearCard(p) PROVE StarBounds'
  <2>1. StarIdle(p) /\ UNCHANGED <<cards, posted, calls, starDoubt>>
    BY <1>12 DEF ClearCard, env, Fault
  <2>2. CASE post' = [post EXCEPT !.board = NoCard]
    BY <1>2, <1>10, <2>1, <2>2 DEF NoCard
  <2>3. CASE UNCHANGED post
    BY <1>2, <1>5, <2>1, <2>3
  <2>. QED
    BY <1>12, <2>2, <2>3 DEF ClearCard
<1>13. ASSUME NEW p \in Proc, DeleteCard(p) PROVE StarBounds'
  <2>. DEFINE x == [starring[p] EXCEPT !.pc = "clear"]
  <2>1. /\ starring[p].pc = "delete" /\ starring' = [starring EXCEPT ![p] = x] /\ UNCHANGED <<post, posted, calls>>
        /\ \A c \in cards' : c \in cards
    BY <1>13 DEF DeleteCard, StarGoto, env, Fault
  <2>2. starDoubt' \subseteq {"crossed", "unrecorded", "undeleted", "moved"}
    BY <1>2, <1>13 DEF DeleteCard, Doubts
  <2>3. x.pc = "clear" /\ x.stars = starring[p].stars /\ x.board = starring[p].board
    BY <1>4 DEF StarType
  <2>. HIDE DEF x
  <2>4. OneIn(x.pc, WithStar) = 0 /\ OneIn(starring[p].pc, WithStar) = 0
        /\ OneIn(x.pc, WithCard) = 0 /\ OneIn(starring[p].pc, WithCard) = 0
    BY <2>1, <2>3 DEF OneIn, WithStar, WithCard
  <2>5. /\ post'.stars + OneIn(x.pc, WithStar) + calls <= calls' + post.stars + OneIn(starring[p].pc, WithStar)
        /\ posted' + OneIn(x.pc, WithCard) + calls <= calls' + posted + OneIn(starring[p].pc, WithCard)
    BY <1>1, <1>2, <2>1, <2>4
  <2>6. StarPays(p, x)
    BY <1>1, <1>2, <1>4, <2>1, <2>2, <2>3, <2>5 DEF StarPays
  <2>. QED
    BY <1>1, <2>6, StarBoundsMoved
<1>14. CASE ConfigureStarboard
  <2>1. UNCHANGED <<post, cards, posted, starring>> /\ calls <= calls'
    BY <1>1, <1>14 DEF ConfigureStarboard, Called
  <2>2. starDoubt' \subseteq {"crossed", "unrecorded", "undeleted", "moved"}
    BY <1>2, <1>14 DEF ConfigureStarboard, Doubts
  <2>3. Cardinality(StandAt(starring, WithStar)) \in Nat /\ Cardinality(StandAt(starring, WithCard)) \in Nat
    BY FS_CardinalityType DEF StarBounds
  <2>4. Cardinality(StandAt(starring, WithStar)) + post.stars <= calls'
        /\ Cardinality(StandAt(starring, WithCard)) + posted <= calls'
    BY <1>1, <1>2, <2>1, <2>3 DEF StarBounds
  <2>. QED
    BY <2>1, <2>2, <2>4 DEF StarBounds
<1>15. CASE StarRestart
  <2>1. UNCHANGED <<post, cards, posted, calls>> /\ starring' = [p \in Proc |-> Unstarred]
    BY <1>15 DEF StarRestart, Fault
  <2>2. starDoubt' \subseteq {"crossed", "unrecorded", "undeleted", "moved"}
    BY <1>2, <1>15 DEF StarRestart, Doubts
  <2>3. \A p \in Proc : starring'[p].pc \notin WithStar /\ starring'[p].pc \notin WithCard
                        /\ starring'[p].stars = 0 /\ starring'[p].board = 0
    BY <2>1, UnstarredFields DEF WithStar, WithCard
  <2>4. /\ IsFiniteSet(StandAt(starring', WithStar)) /\ Cardinality(StandAt(starring', WithStar)) = 0
        /\ IsFiniteSet(StandAt(starring', WithCard)) /\ Cardinality(StandAt(starring', WithCard)) = 0
    BY <2>3, NobodyStands
  <2>5. Cardinality(StandAt(starring, WithStar)) \in Nat /\ Cardinality(StandAt(starring, WithCard)) \in Nat
    BY FS_CardinalityType DEF StarBounds
  <2>6. 0 + post.stars <= calls /\ 0 + posted <= calls
    BY <1>1, <1>2, <2>5 DEF StarBounds
  <2>. QED
    BY <1>1, <1>2, <2>1, <2>2, <2>3, <2>4, <2>6 DEF StarBounds
<1>16. CASE UNCHANGED <<env, starVars>>
  <2>1. UNCHANGED <<starring, post, cards, posted, starDoubt, calls>>
    BY <1>16 DEF env, starVars
  <2>. QED
    BY <2>1 DEF StarBounds
<1>. QED
  BY <1>6, <1>7, <1>8, <1>9, <1>11, <1>12, <1>13, <1>14, <1>15, <1>16 DEF StarNext

---------------------------------------------------------------------------
(* Automation: the types.                                                    *)
EventRecord == [kind : Trigger, role : RuleRoles \cup {NoRole}, roles : SUBSET RuleRoles, has : SUBSET UNION Posts]
RunSteps == {"look", "query", "fill", "fillNone", "run"}
RuleSteps == RunSteps \cup {"idle", "swap", "autorole", "prime", "drop", "bust"}

RuleFits(x) ==
    /\ x.pc \in RuleSteps
    /\ x.pc \in RunSteps <=> x.events # <<>>
    /\ x.events \in Seq(EventRecord)
    /\ x.rules \in Tables
    /\ x.roles \subseteq RuleRoles

RuleBounds ==
    /\ ruleTable \in Tables
    /\ ruleCache \in [rules : Tables, failed : BOOLEAN, at : Time \cup {Never}]
    /\ knownRoles \subseteq RuleRoles
    /\ \A p \in Proc : RuleFits(automating[p])
    /\ settled \in BOOLEAN /\ misled \in BOOLEAN

LEMMA NothingFits == Nothing \in Tables
BY DEF Nothing, Tables

LEMMA UnautomatedFits == RuleFits(Unautomated)
<1>1. /\ Unautomated.pc = "idle" /\ Unautomated.events = <<>> /\ Unautomated.rules = Nothing /\ Unautomated.roles = {}
  BY DEF Unautomated
<1>. QED
  BY <1>1, NothingFits DEF RuleFits, RuleSteps, RunSteps

Looking(x, changes, sure) == [x EXCEPT !.pc = "look", !.events = changes, !.sure = sure]
Starting(x, pc, update, roles) == [x EXCEPT !.pc = pc, !.update = update, !.roles = roles]

LEMMA LookingIs ==
  ASSUME NEW x, Fields(x), NEW changes, NEW sure, NEW y, y = Looking(x, changes, sure)
  PROVE  y.pc = "look" /\ y.roles = x.roles /\ y.events = changes /\ y.rules = x.rules
<1>1. PICK k, l, m, n, q, f : x = [pc |-> k, update |-> l, roles |-> m, events |-> n, rules |-> q, sure |-> f]
  BY DEF Fields
<1>2. y = [pc |-> "look", update |-> l, roles |-> m, events |-> changes, rules |-> q, sure |-> sure]
  BY <1>1 DEF Looking
<1>. QED
  BY <1>1, <1>2

LEMMA StartingIs ==
  ASSUME NEW x, Fields(x), NEW pc, NEW update, NEW roles, NEW y, y = Starting(x, pc, update, roles)
  PROVE  y.pc = pc /\ y.roles = roles /\ y.events = x.events /\ y.rules = x.rules
<1>1. PICK k, l, m, n, q, f : x = [pc |-> k, update |-> l, roles |-> m, events |-> n, rules |-> q, sure |-> f]
  BY DEF Fields
<1>2. y = [pc |-> pc, update |-> update, roles |-> roles, events |-> n, rules |-> q, sure |-> f]
  BY <1>1 DEF Starting
<1>. QED
  BY <1>1, <1>2

LEMMA LooksFits ==
  ASSUME NEW p, NEW changes \in Seq(EventRecord), changes # <<>>
  PROVE  RuleFits(Looks(p, changes))
<1>1. PICK y : y = Looks(p, changes)
  OBVIOUS
<1>2. Looks(p, changes) = Looking(Unautomated, changes, settled)
  BY Zenon DEF Looks, Looking
<1>3. y = Looking(Unautomated, changes, settled)
  BY <1>1, <1>2
<1>4. y.pc = "look" /\ y.roles = Unautomated.roles /\ y.events = changes /\ y.rules = Unautomated.rules
  BY <1>3, UnautomatedIs, LookingIs
<1>5. RuleFits(y)
  BY <1>4, UnautomatedIs, NothingFits DEF RuleFits, RuleSteps, RunSteps
<1>. QED
  BY <1>1, <1>5

LEMMA StartFits ==
  ASSUME NEW pc \in RuleSteps \ RunSteps, NEW update, NEW roles \in SUBSET RuleRoles
  PROVE  RuleFits(StartsAt(pc, update, roles))
<1>1. PICK y : y = StartsAt(pc, update, roles)
  OBVIOUS
<1>2. StartsAt(pc, update, roles) = Starting(Unautomated, pc, update, roles)
  BY Zenon DEF StartsAt, Starting
<1>3. y = Starting(Unautomated, pc, update, roles)
  BY <1>1, <1>2
<1>4. y.pc = pc /\ y.roles = roles /\ y.events = Unautomated.events /\ y.rules = Unautomated.rules
  BY <1>3, UnautomatedIs, StartingIs
<1>5. Unautomated.events = <<>>
  BY DEF Unautomated
<1>6. RuleFits(y)
  BY <1>4, <1>5, UnautomatedIs, NothingFits DEF RuleFits, RuleSteps, RunSteps
<1>. QED
  BY <1>1, <1>6

(* A rule switched on or off is a rule of the table as it was or flipped.    *)
Flipped(r) == [r EXCEPT !.on = ~@]
Switched(r, on) == [r EXCEPT !.on = on]

LEMMA SwitchedFits ==
  ASSUME NEW r, r \in Rules \/ r \in {Flipped(x) : x \in Rules}, NEW on \in BOOLEAN
  PROVE  Switched(r, on) \in Rules \cup {Flipped(x) : x \in Rules}
<1>1. PICK x \in Rules : r = x \/ r = Flipped(x)
  OBVIOUS
<1>2. x \in RuleRecord
  BY <1>1, AutomationAssumption
<1>3. PICK v : r = Switched(x, v)
  <2>1. x = Switched(x, x.on)
    BY <1>2 DEF RuleRecord, Switched
  <2>2. Flipped(x) = Switched(x, ~x.on)
    BY DEF Flipped, Switched
  <2>. QED
    BY <1>1, <2>1, <2>2
<1>4. Switched(r, on) = Switched(x, on)
  BY <1>2, <1>3 DEF RuleRecord, Switched
<1>5. CASE on = x.on
  <2>1. Switched(x, on) = x
    BY <1>2, <1>5 DEF RuleRecord, Switched
  <2>. QED
    BY <1>1, <1>4, <2>1
<1>6. CASE on # x.on
  <2>1. x.on \in BOOLEAN
    BY <1>2 DEF RuleRecord
  <2>2. on = ~x.on
    BY <1>6, <2>1
  <2>3. Switched(x, on) = Flipped(x)
    BY <2>2 DEF Flipped, Switched
  <2>. QED
    BY <1>1, <1>4, <2>3
<1>. QED
  BY <1>5, <1>6

LEMMA TablesAre == Tables = [1..Names -> Rules \cup {Flipped(r) : r \in Rules} \cup {NoRule}]
BY DEF Tables, Flipped

LEMMA EnabledFits == ASSUME NEW t \in Tables PROVE Enabled(t) \in Tables
BY TablesAre DEF Enabled

(* The roles of an update, in any order, are events.                         *)
LEMMA OrdersTyped ==
  ASSUME NEW S \in SUBSET RuleRoles, NEW rs \in SetToSeqs(S), NEW kind \in Trigger, NEW of \in SUBSET RuleRoles
  PROVE  /\ [i \in DOMAIN rs |-> Event(kind, rs[i], of, {})] \in Seq(EventRecord)
         /\ Len([i \in DOMAIN rs |-> Event(kind, rs[i], of, {})]) = Cardinality(S)
<1>1. IsFiniteSet(S) /\ Cardinality(S) \in Nat
  BY AutomationAssumption, FS_Subset, FS_CardinalityType
<1>2. rs \in [1..Cardinality(S) -> S]
  BY DEF SetToSeqs
<1>. DEFINE n == Cardinality(S)
            x == [i \in 1..n |-> Event(kind, rs[i], of, {})]
<1>3. x = [i \in DOMAIN rs |-> Event(kind, rs[i], of, {})]
  BY <1>2
<1>4. \A i \in 1..n : Event(kind, rs[i], of, {}) \in EventRecord
  BY <1>2 DEF Event, EventRecord
<1>5. x \in [1..n -> EventRecord]
  BY <1>4
<1>. HIDE DEF n
<1>6. n \in Nat
  BY <1>1 DEF n
<1>7. x \in Seq(EventRecord) /\ Len(x) = n
  <2>1. DOMAIN x = 1..n
    OBVIOUS
  <2>. HIDE DEF x
  <2>. QED
    BY <1>5, <1>6, <2>1
<1>. QED
  BY <1>3, <1>7 DEF n

---------------------------------------------------------------------------
LEMMA CachedIs ==
  ASSUME NEW x, Fields(x), NEW rules, NEW sure, NEW y, y = FromCache(x, rules, sure)
  PROVE  y.pc = "run" /\ y.roles = x.roles /\ y.events = x.events /\ y.rules = rules
<1>1. PICK k, l, m, n, q, f : x = [pc |-> k, update |-> l, roles |-> m, events |-> n, rules |-> q, sure |-> f]
  BY DEF Fields
<1>2. y = [pc |-> "run", update |-> l, roles |-> m, events |-> n, rules |-> rules, sure |-> sure]
  BY <1>1 DEF FromCache
<1>. QED
  BY <1>1, <1>2

LEMMA RuleInitBounds == RuleInit => RuleBounds
<1>. SUFFICES ASSUME RuleInit PROVE RuleBounds
  OBVIOUS
<1>1. ruleTable \in Tables
  BY AutomationAssumption DEF RuleInit, Tables
<1>2. ruleCache \in [rules : Tables, failed : BOOLEAN, at : Time \cup {Never}]
  BY NothingFits DEF RuleInit
<1>3. \A p \in Proc : RuleFits(automating[p])
  BY UnautomatedFits DEF RuleInit
<1>4. settled \in BOOLEAN /\ misled \in BOOLEAN
  <2>1. misled \in BOOLEAN
    BY Zenon DEF RuleInit
  <2>. QED
    BY <2>1 DEF RuleInit
<1>5. knownRoles \subseteq RuleRoles
  BY DEF RuleInit
<1>. QED
  BY <1>1, <1>2, <1>3, <1>4, <1>5 DEF RuleBounds

LEMMA RuleBoundsTyped == RuleBounds /\ memberRoles \subseteq RuleRoles => RuleTypeOK
<1>. SUFFICES ASSUME RuleBounds, memberRoles \subseteq RuleRoles PROVE RuleTypeOK
  OBVIOUS
<1>1. ASSUME NEW p \in Proc
      PROVE  /\ automating[p].pc \in {"idle", "look", "query", "fill", "fillNone", "run", "swap", "autorole", "prime", "drop", "bust"}
             /\ automating[p].pc \in {"look", "query", "fill", "fillNone", "run"} <=> automating[p].events # <<>>
             /\ automating[p].rules \in Tables
  <2>1. RuleFits(automating[p])
    BY DEF RuleBounds
  <2>. QED
    BY <2>1 DEF RuleFits, RuleSteps, RunSteps
<1>2. {settled, misled} \subseteq BOOLEAN
  BY DEF RuleBounds
<1>. QED
  BY <1>1, <1>2 DEF RuleTypeOK, RuleBounds

LEMMA RuleRests == RuleInit => RuleTypeOK
<1>1. RuleInit => memberRoles \subseteq RuleRoles
  BY DEF RuleInit
<1>. QED
  BY <1>1, RuleInitBounds, RuleBoundsTyped

---------------------------------------------------------------------------
(* One goroutine moves.                                                      *)
LEMMA FitsMoved ==
  ASSUME AutoTyped, RuleBounds, NEW p \in Proc, NEW y, automating' = [automating EXCEPT ![p] = y], RuleFits(y)
  PROVE  \A q \in Proc : RuleFits(automating'[q])
<1>1. \A q \in Proc : automating'[q] = y \/ automating'[q] = automating[q]
  BY DEF AutoTyped
<1>. QED
  BY <1>1 DEF RuleBounds

LEMMA FitsFits == ASSUME \A q \in Proc : RuleFits(automating'[q]) PROVE \A q \in Proc : RuleFits(automating[q])'
BY DEF RuleFits

LEMMA PcFits ==
  ASSUME NEW x, Fields(x), RuleFits(x), NEW pc, NEW y, y = [x EXCEPT !.pc = pc], pc \in RuleSteps,
         pc \in RunSteps <=> x.pc \in RunSteps
  PROVE  RuleFits(y)
<1>1. y.pc = pc /\ y.roles = x.roles /\ y.events = x.events /\ y.rules = x.rules
  BY PcSet
<1>. QED
  BY <1>1 DEF RuleFits

(* The rules, the cache and what runs from it.                               *)
LEMMA RunsFitTypes ==
  ASSUME AutoTyped, HandlersTypeOK, RuleBounds, NEW p \in Proc,
         SeePost(p) \/ LookForRules(p) \/ QueryRules(p) \/ FillRules(p) \/ RunAutomation(p)
  PROVE  RuleBounds'
<1>1. UNCHANGED <<ruleTable, knownRoles, settled, misled>> /\ (UNCHANGED ruleCache \/ FillRules(p))
  BY DEF SeePost, LookForRules, QueryRules, FillRules, RunAutomation, roleVars
<1>. DEFINE it == automating[p]
<1>2. Fields(it) /\ RuleFits(it) /\ memberRoles \subseteq RuleRoles /\ now \in Time
  BY DEF AutoTyped, RuleBounds, HandlersTypeOK
<1>3. ASSUME \A q \in Proc : RuleFits(automating'[q]), ruleCache' \in [rules : Tables, failed : BOOLEAN, at : Time \cup {Never}]
      PROVE  RuleBounds'
  BY <1>1, <1>3, FitsFits DEF RuleBounds
<1>4. ASSUME NEW y, automating' = [automating EXCEPT ![p] = y], RuleFits(y), UNCHANGED ruleCache
      PROVE  RuleBounds'
  <2>1. \A q \in Proc : RuleFits(automating'[q])
    BY <1>4, FitsMoved
  <2>. QED
    BY <1>3, <1>4, <2>1 DEF RuleBounds
<1>5. CASE SeePost(p)
  <2>1. PICK has \in Posts : automating' = [automating EXCEPT ![p] = Looks(p, <<Event("message_create", NoRole, memberRoles, has)>>)]
    BY <1>5 DEF SeePost
  <2>. DEFINE e == Event("message_create", NoRole, memberRoles, has)
  <2>2. e \in EventRecord
    BY <1>2 DEF Event, EventRecord, Trigger
  <2>. HIDE DEF e
  <2>3. <<e>> \in Seq(EventRecord) /\ <<e>> # <<>>
    BY <2>2
  <2>4. RuleFits(Looks(p, <<e>>))
    BY <2>3, LooksFits
  <2>5. automating' = [automating EXCEPT ![p] = Looks(p, <<e>>)] /\ UNCHANGED ruleCache
    BY <1>5, <2>1, Zenon DEF SeePost, e
  <2>. QED
    BY <1>4, <2>4, <2>5
<1>6. CASE LookForRules(p)
  <2>0. it.pc = "look" /\ UNCHANGED ruleCache
    BY <1>6 DEF LookForRules
  <2>1. CASE Within(ruleCache.at, RuleTTL)
    <3>1. PICK sure : sure = (it.sure /\ ~ruleCache.failed)
      BY Zenon
    <3>. DEFINE y == FromCache(it, ruleCache.rules, sure)
    <3>2. automating' = [automating EXCEPT ![p] = y]
      BY <1>6, <2>1, <3>1, Zenon DEF LookForRules, FromCache
    <3>3. y.pc = "run" /\ y.roles = it.roles /\ y.events = it.events /\ y.rules = ruleCache.rules
      <4>. HIDE DEF it
      <4>. QED
        BY <1>2, CachedIs
    <3>4. ruleCache.rules \in Tables
      BY DEF RuleBounds
    <3>. HIDE DEF y, it
    <3>5. RuleFits(y)
      BY <1>2, <2>0, <3>3, <3>4 DEF RuleFits, RuleSteps, RunSteps
    <3>. QED
      BY <1>4, <2>0, <3>2, <3>5
  <2>2. CASE ~Within(ruleCache.at, RuleTTL)
    <3>. DEFINE y == [it EXCEPT !.pc = "query"]
    <3>1. automating' = [automating EXCEPT ![p] = y]
      BY <1>6, <2>2, Zenon DEF LookForRules
    <3>2. "query" \in RuleSteps /\ "query" \in RunSteps /\ it.pc \in RunSteps
      BY <2>0 DEF RuleSteps, RunSteps
    <3>. HIDE DEF it
    <3>3. RuleFits(y)
      BY <1>2, <3>2, PcFits
    <3>. HIDE DEF y
    <3>. QED
      BY <1>4, <2>0, <3>1, <3>3
  <2>. QED
    BY <2>1, <2>2
<1>7. CASE QueryRules(p)
  <2>. DEFINE full == [it EXCEPT !.pc = "fill"]
              got == [full EXCEPT !.rules = Enabled(ruleTable)]
              empty == [it EXCEPT !.pc = "fillNone"]
              none == [empty EXCEPT !.sure = FALSE]
  <2>0. it.pc = "query" /\ UNCHANGED ruleCache
    BY <1>7 DEF QueryRules
  <2>1. automating' = [automating EXCEPT ![p] = got] \/ automating' = [automating EXCEPT ![p] = none]
    <3>1. CASE automating' = [automating EXCEPT ![p].pc = "fill", ![p].rules = Enabled(ruleTable)]
      BY <3>1 DEF AutoTyped
    <3>2. CASE automating' = [automating EXCEPT ![p].pc = "fillNone", ![p].sure = FALSE]
      BY <3>2 DEF AutoTyped
    <3>. QED
      BY <1>7, <3>1, <3>2, Zenon DEF QueryRules, Enabled
  <2>2. "fill" \in RuleSteps /\ "fill" \in RunSteps /\ "fillNone" \in RuleSteps /\ "fillNone" \in RunSteps /\ it.pc \in RunSteps
    BY <2>0 DEF RuleSteps, RunSteps
  <2>. HIDE DEF it
  <2>3. Fields(full) /\ RuleFits(full) /\ Fields(empty) /\ RuleFits(empty)
    <3>1. Fields(full) /\ Fields(empty)
      BY <1>2, PcSet
    <3>2. RuleFits(full) /\ RuleFits(empty)
      BY <1>2, <2>2, PcFits
    <3>. QED
      BY <3>1, <3>2
  <2>. HIDE DEF full, empty
  <2>4. RuleFits(got)
    <3>1. got.pc = full.pc /\ got.roles = full.roles /\ got.events = full.events
      BY <2>3, RulesSet
    <3>2. got.rules = Enabled(ruleTable)
      BY <2>3, RulesSet
    <3>3. Enabled(ruleTable) \in Tables
      BY EnabledFits DEF RuleBounds
    <3>. HIDE DEF got
    <3>. QED
      BY <2>3, <3>1, <3>2, <3>3 DEF RuleFits
  <2>5. RuleFits(none)
    <3>1. none.pc = empty.pc /\ none.roles = empty.roles /\ none.events = empty.events /\ none.rules = empty.rules
      BY <2>3, SureSet
    <3>. HIDE DEF none
    <3>. QED
      BY <2>3, <3>1 DEF RuleFits
  <2>. HIDE DEF got, none
  <2>6. CASE automating' = [automating EXCEPT ![p] = got]
    BY <1>4, <2>0, <2>4, <2>6
  <2>7. CASE automating' = [automating EXCEPT ![p] = none]
    BY <1>4, <2>0, <2>5, <2>7
  <2>. QED
    BY <2>1, <2>6, <2>7
<1>8. CASE FillRules(p)
  <2>. DEFINE y == [it EXCEPT !.pc = "run"]
  <2>1. it.pc \in {"fill", "fillNone"} /\ ruleCache' = [rules |-> it.rules, failed |-> it.pc = "fillNone", at |-> now]
    BY <1>8 DEF FillRules
  <2>2. automating' = [automating EXCEPT ![p] = y]
    BY <1>8 DEF FillRules
  <2>3. it.rules \in Tables
    BY <1>2 DEF RuleFits
  <2>4. ruleCache' \in [rules : Tables, failed : BOOLEAN, at : Time \cup {Never}]
    BY <1>2, <2>1, <2>3
  <2>5. "run" \in RuleSteps /\ "run" \in RunSteps /\ it.pc \in RunSteps
    BY <2>1 DEF RuleSteps, RunSteps
  <2>. HIDE DEF it
  <2>6. RuleFits(y)
    BY <1>2, <2>5, PcFits
  <2>. HIDE DEF y
  <2>7. \A q \in Proc : RuleFits(automating'[q])
    BY <2>2, <2>6, FitsMoved
  <2>. QED
    BY <1>3, <2>4, <2>7
<1>9. CASE RunAutomation(p)
  <2>1. \/ automating' = [automating EXCEPT ![p] = Unautomated]
        \/ automating' = [automating EXCEPT ![p] = Looks(p, Tail(it.events))] /\ Len(it.events) # 1
    BY <1>9, Zenon DEF RunAutomation
  <2>2. UNCHANGED ruleCache /\ it.pc = "run"
    BY <1>9 DEF RunAutomation
  <2>3. CASE automating' = [automating EXCEPT ![p] = Unautomated]
    BY <1>4, <2>2, <2>3, UnautomatedFits
  <2>4. CASE automating' = [automating EXCEPT ![p] = Looks(p, Tail(it.events))] /\ Len(it.events) # 1
    <3>1. it.events \in Seq(EventRecord) /\ it.events # <<>>
      BY <1>2, <2>2 DEF RuleFits, RunSteps
    <3>2. Tail(it.events) \in Seq(EventRecord) /\ Tail(it.events) # <<>>
      <4>. DEFINE es == it.events
      <4>. HIDE DEF es
      <4>1. es \in Seq(EventRecord) /\ es # <<>> /\ Len(es) # 1
        BY <2>4, <3>1 DEF es
      <4>2. Len(es) \in Nat \ {0}
        BY <4>1, EmptySeq
      <4>3. Tail(es) \in Seq(EventRecord) /\ Len(Tail(es)) = Len(es) - 1
        BY <4>1
      <4>4. Len(Tail(es)) # 0
        BY <4>1, <4>2, <4>3
      <4>5. Tail(es) # <<>>
        <5>1. Len(<<>>) = 0
          BY EmptySeq
        <5>. QED
          BY <4>4, <5>1, Zenon
      <4>. QED
        BY <4>3, <4>5 DEF es
    <3>3. RuleFits(Looks(p, Tail(it.events)))
      BY <3>2, LooksFits
    <3>. HIDE DEF it
    <3>. QED
      BY <1>4, <2>2, <2>4, <3>3
  <2>. QED
    BY <2>1, <2>3, <2>4
<1>. QED
  BY <1>5, <1>6, <1>7, <1>8, <1>9

---------------------------------------------------------------------------
(* What the bot remembers of the roles, and the events that come of it.      *)
LEMMA SwapsFit ==
  ASSUME RuleBounds, NEW p \in Proc, NEW roles \in SUBSET RuleRoles, SwapRoles(p, roles)
  PROVE  knownRoles' \subseteq RuleRoles /\ misled' \in BOOLEAN /\ UNCHANGED <<ruleTable, ruleCache, settled>>
<1>1. misled' = (misled \/ automating[p].update < swapped)
  BY DEF SwapRoles
<1>2. misled' \in BOOLEAN
  BY <1>1, Zenon
<1>. QED
  BY <1>2 DEF SwapRoles

LEMMA RolesFitTypes ==
  ASSUME AutoTyped, RuleBounds, NEW p \in Proc, PrimeRoles(p) \/ DropRoles(p) \/ UpdateRoles(p)
  PROVE  RuleBounds'
<1>. DEFINE it == automating[p]
<1>1. RuleFits(it) /\ memberRoles \subseteq RuleRoles /\ knownRoles \subseteq RuleRoles
  BY DEF AutoTyped, RuleBounds
<1>2. it.roles \in SUBSET RuleRoles /\ {} \in SUBSET RuleRoles
  BY <1>1 DEF RuleFits
<1>3. knownRoles' \subseteq RuleRoles /\ misled' \in BOOLEAN /\ UNCHANGED <<ruleTable, ruleCache, settled>>
  <2>1. SwapRoles(p, {}) \/ SwapRoles(p, it.roles)
    BY DEF PrimeRoles, DropRoles, UpdateRoles, RolesFromUpdate
  <2>. HIDE DEF it
  <2>. QED
    BY <1>2, <2>1, SwapsFit
<1>4. ASSUME NEW y, automating' = [automating EXCEPT ![p] = y], RuleFits(y) PROVE RuleBounds'
  <2>1. \A q \in Proc : RuleFits(automating'[q])
    BY <1>4, FitsMoved
  <2>. QED
    BY <1>3, <2>1, FitsFits DEF RuleBounds
<1>5. ASSUME NEW es \in Seq(EventRecord), es # <<>>, automating' = [automating EXCEPT ![p] = Looks(p, es)] PROVE RuleBounds'
  BY <1>4, <1>5, LooksFits
<1>6. ASSUME NEW kind \in {"member_join", "member_leave"},
             automating' = [automating EXCEPT ![p] = Looks(p, <<Event(kind, NoRole, {}, {})>>)]
      PROVE  RuleBounds'
  <2>. DEFINE e == Event(kind, NoRole, {}, {})
  <2>1. e \in EventRecord
    BY DEF Event, EventRecord, Trigger
  <2>. HIDE DEF e
  <2>2. <<e>> \in Seq(EventRecord) /\ <<e>> # <<>>
    BY <2>1
  <2>. QED
    BY <1>5, <1>6, <2>2, Zenon DEF e
<1>7. CASE PrimeRoles(p) \/ DropRoles(p)
  <2>1. \E kind \in {"member_join", "member_leave"} :
           automating' = [automating EXCEPT ![p] = Looks(p, <<Event(kind, NoRole, {}, {})>>)]
    BY <1>7, Zenon DEF PrimeRoles, DropRoles
  <2>. QED
    BY <1>6, <2>1
<1>8. CASE UpdateRoles(p)
  <2>. DEFINE new == Diff(knownRoles, it.roles)
  <2>1. CASE new = {}
    <3>1. automating' = [automating EXCEPT ![p] = Unautomated]
      BY <1>8, <2>1, Zenon DEF UpdateRoles, AutoIdle
    <3>. QED
      BY <1>4, <3>1, UnautomatedFits
  <2>2. CASE new # {}
    <3>. DEFINE of == IF memberRoles = {} THEN it.roles ELSE memberRoles
    <3>1. PICK added \in SetToSeqs(it.roles \ knownRoles), removed \in SetToSeqs(knownRoles \ it.roles) :
              automating' = [automating EXCEPT ![p] =
                   Looks(p, [i \in DOMAIN added |-> Event("role_add", added[i], of, {})]
                              \o [i \in DOMAIN removed |-> Event("role_remove", removed[i], of, {})])]
      BY <1>8, <2>2, Zenon DEF UpdateRoles
    <3>. DEFINE ups == [i \in DOMAIN added |-> Event("role_add", added[i], of, {})]
                downs == [i \in DOMAIN removed |-> Event("role_remove", removed[i], of, {})]
                S == it.roles \ knownRoles
                T == knownRoles \ it.roles
    <3>2. of \in SUBSET RuleRoles /\ S \in SUBSET RuleRoles /\ T \in SUBSET RuleRoles
      BY <1>1, <1>2
    <3>3. "role_add" \in Trigger /\ "role_remove" \in Trigger /\ added \in SetToSeqs(S) /\ removed \in SetToSeqs(T)
      BY <3>1 DEF Trigger
    <3>. HIDE DEF S, T, of
    <3>4. ups \in Seq(EventRecord) /\ Len(ups) = Cardinality(S)
      BY <3>2, <3>3, OrdersTyped
    <3>5. downs \in Seq(EventRecord) /\ Len(downs) = Cardinality(T)
      BY <3>2, <3>3, OrdersTyped
    <3>6. S # {} \/ T # {}
      BY <2>2 DEF Diff, S, T
    <3>7. Cardinality(S) \in Nat /\ Cardinality(T) \in Nat /\ (Cardinality(S) # 0 \/ Cardinality(T) # 0)
      <4>1. IsFiniteSet(S) /\ IsFiniteSet(T)
        BY <3>2, AutomationAssumption, FS_Subset
      <4>. QED
        BY <3>6, <4>1, FS_CardinalityType, FS_EmptySet
    <3>8. automating' = [automating EXCEPT ![p] = Looks(p, ups \o downs)]
      BY <3>1, Zenon
    <3>. HIDE DEF ups, downs
    <3>9. ups \o downs \in Seq(EventRecord) /\ Len(ups \o downs) = Len(ups) + Len(downs)
      BY <3>4, <3>5, ConcatProperties
    <3>10. ups \o downs # <<>>
      <4>1. Len(ups \o downs) # 0
        BY <3>4, <3>5, <3>7, <3>9
      <4>. QED
        BY <3>9, <4>1, EmptySeq
    <3>. QED
      BY <1>5, <3>8, <3>9, <3>10
  <2>. QED
    BY <2>1, <2>2
<1>. QED
  BY <1>7, <1>8

---------------------------------------------------------------------------
(* Members, and what admins do to the rules.                                 *)
LEMMA MembersFitTypes ==
  ASSUME AutoTyped, RuleBounds, NEW p \in Proc, MemberUpdate(p) \/ MemberJoins(p) \/ MemberLeaves(p)
  PROVE  RuleBounds'
<1>1. PICK pc \in {"swap", "drop", "autorole"}, roles \in SUBSET RuleRoles : Numbered(p, pc, roles)
  BY DEF MemberUpdate, MemberJoins, MemberLeaves
<1>. DEFINE y == StartsAt(pc, updates + 1, roles)
<1>2. automating' = [automating EXCEPT ![p] = y] /\ UNCHANGED <<ruleTable, ruleCache, settled, knownRoles, misled>>
  BY <1>1, Zenon DEF Numbered, StartsAt
<1>3. pc \in RuleSteps \ RunSteps
  BY DEF RuleSteps, RunSteps
<1>4. RuleFits(y)
  BY <1>3, StartFits
<1>. HIDE DEF y
<1>5. \A q \in Proc : RuleFits(automating'[q])
  BY <1>2, <1>4, FitsMoved
<1>. QED
  BY <1>2, <1>5, FitsFits DEF RuleBounds

LEMMA AutoroleFitsTypes ==
  ASSUME AutoTyped, RuleBounds, NEW p \in Proc, ApplyAutorole(p)
  PROVE  RuleBounds'
<1>. DEFINE y == [automating[p] EXCEPT !.pc = "prime"]
<1>1. automating[p].pc = "autorole" /\ UNCHANGED <<ruleTable, ruleCache, settled, knownRoles, misled>>
  BY DEF ApplyAutorole
<1>2. RuleFits(y)
  <2>1. Fields(automating[p]) /\ RuleFits(automating[p])
    BY DEF AutoTyped, RuleBounds
  <2>2. "prime" \in RuleSteps /\ "prime" \notin RunSteps /\ automating[p].pc \notin RunSteps
    BY <1>1 DEF RuleSteps, RunSteps
  <2>. QED
    BY <2>1, <2>2, PcFits
<1>3. ASSUME \A q \in Proc : RuleFits(automating'[q]) PROVE RuleBounds'
  BY <1>1, <1>3, FitsFits DEF RuleBounds
<1>4. CASE automating' = [automating EXCEPT ![p].pc = "prime"]
  <2>1. automating' = [automating EXCEPT ![p] = y]
    BY <1>4 DEF AutoTyped
  <2>. HIDE DEF y
  <2>2. \A q \in Proc : RuleFits(automating'[q])
    BY <1>2, <2>1, FitsMoved
  <2>. QED
    BY <1>3, <2>2
<1>5. ASSUME NEW q \in Proc, AutoRole # NoRole, memberRoles' = memberRoles \cup {AutoRole},
             automating' = [automating EXCEPT ![p].pc = "prime", ![q] =
                   [Unautomated EXCEPT !.pc = "swap", !.update = updates + 1, !.roles = memberRoles']],
             automating[q].pc = "idle"
      PROVE  RuleBounds'
  <2>. DEFINE z == StartsAt("swap", updates + 1, memberRoles')
  <2>1. memberRoles' \in SUBSET RuleRoles
    BY <1>5, AutomationAssumption DEF AutoTyped
  <2>2. "swap" \in RuleSteps \ RunSteps
    BY DEF RuleSteps, RunSteps
  <2>3. RuleFits(z)
    BY <2>1, <2>2, StartFits
  <2>4. automating' = [automating EXCEPT ![p].pc = "prime", ![q] = z]
    BY <1>5, Zenon DEF StartsAt
  <2>5. q # p
    BY <1>1, <1>5
  <2>. HIDE DEF z
  <2>6. \A r \in Proc : automating'[r] = y \/ automating'[r] = z \/ automating'[r] = automating[r]
    BY <2>4, <2>5 DEF AutoTyped
  <2>. HIDE DEF y
  <2>7. \A r \in Proc : RuleFits(automating'[r])
    BY <1>2, <2>3, <2>6 DEF RuleBounds
  <2>. QED
    BY <1>3, <2>7
<1>. QED
  BY <1>4, <1>5 DEF ApplyAutorole

LEMMA SavesFitTypes ==
  ASSUME AutoTyped, RuleBounds, NEW p \in Proc, SaveRule(p)
  PROVE  RuleBounds'
<1>. DEFINE y == [Unautomated EXCEPT !.pc = "bust"]
            z(q) == [automating[q] EXCEPT !.sure = FALSE]
<1>1. RuleFits(y)
  <2>1. "bust" \in RuleSteps /\ "bust" \notin RunSteps /\ Unautomated.pc \notin RunSteps
    BY UnautomatedIs DEF RuleSteps, RunSteps
  <2>. QED
    BY <2>1, UnautomatedFits, UnautomatedIs, PcFits
<1>2. \A q \in Proc : RuleFits(z(q))
  <2>. SUFFICES ASSUME NEW q \in Proc PROVE RuleFits(z(q))
    BY Zenon
  <2>. DEFINE x == automating[q]
              w == [x EXCEPT !.sure = FALSE]
  <2>1. Fields(x) /\ RuleFits(x)
    BY DEF AutoTyped, RuleBounds
  <2>2. w.pc = x.pc /\ w.roles = x.roles /\ w.events = x.events /\ w.rules = x.rules
    <3>. HIDE DEF x
    <3>. QED
      BY <2>1, SureSet
  <2>3. RuleFits(w)
    <3>. HIDE DEF w, x
    <3>. QED
      BY <2>1, <2>2 DEF RuleFits
  <2>. QED
    BY <2>3
<1>3. automating' = [q \in Proc |-> IF q = p THEN y ELSE z(q)] /\ settled' = FALSE
      /\ UNCHANGED <<ruleCache, knownRoles, misled>>
  BY Zenon DEF SaveRule, roleVars
<1>. HIDE DEF y, z
<1>4. \A q \in Proc : RuleFits(automating'[q])
  BY <1>1, <1>2, <1>3
<1>5. ruleTable' \in Tables
  <2>. DEFINE R == Rules \cup {Flipped(r) : r \in Rules} \cup {NoRule}
  <2>1. ruleTable \in [1..Names -> R] /\ Tables = [1..Names -> R]
    BY TablesAre DEF RuleBounds
  <2>2. PICK n \in 1..Names :
          \/ \E r \in Rules : ruleTable' = [ruleTable EXCEPT ![n] = r]
          \/ ruleTable[n] # NoRule /\ \E on \in BOOLEAN : ruleTable' = [ruleTable EXCEPT ![n].on = on]
          \/ ruleTable' = [ruleTable EXCEPT ![n] = NoRule]
    BY DEF SaveRule
  <2>3. CASE \E r \in Rules : ruleTable' = [ruleTable EXCEPT ![n] = r]
    BY <2>1, <2>3
  <2>4. CASE ruleTable[n] # NoRule /\ \E on \in BOOLEAN : ruleTable' = [ruleTable EXCEPT ![n].on = on]
    <3>1. PICK on \in BOOLEAN : ruleTable' = [ruleTable EXCEPT ![n].on = on]
      BY <2>4
    <3>2. ruleTable[n] \in Rules \/ ruleTable[n] \in {Flipped(r) : r \in Rules}
      BY <2>1, <2>4
    <3>3. Switched(ruleTable[n], on) \in Rules \cup {Flipped(r) : r \in Rules}
      BY <3>2, SwitchedFits
    <3>4. ruleTable' = [ruleTable EXCEPT ![n] = Switched(ruleTable[n], on)]
      BY <3>1, <2>1 DEF Switched
    <3>5. Switched(ruleTable[n], on) \in R
      BY <3>3
    <3>. HIDE DEF R
    <3>. QED
      BY <2>1, <3>4, <3>5
  <2>5. CASE ruleTable' = [ruleTable EXCEPT ![n] = NoRule]
    BY <2>1, <2>5
  <2>. QED
    BY <2>2, <2>3, <2>4, <2>5
<1>. QED
  BY <1>3, <1>4, <1>5, FitsFits DEF RuleBounds

LEMMA RuleBoundsStep ==
  ASSUME AutoIInv, RuleBounds, [RuleNext]_<<env, ruleVars>>
  PROVE  RuleBounds'
<1>1. AutoTyped /\ HandlersTypeOK
  BY DEF AutoIInv
<1>2. ASSUME NEW p \in Proc, BustRules(p) PROVE RuleBounds'
  <2>1. /\ automating' = [automating EXCEPT ![p] = Unautomated] /\ UNCHANGED <<ruleTable, knownRoles, misled>>
        /\ ruleCache' = [rules |-> Nothing, failed |-> FALSE, at |-> Never]
    BY <1>2 DEF BustRules, AutoIdle, roleVars
  <2>2. settled' \in BOOLEAN
    BY <1>2, Zenon DEF BustRules
  <2>3. ruleCache' \in [rules : Tables, failed : BOOLEAN, at : Time \cup {Never}]
    BY <2>1, NothingFits
  <2>4. \A q \in Proc : RuleFits(automating'[q])
    BY <1>1, <2>1, FitsMoved, UnautomatedFits
  <2>. QED
    BY <2>1, <2>2, <2>3, <2>4, FitsFits DEF RuleBounds
<1>3. CASE RuleRestart
  <2>1. /\ automating' = [p \in Proc |-> Unautomated] /\ UNCHANGED ruleTable
        /\ ruleCache' = [rules |-> Nothing, failed |-> FALSE, at |-> Never]
        /\ knownRoles' = {} /\ misled' = TRUE /\ settled' = TRUE
    BY <1>3 DEF RuleRestart
  <2>2. ruleCache' \in [rules : Tables, failed : BOOLEAN, at : Time \cup {Never}]
    BY <2>1, NothingFits
  <2>3. \A q \in Proc : RuleFits(automating'[q])
    BY <2>1, UnautomatedFits
  <2>. QED
    BY <2>1, <2>2, <2>3, FitsFits DEF RuleBounds
<1>4. CASE ForgetRoles
  <2>1. knownRoles' = {} /\ misled' = TRUE /\ UNCHANGED <<ruleTable, ruleCache, automating, settled>>
    BY <1>4 DEF ForgetRoles
  <2>2. \A q \in Proc : RuleFits(automating'[q])
    BY <2>1 DEF RuleBounds
  <2>. QED
    BY <2>1, <2>2, FitsFits DEF RuleBounds
<1>5. CASE UNCHANGED ruleVars
  <2>1. UNCHANGED <<ruleTable, ruleCache, automating, settled, knownRoles, misled>>
    BY <1>5 DEF ruleVars
  <2>2. \A q \in Proc : RuleFits(automating'[q])
    BY <2>1 DEF RuleBounds
  <2>. QED
    BY <2>1, <2>2, FitsFits DEF RuleBounds
<1>6. ASSUME NEW p \in Proc,
             SeePost(p) \/ LookForRules(p) \/ QueryRules(p) \/ FillRules(p) \/ RunAutomation(p)
      PROVE  RuleBounds'
  BY <1>1, <1>6, RunsFitTypes
<1>7. ASSUME NEW p \in Proc, PrimeRoles(p) \/ DropRoles(p) \/ UpdateRoles(p) PROVE RuleBounds'
  BY <1>1, <1>7, RolesFitTypes
<1>8. ASSUME NEW p \in Proc, MemberUpdate(p) \/ MemberJoins(p) \/ MemberLeaves(p) PROVE RuleBounds'
  BY <1>1, <1>8, MembersFitTypes
<1>9. ASSUME NEW p \in Proc, ApplyAutorole(p) PROVE RuleBounds'
  BY <1>1, <1>9, AutoroleFitsTypes
<1>10. ASSUME NEW p \in Proc, SaveRule(p) PROVE RuleBounds'
  BY <1>1, <1>10, SavesFitTypes
<1>. QED
  BY <1>2, <1>3, <1>4, <1>5, <1>6, <1>7, <1>8, <1>9, <1>10 DEF RuleNext, RuleTick

---------------------------------------------------------------------------
(* The features together.  The step of one is a step of its own module, and  *)
(* leaves the state of the others alone; what has not been picked stays as   *)
(* it began.                                                                 *)
Features == {"antinuke", "antispam", "dispatch", "levels", "polls", "roles", "rules", "starboard"}
featureVars == <<feature, env, nukeVars, guardVars, ruleVars, dispatchVars, levelVars, pollVars, starVars>>

NukeJoined == IF feature = "antinuke" THEN NukeIInv /\ NukeTypeOK ELSE NukeInit
GuardJoined == IF feature = "antispam" THEN GuardIInv /\ GuardTypeOK ELSE GuardInit
RuleJoined == IF feature \in {"roles", "rules"} THEN AutoIInv /\ RuleBounds ELSE RuleInit
DispatchJoined == IF feature = "dispatch" THEN DispatchIInv /\ DispatchTypeOK ELSE DispatchInit
LevelsJoined == IF feature = "levels" THEN LevelsIInv /\ LevelsTypeOK ELSE LevelsInit
PollsJoined == IF feature = "polls" THEN PollsIInv /\ PollsTypeOK ELSE PollsInit
StarJoined == IF feature = "starboard" THEN StarIInv /\ StarBounds ELSE StarInit

FeaturesIInv ==
    /\ HandlersTypeOK /\ feature \in Features
    /\ NukeJoined /\ GuardJoined /\ RuleJoined /\ DispatchJoined /\ LevelsJoined /\ PollsJoined /\ StarJoined

LEMMA FeaturesInitIInv == Init => FeaturesIInv
<1>. SUFFICES ASSUME Init PROVE FeaturesIInv
  OBVIOUS
<1>1. /\ HandlersInit /\ NukeInit /\ GuardInit /\ RuleInit /\ DispatchInit /\ LevelsInit /\ PollsInit /\ StarInit
      /\ feature \in Features
  BY Zenon DEF Init, Features
<1>2. HandlersTypeOK /\ calls \in Nat
  BY <1>1, HandlersAssumption DEF HandlersInit, HandlersTypeOK, Time
<1>3. NukeJoined /\ GuardJoined
  BY <1>1, NukeInitIInv, NukeRests, GuardInitIInv, GuardRests DEF NukeJoined, GuardJoined
<1>4. RuleJoined /\ DispatchJoined
  BY <1>1, AutoInitIInv, RuleInitBounds, DispatchInitIInv, DispatchRests DEF RuleJoined, DispatchJoined
<1>5. LevelsJoined /\ PollsJoined
  BY <1>1, LevelsInitIInv, LevelsRests, PollsInitIInv, PollsRests DEF LevelsJoined, PollsJoined
<1>6. StarJoined
  BY <1>1, <1>2, StarInitIInv, StarInitBounds DEF StarJoined
<1>. QED
  BY <1>1, <1>2, <1>3, <1>4, <1>5, <1>6 DEF FeaturesIInv

(* Who moves, and who does not.                                              *)
LEMMA OneMovesOn ==
  ASSUME [Next]_featureVars, feature \in Features
  PROVE  /\ feature' = feature
         /\ feature = "antinuke" => [NukeNext]_<<env, nukeVars>>
         /\ feature # "antinuke" => UNCHANGED nukeVars
         /\ feature = "antispam" => [GuardNext]_<<env, guardVars>>
         /\ feature # "antispam" => UNCHANGED guardVars
         /\ feature \in {"roles", "rules"} => [RuleNext]_<<env, ruleVars>>
         /\ feature \notin {"roles", "rules"} => UNCHANGED ruleVars
         /\ feature = "dispatch" => [DispatchNext]_<<env, dispatchVars>>
         /\ feature # "dispatch" => UNCHANGED dispatchVars
         /\ feature = "levels" => [LevelsNext]_<<env, levelVars>>
         /\ feature # "levels" => UNCHANGED levelVars
         /\ feature = "polls" => [PollsNext]_<<env, pollVars>>
         /\ feature # "polls" => UNCHANGED pollVars
         /\ feature = "starboard" => [StarNext]_<<env, starVars>>
         /\ feature # "starboard" => UNCHANGED starVars
<1>1. CASE UNCHANGED featureVars
  <2>1. UNCHANGED <<feature, env, nukeVars, guardVars, ruleVars, dispatchVars, levelVars, pollVars, starVars>>
    BY <1>1 DEF featureVars
  <2>. QED
    BY <2>1
<1>2. CASE Next
  BY <1>2 DEF Next, Features
<1>. QED
  BY <1>1, <1>2

LEMMA Moves ==
  ASSUME HandlersTypeOK, [StarNext]_<<env, starVars>>
  PROVE  HandlersTypeOK'
<1>1. Called \/ Fault \/ Passes \/ UNCHANGED env
  BY DEF StarNext, StarEvent, CountStar, ReadStars, PostCard, RecordCard, DeleteCard, ClearCard,
         ConfigureStarboard, StarRestart, env
<1>. QED
  BY <1>1, EnvTypes

(* A feature that is not picked is where it began.                           *)
LEMMA NukeStays == NukeInit /\ UNCHANGED nukeVars => NukeInit'
BY DEF NukeInit, nukeVars
LEMMA GuardStays == GuardInit /\ UNCHANGED guardVars => GuardInit'
BY DEF GuardInit, guardVars
LEMMA RuleStays == RuleInit /\ UNCHANGED ruleVars => RuleInit'
BY DEF RuleInit, ruleVars
LEMMA DispatchStays == DispatchInit /\ UNCHANGED dispatchVars => DispatchInit'
BY DEF DispatchInit, dispatchVars
LEMMA LevelsStays == LevelsInit /\ UNCHANGED levelVars => LevelsInit'
BY DEF LevelsInit, levelVars
LEMMA PollsStays == PollsInit /\ UNCHANGED pollVars => PollsInit'
BY DEF PollsInit, pollVars
LEMMA StarStays == StarInit /\ UNCHANGED starVars => StarInit'
BY DEF StarInit, starVars

LEMMA FeaturesNextIInv == FeaturesIInv /\ [Next]_featureVars => FeaturesIInv'
<1>. SUFFICES ASSUME FeaturesIInv, [Next]_featureVars PROVE FeaturesIInv'
  OBVIOUS
<1>1. HandlersTypeOK /\ feature \in Features /\ feature' = feature
  BY OneMovesOn DEF FeaturesIInv
<1>2. NukeJoined'
  <2>1. CASE feature = "antinuke"
    <3>1. NukeIInv /\ NukeTypeOK /\ [NukeNext]_<<env, nukeVars>>
      BY <1>1, <2>1, OneMovesOn DEF FeaturesIInv, NukeJoined
    <3>2. NukeIInv'
      BY <3>1, NukeNextIInv
    <3>3. NukeTypeOK'
      BY <3>1, <3>2, NukeTypesStep
    <3>. QED
      BY <1>1, <2>1, <3>2, <3>3 DEF NukeJoined
  <2>2. CASE feature # "antinuke"
    BY <1>1, <2>2, OneMovesOn, NukeStays DEF FeaturesIInv, NukeJoined
  <2>. QED
    BY <2>1, <2>2
<1>3. GuardJoined'
  <2>1. CASE feature = "antispam"
    <3>1. GuardIInv /\ GuardTypeOK /\ [GuardNext]_<<env, guardVars>>
      BY <1>1, <2>1, OneMovesOn DEF FeaturesIInv, GuardJoined
    <3>2. GuardIInv'
      BY <3>1, GuardNextIInv
    <3>3. GuardTypeOK'
      BY <3>1, <3>2, GuardTypesStep
    <3>. QED
      BY <1>1, <2>1, <3>2, <3>3 DEF GuardJoined
  <2>2. CASE feature # "antispam"
    BY <1>1, <2>2, OneMovesOn, GuardStays DEF FeaturesIInv, GuardJoined
  <2>. QED
    BY <2>1, <2>2
<1>4. RuleJoined'
  <2>1. CASE feature \in {"roles", "rules"}
    <3>1. AutoIInv /\ RuleBounds /\ [RuleNext]_<<env, ruleVars>>
      BY <1>1, <2>1, OneMovesOn DEF FeaturesIInv, RuleJoined
    <3>2. AutoIInv'
      BY <3>1, AutoNextIInv
    <3>3. RuleBounds'
      BY <3>1, RuleBoundsStep
    <3>. QED
      BY <1>1, <2>1, <3>2, <3>3 DEF RuleJoined
  <2>2. CASE feature \notin {"roles", "rules"}
    BY <1>1, <2>2, OneMovesOn, RuleStays DEF FeaturesIInv, RuleJoined
  <2>. QED
    BY <2>1, <2>2
<1>5. DispatchJoined'
  <2>1. CASE feature = "dispatch"
    <3>1. DispatchIInv /\ DispatchTypeOK /\ [DispatchNext]_<<env, dispatchVars>>
      BY <1>1, <2>1, OneMovesOn DEF FeaturesIInv, DispatchJoined
    <3>2. DispatchIInv'
      BY <3>1, DispatchNextIInv
    <3>3. DispatchTypeOK'
      BY <3>1, <3>2, DispatchTypesStep
    <3>. QED
      BY <1>1, <2>1, <3>2, <3>3 DEF DispatchJoined
  <2>2. CASE feature # "dispatch"
    BY <1>1, <2>2, OneMovesOn, DispatchStays DEF FeaturesIInv, DispatchJoined
  <2>. QED
    BY <2>1, <2>2
<1>6. LevelsJoined'
  <2>1. CASE feature = "levels"
    <3>1. LevelsIInv /\ LevelsTypeOK /\ [LevelsNext]_<<env, levelVars>>
      BY <1>1, <2>1, OneMovesOn DEF FeaturesIInv, LevelsJoined
    <3>2. LevelsIInv'
      BY <3>1, LevelsNextIInv
    <3>3. LevelsTypeOK'
      BY <3>1, <3>2, LevelsTypesStep
    <3>. QED
      BY <1>1, <2>1, <3>2, <3>3 DEF LevelsJoined
  <2>2. CASE feature # "levels"
    BY <1>1, <2>2, OneMovesOn, LevelsStays DEF FeaturesIInv, LevelsJoined
  <2>. QED
    BY <2>1, <2>2
<1>7. PollsJoined'
  <2>1. CASE feature = "polls"
    <3>1. PollsIInv /\ PollsTypeOK /\ [PollsNext]_<<env, pollVars>>
      BY <1>1, <2>1, OneMovesOn DEF FeaturesIInv, PollsJoined
    <3>2. PollsIInv'
      BY <3>1, PollsNextIInv
    <3>3. PollsTypeOK'
      BY <3>1, <3>2, PollsTypesStep
    <3>. QED
      BY <1>1, <2>1, <3>2, <3>3 DEF PollsJoined
  <2>2. CASE feature # "polls"
    BY <1>1, <2>2, OneMovesOn, PollsStays DEF FeaturesIInv, PollsJoined
  <2>. QED
    BY <2>1, <2>2
<1>8. HandlersTypeOK'
  <2>1. CASE feature = "antinuke"
    BY <1>1, <1>2, <2>1 DEF NukeJoined, NukeIInv
  <2>2. CASE feature = "antispam"
    BY <1>1, <1>3, <2>2 DEF GuardJoined, GuardIInv
  <2>3. CASE feature \in {"roles", "rules"}
    BY <1>1, <1>4, <2>3 DEF RuleJoined, AutoIInv
  <2>4. CASE feature = "dispatch"
    BY <1>1, <1>5, <2>4 DEF DispatchJoined, DispatchIInv
  <2>5. CASE feature = "levels"
    BY <1>1, <1>6, <2>5 DEF LevelsJoined, LevelsIInv
  <2>6. CASE feature = "polls"
    BY <1>1, <1>7, <2>6 DEF PollsJoined, PollsIInv
  <2>7. CASE feature = "starboard"
    BY <1>1, <2>7, OneMovesOn, Moves
  <2>. QED
    BY <1>1, <2>1, <2>2, <2>3, <2>4, <2>5, <2>6, <2>7 DEF Features
<1>9. StarJoined'
  <2>1. CASE feature = "starboard"
    <3>1. StarIInv /\ StarBounds /\ [StarNext]_<<env, starVars>>
      BY <1>1, <2>1, OneMovesOn DEF FeaturesIInv, StarJoined
    <3>2. StarIInv'
      BY <3>1, StarNextIInv
    <3>3. StarBounds'
      BY <1>1, <1>8, <3>1, StarBoundsStep
    <3>. QED
      BY <1>1, <2>1, <3>2, <3>3 DEF StarJoined
  <2>2. CASE feature # "starboard"
    BY <1>1, <2>2, OneMovesOn, StarStays DEF FeaturesIInv, StarJoined
  <2>. QED
    BY <2>1, <2>2
<1>. QED
  BY <1>1, <1>2, <1>3, <1>4, <1>5, <1>6, <1>7, <1>8, <1>9 DEF FeaturesIInv

---------------------------------------------------------------------------
(* The types of all the features.                                            *)
LEMMA FeaturesTyped == FeaturesIInv => TypeOK
<1>. SUFFICES ASSUME FeaturesIInv PROVE TypeOK
  OBVIOUS
<1>1. HandlersTypeOK
  BY DEF FeaturesIInv
<1>2. NukeTypeOK /\ GuardTypeOK
  BY NukeRests, GuardRests DEF FeaturesIInv, NukeJoined, GuardJoined
<1>3. DispatchTypeOK /\ LevelsTypeOK /\ PollsTypeOK
  BY DispatchRests, LevelsRests, PollsRests DEF FeaturesIInv, DispatchJoined, LevelsJoined, PollsJoined
<1>4. RuleTypeOK
  <2>1. CASE feature \in {"roles", "rules"}
    <3>1. RuleBounds /\ memberRoles \subseteq RuleRoles
      BY <2>1 DEF FeaturesIInv, RuleJoined, AutoIInv, AutoTyped
    <3>. QED
      BY <3>1, RuleBoundsTyped
  <2>2. CASE feature \notin {"roles", "rules"}
    BY <2>2, RuleRests DEF FeaturesIInv, RuleJoined
  <2>. QED
    BY <2>1, <2>2
<1>5. StarTypeOK
  BY <1>1, StarBoundsTyped, StarRests DEF FeaturesIInv, StarJoined
<1>. QED
  BY <1>1, <1>2, <1>3, <1>4, <1>5 DEF TypeOK

(* Whatever feature is at work, and for any constants: what the bot keeps in *)
(* memory and in its tables has its type.  The counts are what is hard of    *)
(* it: a message has no more stars, and the board no more cards, than there  *)
(* were calls, and never fewer stars than none (AddStar and RemoveStar of    *)
(* internal/store); a command runs at most twice and is logged once; the     *)
(* registry holds no more than maxActivePolls; the window of checkBurst has  *)
(* only times of messages; and a goroutine has events exactly while it runs  *)
(* the rules for them.                                                       *)
THEOREM FeaturesTypeOK == Spec => []TypeOK
<1>1. Spec => []FeaturesIInv
  BY FeaturesInitIInv, FeaturesNextIInv, PTL DEF Spec, featureVars
<1>. QED
  BY <1>1, FeaturesTyped, PTL

(* What a feature promises holds where it begins.                            *)
LEMMA BeginRight ==
  /\ NukeInit => EntriesOnce
  /\ GuardInit => BurstsApart
  /\ RuleInit => RulesRun
  /\ DispatchInit => RunsAccounted
  /\ LevelsInit => AwardsKept
  /\ PollsInit => PollKept
  /\ StarInit => OneCard
<1>1. NukeInit => EntriesOnce
  BY DEF NukeInit, EntriesOnce
<1>2. GuardInit => BurstsApart
  BY DEF GuardInit, BurstsApart
<1>3. RuleInit => RulesRun
  BY DEF RuleInit, RulesRun
<1>4. DispatchInit => RunsAccounted
  <2>. SUFFICES ASSUME DispatchInit PROVE RunsAccounted
    OBVIOUS
  <2>1. \A c \in Call : given[c].ran = 0 /\ given[c].kind = "none"
    BY DEF DispatchInit, Ungiven
  <2>. QED
    BY <2>1 DEF RunsAccounted
<1>5. LevelsInit => AwardsKept
  <2>. SUFFICES ASSUME LevelsInit PROVE AwardsKept
    OBVIOUS
  <2>1. start \in Nat /\ row = [xp |-> start, level |-> XPLevelFor(start), last |-> Never] /\ granted = 0 /\ ~crowded
    BY LevelsAssumption DEF LevelsInit
  <2>2. row.xp = start /\ row.level = XPLevelFor(row.xp)
    BY <2>1
  <2>. QED
    BY <2>1, <2>2, LevelCovers DEF AwardsKept
<1>6. PollsInit => PollKept
  <2>. SUFFICES ASSUME PollsInit PROVE PollKept
    OBVIOUS
  <2>1. DOMAIN polls = {} /\ opened = {}
    BY DEF PollsInit
  <2>. QED
    BY <2>1 DEF PollKept
<1>7. StarInit => OneCard
  BY DEF StarInit, OneCard
<1>. QED
  BY <1>1, <1>2, <1>3, <1>4, <1>5, <1>6, <1>7

LEMMA FeaturesRight ==
  FeaturesIInv => /\ EntriesOnce /\ BurstsApart /\ RulesRun /\ RunsAccounted
                  /\ AwardsKept /\ PollKept /\ OneCard
<1>. SUFFICES ASSUME FeaturesIInv
              PROVE  EntriesOnce /\ BurstsApart /\ RulesRun /\ RunsAccounted /\ AwardsKept /\ PollKept /\ OneCard
  OBVIOUS
<1>1. EntriesOnce
  <2>1. NukeIInv => EntriesOnce
    BY DEF NukeIInv, TakenUp, Weighed, EntriesOnce
  <2>. QED
    BY <2>1, BeginRight DEF FeaturesIInv, NukeJoined
<1>2. BurstsApart /\ RulesRun
  BY GuardKeepsApart, RulesRunThen, BeginRight DEF FeaturesIInv, GuardJoined, RuleJoined
<1>3. RunsAccounted /\ AwardsKept /\ PollKept
  BY DispatchAccounts, LevelsKept, PollsKept, BeginRight DEF FeaturesIInv, DispatchJoined, LevelsJoined, PollsJoined
<1>4. OneCard
  <2>1. StarIInv => OneCard
    BY DEF StarIInv, CardSure, Placed, OneCard, StarAt
  <2>. QED
    BY <2>1, BeginRight DEF FeaturesIInv, StarJoined
<1>. QED
  BY <1>1, <1>2, <1>3, <1>4

(* What each feature promises, under MCFeatures as it is checked: for any    *)
(* rows, rules, thresholds, amounts and bounds (MessageCreate, GuildMember-  *)
(* Update, InteractionCreate and the sweepers of internal/discord).          *)
THEOREM FeaturesKeep ==
  Spec => [](/\ EntriesOnce /\ BurstsApart /\ RulesRun /\ RunsAccounted
             /\ AwardsKept /\ PollKept /\ OneCard)
<1>1. Spec => []FeaturesIInv
  BY FeaturesInitIInv, FeaturesNextIInv, PTL DEF Spec, featureVars
<1>. QED
  BY <1>1, FeaturesRight, PTL
=============================================================================
