------------------------------- MODULE Levels -------------------------------
(***************************************************************************)
(* Experience: a message passes the gate of its author at most once a      *)
(* minute, and AwardXP then reads the row and writes it back in a second   *)
(* statement.  One member of one guild; the gate's map is purged only of   *)
(* entries that no longer gate, which changes nothing.                     *)
(***************************************************************************)
EXTENDS Handlers

CONSTANTS GateTTL,     \* xpGateTTL, a minute
          XPCooldown,  \* xpAwardCooldown, a minute too
          Amounts,     \* xpAmounts
          StartXP      \* what the member may have to begin with

ASSUME LevelsAssumption ==
    /\ GateTTL \in Nat /\ XPCooldown \in Nat
    /\ Amounts \subseteq Nat \ {0} /\ StartXP \subseteq Nat

VARIABLES
    gate,      \* xpGate: when a message last passed
    row,       \* user_xp
    awarding,  \* where each goroutine stands
    start, granted,  \* history: experience at the beginning, and awarded since
    slow,      \* history: an award was written after its gate had opened again
    crowded    \* history: an award was written within XPCooldown of the last

levelVars == <<gate, row, awarding, start, granted, slow, crowded>>

Need(level) == 5 * level * level + 50 * level + 100

(* The loop of XPLevelFor and XPToNext: the level, and what is left over for *)
(* the next one.                                                             *)
Standing == [level : Nat, rest : Nat]

Climb[s \in Standing] ==
    IF s.rest >= Need(s.level) THEN Climb[[level |-> s.level + 1, rest |-> s.rest - Need(s.level)]] ELSE s

Reached(xp) == Climb[[level |-> 0, rest |-> xp]]

XPLevelFor(xp) == Reached(xp).level
XPToNext(xp) == Need(Reached(xp).level) - Reached(xp).rest

Resting == [pc |-> "idle", at |-> 0, cur |-> 0]

LevelsInit ==
    /\ gate = Never
    /\ start \in StartXP
    /\ row = [xp |-> start, level |-> XPLevelFor(start), last |-> Never]
    /\ awarding = [p \in Proc |-> Resting]
    /\ granted = 0 /\ slow = FALSE /\ crowded = FALSE

Idle(p) == awarding' = [awarding EXCEPT ![p] = Resting]

---------------------------------------------------------------------------
\* Mutant: a message looks at the gate and does not close it.
PassOpenGate(p) ==
    /\ Called
    /\ awarding[p].pc = "idle" /\ ~Within(gate, GateTTL)
    /\ awarding' = [awarding EXCEPT ![p] = [pc |-> "read", at |-> now, cur |-> 0]]
    /\ UNCHANGED <<gate, row, start, granted, slow, crowded>>

(* onMessageCreateXP.  A message before the gate opens changes nothing.      *)
PassGate(p) ==
    /\ Called
    /\ awarding[p].pc = "idle" /\ ~Within(gate, GateTTL)
    /\ gate' = now
    /\ awarding' = [awarding EXCEPT ![p] = [pc |-> "read", at |-> now, cur |-> 0]]
    /\ UNCHANGED <<row, start, granted, slow, crowded>>

(* AwardXP, the query: on an error, and within the cooldown, that is all.    *)
AwardRead(p) ==
    /\ awarding[p].pc = "read"
    /\ \/ /\ ~Within(row.last, XPCooldown)
          /\ awarding' = [awarding EXCEPT ![p].pc = "write", ![p].cur = row.xp]
          /\ UNCHANGED env
       \/ Within(row.last, XPCooldown) /\ Idle(p) /\ UNCHANGED env
       \/ Fault /\ Idle(p)
    /\ UNCHANGED <<gate, row, start, granted, slow, crowded>>

(* AwardXP, the upsert, which computes nothing from the row it replaces.     *)
AwardWrite(p) ==
    /\ awarding[p].pc = "write"
    /\ Idle(p)
    /\ \/ \E delta \in Amounts : LET xp == awarding[p].cur + delta IN
             /\ row' = [xp |-> xp, level |-> XPLevelFor(xp), last |-> now]
             /\ granted' = granted + delta
             /\ slow' = (slow \/ now >= awarding[p].at + GateTTL)
             /\ crowded' = (crowded \/ Within(row.last, XPCooldown))
             /\ UNCHANGED env
       \/ Fault /\ UNCHANGED <<row, granted, slow, crowded>>
    /\ UNCHANGED <<gate, start>>

LevelsTick == Passes /\ UNCHANGED levelVars

(* The gate and the goroutines are gone, the row stays.                      *)
LevelsRestart ==
    /\ Fault
    /\ gate' = Never
    /\ awarding' = [p \in Proc |-> Resting]
    /\ UNCHANGED <<row, start, granted, slow, crowded>>

LevelsNext ==
    \/ \E p \in Proc : PassGate(p) \/ AwardRead(p) \/ AwardWrite(p)
    \/ LevelsTick \/ LevelsRestart

LevelsSpec == HandlersInit /\ LevelsInit /\ [][LevelsNext]_<<env, levelVars>>

---------------------------------------------------------------------------
LevelsTypeOK ==
    /\ gate \in Time \cup {Never}
    /\ row \in [xp : Nat, level : Nat, last : Time \cup {Never}]
    /\ awarding \in [Proc -> [pc : {"idle", "read", "write"}, at : Time, cur : Nat]]
    /\ start \in StartXP /\ granted \in Nat
    /\ slow \in BOOLEAN /\ crowded \in BOOLEAN

(* What all levels below this one cost together.                             *)
Threshold(level) == ((level - 1) * level * (2 * level - 1) * 5) \div 6
                      + 25 * level * (level - 1) + 100 * level

(* The read and the write of AwardXP are two statements with no lock: as     *)
(* long as no award takes longer than its gate stays shut, no award is lost  *)
(* and no two are nearer than the cooldown, restarts included; and the level *)
(* stored is the one whose cost the experience covers and no higher one.     *)
AwardsKept ==
    /\ ~slow => row.xp = start + granted /\ ~crowded
    /\ Threshold(row.level) <= row.xp
    /\ row.xp + XPToNext(row.xp) = Threshold(row.level + 1)
=============================================================================
