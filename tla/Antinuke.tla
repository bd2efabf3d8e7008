------------------------------ MODULE Antinuke ------------------------------
(***************************************************************************)
(* The audit-log watcher of one guild: every ten seconds one goroutine     *)
(* fetches the newest entries of the audit log, adds those it has not seen *)
(* to the events of their actors, and punishes the actors whose score      *)
(* reaches the threshold.  The n-th entry of the log has the ID n; of the  *)
(* events of an actor, which are never looked at in their order, we keep   *)
(* how often each entry is among them.                                     *)
(*                                                                         *)
(* Time is in seconds.  The clock starts SinceEpoch seconds after the      *)
(* epoch of Discord's IDs.                                                 *)
(***************************************************************************)
EXTENDS Handlers, Sequences, FiniteSetsExt

CONSTANTS Actor,           \* who acts in the guild
          Owner, Self,     \* its owner and the bot, who are spared
          Deeds,           \* what they do: [actor, weight], weighing what ModuleWeights
                           \* says, or 0 when it is not in there
          AntinukeRows,    \* rows of antinuke_config: [on, threshold, trusted]
          FetchLimit,      \* antinukeFetchLimit, 50
          ScoreWindow,     \* window_seconds
          PunishCooldown,  \* antinukePunishCooldown, five minutes
          SinceEpoch       \* some ten years

ASSUME AntinukeAssumption ==
    /\ Deeds \subseteq [actor : Actor, weight : Nat]
    /\ \A r \in AntinukeRows : r.threshold \in Nat
    /\ FetchLimit \in Nat \ {0} /\ ScoreWindow \in Nat
    /\ PunishCooldown \in Nat /\ SinceEpoch \in Nat

VARIABLES
    auditLog,     \* the log: who did what, how bad and when
    antinukeRow,  \* the row in the database
    watcher,      \* where the sweeper's goroutine stands
    seenID, events, actedAt,  \* antinukeState; 0 is no ID
    ownerKnown,   \* its ownerID is set, to Owner
    base,         \* history: the first seenID of this process
    handled,      \* history: how often each entry was taken from the log
    weighed,      \* history: in how many punishments each entry counted
    overrun,      \* history: more entries came than one fetch returns
    punished      \* history: for each punishment the threshold and the score of
                  \* what the actor had done in the last ScoreWindow

nukeVars == <<auditLog, antinukeRow, watcher, seenID, events, actedAt, ownerKnown,
              base, handled, weighed, overrun, punished>>

Entry == 1..MaxCalls
NoEvents == [e \in Entry |-> 0]
NoneDue == [pc |-> "idle", cfg |-> CHOOSE r \in AntinukeRows : TRUE, at |-> 0]

NukeInit ==
    /\ auditLog = <<>> /\ antinukeRow \in AntinukeRows
    /\ watcher = NoneDue /\ seenID = 0 /\ base = 0 /\ ownerKnown = FALSE
    /\ events = [a \in Actor |-> NoEvents]
    /\ actedAt = [a \in Actor |-> Never]
    /\ handled = [e \in Entry |-> 0] /\ weighed = [e \in Entry |-> 0]
    /\ overrun = FALSE /\ punished = {}

---------------------------------------------------------------------------
(* Somebody does something that is logged; a moderator changes the row.      *)
AuditEntry ==
    /\ Called
    /\ \E d \in Deeds :
          auditLog' = Append(auditLog, [actor |-> d.actor, weight |-> d.weight, at |-> now])
    /\ UNCHANGED <<antinukeRow, watcher, seenID, events, actedAt, ownerKnown, base, handled, weighed, overrun, punished>>

ConfigureAntinuke ==
    /\ Called
    /\ \E r \in AntinukeRows \ {antinukeRow} : antinukeRow' = r
    /\ UNCHANGED <<auditLog, watcher, seenID, events, actedAt, ownerKnown, base, handled, weighed, overrun, punished>>

(* EnabledAntinukeGuilds; an error means no sweep.                           *)
SweepAntinuke ==
    /\ watcher.pc = "idle" /\ antinukeRow.on
    /\ watcher' = [pc |-> "fetch", cfg |-> antinukeRow, at |-> 0]
    /\ UNCHANGED <<env, auditLog, antinukeRow, seenID, events, actedAt, ownerKnown, base, handled, weighed, overrun, punished>>

---------------------------------------------------------------------------
Page == {e \in 1..Len(auditLog) : e + FetchLimit > Len(auditLog)}

\* Mutant: the last entry seen counts as fresh.
FreshFromSeen == {e \in Page : e >= seenID}

Fresh == {e \in Page : e > seenID}

Spared(known) == {Self} \cup (IF known THEN {Owner} ELSE {}) \cup watcher.cfg.trusted

(* What of the fresh entries counts for actor a.                             *)
Ingested(a, known) ==
    {e \in Fresh : auditLog[e].actor = a /\ auditLog[e].weight > 0 /\ a \notin Spared(known)}

FetchFails ==
    /\ watcher.pc = "fetch"
    /\ Fault
    /\ watcher' = NoneDue
    /\ UNCHANGED <<auditLog, antinukeRow, seenID, events, actedAt, ownerKnown, base, handled, weighed, overrun, punished>>

(* The first fetch with anything in it only says where to begin.             *)
FetchBaseline ==
    /\ watcher.pc = "fetch" /\ seenID = 0
    /\ seenID' = Len(auditLog) /\ base' = Len(auditLog)
    /\ watcher' = NoneDue
    /\ UNCHANGED <<env, auditLog, antinukeRow, events, actedAt, ownerKnown, handled, weighed, overrun, punished>>

(* antinukeOwner: looked up until it is known, and then kept.                *)
AntinukeOwner(known) ==
    /\ ownerKnown => known
    /\ IF known THEN UNCHANGED env ELSE Fault
    /\ ownerKnown' = known

FetchEntries ==
    /\ watcher.pc = "fetch" /\ seenID # 0
    /\ seenID' = Len(auditLog)
    /\ handled' = [e \in Entry |-> handled[e] + (IF e \in Fresh THEN 1 ELSE 0)]
    /\ overrun' = (overrun \/ seenID + FetchLimit < Len(auditLog))
    /\ IF Fresh = {} THEN watcher' = NoneDue /\ UNCHANGED <<env, events, ownerKnown>>
       ELSE \E known \in BOOLEAN :
               /\ AntinukeOwner(known)
               /\ watcher' = [watcher EXCEPT !.pc = "score", !.at = now]
               /\ events' = [a \in Actor |-> [e \in Entry |-> events[a][e] + (IF e \in Ingested(a, known) THEN 1 ELSE 0)]]
    /\ UNCHANGED <<auditLog, antinukeRow, actedAt, base, weighed, punished>>

---------------------------------------------------------------------------
(* snowflakeUnix: an ID carries milliseconds since Discord's epoch, and the  *)
(* code adds the epoch in seconds to them.                                   *)
Epoch == 1420070400
SnowflakeUnix(t) == 1000 * (SinceEpoch + t) + Epoch
Clock(t) == SinceEpoch + t + Epoch

Evidence(es) == {e \in Entry : es[e] > 0}
WeightOf(es) == MapThenSumSet(LAMBDA e : es[e] * auditLog[e].weight, Evidence(es))

(* Score: what is left of an actor's events when the sweep looks at them.    *)
Kept(a) == [e \in Entry |-> IF e \in Evidence(events[a]) /\ SnowflakeUnix(auditLog[e].at) > Clock(watcher.at) - ScoreWindow
                             THEN events[a][e] ELSE 0]

Due(a) ==
    /\ Evidence(Kept(a)) # {} /\ WeightOf(Kept(a)) >= watcher.cfg.threshold
    /\ actedAt[a] = Never \/ watcher.at >= actedAt[a] + PunishCooldown

(* What a did within the last ScoreWindow, as the log has it.                *)
Recent(a) == [e \in Entry |-> IF e \in Evidence(Kept(a)) /\ auditLog[e].at + ScoreWindow > watcher.at THEN 1 ELSE 0]

LeftOf(a) == IF Due(a) THEN NoEvents ELSE Kept(a)

(* The second loop of pollAntinuke, with punishAntinuke: evidence and        *)
(* cooldown are settled before the punishment, which Discord or the role     *)
(* hierarchy may then refuse, and for the owner always does.                 *)
ScoreActors ==
    /\ watcher.pc = "score"
    /\ events' = [a \in Actor |-> LeftOf(a)]
    /\ actedAt' = [a \in Actor |-> IF Due(a) THEN watcher.at ELSE actedAt[a]]
    /\ UNCHANGED ownerKnown
    /\ weighed' = [e \in Entry |-> weighed[e] + Cardinality({a \in Actor : Due(a) /\ e \in Evidence(Kept(a))})]
    /\ \E done \in SUBSET {a \in Actor \ {Owner} : Due(a)} :
          punished' = punished \cup {[score |-> WeightOf(Recent(a)), of |-> watcher.cfg.threshold] : a \in done}
    /\ watcher' = NoneDue
    /\ UNCHANGED <<env, auditLog, antinukeRow, seenID, base, handled, overrun>>

NukeTick == Passes /\ UNCHANGED nukeVars

(* Everything but the row and the log is gone.                               *)
NukeRestart ==
    /\ Fault
    /\ watcher' = NoneDue
    /\ seenID' = 0 /\ base' = 0
    /\ events' = [a \in Actor |-> NoEvents]
    /\ actedAt' = [a \in Actor |-> Never] /\ ownerKnown' = FALSE
    /\ handled' = [e \in Entry |-> 0] /\ overrun' = FALSE
    /\ UNCHANGED <<auditLog, antinukeRow, weighed, punished>>

NukeNext ==
    \/ AuditEntry \/ ConfigureAntinuke
    \/ SweepAntinuke \/ FetchFails \/ FetchBaseline \/ FetchEntries \/ ScoreActors
    \/ NukeTick \/ NukeRestart

NukeSpec == HandlersInit /\ NukeInit /\ [][NukeNext]_<<env, nukeVars>>

---------------------------------------------------------------------------
NukeTypeOK ==
    /\ auditLog \in Seq([actor : Actor, weight : Nat, at : Time]) /\ Len(auditLog) <= MaxCalls
    /\ antinukeRow \in AntinukeRows
    /\ watcher \in [pc : {"idle", "fetch", "score"}, cfg : AntinukeRows, at : Time]
    /\ {seenID, base} \subseteq 0..MaxCalls
    /\ events \in [Actor -> [Entry -> Nat]]
    /\ actedAt \in [Actor -> Time \cup {Never}]
    /\ handled \in [Entry -> Nat] /\ weighed \in [Entry -> Nat]
    /\ {overrun, ownerKnown} \subseteq BOOLEAN
    /\ punished \subseteq [score : Nat, of : Nat]

(* Every entry of the audit log that comes after the first one a process     *)
(* sees is taken up exactly once, however fetches fail and entries arrive    *)
(* between them, unless more arrive than one fetch returns; and no entry     *)
(* counts in two punishments, restarts included.                             *)
EntriesOnce ==
    /\ \A e \in Entry : handled[e] <= 1 /\ weighed[e] <= 1
    /\ seenID # 0 /\ ~overrun => \A e \in (base + 1)..seenID : handled[e] = 1

(* README: sliding-window scoring.  Who is punished has reached the          *)
(* threshold by what they did within the window.                             *)
ScoreInWindow == \A x \in punished : x.score >= x.of
=============================================================================
