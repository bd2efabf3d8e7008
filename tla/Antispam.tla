------------------------------ MODULE Antispam ------------------------------
(***************************************************************************)
(* What happens to a member's message before anybody reads it: the trap    *)
(* channel, the word and link filter, and the burst detector with its      *)
(* window and cooldown, under settings cached for 15 seconds.  Messages of *)
(* one member, each in a handler of its own; the bot counts the time at    *)
(* which it handles a message, not the one at which it was sent.           *)
(***************************************************************************)
EXTENDS Handlers, Sequences, SequencesExt

CONSTANTS Messages,      \* what may be posted: [kind, mod], mod if by a moderator
          GuardRows,     \* rows of protection_config
          NoRow,         \* no row, or a row that could not be read
          Window,        \* antispam_window_seconds
          SpamCooldown,  \* spamActionCooldown, two minutes
          TrapCooldown,  \* honeypotCooldown, a minute
          GuardTTL       \* protectionCacheTTL, 15 seconds

ASSUME AntispamAssumption ==
    /\ Window \in Nat /\ SpamCooldown \in Nat /\ TrapCooldown \in Nat /\ GuardTTL \in Nat
    /\ NoRow \notin GuardRows
    /\ Messages \subseteq [kind : {"trap", "word", "link", "text"}, mod : BOOLEAN]

VARIABLES
    guardRow,    \* the row in the database
    guardCache,  \* protectionCache of the guild
    spamWindow, spamCooldown, honeypotCooldown,  \* of the member
    screening,   \* where each goroutine stands
    acts         \* history: what was done to the member since the start

guardVars == <<guardRow, guardCache, spamWindow, spamCooldown, honeypotCooldown,
               screening, acts>>

Row == GuardRows \cup {NoRow}
Kind == {"trap", "word", "link", "text"}

Unscreened == [pc |-> "idle", kind |-> "text", mod |-> FALSE, cfg |-> NoRow,
               at |-> 0, alone |-> TRUE]

GuardInit ==
    /\ guardRow \in Row
    /\ guardCache = [cfg |-> NoRow, at |-> Never]
    /\ spamWindow = <<>> /\ spamCooldown = Never /\ honeypotCooldown = Never
    /\ screening = [p \in Proc |-> Unscreened]
    /\ acts = <<>>

ScreenIdle(p) == screening' = [screening EXCEPT ![p] = Unscreened]
ScreenGoto(p, pc) == screening' = [screening EXCEPT ![p].pc = pc]

Act(kind, p) ==
    acts' = Append(acts, [kind |-> kind, at |-> screening[p].at, alone |-> screening[p].alone])

---------------------------------------------------------------------------
(* onMessageCreateProtection up to the map of protectionFor.  Whether the    *)
(* author is a moderator is looked up in the session's state.                *)
SeeMessage(p) ==
    /\ Called
    /\ screening[p].pc = "idle"
    /\ \E m \in Messages : LET it == [Unscreened EXCEPT !.kind = m.kind, !.mod = m.mod] IN
          screening' = [screening EXCEPT ![p] =
              IF Within(guardCache.at, GuardTTL)
              THEN [it EXCEPT !.pc = "screen", !.cfg = guardCache.cfg]
              ELSE [it EXCEPT !.pc = "query"]]
    /\ UNCHANGED <<guardRow, guardCache, spamWindow, spamCooldown, honeypotCooldown, acts>>

(* An error is remembered like a missing row: no settings.                   *)
QuerySettings(p) ==
    /\ screening[p].pc = "query"
    /\ \/ screening' = [screening EXCEPT ![p].pc = "fill", ![p].cfg = guardRow] /\ UNCHANGED env
       \/ Fault /\ screening' = [screening EXCEPT ![p].pc = "fill", ![p].cfg = NoRow]
    /\ UNCHANGED <<guardRow, guardCache, spamWindow, spamCooldown, honeypotCooldown, acts>>

FillSettings(p) ==
    /\ screening[p].pc = "fill"
    /\ guardCache' = [cfg |-> screening[p].cfg, at |-> now]
    /\ ScreenGoto(p, "screen")
    /\ UNCHANGED <<env, guardRow, spamWindow, spamCooldown, honeypotCooldown, acts>>

---------------------------------------------------------------------------
InTrap(it) == it.kind = "trap" /\ it.cfg.trap

(* checkFilterAndLinks: the two ways of blocking links spare moderators      *)
(* alike.                                                                    *)
Filtered(it) ==
    /\ ~InTrap(it) /\ ~it.mod
    /\ \/ it.kind = "word" /\ it.cfg.words
       \/ it.kind = "link" /\ it.cfg.links # "off"

Counted(it) == ~InTrap(it) /\ ~Filtered(it) /\ it.cfg.spam /\ ~it.mod

ScreenPass(p) ==
    LET it == screening[p] IN
    /\ it.pc = "screen"
    /\ \/ it.cfg = NoRow
       \/ it.cfg # NoRow /\ InTrap(it) /\ it.mod
       \/ it.cfg # NoRow /\ InTrap(it) /\ Within(honeypotCooldown, TrapCooldown)
       \/ it.cfg # NoRow /\ ~InTrap(it) /\ ~Filtered(it) /\ ~Counted(it)
    /\ ScreenIdle(p)
    /\ UNCHANGED <<env, guardRow, guardCache, spamWindow, spamCooldown, honeypotCooldown, acts>>

(* The message is deleted and a warning filed, and that is the end of it: it *)
(* does not count towards a burst.                                           *)
FilterMessage(p) ==
    LET it == screening[p] IN
    /\ it.pc = "screen" /\ it.cfg # NoRow /\ Filtered(it)
    /\ ScreenIdle(p)
    /\ UNCHANGED <<env, guardRow, guardCache, spamWindow, spamCooldown, honeypotCooldown, acts>>

(* tripHoneypot: the cooldown is looked at and taken under one lock.         *)
TripHoneypot(p) ==
    LET it == screening[p] IN
    /\ it.pc = "screen" /\ it.cfg # NoRow /\ InTrap(it) /\ ~it.mod
    /\ ~Within(honeypotCooldown, TrapCooldown)
    /\ honeypotCooldown' = now
    /\ screening' = [screening EXCEPT ![p] = [Unscreened EXCEPT !.pc = "trapped", !.at = now]]
    /\ UNCHANGED <<env, guardRow, guardCache, spamWindow, spamCooldown, acts>>

(* What to do is read from the row, not from the cache.                      *)
TrapPunish(p) ==
    /\ screening[p].pc = "trapped"
    /\ ScreenIdle(p)
    /\ \/ Act("trap", p) /\ UNCHANGED env
       \/ Fault /\ UNCHANGED acts
    /\ UNCHANGED <<guardRow, guardCache, spamWindow, spamCooldown, honeypotCooldown>>

---------------------------------------------------------------------------
\* Mutant: the cooldown is not looked at.
NoCooldown(hits, max) == hits < max

(* The two ways for a message not to be a burst.                             *)
Tolerated(hits, max) == hits < max \/ Within(spamCooldown, SpamCooldown)

Marking == {p \in Proc : screening[p].pc = "mark"}

(* The loop over the window: what has not left it yet, in its order.         *)
StillInWindow == FoldLeft(LAMBDA kept, t : IF t + Window > now THEN Append(kept, t) ELSE kept, <<>>, spamWindow)

(* checkBurst, the first lock section and the decision after it.             *)
CountMessage(p) ==
    LET it == screening[p]
        kept == Append(StillInWindow, now)
    IN
    /\ it.pc = "screen" /\ it.cfg # NoRow /\ Counted(it)
    /\ spamWindow' = kept
    /\ IF Tolerated(Len(kept), it.cfg.msgs) THEN ScreenIdle(p)
       ELSE screening' = [q \in Proc |->
              IF q = p THEN [Unscreened EXCEPT !.pc = "mark", !.at = now, !.alone = Marking = {}]
              ELSE IF q \in Marking THEN [screening[q] EXCEPT !.alone = FALSE] ELSE screening[q]]
    /\ UNCHANGED <<env, guardRow, guardCache, spamCooldown, honeypotCooldown, acts>>

(* The second lock section: the window starts anew.                          *)
MarkBurst(p) ==
    /\ screening[p].pc = "mark"
    /\ spamCooldown' = screening[p].at
    /\ spamWindow' = <<>>
    /\ ScreenGoto(p, "punish")
    /\ UNCHANGED <<env, guardRow, guardCache, honeypotCooldown, acts>>

(* The timeout of a minute and its case; when it fails, the cooldown stays.  *)
PunishBurst(p) ==
    /\ screening[p].pc = "punish"
    /\ ScreenIdle(p)
    /\ \/ Act("burst", p) /\ UNCHANGED env
       \/ Fault /\ UNCHANGED acts
    /\ UNCHANGED <<guardRow, guardCache, spamWindow, spamCooldown, honeypotCooldown>>

---------------------------------------------------------------------------
(* .protect, .config import: the row changes.  Of the commands only honeypot *)
(* throws the cached settings away, after its save.                          *)
ChangeSettings(p) ==
    /\ Called
    /\ screening[p].pc = "idle"
    /\ \E row \in GuardRows \ {guardRow} : guardRow' = row
    /\ \/ UNCHANGED screening
       \/ ScreenGoto(p, "bust")
    /\ UNCHANGED <<guardCache, spamWindow, spamCooldown, honeypotCooldown, acts>>

InvalidateProtectionConfig(p) ==
    /\ screening[p].pc = "bust"
    /\ guardCache' = [cfg |-> NoRow, at |-> Never]
    /\ ScreenIdle(p)
    /\ UNCHANGED <<env, guardRow, spamWindow, spamCooldown, honeypotCooldown, acts>>

GuardTick == Passes /\ UNCHANGED guardVars

GuardRestart ==
    /\ Fault
    /\ guardCache' = [cfg |-> NoRow, at |-> Never]
    /\ spamWindow' = <<>> /\ spamCooldown' = Never /\ honeypotCooldown' = Never
    /\ screening' = [p \in Proc |-> Unscreened]
    /\ acts' = <<>>
    /\ UNCHANGED guardRow

GuardNext ==
    \/ \E p \in Proc : \/ SeeMessage(p) \/ QuerySettings(p) \/ FillSettings(p) \/ ScreenPass(p)
                       \/ FilterMessage(p) \/ TripHoneypot(p) \/ TrapPunish(p)
                       \/ CountMessage(p) \/ MarkBurst(p) \/ PunishBurst(p)
                       \/ ChangeSettings(p) \/ InvalidateProtectionConfig(p)
    \/ GuardTick \/ GuardRestart

GuardSpec == HandlersInit /\ GuardInit /\ [][GuardNext]_<<env, guardVars>>

---------------------------------------------------------------------------
GuardTypeOK ==
    /\ guardRow \in Row
    /\ guardCache \in [cfg : Row, at : Time \cup {Never}]
    /\ spamWindow \in Seq(Time)
    /\ {spamCooldown, honeypotCooldown} \subseteq Time \cup {Never}
    /\ screening \in [Proc -> [pc : {"idle", "query", "fill", "screen", "trapped", "mark", "punish", "bust"},
                               kind : Kind, mod : BOOLEAN, cfg : Row, at : Time, alone : BOOLEAN]]
    /\ acts \in Seq([kind : {"trap", "burst"}, at : Time, alone : BOOLEAN])

(* While the process runs, the trap punishes a member once in TrapCooldown,  *)
(* because it looks at the cooldown and takes it under one lock.  The burst  *)
(* detector does so in two lock sections: two of its punishments may be      *)
(* nearer than SpamCooldown only if another message of the member was        *)
(* between the two sections when one of them was counted.                    *)
BurstsApart ==
    \A i, j \in 1..Len(acts) :
        i # j /\ acts[i].kind = acts[j].kind /\ acts[i].at <= acts[j].at =>
            \/ acts[i].kind = "trap" /\ acts[j].at >= acts[i].at + TrapCooldown
            \/ /\ acts[i].kind = "burst"
               /\ acts[i].alone /\ acts[j].alone => acts[j].at >= acts[i].at + SpamCooldown
=============================================================================
