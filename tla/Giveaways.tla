----------------------------- MODULE Giveaways -----------------------------
(***************************************************************************)
(* Giveaways of one guild: /giveaway posts a panel with a button, members  *)
(* press it to enter, the sweeper draws the winners once the giveaway has  *)
(* ended, and /greroll draws further winners.                              *)
(*                                                                         *)
(* The starter, every press of the button, the sweeper and every reroll    *)
(* run in goroutines of their own and are split at their Discord and       *)
(* database calls.  Giveaways are numbered by the AUTOINCREMENT id of      *)
(* their row.  winner_ids and the entries are sets: the draw shuffles the  *)
(* entries, and no order of winners is ever read back.                     *)
(*                                                                         *)
(* Bounds: MaxGiveaways, MaxTime, MaxFaults (failing calls), MaxRestarts;   *)
(* a giveaway has at most MaxPlaces winners (20 in the code).              *)
(***************************************************************************)
EXTENDS Naturals, FiniteSets, Sweeps

CONSTANTS Member,           \* the members who may enter
          Reroller,       \* goroutines running /greroll
          GiveawayBatch,  \* rows one sweep reads (10 in the code)
          MaxPlaces, MaxGiveaways, MaxRestarts

ASSUME GiveawayAssumption ==
    /\ IsFiniteSet(Member)
    /\ GiveawayBatch \in Nat \ {0} /\ MaxPlaces \in Nat \ {0}
    /\ MaxGiveaways \in Nat /\ MaxRestarts \in Nat

VARIABLES
    created,   \* rows of giveaways inserted so far
    giveaways, \* giveaways, by id
    entries,   \* giveaway_entries: for each giveaway, who has entered
    panel,     \* the message with the button: "none", "armed" or "ended"
    starting,  \* where the goroutine that starts a giveaway stands
    entering,  \* <<u, g>>: u pressed g's button and the checks have passed
    due,       \* the due giveaways the running sweep still has to handle
    linked,    \* those of them whose row had a message id when it was read
    draw,      \* where the sweeper stands with the giveaway it is drawing
    reroll,    \* where each reroll stands
    early,     \* history: who had entered when the draw was claimed
    told,      \* history: the giveaways whose draw was announced, and ...
    result,    \* ... the winners it named
    named,     \* history: everybody ever announced as a winner
    restarts   \* restarts so far

sweepVars == <<due, linked, draw>>
history == <<early, told, result, named>>
giveawayVars == <<now, created, giveaways, entries, panel, starting, entering, sweepVars, reroll,
                  history, faults, restarts>>

Giveaway == 1..MaxGiveaways
Place == 1..MaxPlaces

NewGiveaway(e, k) == [ends |-> e, places |-> k, linked |-> FALSE, drawn |-> FALSE, winners |-> {}]
NoGiveaway == NewGiveaway(0, 1)
GiveawayRow == [ends : Time, places : Place, linked : BOOLEAN, drawn : BOOLEAN,
        winners : SUBSET Member]

DrawAt(pc, g, pool, W) == [pc |-> pc, g |-> g, pool |-> pool, winners |-> W]
NoDraw == DrawAt("next", 0, {}, {})
Drawing == [pc : {"next", "claimed", "listed", "saved"}, g : Giveaway \cup {0},
            pool : SUBSET Member, winners : SUBSET Member]

RerollAt(pc, g, prev, W, before) ==
    [pc |-> pc, g |-> g, prev |-> prev, winners |-> W, before |-> before]
NoReroll == RerollAt("idle", 0, {}, {}, {})
Rerolling == [pc : {"idle", "read", "picked", "saved"}, g : Giveaway \cup {0},
              prev : SUBSET Member, winners : SUBSET Member, before : SUBSET Member]

GiveawayInit ==
    /\ now = 0 /\ created = 0
    /\ giveaways = [g \in Giveaway |-> NoGiveaway]
    /\ entries = [g \in Giveaway |-> {}]
    /\ panel = [g \in Giveaway |-> "none"]
    /\ starting = [g \in Giveaway |-> "idle"]
    /\ entering = {}
    /\ due = {} /\ linked = {} /\ draw = NoDraw
    /\ reroll = [r \in Reroller |-> NoReroll]
    /\ early = [g \in Giveaway |-> {}] /\ told = {}
    /\ result = [g \in Giveaway |-> {}] /\ named = [g \in Giveaway |-> {}]
    /\ faults = 0 /\ restarts = 0

GiveawayTick ==
    /\ now < MaxTime
    /\ now' = now + 1
    /\ UNCHANGED <<created, giveaways, entries, panel, starting, entering, sweepVars, reroll,
                   history, faults, restarts>>

---------------------------------------------------------------------------
(* StartGiveaway: the row, the panel, the link from the row to the panel.    *)

\* Mutant: the number of winners is taken as it was typed.
ClampNothing(k) == k

Clamp(k) == IF k < 1 THEN 1 ELSE IF k > MaxPlaces THEN MaxPlaces ELSE k

(* A row that cannot be read back after its INSERT stays without a panel.    *)
CreateGiveaway(d, k) ==
    /\ created < MaxGiveaways /\ now + d <= MaxTime
    /\ created' = created + 1
    /\ giveaways' = [giveaways EXCEPT ![created + 1] = NewGiveaway(now + d, Clamp(k))]
    /\ \/ starting' = [starting EXCEPT ![created + 1] = "created"] /\ UNCHANGED faults
       \/ Fault /\ UNCHANGED starting
    /\ UNCHANGED <<now, entries, panel, entering, sweepVars, reroll, history, restarts>>

PostPanel(g) ==
    /\ starting[g] = "created"
    /\ \/ /\ panel' = [panel EXCEPT ![g] = "armed"]
          /\ starting' = [starting EXCEPT ![g] = "posted"]
          /\ UNCHANGED faults
       \/ Fault /\ starting' = [starting EXCEPT ![g] = "idle"] /\ UNCHANGED panel
    /\ UNCHANGED <<now, created, giveaways, entries, entering, sweepVars, reroll, history, restarts>>

SetGiveawayMessage(g) ==
    /\ starting[g] = "posted"
    /\ starting' = [starting EXCEPT ![g] = "idle"]
    /\ \/ giveaways' = [giveaways EXCEPT ![g].linked = TRUE] /\ UNCHANGED faults
       \/ Fault /\ UNCHANGED giveaways
    /\ UNCHANGED <<now, created, entries, panel, entering, sweepVars, reroll, history, restarts>>

---------------------------------------------------------------------------
(* handleGiveawayEnter: the row is read and judged, then the entry written. *)

EnterCheck(u, g) ==
    /\ panel[g] = "armed"
    /\ ~giveaways[g].drawn /\ now <= giveaways[g].ends
    /\ entering' = entering \cup {<<u, g>>}
    /\ UNCHANGED <<now, created, giveaways, entries, panel, starting, sweepVars, reroll, history,
                   faults, restarts>>

(* INSERT OR IGNORE: a second press of the button changes nothing.           *)
AddGiveawayEntry(u, g) ==
    /\ <<u, g>> \in entering
    /\ entering' = entering \ {<<u, g>>}
    /\ \/ entries' = [entries EXCEPT ![g] = @ \cup {u}] /\ UNCHANGED faults
       \/ Fault /\ UNCHANGED entries
    /\ UNCHANGED <<now, created, giveaways, panel, starting, sweepVars, reroll, history, restarts>>

---------------------------------------------------------------------------
(* The sweeper. *)

Ends == [g \in Giveaway |-> giveaways[g].ends]

DueGiveaways == {g \in 1..created : ~giveaways[g].drawn /\ giveaways[g].ends <= now}

GiveawaySweepRead ==
    /\ due = {} /\ DueGiveaways # {}
    /\ due' \in Earliest(DueGiveaways, GiveawayBatch, Ends)
    /\ linked' = {g \in due' : giveaways[g].linked}
    /\ UNCHANGED <<now, created, giveaways, entries, panel, starting, entering, draw, reroll,
                   history, faults, restarts>>

LeaveBatch(g) ==
    /\ due' = due \ {g}
    /\ linked' = linked \ {g}
    /\ draw' = NoDraw

\* Mutant: the draw goes on when the claim could not be written.
MarkGiveawayDrawnIgnoringError ==
    /\ draw.pc = "next"
    /\ \E g \in First(due, Ends) :
          /\ draw' = DrawAt("claimed", g, {}, {})
          /\ \/ ~giveaways[g].drawn /\ giveaways' = [giveaways EXCEPT ![g].drawn = TRUE] /\ UNCHANGED faults
             \/ Fault /\ UNCHANGED giveaways
          /\ early' = [early EXCEPT ![g] = entries[g]]
          /\ UNCHANGED <<due, linked>>
    /\ UNCHANGED <<now, created, entries, panel, starting, entering, reroll, told, result,
                   named, restarts>>

(* The compare-and-set on drawn.  If the UPDATE fails the loop goes on to    *)
(* the next giveaway and this one is due again at the next sweep.            *)
MarkGiveawayDrawn ==
    /\ draw.pc = "next"
    /\ \E g \in First(due, Ends) :
          \/ /\ ~giveaways[g].drawn
             /\ giveaways' = [giveaways EXCEPT ![g].drawn = TRUE]
             /\ draw' = DrawAt("claimed", g, {}, {})
             /\ early' = [early EXCEPT ![g] = entries[g]]
             /\ UNCHANGED <<due, linked, faults>>
          \/ /\ IF giveaways[g].drawn THEN UNCHANGED faults ELSE Fault
             /\ LeaveBatch(g)
             /\ UNCHANGED <<giveaways, early>>
    /\ UNCHANGED <<now, created, entries, panel, starting, entering, reroll, told, result,
                   named, restarts>>

(* pickWinners: n entries of the pool, all of them if it is smaller.         *)
PickWinners(pool, n) ==
    {W \in SUBSET pool :
        Cardinality(W) = IF Cardinality(pool) < n THEN Cardinality(pool) ELSE n}

(* The draw of a giveaway whose entries cannot be read is given up for good. *)
ListGiveawayEntries ==
    /\ draw.pc = "claimed"
    /\ \/ /\ \E W \in PickWinners(entries[draw.g], giveaways[draw.g].places) :
                draw' = DrawAt("listed", draw.g, entries[draw.g], W)
          /\ UNCHANGED <<due, linked, faults>>
       \/ Fault /\ LeaveBatch(draw.g)
    /\ UNCHANGED <<now, created, giveaways, entries, panel, starting, entering, reroll, history,
                   restarts>>

(* Not called for an empty draw; an error is ignored.                        *)
SetGiveawayWinners ==
    /\ draw.pc = "listed"
    /\ draw' = DrawAt("saved", draw.g, draw.pool, draw.winners)
    /\ \/ /\ giveaways' = IF draw.winners = {} THEN giveaways
                     ELSE [giveaways EXCEPT ![draw.g].winners = draw.winners]
          /\ UNCHANGED faults
       \/ draw.winners # {} /\ Fault /\ UNCHANGED giveaways
    /\ UNCHANGED <<now, created, entries, panel, starting, entering, due, linked, reroll,
                   history, restarts>>

(* The result is sent to the channel and, if the row that was read knew the  *)
(* panel, written over it, which takes the button away.  A fault stands for  *)
(* the failure of both calls.                                                *)
AnnounceResult ==
    /\ draw.pc = "saved"
    /\ LeaveBatch(draw.g)
    /\ \/ /\ told' = told \cup {draw.g}
          /\ result' = [result EXCEPT ![draw.g] = draw.winners]
          /\ named' = [named EXCEPT ![draw.g] = @ \cup draw.winners]
          /\ panel' = IF draw.g \in linked THEN [panel EXCEPT ![draw.g] = "ended"] ELSE panel
          /\ UNCHANGED faults
       \/ Fault /\ UNCHANGED <<told, result, named, panel>>
    /\ UNCHANGED <<now, created, giveaways, entries, starting, entering, reroll, early, restarts>>

---------------------------------------------------------------------------
(* RerollGiveaway. *)

\* Mutant: a reroll that does not look whether the giveaway has ended.
RerollReadAny(r, g) ==
    /\ reroll[r].pc = "idle"
    /\ giveaways[g].linked
    /\ reroll' = [reroll EXCEPT ![r] = RerollAt("read", g, giveaways[g].winners, {}, named[g])]
    /\ UNCHANGED <<now, created, giveaways, entries, panel, starting, entering, sweepVars, history,
                   faults, restarts>>

RerollRead(r, g) ==
    /\ reroll[r].pc = "idle"
    /\ giveaways[g].linked /\ giveaways[g].drawn
    /\ reroll' = [reroll EXCEPT ![r] = RerollAt("read", g, giveaways[g].winners, {}, named[g])]
    /\ UNCHANGED <<now, created, giveaways, entries, panel, starting, entering, sweepVars, history,
                   faults, restarts>>

(* Without anybody left to win the command answers so and ends.              *)
RerollPick(r, n) ==
    LET g == reroll[r].g
        pool == entries[g] \ reroll[r].prev
    IN /\ reroll[r].pc = "read"
       /\ \/ /\ pool # {}
             /\ \E W \in PickWinners(pool, n) :
                   reroll' = [reroll EXCEPT ![r] = RerollAt("picked", g, reroll[r].prev, W,
                                                         reroll[r].before)]
             /\ UNCHANGED faults
          \/ /\ IF pool = {} THEN UNCHANGED faults ELSE Fault
             /\ reroll' = [reroll EXCEPT ![r] = NoReroll]
       /\ UNCHANGED <<now, created, giveaways, entries, panel, starting, entering, sweepVars,
                      history, restarts>>

(* winner_ids becomes the winners read at the start and the new ones; an     *)
(* error is ignored.                                                         *)
RerollSave(r) ==
    /\ reroll[r].pc = "picked"
    /\ reroll' = [reroll EXCEPT ![r].pc = "saved"]
    /\ \/ /\ giveaways' = [giveaways EXCEPT ![reroll[r].g].winners =
                                      reroll[r].prev \cup reroll[r].winners]
          /\ UNCHANGED faults
       \/ Fault /\ UNCHANGED giveaways
    /\ UNCHANGED <<now, created, entries, panel, starting, entering, sweepVars, history,
                   restarts>>

(* The new winners are named in the channel and in the answer to the command. *)
RerollAnnounce(r) ==
    /\ reroll[r].pc = "saved"
    /\ reroll' = [reroll EXCEPT ![r] = NoReroll]
    /\ named' = [named EXCEPT ![reroll[r].g] = @ \cup reroll[r].winners]
    /\ UNCHANGED <<now, created, giveaways, entries, panel, starting, entering, sweepVars, early,
                   told, result, faults, restarts>>

(* The process dies and comes back: goroutines are gone, Discord and the     *)
(* database keep what they had.                                              *)
GiveawayCrash ==
    /\ restarts < MaxRestarts
    /\ restarts' = restarts + 1
    /\ starting' = [g \in Giveaway |-> "idle"]
    /\ entering' = {}
    /\ due' = {} /\ linked' = {} /\ draw' = NoDraw
    /\ reroll' = [r \in Reroller |-> NoReroll]
    /\ UNCHANGED <<now, created, giveaways, entries, panel, history, faults>>

---------------------------------------------------------------------------
Start ==
    \/ \E d \in 1..MaxTime, k \in 0..MaxPlaces + 1 : CreateGiveaway(d, k)
    \/ \E g \in Giveaway : PostPanel(g) \/ SetGiveawayMessage(g)

Enter == \E u \in Member, g \in Giveaway : EnterCheck(u, g) \/ AddGiveawayEntry(u, g)

GiveawaySweep ==
    \/ GiveawaySweepRead \/ MarkGiveawayDrawn \/ ListGiveawayEntries
    \/ SetGiveawayWinners \/ AnnounceResult

Reroll(r) ==
    \/ \E g \in Giveaway : RerollRead(r, g)
    \/ \E n \in Place : RerollPick(r, n)
    \/ RerollSave(r) \/ RerollAnnounce(r)

GiveawayNext == GiveawayTick \/ Start \/ Enter \/ GiveawaySweep \/ (\E r \in Reroller : Reroll(r)) \/ GiveawayCrash

GiveawaySpec == GiveawayInit /\ [][GiveawayNext]_giveawayVars

(* sched.Loop re-arms its timer after every sweep, panics included, so the   *)
(* sweeper keeps taking steps; nobody is obliged to enter or to reroll.      *)
GiveawayFairSpec == GiveawaySpec /\ WF_giveawayVars(GiveawaySweep)

---------------------------------------------------------------------------
(* Types: what each variable holds; the sweep at most one batch.             *)
GiveawayTypeOK ==
    /\ now \in Time /\ created \in 0..MaxGiveaways
    /\ giveaways \in [Giveaway -> GiveawayRow]
    /\ entries \in [Giveaway -> SUBSET Member]
    /\ panel \in [Giveaway -> {"none", "armed", "ended"}]
    /\ starting \in [Giveaway -> {"idle", "created", "posted"}]
    /\ entering \subseteq Member \X Giveaway
    /\ due \subseteq Giveaway /\ Cardinality(due) <= GiveawayBatch
    /\ linked \subseteq due
    /\ draw \in Drawing
    /\ reroll \in [Reroller -> Rerolling]
    /\ early \in [Giveaway -> SUBSET Member] /\ told \subseteq Giveaway
    /\ result \in [Giveaway -> SUBSET Member] /\ named \in [Giveaway -> SUBSET Member]
    /\ faults \in 0..MaxFaults /\ restarts \in 0..MaxRestarts

(* Nobody is named a winner, or recorded as one, of a giveaway whose draw    *)
(* was not claimed: rerolls cannot run ahead of the sweeper.                 *)
NobodyWinsEarly ==
    \A g \in Giveaway :
        named[g] \cup giveaways[g].winners # {} => giveaways[g].drawn /\ giveaways[g].ends <= now

(* README "rerolls exclude previous winners": a reroll never picks somebody  *)
(* who had been announced as a winner before it began.                       *)
RerollExcludesPrevious ==
    \A r \in Reroller : reroll[r].winners \cap reroll[r].before = {}

(* Giveaways are raffles: see Raffle. *)
RafflePhase(g) ==
    IF g > created THEN "none"
    ELSE IF ~giveaways[g].drawn THEN "open"
    ELSE IF g \in told THEN "announced" ELSE "closed"

Raffles == INSTANCE Raffle
               WITH Draw <- Giveaway, Entrant <- Member, clock <- now,
                    phase <- [g \in Giveaway |-> RafflePhase(g)],
                    ends <- Ends,
                    places <- [g \in Giveaway |-> giveaways[g].places],
                    entered <- entries

(* The compare-and-set that precedes the reading of the entries makes every  *)
(* draw a fair raffle, through late presses of the button, rerolls, failing  *)
(* calls and restarts; and a giveaway that has ended is eventually closed.   *)
RefinesRaffle == Raffles!Spec
=============================================================================
