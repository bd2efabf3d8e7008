-------------------------- MODULE GiveawaysProofs --------------------------
(***************************************************************************)
(* Theorems about Giveaways, for any members, rerolls, batch size and      *)
(* bounds.  The inductive invariant says what a goroutine may rely on      *)
(* between two of its calls: nothing is known of a giveaway before its row *)
(* exists, a claim is never taken back, and the pool of a draw lies        *)
(* between those who had entered at the claim and those who have entered.  *)
(***************************************************************************)
EXTENDS Giveaways, TLAPS, FiniteSetTheorems

Types ==
    /\ now \in Time /\ created \in 0..MaxGiveaways
    /\ giveaways \in [Giveaway -> GiveawayRow]
    /\ entries \in [Giveaway -> SUBSET Member]
    /\ panel \in [Giveaway -> {"none", "armed", "ended"}]
    /\ starting \in [Giveaway -> {"idle", "created", "posted"}]
    /\ entering \subseteq Member \X Giveaway
    /\ due \subseteq Giveaway /\ linked \subseteq due
    /\ draw \in Drawing
    /\ reroll \in [Reroller -> Rerolling]
    /\ early \in [Giveaway -> SUBSET Member] /\ told \subseteq Giveaway
    /\ result \in [Giveaway -> SUBSET Member] /\ named \in [Giveaway -> SUBSET Member]

(* Whatever happens to a giveaway happens after its row was inserted. *)
CreatedFirst ==
    /\ \A g \in Giveaway :
          giveaways[g].drawn \/ panel[g] = "armed" \/ starting[g] # "idle" \/ entries[g] # {}
              => g <= created
    /\ \A u \in Member, g \in Giveaway : <<u, g>> \in entering => g <= created

(* A claim comes after the end, winners and announcements after the claim. *)
ClaimedFirst ==
    \A g \in Giveaway :
        /\ giveaways[g].drawn => giveaways[g].ends <= now
        /\ named[g] \cup giveaways[g].winners # {} => giveaways[g].drawn
        /\ g \in told => giveaways[g].drawn
        /\ early[g] \subseteq entries[g]

BatchInv == \A g \in due : g <= created /\ giveaways[g].ends <= now

(* The giveaway in hand is claimed and not announced; once its winners are   *)
(* picked, their pool holds everybody the claim found.                       *)
DrawInv ==
    draw.pc # "next" =>
        /\ draw.g \in due /\ giveaways[draw.g].drawn /\ draw.g \notin told
        /\ draw.pc \in {"listed", "saved"} =>
              /\ early[draw.g] \subseteq draw.pool
              /\ draw.pool \subseteq entries[draw.g]
              /\ draw.winners \in PickWinners(draw.pool, giveaways[draw.g].places)

RerollInv ==
    \A r \in Reroller :
        reroll[r].pc # "idle" => reroll[r].g \in Giveaway /\ giveaways[reroll[r].g].drawn

IInv == Types /\ CreatedFirst /\ ClaimedFirst /\ BatchInv /\ DrawInv /\ RerollInv

---------------------------------------------------------------------------
LEMMA InitIInv == GiveawayInit => IInv
<1> SUFFICES ASSUME GiveawayInit PROVE IInv
  OBVIOUS
<1>1. NoGiveaway \in GiveawayRow /\ NoDraw \in Drawing /\ NoReroll \in Rerolling
  BY GiveawayAssumption, SweepsAssumption DEF NoGiveaway, NewGiveaway, GiveawayRow, Time, Place, NoDraw, DrawAt, Drawing,
                            NoReroll, RerollAt, Rerolling
<1>2. Types
  BY <1>1, GiveawayAssumption, SweepsAssumption DEF GiveawayInit, Types, Time
<1>3. CreatedFirst /\ ClaimedFirst /\ BatchInv
  BY DEF GiveawayInit, CreatedFirst, ClaimedFirst, BatchInv, NoGiveaway, NewGiveaway
<1>4. DrawInv /\ RerollInv
  BY DEF GiveawayInit, DrawInv, RerollInv, NoDraw, DrawAt, NoReroll, RerollAt
<1>. QED
  BY <1>2, <1>3, <1>4 DEF IInv

LEMMA ClampedPlaces ==
    ASSUME NEW k \in 0..MaxPlaces + 1
    PROVE  Clamp(k) \in Place
BY GiveawayAssumption, SweepsAssumption DEF Clamp, Place

(* A row is inserted under the next id. *)
LEMMA CreateStep ==
    ASSUME IInv, NEW d \in 1..MaxTime, NEW k \in 0..MaxPlaces + 1, CreateGiveaway(d, k)
    PROVE  IInv'
<1> USE DEF IInv
<1> DEFINE i == created + 1
           row == NewGiveaway(now + d, Clamp(k))
<1>1. /\ created' = i /\ giveaways' = [giveaways EXCEPT ![i] = row]
      /\ \/ starting' = [starting EXCEPT ![i] = "created"]
         \/ UNCHANGED starting
      /\ UNCHANGED <<now, entries, panel, entering, sweepVars, reroll, history>>
  BY DEF CreateGiveaway
<1>2. i \in Giveaway /\ created' \in 0..MaxGiveaways /\ created \in Nat /\ i = created + 1
  BY GiveawayAssumption, SweepsAssumption DEF CreateGiveaway, Types, Giveaway
<1>3. row \in GiveawayRow /\ ~row.drawn /\ row.winners = {}
  <2>1. now + d \in Time /\ Clamp(k) \in Place
    BY ClampedPlaces, GiveawayAssumption, SweepsAssumption DEF CreateGiveaway, Types, Time
  <2>. QED
    BY <2>1 DEF NewGiveaway, GiveawayRow
<1>. HIDE DEF i, row
<1>4. /\ giveaways' \in [Giveaway -> GiveawayRow] /\ giveaways'[i] = row
      /\ \A g \in Giveaway \ {i} : giveaways'[g] = giveaways[g]
  BY <1>1, <1>2, <1>3 DEF Types
<1>5. /\ starting' \in [Giveaway -> {"idle", "created", "posted"}]
      /\ \A g \in Giveaway \ {i} : starting'[g] = starting[g]
  BY <1>1, <1>2 DEF Types
<1>6. ~giveaways[i].drawn /\ i \notin due /\ \A g \in Giveaway : g <= created => g # i
  BY <1>2 DEF CreatedFirst, BatchInv, Giveaway, Types
<1>7. \A g \in Giveaway : g <= created => g <= created'
  BY <1>1, <1>2 DEF Giveaway
<1>8. Types'
  BY <1>1, <1>2, <1>4, <1>5 DEF Types, sweepVars, history
<1>9. CreatedFirst'
  <2>1. i <= created'
    BY <1>1, <1>2
  <2>. QED
    BY <1>1, <1>4, <1>5, <1>7, <2>1 DEF CreatedFirst
<1>10. ClaimedFirst'
  BY <1>1, <1>3, <1>4, <1>6 DEF ClaimedFirst, history
<1>11. BatchInv'
  BY <1>1, <1>4, <1>6, <1>7 DEF BatchInv, sweepVars, Types
<1>12. DrawInv'
  BY <1>1, <1>4, <1>6 DEF DrawInv, sweepVars, history, Types
<1>13. RerollInv'
  BY <1>1, <1>4, <1>6 DEF RerollInv
<1>. QED
  BY <1>8, <1>9, <1>10, <1>11, <1>12, <1>13

LEMMA PostPanelStep ==
    ASSUME IInv, NEW g \in Giveaway, PostPanel(g)
    PROVE  IInv'
<1> USE DEF IInv
<1>1. /\ starting[g] # "idle"
      /\ UNCHANGED <<now, created, giveaways, entries, entering, sweepVars, reroll, history>>
      /\ panel' = panel \/ panel' = [panel EXCEPT ![g] = "armed"]
      /\ \E s \in {"posted", "idle"} : starting' = [starting EXCEPT ![g] = s]
  BY DEF PostPanel
<1>2. g <= created
  BY <1>1 DEF CreatedFirst
<1>3. Types'
  BY <1>1 DEF Types, sweepVars, history
<1>4. CreatedFirst'
  BY <1>1, <1>2 DEF CreatedFirst, Types
<1>5. ClaimedFirst' /\ BatchInv' /\ DrawInv' /\ RerollInv'
  BY <1>1 DEF ClaimedFirst, BatchInv, DrawInv, RerollInv, PickWinners, sweepVars, history
<1>. QED
  BY <1>3, <1>4, <1>5

(* A write to one row that keeps its end and places and claims no draw. *)
RowKept(g) ==
    /\ giveaways' \in [Giveaway -> GiveawayRow]
    /\ \A h \in Giveaway : h # g => giveaways'[h] = giveaways[h]
    /\ giveaways'[g].ends = giveaways[g].ends /\ giveaways'[g].places = giveaways[g].places
    /\ giveaways'[g].drawn = giveaways[g].drawn

LEMMA KeptRow ==
    ASSUME Types, NEW g \in Giveaway, NEW W \in SUBSET Member,
           \/ UNCHANGED giveaways
           \/ giveaways' = [giveaways EXCEPT ![g].linked = TRUE]
           \/ giveaways' = [giveaways EXCEPT ![g].winners = W]
    PROVE  /\ RowKept(g)
           /\ \/ giveaways'[g].winners = giveaways[g].winners
              \/ giveaways' = [giveaways EXCEPT ![g].winners = W] /\ giveaways'[g].winners = W
<1>1. giveaways[g] \in GiveawayRow
  BY DEF Types
<1>2. CASE UNCHANGED giveaways
  BY <1>2 DEF Types, RowKept
<1>3. CASE giveaways' = [giveaways EXCEPT ![g].linked = TRUE]
  <2> DEFINE r == [giveaways[g] EXCEPT !.linked = TRUE]
  <2>1. /\ r \in GiveawayRow /\ r.ends = giveaways[g].ends /\ r.places = giveaways[g].places
        /\ r.drawn = giveaways[g].drawn /\ r.winners = giveaways[g].winners
    BY <1>1 DEF GiveawayRow
  <2>2. giveaways' = [giveaways EXCEPT ![g] = r]
    BY <1>3
  <2>. HIDE DEF r
  <2>. QED
    BY <2>1, <2>2 DEF Types, RowKept
<1>4. CASE giveaways' = [giveaways EXCEPT ![g].winners = W]
  <2> DEFINE r == [giveaways[g] EXCEPT !.winners = W]
  <2>1. /\ r \in GiveawayRow /\ r.ends = giveaways[g].ends /\ r.places = giveaways[g].places
        /\ r.drawn = giveaways[g].drawn /\ r.winners = W
    BY <1>1 DEF GiveawayRow
  <2>2. giveaways' = [giveaways EXCEPT ![g] = r]
    BY <1>4
  <2>. HIDE DEF r
  <2>. QED
    BY <1>4, <2>1, <2>2 DEF Types, RowKept
<1>. QED
  BY <1>2, <1>3, <1>4

LEMMA LinkStep ==
    ASSUME IInv, NEW g \in Giveaway, SetGiveawayMessage(g)
    PROVE  IInv'
<1> USE DEF IInv
<1>1. /\ UNCHANGED <<now, created, entries, panel, entering, sweepVars, reroll, history>>
      /\ starting' = [starting EXCEPT ![g] = "idle"]
      /\ giveaways' = giveaways \/ giveaways' = [giveaways EXCEPT ![g].linked = TRUE]
  BY DEF SetGiveawayMessage
<1>2. RowKept(g)
  <2>1. {} \in SUBSET Member
    OBVIOUS
  <2>. QED
    BY <1>1, <2>1, KeptRow
<1>3. /\ giveaways' \in [Giveaway -> GiveawayRow]
      /\ \A h \in Giveaway : /\ giveaways'[h].ends = giveaways[h].ends
                             /\ giveaways'[h].places = giveaways[h].places
                             /\ giveaways'[h].drawn = giveaways[h].drawn
                             /\ giveaways'[h].winners = giveaways[h].winners
  <2>1. giveaways'[g].winners = giveaways[g].winners
    BY <1>1 DEF Types, GiveawayRow
  <2>. QED
    BY <1>2, <2>1 DEF RowKept
<1>4. Types'
  BY <1>1, <1>3 DEF Types, sweepVars, history
<1>5. CreatedFirst'
  BY <1>1, <1>3 DEF CreatedFirst, Types
<1>6. ClaimedFirst' /\ BatchInv' /\ RerollInv'
  BY <1>1, <1>3 DEF ClaimedFirst, BatchInv, RerollInv, sweepVars, history, Types
<1>7. DrawInv'
  BY <1>1, <1>3 DEF DrawInv, PickWinners, sweepVars, history, Types
<1>. QED
  BY <1>4, <1>5, <1>6, <1>7
LEMMA EnterStep ==
    ASSUME IInv, NEW u \in Member, NEW g \in Giveaway,
           EnterCheck(u, g) \/ AddGiveawayEntry(u, g)
    PROVE  IInv'
<1> USE DEF IInv
<1>1. CASE EnterCheck(u, g)
  <2>1. /\ UNCHANGED <<now, created, giveaways, entries, panel, starting, sweepVars, reroll, history>>
        /\ entering' = entering \cup {<<u, g>>} /\ panel[g] = "armed"
    BY <1>1 DEF EnterCheck
  <2>2. Types' /\ CreatedFirst'
    BY <2>1 DEF Types, CreatedFirst, sweepVars, history
  <2>3. ClaimedFirst' /\ BatchInv' /\ DrawInv' /\ RerollInv'
    BY <2>1 DEF ClaimedFirst, BatchInv, DrawInv, RerollInv, PickWinners, sweepVars, history
  <2>. QED
    BY <2>2, <2>3
<1>2. CASE AddGiveawayEntry(u, g)
  <2>1. /\ UNCHANGED <<now, created, giveaways, panel, starting, sweepVars, reroll, history>>
        /\ <<u, g>> \in entering /\ entering' = entering \ {<<u, g>>}
        /\ entries' = entries \/ entries' = [entries EXCEPT ![g] = @ \cup {u}]
    BY <1>2 DEF AddGiveawayEntry
  <2>2. /\ entries' \in [Giveaway -> SUBSET Member]
        /\ \A h \in Giveaway : entries[h] \subseteq entries'[h]
        /\ \A h \in Giveaway \ {g} : entries'[h] = entries[h]
    BY <2>1 DEF Types
  <2>3. g <= created
    BY <2>1 DEF CreatedFirst
  <2>4. Types'
    BY <2>1, <2>2 DEF Types, sweepVars, history
  <2>5. CreatedFirst'
    BY <2>1, <2>2, <2>3 DEF CreatedFirst
  <2>6. ClaimedFirst' /\ BatchInv' /\ RerollInv'
    BY <2>1, <2>2 DEF ClaimedFirst, BatchInv, RerollInv, sweepVars, history
  <2>7. DrawInv'
    BY <2>1, <2>2 DEF DrawInv, PickWinners, sweepVars, history, Types
  <2>. QED
    BY <2>4, <2>5, <2>6, <2>7
<1>. QED
  BY <1>1, <1>2

(* The sweeper turns to the next giveaway. *)
LEMMA NextInBatch ==
    ASSUME IInv, NEW g \in Giveaway, LeaveBatch(g)
    PROVE  /\ due' \subseteq due /\ linked' \subseteq due'
           /\ draw' = NoDraw /\ draw' \in Drawing /\ draw'.pc = "next"
<1>1. NoDraw \in Drawing /\ NoDraw.pc = "next"
  BY DEF NoDraw, DrawAt, Drawing
<1>. QED
  BY <1>1 DEF LeaveBatch, IInv, Types

LEMMA SweepReadStep ==
    ASSUME IInv, GiveawaySweepRead
    PROVE  IInv'
<1> USE DEF IInv
<1>1. /\ due = {} /\ due' \subseteq DueGiveaways /\ linked' \subseteq due'
      /\ UNCHANGED <<now, created, giveaways, entries, panel, starting, entering, draw, reroll,
                     history>>
  BY DEF GiveawaySweepRead, Earliest
<1>2. \A g \in DueGiveaways : g \in Giveaway /\ g <= created /\ giveaways[g].ends <= now
  BY GiveawayAssumption, SweepsAssumption DEF DueGiveaways, Types, Giveaway
<1>3. Types' /\ CreatedFirst' /\ BatchInv'
  BY <1>1, <1>2 DEF Types, CreatedFirst, BatchInv, history
<1>4. draw.pc = "next"
  BY <1>1 DEF DrawInv
<1>5. ClaimedFirst' /\ DrawInv' /\ RerollInv'
  BY <1>1, <1>4 DEF ClaimedFirst, DrawInv, RerollInv, history
<1>. QED
  BY <1>3, <1>5

LEMMA ClaimStep ==
    ASSUME IInv, MarkGiveawayDrawn
    PROVE  IInv'
<1> USE DEF IInv
<1>1. PICK g \in First(due, Ends) :
          \/ /\ ~giveaways[g].drawn
             /\ giveaways' = [giveaways EXCEPT ![g].drawn = TRUE]
             /\ draw' = DrawAt("claimed", g, {}, {})
             /\ early' = [early EXCEPT ![g] = entries[g]]
             /\ UNCHANGED <<due, linked>>
          \/ LeaveBatch(g) /\ UNCHANGED <<giveaways, early>>
  BY DEF MarkGiveawayDrawn
<1>2. UNCHANGED <<now, created, entries, panel, starting, entering, reroll, told, result, named>>
  BY DEF MarkGiveawayDrawn
<1>3. g \in due /\ g \in Giveaway /\ g <= created /\ giveaways[g].ends <= now
  BY DEF First, Types, BatchInv
<1>4. CASE LeaveBatch(g) /\ UNCHANGED <<giveaways, early>>
  <2>1. due' \subseteq due /\ linked' \subseteq due' /\ draw' \in Drawing /\ draw'.pc = "next"
    BY <1>3, <1>4, NextInBatch
  <2>2. Types' /\ CreatedFirst'
    BY <1>2, <1>4, <2>1 DEF Types, CreatedFirst
  <2>3. ClaimedFirst' /\ BatchInv' /\ DrawInv' /\ RerollInv'
    BY <1>2, <1>4, <2>1 DEF ClaimedFirst, BatchInv, DrawInv, RerollInv
  <2>. QED
    BY <2>2, <2>3
<1>5. CASE /\ ~giveaways[g].drawn
           /\ giveaways' = [giveaways EXCEPT ![g].drawn = TRUE]
           /\ draw' = DrawAt("claimed", g, {}, {})
           /\ early' = [early EXCEPT ![g] = entries[g]]
           /\ UNCHANGED <<due, linked>>
  <2> DEFINE r == [giveaways[g] EXCEPT !.drawn = TRUE]
  <2>1. giveaways[g] \in GiveawayRow /\ giveaways' = [giveaways EXCEPT ![g] = r]
    BY <1>3, <1>5 DEF Types
  <2>2. /\ r \in GiveawayRow /\ r.drawn = TRUE
        /\ r.ends = giveaways[g].ends /\ r.winners = giveaways[g].winners
    BY <2>1 DEF GiveawayRow
  <2>. HIDE DEF r
  <2>3. /\ giveaways' \in [Giveaway -> GiveawayRow]
        /\ \A h \in Giveaway : /\ giveaways'[h].ends = giveaways[h].ends
                               /\ giveaways'[h].winners = giveaways[h].winners
                               /\ h # g => giveaways'[h] = giveaways[h]
                               /\ giveaways[h].drawn => giveaways'[h].drawn
                               /\ h = g => giveaways'[h].drawn
                               /\ giveaways'[h].drawn => giveaways[h].drawn \/ h = g
    BY <1>3, <2>1, <2>2 DEF Types
  <2>4. /\ draw' \in Drawing /\ draw'.pc = "claimed" /\ draw'.g = g
    BY <1>3, <1>5 DEF DrawAt, Drawing
  <2>5. g \notin told
    BY <1>3, <1>5 DEF ClaimedFirst
  <2>6. Types'
    BY <1>2, <1>5, <2>3, <2>4 DEF Types
  <2>7. CreatedFirst'
    BY <1>2, <1>3, <2>3 DEF CreatedFirst
  <2>8. ClaimedFirst'
    BY <1>2, <1>3, <1>5, <2>3 DEF ClaimedFirst, Types
  <2>9. BatchInv' /\ RerollInv'
    BY <1>2, <1>5, <2>3 DEF BatchInv, RerollInv, Types
  <2>10. DrawInv'
    BY <1>2, <1>3, <1>5, <2>3, <2>4, <2>5 DEF DrawInv
  <2>. QED
    BY <2>6, <2>7, <2>8, <2>9, <2>10
<1>. QED
  BY <1>1, <1>4, <1>5

LEMMA PickedWinners ==
    ASSUME NEW pool \in SUBSET Member, NEW n, NEW W \in PickWinners(pool, n)
    PROVE  W \in SUBSET Member /\ W \subseteq pool
BY DEF PickWinners

LEMMA ListStep ==
    ASSUME IInv, ListGiveawayEntries
    PROVE  IInv'
<1> USE DEF IInv
<1>1. /\ draw.pc = "claimed"
      /\ UNCHANGED <<now, created, giveaways, entries, panel, starting, entering, reroll, history>>
  BY DEF ListGiveawayEntries
<1>2. draw.g \in due /\ draw.g \in Giveaway /\ giveaways[draw.g].drawn /\ draw.g \notin told
  BY <1>1 DEF DrawInv, Types
<1>3. CASE LeaveBatch(draw.g)
  <2>1. due' \subseteq due /\ linked' \subseteq due' /\ draw' \in Drawing /\ draw'.pc = "next"
    BY <1>2, <1>3, NextInBatch
  <2>2. Types' /\ CreatedFirst'
    BY <1>1, <2>1 DEF Types, CreatedFirst, history
  <2>3. ClaimedFirst' /\ BatchInv' /\ DrawInv' /\ RerollInv'
    BY <1>1, <2>1 DEF ClaimedFirst, BatchInv, DrawInv, RerollInv, history
  <2>. QED
    BY <2>2, <2>3
<1>4. ASSUME NEW W \in PickWinners(entries[draw.g], giveaways[draw.g].places),
             draw' = DrawAt("listed", draw.g, entries[draw.g], W),
             UNCHANGED <<due, linked>>
      PROVE  IInv'
  <2>1. entries[draw.g] \in SUBSET Member /\ W \in SUBSET Member
    BY <1>2, PickedWinners DEF Types
  <2>2. /\ draw' \in Drawing /\ draw'.pc = "listed" /\ draw'.g = draw.g
        /\ draw'.pool = entries[draw.g] /\ draw'.winners = W
    BY <1>2, <1>4, <2>1 DEF DrawAt, Drawing
  <2>3. Types' /\ CreatedFirst'
    BY <1>1, <1>4, <2>2 DEF Types, CreatedFirst, history
  <2>4. ClaimedFirst' /\ BatchInv' /\ RerollInv'
    BY <1>1, <1>4 DEF ClaimedFirst, BatchInv, RerollInv, history
  <2>5. DrawInv'
    <3>1. early[draw.g] \subseteq entries[draw.g]
      BY <1>2 DEF ClaimedFirst
    <3>2. draw'.winners \in PickWinners(draw'.pool, giveaways[draw'.g].places)
      BY <1>4, <2>2
    <3>. QED
      BY <1>1, <1>2, <1>4, <2>2, <3>1, <3>2 DEF DrawInv, history, PickWinners
  <2>. QED
    BY <2>3, <2>4, <2>5
<1>. QED
  BY <1>3, <1>4 DEF ListGiveawayEntries

LEMMA SaveStep ==
    ASSUME IInv, SetGiveawayWinners
    PROVE  IInv'
<1> USE DEF IInv
<1>1. /\ draw.pc = "listed" /\ draw' = DrawAt("saved", draw.g, draw.pool, draw.winners)
      /\ UNCHANGED <<now, created, entries, panel, starting, entering, due, linked, reroll,
                     history>>
      /\ giveaways' = giveaways \/ giveaways' = [giveaways EXCEPT ![draw.g].winners = draw.winners]
  BY DEF SetGiveawayWinners
<1>2. /\ draw.g \in due /\ draw.g \in Giveaway /\ giveaways[draw.g].drawn /\ draw.g \notin told
      /\ draw.winners \in SUBSET Member /\ draw.pool \in SUBSET Member
  BY <1>1 DEF DrawInv, Types, Drawing
<1>3. RowKept(draw.g)
  BY <1>1, <1>2, KeptRow
<1>4. /\ giveaways' \in [Giveaway -> GiveawayRow]
      /\ \A h \in Giveaway : /\ giveaways'[h].ends = giveaways[h].ends
                             /\ giveaways'[h].places = giveaways[h].places
                             /\ giveaways'[h].drawn = giveaways[h].drawn
                             /\ h # draw.g => giveaways'[h] = giveaways[h]
  BY <1>3 DEF RowKept
<1>5. /\ draw' \in Drawing /\ draw'.pc = "saved" /\ draw'.g = draw.g
      /\ draw'.pool = draw.pool /\ draw'.winners = draw.winners
  BY <1>1, <1>2 DEF DrawAt, Drawing
<1>6. Types'
  BY <1>1, <1>4, <1>5 DEF Types, history
<1>7. CreatedFirst' /\ BatchInv' /\ RerollInv'
  BY <1>1, <1>4 DEF CreatedFirst, BatchInv, RerollInv, Types
<1>8. ClaimedFirst'
  BY <1>1, <1>2, <1>4 DEF ClaimedFirst, history
<1>9. DrawInv'
  BY <1>1, <1>2, <1>4, <1>5 DEF DrawInv, PickWinners, history
<1>. QED
  BY <1>6, <1>7, <1>8, <1>9

LEMMA AnnounceStep ==
    ASSUME IInv, AnnounceResult
    PROVE  IInv'
<1> USE DEF IInv
<1>1. /\ draw.pc = "saved" /\ LeaveBatch(draw.g)
      /\ UNCHANGED <<now, created, giveaways, entries, starting, entering, reroll, early>>
  BY DEF AnnounceResult
<1>2. /\ draw.g \in Giveaway /\ giveaways[draw.g].drawn /\ draw.winners \in SUBSET Member
  BY <1>1 DEF DrawInv, Types, Drawing
<1>3. due' \subseteq due /\ linked' \subseteq due' /\ draw' \in Drawing /\ draw'.pc = "next"
  BY <1>1, <1>2, NextInBatch
<1>4. /\ told' \in {told, told \cup {draw.g}}
      /\ result' = result \/ result' = [result EXCEPT ![draw.g] = draw.winners]
      /\ named' = named \/ named' = [named EXCEPT ![draw.g] = @ \cup draw.winners]
      /\ panel' = panel \/ panel' = [panel EXCEPT ![draw.g] = "ended"]
  BY DEF AnnounceResult
<1>5. Types'
  BY <1>1, <1>2, <1>3, <1>4 DEF Types
<1>6. CreatedFirst'
  <2>1. \A g \in Giveaway : panel'[g] = "armed" => panel[g] = "armed"
    BY <1>4 DEF Types
  <2>. QED
    BY <1>1, <2>1 DEF CreatedFirst
<1>7. ClaimedFirst'
  <2>1. \A g \in Giveaway : g # draw.g => named'[g] = named[g]
    BY <1>4 DEF Types
  <2>. QED
    BY <1>1, <1>2, <1>4, <2>1 DEF ClaimedFirst
<1>8. BatchInv' /\ DrawInv' /\ RerollInv'
  BY <1>1, <1>3 DEF BatchInv, DrawInv, RerollInv
<1>. QED
  BY <1>5, <1>6, <1>7, <1>8
LEMMA RerollStep ==
    ASSUME IInv, NEW r \in Reroller, Reroll(r)
    PROVE  IInv'
<1> USE DEF IInv
<1>0. reroll[r] \in Rerolling
  BY DEF Types
<1>1. NoReroll \in Rerolling /\ NoReroll.pc = "idle"
  BY DEF NoReroll, RerollAt, Rerolling
(* A step that only moves the reroll: to rest, or on with a claimed giveaway. *)
<1>2. ASSUME NEW e \in Rerolling, reroll' = [reroll EXCEPT ![r] = e],
             e.pc # "idle" => e.g \in Giveaway /\ giveaways[e.g].drawn,
             UNCHANGED <<now, created, giveaways, entries, panel, starting, entering, sweepVars,
                         history>>
      PROVE  IInv'
  <2>1. Types'
    BY <1>2 DEF Types, sweepVars, history
  <2>2. CreatedFirst' /\ ClaimedFirst' /\ BatchInv' /\ DrawInv'
    BY <1>2 DEF CreatedFirst, ClaimedFirst, BatchInv, DrawInv, PickWinners, sweepVars, history
  <2>3. RerollInv'
    BY <1>2 DEF RerollInv, Types
  <2>. QED
    BY <2>1, <2>2, <2>3
<1>3. ASSUME NEW g \in Giveaway, RerollRead(r, g)
      PROVE  IInv'
  <2> DEFINE e == RerollAt("read", g, giveaways[g].winners, {}, named[g])
  <2>1. e \in Rerolling /\ e.g = g
    BY DEF RerollAt, Rerolling, Types, GiveawayRow
  <2>2. /\ reroll' = [reroll EXCEPT ![r] = e] /\ giveaways[g].drawn
        /\ UNCHANGED <<now, created, giveaways, entries, panel, starting, entering, sweepVars,
                       history>>
    BY <1>3 DEF RerollRead
  <2>. QED
    BY <1>2, <2>1, <2>2
<1>4. ASSUME NEW n \in Place, RerollPick(r, n)
      PROVE  IInv'
  <2>1. /\ reroll[r].pc = "read"
        /\ UNCHANGED <<now, created, giveaways, entries, panel, starting, entering, sweepVars,
                       history>>
    BY <1>4 DEF RerollPick
  <2>2. reroll[r].g \in Giveaway /\ giveaways[reroll[r].g].drawn
    BY <2>1 DEF RerollInv
  <2>3. CASE reroll' = [reroll EXCEPT ![r] = NoReroll]
    BY <1>1, <1>2, <2>1, <2>3
  <2>4. ASSUME NEW W \in PickWinners(entries[reroll[r].g] \ reroll[r].prev, n),
               reroll' = [reroll EXCEPT ![r] = RerollAt("picked", reroll[r].g, reroll[r].prev, W,
                                                        reroll[r].before)]
        PROVE  IInv'
    <3> DEFINE e == RerollAt("picked", reroll[r].g, reroll[r].prev, W, reroll[r].before)
    <3>1. W \in SUBSET Member
      <4>1. entries[reroll[r].g] \ reroll[r].prev \in SUBSET Member
        BY <2>2 DEF Types
      <4>. QED
        BY <2>4, <4>1, PickedWinners
    <3>2. e \in Rerolling /\ e.g = reroll[r].g
      BY <1>0, <3>1 DEF RerollAt, Rerolling
    <3>. QED
      BY <1>2, <2>1, <2>2, <2>4, <3>2
  <2>. QED
    BY <1>4, <2>3, <2>4 DEF RerollPick
<1>5. CASE RerollSave(r)
  <2> DEFINE g == reroll[r].g
             W == reroll[r].prev \cup reroll[r].winners
  <2>1. /\ reroll[r].pc = "picked"
        /\ reroll' = [reroll EXCEPT ![r].pc = "saved"]
        /\ UNCHANGED <<now, created, entries, panel, starting, entering, sweepVars, history>>
        /\ giveaways' = giveaways \/ giveaways' = [giveaways EXCEPT ![g].winners = W]
    BY <1>5 DEF RerollSave
  <2>2. g \in Giveaway /\ giveaways[g].drawn /\ W \in SUBSET Member
    BY <1>0, <2>1 DEF RerollInv, Rerolling
  <2>3. RowKept(g)
    BY <2>1, <2>2, KeptRow
  <2>4. /\ giveaways' \in [Giveaway -> GiveawayRow]
        /\ \A h \in Giveaway : /\ giveaways'[h].ends = giveaways[h].ends
                               /\ giveaways'[h].places = giveaways[h].places
                               /\ giveaways'[h].drawn = giveaways[h].drawn
                               /\ h # g => giveaways'[h] = giveaways[h]
    BY <2>3 DEF RowKept
  <2>. HIDE DEF W
  <2>5. /\ reroll' \in [Reroller -> Rerolling]
        /\ reroll'[r].g = g
        /\ \A q \in Reroller \ {r} : reroll'[q] = reroll[q]
    BY <1>0, <2>1 DEF Types, Rerolling
  <2>6. Types'
    BY <2>1, <2>4, <2>5 DEF Types, sweepVars, history
  <2>7. CreatedFirst' /\ BatchInv'
    BY <2>1, <2>4 DEF CreatedFirst, BatchInv, sweepVars, Types
  <2>8. ClaimedFirst'
    BY <2>1, <2>2, <2>4 DEF ClaimedFirst, history
  <2>9. DrawInv'
    BY <2>1, <2>4 DEF DrawInv, PickWinners, sweepVars, history, Types
  <2>10. RerollInv'
    BY <2>2, <2>4, <2>5 DEF RerollInv
  <2>. QED
    BY <2>6, <2>7, <2>8, <2>9, <2>10
<1>6. CASE RerollAnnounce(r)
  <2> DEFINE g == reroll[r].g
  <2>1. /\ reroll[r].pc = "saved"
        /\ reroll' = [reroll EXCEPT ![r] = NoReroll]
        /\ named' = [named EXCEPT ![g] = @ \cup reroll[r].winners]
        /\ UNCHANGED <<now, created, giveaways, entries, panel, starting, entering, sweepVars,
                       early, told, result>>
    BY <1>6 DEF RerollAnnounce
  <2>2. g \in Giveaway /\ giveaways[g].drawn /\ reroll[r].winners \in SUBSET Member
    BY <1>0, <2>1 DEF RerollInv, Rerolling
  <2>3. /\ named' \in [Giveaway -> SUBSET Member]
        /\ \A h \in Giveaway \ {g} : named'[h] = named[h]
    BY <2>1, <2>2 DEF Types
  <2>4. Types'
    BY <1>1, <2>1, <2>3 DEF Types, sweepVars
  <2>5. CreatedFirst' /\ BatchInv'
    BY <2>1 DEF CreatedFirst, BatchInv, sweepVars
  <2>6. ClaimedFirst'
    BY <2>1, <2>2, <2>3 DEF ClaimedFirst
  <2>7. DrawInv'
    BY <2>1 DEF DrawInv, PickWinners, sweepVars
  <2>8. RerollInv'
    BY <1>1, <2>1 DEF RerollInv, Types
  <2>. QED
    BY <2>4, <2>5, <2>6, <2>7, <2>8
<1>. QED
  BY <1>3, <1>4, <1>5, <1>6 DEF Reroll

LEMMA ClockAndCrashStep ==
    ASSUME IInv, GiveawayTick \/ GiveawayCrash
    PROVE  IInv'
<1> USE DEF IInv
<1>1. CASE GiveawayTick
  <2>1. /\ now \in Nat /\ now' \in Time /\ now' = now + 1
        /\ UNCHANGED <<created, giveaways, entries, panel, starting, entering, sweepVars, reroll,
                       history>>
    BY <1>1, GiveawayAssumption, SweepsAssumption DEF GiveawayTick, Types, Time
  <2>2. \A g \in Giveaway : giveaways[g].ends \in Nat
    BY DEF Types, GiveawayRow, Time
  <2>3. Types' /\ CreatedFirst' /\ RerollInv'
    BY <2>1 DEF Types, CreatedFirst, RerollInv, sweepVars, history
  <2>4. \A g \in Giveaway : giveaways[g].ends <= now => giveaways[g].ends <= now'
    BY <2>1, <2>2
  <2>5. ClaimedFirst' /\ BatchInv'
    BY <2>1, <2>4 DEF ClaimedFirst, BatchInv, sweepVars, history, Types
  <2>6. DrawInv'
    BY <2>1 DEF DrawInv, PickWinners, sweepVars, history
  <2>. QED
    BY <2>3, <2>5, <2>6
<1>2. CASE GiveawayCrash
  <2>1. /\ UNCHANGED <<now, created, giveaways, entries, panel, history>>
        /\ starting' = [g \in Giveaway |-> "idle"] /\ entering' = {}
        /\ due' = {} /\ linked' = {} /\ draw' = NoDraw
        /\ reroll' = [r \in Reroller |-> NoReroll]
    BY <1>2 DEF GiveawayCrash
  <2>2. NoDraw \in Drawing /\ NoDraw.pc = "next" /\ NoReroll \in Rerolling /\ NoReroll.pc = "idle"
    BY DEF NoDraw, DrawAt, Drawing, NoReroll, RerollAt, Rerolling
  <2>3. Types' /\ CreatedFirst'
    BY <2>1, <2>2 DEF Types, CreatedFirst, history
  <2>4. ClaimedFirst' /\ BatchInv' /\ DrawInv' /\ RerollInv'
    BY <2>1, <2>2 DEF ClaimedFirst, BatchInv, DrawInv, RerollInv, history
  <2>. QED
    BY <2>3, <2>4
<1>. QED
  BY <1>1, <1>2

LEMMA NextIInv == IInv /\ [GiveawayNext]_giveawayVars => IInv'
<1> SUFFICES ASSUME IInv, [GiveawayNext]_giveawayVars PROVE IInv'
  OBVIOUS
<1>1. CASE Start
  BY <1>1, CreateStep, PostPanelStep, LinkStep DEF Start
<1>2. CASE Enter
  BY <1>2, EnterStep DEF Enter
<1>3. CASE GiveawaySweep
  BY <1>3, SweepReadStep, ClaimStep, ListStep, SaveStep, AnnounceStep DEF GiveawaySweep
<1>4. CASE UNCHANGED giveawayVars
  BY <1>4 DEF giveawayVars, sweepVars, history, IInv, Types, CreatedFirst, ClaimedFirst, BatchInv,
              DrawInv, RerollInv, PickWinners
<1>. QED
  BY <1>1, <1>2, <1>3, <1>4, RerollStep, ClockAndCrashStep DEF GiveawayNext

LEMMA AlwaysIInv == GiveawaySpec => []IInv
  BY InitIInv, NextIInv, PTL DEF GiveawaySpec

---------------------------------------------------------------------------
(* Nobody is named a winner, or recorded as one, before the draw was claimed *)
(* after its end, for any number of rerolls and giveaways.                   *)
THEOREM NobodyEarly == GiveawaySpec => []NobodyWinsEarly
<1>1. IInv => NobodyWinsEarly
  BY DEF IInv, ClaimedFirst, NobodyWinsEarly
<1>. QED
  BY <1>1, AlwaysIInv, PTL

(* The batch stays within the LIMIT of its query, the fault counters within  *)
(* their bounds.                                                             *)
Bounded ==
    /\ Cardinality(due) <= GiveawayBatch
    /\ faults \in 0..MaxFaults
    /\ restarts \in 0..MaxRestarts

LEMMA BoundedStep == IInv /\ Bounded /\ [GiveawayNext]_giveawayVars => Bounded'
<1> SUFFICES ASSUME IInv, Bounded, [GiveawayNext]_giveawayVars PROVE Bounded'
  OBVIOUS
<1> USE GiveawayAssumption, SweepsAssumption
<1>1. faults' \in 0..MaxFaults
  <2>1. faults' = faults \/ Fault
    BY DEF GiveawayNext, giveawayVars, GiveawayTick, Start, CreateGiveaway, PostPanel, SetGiveawayMessage, Enter,
           EnterCheck, AddGiveawayEntry, GiveawaySweep, GiveawaySweepRead, MarkGiveawayDrawn,
           ListGiveawayEntries, SetGiveawayWinners, AnnounceResult, Reroll, RerollRead,
           RerollPick, RerollSave, RerollAnnounce, GiveawayCrash
  <2>. QED
    BY <2>1 DEF Bounded, Fault
<1>2. restarts' \in 0..MaxRestarts
  <2>1. restarts' = restarts \/ GiveawayCrash
    BY DEF GiveawayNext, giveawayVars, GiveawayTick, Start, CreateGiveaway, PostPanel, SetGiveawayMessage, Enter,
           EnterCheck, AddGiveawayEntry, GiveawaySweep, GiveawaySweepRead, MarkGiveawayDrawn,
           ListGiveawayEntries, SetGiveawayWinners, AnnounceResult, Reroll, RerollRead,
           RerollPick, RerollSave, RerollAnnounce
  <2>. QED
    BY <2>1 DEF Bounded, GiveawayCrash
<1>3. Cardinality(due') <= GiveawayBatch
  <2>1. \A S \in SUBSET Giveaway : IsFiniteSet(S) /\ Cardinality(S) \in Nat
    <3>1. IsFiniteSet(Giveaway)
      BY FS_Interval DEF Giveaway
    <3>. QED
      BY <3>1, FS_Subset, FS_CardinalityType
  <2>2. CASE GiveawaySweepRead
    <3>1. DueGiveaways \in SUBSET Giveaway
      BY DEF DueGiveaways, Giveaway, IInv, Types
    <3>2. Cardinality(DueGiveaways) \in Nat
      BY <2>1, <3>1
    <3>. QED
      BY <2>2, <3>2 DEF GiveawaySweepRead, Earliest
  <2>3. ASSUME NEW g, due' = due \ {g}
        PROVE  Cardinality(due') <= GiveawayBatch
    <3>1. due \in SUBSET Giveaway /\ due' \in SUBSET Giveaway
      BY <2>3 DEF IInv, Types
    <3>2. Cardinality(due') <= Cardinality(due) /\ Cardinality(due) \in Nat
      BY <2>1, <2>3, <3>1, FS_RemoveElement
    <3>3. Cardinality(due') \in Nat
      BY <2>1, <3>1
    <3>. QED
      BY <3>2, <3>3 DEF Bounded
  <2>4. CASE GiveawayCrash
    BY <2>4, FS_EmptySet DEF GiveawayCrash
  <2>5. due' = due \/ GiveawaySweepRead \/ GiveawayCrash \/ \E g : due' = due \ {g}
    BY DEF GiveawayNext, giveawayVars, sweepVars, GiveawayTick, Start, CreateGiveaway, PostPanel, SetGiveawayMessage,
           Enter, EnterCheck, AddGiveawayEntry, GiveawaySweep, MarkGiveawayDrawn, LeaveBatch,
           ListGiveawayEntries, SetGiveawayWinners, AnnounceResult, Reroll, RerollRead,
           RerollPick, RerollSave, RerollAnnounce
  <2>. QED
    BY <2>2, <2>3, <2>4, <2>5 DEF Bounded
<1>. QED
  BY <1>1, <1>2, <1>3 DEF Bounded

(* TypeOK holds in every reachable state. *)
THEOREM TypeCorrect == GiveawaySpec => []GiveawayTypeOK
<1>1. GiveawayInit => Bounded
  BY GiveawayAssumption, SweepsAssumption, FS_EmptySet DEF GiveawayInit, Bounded
<1>2. IInv /\ Bounded => GiveawayTypeOK
  BY DEF IInv, Types, Bounded, GiveawayTypeOK
<1>. QED
  BY <1>1, <1>2, AlwaysIInv, InitIInv, NextIInv, BoundedStep, PTL DEF GiveawaySpec
---------------------------------------------------------------------------
(* Giveaways are raffles, whatever meets the draw: entries still being       *)
(* written, rerolls, failing calls, restarts.  (That a giveaway which has    *)
(* ended is eventually closed is left to TLC.)                               *)

LEMMA SameCardinality == \A S : Cardinality(S) = Raffles!Cardinality(S)
BY DEF Cardinality, Raffles!Cardinality

LEMMA MappedStep == IInv /\ [GiveawayNext]_giveawayVars => [Raffles!Next]_(Raffles!raffleVars)
<1> SUFFICES ASSUME IInv, [GiveawayNext]_giveawayVars
             PROVE  Raffles!Next \/ UNCHANGED Raffles!raffleVars
  OBVIOUS
<1> USE DEF IInv
<1> DEFINE phase == [g \in Giveaway |-> RafflePhase(g)]
           places == [g \in Giveaway |-> giveaways[g].places]
<1>1. ASSUME UNCHANGED <<now, created, entries, early, told, result>>,
             \A g \in Giveaway : /\ giveaways'[g].ends = giveaways[g].ends
                                 /\ giveaways'[g].places = giveaways[g].places
                                 /\ giveaways'[g].drawn = giveaways[g].drawn
      PROVE  UNCHANGED Raffles!raffleVars
  <2>1. phase' = phase /\ places' = places /\ Ends' = Ends
    BY <1>1 DEF RafflePhase, Ends
  <2>. QED
    BY <1>1, <2>1 DEF Raffles!raffleVars
<1>2. CASE GiveawayTick
  <2>1. phase' = phase /\ places' = places /\ Ends' = Ends
    BY <1>2 DEF GiveawayTick, history, RafflePhase, Ends
  <2>2. Raffles!Tick
    BY <1>2, <2>1 DEF GiveawayTick, history, Raffles!Tick
  <2>. QED
    BY <2>2 DEF Raffles!Next
<1>3. ASSUME NEW d \in 1..MaxTime, NEW k \in 0..MaxPlaces + 1, CreateGiveaway(d, k)
      PROVE  Raffles!Next
  <2>1. PICK i \in Giveaway : i = created + 1
    BY <1>3, GiveawayAssumption, SweepsAssumption DEF CreateGiveaway, Types, Giveaway
  <2>2. PICK row : row = NewGiveaway(now + d, Clamp(k))
    OBVIOUS
  <2>3. /\ now + d \in Time /\ Clamp(k) \in Place
        /\ row.ends = now + d /\ row.places = Clamp(k) /\ row.drawn = FALSE
    BY <1>3, <2>2, ClampedPlaces, GiveawayAssumption, SweepsAssumption DEF CreateGiveaway, Types, Time, NewGiveaway
  <2>4. /\ created' = i /\ giveaways' = [giveaways EXCEPT ![i] = row]
        /\ UNCHANGED <<now, entries, history>>
    BY <1>3, <2>1, <2>2 DEF CreateGiveaway
  <2>5. /\ giveaways'[i] = row
        /\ \A g \in Giveaway \ {i} : giveaways'[g] = giveaways[g]
    BY <2>4 DEF Types
  <2>6. /\ i > created /\ ~(i > created')
        /\ \A g \in Giveaway \ {i} : g > created <=> g > created'
    BY <2>1, <2>4, GiveawayAssumption, SweepsAssumption DEF Types, Giveaway
  <2>7. phase' = [phase EXCEPT ![i] = "open"] /\ phase[i] = "none"
    <3>1. RafflePhase(i)' = "open" /\ RafflePhase(i) = "none"
      BY <2>3, <2>5, <2>6 DEF RafflePhase
    <3>2. \A g \in Giveaway \ {i} : RafflePhase(g)' = RafflePhase(g)
      BY <2>4, <2>5, <2>6 DEF RafflePhase, history
    <3>. QED
      BY <3>1, <3>2
  <2>8. /\ Ends' = [Ends EXCEPT ![i] = now + d]
        /\ places' = [places EXCEPT ![i] = Clamp(k)]
    BY <2>3, <2>5 DEF Ends
  <2>9. Raffles!Open(i)
    BY <2>3, <2>4, <2>7, <2>8 DEF Raffles!Open, history
  <2>. QED
    BY <2>9 DEF Raffles!Next
<1>4. ASSUME NEW g \in Giveaway, PostPanel(g) \/ SetGiveawayMessage(g)
      PROVE  UNCHANGED Raffles!raffleVars
  <2>1. UNCHANGED <<now, created, entries, early, told, result>>
    BY <1>4 DEF PostPanel, SetGiveawayMessage, history
  <2>2. giveaways' = giveaways \/ giveaways' = [giveaways EXCEPT ![g].linked = TRUE]
    BY <1>4 DEF PostPanel, SetGiveawayMessage
  <2>3. RowKept(g)
    <3>1. {} \in SUBSET Member
      OBVIOUS
    <3>. QED
      BY <2>2, <3>1, KeptRow
  <2>. QED
    BY <1>1, <2>1, <2>3 DEF RowKept
<1>5. ASSUME NEW u \in Member, NEW g \in Giveaway, EnterCheck(u, g)
      PROVE  UNCHANGED Raffles!raffleVars
  BY <1>1, <1>5 DEF EnterCheck, history
<1>6. ASSUME NEW u \in Member, NEW g \in Giveaway, AddGiveawayEntry(u, g)
      PROVE  Raffles!Next \/ UNCHANGED Raffles!raffleVars
  <2>1. UNCHANGED <<now, created, giveaways, history>> /\ g <= created
    BY <1>6 DEF AddGiveawayEntry, CreatedFirst
  <2>2. CASE UNCHANGED entries
    BY <1>1, <2>1, <2>2 DEF history
  <2>3. CASE entries' = [entries EXCEPT ![g] = @ \cup {u}]
    <3>1. phase' = phase /\ places' = places /\ Ends' = Ends
      BY <2>1 DEF history, RafflePhase, Ends
    <3>2. phase[g] # "none"
      <4>1. ~(g > created)
        BY <2>1, GiveawayAssumption, SweepsAssumption DEF Giveaway, Types
      <4>. QED
        BY <4>1 DEF RafflePhase
    <3>3. Raffles!Enter(g, u)
      BY <2>1, <2>3, <3>1, <3>2 DEF Raffles!Enter, history
    <3>. QED
      BY <3>3 DEF Raffles!Next
  <2>. QED
    BY <1>6, <2>2, <2>3 DEF AddGiveawayEntry
<1>7. CASE MarkGiveawayDrawn
  <2>1. PICK g \in First(due, Ends) :
            \/ /\ ~giveaways[g].drawn
               /\ giveaways' = [giveaways EXCEPT ![g].drawn = TRUE]
               /\ early' = [early EXCEPT ![g] = entries[g]]
            \/ UNCHANGED <<giveaways, early>>
    BY <1>7 DEF MarkGiveawayDrawn
  <2>2. UNCHANGED <<now, created, entries, told, result>>
    BY <1>7 DEF MarkGiveawayDrawn
  <2>3. /\ g \in Giveaway /\ g <= created /\ giveaways[g].ends <= now /\ ~(g > created)
    BY GiveawayAssumption, SweepsAssumption DEF First, Types, BatchInv, Giveaway
  <2>4. CASE UNCHANGED <<giveaways, early>>
    BY <1>1, <2>2, <2>4
  <2>5. CASE /\ ~giveaways[g].drawn
             /\ giveaways' = [giveaways EXCEPT ![g].drawn = TRUE]
             /\ early' = [early EXCEPT ![g] = entries[g]]
    <3>1. /\ giveaways'[g].drawn
          /\ \A h \in Giveaway : /\ giveaways'[h].ends = giveaways[h].ends
                                 /\ giveaways'[h].places = giveaways[h].places
                                 /\ h # g => giveaways'[h] = giveaways[h]
      BY <2>3, <2>5 DEF Types, GiveawayRow
    <3>2. g \notin told
      BY <2>3, <2>5 DEF ClaimedFirst
    <3>3. phase' = [phase EXCEPT ![g] = "closed"] /\ phase[g] = "open"
      BY <2>2, <2>3, <2>5, <3>1, <3>2 DEF RafflePhase
    <3>4. Ends' = Ends /\ places' = places /\ Ends[g] <= now
      BY <2>3, <3>1 DEF Ends
    <3>5. Raffles!Close(g)
      BY <2>2, <2>5, <3>3, <3>4 DEF Raffles!Close
    <3>. QED
      BY <2>3, <3>5 DEF Raffles!Next
  <2>. QED
    BY <2>1, <2>4, <2>5
<1>8. CASE GiveawaySweepRead \/ ListGiveawayEntries
  BY <1>1, <1>8 DEF GiveawaySweepRead, ListGiveawayEntries, history
<1>9. CASE SetGiveawayWinners
  <2>1. /\ UNCHANGED <<now, created, entries, history>> /\ draw.pc = "listed"
        /\ giveaways' = giveaways \/ giveaways' = [giveaways EXCEPT ![draw.g].winners = draw.winners]
    BY <1>9 DEF SetGiveawayWinners
  <2>2. draw.g \in Giveaway /\ draw.winners \in SUBSET Member
    BY <2>1 DEF DrawInv, Types, Drawing
  <2>3. RowKept(draw.g)
    BY <2>1, <2>2, KeptRow
  <2>. QED
    BY <1>1, <2>1, <2>3 DEF RowKept, history
<1>10. CASE AnnounceResult
  <2>1. UNCHANGED <<now, created, giveaways, entries, early>> /\ draw.pc = "saved"
    BY <1>10 DEF AnnounceResult
  <2>2. PICK g \in Giveaway : g = draw.g /\ g \in due
    BY <2>1 DEF DrawInv, Types
  <2>3. /\ giveaways[g].drawn /\ g \notin told
        /\ early[g] \subseteq draw.pool /\ draw.pool \in SUBSET entries[g]
        /\ draw.winners \in PickWinners(draw.pool, giveaways[g].places)
    BY <2>1, <2>2 DEF DrawInv
  <2>4. ~(g > created)
    BY <2>2, GiveawayAssumption, SweepsAssumption DEF BatchInv, Types, Giveaway
  <2>5. CASE UNCHANGED <<told, result>>
    BY <1>1, <2>1, <2>5
  <2>6. CASE told' = told \cup {g} /\ result' = [result EXCEPT ![g] = draw.winners]
    <3>1. places' = places /\ Ends' = Ends
      BY <2>1 DEF Ends
    <3>2. phase' = [phase EXCEPT ![g] = "announced"] /\ phase[g] = "closed"
      BY <2>1, <2>3, <2>4, <2>6 DEF RafflePhase
    <3>3. PickWinners(draw.pool, giveaways[g].places) = Raffles!Results(draw.pool, giveaways[g].places)
      BY SameCardinality DEF PickWinners, Raffles!Results
    <3>4. draw.winners \in Raffles!Results(draw.pool, places[g])
      BY <2>3, <3>3
    <3>5. Raffles!Announce(g)
      BY <2>1, <2>3, <2>6, <3>1, <3>2, <3>4 DEF Raffles!Announce
    <3>. QED
      BY <3>5 DEF Raffles!Next
  <2>. QED
    BY <1>10, <2>2, <2>5, <2>6 DEF AnnounceResult
<1>11. ASSUME NEW r \in Reroller, Reroll(r)
       PROVE  UNCHANGED Raffles!raffleVars
  <2>1. UNCHANGED <<now, created, entries, early, told, result>>
    BY <1>11 DEF Reroll, RerollRead, RerollPick, RerollSave, RerollAnnounce, history
  <2>2. CASE UNCHANGED giveaways
    BY <1>1, <2>1, <2>2
  <2>3. CASE RerollSave(r)
    <3>1. reroll[r].g \in Giveaway /\ reroll[r].prev \cup reroll[r].winners \in SUBSET Member
      BY <2>3 DEF RerollSave, RerollInv, Types, Rerolling
    <3>2. \/ UNCHANGED giveaways
          \/ giveaways' = [giveaways EXCEPT ![reroll[r].g].winners = reroll[r].prev \cup reroll[r].winners]
      BY <2>3 DEF RerollSave
    <3>3. RowKept(reroll[r].g)
      BY <3>1, <3>2, KeptRow
    <3>. QED
      BY <1>1, <2>1, <3>3 DEF RowKept
  <2>. QED
    BY <1>11, <2>2, <2>3 DEF Reroll, RerollRead, RerollPick, RerollAnnounce
<1>12. CASE GiveawayCrash \/ UNCHANGED giveawayVars
  BY <1>1, <1>12 DEF GiveawayCrash, giveawayVars, history
<1>. QED
  BY <1>2, <1>3, <1>4, <1>5, <1>6, <1>7, <1>8, <1>9, <1>10, <1>11, <1>12
     DEF GiveawayNext, Start, Enter, GiveawaySweep

THEOREM Refinement == GiveawaySpec => Raffles!SafeSpec
<1>1. GiveawayInit => Raffles!Init
  <2>1. \A g \in Giveaway : g > 0
    BY GiveawayAssumption, SweepsAssumption DEF Giveaway
  <2>. QED
    BY <2>1 DEF GiveawayInit, Raffles!Init, RafflePhase, Ends, NoGiveaway, NewGiveaway
<1>. QED
  BY <1>1, AlwaysIInv, MappedStep, PTL DEF GiveawaySpec, Raffles!SafeSpec
=============================================================================
