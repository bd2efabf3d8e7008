----------------------------- MODULE Starboard -----------------------------
(***************************************************************************)
(* The starboard: star reactions on one message are counted in             *)
(* starboard_posts, and from the threshold on a card in the board channel  *)
(* stands for the message.  Every reaction event is a handler of its own;  *)
(* it changes the count and reads it back in two statements, and posts a   *)
(* card before it writes down which one.  What a card says is not          *)
(* modelled.                                                               *)
(***************************************************************************)
EXTENDS Handlers

CONSTANTS StarConfigs  \* rows of starboard_config: [on, channel, threshold]

VARIABLES
    starConfig,  \* the row
    post,        \* starboard_posts of the message; no row is as good as no stars
    cards,       \* the cards there are: [channel, id]
    posted,      \* cards posted so far, their ids
    starring,    \* where each goroutine stands
    starDoubt    \* history: what has gone wrong or crossed since the start

starVars == <<starConfig, post, cards, posted, starring, starDoubt>>

NoCard == 0

Unstarred == [pc |-> "idle", cfg |-> CHOOSE c \in StarConfigs : TRUE, stars |-> 0, board |-> NoCard]

StarInit ==
    /\ starConfig \in StarConfigs
    /\ post = [stars |-> 0, board |-> NoCard]
    /\ cards = {} /\ posted = 0
    /\ starring = [p \in Proc |-> Unstarred]
    /\ starDoubt = {}

StarAt(pcs) == {p \in Proc : starring[p].pc \in pcs}
StarGoto(p, pc) == starring' = [starring EXCEPT ![p].pc = pc]
StarIdle(p) == starring' = [starring EXCEPT ![p] = Unstarred]
Doubts(d) == starDoubt' = starDoubt \cup d

(* On its way to a card of its own, or to the end of one.                    *)
HandlesCard == {"post", "record", "delete", "clear"}
Crossing(p) == IF StarAt(HandlesCard) \ {p} = {} THEN {} ELSE {"crossed"}

---------------------------------------------------------------------------
(* onReactionAdd, onReactionRemove: nothing happens while the board is off.  *)
StarEvent(p) ==
    /\ Called
    /\ starring[p].pc = "idle" /\ starConfig.on
    /\ \E pc \in {"add", "drop"} :
          starring' = [starring EXCEPT ![p] = [Unstarred EXCEPT !.pc = pc, !.cfg = starConfig]]
    /\ UNCHANGED <<starConfig, post, cards, posted, starDoubt>>

\* Mutant: the count may fall below zero.
FewerStars(n) == n - 1

(* MAX(stars - 1, 0)                                                         *)
StarLess(n) == IF n > 0 THEN n - 1 ELSE 0

(* AddStar and RemoveStar, the first statement.                              *)
CountStar(p) ==
    LET s == starring[p] IN
    /\ s.pc \in {"add", "drop"}
    /\ \/ /\ post' = [post EXCEPT !.stars = IF s.pc = "add" THEN @ + 1 ELSE StarLess(@)]
          /\ StarGoto(p, IF s.pc = "add" THEN "added" ELSE "dropped")
          /\ UNCHANGED env
       \/ Fault /\ StarIdle(p) /\ UNCHANGED post
    /\ UNCHANGED <<starConfig, cards, posted, starDoubt>>

\* Mutant: every star over the threshold posts a card.
BumpDecisionBlind(stars, board, cfg) ==
    IF stars < cfg.threshold THEN "idle" ELSE "post"

(* The switch of starboardBump.                                              *)
BumpDecision(stars, board, cfg) ==
    IF stars < cfg.threshold THEN "idle" ELSE IF board = NoCard THEN "post" ELSE "edit"

(* The if statements of starboardDrop.                                       *)
DropDecision(stars, board) ==
    IF board = NoCard THEN "idle" ELSE IF stars = 0 THEN "delete" ELSE "edit"

(* AddStar and RemoveStar, the second statement, and what follows from it.   *)
ReadStars(p) ==
    LET s == starring[p]
        next == IF s.pc = "added" THEN BumpDecision(post.stars, post.board, s.cfg)
                ELSE DropDecision(post.stars, post.board)
    IN
    /\ s.pc \in {"added", "dropped"}
    /\ \/ /\ next \in HandlesCard
          /\ starring' = [starring EXCEPT ![p].pc = next, ![p].stars = post.stars, ![p].board = post.board]
          /\ Doubts(Crossing(p))
          /\ UNCHANGED env
       \/ next \notin HandlesCard /\ StarIdle(p) /\ UNCHANGED <<env, starDoubt>>
       \/ Fault /\ StarIdle(p) /\ UNCHANGED starDoubt
    /\ UNCHANGED <<starConfig, post, cards, posted>>

---------------------------------------------------------------------------
(* The card is posted where the configuration said when the handler started; *)
(* or it is not; or it is, and the bot is told that it is not.               *)
PostsCard(p) ==
    /\ posted' = posted + 1
    /\ cards' = cards \cup {[channel |-> starring[p].cfg.channel, id |-> posted + 1]}

PostCard(p) ==
    /\ starring[p].pc = "post"
    /\ \/ /\ PostsCard(p)
          /\ starring' = [starring EXCEPT ![p].pc = "record", ![p].board = posted + 1]
          /\ UNCHANGED <<env, starDoubt>>
       \/ Fault /\ StarIdle(p) /\ UNCHANGED <<cards, posted, starDoubt>>
       \/ Fault /\ StarIdle(p) /\ PostsCard(p) /\ Doubts({"unrecorded"})
    /\ UNCHANGED <<starConfig, post>>

(* SetStarboardBoardMessage, its error ignored.                              *)
RecordCard(p) ==
    /\ starring[p].pc = "record"
    /\ StarIdle(p)
    /\ \/ post' = [post EXCEPT !.board = starring[p].board] /\ UNCHANGED <<env, starDoubt>>
       \/ Fault /\ Doubts({"unrecorded"}) /\ UNCHANGED post
    /\ UNCHANGED <<starConfig, cards, posted>>

(* The card is deleted in the channel that is the board now, and the row     *)
(* cleared whether or not that worked.                                       *)
DeleteCard(p) ==
    LET card == [channel |-> starring[p].cfg.channel, id |-> starring[p].board] IN
    /\ starring[p].pc = "delete"
    /\ StarGoto(p, "clear")
    /\ \/ cards' = cards \ {card} /\ UNCHANGED <<env, starDoubt>>
       \/ Fault /\ Doubts({"undeleted"}) /\ UNCHANGED cards
    /\ UNCHANGED <<starConfig, post, posted>>

ClearCard(p) ==
    /\ starring[p].pc = "clear"
    /\ StarIdle(p)
    /\ \/ post' = [post EXCEPT !.board = NoCard] /\ UNCHANGED env
       \/ Fault /\ UNCHANGED post
    /\ UNCHANGED <<starConfig, cards, posted, starDoubt>>

---------------------------------------------------------------------------
(* .starboard set and off, by moderators.                                    *)
ConfigureStarboard ==
    /\ Called
    /\ \E c \in StarConfigs \ {starConfig} :
          /\ starConfig' = c
          /\ Doubts(IF c.channel # starConfig.channel THEN {"moved"} ELSE {})
    /\ UNCHANGED <<post, cards, posted, starring>>

StarRestart ==
    /\ Fault
    /\ Doubts(IF StarAt({"record"}) # {} THEN {"unrecorded"} ELSE {})
    /\ starring' = [p \in Proc |-> Unstarred]
    /\ UNCHANGED <<starConfig, post, cards, posted>>

StarNext ==
    \/ \E p \in Proc : \/ StarEvent(p) \/ CountStar(p) \/ ReadStars(p)
                       \/ PostCard(p) \/ RecordCard(p) \/ DeleteCard(p) \/ ClearCard(p)
    \/ ConfigureStarboard \/ StarRestart

StarSpec == HandlersInit /\ StarInit /\ [][StarNext]_<<env, starVars>>

---------------------------------------------------------------------------
StarTypeOK ==
    /\ starConfig \in StarConfigs
    /\ post \in [stars : 0..MaxCalls, board : 0..MaxCalls]
    /\ \A c \in cards : c.id \in 1..posted
    /\ posted \in 0..MaxCalls
    /\ starring \in [Proc -> [pc : HandlesCard \cup {"idle", "add", "drop", "added", "dropped"},
                              cfg : StarConfigs, stars : 0..MaxCalls, board : 0..MaxCalls]]
    /\ starDoubt \subseteq {"crossed", "unrecorded", "undeleted", "moved"}

(* A message has one card: every card in the board is the one its row names, *)
(* or is about to be named, unless two handlers that had both seen the need  *)
(* to post or to delete a card crossed, a call failed after the card was     *)
(* there, or the board moved to another channel.                             *)
OneCard ==
    starDoubt = {} =>
        \A c \in cards : \/ c.id = post.board
                         \/ \E p \in StarAt({"record"}) : starring[p].board = c.id
=============================================================================
