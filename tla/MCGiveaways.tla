---------------------------- MODULE MCGiveaways ----------------------------
(* Two members, one giveaway of one winner, one reroll, no failing call.     *)
EXTENDS Giveaways
=============================================================================
