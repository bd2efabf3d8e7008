---------------------------- MODULE MCTempBans ----------------------------
(* Two users, two commands at a time, three tempban cases, no failing call.  *)
EXTENDS TempBans
=============================================================================
