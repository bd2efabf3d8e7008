------------------------------ MODULE Handlers ------------------------------
(***************************************************************************)
(* What the features of the bot have in common: goroutines that run        *)
(* handlers, a clock, calls that come from outside and calls to Discord or *)
(* the database that fail.  discordgo runs every handler of every event in *)
(* a goroutine of its own, net/http every request.                         *)
(*                                                                         *)
(* Bounds: MaxTime, MaxCalls (handlers started), MaxFaults (failing calls, *)
(* lost replies and restarts).                                             *)
(***************************************************************************)
EXTENDS Naturals

CONSTANTS Proc, MaxTime, MaxCalls, MaxFaults,
          Never   \* the time of what has not happened

ASSUME HandlersAssumption ==
    MaxTime \in Nat /\ MaxCalls \in Nat /\ MaxFaults \in Nat /\ Never \notin Nat

VARIABLES now, calls, faults

env == <<now, calls, faults>>

Time == 0..MaxTime

HandlersInit == now = 0 /\ calls = 0 /\ faults = 0

HandlersTypeOK == now \in Time /\ calls \in 0..MaxCalls /\ faults \in 0..MaxFaults

(* A handler is called; a call it makes, or the process, fails.              *)
Called == calls < MaxCalls /\ calls' = calls + 1 /\ UNCHANGED <<now, faults>>
Fault == faults < MaxFaults /\ faults' = faults + 1 /\ UNCHANGED <<now, calls>>

Passes == now < MaxTime /\ now' = now + 1 /\ UNCHANGED <<calls, faults>>

(* Less than d has passed since t.                                           *)
Within(t, d) == t # Never /\ now < t + d
=============================================================================
