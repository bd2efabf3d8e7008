------------------------------- MODULE Raffle -------------------------------
(***************************************************************************)
(* What a giveaway promises its entrants: after its end it is closed, once *)
(* and for good; its result is announced at most once; and the winners are *)
(* drawn from a pool that holds everybody who had entered when it closed.  *)
(* Somebody whose entry was still being written may be in the pool too.    *)
(***************************************************************************)
EXTENDS Naturals, FiniteSets

CONSTANTS Draw,     \* the giveaways
          Entrant,  \* the people who may enter
          Time,     \* the ends a giveaway may be given, natural numbers
          Place     \* the numbers of winners it may have, positive

VARIABLES clock,
          phase,    \* phase[g]: where giveaway g is in its life
          ends,     \* ends[g]: when it ends
          places,   \* places[g]: how many win
          entered,  \* entered[g]: who has entered
          early,    \* early[g]: who had entered when it closed
          result    \* result[g]: the winners announced for it

raffleVars == <<clock, phase, ends, places, entered, early, result>>

Init ==
    /\ clock = 0
    /\ phase = [g \in Draw |-> "none"]
    /\ ends = [g \in Draw |-> 0]
    /\ places = [g \in Draw |-> 1]
    /\ entered = [g \in Draw |-> {}]
    /\ early = [g \in Draw |-> {}]
    /\ result = [g \in Draw |-> {}]

Tick ==
    /\ clock' = clock + 1
    /\ UNCHANGED <<phase, ends, places, entered, early, result>>

Open(g) ==
    /\ phase[g] = "none"
    /\ phase' = [phase EXCEPT ![g] = "open"]
    /\ \E t \in Time : ends' = [ends EXCEPT ![g] = t]
    /\ \E k \in Place : places' = [places EXCEPT ![g] = k]
    /\ UNCHANGED <<clock, entered, early, result>>

(* An entry that was accepted before the close may be written after it.      *)
Enter(g, u) ==
    /\ phase[g] # "none"
    /\ entered' = [entered EXCEPT ![g] = @ \cup {u}]
    /\ UNCHANGED <<clock, phase, ends, places, early, result>>

Close(g) ==
    /\ phase[g] = "open"
    /\ ends[g] <= clock
    /\ phase' = [phase EXCEPT ![g] = "closed"]
    /\ early' = [early EXCEPT ![g] = entered[g]]
    /\ UNCHANGED <<clock, ends, places, entered, result>>

(* The results of drawing k winners from a pool: all of a smaller pool.      *)
Results(pool, k) ==
    {W \in SUBSET pool :
        Cardinality(W) = IF Cardinality(pool) < k THEN Cardinality(pool) ELSE k}

Announce(g) ==
    /\ phase[g] = "closed"
    /\ phase' = [phase EXCEPT ![g] = "announced"]
    /\ \E pool \in SUBSET entered[g] :
          /\ early[g] \subseteq pool
          /\ \E W \in Results(pool, places[g]) : result' = [result EXCEPT ![g] = W]
    /\ UNCHANGED <<clock, ends, places, entered, early>>

Next ==
    \/ Tick
    \/ \E g \in Draw : Open(g) \/ Close(g) \/ Announce(g)
    \/ \E g \in Draw, u \in Entrant : Enter(g, u)

SafeSpec == Init /\ [][Next]_raffleVars

(* A giveaway that has ended is closed.  Its result may get lost.            *)
Spec == SafeSpec /\ \A g \in Draw : WF_raffleVars(Close(g))
=============================================================================
