------------------------------ MODULE Dispatch ------------------------------
(***************************************************************************)
(* How a command comes to run: slash commands with their acknowledgement,  *)
(* once on the fast path or deferred, and prefix commands behind a token   *)
(* bucket.  What the commands do is the business of other modules.  The    *)
(* n-th call is number n; one member, one prefix command, whose bucket     *)
(* starts full.  Tokens are counted in the rate per unit of time, so that  *)
(* a command costs TokenCost and a bucket holds TokenCap of them.          *)
(***************************************************************************)
EXTENDS Handlers, FiniteSets

CONSTANTS TokenCost, TokenCap

ASSUME DispatchAssumption == TokenCost \in Nat \ {0} /\ TokenCap \in Nat

VARIABLES
    handling,  \* where each goroutine stands, and with which call
    given,     \* history: per call, when a prefix command came, how often it ran and was
               \* logged, whether Discord has an answer, and what became of the
               \* answer on the fast path and of the deferred acknowledgement
    bucket     \* Cooldowns: tokens and when they were counted

dispatchVars == <<handling, given, bucket>>

Call == 1..MaxCalls
Ungiven == [kind |-> "none", at |-> 0, ran |-> 0, logged |-> 0, answered |-> FALSE,
            fast |-> "unsent", ack |-> "unsent"]
Unhandled == [pc |-> "idle", call |-> 0]
Full == [tokens |-> TokenCap * TokenCost, last |-> 0]

DispatchInit ==
    /\ handling = [p \in Proc |-> Unhandled]
    /\ given = [c \in Call |-> Ungiven]
    /\ bucket = Full

At(p, pc) == handling[p].pc = pc
Goto(p, pc) == handling' = [handling EXCEPT ![p].pc = pc]
Gives(p, g) == given' = [given EXCEPT ![handling[p].call] = g]
Its(p) == given[handling[p].call]

Receive(p, kind, pc) ==
    /\ Called
    /\ handling[p].pc = "idle"
    /\ handling' = [handling EXCEPT ![p] = [pc |-> pc, call |-> calls + 1]]
    /\ given' = [given EXCEPT ![calls + 1].kind = kind,
                                ![calls + 1].at = IF kind = "prefix" THEN now ELSE 0]

---------------------------------------------------------------------------
(* handleSlashCommand: an unknown command edits an answer that is not there. *)
SlashCommand(p) ==
    /\ \/ Receive(p, "unknown", "log")
       \/ Receive(p, "fast", "fast")
       \/ Receive(p, "slow", "defer")
    /\ UNCHANGED bucket

Execute(p) ==
    /\ At(p, "fast") \/ At(p, "slow")
    /\ Gives(p, [Its(p) EXCEPT !.ran = @ + 1])
    /\ Goto(p, IF At(p, "fast") THEN "respond" ELSE "edit")
    /\ UNCHANGED <<env, bucket>>

(* The answer of the fast path arrives, or is refused, by validation or by   *)
(* Discord, or arrives without the bot hearing of it.                        *)
FastRespond(p) ==
    /\ At(p, "respond")
    /\ \/ Gives(p, [Its(p) EXCEPT !.answered = TRUE, !.fast = "sent"]) /\ Goto(p, "log") /\ UNCHANGED env
       \/ Fault /\ Gives(p, [Its(p) EXCEPT !.fast = "refused"]) /\ Goto(p, "defer")
       \/ Fault /\ Gives(p, [Its(p) EXCEPT !.answered = TRUE, !.fast = "unheard"]) /\ Goto(p, "defer")
    /\ UNCHANGED bucket

(* The deferred acknowledgement; Discord refuses a second answer.  It may    *)
(* get lost, or arrive without the bot hearing of it; the command does not   *)
(* run then.                                                                 *)
Defer(p) ==
    /\ At(p, "defer")
    /\ \/ Its(p).answered /\ Goto(p, "log") /\ UNCHANGED <<env, given>>
       \/ /\ ~Its(p).answered
          /\ \/ Gives(p, [Its(p) EXCEPT !.answered = TRUE, !.ack = "sent"]) /\ Goto(p, "slow") /\ UNCHANGED env
             \/ Fault /\ Gives(p, [Its(p) EXCEPT !.ack = "refused"]) /\ Goto(p, "log")
             \/ Fault /\ Gives(p, [Its(p) EXCEPT !.answered = TRUE, !.ack = "unheard"]) /\ Goto(p, "log")
    /\ UNCHANGED bucket

(* finish: whether the edit arrives or not, only the log is left to do.      *)
FinishEdit(p) ==
    /\ At(p, "edit")
    /\ Goto(p, "log")
    /\ UNCHANGED <<env, given, bucket>>

LogCall(p) ==
    /\ At(p, "log")
    /\ Gives(p, [Its(p) EXCEPT !.logged = @ + 1])
    /\ handling' = [handling EXCEPT ![p] = Unhandled]
    /\ UNCHANGED <<env, bucket>>

---------------------------------------------------------------------------
Least(a, b) == IF a < b THEN a ELSE b

\* Mutant: the bucket fills without limit.
RefilledFreely == bucket.tokens + (now - bucket.last)

Refilled == Least(bucket.tokens + (now - bucket.last), TokenCap * TokenCost)

(* handleMessage up to the permissions: no token, no command.  A member who  *)
(* cannot be looked up is not refused.                                       *)
PrefixCommand(p) ==
    /\ IF Refilled >= TokenCost
       THEN /\ \E permitted \in BOOLEAN :
                  IF permitted THEN Receive(p, "prefix", "prefix")
                  ELSE Called /\ handling[p].pc = "idle" /\ UNCHANGED <<handling, given>>
            /\ bucket' = [tokens |-> Refilled - TokenCost, last |-> now]
       ELSE /\ Called /\ handling[p].pc = "idle"
            /\ bucket' = [tokens |-> Refilled, last |-> now]
            /\ UNCHANGED <<handling, given>>

(* The command runs and its answer is sent, or not; then the log.            *)
ExecutePrefix(p) ==
    /\ At(p, "prefix")
    /\ Gives(p, [Its(p) EXCEPT !.ran = @ + 1, !.answered = TRUE])
    /\ Goto(p, "log")
    /\ UNCHANGED <<env, bucket>>

DispatchTick == Passes /\ UNCHANGED dispatchVars

DispatchNext ==
    \/ \E p \in Proc : \/ SlashCommand(p) \/ Execute(p) \/ FastRespond(p) \/ Defer(p)
                       \/ FinishEdit(p) \/ LogCall(p) \/ PrefixCommand(p) \/ ExecutePrefix(p)
    \/ DispatchTick

DispatchSpec == HandlersInit /\ DispatchInit /\ [][DispatchNext]_<<env, dispatchVars>>

---------------------------------------------------------------------------
Sending == {"unsent", "sent", "refused", "unheard"}

DispatchTypeOK ==
    /\ handling \in [Proc -> [pc : {"idle", "fast", "respond", "defer", "slow", "edit", "prefix", "log"},
                              call : 0..MaxCalls]]
    /\ given \in [Call -> [kind : {"none", "unknown", "fast", "slow", "prefix"}, at : Time,
                           ran : 0..2, logged : 0..1, answered : BOOLEAN,
                           fast : Sending, ack : Sending]]
    /\ bucket \in [tokens : 0..TokenCap * TokenCost, last : Time]

(* A call nobody is at work on any more has been logged once.  It has run    *)
(* twice only if its answer on the fast path did not get through, and not at *)
(* all only if it is unknown or the bot was told, rightly or not, that it    *)
(* could not be acknowledged.  However they are timed, the prefix commands   *)
(* that run from one moment to a later one are at most what a full bucket    *)
(* and the refill between the two pay for.                                   *)
RunsAccounted ==
    /\ \A c \in Call : LET g == given[c] IN
          /\ g.ran > 1 => g.fast = "refused"
          /\ g.kind # "none" /\ (\A p \in Proc : handling[p].call # c) =>
                g.logged = 1 /\ (g.ran = 0 => g.kind = "unknown" \/ (g.kind = "slow" /\ g.ack \in {"refused", "unheard"}))
    /\ \A c, d \in Call :
          given[c].kind = "prefix" /\ given[d].kind = "prefix" /\ c < d =>
             TokenCost * Cardinality({e \in c..d : given[e].kind = "prefix"})
                <= TokenCap * TokenCost + (given[d].at - given[c].at)

(* README: on the fast path or deferred, a command executes exactly once.    *)
ExecutesOnce == \A c \in Call : given[c].ran <= 1
=============================================================================
