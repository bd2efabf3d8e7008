------------------------------ MODULE Console ------------------------------
(***************************************************************************)
(* The dashboard's console: a ban, kick or unban is staged by a first      *)
(* request and carried out by a second one that brings the confirmation    *)
(* back.  The form goes through the browser, so that a confirmation may    *)
(* come twice, late, with another target, or never.  A nonce is the number *)
(* of its stage; the token signs action, target, nonce and expiry, so that *)
(* it fits those only.  Who may use the console is the business of         *)
(* Sessions.                                                               *)
(***************************************************************************)
EXTENDS Handlers, Sequences, FiniteSets

CONSTANTS ConsoleDeeds,\* destructive actions with their targets
          ConfirmTTL     \* five minutes

ASSUME ConsoleAssumption == ConsoleDeeds # {} /\ ConfirmTTL \in Nat

VARIABLES
    confirmTokens,  \* the nonces there are; each expires as its stage says
    staged,         \* history: what was staged, and until when
    executing,      \* where each request stands
    carried         \* history: for each attempt at Discord the stage, the deed and when it was confirmed

consoleVars == <<confirmTokens, staged, executing, carried>>

NoExec == [pc |-> "idle", nonce |-> 0, deed |-> CHOOSE d \in ConsoleDeeds : TRUE, at |-> 0]

ConsoleInit ==
    /\ confirmTokens = {} /\ staged = <<>>
    /\ executing = [p \in Proc |-> NoExec]
    /\ carried = <<>>

ExecOver(p) == executing' = [executing EXCEPT ![p] = NoExec]

(* handleConsoleExec without a confirmation: issueConfirmToken.              *)
ConsoleStage ==
    /\ Called
    /\ \E d \in ConsoleDeeds : staged' = Append(staged, [deed |-> d, exp |-> now + ConfirmTTL])
    /\ confirmTokens' = confirmTokens \cup {Len(staged) + 1}
    /\ UNCHANGED <<executing, carried>>

(* With one: consumeConfirmToken up to LoadAndDelete.                        *)
ConsoleConfirm(p) ==
    /\ Called
    /\ executing[p].pc = "idle"
    /\ \E n \in 1..Len(staged), d \in ConsoleDeeds :
          IF n \notin confirmTokens THEN UNCHANGED <<confirmTokens, executing>>
          ELSE IF now > staged[n].exp THEN confirmTokens' = confirmTokens \ {n} /\ UNCHANGED executing
          ELSE /\ executing' = [executing EXCEPT ![p] =
                      IF d = staged[n].deed THEN [pc |-> "consume", nonce |-> n, deed |-> d, at |-> now] ELSE NoExec]
               /\ UNCHANGED confirmTokens
    /\ UNCHANGED <<staged, carried>>

\* Mutant: the token is deleted without looking whether it was there.
ConsumedAnyway(n) == TRUE

Consumed(n) == n \in confirmTokens

(* LoadAndDelete: one of several takes it.                                   *)
ConfirmConsume(p) ==
    LET it == executing[p] IN
    /\ it.pc = "consume"
    /\ confirmTokens' = confirmTokens \ {it.nonce}
    /\ IF Consumed(it.nonce) THEN executing' = [executing EXCEPT ![p].pc = "act"] ELSE ExecOver(p)
    /\ UNCHANGED <<env, staged, carried>>

(* consoleHierarchyOK refuses, or Discord is called; when that fails, the    *)
(* confirmation is gone all the same.                                        *)
ConsoleAct(p) ==
    LET it == executing[p] IN
    /\ it.pc = "act"
    /\ ExecOver(p)
    /\ \/ carried' = Append(carried, [nonce |-> it.nonce, deed |-> it.deed, at |-> it.at])
       \/ UNCHANGED carried
    /\ UNCHANGED <<env, confirmTokens, staged>>

(* sweepConfirmTokens                                                        *)
SweepConfirmTokens ==
    /\ \E n \in confirmTokens : staged[n].exp < now
    /\ confirmTokens' = {n \in confirmTokens : staged[n].exp >= now}
    /\ UNCHANGED <<env, staged, executing, carried>>

ConsoleTick == Passes /\ UNCHANGED consoleVars

(* What is staged and not confirmed has to be staged again.                  *)
ConsoleRestart ==
    /\ Fault
    /\ confirmTokens' = {}
    /\ executing' = [p \in Proc |-> NoExec]
    /\ UNCHANGED <<staged, carried>>

ConsoleNext ==
    \/ ConsoleStage
    \/ \E p \in Proc : ConsoleConfirm(p) \/ ConfirmConsume(p) \/ ConsoleAct(p)
    \/ SweepConfirmTokens \/ ConsoleTick \/ ConsoleRestart

ConsoleSpec == HandlersInit /\ ConsoleInit /\ [][ConsoleNext]_<<env, consoleVars>>

---------------------------------------------------------------------------
ConsoleTypeOK ==
    /\ staged \in Seq([deed : ConsoleDeeds, exp : Nat])
    /\ confirmTokens \subseteq 1..Len(staged)
    /\ executing \in [Proc -> [pc : {"idle", "consume", "act"}, nonce : 0..Len(staged), deed : ConsoleDeeds, at : Time]]
    /\ carried \in Seq([nonce : 1..Len(staged), deed : ConsoleDeeds, at : Time])

(* Whatever is carried out was staged as it is, was confirmed in time and is *)
(* carried out once for one staging, however often and concurrently the      *)
(* confirmation arrives.                                                     *)
ConfirmOnce ==
    \A i \in 1..Len(carried) : LET x == carried[i] IN
        /\ x.deed = staged[x.nonce].deed /\ x.at <= staged[x.nonce].exp
        /\ \A j \in 1..Len(carried) : carried[j].nonce = x.nonce => j = i
=============================================================================
