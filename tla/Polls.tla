------------------------------- MODULE Polls -------------------------------
(***************************************************************************)
(* Polls live in memory only.  A vote is one press of a button of the      *)
(* poll's message: the router refuses an expired button, the vote is       *)
(* counted under the lock of the store, and the message is then edited to  *)
(* what a reading of the votes without that lock says.  A message with its *)
(* buttons is there before its poll is in the store, and stays when the    *)
(* poll leaves.                                                            *)
(***************************************************************************)
EXTENDS Handlers, Sequences, FiniteSets

CONSTANTS Voter, Option,
          Lasts,       \* durations that are asked for
          MaxActive,   \* maxActivePolls
          ButtonGrace, \* pollExpiryGrace
          NoVote

ASSUME PollsAssumption == Lasts \subseteq Nat /\ MaxActive \in Nat \ {0} /\ ButtonGrace \in Nat

VARIABLES
    polls,     \* the polls whose message was posted: when each ends, its votes, what its message says
    active,    \* which of them the store holds
    polling,   \* where each goroutine stands
    opened,    \* history: which of them the store has held since the start of the process
    pollDoubt  \* history: for each poll what has crossed or failed

pollVars == <<polls, active, polling, opened, pollDoubt>>

Ballots == [Voter -> Option \cup {NoVote}]
NoVotes == [v \in Voter |-> NoVote]
Unpolled == [pc |-> "idle", poll |-> 0, ends |-> 0, read |-> NoVotes]

PollsInit ==
    /\ polls = <<>> /\ active = {} /\ opened = {}
    /\ polling = [p \in Proc |-> Unpolled]
    /\ pollDoubt = <<>>

PollIdle(p) == polling' = [polling EXCEPT ![p] = Unpolled]

(* At work on the message of a poll whose votes have changed.                *)
Showing(i) == {p \in Proc : polling[p].pc \in {"render", "edit"} /\ polling[p].poll = i}
Reading(i) == {p \in Showing(i) : polling[p].pc = "render"}

---------------------------------------------------------------------------
(* StartPoll: the end is reckoned from before the message.                   *)
StartPoll(p) ==
    /\ Called
    /\ polling[p].pc = "idle"
    /\ \E d \in Lasts : polling' = [polling EXCEPT ![p] = [Unpolled EXCEPT !.pc = "post", !.ends = now + d]]
    /\ UNCHANGED <<polls, active, opened, pollDoubt>>

PostPoll(p) ==
    /\ polling[p].pc = "post"
    /\ \/ /\ polls' = Append(polls, [ends |-> polling[p].ends, votes |-> NoVotes, shown |-> NoVotes])
          /\ pollDoubt' = Append(pollDoubt, {})
          /\ polling' = [polling EXCEPT ![p].pc = "create", ![p].poll = Len(polls) + 1]
          /\ UNCHANGED env
       \/ Fault /\ PollIdle(p) /\ UNCHANGED <<polls, pollDoubt>>
    /\ UNCHANGED <<active, opened>>

\* Mutant: any poll makes room.
AnyPoll(ids) == ids

(* Those that may go: the oldest, by their ends.                             *)
Oldest(ids) == {i \in ids : \A j \in ids : polls[i].ends <= polls[j].ends}

CreatePoll(p) ==
    LET i == polling[p].poll IN
    /\ polling[p].pc = "create"
    /\ IF Cardinality(active) < MaxActive THEN active' = active \cup {i}
       ELSE \E gone \in Oldest(active) : active' = (active \ {gone}) \cup {i}
    /\ opened' = opened \cup {i}
    /\ PollIdle(p)
    /\ UNCHANGED <<env, polls, pollDoubt>>

---------------------------------------------------------------------------
Unshown == [i \in DOMAIN polls |-> IF Showing(i) = {} THEN pollDoubt[i] ELSE pollDoubt[i] \cup {"restart"}]
PollsGone ==
    /\ active' = {} /\ opened' = {}
    /\ polling' = [p \in Proc |-> Unpolled]
    /\ pollDoubt' = Unshown

(* handleComponent: a button past its expiry goes nowhere.                   *)
Routed(i) == now <= polls[i].ends + ButtonGrace

(* handlePollVote as far as the lock.  A vote written while another          *)
(* goroutine goes through the map may end the process.                       *)
PollVote(p) ==
    /\ Called
    /\ polling[p].pc = "idle"
    /\ \E i \in active, v \in Voter, o \in Option :
          /\ Routed(i)
          /\ IF now > polls[i].ends
             THEN /\ polling' = [polling EXCEPT ![p] = [Unpolled EXCEPT !.pc = "end", !.poll = i]]
                  /\ UNCHANGED <<polls, active, opened, pollDoubt>>
             ELSE /\ polls' = [polls EXCEPT ![i].votes[v] = o]
                  /\ \/ /\ polling' = [polling EXCEPT ![p] =
                              [Unpolled EXCEPT !.pc = "render", !.poll = i, !.read = polls'[i].votes]]
                        /\ pollDoubt' = [pollDoubt EXCEPT ![i] = IF Showing(i) = {} THEN @ ELSE @ \cup {"crossed"}]
                        /\ UNCHANGED <<active, opened>>
                     \/ Reading(i) # {} /\ PollsGone

(* A poll that has ended leaves the store in a lock section of its own.      *)
EndPoll(p) ==
    /\ polling[p].pc = "end"
    /\ active' = active \ {polling[p].poll}
    /\ PollIdle(p)
    /\ UNCHANGED <<env, polls, opened, pollDoubt>>

(* renderPoll goes through the votes while others may change.                *)
RenderPoll(p) ==
    LET it == polling[p] IN
    /\ it.pc = "render"
    /\ \E seen \in Ballots :
          /\ \A v \in Voter : seen[v] \in {it.read[v], polls[it.poll].votes[v]}
          /\ polling' = [polling EXCEPT ![p].pc = "edit", ![p].read = seen]
    /\ UNCHANGED <<env, polls, active, opened, pollDoubt>>

(* The edit; when it fails the next vote shows this one too.                 *)
EditPollMessage(p) ==
    LET it == polling[p] IN
    /\ it.pc = "edit"
    /\ PollIdle(p)
    /\ \/ /\ polls' = [polls EXCEPT ![it.poll].shown = it.read]
          /\ pollDoubt' = [pollDoubt EXCEPT ![it.poll] = IF Showing(it.poll) = {p} /\ it.read = polls[it.poll].votes THEN {} ELSE @]
          /\ UNCHANGED env
       \/ Fault /\ pollDoubt' = [pollDoubt EXCEPT ![it.poll] = @ \cup {"refused"}] /\ UNCHANGED polls
    /\ UNCHANGED <<active, opened>>

PollTick == Passes /\ UNCHANGED pollVars

PollRestart ==
    /\ Fault
    /\ PollsGone
    /\ UNCHANGED polls

PollsNext ==
    \/ \E p \in Proc : \/ StartPoll(p) \/ PostPoll(p) \/ CreatePoll(p) \/ PollVote(p)
                       \/ EndPoll(p) \/ RenderPoll(p) \/ EditPollMessage(p)
    \/ PollTick \/ PollRestart

PollsSpec == HandlersInit /\ PollsInit /\ [][PollsNext]_<<env, pollVars>>

---------------------------------------------------------------------------
PollsTypeOK ==
    /\ polls \in Seq([ends : Nat, votes : Ballots, shown : Ballots])
    /\ active \subseteq opened /\ opened \subseteq DOMAIN polls
    /\ Cardinality(active) <= MaxActive
    /\ polling \in [Proc -> [pc : {"idle", "post", "create", "render", "edit", "end"},
                             poll : 0..Len(polls), ends : Nat, read : Ballots]]
    /\ pollDoubt \in [DOMAIN polls -> SUBSET {"crossed", "refused", "restart"}]

(* The message of a poll says what its votes are once nobody is at work on   *)
(* it, unless since the last quiet edit two votes crossed, an edit failed or *)
(* the process died on the way.  And a poll takes votes until its end unless *)
(* the process died or the store was full of others that, but for the one it *)
(* made room for, ended no sooner.                                           *)
PollKept ==
    /\ \A i \in DOMAIN polls :
          pollDoubt[i] = {} /\ Showing(i) = {} => polls[i].shown = polls[i].votes
    /\ \A i \in opened \ active :
          now <= polls[i].ends =>
              Cardinality({j \in opened \ {i} : polls[j].ends >= polls[i].ends}) + 1 >= MaxActive
=============================================================================
