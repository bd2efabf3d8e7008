----------------------------- MODULE MCFeatures -----------------------------
(* Features that share no state, each run on its own from an initial state   *)
(* that picks it: steps of two of them commute, so running them together     *)
(* would only multiply their states.                                         *)
EXTENDS Antinuke, Antispam, Automation, Dispatch, Levels, Polls, Starboard, TLC

VARIABLE feature

MCStarConfigs == [on : BOOLEAN, channel : {"c1"}, threshold : {1}]
                   \cup [on : {TRUE}, channel : {"c2"}, threshold : {2}]

MCMessages == [kind : {"trap", "text"}, mod : {FALSE}] \cup {[kind |-> "word", mod |-> FALSE], [kind |-> "trap", mod |-> TRUE]}
MCGuardRows == {[spam |-> TRUE, msgs |-> 2, trap |-> TRUE, words |-> TRUE, links |-> "off"]}

MCDeeds == {[actor |-> "a", weight |-> 1], [actor |-> "owner", weight |-> 1]}
MCAntinukeRows == {[on |-> TRUE, threshold |-> 2, trusted |-> {}], [on |-> TRUE, threshold |-> 1, trusted |-> {"a"}]}

Rule(trigger, pin, actions, gated) ==
    [on |-> TRUE, trigger |-> trigger, pin |-> pin, needs |-> {}, require |-> {}, forbid |-> {}, actions |-> actions, gated |-> gated]
MCRules == {[Rule("message_create", NoRole, {"log", "stop"}, FALSE) EXCEPT !.needs = {"link"}, !.require = {"r"}],
            Rule("message_create", NoRole, {"delete"}, TRUE), Rule("role_add", "r", {"dm"}, FALSE)}
MCRuleTables == {t \in [1..Names -> MCRules] : t[1] # t[2] /\ t[2].gated}
MCGateFirst == {t \in [1..Names -> MCRules] : t[1].gated /\ ~t[2].gated}

AnyProc == Permutations(Proc)

Init ==
    /\ feature \in {"antinuke", "antispam", "dispatch", "levels", "polls", "roles", "rules", "starboard"}
    /\ HandlersInit /\ NukeInit /\ GuardInit /\ RuleInit /\ DispatchInit /\ LevelsInit /\ PollsInit /\ StarInit
    /\ feature # "antinuke" => antinukeRow = CHOOSE r \in AntinukeRows : TRUE
    /\ feature # "antispam" => guardRow = NoRow
    /\ feature \notin {"roles", "rules"} => ruleTable = CHOOSE t \in RuleTables : TRUE
    /\ feature # "rules" => memberRoles = {}
    /\ feature # "levels" => start = CHOOSE xp \in StartXP : TRUE
    /\ feature # "starboard" => starConfig = CHOOSE c \in StarConfigs : TRUE

Next ==
    /\ \/ feature = "antinuke" /\ NukeNext /\ UNCHANGED <<guardVars, ruleVars, dispatchVars, levelVars, pollVars, starVars>>
       \/ feature = "antispam" /\ GuardNext /\ UNCHANGED <<nukeVars, ruleVars, dispatchVars, levelVars, pollVars, starVars>>
       \/ feature = "dispatch" /\ DispatchNext /\ UNCHANGED <<nukeVars, guardVars, ruleVars, levelVars, pollVars, starVars>>
       \/ feature = "levels" /\ LevelsNext /\ UNCHANGED <<nukeVars, guardVars, ruleVars, dispatchVars, pollVars, starVars>>
       \/ feature = "polls" /\ PollsNext /\ UNCHANGED <<nukeVars, guardVars, ruleVars, dispatchVars, levelVars, starVars>>
       \/ feature = "roles" /\ ruleTable' = ruleTable /\ settled' = settled /\ RuleNext /\ UNCHANGED <<nukeVars, guardVars, dispatchVars, levelVars, pollVars, starVars>>
       \/ feature = "rules" /\ updates' = updates /\ RuleNext /\ UNCHANGED <<nukeVars, guardVars, dispatchVars, levelVars, pollVars, starVars>>
       \/ feature = "starboard" /\ StarNext /\ UNCHANGED <<nukeVars, guardVars, ruleVars, dispatchVars, levelVars, pollVars>>
    /\ feature \in {"dispatch", "levels", "polls", "roles", "rules"} => calls' < MaxCalls
    /\ feature = "rules" => now' < MaxTime
    /\ feature = "roles" => now' <= RuleTTL
    /\ UNCHANGED feature

Spec == Init /\ [][Next]_<<feature, env, nukeVars, guardVars, ruleVars, dispatchVars, levelVars, pollVars, starVars>>

TypeOK == HandlersTypeOK /\ NukeTypeOK /\ GuardTypeOK /\ RuleTypeOK /\ DispatchTypeOK /\ LevelsTypeOK /\ PollsTypeOK /\ StarTypeOK
=============================================================================
