---------------------------- MODULE MCBackground ----------------------------
(* Three loops in the background of the bot, with the handlers that feed     *)
(* them: the sweeper of temporary bans, the sweeper that draws giveaways and *)
(* the writer of the command log.  They share no state but the database      *)
(* handle, so each runs on its own from an initial state that picks it.      *)
EXTENDS CommandLog, TempBans, Giveaways

VARIABLE loop

banRest == <<ban, cases, tempBans, cmd, batch, current, tried, crashes>>
drawRest == <<created, giveaways, entries, panel, starting, entering, sweepVars, reroll, history, restarts>>
allVars == <<loop, now, faults, logVars, banRest, drawRest>>

Init ==
    /\ loop \in {"log", "tempbans", "giveaways"}
    /\ LogInit /\ TempBanInit /\ GiveawayInit

Next ==
    /\ \/ loop = "log" /\ LogNext /\ UNCHANGED <<now, faults, banRest, drawRest>>
       \/ loop = "tempbans" /\ TempBanNext /\ UNCHANGED <<logVars, drawRest>>
       \/ loop = "giveaways" /\ GiveawayNext /\ UNCHANGED <<logVars, banRest>>
    /\ loop = "giveaways" => now' < MaxTime /\ \A g \in Giveaway : giveaways'[g].ends < MaxTime
    /\ UNCHANGED loop

(* The fairness of LogFairSpec, TempBanFairSpec and GiveawayFairSpec.        *)
Spec ==
    /\ Init /\ [][Next]_allVars
    /\ WF_allVars(loop = "log" /\ Writer /\ UNCHANGED <<loop, now, faults, banRest, drawRest>>)
    /\ WF_allVars(loop = "tempbans" /\ TempBanSweep /\ UNCHANGED <<loop, logVars, drawRest>>)
    /\ WF_allVars(loop = "giveaways" /\ GiveawaySweep /\ UNCHANGED <<loop, logVars, banRest>>)
=============================================================================
