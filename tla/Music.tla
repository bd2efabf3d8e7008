------------------------------- MODULE Music -------------------------------
(***************************************************************************)
(* The music player of one guild: its queue and current track in memory,   *)
(* the commands, the Lavalink node that plays the tracks, the websocket to *)
(* it, and Discord's voice events.  A player's lock guards its fields, but *)
(* nothing is held across a call to Lavalink, and every command, event and *)
(* resync runs in a goroutine of its own.                                  *)
(*                                                                         *)
(* Tracks are numbered in the order they are asked for.  Settings are      *)
(* booleans: paused or not, loud or not.  Positions within a track are     *)
(* left out: they never decide what plays.                                 *)
(*                                                                         *)
(* Lavalink and Discord are external and modelled from what the code sends *)
(* and expects.  Bounds: MaxTracks, MaxPlayers (players made after an idle *)
(* one was swept), MaxVoice (voice events), MaxCalls (commands other than  *)
(* play), MaxFaults (failed calls and lost connections), and Proc, the     *)
(* goroutines at work at once.                                             *)
(***************************************************************************)
EXTENDS Naturals, Sequences, FiniteSets, SequencesExt

CONSTANTS Proc, MaxTracks, MaxPlayers, MaxVoice, MaxCalls, MaxFaults

ASSUME MusicAssumption ==
    /\ IsFiniteSet(Proc)
    /\ {MaxTracks, MaxPlayers, MaxVoice, MaxCalls, MaxFaults} \subseteq Nat

VARIABLES
    player,  \* every player ever made
    live,    \* the one in the map, 0 if there is none
    proc,    \* the goroutines
    lava,    \* what Lavalink plays, and how
    link,    \* the websocket: down, dialed, or ready with a session
    ended,   \* ends of tracks Lavalink has reported and nobody handled yet
    sent,    \* voice updates sent over this connection, or lost in a failed write
    issued, voiced, calls, faults,
    doubt    \* history: what may have put player and node out of step

musicVars == <<player, live, proc, lava, link, ended, sent, issued, voiced, calls, faults, doubt>>

NoTrack == 0
Blank == MaxTracks + 1    \* the zero value of a track, popped from an empty queue
Track == 1..MaxTracks
Setting == {"paused", "volume"}
Defaults == [s \in Setting |-> FALSE]

NewPlayer == [queue |-> <<>>, current |-> NoTrack, set |-> Defaults, loop |-> "off",
              shuffle |-> FALSE, stale |-> FALSE, session |-> 0, token |-> 0]
Idle == [op |-> "none", pc |-> "idle", n |-> 0, track |-> NoTrack, set |-> Defaults,
         key |-> "paused", loop |-> "off", session |-> 0, token |-> 0, alone |-> FALSE]
Silent == [track |-> NoTrack, set |-> Defaults]

MusicInit ==
    /\ player = [n \in 1..MaxPlayers |-> NewPlayer]
    /\ live = 0
    /\ proc = [p \in Proc |-> Idle]
    /\ lava = Silent /\ link = "down" /\ ended = 0 /\ sent = {}
    /\ issued = 0 /\ voiced = 0 /\ calls = 0 /\ faults = 0
    /\ doubt = {}

(* Goroutines that decide or tell Lavalink what plays and how.               *)
AtWork == {p \in Proc : proc[p].pc \notin {"idle", "voice"}}

(* Goroutine p sets to work; two of them, or one and an unhandled end of a   *)
(* track, may get in each other's way.                                       *)
Start(p, it) ==
    LET alone == AtWork = {} /\ ended = 0
    IN /\ proc' = [q \in Proc |-> IF q = p THEN [it EXCEPT !.alone = alone]
                                  ELSE [proc[q] EXCEPT !.alone = FALSE]]
       /\ doubt' = IF alone THEN doubt ELSE doubt \cup {"overlap"}

Goto(p, pc) == proc' = [proc EXCEPT ![p].pc = pc]
Done(p) == proc' = [proc EXCEPT ![p] = Idle]

Set(n, field, value) == [player EXCEPT ![n][field] = value]

\* Mutant: the current track is looked at, not taken.
LookAtCurrent(n) == player

TakeCurrent(n) == Set(n, "current", NoTrack)

\* Mutant: stop and clear leave the queue as it is.
ClearedNot(n) == player

Cleared(n) == Set(n, "queue", <<>>)

\* Mutant: a track is started without the player's settings.
NoSettings(n) == Defaults

StartSettings(n) == player[n].set

\* Mutant: a player is swept whatever waits in its queue.
SilentForLong(n) == player[n].current = NoTrack /\ player[n].session = 0 /\ player[n].stale

IdleForLong(n) ==
    /\ player[n].current = NoTrack /\ player[n].queue = <<>>
    /\ player[n].session = 0 /\ player[n].stale

---------------------------------------------------------------------------
(* UpdatePlayer needs a session, and Lavalink refuses the blank track; a     *)
(* call may also fail without effect, or take effect and report an error.    *)
Update(track, set, onOk, onErr) ==
    \/ /\ link = "ready" /\ track # Blank
       /\ lava' = [track |-> track, set |-> set]
       /\ onOk
       /\ UNCHANGED <<faults, doubt>>
    \/ /\ link # "ready" \/ track = Blank
       /\ onErr
       /\ doubt' = doubt \cup {"refused"}
       /\ UNCHANGED <<lava, faults>>
    \/ /\ link = "ready" /\ track # Blank /\ faults < MaxFaults
       /\ faults' = faults + 1
       /\ onErr
       /\ \/ UNCHANGED lava /\ doubt' = doubt \cup {"refused"}
          \/ lava' = [track |-> track, set |-> set] /\ doubt' = doubt \cup {"unheard"}

---------------------------------------------------------------------------
(* playerFor; an old player is no longer reachable once another is made.     *)
Reach(n) ==
    \/ live # 0 /\ n = live /\ UNCHANGED live
    \/ live = 0 /\ live' = n /\ player[n] = NewPlayer
       /\ \A m \in 1..(n - 1) : player[m] # NewPlayer

(* Queue.Add, Queue.AddNext and a list of tracks: top moves only the first   *)
(* of them ahead.                                                            *)
Queued(old, tracks, top) ==
    IF top THEN <<Head(tracks)>> \o old \o Tail(tracks) ELSE old \o tracks

(* Queue.Shuffle: any order.                                                 *)
Orders(q, shuffle) == IF shuffle THEN SetToSeqs(Range(q)) ELSE {q}

(* MusicJoin: the player exists before Discord's voice events arrive.        *)
MusicJoin ==
    /\ calls < MaxCalls /\ calls' = calls + 1
    /\ \E n \in 1..MaxPlayers : Reach(n) /\ player' = Set(n, "stale", FALSE)
    /\ UNCHANGED <<proc, lava, link, ended, sent, issued, voiced, faults, doubt>>

(* MusicPlay up to the unlock: one track or a list of two.  With nothing     *)
(* current it goes on to start one.                                          *)
MusicPlay(p, count, top) ==
    /\ proc[p].pc = "idle" /\ issued + count <= MaxTracks
    /\ issued' = issued + count
    /\ \E n \in 1..MaxPlayers :
          LET tracks == [i \in 1..count |-> issued + i]
          IN /\ Reach(n)
             /\ player' = [player EXCEPT ![n].stale = FALSE, ![n].queue = Queued(player[n].queue, tracks, top)]
             /\ IF player[n].current = NoTrack
                THEN Start(p, [Idle EXCEPT !.op = "play", !.pc = "pop", !.n = n])
                ELSE /\ UNCHANGED proc
                     /\ doubt' = IF \E q \in Proc : proc[q].pc = "forget" /\ proc[q].op = "skip"
                                 THEN doubt \cup {"overlap"} ELSE doubt
    /\ UNCHANGED <<lava, link, ended, sent, voiced, calls, faults>>

(* popNext, whose result is not looked at.                                   *)
PlayPop(p) ==
    LET n == proc[p].n
        q == player[n].queue
    IN /\ proc[p].pc = "pop"
       /\ proc' = [proc EXCEPT ![p].pc = "read", ![p].track = IF q = <<>> THEN Blank ELSE Head(q)]
       /\ player' = IF q = <<>> THEN player ELSE Set(n, "queue", Tail(q))
       /\ UNCHANGED <<live, lava, link, ended, sent, issued, voiced, calls, faults, doubt>>

(* startTrack: read the settings, tell Lavalink, remember the track.         *)
StartRead(p) ==
    /\ proc[p].pc = "read"
    /\ proc' = [proc EXCEPT ![p].pc = "push", ![p].set = StartSettings(proc[p].n)]
    /\ UNCHANGED <<player, live, lava, link, ended, sent, issued, voiced, calls, faults, doubt>>

StartPush(p) ==
    /\ proc[p].pc = "push"
    /\ Update(proc[p].track, proc[p].set, Goto(p, "show"), Done(p))
    /\ UNCHANGED <<player, live, link, ended, sent, issued, voiced, calls>>

StartShow(p) ==
    /\ proc[p].pc = "show"
    /\ player' = [player EXCEPT ![proc[p].n].current = proc[p].track,
                                ![proc[p].n].stale = FALSE]
    /\ Done(p)
    /\ UNCHANGED <<live, lava, link, ended, sent, issued, voiced, calls, faults, doubt>>

---------------------------------------------------------------------------
(* MusicSkip: the check, and after it the pop, each under the lock.          *)
MusicSkip(p) ==
    /\ proc[p].pc = "idle" /\ calls < MaxCalls /\ calls' = calls + 1
    /\ live # 0 /\ player[live].current # NoTrack
    /\ Start(p, [Idle EXCEPT !.op = "skip", !.pc = "skip", !.n = live])
    /\ UNCHANGED <<player, live, lava, link, ended, sent, issued, voiced, faults>>

SkipPop(p) ==
    LET n == proc[p].n
        q == player[n].queue
    IN /\ proc[p].pc = "skip"
       /\ IF q = <<>>
          THEN Goto(p, "forget") /\ UNCHANGED player
          ELSE /\ proc' = [proc EXCEPT ![p].pc = "read", ![p].track = Head(q)]
               /\ player' = Set(n, "queue", Tail(q))
       /\ UNCHANGED <<live, lava, link, ended, sent, issued, voiced, calls, faults, doubt>>

MusicStop(p) ==
    /\ proc[p].pc = "idle" /\ calls < MaxCalls /\ calls' = calls + 1
    /\ live # 0
    /\ Start(p, [Idle EXCEPT !.op = "stop", !.pc = "forget", !.n = live])
    /\ UNCHANGED <<player, live, lava, link, ended, sent, issued, voiced, faults>>

(* stopPlayback: the track is forgotten, then Lavalink's player destroyed,   *)
(* errors ignored.                                                           *)
StopForget(p) ==
    /\ proc[p].pc = "forget"
    /\ player' = [player EXCEPT ![proc[p].n].current = NoTrack,
                                ![proc[p].n].set["paused"] = FALSE]
    /\ Goto(p, "destroy")
    /\ UNCHANGED <<live, lava, link, ended, sent, issued, voiced, calls, faults, doubt>>

StopDestroy(p) ==
    /\ proc[p].pc = "destroy"
    /\ IF proc[p].op = "stop" THEN Goto(p, "clear") ELSE Done(p)
    /\ \/ link = "ready" /\ lava' = Silent /\ UNCHANGED <<faults, doubt>>
       \/ /\ \/ link # "ready" /\ UNCHANGED faults
             \/ link = "ready" /\ faults < MaxFaults /\ faults' = faults + 1
          /\ doubt' = doubt \cup {"kept"} /\ UNCHANGED lava
    /\ UNCHANGED <<player, live, link, ended, sent, issued, voiced, calls>>

(* A stop that met nobody and silenced Lavalink settles all doubt.           *)
StopClear(p) ==
    /\ proc[p].pc = "clear"
    /\ player' = Cleared(proc[p].n)
    /\ Done(p)
    /\ doubt' = IF proc[p].alone /\ lava.track = NoTrack /\ ended = 0 THEN {} ELSE doubt
    /\ UNCHANGED <<live, lava, link, ended, sent, issued, voiced, calls, faults>>

---------------------------------------------------------------------------
\* Mutant: the handler goes on without a current track.
NoPlayer == live = 0

NothingEnded == live = 0 \/ player[live].current = NoTrack

(* onTrackEnd for a track that ended by itself; the event does not say which *)
(* one, the handler takes whatever is current.  An event for a guild without *)
(* a player, or a player without a current track, is dropped.                *)
TrackEnd(p) ==
    /\ proc[p].pc = "idle" /\ ended > 0 /\ ended' = ended - 1
    /\ IF NothingEnded
       THEN UNCHANGED <<player, proc, doubt>>
       ELSE LET it == player[live]
                alone == AtWork = {} /\ ended = 1
            IN /\ player' = TakeCurrent(live)
               /\ proc' = [q \in Proc |->
                      IF q = p
                      THEN [Idle EXCEPT !.op = "end", !.n = live, !.track = it.current, !.loop = it.loop,
                                        !.alone = alone,
                                        !.pc = IF it.loop = "track" THEN "read" ELSE "advance"]
                      ELSE [proc[q] EXCEPT !.alone = FALSE]]
               /\ doubt' = IF alone THEN doubt ELSE doubt \cup {"overlap"}
    /\ UNCHANGED <<live, lava, link, sent, issued, voiced, calls, faults>>

(* The next track, in the order the loop mode and the shuffle leave.         *)
EndAdvance(p) ==
    LET n == proc[p].n
        q == player[n].queue \o (IF proc[p].loop = "queue" THEN <<proc[p].track>> ELSE <<>>)
    IN /\ proc[p].pc = "advance"
       /\ \E r \in Orders(q, player[n].shuffle) :
             IF r = <<>>
             THEN Done(p) /\ UNCHANGED player
             ELSE /\ player' = Set(n, "queue", Tail(r))
                  /\ proc' = [proc EXCEPT ![p].pc = "read", ![p].track = Head(r)]
       /\ UNCHANGED <<live, lava, link, ended, sent, issued, voiced, calls, faults, doubt>>

---------------------------------------------------------------------------
(* MusicPause (which wants a current track) and MusicVolume: tell Lavalink,  *)
(* then remember.                                                            *)
MusicSet(p, key, value) ==
    /\ proc[p].pc = "idle" /\ calls < MaxCalls /\ calls' = calls + 1
    /\ \E n \in 1..MaxPlayers :
          /\ IF key = "paused"
             THEN n = live /\ player[n].current # NoTrack /\ UNCHANGED <<player, live>>
             ELSE Reach(n) /\ player' = Set(n, "stale", FALSE)
          /\ Start(p, [Idle EXCEPT !.op = "set", !.pc = "set", !.n = n, !.key = key,
                                   !.set = [Defaults EXCEPT ![key] = value]])
    /\ UNCHANGED <<lava, link, ended, sent, issued, voiced, faults>>

SetPush(p) ==
    LET key == proc[p].key
    IN /\ proc[p].pc = "set"
       /\ Update(lava.track, [lava.set EXCEPT ![key] = proc[p].set[key]], Goto(p, "store"), Done(p))
       /\ UNCHANGED <<player, live, link, ended, sent, issued, voiced, calls>>

SetStore(p) ==
    LET key == proc[p].key
    IN /\ proc[p].pc = "store"
       /\ player' = [player EXCEPT ![proc[p].n].set[key] = proc[p].set[key]]
       /\ Done(p)
       /\ UNCHANGED <<live, lava, link, ended, sent, issued, voiced, calls, faults, doubt>>

(* MusicLoop, MusicShuffle and MusicClear touch the player only.             *)
MusicMode ==
    /\ calls < MaxCalls /\ calls' = calls + 1
    /\ \E n \in 1..MaxPlayers :
          \/ /\ Reach(n)
             /\ \/ \E mode \in {"off", "track", "queue"} :
                      player' = [player EXCEPT ![n].loop = mode, ![n].stale = FALSE]
                \/ player' = [player EXCEPT ![n].shuffle = ~player[n].shuffle, ![n].stale = FALSE]
          \/ /\ n = live /\ UNCHANGED live
             /\ player' = Cleared(n)
    /\ UNCHANGED <<proc, lava, link, ended, sent, issued, voiced, faults, doubt>>

---------------------------------------------------------------------------
(* onVoiceStateForMusic and onVoiceServerForMusic: under the lock each       *)
(* stores its half and reads the other one, then sends both if it has them.  *)
VoiceSend(p, n, session, token) ==
    proc' = [proc EXCEPT ![p] = [Idle EXCEPT !.op = "voice", !.pc = "voice", !.n = n,
                                             !.session = session, !.token = token]]

VoiceState(p) ==
    /\ proc[p].pc = "idle" /\ live # 0 /\ voiced < MaxVoice /\ voiced' = voiced + 1
    /\ \/ player' = Set(live, "session", 0) /\ UNCHANGED proc
       \/ /\ player' = Set(live, "session", voiced')
          /\ VoiceSend(p, live, voiced', player[live].token)
    /\ UNCHANGED <<live, lava, link, ended, sent, issued, calls, faults, doubt>>

VoiceServer(p) ==
    /\ proc[p].pc = "idle" /\ live # 0 /\ voiced < MaxVoice /\ voiced' = voiced + 1
    /\ player' = Set(live, "token", voiced')
    /\ VoiceSend(p, live, player[live].session, voiced')
    /\ UNCHANGED <<live, lava, link, ended, sent, issued, calls, faults, doubt>>

\* Mutant: a resync leaves the voice connection to Discord's events.
CanSendUnlessResync(p) ==
    proc[p].op = "voice" /\ proc[p].session # 0 /\ proc[p].token # 0 /\ link # "down"

CanSend(p) == proc[p].session # 0 /\ proc[p].token # 0 /\ link # "down"

(* sendVoiceIfReady; nobody tries again after a failed write.                *)
Voice(p) ==
    \/ /\ CanSend(p)
       /\ \/ sent' = sent \cup {[session |-> proc[p].session, token |-> proc[p].token, lost |-> FALSE]} /\ UNCHANGED faults
          \/ /\ faults < MaxFaults /\ faults' = faults + 1
             /\ sent' = sent \cup {[session |-> proc[p].session, token |-> proc[p].token, lost |-> TRUE]}
    \/ ~CanSend(p) /\ UNCHANGED <<sent, faults>>

SendVoice(p) ==
    /\ proc[p].pc = "voice"
    /\ Voice(p) /\ Done(p)
    /\ UNCHANGED <<player, live, lava, link, ended, issued, voiced, calls, doubt>>

---------------------------------------------------------------------------
(* The websocket.  Its loss takes Lavalink's session along, and the events   *)
(* that were still on their way.                                             *)
Disconnect ==
    /\ link # "down" /\ faults < MaxFaults /\ faults' = faults + 1
    /\ link' = "down" /\ lava' = Silent /\ sent' = {}
    /\ ended' \in 0..ended
    /\ UNCHANGED <<player, live, proc, issued, voiced, calls, doubt>>

(* startMusic dials until it succeeds.                                       *)
Dial ==
    /\ link = "down" /\ link' = "dialed"
    /\ UNCHANGED <<player, live, proc, lava, ended, sent, issued, voiced, calls, faults, doubt>>

(* Lavalink's ready message, and resyncAllPlayers' look at the player.       *)
Ready(p) ==
    /\ link = "dialed" /\ link' = "ready"
    /\ proc[p].pc = "idle"
    /\ IF live = 0 THEN UNCHANGED <<proc, doubt>>
       ELSE LET it == player[live]
            IN Start(p, [Idle EXCEPT !.op = "resync", !.pc = "resync", !.n = live,
                             !.track = it.current, !.set = it.set,
                             !.session = it.session, !.token = it.token])
    /\ UNCHANGED <<player, live, lava, ended, sent, issued, voiced, calls, faults>>

ResyncVoice(p) ==
    /\ proc[p].pc = "resync"
    /\ Voice(p)
    /\ IF proc[p].track = NoTrack \/ link = "down" THEN Done(p) ELSE Goto(p, "repeat")
    /\ UNCHANGED <<player, live, lava, link, ended, issued, voiced, calls, doubt>>

ResyncPush(p) ==
    /\ proc[p].pc = "repeat"
    /\ Update(proc[p].track, proc[p].set, Done(p), Done(p))
    /\ UNCHANGED <<player, live, link, ended, sent, issued, voiced, calls>>

---------------------------------------------------------------------------
(* Lavalink plays a track to its end and reports it.                         *)
TrackFinishes ==
    /\ link = "ready" /\ lava.track # NoTrack /\ ~lava.set["paused"]
    /\ lava' = [lava EXCEPT !.track = NoTrack]
    /\ ended' = ended + 1
    /\ proc' = [p \in Proc |-> [proc[p] EXCEPT !.alone = FALSE]]
    /\ doubt' = IF AtWork # {} THEN doubt \cup {"overlap"} ELSE doubt
    /\ UNCHANGED <<player, live, link, sent, issued, voiced, calls, faults>>

(* Fifteen minutes without a command that refreshes lastActive; a play or a  *)
(* volume command in flight has just done so.                                *)
Age ==
    /\ live # 0 /\ ~player[live].stale
    /\ \A p \in Proc : proc[p].op # "play" /\ (proc[p].op = "set" => proc[p].key # "volume")
    /\ player' = Set(live, "stale", TRUE)
    /\ UNCHANGED <<live, proc, lava, link, ended, sent, issued, voiced, calls, faults, doubt>>

(* sweepIdlePlayers, between two looks of whoever holds the player.          *)
SweepIdle ==
    /\ live # 0 /\ IdleForLong(live)
    /\ live' = 0
    /\ doubt' = IF AtWork = {} THEN doubt ELSE doubt \cup {"overlap"}
    /\ UNCHANGED <<player, proc, lava, link, ended, sent, issued, voiced, calls, faults>>

MusicNext ==
    \/ \E p \in Proc : \/ \E count \in 1..2, top \in BOOLEAN : MusicPlay(p, count, top)
                       \/ \E key \in Setting, value \in BOOLEAN : MusicSet(p, key, value)
                       \/ MusicSkip(p) \/ MusicStop(p) \/ TrackEnd(p)
    \/ \E p \in Proc : \/ PlayPop(p) \/ StartRead(p) \/ StartPush(p) \/ StartShow(p)
                       \/ SkipPop(p) \/ StopForget(p) \/ StopDestroy(p) \/ StopClear(p)
                       \/ EndAdvance(p) \/ SetPush(p) \/ SetStore(p)
    \/ \E p \in Proc : VoiceState(p) \/ VoiceServer(p) \/ SendVoice(p)
    \/ \E p \in Proc : Ready(p) \/ ResyncVoice(p) \/ ResyncPush(p)
    \/ MusicJoin \/ MusicMode \/ Disconnect \/ Dial \/ TrackFinishes \/ Age \/ SweepIdle

MusicSpec == MusicInit /\ [][MusicNext]_musicVars

---------------------------------------------------------------------------
MusicTypeOK ==
    /\ player \in [1..MaxPlayers ->
          [queue : UNION {[1..k -> Track] : k \in 0..MaxTracks}, current : Track \cup {NoTrack},
           set : [Setting -> BOOLEAN], loop : {"off", "track", "queue"}, shuffle : BOOLEAN,
           stale : BOOLEAN, session : 0..MaxVoice, token : 0..MaxVoice]]
    /\ live \in 0..MaxPlayers
    /\ lava \in [track : Track \cup {NoTrack}, set : [Setting -> BOOLEAN]]
    /\ link \in {"down", "dialed", "ready"}
    /\ sent \subseteq [session : 1..MaxVoice, token : 1..MaxVoice, lost : BOOLEAN]
    /\ doubt \subseteq {"overlap", "refused", "unheard", "kept"}

Hand(p) == IF proc[p].op # "resync" THEN {proc[p].track} \cap Track ELSE {}

(* However commands and events interleave, a track that was asked for once   *)
(* is in one place at most: a queue, a goroutine's hands, or current.        *)
OnePlace ==
    \A t \in Track :
        Cardinality({n \in 1..MaxPlayers : player[n].current = t})
      + Cardinality({p \in Proc : t \in Hand(p)})
      + Cardinality({x \in (1..MaxPlayers) \X (1..MaxTracks) :
                        x[2] <= Len(player[x[1]].queue) /\ player[x[1]].queue[x[2]] = t}) <= 1

(* The idle sweep takes no player away with tracks in its queue, and nobody  *)
(* who still holds the old player puts any there; of the current track of    *)
(* such a player nothing is said.                                            *)
SweptIsEmpty == \A n \in 1..MaxPlayers : n # live => player[n].queue = <<>>

Calm == AtWork = {} /\ ended = 0 /\ link = "ready"
Current == IF live = 0 THEN NoTrack ELSE player[live].current

(* With nobody at work, what the player shows is what Lavalink plays, paused *)
(* and loud as it shows, unless two goroutines got in each other's way or    *)
(* the last call that mattered failed; a lone .stop puts even that right.    *)
InStep ==
    Calm /\ doubt = {} => /\ lava.track = Current
                          /\ Current # NoTrack => lava.set = player[live].set

(* Nothing waits in the queue while nothing plays.                           *)
NothingWaits == Calm /\ doubt = {} /\ live # 0 /\ Current = NoTrack => player[live].queue = <<>>

(* The two halves of a voice connection arrive in any order, in two          *)
(* goroutines, and around a reconnect: once nobody is at work, Lavalink has  *)
(* been sent the latest pair, unless the very write of it failed.            *)
VoiceReaches ==
    Calm /\ live # 0 /\ (\A p \in Proc : proc[p].pc # "voice")
         /\ player[live].session # 0 /\ player[live].token # 0
      => \E v \in sent : v.session = player[live].session /\ v.token = player[live].token
=============================================================================
