----------------------------- MODULE MusicProofs ----------------------------
(***************************************************************************)
(* Proofs about Music, for every number of goroutines, tracks, players,    *)
(* voice events, commands and failures.                                    *)
(*                                                                         *)
(* A track is in one place because every step that moves it takes it from  *)
(* where it was first.  Player and node agree because, as long as no doubt *)
(* was noted, one goroutine is at work at most, and Phase says for each    *)
(* place in its code what it has done and what is left to do.              *)
(***************************************************************************)
EXTENDS Music, FiniteSetTheorems, SequenceTheorems, TLAPS

---------------------------------------------------------------------------
(* The inductive invariant: types;                                           *)
SetType == [Setting -> BOOLEAN]
LoopType == {"off", "track", "queue"}

PlayerType == [queue : Seq(Track), current : 0..MaxTracks, set : SetType, loop : LoopType,
               shuffle : BOOLEAN, stale : BOOLEAN, session : 0..MaxVoice, token : 0..MaxVoice]

WorkType == [op : {"none", "play", "skip", "stop", "end", "set", "voice", "resync"},
             pc : {"idle", "pop", "read", "push", "show", "skip", "forget", "destroy", "clear", "advance",
                   "set", "store", "voice", "resync", "repeat"},
             n : 0..MaxPlayers, track : 0..Blank, set : SetType, key : Setting, loop : LoopType,
             session : 0..MaxVoice, token : 0..MaxVoice, alone : BOOLEAN]

InHand(it) ==
    /\ it.pc # "idle" => it.n \in 1..MaxPlayers
    /\ it.pc \in {"read", "push", "show", "advance"} => it.track # NoTrack
    /\ it.pc \in {"show", "advance"} => it.track # Blank
    /\ it.op = "resync" <=> it.pc \in {"resync", "repeat"}
    /\ it.pc = "skip" => it.op = "skip"
    /\ it.pc \in {"forget", "destroy"} => it.op \in {"skip", "stop"}
    /\ it.pc = "clear" => it.op = "stop"

(* Voice updates, and whether one with session s and token t is among sends. *)
VoiceMsg == [session : 1..MaxVoice, token : 1..MaxVoice, lost : BOOLEAN]
Tried(sends, s, t) == \E v \in sends : v.session = s /\ v.token = t

MusicTyped ==
    /\ player \in [1..MaxPlayers -> PlayerType]
    /\ live \in 0..MaxPlayers
    /\ proc \in [Proc -> WorkType]
    /\ lava \in [track : 0..MaxTracks, set : SetType]
    /\ link \in {"down", "dialed", "ready"}
    /\ ended \in Nat
    /\ sent \subseteq VoiceMsg
    /\ issued \in 0..MaxTracks /\ voiced \in 0..MaxVoice
    /\ doubt \subseteq {"overlap", "refused", "unheard", "kept"}
    /\ \A p \in Proc : InHand(proc[p])

(* a track is in one place at most;                                          *)
Held(it) == IF it.op # "resync" THEN it.track ELSE NoTrack

QueuedOnce ==
    \A n, m \in 1..MaxPlayers : \A i \in 1..Len(player[n].queue), j \in 1..Len(player[m].queue) :
        player[n].queue[i] = player[m].queue[j] => n = m /\ i = j
CurrentOnce ==
    \A n, m \in 1..MaxPlayers : player[n].current = player[m].current /\ player[n].current # NoTrack => n = m
CurrentOut ==
    \A n, m \in 1..MaxPlayers : \A i \in 1..Len(player[n].queue) : player[n].queue[i] # player[m].current
HeldOnce == \A p, q \in Proc : Held(proc[p]) = Held(proc[q]) /\ Held(proc[p]) \in Track => p = q
HeldOut ==
    \A p \in Proc, n \in 1..MaxPlayers : Held(proc[p]) \in Track =>
        Held(proc[p]) # player[n].current /\ \A i \in 1..Len(player[n].queue) : player[n].queue[i] # Held(proc[p])

Singly == QueuedOnce /\ CurrentOnce /\ CurrentOut /\ HeldOnce /\ HeldOut

Issued ==
    /\ \A n \in 1..MaxPlayers : player[n].current <= issued /\ \A i \in 1..Len(player[n].queue) : player[n].queue[i] <= issued
    /\ \A p \in Proc : Held(proc[p]) \in Track => Held(proc[p]) <= issued

(* Lavalink has, or is about to get, the latest pair;                        *)
VoiceKnown ==
    live # 0 /\ player[live].session # 0 /\ player[live].token # 0 =>
        \/ link # "ready"
        \/ Tried(sent, player[live].session, player[live].token)
        \/ \E p \in Proc : /\ proc[p].pc \in {"voice", "resync"}
                           /\ proc[p].session = player[live].session /\ proc[p].token = player[live].token

(* and, without doubt, one goroutine at most is at work, on the player that  *)
(* is live, and is as far as its place in the code says.                     *)
Agree == link = "ready" => lava.track = Current /\ (Current # NoTrack => lava.set = player[live].set)
Rest == live # 0 /\ Current = NoTrack => player[live].queue = <<>>

Phase(it) ==
    /\ live # 0 /\ it.n = live
    /\ it.pc = "push" => it.set = player[live].set
    /\ it.pc = "show" /\ link = "ready" => lava.track = it.track /\ lava.set = player[live].set
    /\ it.pc \in {"destroy", "clear", "advance"} => Current = NoTrack
    /\ it.pc \in {"clear", "advance", "resync"} => lava.track = NoTrack
    /\ it.pc \in {"forget", "destroy"} /\ it.op = "skip" => player[live].queue = <<>>
    /\ it.pc = "set" => Agree
    /\ it.pc = "store" /\ link = "ready" =>
          lava.track = Current /\ (Current # NoTrack => lava.set = [player[live].set EXCEPT ![it.key] = it.set[it.key]])
    /\ it.pc \in {"resync", "repeat"} => it.track = Current /\ it.set = player[live].set
    /\ it.pc \in {"set", "store", "resync", "repeat"} => Rest

Clear ==
    /\ \A p, q \in AtWork : p = q
    /\ AtWork = {} /\ ended = 0 => Agree /\ Rest
    /\ ended # 0 => AtWork = {} /\ lava.track = NoTrack /\ live # 0 /\ Current # NoTrack
    /\ \A p \in AtWork : Phase(proc[p])

(* A stop that has met nobody finds the player as it left it, or none.       *)
Lull == live = 0 \/ (Current = NoTrack /\ player[live].queue = <<>>)

Alone(p) ==
    /\ AtWork = {p}
    /\ proc[p].op = "stop" => /\ proc[p].n = live \/ Lull
                              /\ proc[p].pc \in {"destroy", "clear"} => Current = NoTrack

Steady ==
    /\ link # "ready" => lava.track = NoTrack
    /\ doubt = {} => Clear
    /\ \A p \in AtWork : proc[p].alone => Alone(p)

MusicIInv == MusicTyped /\ Singly /\ Issued /\ SweptIsEmpty /\ VoiceKnown /\ Steady

---------------------------------------------------------------------------
(* Types.                                                                    *)
LEMMA MusicNumbers ==
  /\ IsFiniteSet(Proc) /\ MaxTracks \in Nat /\ MaxPlayers \in Nat /\ MaxVoice \in Nat
  /\ Track = 1..MaxTracks /\ Blank = MaxTracks + 1 /\ Blank \notin Track /\ NoTrack = 0 /\ NoTrack \notin Track
  /\ 0..MaxTracks = Track \cup {NoTrack} /\ 0..Blank = Track \cup {NoTrack, Blank}
BY MusicAssumption DEF MusicAssumption, Track, Blank, NoTrack

LEMMA DefaultsTyped == Defaults \in SetType /\ {"paused", "volume"} = Setting
BY DEF Defaults, SetType, Setting

LEMMA NewTyped ==
  /\ NewPlayer \in PlayerType /\ NewPlayer.queue = <<>> /\ NewPlayer.current = NoTrack
  /\ NewPlayer.session = 0
<1>1. <<>> \in Seq(Track)
  BY EmptySeq
<1>. QED
  BY <1>1, MusicNumbers, DefaultsTyped DEF NewPlayer, PlayerType, LoopType

LEMMA IdleTyped ==
  /\ Idle \in WorkType /\ Idle.pc = "idle" /\ Idle.op = "none" /\ Idle.track = NoTrack /\ ~Idle.alone
BY MusicNumbers, DefaultsTyped DEF Idle, WorkType, LoopType, Setting

LEMMA SilentTyped == Silent \in [track : 0..MaxTracks, set : SetType] /\ Silent.track = NoTrack
BY MusicNumbers, DefaultsTyped DEF Silent

LEMMA MusicInitTyped == MusicInit => MusicTyped
BY MusicNumbers, NewTyped, IdleTyped, SilentTyped DEF MusicInit, MusicTyped, InHand

PlayerField == {"queue", "current", "set", "loop", "shuffle", "stale", "session", "token"}
WorkField == {"op", "pc", "n", "track", "set", "key", "loop", "session", "token", "alone"}

LEMMA PlayerParts ==
  ASSUME NEW x \in PlayerType
  PROVE  /\ DOMAIN x = PlayerField /\ x.queue \in Seq(Track) /\ x.current \in 0..MaxTracks /\ x.set \in SetType
         /\ x.loop \in LoopType /\ x.shuffle \in BOOLEAN /\ x.stale \in BOOLEAN
         /\ x.session \in 0..MaxVoice /\ x.token \in 0..MaxVoice
BY DEF PlayerType, PlayerField

LEMMA WorkParts ==
  ASSUME NEW x \in WorkType
  PROVE  /\ DOMAIN x = WorkField /\ x.n \in 0..MaxPlayers /\ x.track \in 0..Blank /\ x.set \in SetType
         /\ x.key \in Setting /\ x.loop \in LoopType /\ x.session \in 0..MaxVoice /\ x.token \in 0..MaxVoice
BY DEF WorkType, WorkField

(* What a step makes of one player and of one goroutine.                     *)
PlayerBut(n, fields) ==
    /\ player' \in [1..MaxPlayers -> PlayerType]
    /\ \A m \in (1..MaxPlayers) \ {n} : player'[m] = player[m]
    /\ \A f \in PlayerField \ fields : player'[n][f] = player[n][f]

WorkBut(p, fields) ==
    /\ proc' \in [Proc -> WorkType]
    /\ \A q \in Proc \ {p} : proc'[q] = proc[q]
    /\ \A f \in WorkField \ fields : proc'[p][f] = proc[p][f]

LEMMA PlayerSet ==
  ASSUME MusicTyped, NEW n \in 1..MaxPlayers
  PROVE  /\ \A v \in Seq(Track) : player' = Set(n, "queue", v) => PlayerBut(n, {"queue"}) /\ player'[n].queue = v
         /\ \A v \in 0..MaxTracks : player' = Set(n, "current", v) => PlayerBut(n, {"current"}) /\ player'[n].current = v
         /\ \A v \in BOOLEAN : player' = Set(n, "stale", v) => PlayerBut(n, {"stale"})
         /\ \A v \in 0..MaxVoice : player' = Set(n, "session", v) => PlayerBut(n, {"session"}) /\ player'[n].session = v
         /\ \A v \in 0..MaxVoice : player' = Set(n, "token", v) => PlayerBut(n, {"token"}) /\ player'[n].token = v
<1>1. player[n] \in PlayerType
  BY DEF MusicTyped
<1>2. ASSUME NEW v \in Seq(Track), player' = Set(n, "queue", v) PROVE PlayerBut(n, {"queue"}) /\ player'[n].queue = v
  <2>. PICK x : x = [player[n] EXCEPT !.queue = v]
    OBVIOUS
  <2>1. x \in PlayerType /\ x.queue = v /\ \A f \in PlayerField \ {"queue"} : x[f] = player[n][f]
    BY <1>1 DEF PlayerType, PlayerField
  <2>2. player' = [player EXCEPT ![n] = x]
    BY <1>2 DEF Set
  <2>. QED
    BY <2>1, <2>2 DEF PlayerBut, MusicTyped
<1>3. ASSUME NEW v \in 0..MaxTracks, player' = Set(n, "current", v) PROVE PlayerBut(n, {"current"}) /\ player'[n].current = v
  <2>. PICK x : x = [player[n] EXCEPT !.current = v]
    OBVIOUS
  <2>1. x \in PlayerType /\ x.current = v /\ \A f \in PlayerField \ {"current"} : x[f] = player[n][f]
    BY <1>1 DEF PlayerType, PlayerField
  <2>2. player' = [player EXCEPT ![n] = x]
    BY <1>3 DEF Set
  <2>. QED
    BY <2>1, <2>2 DEF PlayerBut, MusicTyped
<1>4. ASSUME NEW v \in BOOLEAN, player' = Set(n, "stale", v) PROVE PlayerBut(n, {"stale"}) /\ player'[n].stale = v
  <2>. PICK x : x = [player[n] EXCEPT !.stale = v]
    OBVIOUS
  <2>1. x \in PlayerType /\ x.stale = v /\ \A f \in PlayerField \ {"stale"} : x[f] = player[n][f]
    BY <1>1 DEF PlayerType, PlayerField
  <2>2. player' = [player EXCEPT ![n] = x]
    BY <1>4 DEF Set
  <2>. QED
    BY <2>1, <2>2 DEF PlayerBut, MusicTyped
<1>5. ASSUME NEW v \in 0..MaxVoice, player' = Set(n, "session", v) PROVE PlayerBut(n, {"session"}) /\ player'[n].session = v
  <2>. PICK x : x = [player[n] EXCEPT !.session = v]
    OBVIOUS
  <2>1. x \in PlayerType /\ x.session = v /\ \A f \in PlayerField \ {"session"} : x[f] = player[n][f]
    BY <1>1 DEF PlayerType, PlayerField
  <2>2. player' = [player EXCEPT ![n] = x]
    BY <1>5 DEF Set
  <2>. QED
    BY <2>1, <2>2 DEF PlayerBut, MusicTyped
<1>6. ASSUME NEW v \in 0..MaxVoice, player' = Set(n, "token", v) PROVE PlayerBut(n, {"token"}) /\ player'[n].token = v
  <2>. PICK x : x = [player[n] EXCEPT !.token = v]
    OBVIOUS
  <2>1. x \in PlayerType /\ x.token = v /\ \A f \in PlayerField \ {"token"} : x[f] = player[n][f]
    BY <1>1 DEF PlayerType, PlayerField
  <2>2. player' = [player EXCEPT ![n] = x]
    BY <1>6 DEF Set
  <2>. QED
    BY <2>1, <2>2 DEF PlayerBut, MusicTyped
<1>. QED
  BY <1>2, <1>3, <1>4, <1>5, <1>6

LEMMA PlayIs ==
  ASSUME MusicTyped, NEW n \in 1..MaxPlayers, NEW v \in Seq(Track),
         player' = [player EXCEPT ![n].stale = FALSE, ![n].queue = v]
  PROVE  PlayerBut(n, {"stale", "queue"}) /\ player'[n].queue = v
<1>1. player[n] \in PlayerType
  BY DEF MusicTyped
<1>. PICK x : x = [player[n] EXCEPT !.stale = FALSE, !.queue = v]
  OBVIOUS
<1>2. x \in PlayerType /\ x.queue = v /\ \A f \in PlayerField \ {"stale", "queue"} : x[f] = player[n][f]
  BY <1>1 DEF PlayerType, PlayerField
<1>3. player' = [player EXCEPT ![n] = x]
  OBVIOUS
<1>. QED
  BY <1>2, <1>3 DEF PlayerBut, MusicTyped

LEMMA ShowIs ==
  ASSUME MusicTyped, NEW n \in 1..MaxPlayers, NEW v \in 0..MaxTracks,
         player' = [player EXCEPT ![n].current = v, ![n].stale = FALSE]
  PROVE  PlayerBut(n, {"current", "stale"}) /\ player'[n].current = v
<1>1. player[n] \in PlayerType
  BY DEF MusicTyped
<1>. PICK x : x = [player[n] EXCEPT !.current = v, !.stale = FALSE]
  OBVIOUS
<1>2. x \in PlayerType /\ x.current = v /\ \A f \in PlayerField \ {"current", "stale"} : x[f] = player[n][f]
  BY <1>1 DEF PlayerType, PlayerField
<1>3. player' = [player EXCEPT ![n] = x]
  OBVIOUS
<1>. QED
  BY <1>2, <1>3 DEF PlayerBut, MusicTyped

LEMMA ForgetIs ==
  ASSUME MusicTyped, NEW n \in 1..MaxPlayers,
         player' = [player EXCEPT ![n].current = NoTrack, ![n].set["paused"] = FALSE]
  PROVE  PlayerBut(n, {"current", "set"}) /\ player'[n].current = NoTrack
<1>1. player[n] \in PlayerType /\ player[n].set \in SetType
  BY PlayerParts DEF MusicTyped
<1>. PICK v : v = [player[n].set EXCEPT !["paused"] = FALSE]
  OBVIOUS
<1>2. v \in SetType
  BY <1>1 DEF SetType
<1>. PICK x : x = [player[n] EXCEPT !.current = NoTrack, !.set = v]
  OBVIOUS
<1>3. x \in PlayerType /\ x.current = NoTrack /\ \A f \in PlayerField \ {"current", "set"} : x[f] = player[n][f]
  BY <1>1, <1>2, MusicNumbers DEF PlayerType, PlayerField
<1>4. player' = [player EXCEPT ![n] = x]
  BY <1>1 DEF PlayerType
<1>. QED
  BY <1>3, <1>4 DEF PlayerBut, MusicTyped

LEMMA ModeIs ==
  ASSUME MusicTyped, NEW n \in 1..MaxPlayers
  PROVE  /\ \A v \in LoopType : player' = [player EXCEPT ![n].loop = v, ![n].stale = FALSE] => PlayerBut(n, {"loop", "stale"})
         /\ \A v \in BOOLEAN : player' = [player EXCEPT ![n].shuffle = v, ![n].stale = FALSE] => PlayerBut(n, {"shuffle", "stale"})
<1>1. player[n] \in PlayerType
  BY DEF MusicTyped
<1>2. ASSUME NEW v \in LoopType, player' = [player EXCEPT ![n].loop = v, ![n].stale = FALSE]
      PROVE  PlayerBut(n, {"loop", "stale"})
  <2>. PICK x : x = [player[n] EXCEPT !.loop = v, !.stale = FALSE]
    OBVIOUS
  <2>1. x \in PlayerType /\ \A f \in PlayerField \ {"loop", "stale"} : x[f] = player[n][f]
    BY <1>1 DEF PlayerType, PlayerField
  <2>2. player' = [player EXCEPT ![n] = x]
    BY <1>2
  <2>. QED
    BY <2>1, <2>2 DEF PlayerBut, MusicTyped
<1>3. ASSUME NEW v \in BOOLEAN, player' = [player EXCEPT ![n].shuffle = v, ![n].stale = FALSE]
      PROVE  PlayerBut(n, {"shuffle", "stale"})
  <2>. PICK x : x = [player[n] EXCEPT !.shuffle = v, !.stale = FALSE]
    OBVIOUS
  <2>1. x \in PlayerType /\ \A f \in PlayerField \ {"shuffle", "stale"} : x[f] = player[n][f]
    BY <1>1 DEF PlayerType, PlayerField
  <2>2. player' = [player EXCEPT ![n] = x]
    BY <1>3
  <2>. QED
    BY <2>1, <2>2 DEF PlayerBut, MusicTyped
<1>. QED
  BY <1>2, <1>3

LEMMA StoreIs ==
  ASSUME MusicTyped, NEW n \in 1..MaxPlayers, NEW key \in Setting, NEW v \in BOOLEAN,
         player' = [player EXCEPT ![n].set[key] = v]
  PROVE  PlayerBut(n, {"set"}) /\ player'[n].set = [player[n].set EXCEPT ![key] = v]
<1>1. player[n] \in PlayerType /\ player[n].set \in SetType
  BY PlayerParts DEF MusicTyped
<1>. PICK w : w = [player[n].set EXCEPT ![key] = v]
  OBVIOUS
<1>2. w \in SetType
  BY <1>1 DEF SetType
<1>. PICK x : x = [player[n] EXCEPT !.set = w]
  OBVIOUS
<1>3. x \in PlayerType /\ x.set = w /\ \A f \in PlayerField \ {"set"} : x[f] = player[n][f]
  BY <1>1, <1>2 DEF PlayerType, PlayerField
<1>4. player' = [player EXCEPT ![n] = x]
  BY <1>1 DEF PlayerType
<1>. QED
  BY <1>3, <1>4 DEF PlayerBut, MusicTyped

Place == {"idle", "pop", "read", "push", "show", "skip", "forget", "destroy", "clear", "advance",
          "set", "store", "voice", "resync", "repeat"}

LEMMA GotoIs ==
  ASSUME MusicTyped, NEW p \in Proc, NEW pc \in Place, Goto(p, pc)
  PROVE  WorkBut(p, {"pc"}) /\ proc'[p].pc = pc
<1>1. proc[p] \in WorkType
  BY DEF MusicTyped
<1>. PICK x : x = [proc[p] EXCEPT !.pc = pc]
  OBVIOUS
<1>2. x \in WorkType /\ x.pc = pc /\ \A f \in WorkField \ {"pc"} : x[f] = proc[p][f]
  BY <1>1 DEF WorkType, WorkField, Place
<1>3. proc' = [proc EXCEPT ![p] = x]
  BY DEF Goto
<1>. QED
  BY <1>2, <1>3 DEF WorkBut, MusicTyped

LEMMA DoneIs ==
  ASSUME MusicTyped, NEW p \in Proc, Done(p)
  PROVE  WorkBut(p, WorkField) /\ proc'[p] = Idle
<1>1. proc' = [proc EXCEPT ![p] = Idle]
  BY DEF Done
<1>. QED
  BY <1>1, IdleTyped DEF WorkBut, MusicTyped

LEMMA PickedIs ==
  ASSUME MusicTyped, NEW p \in Proc, NEW t \in 0..Blank, proc' = [proc EXCEPT ![p].pc = "read", ![p].track = t]
  PROVE  WorkBut(p, {"pc", "track"}) /\ proc'[p].pc = "read" /\ proc'[p].track = t
<1>1. proc[p] \in WorkType
  BY DEF MusicTyped
<1>. PICK x : x = [proc[p] EXCEPT !.pc = "read", !.track = t]
  OBVIOUS
<1>2. x \in WorkType /\ x.pc = "read" /\ x.track = t /\ \A f \in WorkField \ {"pc", "track"} : x[f] = proc[p][f]
  BY <1>1 DEF WorkType, WorkField
<1>3. proc' = [proc EXCEPT ![p] = x]
  OBVIOUS
<1>. QED
  BY <1>2, <1>3 DEF WorkBut, MusicTyped

LEMMA ReadIs ==
  ASSUME MusicTyped, NEW p \in Proc, NEW v \in SetType, proc' = [proc EXCEPT ![p].pc = "push", ![p].set = v]
  PROVE  WorkBut(p, {"pc", "set"}) /\ proc'[p].pc = "push" /\ proc'[p].set = v
<1>1. proc[p] \in WorkType
  BY DEF MusicTyped
<1>. PICK x : x = [proc[p] EXCEPT !.pc = "push", !.set = v]
  OBVIOUS
<1>2. x \in WorkType /\ x.pc = "push" /\ x.set = v /\ \A f \in WorkField \ {"pc", "set"} : x[f] = proc[p][f]
  BY <1>1 DEF WorkType, WorkField
<1>3. proc' = [proc EXCEPT ![p] = x]
  OBVIOUS
<1>. QED
  BY <1>2, <1>3 DEF WorkBut, MusicTyped

(* A goroutine sets to work, and all the others have met somebody.           *)
Starts(p, it) ==
    /\ proc' \in [Proc -> WorkType]
    /\ \A f \in WorkField \ {"alone"} : proc'[p][f] = it[f] /\ \A q \in Proc \ {p} : proc'[q][f] = proc[q][f]
    /\ \A q \in Proc \ {p} : ~proc'[q].alone

LEMMA StartsIs ==
  ASSUME MusicTyped, NEW p \in Proc, NEW it \in WorkType, NEW alone \in BOOLEAN,
         proc' = [q \in Proc |-> IF q = p THEN [it EXCEPT !.alone = alone] ELSE [proc[q] EXCEPT !.alone = FALSE]]
  PROVE  Starts(p, it) /\ proc'[p].alone = alone
<1>1. ASSUME NEW x \in WorkType, NEW b \in BOOLEAN, NEW y, y = [x EXCEPT !.alone = b]
      PROVE  y \in WorkType /\ y.alone = b /\ \A f \in WorkField \ {"alone"} : y[f] = x[f]
  BY <1>1 DEF WorkType, WorkField
<1>. PICK mine : mine = [it EXCEPT !.alone = alone]
  OBVIOUS
<1>2. proc'[p] = mine /\ mine \in WorkType /\ mine.alone = alone /\ \A f \in WorkField \ {"alone"} : mine[f] = it[f]
  BY <1>1
<1>3. ASSUME NEW q \in Proc \ {p}
      PROVE  proc'[q] \in WorkType /\ proc'[q].alone = FALSE /\ \A f \in WorkField \ {"alone"} : proc'[q][f] = proc[q][f]
  <2>. PICK y : y = [proc[q] EXCEPT !.alone = FALSE]
    OBVIOUS
  <2>1. proc'[q] = y /\ proc[q] \in WorkType
    BY DEF MusicTyped
  <2>. QED
    BY <2>1 DEF WorkType, WorkField
<1>4. proc' \in [Proc -> WorkType]
  <2>1. proc' = [q \in Proc |-> proc'[q]]
    OBVIOUS
  <2>. QED
    BY <1>2, <1>3, <2>1
<1>. QED
  BY <1>2, <1>3, <1>4 DEF Starts

LEMMA StartIs ==
  ASSUME MusicTyped, NEW p \in Proc, NEW it \in WorkType, Start(p, it)
  PROVE  /\ Starts(p, it) /\ (proc'[p].alone => AtWork = {} /\ ended = 0)
         /\ doubt' = IF AtWork = {} /\ ended = 0 THEN doubt ELSE doubt \cup {"overlap"}
<1>. PICK alone \in BOOLEAN : alone = (AtWork = {} /\ ended = 0)
  OBVIOUS
<1>1. proc' = [q \in Proc |-> IF q = p THEN [it EXCEPT !.alone = alone] ELSE [proc[q] EXCEPT !.alone = FALSE]]
  BY DEF Start
<1>2. Starts(p, it) /\ proc'[p].alone = alone
  BY <1>1, StartsIs
<1>. QED
  BY <1>2 DEF Start

LEMMA FinishedIs ==
  ASSUME MusicTyped, proc' = [p \in Proc |-> [proc[p] EXCEPT !.alone = FALSE]]
  PROVE  /\ proc' \in [Proc -> WorkType]
         /\ \A q \in Proc : ~proc'[q].alone /\ \A f \in WorkField \ {"alone"} : proc'[q][f] = proc[q][f]
<1>1. ASSUME NEW q \in Proc
      PROVE  proc'[q] \in WorkType /\ proc'[q].alone = FALSE /\ \A f \in WorkField \ {"alone"} : proc'[q][f] = proc[q][f]
  <2>. PICK y : y = [proc[q] EXCEPT !.alone = FALSE]
    OBVIOUS
  <2>1. proc'[q] = y /\ proc[q] \in WorkType
    BY DEF MusicTyped
  <2>. QED
    BY <2>1 DEF WorkType, WorkField
<1>2. proc' = [q \in Proc |-> proc'[q]]
  OBVIOUS
<1>. QED
  BY <1>1, <1>2

LEMMA VoiceSendIs ==
  ASSUME MusicTyped, NEW p \in Proc, NEW n \in 1..MaxPlayers, NEW session \in 0..MaxVoice, NEW token \in 0..MaxVoice,
         VoiceSend(p, n, session, token)
  PROVE  /\ WorkBut(p, WorkField) /\ proc'[p].op = "voice" /\ proc'[p].pc = "voice" /\ proc'[p].n = n
         /\ proc'[p].session = session /\ proc'[p].token = token /\ proc'[p].track = NoTrack
<1>. PICK a : a = [Idle EXCEPT !.op = "voice", !.pc = "voice", !.n = n]
  OBVIOUS
<1>. PICK x : x = [a EXCEPT !.session = session, !.token = token]
  OBVIOUS
<1>1. a \in WorkType /\ a.op = "voice" /\ a.pc = "voice" /\ a.n = n /\ a.track = NoTrack
  <2>1. n \in 0..MaxPlayers
    BY MusicNumbers
  <2>. QED
    BY <2>1, IdleTyped DEF WorkType
<1>2. /\ x \in WorkType /\ x.op = "voice" /\ x.pc = "voice" /\ x.n = n
      /\ x.session = session /\ x.token = token /\ x.track = NoTrack
  BY <1>1 DEF WorkType
<1>3. proc' = [proc EXCEPT ![p] = x]
  BY DEF VoiceSend
<1>. QED
  BY <1>2, <1>3 DEF WorkBut, MusicTyped

---------------------------------------------------------------------------
(* What a step leaves of the invariant where it does not interfere.          *)
SameTracks ==
    \A n \in 1..MaxPlayers : player'[n].queue = player[n].queue /\ player'[n].current = player[n].current

LEMMA SinglyStays ==
  ASSUME Singly, Issued, SameTracks, issued' = issued,
         \A p \in Proc : Held(proc'[p]) \in Track => Held(proc'[p]) = Held(proc[p])
  PROVE  Singly' /\ Issued'
<1>1. Singly'
  <2>1. QueuedOnce'
    <3> SUFFICES ASSUME NEW n \in 1..MaxPlayers, NEW m \in 1..MaxPlayers,
                        NEW i \in 1..Len(player'[n].queue), NEW j \in 1..Len(player'[m].queue),
                        player'[n].queue[i] = player'[m].queue[j]
                 PROVE  n = m /\ i = j
      BY DEF QueuedOnce
    <3>1. player'[n].queue = player[n].queue /\ player'[m].queue = player[m].queue
      BY DEF SameTracks
    <3>. QED
      BY <3>1 DEF Singly, QueuedOnce
  <2>2. CurrentOnce' /\ CurrentOut'
    BY DEF Singly, CurrentOnce, CurrentOut, SameTracks
  <2>3. HeldOnce' /\ HeldOut'
    BY DEF Singly, HeldOnce, HeldOut, SameTracks
  <2>. QED
    BY <2>1, <2>2, <2>3 DEF Singly
<1>2. Issued'
  BY DEF Issued, SameTracks
<1>. QED
  BY <1>1, <1>2

Once(q) == \A i, j \in 1..Len(q) : q[i] = q[j] => i = j
Within(t, q) == \E i \in 1..Len(q) : q[i] = t

(* What player n and goroutine p have is dealt anew among the two.           *)
LEMMA Redealt ==
  ASSUME MusicTyped, MusicTyped', Singly, Issued, NEW n \in 1..MaxPlayers, NEW p \in Proc,
         issued <= issued',
         \A m \in (1..MaxPlayers) \ {n} : player'[m] = player[m],
         \A q \in Proc \ {p} : Held(proc'[q]) = Held(proc[q]),
         Once(player'[n].queue), ~Within(player'[n].current, player'[n].queue), ~Within(Held(proc'[p]), player'[n].queue),
         Held(proc'[p]) \in Track => Held(proc'[p]) # player'[n].current,
         \A t \in Track : t = player'[n].current \/ t = Held(proc'[p]) \/ Within(t, player'[n].queue) =>
            \/ issued < t /\ t <= issued'
            \/ t = player[n].current \/ t = Held(proc[p]) \/ Within(t, player[n].queue)
  PROVE  Singly' /\ Issued'
<1>1. /\ \A m \in 1..MaxPlayers : /\ player[m].current \in 0..MaxTracks /\ player'[m].current \in 0..MaxTracks
                                  /\ \A i \in 1..Len(player[m].queue) : player[m].queue[i] \in Track
                                  /\ \A i \in 1..Len(player'[m].queue) : player'[m].queue[i] \in Track
  <2>1. ASSUME NEW x \in PlayerType PROVE x.current \in 0..MaxTracks /\ \A i \in 1..Len(x.queue) : x.queue[i] \in Track
    BY PlayerParts
  <2>. QED
    BY <2>1 DEF MusicTyped
<1>2. issued \in Nat /\ issued' \in Nat /\ NoTrack \notin Track /\ 0..MaxTracks = Track \cup {NoTrack}
  BY MusicNumbers DEF MusicTyped
<1>. DEFINE Here(t) == t = player[n].current \/ t = Held(proc[p]) \/ \E i \in 1..Len(player[n].queue) : player[n].queue[i] = t
            Now(t) == t = player'[n].current \/ t = Held(proc'[p]) \/ \E i \in 1..Len(player'[n].queue) : player'[n].queue[i] = t
<1>3. /\ \A t \in Track : Now(t) => (issued < t /\ t <= issued') \/ Here(t)
      /\ \A i \in 1..Len(player'[n].queue) : Now(player'[n].queue[i])
      /\ Now(player'[n].current) /\ Now(Held(proc'[p]))
  BY Zenon DEF Within
<1>4. ASSUME NEW m \in (1..MaxPlayers) \ {n}
      PROVE  /\ player'[m] = player[m] /\ (player[m].current # NoTrack => ~Here(player[m].current))
             /\ player[m].current <= issued
             /\ \A i \in 1..Len(player[m].queue) : ~Here(player[m].queue[i]) /\ player[m].queue[i] <= issued
  <2>1. player[m].current # NoTrack => player[m].current \in Track
    BY <1>1, <1>2
  <2>2. player[m].current # NoTrack => ~Here(player[m].current)
    BY <2>1 DEF Singly, CurrentOnce, CurrentOut, HeldOut
  <2>3. ASSUME NEW i \in 1..Len(player[m].queue) PROVE ~Here(player[m].queue[i])
    BY <1>1, SMTT(30) DEF Singly, QueuedOnce, CurrentOut, HeldOut
  <2>. QED
    BY <2>2, <2>3 DEF Issued
<1>5. ASSUME NEW q \in Proc \ {p}, Held(proc[q]) \in Track
      PROVE  ~Here(Held(proc[q])) /\ Held(proc[q]) <= issued
  BY <1>5 DEF Singly, HeldOnce, HeldOut, Issued
<1>6. \A t \in Track : t <= issued => ~(issued < t)
  BY <1>2, MusicNumbers
<1>. HIDE DEF Here, Now
<1>7. \A m \in (1..MaxPlayers) \ {n} : \A i \in 1..Len(player[m].queue) : ~Now(player[m].queue[i])
  BY <1>1, <1>3, <1>4, <1>6
<1>8. \A m \in (1..MaxPlayers) \ {n} : player[m].current # NoTrack => ~Now(player[m].current)
  BY <1>1, <1>2, <1>3, <1>4, <1>6
<1>9. \A q \in Proc \ {p} : Held(proc[q]) \in Track => ~Now(Held(proc[q]))
  BY <1>3, <1>5, <1>6
<1>10. QueuedOnce'
  <2> SUFFICES ASSUME NEW a \in 1..MaxPlayers, NEW b \in 1..MaxPlayers,
                      NEW i \in 1..Len(player'[a].queue), NEW j \in 1..Len(player'[b].queue),
                      player'[a].queue[i] = player'[b].queue[j]
               PROVE  a = b /\ i = j
    BY DEF QueuedOnce
  <2>1. CASE a # n /\ b # n
    <3>1. player'[a] = player[a] /\ player'[b] = player[b]
      BY <2>1
    <3>. QED
      BY <3>1, SMTT(30) DEF Singly, QueuedOnce
  <2>2. CASE a = n /\ b = n
    BY <2>2 DEF Once
  <2>3. CASE a = n /\ b # n
    <3>1. player'[b] = player[b]
      BY <2>3
    <3>. QED
      BY <2>3, <3>1, <1>3, <1>7
  <2>4. CASE a # n /\ b = n
    <3>1. player'[a] = player[a]
      BY <2>4
    <3>. QED
      BY <2>4, <3>1, <1>3, <1>7
  <2>. QED
    BY <2>1, <2>2, <2>3, <2>4
<1>11. CurrentOnce'
  BY <1>3, <1>8 DEF Singly, CurrentOnce
<1>12. CurrentOut'
  <2> SUFFICES ASSUME NEW a \in 1..MaxPlayers, NEW b \in 1..MaxPlayers, NEW i \in 1..Len(player'[a].queue)
               PROVE  player'[a].queue[i] # player'[b].current
    BY DEF CurrentOut
  <2>1. CASE a # n /\ b # n
    BY <1>4, <2>1 DEF Singly, CurrentOut
  <2>2. CASE a = n /\ b = n
    BY <2>2 DEF Within
  <2>3. CASE a = n /\ b # n
    <3>1. player'[a].queue[i] \in Track /\ Now(player'[a].queue[i])
      BY <1>1, <1>3, <2>3
    <3>. QED
      BY <3>1, <2>3, <1>2, <1>4, <1>8
  <2>4. CASE a # n /\ b = n
    BY <2>4, <1>3, <1>4, <1>7
  <2>. QED
    BY <2>1, <2>2, <2>3, <2>4
<1>13. HeldOnce'
  BY <1>3, <1>9 DEF Singly, HeldOnce
<1>14. HeldOut'
  BY <1>1, <1>2, <1>3, <1>7, <1>8, <1>9, SMTT(30) DEF Singly, HeldOut, Within
<1>15. \A t \in Track : Now(t) => t <= issued'
  <2>1. \A t \in Track : t <= issued => t <= issued'
    BY <1>2, MusicNumbers
  <2>2. \A t \in Track : Here(t) => t <= issued
    BY DEF Here, Issued
  <2>. QED
    BY <2>1, <2>2, <1>3
<1>16. Issued'
  <2>1. \A m \in 1..MaxPlayers : player'[m].current <= issued'
    BY <1>1, <1>2, <1>3, <1>4, <1>15, MusicNumbers
  <2>2. ASSUME NEW m \in 1..MaxPlayers, NEW i \in 1..Len(player'[m].queue) PROVE player'[m].queue[i] <= issued'
    <3>1. CASE m = n
      BY <3>1, <1>1, <1>3, <1>15
    <3>2. CASE m # n
      <4>1. player'[m] = player[m]
        BY <3>2
      <4>2. \A t \in Track : t <= issued => t <= issued'
        BY <1>2, MusicNumbers
      <4>. QED
        BY <4>1, <4>2, <3>2, <1>1, <1>4
    <3>. QED
      BY <3>1, <3>2
  <2>3. \A q \in Proc : Held(proc'[q]) \in Track => Held(proc'[q]) <= issued'
    BY <1>2, <1>3, <1>5, <1>15, MusicNumbers
  <2>. QED
    BY <2>1, <2>2, <2>3 DEF Issued
<1>. QED
  BY <1>10, <1>11, <1>12, <1>13, <1>14, <1>16 DEF Singly

LEMMA SweptStays ==
  ASSUME SweptIsEmpty, \A n \in 1..MaxPlayers : n # live' /\ (n # live \/ player[n].queue = <<>>) => player'[n].queue \in {player[n].queue, <<>>},
         live' = live \/ live = 0 \/ player[live].queue = <<>>
  PROVE  SweptIsEmpty'
BY DEF SweptIsEmpty

LEMMA TriedKept ==
  ASSUME NEW S, NEW T, S \subseteq T
  PROVE  \A s, t : Tried(S, s, t) => Tried(T, s, t)
BY DEF Tried

(* What Voice sends, heard or lost, is tried.                                *)
LEMMA VoiceTries ==
  ASSUME NEW p \in Proc, Voice(p), sent \subseteq VoiceMsg,
         proc[p].session \in 0..MaxVoice, proc[p].token \in 0..MaxVoice
  PROVE  /\ sent \subseteq sent' /\ sent' \subseteq VoiceMsg
         /\ \A s, t : Tried(sent, s, t) => Tried(sent', s, t)
         /\ proc[p].session # 0 /\ proc[p].token # 0 /\ link # "down" => Tried(sent', proc[p].session, proc[p].token)
<1> DEFINE m(lost) == [session |-> proc[p].session, token |-> proc[p].token, lost |-> lost]
<1>1. CASE CanSend(p)
  <2>1. PICK lost \in BOOLEAN : sent' = sent \cup {m(lost)}
    BY <1>1 DEF Voice
  <2>2. m(lost) \in VoiceMsg /\ m(lost).session = proc[p].session /\ m(lost).token = proc[p].token
    BY <1>1, MusicNumbers DEF VoiceMsg, CanSend
  <2>3. sent \subseteq sent' /\ sent' \subseteq VoiceMsg /\ m(lost) \in sent'
    BY <2>1, <2>2
  <2>4. Tried(sent', proc[p].session, proc[p].token)
    BY <2>2, <2>3 DEF Tried
  <2>. QED
    BY <2>3, <2>4, TriedKept
<1>2. CASE ~CanSend(p)
  <2>1. sent' = sent
    BY <1>2 DEF Voice
  <2>. QED
    BY <1>2, <2>1 DEF CanSend
<1>. QED
  BY <1>1, <1>2

LEMMA VoiceStays ==
  ASSUME VoiceKnown,
         live' # 0 => \/ live' = live /\ player'[live].session = player[live].session /\ player'[live].token = player[live].token
                      \/ player'[live'].session = 0,
         (link' = link /\ sent \subseteq sent') \/ link' # "ready",
         \A q \in Proc : proc[q].pc \in {"voice", "resync"} =>
            proc'[q].pc = proc[q].pc /\ proc'[q].session = proc[q].session /\ proc'[q].token = proc[q].token
  PROVE  VoiceKnown'
<1> SUFFICES ASSUME live' # 0, player'[live'].session # 0, player'[live'].token # 0, link' = "ready"
             PROVE  \/ Tried(sent', player'[live'].session, player'[live'].token)
                    \/ \E p \in Proc : /\ proc'[p].pc \in {"voice", "resync"}
                                       /\ proc'[p].session = player'[live'].session /\ proc'[p].token = player'[live'].token
  BY DEF VoiceKnown
<1>1. /\ live' = live /\ player'[live'].session = player[live].session /\ player'[live'].token = player[live].token
      /\ link = "ready" /\ sent \subseteq sent'
  OBVIOUS
<1>2. \A s, t : Tried(sent, s, t) => Tried(sent', s, t)
  BY <1>1, TriedKept
<1>. QED
  BY <1>1, <1>2 DEF VoiceKnown

(* Goroutine p, at work, takes its next step or ends.                        *)
LEMMA GoesOn ==
  ASSUME MusicTyped, Steady, NEW p \in Proc, p \in AtWork, live' = live, ended' = ended, doubt \subseteq doubt',
         \A q \in Proc \ {p} : proc'[q] = proc[q],
         \A m \in (1..MaxPlayers) \ {proc[p].n} : player'[m] = player[m],
         \/ proc'[p].pc = "idle"
         \/ /\ proc'[p].pc \notin {"idle", "voice"}
            /\ proc'[p].op = proc[p].op /\ proc'[p].n = proc[p].n /\ (proc'[p].alone => proc[p].alone)
            /\ proc[p].op = "stop" /\ proc'[p].pc \in {"destroy", "clear"} /\ Alone(p) => Current' = NoTrack,
         link' # "ready" => lava'.track = NoTrack,
         doubt' = {} /\ Phase(proc[p]) =>
            IF proc'[p].pc = "idle" THEN Agree' /\ Rest' ELSE Phase(proc[p])'
  PROVE  Steady'
<1>1. /\ proc[p].pc \notin {"idle", "voice"}
      /\ proc'[p].pc = "idle" => AtWork' = AtWork \ {p}
      /\ proc'[p].pc # "idle" => AtWork' = AtWork
  BY DEF AtWork
<1>2. live \in 0..MaxPlayers
  BY DEF MusicTyped
<1>3. ASSUME doubt' = {} PROVE Clear'
  <2>1. Clear /\ AtWork = {p} /\ ended = 0 /\ Phase(proc[p])
    BY <1>3 DEF Steady, Clear
  <2>2. CASE proc'[p].pc = "idle"
    <3>1. AtWork' = {} /\ Agree' /\ Rest'
      BY <1>1, <1>3, <2>1, <2>2
    <3>. QED
      BY <2>1, <3>1 DEF Clear
  <2>3. CASE proc'[p].pc # "idle"
    <3>1. AtWork' = {p} /\ Phase(proc[p])'
      BY <1>1, <1>3, <2>1, <2>3
    <3>. QED
      BY <2>1, <3>1 DEF Clear
  <2>. QED
    BY <2>2, <2>3
<1>4. ASSUME NEW q \in AtWork', proc'[q].alone PROVE Alone(q)'
  <2>1. q \in Proc /\ q \in AtWork
    BY <1>1 DEF AtWork
  <2>2. q = p /\ proc'[p].pc # "idle" /\ Alone(p)
    <3>1. proc[q].alone
      BY <1>1, <1>4, <2>1 DEF AtWork
    <3>2. Alone(q)
      BY <2>1, <3>1 DEF Steady
    <3>3. q = p
      BY <3>2 DEF Alone
    <3>. QED
      BY <3>2, <3>3, <1>1
  <2>3. AtWork' = {p}
    BY <1>1, <2>2 DEF Alone
  <2>4. ASSUME proc'[p].op = "stop"
        PROVE  (proc'[p].n = live' \/ Lull') /\ (proc'[p].pc \in {"destroy", "clear"} => Current' = NoTrack)
    <3>1. proc[p].op = "stop" /\ proc'[p].n = proc[p].n
      BY <2>2, <2>4
    <3>2. proc[p].n = live \/ Lull
      BY <2>2, <3>1 DEF Alone
    <3>3. proc[p].n # live /\ live # 0 => player'[live] = player[live]
      BY <1>2
    <3>4. proc[p].n = live \/ Lull'
      BY <3>2, <3>3 DEF Lull, Current
    <3>. QED
      BY <2>2, <3>1, <3>4
  <2>. QED
    BY <2>2, <2>3, <2>4 DEF Alone
<1>. QED
  BY <1>3, <1>4 DEF Steady

(* Goroutine p sets to work.                                                 *)
LEMMA Begins ==
  ASSUME Steady, NEW p \in Proc, proc[p].pc = "idle", proc'[p].pc \notin {"idle", "voice", "destroy", "clear"},
         \A q \in Proc \ {p} : proc'[q].pc = proc[q].pc /\ ~proc'[q].alone,
         proc'[p].alone => AtWork = {} /\ (proc'[p].op = "stop" => proc'[p].n = live'),
         link' # "ready" => lava'.track = NoTrack,
         doubt' = {} => AtWork = {} /\ ended' = 0 /\ (doubt = {} /\ Clear => Phase(proc[p])'),
         doubt \subseteq doubt'
  PROVE  Steady'
<1>1. AtWork' = AtWork \cup {p}
  BY DEF AtWork
<1>2. ASSUME doubt' = {} PROVE Clear'
  <2>1. doubt = {} /\ AtWork' = {p} /\ ended' = 0
    BY <1>1, <1>2
  <2>2. Clear
    BY <2>1 DEF Steady
  <2>3. Phase(proc[p])'
    BY <1>2, <2>1, <2>2
  <2>. QED
    BY <2>1, <2>3 DEF Clear
<1>3. ASSUME NEW q \in AtWork', proc'[q].alone PROVE Alone(q)'
  <2>1. q = p
    BY <1>3 DEF AtWork
  <2>. QED
    BY <1>1, <1>3, <2>1 DEF Alone
<1>. QED
  BY <1>2, <1>3 DEF Steady

(* Something happens around those at work.                                   *)
Idles == \A q \in Proc : IF q \in AtWork THEN proc'[q] = proc[q] ELSE q \notin AtWork'

Untouched ==
    /\ live' = live \/ (live = 0 /\ live' # 0 /\ player'[live'].current = NoTrack /\ player'[live'].queue = <<>>)
    /\ live # 0 => /\ player'[live].current = player[live].current /\ player'[live].set = player[live].set
                   /\ player[live].queue = <<>> => player'[live].queue = <<>>

LEMMA GoesAround ==
  ASSUME Steady, Idles, Untouched, lava' = lava, ended' = ended, doubt' = doubt, link' = link \/ (link # "ready" /\ link' # "ready")
  PROVE  Steady'
<1>1. AtWork' = AtWork /\ \A q \in AtWork : q \in Proc /\ proc'[q] = proc[q]
  BY DEF AtWork, Idles
<1>2. Current' = Current /\ (live' # live => live = 0 /\ Rest' /\ Current = NoTrack)
  BY DEF Current, Untouched, Rest
<1>3. (Agree => Agree') /\ (Rest => Rest') /\ (Lull => Lull')
  <2>1. Agree => Agree'
    BY <1>2 DEF Agree, Current, Untouched
  <2>2. Rest => Rest'
    BY <1>2 DEF Rest, Untouched
  <2>3. Lull => Lull'
    BY <1>2 DEF Lull, Untouched
  <2>. QED
    BY <2>1, <2>2, <2>3
<1>4. ASSUME NEW q \in AtWork, Phase(proc[q]) PROVE Phase(proc[q])'
  <2>1. live # 0 /\ live' = live
    BY <1>4 DEF Phase, Untouched
  <2>2. /\ proc'[q] = proc[q] /\ player'[live].set = player[live].set
        /\ player[live].queue = <<>> => player'[live].queue = <<>>
    BY <1>1, <2>1 DEF Untouched
  <2>. QED
    BY <1>2, <1>3, <1>4, <2>1, <2>2 DEF Phase
<1>5. ASSUME doubt' = {} PROVE Clear'
  <2>1. Clear
    BY <1>5 DEF Steady
  <2>2. ended # 0 => live' # 0
    BY <2>1 DEF Clear, Untouched
  <2>. QED
    BY <1>1, <1>2, <1>3, <1>4, <2>1, <2>2 DEF Clear
<1>6. ASSUME NEW q \in AtWork', proc'[q].alone PROVE Alone(q)'
  <2>1. q \in AtWork /\ proc'[q] = proc[q] /\ Alone(q)
    BY <1>1, <1>6 DEF Steady
  <2>2. live' = live \/ Lull'
    BY DEF Untouched, Lull, Current
  <2>. QED
    BY <1>1, <1>2, <1>3, <2>1, <2>2 DEF Alone
<1>. QED
  BY <1>5, <1>6 DEF Steady

---------------------------------------------------------------------------
(* What the actions have in common.                                          *)
LEMMA AtWorkHas ==
  ASSUME MusicTyped, NEW p \in AtWork
  PROVE  /\ p \in Proc /\ proc[p] \in WorkType /\ InHand(proc[p]) /\ proc[p].n \in 1..MaxPlayers
         /\ player[proc[p].n] \in PlayerType /\ player[proc[p].n].queue \in Seq(Track)
         /\ proc[p].pc \notin {"idle", "voice"}
<1>1. p \in Proc /\ proc[p].pc \notin {"idle", "voice"}
  BY DEF AtWork
<1>2. proc[p] \in WorkType /\ InHand(proc[p])
  BY <1>1 DEF MusicTyped
<1>3. proc[p].n \in 1..MaxPlayers
  BY <1>1, <1>2 DEF InHand
<1>4. player[proc[p].n] \in PlayerType
  BY <1>3 DEF MusicTyped
<1>5. player[proc[p].n].queue \in Seq(Track)
  BY <1>4, PlayerParts
<1>. QED
  BY <1>1, <1>2, <1>3, <1>4, <1>5

LEMMA TypedGoes ==
  ASSUME MusicTyped, NEW p \in Proc, \A q \in Proc \ {p} : proc'[q] = proc[q], InHand(proc'[p]),
         player' \in [1..MaxPlayers -> PlayerType], proc' \in [Proc -> WorkType],
         live' \in 0..MaxPlayers, lava' \in [track : 0..MaxTracks, set : SetType],
         link' \in {"down", "dialed", "ready"}, ended' \in Nat, sent' \subseteq VoiceMsg,
         issued' \in 0..MaxTracks, voiced' \in 0..MaxVoice, doubt' \subseteq {"overlap", "refused", "unheard", "kept"}
  PROVE  MusicTyped'
<1>1. \A q \in Proc : InHand(proc'[q])
  BY DEF MusicTyped
<1>. QED
  BY <1>1 DEF MusicTyped

Untold == UNCHANGED <<live, lava, link, ended, sent, issued, voiced, doubt>>

(* What is left of r, which p draws from the queue of its player and from    *)
(* its own hands, once its first track is in its hands.                      *)
Drawn(p, r) ==
    LET q == player[proc[p].n].queue IN
    /\ Once(r)
    /\ \A i \in 1..Len(r) : r[i] = Held(proc[p]) \/ Within(r[i], q)
    /\ proc[p].n # live => Len(r) = 1

Draws(p, r) ==
    /\ player' = Set(proc[p].n, "queue", Tail(r))
    /\ proc' = [proc EXCEPT ![p].pc = "read", ![p].track = Head(r)]
    /\ Untold

LEMMA Takes ==
  ASSUME MusicIInv, NEW p \in AtWork, proc[p].op # "resync", NEW r \in Seq(Track), r # <<>>, Drawn(p, r), Draws(p, r)
  PROVE  MusicIInv'
<1>1. MusicTyped /\ Singly /\ Issued /\ SweptIsEmpty /\ VoiceKnown /\ Steady
  BY DEF MusicIInv
<1>. PICK n \in 1..MaxPlayers : n = proc[p].n
  BY <1>1, AtWorkHas
<1>2. /\ p \in Proc /\ proc[p] \in WorkType /\ proc[p].pc \notin {"idle", "voice"} /\ InHand(proc[p])
      /\ player[n] \in PlayerType /\ player[n].queue \in Seq(Track) /\ player[n].current \in 0..MaxTracks
  BY <1>1, AtWorkHas, PlayerParts
<1>3. /\ Head(r) \in Track /\ Head(r) = r[1] /\ 1 \in 1..Len(r) /\ Tail(r) \in Seq(Track)
      /\ Len(r) \in Nat /\ Len(Tail(r)) = Len(r) - 1
      /\ \A i \in 1..Len(Tail(r)) : Tail(r)[i] = r[i + 1] /\ i + 1 \in 1..Len(r) /\ i + 1 # 1
  OBVIOUS
<1>. PICK rest \in Seq(Track) : rest = Tail(r)
  BY <1>3
<1>. PICK first \in Track : first = Head(r)
  BY <1>3
<1>4. PlayerBut(n, {"queue"}) /\ player'[n].queue = rest
  BY <1>1, PlayerSet DEF Draws
<1>5. first \in 0..Blank /\ first # NoTrack /\ first # Blank
  BY MusicNumbers
<1>6. WorkBut(p, {"pc", "track"}) /\ proc'[p].pc = "read" /\ proc'[p].track = first
  BY <1>1, <1>2, <1>5, PickedIs DEF Draws
<1>7. /\ \A m \in (1..MaxPlayers) \ {n} : player'[m] = player[m]
      /\ player'[n].current = player[n].current /\ player'[n].set = player[n].set
      /\ player'[n].session = player[n].session /\ player'[n].token = player[n].token
  BY <1>4 DEF PlayerBut, PlayerField
<1>8. /\ \A q \in Proc \ {p} : proc'[q] = proc[q]
      /\ proc'[p].op = proc[p].op /\ proc'[p].n = n /\ proc'[p].alone = proc[p].alone
  BY <1>6 DEF WorkBut, WorkField
<1>14. Untold /\ issued' = issued
  BY DEF Draws, Untold
<1>9. MusicTyped'
  <2>1. InHand(proc'[p])
    BY <1>2, <1>5, <1>6, <1>8 DEF InHand
  <2>. QED
    BY <1>1, <1>2, <1>4, <1>6, <1>8, <1>14, <2>1, TypedGoes DEF MusicTyped, PlayerBut, WorkBut, Untold
<1>10. Singly' /\ Issued'
  <2>1. Held(proc'[p]) = first
    BY <1>6, <1>8 DEF Held
  <2>2. \A q \in Proc \ {p} : Held(proc'[q]) = Held(proc[q])
    BY <1>8 DEF Held
  <2>3. ASSUME NEW i \in 1..Len(r)
        PROVE  /\ r[i] \in Track /\ r[i] # player[n].current
               /\ r[i] = Held(proc[p]) \/ Within(r[i], player[n].queue)
    <3>1. r[i] \in Track
      OBVIOUS
    <3>2. CASE r[i] = Held(proc[p])
      BY <1>1, <1>2, <3>1, <3>2 DEF Singly, HeldOut
    <3>3. CASE Within(r[i], player[n].queue)
      BY <1>1, <3>1, <3>3 DEF Singly, CurrentOut, Within
    <3>4. r[i] = Held(proc[p]) \/ Within(r[i], player[n].queue)
      BY DEF Drawn
    <3>. QED
      BY <3>1, <3>2, <3>3, <3>4
  <2>4. Once(rest)
    BY <1>3 DEF Drawn, Once
  <2>5. ~Within(player[n].current, rest) /\ ~Within(first, rest) /\ first # player[n].current
    <3>1. \A i \in 1..Len(r) : i # 1 => r[i] # r[1]
      BY <1>3 DEF Drawn, Once
    <3>. QED
      BY <1>3, <2>3, <3>1 DEF Within
  <2>6. ASSUME NEW t \in Track, t = player[n].current \/ t = first \/ Within(t, rest)
        PROVE  t = player[n].current \/ t = Held(proc[p]) \/ Within(t, player[n].queue)
    <3>1. CASE t = player[n].current
      BY <3>1
    <3>2. CASE t # player[n].current
      <4>1. PICK i \in 1..Len(r) : r[i] = t
        BY <1>3, <2>6, <3>2 DEF Within
      <4>. QED
        BY <2>3, <4>1
    <3>. QED
      BY <3>1, <3>2
  <2>7. issued <= issued'
    BY <1>1, <1>14, MusicNumbers DEF MusicTyped
  <2>8. /\ Once(player'[n].queue)
        /\ ~Within(player'[n].current, player'[n].queue) /\ ~Within(Held(proc'[p]), player'[n].queue)
        /\ Held(proc'[p]) \in Track => Held(proc'[p]) # player'[n].current
    BY <1>4, <1>7, <2>1, <2>4, <2>5
  <2>9. \A t \in Track : t = player'[n].current \/ t = Held(proc'[p]) \/ Within(t, player'[n].queue)
            => t = player[n].current \/ t = Held(proc[p]) \/ Within(t, player[n].queue)
    BY <1>4, <1>7, <2>1, <2>6
  <2>. QED
    BY <1>1, <1>2, <1>7, <1>9, <2>2, <2>7, <2>8, <2>9, Redealt
<1>11. SweptIsEmpty'
  <2>1. live' = live
    BY <1>14 DEF Untold
  <2>2. n # live => rest = <<>>
    BY <1>3 DEF Drawn
  <2>. QED
    BY <1>1, <1>4, <1>7, <2>1, <2>2 DEF SweptIsEmpty
<1>12. VoiceKnown'
  <2>1. live \in 0..MaxPlayers
    BY <1>1 DEF MusicTyped
  <2>2. proc[p].pc \notin {"voice", "resync"}
    BY <1>2 DEF InHand
  <2>3. live # 0 => player'[live].session = player[live].session /\ player'[live].token = player[live].token
    BY <1>7, <2>1
  <2>4. live' = live /\ link' = link /\ sent' = sent
    BY <1>14 DEF Untold
  <2>5. \A q \in Proc : proc[q].pc \in {"voice", "resync"} =>
            proc'[q].pc = proc[q].pc /\ proc'[q].session = proc[q].session /\ proc'[q].token = proc[q].token
    BY <1>8, <2>2
  <2>. QED
    BY <1>1, <2>3, <2>4, <2>5, VoiceStays
<1>13. Steady'
  <2>1. Phase(proc[p]) => Phase(proc[p])'
    BY <1>6, <1>7, <1>8, <1>14 DEF Phase, Untold
  <2>2. link' # "ready" => lava'.track = NoTrack
    BY <1>1, <1>14 DEF Steady, Untold
  <2>. QED
    BY <1>1, <1>2, <1>6, <1>7, <1>8, <1>14, <2>1, <2>2, GoesOn DEF Untold
<1>. QED
  BY <1>9, <1>10, <1>11, <1>12, <1>13 DEF MusicIInv

(* A step of p that draws no track.                                          *)
Quiet == live' = live /\ link' = link /\ ended' = ended /\ issued' = issued /\ voiced' = voiced

LEMMA Acts ==
  ASSUME MusicIInv, NEW p \in AtWork, NEW n, n = proc[p].n, Quiet,
         proc' \in [Proc -> WorkType], \A q \in Proc \ {p} : proc'[q] = proc[q], InHand(proc'[p]),
         player' \in [1..MaxPlayers -> PlayerType], \A m \in (1..MaxPlayers) \ {n} : player'[m] = player[m],
         player'[n].session = player[n].session, player'[n].token = player[n].token,
         player'[n].queue = player[n].queue \/ player'[n].queue = <<>>,
         lava' \in [track : 0..MaxTracks, set : SetType],
         doubt' \subseteq {"overlap", "refused", "unheard", "kept"},
         sent \subseteq sent', sent' \subseteq VoiceMsg,
         proc[p].pc = "resync" => VoiceKnown'
  PROVE  MusicTyped' /\ SweptIsEmpty' /\ VoiceKnown'
<1>1. MusicTyped /\ SweptIsEmpty /\ VoiceKnown /\ p \in Proc /\ InHand(proc[p])
  BY AtWorkHas DEF MusicIInv
<1>2. MusicTyped'
  BY <1>1, TypedGoes DEF MusicTyped, Quiet
<1>3. SweptIsEmpty'
  BY <1>1 DEF SweptIsEmpty, Quiet
<1>4. VoiceKnown'
  <2>1. CASE proc[p].pc = "resync"
    BY <2>1
  <2>2. CASE proc[p].pc # "resync"
    <3>1. proc[p].pc # "voice"
      BY AtWorkHas, <1>1
    <3>2. live # 0 => player'[live].session = player[live].session /\ player'[live].token = player[live].token
      BY <1>1 DEF MusicTyped
    <3>3. \A q \in Proc : proc[q].pc \in {"voice", "resync"} =>
              proc'[q].pc = proc[q].pc /\ proc'[q].session = proc[q].session /\ proc'[q].token = proc[q].token
      BY <2>2, <3>1
    <3>. QED
      BY <1>1, <3>2, <3>3, VoiceStays DEF Quiet
  <2>. QED
    BY <2>1, <2>2
<1>. QED
  BY <1>2, <1>3, <1>4

(* One that leaves the players alone.                                        *)
LEMMA Walks ==
  ASSUME MusicIInv, NEW p \in AtWork, Quiet, player' = player,
         proc' \in [Proc -> WorkType], \A q \in Proc \ {p} : proc'[q] = proc[q], InHand(proc'[p]),
         Held(proc'[p]) \in Track => Held(proc'[p]) = Held(proc[p]),
         lava' \in [track : 0..MaxTracks, set : SetType], link # "ready" => lava' = lava,
         doubt \subseteq doubt', doubt' \subseteq {"overlap", "refused", "unheard", "kept"},
         sent \subseteq sent', sent' \subseteq VoiceMsg,
         proc[p].pc = "resync" => VoiceKnown',
         \/ proc'[p].pc = "idle"
         \/ /\ proc'[p].pc # "voice" /\ proc'[p].op = proc[p].op /\ proc'[p].n = proc[p].n /\ proc'[p].alone = proc[p].alone
            /\ proc'[p].pc \in {"destroy", "clear"} => proc[p].pc = "destroy",
         doubt' = {} /\ Phase(proc[p]) =>
            IF proc'[p].pc = "idle" THEN Agree' /\ Rest' ELSE Phase(proc[p])'
  PROVE  MusicIInv'
<1>1. MusicTyped /\ Singly /\ Issued /\ Steady /\ p \in Proc /\ proc[p].n \in 1..MaxPlayers
  BY AtWorkHas DEF MusicIInv
<1>2. player \in [1..MaxPlayers -> PlayerType]
  BY <1>1 DEF MusicTyped
<1>3. MusicTyped' /\ SweptIsEmpty' /\ VoiceKnown'
  <2>. PICK n : n = proc[p].n
    OBVIOUS
  <2>. QED
    BY <1>2, Acts
<1>4. Singly' /\ Issued'
  BY <1>1, SinglyStays DEF SameTracks, Quiet
<1>5. Steady'
  <2>1. proc[p].op = "stop" /\ proc'[p].pc \in {"destroy", "clear"} /\ Alone(p) => Current' = NoTrack
    BY DEF Alone, Current, Quiet
  <2>2. link' # "ready" => lava'.track = NoTrack
    BY <1>1 DEF Steady, Quiet
  <2>. QED
    BY <1>1, <2>1, <2>2, GoesOn DEF Quiet
<1>. QED
  BY <1>1, <1>3, <1>4, <1>5 DEF MusicIInv

---------------------------------------------------------------------------
(* The steps of a goroutine at work.                                         *)
LEMMA WorksAt ==
  ASSUME MusicIInv, NEW p \in Proc, proc[p].pc \notin {"idle", "voice"}
  PROVE  /\ p \in AtWork /\ MusicTyped /\ Singly /\ Issued /\ SweptIsEmpty /\ VoiceKnown /\ Steady
         /\ proc[p] \in WorkType /\ InHand(proc[p]) /\ proc[p].n \in 1..MaxPlayers
         /\ player[proc[p].n] \in PlayerType /\ player[proc[p].n].queue \in Seq(Track)
         /\ player \in [1..MaxPlayers -> PlayerType] /\ lava \in [track : 0..MaxTracks, set : SetType]
         /\ doubt \subseteq {"overlap", "refused", "unheard", "kept"} /\ sent \subseteq VoiceMsg
<1>1. p \in AtWork
  BY DEF AtWork
<1>. QED
  BY <1>1, AtWorkHas DEF MusicIInv, MusicTyped

LEMMA IdleInHand == InHand(Idle) /\ Held(Idle) = NoTrack /\ Held(Idle) \notin Track
BY IdleTyped, MusicNumbers DEF InHand, Held

LEMMA PlayPopKeeps ==
  ASSUME MusicIInv, NEW p \in Proc, PlayPop(p)
  PROVE  MusicIInv'
<1>0. proc[p].pc = "pop" /\ Untold
  BY DEF PlayPop, Untold
<1>1. /\ p \in AtWork /\ MusicTyped /\ Singly /\ proc[p] \in WorkType /\ InHand(proc[p]) /\ SweptIsEmpty
      /\ proc[p].n \in 1..MaxPlayers /\ player[proc[p].n].queue \in Seq(Track) /\ player \in [1..MaxPlayers -> PlayerType]
      /\ lava \in [track : 0..MaxTracks, set : SetType] /\ doubt \subseteq {"overlap", "refused", "unheard", "kept"}
      /\ sent \subseteq VoiceMsg
  BY <1>0, WorksAt
<1>. PICK q \in Seq(Track) : q = player[proc[p].n].queue
  BY <1>1
<1>2. CASE q = <<>>
  <2>1. player' = player /\ proc' = [proc EXCEPT ![p].pc = "read", ![p].track = Blank]
    BY <1>2 DEF PlayPop
  <2>2. Blank \in 0..Blank /\ Blank \notin Track /\ Blank # NoTrack
    BY MusicNumbers
  <2>3. WorkBut(p, {"pc", "track"}) /\ proc'[p].pc = "read" /\ proc'[p].track = Blank
    BY <1>1, <2>1, <2>2, PickedIs
  <2>4. /\ proc' \in [Proc -> WorkType] /\ \A r \in Proc \ {p} : proc'[r] = proc[r]
        /\ proc'[p].op = proc[p].op /\ proc'[p].n = proc[p].n /\ proc'[p].alone = proc[p].alone
    BY <2>3 DEF WorkBut, WorkField
  <2>5. InHand(proc'[p])
    BY <1>0, <1>1, <2>2, <2>3, <2>4 DEF InHand
  <2>6. ~(Held(proc'[p]) \in Track)
    BY <2>2, <2>3, MusicNumbers DEF Held
  <2>7. Phase(proc[p]) => Phase(proc[p])'
    BY <2>1, <2>3, <2>4, <1>0 DEF Phase, Untold
  <2>. QED
    BY <1>0, <1>1, <2>1, <2>3, <2>4, <2>5, <2>6, <2>7, Walks DEF Quiet, Untold
<1>3. CASE q # <<>>
  <2>1. proc[p].op # "resync" /\ Draws(p, q)
    BY <1>0, <1>1, <1>3 DEF PlayPop, Draws, InHand
  <2>2. Drawn(p, q)
    <3>1. Once(q)
      BY <1>1 DEF Singly, QueuedOnce, Once
    <3>. QED
      BY <1>1, <1>3, <3>1 DEF Drawn, Within, SweptIsEmpty
  <2>. QED
    BY <1>1, <1>3, <2>1, <2>2, Takes
<1>. QED
  BY <1>2, <1>3

LEMMA SkipPopKeeps ==
  ASSUME MusicIInv, NEW p \in Proc, SkipPop(p)
  PROVE  MusicIInv'
<1>0. proc[p].pc = "skip" /\ Untold
  BY DEF SkipPop, Untold
<1>1. /\ p \in AtWork /\ MusicTyped /\ Singly /\ proc[p] \in WorkType /\ InHand(proc[p]) /\ SweptIsEmpty
      /\ proc[p].n \in 1..MaxPlayers /\ player[proc[p].n].queue \in Seq(Track) /\ player \in [1..MaxPlayers -> PlayerType]
      /\ lava \in [track : 0..MaxTracks, set : SetType] /\ doubt \subseteq {"overlap", "refused", "unheard", "kept"}
      /\ sent \subseteq VoiceMsg
  BY <1>0, WorksAt
<1>. PICK q \in Seq(Track) : q = player[proc[p].n].queue
  BY <1>1
<1>2. CASE q = <<>>
  <2>1. player' = player /\ Goto(p, "forget")
    BY <1>2 DEF SkipPop
  <2>3. WorkBut(p, {"pc"}) /\ proc'[p].pc = "forget"
    BY <1>1, <2>1, GotoIs DEF Place
  <2>4. /\ proc' \in [Proc -> WorkType] /\ \A r \in Proc \ {p} : proc'[r] = proc[r]
        /\ proc'[p].op = proc[p].op /\ proc'[p].n = proc[p].n /\ proc'[p].alone = proc[p].alone /\ proc'[p].track = proc[p].track
    BY <2>3 DEF WorkBut, WorkField
  <2>5. InHand(proc'[p])
    BY <1>0, <1>1, <2>3, <2>4 DEF InHand
  <2>6. Held(proc'[p]) = Held(proc[p])
    BY <2>4 DEF Held
  <2>7. Phase(proc[p]) => Phase(proc[p])'
    BY <1>2, <2>1, <2>3, <2>4, <1>0 DEF Phase, Untold
  <2>. QED
    BY <1>0, <1>1, <2>1, <2>3, <2>4, <2>5, <2>6, <2>7, Walks DEF Quiet, Untold
<1>3. CASE q # <<>>
  <2>1. proc[p].op # "resync" /\ Draws(p, q)
    BY <1>0, <1>1, <1>3 DEF SkipPop, Draws, InHand
  <2>2. Drawn(p, q)
    <3>1. Once(q)
      BY <1>1 DEF Singly, QueuedOnce, Once
    <3>. QED
      BY <1>1, <1>3, <3>1 DEF Drawn, Within, SweptIsEmpty
  <2>. QED
    BY <1>1, <1>3, <2>1, <2>2, Takes
<1>. QED
  BY <1>2, <1>3

LEMMA StartReadKeeps ==
  ASSUME MusicIInv, NEW p \in Proc, StartRead(p)
  PROVE  MusicIInv'
<1>0. proc[p].pc = "read" /\ Untold /\ player' = player
  BY DEF StartRead, Untold
<1>1. /\ p \in AtWork /\ MusicTyped /\ proc[p] \in WorkType /\ InHand(proc[p])
      /\ proc[p].n \in 1..MaxPlayers /\ player[proc[p].n] \in PlayerType
      /\ lava \in [track : 0..MaxTracks, set : SetType] /\ doubt \subseteq {"overlap", "refused", "unheard", "kept"}
      /\ sent \subseteq VoiceMsg
  BY <1>0, WorksAt
<1>. PICK v \in SetType : v = player[proc[p].n].set
  BY <1>1, PlayerParts
<1>2. proc' = [proc EXCEPT ![p].pc = "push", ![p].set = v]
  BY DEF StartRead, StartSettings
<1>3. WorkBut(p, {"pc", "set"}) /\ proc'[p].pc = "push" /\ proc'[p].set = v
  BY <1>1, <1>2, ReadIs
<1>4. /\ proc' \in [Proc -> WorkType] /\ \A r \in Proc \ {p} : proc'[r] = proc[r]
      /\ proc'[p].op = proc[p].op /\ proc'[p].n = proc[p].n /\ proc'[p].alone = proc[p].alone /\ proc'[p].track = proc[p].track
  BY <1>3 DEF WorkBut, WorkField
<1>5. InHand(proc'[p])
  BY <1>0, <1>1, <1>3, <1>4 DEF InHand
<1>6. Held(proc'[p]) = Held(proc[p])
  BY <1>4 DEF Held
<1>7. Phase(proc[p]) => Phase(proc[p])'
  BY <1>0, <1>3, <1>4 DEF Phase, Untold
<1>. QED
  BY <1>0, <1>1, <1>3, <1>4, <1>5, <1>6, <1>7, Walks DEF Quiet, Untold

(* What becomes of an update of Lavalink's player that goes on in one way    *)
(* and ends in another.                                                      *)
Told(track, set) == link = "ready" /\ track # Blank /\ lava' = [track |-> track, set |-> set]
Refused(track, set) ==
    /\ lava' = lava \/ Told(track, set)
    /\ doubt \subseteq doubt' /\ doubt' # {} /\ doubt' \subseteq doubt \cup {"refused", "unheard"}

LEMMA StartPushKeeps ==
  ASSUME MusicIInv, NEW p \in Proc, StartPush(p)
  PROVE  MusicIInv'
<1>0. proc[p].pc = "push" /\ Quiet /\ player' = player /\ sent' = sent
  BY DEF StartPush, Quiet
<1>1. /\ p \in AtWork /\ MusicTyped /\ proc[p] \in WorkType /\ InHand(proc[p])
      /\ lava \in [track : 0..MaxTracks, set : SetType] /\ doubt \subseteq {"overlap", "refused", "unheard", "kept"}
      /\ sent \subseteq VoiceMsg
  BY <1>0, WorksAt
<1>2. proc[p].set \in SetType /\ proc[p].track \in 0..Blank
  BY <1>1, WorkParts
<1>3. \/ Goto(p, "show") /\ Told(proc[p].track, proc[p].set) /\ doubt' = doubt
      \/ Done(p) /\ Refused(proc[p].track, proc[p].set)
  BY DEF StartPush, Update, Told, Refused
<1>4. ASSUME Told(proc[p].track, proc[p].set) PROVE lava' \in [track : 0..MaxTracks, set : SetType] /\ link = "ready"
  <2>1. proc[p].track \in 0..MaxTracks
    BY <1>2, <1>4, MusicNumbers DEF Told
  <2>. QED
    BY <1>2, <1>4, <2>1 DEF Told
<1>5. CASE Goto(p, "show") /\ Told(proc[p].track, proc[p].set) /\ doubt' = doubt
  <2>1. WorkBut(p, {"pc"}) /\ proc'[p].pc = "show"
    BY <1>1, <1>5, GotoIs DEF Place
  <2>2. /\ proc' \in [Proc -> WorkType] /\ \A r \in Proc \ {p} : proc'[r] = proc[r]
        /\ proc'[p].op = proc[p].op /\ proc'[p].n = proc[p].n /\ proc'[p].alone = proc[p].alone
        /\ proc'[p].track = proc[p].track /\ proc'[p].set = proc[p].set
    BY <2>1 DEF WorkBut, WorkField
  <2>3. InHand(proc'[p])
    BY <1>0, <1>1, <1>5, <2>1, <2>2 DEF InHand, Told
  <2>4. Held(proc'[p]) = Held(proc[p])
    BY <2>2 DEF Held
  <2>5. Phase(proc[p]) => Phase(proc[p])'
    BY <1>0, <1>5, <2>1, <2>2 DEF Phase, Quiet, Told
  <2>. QED
    BY <1>0, <1>1, <1>4, <1>5, <2>1, <2>2, <2>3, <2>4, <2>5, Walks
<1>6. CASE Done(p) /\ Refused(proc[p].track, proc[p].set)
  <2>1. WorkBut(p, WorkField) /\ proc'[p] = Idle
    BY <1>1, <1>6, DoneIs
  <2>2. proc' \in [Proc -> WorkType] /\ \A r \in Proc \ {p} : proc'[r] = proc[r]
    BY <2>1 DEF WorkBut
  <2>3. lava' \in [track : 0..MaxTracks, set : SetType] /\ (link # "ready" => lava' = lava)
    BY <1>1, <1>4, <1>6 DEF Refused
  <2>4. doubt \subseteq doubt' /\ doubt' \subseteq {"overlap", "refused", "unheard", "kept"} /\ doubt' # {}
    BY <1>1, <1>6 DEF Refused
  <2>. QED
    BY <1>0, <1>1, <2>1, <2>2, <2>3, <2>4, IdleInHand, IdleTyped, Walks
<1>. QED
  BY <1>3, <1>5, <1>6

LEMMA SetPushKeeps ==
  ASSUME MusicIInv, NEW p \in Proc, SetPush(p)
  PROVE  MusicIInv'
<1>0. proc[p].pc = "set" /\ Quiet /\ player' = player /\ sent' = sent
  BY DEF SetPush, Quiet
<1>1. /\ p \in AtWork /\ MusicTyped /\ proc[p] \in WorkType /\ InHand(proc[p])
      /\ lava \in [track : 0..MaxTracks, set : SetType] /\ doubt \subseteq {"overlap", "refused", "unheard", "kept"}
      /\ sent \subseteq VoiceMsg
  BY <1>0, WorksAt
<1>2. proc[p].set \in SetType /\ proc[p].key \in Setting /\ lava.set \in SetType /\ lava.track \in 0..MaxTracks
  BY <1>1, WorkParts
<1>. PICK v : v = [lava.set EXCEPT ![proc[p].key] = proc[p].set[proc[p].key]]
  OBVIOUS
<1>3. v \in SetType
  BY <1>2 DEF SetType
<1>4. \/ Goto(p, "store") /\ Told(lava.track, v) /\ doubt' = doubt
      \/ Done(p) /\ Refused(lava.track, v)
  BY DEF SetPush, Update, Told, Refused
<1>5. Told(lava.track, v) => lava' \in [track : 0..MaxTracks, set : SetType] /\ link = "ready"
  BY <1>2, <1>3 DEF Told
<1>6. CASE Goto(p, "store") /\ Told(lava.track, v) /\ doubt' = doubt
  <2>1. WorkBut(p, {"pc"}) /\ proc'[p].pc = "store"
    BY <1>1, <1>6, GotoIs DEF Place
  <2>2. /\ proc' \in [Proc -> WorkType] /\ \A r \in Proc \ {p} : proc'[r] = proc[r]
        /\ proc'[p].op = proc[p].op /\ proc'[p].n = proc[p].n /\ proc'[p].alone = proc[p].alone
        /\ proc'[p].track = proc[p].track /\ proc'[p].set = proc[p].set /\ proc'[p].key = proc[p].key
    BY <2>1 DEF WorkBut, WorkField
  <2>3. InHand(proc'[p])
    BY <1>0, <1>1, <2>1, <2>2 DEF InHand
  <2>4. Held(proc'[p]) = Held(proc[p])
    BY <2>2 DEF Held
  <2>5. Phase(proc[p]) => Phase(proc[p])'
    BY <1>0, <1>6, <2>1, <2>2 DEF Phase, Quiet, Told, Agree, Current, Rest
  <2>. QED
    BY <1>0, <1>1, <1>5, <1>6, <2>1, <2>2, <2>3, <2>4, <2>5, Walks
<1>7. CASE Done(p) /\ Refused(lava.track, v)
  <2>1. WorkBut(p, WorkField) /\ proc'[p] = Idle
    BY <1>1, <1>7, DoneIs
  <2>2. proc' \in [Proc -> WorkType] /\ \A r \in Proc \ {p} : proc'[r] = proc[r]
    BY <2>1 DEF WorkBut
  <2>3. lava' \in [track : 0..MaxTracks, set : SetType] /\ (link # "ready" => lava' = lava)
    BY <1>1, <1>5, <1>7 DEF Refused
  <2>4. doubt \subseteq doubt' /\ doubt' \subseteq {"overlap", "refused", "unheard", "kept"} /\ doubt' # {}
    BY <1>1, <1>7 DEF Refused
  <2>. QED
    BY <1>0, <1>1, <2>1, <2>2, <2>3, <2>4, IdleInHand, IdleTyped, Walks
<1>. QED
  BY <1>4, <1>6, <1>7

LEMMA ResyncPushKeeps ==
  ASSUME MusicIInv, NEW p \in Proc, ResyncPush(p)
  PROVE  MusicIInv'
<1>0. proc[p].pc = "repeat" /\ Quiet /\ player' = player /\ sent' = sent
  BY DEF ResyncPush, Quiet
<1>1. /\ p \in AtWork /\ MusicTyped /\ proc[p] \in WorkType /\ InHand(proc[p])
      /\ lava \in [track : 0..MaxTracks, set : SetType] /\ doubt \subseteq {"overlap", "refused", "unheard", "kept"}
      /\ sent \subseteq VoiceMsg
  BY <1>0, WorksAt
<1>2. proc[p].set \in SetType /\ proc[p].track \in 0..Blank
  BY <1>1, WorkParts
<1>3. /\ Done(p)
      /\ \/ Told(proc[p].track, proc[p].set) /\ doubt' = doubt
         \/ Refused(proc[p].track, proc[p].set)
  BY DEF ResyncPush, Update, Told, Refused
<1>4. ASSUME Told(proc[p].track, proc[p].set) PROVE lava' \in [track : 0..MaxTracks, set : SetType] /\ link = "ready"
  <2>1. proc[p].track \in 0..MaxTracks
    BY <1>2, <1>4, MusicNumbers DEF Told
  <2>. QED
    BY <1>2, <1>4, <2>1 DEF Told
<1>5. WorkBut(p, WorkField) /\ proc'[p] = Idle
  BY <1>1, <1>3, DoneIs
<1>6. proc' \in [Proc -> WorkType] /\ \A r \in Proc \ {p} : proc'[r] = proc[r]
  BY <1>5 DEF WorkBut
<1>7. lava' \in [track : 0..MaxTracks, set : SetType] /\ (link # "ready" => lava' = lava)
  BY <1>1, <1>3, <1>4 DEF Refused
<1>8. doubt \subseteq doubt' /\ doubt' \subseteq {"overlap", "refused", "unheard", "kept"}
  BY <1>1, <1>3 DEF Refused
<1>9. doubt' = {} /\ Phase(proc[p]) => Agree' /\ Rest'
  <2>. SUFFICES ASSUME doubt' = {}, Phase(proc[p]) PROVE Agree' /\ Rest'
    OBVIOUS
  <2>1. Told(proc[p].track, proc[p].set)
    BY <1>3 DEF Refused
  <2>. QED
    BY <1>0, <2>1 DEF Phase, Quiet, Told, Agree, Current, Rest
<1>. QED
  BY <1>0, <1>1, <1>5, <1>6, <1>7, <1>8, <1>9, IdleInHand, IdleTyped, Walks

LEMMA StopDestroyKeeps ==
  ASSUME MusicIInv, NEW p \in Proc, StopDestroy(p)
  PROVE  MusicIInv'
<1>0. proc[p].pc = "destroy" /\ Quiet /\ player' = player /\ sent' = sent
  BY DEF StopDestroy, Quiet
<1>1. /\ p \in AtWork /\ MusicTyped /\ proc[p] \in WorkType /\ InHand(proc[p])
      /\ lava \in [track : 0..MaxTracks, set : SetType] /\ doubt \subseteq {"overlap", "refused", "unheard", "kept"}
      /\ sent \subseteq VoiceMsg
  BY <1>0, WorksAt
<1>2. \/ link = "ready" /\ lava' = Silent /\ doubt' = doubt
      \/ doubt' = doubt \cup {"kept"} /\ lava' = lava
  BY DEF StopDestroy
<1>3. /\ lava' \in [track : 0..MaxTracks, set : SetType] /\ (link # "ready" => lava' = lava)
      /\ doubt \subseteq doubt' /\ doubt' \subseteq {"overlap", "refused", "unheard", "kept"}
      /\ doubt' = {} => link = "ready" /\ lava'.track = NoTrack
  BY <1>1, <1>2, SilentTyped
<1>4. CASE proc[p].op = "stop"
  <2>0. Goto(p, "clear")
    BY <1>4 DEF StopDestroy
  <2>1. WorkBut(p, {"pc"}) /\ proc'[p].pc = "clear"
    BY <1>1, <2>0, GotoIs DEF Place
  <2>2. /\ proc' \in [Proc -> WorkType] /\ \A r \in Proc \ {p} : proc'[r] = proc[r]
        /\ proc'[p].op = proc[p].op /\ proc'[p].n = proc[p].n /\ proc'[p].alone = proc[p].alone
        /\ proc'[p].track = proc[p].track
    BY <2>1 DEF WorkBut, WorkField
  <2>3. InHand(proc'[p])
    BY <1>0, <1>1, <1>4, <2>1, <2>2 DEF InHand
  <2>4. Held(proc'[p]) = Held(proc[p])
    BY <2>2 DEF Held
  <2>5. doubt' = {} /\ Phase(proc[p]) => Phase(proc[p])'
    BY <1>0, <1>3, <2>1, <2>2 DEF Phase, Quiet, Current
  <2>. QED
    BY <1>0, <1>1, <1>3, <2>1, <2>2, <2>3, <2>4, <2>5, Walks
<1>5. CASE proc[p].op # "stop"
  <2>0. Done(p) /\ proc[p].op = "skip"
    BY <1>0, <1>1, <1>5 DEF StopDestroy, InHand
  <2>1. WorkBut(p, WorkField) /\ proc'[p] = Idle
    BY <1>1, <2>0, DoneIs
  <2>2. proc' \in [Proc -> WorkType] /\ \A r \in Proc \ {p} : proc'[r] = proc[r]
    BY <2>1 DEF WorkBut
  <2>3. doubt' = {} /\ Phase(proc[p]) => Agree' /\ Rest'
    BY <1>0, <1>3, <2>0 DEF Phase, Quiet, Agree, Current, Rest
  <2>. QED
    BY <1>0, <1>1, <1>3, <2>1, <2>2, <2>3, IdleInHand, IdleTyped, Walks
<1>. QED
  BY <1>4, <1>5

(* Whatever order the shuffle leaves, it is one of the same tracks.          *)
LEMMA Ordered ==
  ASSUME NEW q \in Seq(Track), NEW shuffle, NEW r \in Orders(q, shuffle), Once(q)
  PROVE  /\ r \in Seq(Track)
         /\ Once(r)
         /\ Len(r) = 0 => Len(q) = 0
         /\ Len(q) \in {0, 1} => Len(r) = Len(q)
         /\ \A i \in 1..Len(r) : Within(r[i], q)
<1>1. CASE ~shuffle
  <2>1. r = q
    BY <1>1 DEF Orders
  <2>2. \A i \in 1..Len(q) : Within(q[i], q)
    BY DEF Within
  <2>. QED
    BY <2>1, <2>2
<1>2. CASE shuffle
  <2>. PICK S : S = Range(q)
    OBVIOUS
  <2>. PICK k : k = Cardinality(S)
    OBVIOUS
  <2>1. /\ S \in SUBSET Track /\ \A t \in S : Within(t, q)
        /\ S = {} <=> q = <<>>
        /\ Len(q) = 1 => S = {q[1]}
    BY DEF Range, Within
  <2>2. IsFiniteSet(Track)
    BY FS_Interval, MusicNumbers
  <2>3. IsFiniteSet(S) /\ k \in Nat
    BY <2>1, <2>2, FS_Subset, FS_CardinalityType
  <2>4. (k = 0 <=> S = {}) /\ (Len(q) = 1 => k = 1)
    BY <2>1, <2>3, FS_EmptySet, FS_Singleton
  <2>5. r \in [1..k -> S] /\ \A i, j \in 1..k : i # j => r[i] # r[j]
    BY <1>2 DEF Orders, SetToSeqs
  <2>6. r \in Seq(Track) /\ Len(r) = k
    <3>1. r \in [1..k -> Track]
      BY <2>1, <2>5
    <3>. QED
      BY <2>3, <3>1
  <2>7. r = <<>> <=> k = 0
    BY <2>6
  <2>8. \A i \in 1..k : r[i] \in S
    BY <2>5
  <2>. QED
    BY <2>1, <2>4, <2>5, <2>6, <2>7, <2>8 DEF Once
<1>. QED
  BY <1>1, <1>2

LEMMA Looped ==
  ASSUME NEW q \in Seq(Track), NEW t \in Track, Once(q), ~Within(t, q)
  PROVE  /\ Append(q, t) \in Seq(Track) /\ Once(Append(q, t)) /\ Len(Append(q, t)) = Len(q) + 1
         /\ \A u : Within(u, Append(q, t)) => u = t \/ Within(u, q)
         /\ q \o <<t>> = Append(q, t) /\ q \o <<>> = q
<1>. PICK r : r = Append(q, t)
  OBVIOUS
<1>1. /\ r \in Seq(Track) /\ Len(r) = Len(q) + 1 /\ Len(q) \in Nat
      /\ \A i \in 1..Len(q) : r[i] = q[i]
      /\ r[Len(q) + 1] = t
  OBVIOUS
<1>2. \A i \in 1..Len(r) : i \in 1..Len(q) \/ i = Len(q) + 1
  BY <1>1
<1>3. \A i \in 1..Len(q) : q[i] # t
  BY DEF Within
<1>4. Once(r)
  BY <1>1, <1>2, <1>3 DEF Once
<1>5. \A u : Within(u, r) => u = t \/ Within(u, q)
  BY <1>1, <1>2 DEF Within
<1>6. q \o <<t>> = Append(q, t) /\ q \o <<>> = q
  OBVIOUS
<1>. QED
  BY <1>1, <1>4, <1>5, <1>6

LEMMA EndAdvanceKeeps ==
  ASSUME MusicIInv, NEW p \in Proc, EndAdvance(p)
  PROVE  MusicIInv'
<1>0. proc[p].pc = "advance" /\ Untold
  BY DEF EndAdvance, Untold
<1>1. /\ p \in AtWork /\ MusicTyped /\ Singly /\ proc[p] \in WorkType /\ InHand(proc[p]) /\ SweptIsEmpty
      /\ proc[p].n \in 1..MaxPlayers /\ player[proc[p].n].queue \in Seq(Track) /\ player \in [1..MaxPlayers -> PlayerType]
      /\ lava \in [track : 0..MaxTracks, set : SetType] /\ doubt \subseteq {"overlap", "refused", "unheard", "kept"}
      /\ sent \subseteq VoiceMsg
  BY <1>0, WorksAt
<1>10. PICK waiting \in Seq(Track) : waiting = player[proc[p].n].queue
  BY <1>1
<1>2. proc[p].op # "resync" /\ proc[p].track \in Track
  <2>1. proc[p].track \in 0..Blank
    BY <1>1, WorkParts
  <2>. QED
    BY <1>0, <1>1, <2>1, MusicNumbers DEF InHand
<1>11. PICK t \in Track : t = proc[p].track
  BY <1>2
<1>3. Held(proc[p]) = t /\ ~Within(t, waiting) /\ Once(waiting)
  BY <1>1, <1>2, <1>10, <1>11 DEF Held, Singly, HeldOut, QueuedOnce, Once, Within
<1>9. \E q \in Seq(Track) :
         /\ q = waiting \o (IF proc[p].loop = "queue" THEN <<t>> ELSE <<>>)
         /\ Once(q) /\ \A u : Within(u, q) => u = t \/ Within(u, waiting)
         /\ waiting = <<>> => q = <<>> \/ Len(q) = 1
         /\ q = <<>> => waiting = <<>>
  <2>1. CASE proc[p].loop = "queue"
    <3>1. waiting \o (IF proc[p].loop = "queue" THEN <<t>> ELSE <<>>) = Append(waiting, t)
      BY <2>1, <1>3, Looped
    <3>2. /\ Append(waiting, t) \in Seq(Track) /\ Once(Append(waiting, t))
          /\ \A u : Within(u, Append(waiting, t)) => u = t \/ Within(u, waiting)
          /\ Len(Append(waiting, t)) = Len(waiting) + 1
      BY <1>3, Looped
    <3>3. Append(waiting, t) # <<>> /\ (waiting = <<>> => Len(Append(waiting, t)) = 1)
      OBVIOUS
    <3>. QED
      BY <3>1, <3>2, <3>3
  <2>2. CASE proc[p].loop # "queue"
    <3>1. waiting \o (IF proc[p].loop = "queue" THEN <<t>> ELSE <<>>) = waiting
      BY <2>2, <1>3, Looped
    <3>. QED
      BY <3>1, <1>3
  <2>. QED
    BY <2>1, <2>2
<1>12. PICK q \in Seq(Track) :
         /\ q = waiting \o (IF proc[p].loop = "queue" THEN <<t>> ELSE <<>>)
         /\ Once(q) /\ \A u : Within(u, q) => u = t \/ Within(u, waiting)
         /\ waiting = <<>> => q = <<>> \/ Len(q) = 1
         /\ q = <<>> => waiting = <<>>
  BY <1>9
<1>13. PICK shuffle : shuffle = player[proc[p].n].shuffle
  OBVIOUS
<1>5. PICK r \in Orders(q, shuffle) :
         IF r = <<>> THEN Done(p) /\ player' = player
         ELSE /\ player' = Set(proc[p].n, "queue", Tail(r))
              /\ proc' = [proc EXCEPT ![p].pc = "read", ![p].track = Head(r)]
  BY <1>10, <1>11, <1>12, <1>13 DEF EndAdvance
<1>6. /\ r \in Seq(Track) /\ Once(r) /\ \A i \in 1..Len(r) : Within(r[i], q)
      /\ (r = <<>> => q = <<>>) /\ (q = <<>> => r = <<>>)
      /\ (Len(q) = 1 => Len(r) = 1)
  <2>1. /\ r \in Seq(Track) /\ Once(r)
        /\ Len(r) = 0 => Len(q) = 0
        /\ Len(q) \in {0, 1} => Len(r) = Len(q)
        /\ \A i \in 1..Len(r) : Within(r[i], q)
    BY <1>12, Ordered
  <2>2. \A s \in Seq(Track) : s = <<>> <=> Len(s) = 0
    OBVIOUS
  <2>. QED
    BY <2>1, <2>2
<1>7. CASE r = <<>>
  <2>1. WorkBut(p, WorkField) /\ proc'[p] = Idle /\ player' = player
    BY <1>1, <1>5, <1>7, DoneIs
  <2>2. proc' \in [Proc -> WorkType] /\ \A o \in Proc \ {p} : proc'[o] = proc[o]
    BY <2>1 DEF WorkBut
  <2>3. waiting = <<>>
    BY <1>6, <1>7, <1>12
  <2>4. Phase(proc[p]) => Agree' /\ Rest'
    BY <1>0, <1>10, <2>1, <2>3 DEF Phase, Untold, Agree, Current, Rest
  <2>. QED
    BY <1>0, <1>1, <2>1, <2>2, <2>4, IdleInHand, IdleTyped, Walks DEF Quiet, Untold
<1>8. CASE r # <<>>
  <2>1. Draws(p, r)
    BY <1>0, <1>5, <1>8 DEF Draws
  <2>2. proc[p].n # live => Len(r) = 1
    BY <1>1, <1>6, <1>8, <1>10, <1>12 DEF SweptIsEmpty
  <2>3. Drawn(p, r)
    BY <1>3, <1>6, <1>10, <1>12, <2>2 DEF Drawn
  <2>. QED
    BY <1>1, <1>2, <1>6, <1>8, <2>1, <2>3, Takes
<1>. QED
  BY <1>7, <1>8

LEMMA ResyncVoiceKeeps ==
  ASSUME MusicIInv, NEW p \in Proc, ResyncVoice(p)
  PROVE  MusicIInv'
<1>0. proc[p].pc = "resync" /\ Quiet /\ player' = player /\ lava' = lava /\ doubt' = doubt
  BY DEF ResyncVoice, Quiet
<1>1. /\ p \in AtWork /\ MusicTyped /\ proc[p] \in WorkType /\ InHand(proc[p]) /\ VoiceKnown
      /\ lava \in [track : 0..MaxTracks, set : SetType] /\ doubt \subseteq {"overlap", "refused", "unheard", "kept"}
      /\ sent \subseteq VoiceMsg
  BY <1>0, WorksAt
<1>2. proc[p].session \in 0..MaxVoice /\ proc[p].token \in 0..MaxVoice
  BY <1>1, WorkParts
<1>3. /\ sent \subseteq sent' /\ sent' \subseteq VoiceMsg
      /\ \A s, t : Tried(sent, s, t) => Tried(sent', s, t)
      /\ proc[p].session # 0 /\ proc[p].token # 0 /\ link # "down" => Tried(sent', proc[p].session, proc[p].token)
  BY <1>1, <1>2, VoiceTries DEF ResyncVoice
<1>4. ASSUME \A q \in Proc \ {p} : proc'[q] = proc[q] PROVE VoiceKnown'
  <2> SUFFICES ASSUME live # 0, player[live].session # 0, player[live].token # 0, link = "ready"
               PROVE  \/ Tried(sent', player[live].session, player[live].token)
                      \/ \E q \in Proc : /\ proc'[q].pc \in {"voice", "resync"}
                                         /\ proc'[q].session = player[live].session /\ proc'[q].token = player[live].token
    BY <1>0 DEF VoiceKnown, Quiet
  <2>1. CASE Tried(sent, player[live].session, player[live].token)
    BY <1>3, <2>1
  <2>2. ASSUME NEW q \in Proc, proc[q].pc \in {"voice", "resync"},
               proc[q].session = player[live].session, proc[q].token = player[live].token
        PROVE  \/ Tried(sent', player[live].session, player[live].token)
               \/ \E o \in Proc : /\ proc'[o].pc \in {"voice", "resync"}
                                  /\ proc'[o].session = player[live].session /\ proc'[o].token = player[live].token
    BY <1>3, <1>4, <2>2
  <2>. QED
    BY <1>1, <2>1, <2>2 DEF VoiceKnown
<1>5. CASE proc[p].track = NoTrack \/ link = "down"
  <2>1. Done(p)
    BY <1>5 DEF ResyncVoice
  <2>2. WorkBut(p, WorkField) /\ proc'[p] = Idle
    BY <1>1, <2>1, DoneIs
  <2>3. proc' \in [Proc -> WorkType] /\ \A r \in Proc \ {p} : proc'[r] = proc[r]
    BY <2>2 DEF WorkBut
  <2>4. Phase(proc[p]) => Agree' /\ Rest'
    BY <1>0, <1>5 DEF Phase, Quiet, Agree, Current, Rest
  <2>. QED
    BY <1>0, <1>1, <1>3, <1>4, <2>2, <2>3, <2>4, IdleInHand, IdleTyped, Walks
<1>6. CASE ~(proc[p].track = NoTrack \/ link = "down")
  <2>1. Goto(p, "repeat")
    BY <1>6 DEF ResyncVoice
  <2>2. WorkBut(p, {"pc"}) /\ proc'[p].pc = "repeat"
    BY <1>1, <2>1, GotoIs DEF Place
  <2>3. /\ proc' \in [Proc -> WorkType] /\ \A r \in Proc \ {p} : proc'[r] = proc[r]
        /\ proc'[p].op = proc[p].op /\ proc'[p].n = proc[p].n /\ proc'[p].alone = proc[p].alone
        /\ proc'[p].track = proc[p].track /\ proc'[p].set = proc[p].set
    BY <2>2 DEF WorkBut, WorkField
  <2>4. InHand(proc'[p])
    BY <1>0, <1>1, <2>2, <2>3 DEF InHand
  <2>5. Held(proc'[p]) = Held(proc[p])
    BY <2>3 DEF Held
  <2>6. Phase(proc[p]) => Phase(proc[p])'
    BY <1>0, <2>2, <2>3 DEF Phase, Quiet, Current, Rest
  <2>. QED
    BY <1>0, <1>1, <1>3, <1>4, <2>2, <2>3, <2>4, <2>5, <2>6, Walks
<1>. QED
  BY <1>5, <1>6

LEMMA SetStoreKeeps ==
  ASSUME MusicIInv, NEW p \in Proc, SetStore(p)
  PROVE  MusicIInv'
<1>0. proc[p].pc = "store" /\ Quiet /\ lava' = lava /\ doubt' = doubt /\ sent' = sent
  BY DEF SetStore, Quiet
<1>1. /\ p \in AtWork /\ MusicTyped /\ Singly /\ Issued /\ Steady /\ proc[p] \in WorkType /\ InHand(proc[p])
      /\ lava \in [track : 0..MaxTracks, set : SetType] /\ doubt \subseteq {"overlap", "refused", "unheard", "kept"}
      /\ sent \subseteq VoiceMsg
  BY <1>0, WorksAt
<1>2. PICK n \in 1..MaxPlayers : n = proc[p].n
  BY <1>0, WorksAt
<1>3. PICK key \in Setting : key = proc[p].key
  BY <1>1, WorkParts
<1>4. PICK v \in BOOLEAN : v = proc[p].set[key]
  <2>1. proc[p].set \in SetType
    BY <1>1, WorkParts
  <2>. QED
    BY <2>1 DEF SetType
<1>5. PlayerBut(n, {"set"}) /\ player'[n].set = [player[n].set EXCEPT ![key] = v]
  <2>1. player' = [player EXCEPT ![n].set[key] = v]
    BY <1>2, <1>3, <1>4 DEF SetStore
  <2>. QED
    BY <1>1, <2>1, StoreIs
<1>6. /\ player' \in [1..MaxPlayers -> PlayerType] /\ \A m \in (1..MaxPlayers) \ {n} : player'[m] = player[m]
      /\ player'[n].session = player[n].session /\ player'[n].token = player[n].token
      /\ player'[n].queue = player[n].queue /\ player'[n].current = player[n].current
  BY <1>5 DEF PlayerBut, PlayerField
<1>7. WorkBut(p, WorkField) /\ proc'[p] = Idle
  BY <1>1, DoneIs DEF SetStore
<1>8. proc' \in [Proc -> WorkType] /\ \A r \in Proc \ {p} : proc'[r] = proc[r]
  BY <1>7 DEF WorkBut
<1>9. MusicTyped' /\ SweptIsEmpty' /\ VoiceKnown'
  BY <1>0, <1>1, <1>2, <1>6, <1>7, <1>8, IdleInHand, Acts
<1>10. Singly' /\ Issued'
  <2>1. SameTracks
    BY <1>6 DEF SameTracks
  <2>2. \A q \in Proc : Held(proc'[q]) \in Track => Held(proc'[q]) = Held(proc[q])
    BY <1>7, <1>8, IdleInHand
  <2>. QED
    BY <1>0, <1>1, <2>1, <2>2, SinglyStays DEF Quiet
<1>11. Steady'
  <2>1. Phase(proc[p]) => Agree' /\ Rest'
    <3>. SUFFICES ASSUME Phase(proc[p]) PROVE Agree' /\ Rest'
      OBVIOUS
    <3>1. live = n /\ live # 0 /\ Current' = Current
      BY <1>0, <1>2, <1>6 DEF Phase, Current, Quiet
    <3>2. Rest'
      BY <1>0, <1>6, <3>1 DEF Phase, Rest, Quiet
    <3>3. Agree'
      BY <1>0, <1>3, <1>4, <1>5, <3>1 DEF Phase, Agree, Quiet
    <3>. QED
      BY <3>2, <3>3
  <2>2. link' # "ready" => lava'.track = NoTrack
    BY <1>0, <1>1 DEF Steady, Quiet
  <2>. QED
    BY <1>0, <1>1, <1>2, <1>6, <1>7, <1>8, <2>1, <2>2, IdleTyped, GoesOn DEF Quiet
<1>. QED
  BY <1>9, <1>10, <1>11 DEF MusicIInv

LEMMA StartShowKeeps ==
  ASSUME MusicIInv, NEW p \in Proc, StartShow(p)
  PROVE  MusicIInv'
<1>0. proc[p].pc = "show" /\ Quiet /\ lava' = lava /\ doubt' = doubt /\ sent' = sent
  BY DEF StartShow, Quiet
<1>1. /\ p \in AtWork /\ MusicTyped /\ Singly /\ Issued /\ Steady /\ proc[p] \in WorkType /\ InHand(proc[p])
      /\ lava \in [track : 0..MaxTracks, set : SetType] /\ doubt \subseteq {"overlap", "refused", "unheard", "kept"}
      /\ sent \subseteq VoiceMsg /\ p \in Proc
  BY <1>0, WorksAt
<1>2. PICK n \in 1..MaxPlayers : n = proc[p].n
  BY <1>0, WorksAt
<1>3. PICK t \in Track : t = proc[p].track
  <2>1. proc[p].track \in 0..Blank
    BY <1>1, WorkParts
  <2>. QED
    BY <1>0, <1>1, <2>1, MusicNumbers DEF InHand
<1>4. t \in 0..MaxTracks /\ t # NoTrack /\ Held(proc[p]) = t
  BY <1>0, <1>1, <1>3, MusicNumbers DEF Held, InHand
<1>5. PlayerBut(n, {"current", "stale"}) /\ player'[n].current = t
  <2>1. player' = [player EXCEPT ![n].current = t, ![n].stale = FALSE]
    BY <1>2, <1>3 DEF StartShow
  <2>. QED
    BY <1>1, <1>4, <2>1, ShowIs
<1>6. /\ player' \in [1..MaxPlayers -> PlayerType] /\ \A m \in (1..MaxPlayers) \ {n} : player'[m] = player[m]
      /\ player'[n].session = player[n].session /\ player'[n].token = player[n].token
      /\ player'[n].queue = player[n].queue /\ player'[n].set = player[n].set
  BY <1>5 DEF PlayerBut, PlayerField
<1>7. WorkBut(p, WorkField) /\ proc'[p] = Idle
  BY <1>1, DoneIs DEF StartShow
<1>8. proc' \in [Proc -> WorkType] /\ \A r \in Proc \ {p} : proc'[r] = proc[r]
  BY <1>7 DEF WorkBut
<1>9. MusicTyped' /\ SweptIsEmpty' /\ VoiceKnown'
  BY <1>0, <1>1, <1>2, <1>6, <1>7, <1>8, IdleInHand, Acts
<1>10. Singly' /\ Issued'
  <2>1. \A q \in Proc \ {p} : Held(proc'[q]) = Held(proc[q])
    BY <1>8
  <2>2. Held(proc'[p]) = NoTrack /\ NoTrack \notin Track
    BY <1>7, IdleInHand, MusicNumbers
  <2>3. Once(player'[n].queue) /\ ~Within(t, player'[n].queue) /\ ~Within(NoTrack, player'[n].queue)
    <3>1. player[n].queue \in Seq(Track)
      BY <1>1, PlayerParts DEF MusicTyped
    <3>2. ~Within(NoTrack, player[n].queue)
      BY <2>2, <3>1 DEF Within
    <3>3. ~Within(t, player[n].queue)
      BY <1>1, <1>4 DEF Singly, HeldOut, Within
    <3>4. Once(player[n].queue)
      BY <1>1 DEF Singly, QueuedOnce, Once
    <3>. QED
      BY <1>6, <3>2, <3>3, <3>4
  <2>4. \A u \in Track : u = player'[n].current \/ u = Held(proc'[p]) \/ Within(u, player'[n].queue) =>
            u = player[n].current \/ u = Held(proc[p]) \/ Within(u, player[n].queue)
    BY <1>4, <1>5, <1>6, <2>2
  <2>5. issued <= issued'
    BY <1>0, <1>1, MusicNumbers DEF MusicTyped, Quiet
  <2>. QED
    BY <1>1, <1>5, <1>6, <1>9, <2>1, <2>2, <2>3, <2>4, <2>5, Redealt
<1>11. Steady'
  <2>1. Phase(proc[p]) => Agree' /\ Rest'
    BY <1>0, <1>2, <1>3, <1>4, <1>5, <1>6 DEF Phase, Agree, Rest, Current, Quiet
  <2>2. link' # "ready" => lava'.track = NoTrack
    BY <1>0, <1>1 DEF Steady, Quiet
  <2>. QED
    BY <1>0, <1>1, <1>2, <1>6, <1>7, <1>8, <2>1, <2>2, IdleTyped, GoesOn DEF Quiet
<1>. QED
  BY <1>9, <1>10, <1>11 DEF MusicIInv

(* Queues and current tracks that are dropped, or stay.                      *)
LEMMA SinglyShrinks ==
  ASSUME MusicTyped, Singly, Issued, issued' = issued,
         \A n \in 1..MaxPlayers : /\ player'[n].queue \in {player[n].queue, <<>>}
                                  /\ player'[n].current \in {player[n].current, NoTrack},
         \A p \in Proc : Held(proc'[p]) \in Track => Held(proc'[p]) = Held(proc[p])
  PROVE  Singly' /\ Issued'
<1>1. /\ NoTrack \notin Track /\ NoTrack = 0 /\ issued \in Nat /\ 0 <= issued
      /\ \A n \in 1..MaxPlayers : player[n].queue \in Seq(Track)
  <2>1. \A n \in 1..MaxPlayers : player[n] \in PlayerType
    BY DEF MusicTyped
  <2>2. issued \in Nat
    BY MusicNumbers DEF MusicTyped
  <2>. QED
    BY <2>1, <2>2, PlayerParts, MusicNumbers
<1>2. ASSUME NEW n \in 1..MaxPlayers, NEW i \in 1..Len(player'[n].queue)
      PROVE  /\ i \in 1..Len(player[n].queue) /\ player'[n].queue[i] = player[n].queue[i]
             /\ player[n].queue[i] \in Track
  <2>1. player'[n].queue # <<>>
    BY <1>2
  <2>2. player'[n].queue = player[n].queue
    BY <2>1
  <2>. QED
    BY <1>1, <1>2, <2>2
<1>3. QueuedOnce'
  BY <1>2, SMTT(30) DEF Singly, QueuedOnce
<1>4. CurrentOnce'
  BY DEF Singly, CurrentOnce
<1>5. CurrentOut'
  BY <1>1, <1>2 DEF Singly, CurrentOut
<1>6. HeldOnce'
  BY DEF Singly, HeldOnce
<1>7. HeldOut'
  BY <1>1, <1>2 DEF Singly, HeldOut
<1>8. Issued'
  <2>1. \A n \in 1..MaxPlayers : player'[n].current <= issued'
    BY <1>1 DEF Issued
  <2>2. \A n \in 1..MaxPlayers : \A i \in 1..Len(player'[n].queue) : player'[n].queue[i] <= issued'
    BY <1>2 DEF Issued
  <2>3. \A p \in Proc : Held(proc'[p]) \in Track => Held(proc'[p]) <= issued'
    BY DEF Issued
  <2>. QED
    BY <2>1, <2>2, <2>3 DEF Issued
<1>. QED
  BY <1>3, <1>4, <1>5, <1>6, <1>7, <1>8 DEF Singly

LEMMA StopForgetKeeps ==
  ASSUME MusicIInv, NEW p \in Proc, StopForget(p)
  PROVE  MusicIInv'
<1>0. proc[p].pc = "forget" /\ Quiet /\ lava' = lava /\ doubt' = doubt /\ sent' = sent
  BY DEF StopForget, Quiet
<1>1. /\ p \in AtWork /\ MusicTyped /\ Singly /\ Issued /\ Steady /\ proc[p] \in WorkType /\ InHand(proc[p])
      /\ lava \in [track : 0..MaxTracks, set : SetType] /\ doubt \subseteq {"overlap", "refused", "unheard", "kept"}
      /\ sent \subseteq VoiceMsg
  BY <1>0, WorksAt
<1>2. PICK n \in 1..MaxPlayers : n = proc[p].n
  BY <1>0, WorksAt
<1>3. PlayerBut(n, {"current", "set"}) /\ player'[n].current = NoTrack
  BY <1>1, <1>2, ForgetIs DEF StopForget
<1>4. /\ player' \in [1..MaxPlayers -> PlayerType] /\ \A m \in (1..MaxPlayers) \ {n} : player'[m] = player[m]
      /\ player'[n].session = player[n].session /\ player'[n].token = player[n].token
      /\ player'[n].queue = player[n].queue
  BY <1>3 DEF PlayerBut, PlayerField
<1>5. WorkBut(p, {"pc"}) /\ proc'[p].pc = "destroy"
  BY <1>1, GotoIs DEF StopForget, Place
<1>6. /\ proc' \in [Proc -> WorkType] /\ \A r \in Proc \ {p} : proc'[r] = proc[r]
      /\ proc'[p].op = proc[p].op /\ proc'[p].n = n /\ proc'[p].alone = proc[p].alone
      /\ proc'[p].track = proc[p].track
  BY <1>2, <1>5 DEF WorkBut, WorkField
<1>7. InHand(proc'[p])
  BY <1>0, <1>1, <1>2, <1>5, <1>6 DEF InHand
<1>8. MusicTyped' /\ SweptIsEmpty' /\ VoiceKnown'
  BY <1>0, <1>1, <1>2, <1>4, <1>6, <1>7, Acts
<1>9. Singly' /\ Issued'
  <2>1. \A m \in 1..MaxPlayers : /\ player'[m].queue \in {player[m].queue, <<>>}
                                 /\ player'[m].current \in {player[m].current, NoTrack}
    BY <1>3, <1>4
  <2>2. \A q \in Proc : Held(proc'[q]) = Held(proc[q])
    BY <1>6 DEF Held
  <2>. QED
    BY <1>0, <1>1, <2>1, <2>2, SinglyShrinks DEF Quiet
<1>10. Steady'
  <2>1. Phase(proc[p]) => Phase(proc[p])'
    BY <1>0, <1>2, <1>3, <1>4, <1>5, <1>6 DEF Phase, Quiet, Current
  <2>2. proc[p].op = "stop" /\ Alone(p) => Current' = NoTrack
    <3>. SUFFICES ASSUME proc[p].op = "stop", Alone(p) PROVE Current' = NoTrack
      OBVIOUS
    <3>1. n = live \/ Lull
      BY <1>2 DEF Alone
    <3>2. live' = live /\ live \in 0..MaxPlayers
      BY <1>0, <1>1 DEF Quiet, MusicTyped
    <3>. QED
      BY <1>3, <1>4, <3>1, <3>2 DEF Lull, Current
  <2>3. link' # "ready" => lava'.track = NoTrack
    BY <1>0, <1>1 DEF Steady, Quiet
  <2>. QED
    BY <1>0, <1>1, <1>2, <1>4, <1>5, <1>6, <2>1, <2>2, <2>3, GoesOn DEF Quiet
<1>. QED
  BY <1>8, <1>9, <1>10 DEF MusicIInv

LEMMA StopClearKeeps ==
  ASSUME MusicIInv, NEW p \in Proc, StopClear(p)
  PROVE  MusicIInv'
<1>0. proc[p].pc = "clear" /\ Quiet /\ lava' = lava /\ sent' = sent
  BY DEF StopClear, Quiet
<1>1. /\ p \in AtWork /\ MusicTyped /\ Singly /\ Issued /\ Steady /\ proc[p] \in WorkType /\ InHand(proc[p])
      /\ lava \in [track : 0..MaxTracks, set : SetType] /\ doubt \subseteq {"overlap", "refused", "unheard", "kept"}
      /\ sent \subseteq VoiceMsg
  BY <1>0, WorksAt
<1>2. PICK n \in 1..MaxPlayers : n = proc[p].n
  BY <1>0, WorksAt
<1>3. PlayerBut(n, {"queue"}) /\ player'[n].queue = <<>>
  <2>1. <<>> \in Seq(Track)
    BY EmptySeq
  <2>2. player' = Set(n, "queue", <<>>)
    BY <1>2 DEF StopClear, Cleared
  <2>. QED
    BY <1>1, <2>1, <2>2, PlayerSet
<1>4. /\ player' \in [1..MaxPlayers -> PlayerType] /\ \A m \in (1..MaxPlayers) \ {n} : player'[m] = player[m]
      /\ player'[n].session = player[n].session /\ player'[n].token = player[n].token
      /\ player'[n].current = player[n].current
  BY <1>3 DEF PlayerBut, PlayerField
<1>5. WorkBut(p, WorkField) /\ proc'[p] = Idle
  BY <1>1, DoneIs DEF StopClear
<1>6. proc' \in [Proc -> WorkType] /\ \A r \in Proc \ {p} : proc'[r] = proc[r]
  BY <1>5 DEF WorkBut
<1>7. doubt' = IF proc[p].alone /\ lava.track = NoTrack /\ ended = 0 THEN {} ELSE doubt
  BY DEF StopClear
<1>8. MusicTyped' /\ SweptIsEmpty' /\ VoiceKnown'
  BY <1>0, <1>1, <1>2, <1>3, <1>4, <1>5, <1>6, <1>7, IdleInHand, Acts
<1>9. Singly' /\ Issued'
  <2>1. \A m \in 1..MaxPlayers : /\ player'[m].queue \in {player[m].queue, <<>>}
                                 /\ player'[m].current \in {player[m].current, NoTrack}
    BY <1>3, <1>4
  <2>2. \A q \in Proc : Held(proc'[q]) \in Track => Held(proc'[q]) = Held(proc[q])
    BY <1>5, <1>6, IdleInHand
  <2>. QED
    BY <1>0, <1>1, <2>1, <2>2, SinglyShrinks DEF Quiet
<1>10. Steady'
  <2>0. AtWork' = AtWork \ {p} /\ live \in 0..MaxPlayers
    BY <1>1, <1>5, <1>6, IdleTyped DEF AtWork, MusicTyped
  <2>1. link' # "ready" => lava'.track = NoTrack
    BY <1>0, <1>1 DEF Steady, Quiet
  <2>2. ASSUME doubt' = {} PROVE Clear'
    <3>1. /\ AtWork = {p} /\ ended = 0 /\ Current = NoTrack /\ lava.track = NoTrack
          /\ n = live \/ Lull
      <4>1. CASE doubt = {}
        <5>1. Clear
          BY <1>1, <4>1 DEF Steady
        <5>2. AtWork = {p} /\ ended = 0 /\ Phase(proc[p])
          BY <1>1, <5>1 DEF Clear
        <5>. QED
          BY <1>0, <1>2, <5>2 DEF Phase
      <4>2. CASE doubt # {}
        <5>1. proc[p].alone /\ lava.track = NoTrack /\ ended = 0
          BY <1>7, <2>2, <4>2
        <5>2. Alone(p) /\ proc[p].op = "stop"
          BY <1>0, <1>1, <5>1 DEF Steady, InHand
        <5>. QED
          BY <1>0, <1>2, <5>1, <5>2 DEF Alone
      <4>. QED
        BY <4>1, <4>2
    <3>2. Agree' /\ Rest'
      <4>1. live' = live /\ Current' = NoTrack
        BY <1>0, <1>4, <2>0, <3>1 DEF Quiet, Current
      <4>2. live # 0 => player'[live].queue = <<>>
        BY <1>3, <1>4, <2>0, <3>1 DEF Lull
      <4>. QED
        BY <1>0, <3>1, <4>1, <4>2 DEF Agree, Rest
    <3>. QED
      BY <1>0, <2>0, <3>1, <3>2 DEF Clear, Quiet
  <2>3. ASSUME NEW q \in AtWork', proc'[q].alone PROVE Alone(q)'
    <3>1. q \in AtWork /\ q # p /\ proc[q].alone
      BY <1>6, <2>0, <2>3 DEF AtWork
    <3>2. AtWork = {q}
      BY <1>1, <3>1 DEF Steady, Alone
    <3>. QED
      BY <1>1, <3>1, <3>2
  <2>. QED
    BY <2>1, <2>2, <2>3 DEF Steady
<1>. QED
  BY <1>8, <1>9, <1>10 DEF MusicIInv

---------------------------------------------------------------------------
(* Setting to work.                                                          *)
Begun(op, pc, n) == [Idle EXCEPT !.op = op, !.pc = pc, !.n = n]

LEMMA BegunIs ==
  ASSUME NEW op \in {"play", "skip", "stop", "end", "set", "resync"}, NEW pc \in Place, NEW n \in 1..MaxPlayers,
         NEW a, a = Begun(op, pc, n)
  PROVE  a \in WorkType /\ a.op = op /\ a.pc = pc /\ a.n = n /\ a.track = NoTrack
<1>1. n \in 0..MaxPlayers
  BY MusicNumbers
<1>. QED
  BY <1>1, IdleTyped DEF WorkType, Place, Begun

LEMMA StartsTyped ==
  ASSUME MusicTyped, NEW p \in Proc, NEW it \in WorkType, InHand(it), Starts(p, it)
  PROVE  /\ \A q \in Proc : InHand(proc'[q])
         /\ \A q \in Proc \ {p} : Held(proc'[q]) = Held(proc[q])
         /\ Held(proc'[p]) = Held(it)
<1>1. proc'[p].op = it.op /\ proc'[p].pc = it.pc /\ proc'[p].n = it.n /\ proc'[p].track = it.track
  BY DEF Starts, WorkField
<1>2. \A q \in Proc \ {p} : /\ proc'[q].op = proc[q].op /\ proc'[q].pc = proc[q].pc
                            /\ proc'[q].n = proc[q].n /\ proc'[q].track = proc[q].track
  BY DEF Starts, WorkField
<1>3. InHand(proc'[p])
  BY <1>1 DEF InHand
<1>4. ASSUME NEW q \in Proc \ {p} PROVE InHand(proc'[q])
  <2>1. InHand(proc[q])
    BY DEF MusicTyped
  <2>. QED
    BY <1>2, <2>1 DEF InHand
<1>. QED
  BY <1>1, <1>2, <1>3, <1>4 DEF Held

(* playerFor.                                                                *)
LEMMA ReachIs ==
  ASSUME MusicTyped, NEW n \in 1..MaxPlayers, Reach(n)
  PROVE  /\ live' = n /\ live' # 0 /\ live' \in 0..MaxPlayers
         /\ live = n \/ (live = 0 /\ player[n].queue = <<>> /\ player[n].current = NoTrack /\ player[n].session = 0)
<1>1. n # 0 /\ n \in 0..MaxPlayers
  BY MusicNumbers
<1>. QED
  BY <1>1, NewTyped DEF Reach

(* p sets to work without a track, on the player it has reached.             *)
LEMMA Opens ==
  ASSUME MusicIInv, NEW p \in Proc, proc[p].pc = "idle", NEW it \in WorkType, InHand(it), Held(it) = NoTrack,
         it.pc \notin {"idle", "voice", "destroy", "clear"}, Start(p, it), NEW n \in 1..MaxPlayers, it.n = n, live' = n,
         live = n \/ (live = 0 /\ player'[n].session = 0),
         player' \in [1..MaxPlayers -> PlayerType], SameTracks,
         player'[n].session = player[n].session, player'[n].token = player[n].token,
         UNCHANGED <<lava, ended, sent, issued, voiced>>,
         link' \in {"down", "dialed", "ready"}, link' = link \/ VoiceKnown',
         doubt = {} /\ Clear /\ AtWork = {} /\ ended = 0 /\ proc'[p].pc = it.pc /\ proc'[p].op = it.op
            /\ proc'[p].n = n /\ proc'[p].track = it.track /\ proc'[p].set = it.set /\ proc'[p].key = it.key => Phase(proc[p])',
         link' = link \/ link' = "ready"
  PROVE  MusicIInv'
<1>1. MusicTyped /\ Singly /\ Issued /\ SweptIsEmpty /\ VoiceKnown /\ Steady
  BY DEF MusicIInv
<1>2. /\ Starts(p, it) /\ (proc'[p].alone => AtWork = {} /\ ended = 0)
      /\ doubt' = IF AtWork = {} /\ ended = 0 THEN doubt ELSE doubt \cup {"overlap"}
  BY <1>1, StartIs
<1>3. /\ \A q \in Proc : InHand(proc'[q])
      /\ \A q \in Proc \ {p} : Held(proc'[q]) = Held(proc[q])
      /\ Held(proc'[p]) = Held(it)
  BY <1>1, <1>2, StartsTyped
<1>4. /\ proc' \in [Proc -> WorkType]
      /\ proc'[p].op = it.op /\ proc'[p].pc = it.pc /\ proc'[p].n = n /\ proc'[p].track = it.track
      /\ proc'[p].set = it.set /\ proc'[p].key = it.key
      /\ \A q \in Proc \ {p} : /\ proc'[q].pc = proc[q].pc /\ proc'[q].session = proc[q].session
                               /\ proc'[q].token = proc[q].token /\ ~proc'[q].alone
  BY <1>2 DEF Starts, WorkField
<1>5. MusicTyped'
  <2>1. n \in 0..MaxPlayers
    BY MusicNumbers
  <2>. QED
    BY <1>1, <1>2, <1>3, <1>4, <2>1 DEF MusicTyped
<1>6. Singly' /\ Issued'
  BY <1>1, <1>3, MusicNumbers, SinglyStays
<1>7. SweptIsEmpty'
  <2>1. \A m \in 1..MaxPlayers : player'[m].queue = player[m].queue
    BY DEF SameTracks
  <2>. QED
    BY <1>1, <2>1 DEF SweptIsEmpty
<1>8. VoiceKnown'
  <2>1. CASE link' = link
    BY <1>1, <1>4, <2>1, VoiceStays
  <2>. QED
    BY <2>1
<1>9. Steady'
  <2>1. link' # "ready" => lava'.track = NoTrack
    BY <1>1 DEF Steady
  <2>2. doubt' = {} => AtWork = {} /\ ended' = 0 /\ doubt = {}
    BY <1>2
  <2>3. doubt' = {} => AtWork = {} /\ ended' = 0 /\ (doubt = {} /\ Clear => Phase(proc[p])')
    BY <1>4, <2>2
  <2>. QED
    BY <1>1, <1>2, <1>4, <2>1, <2>3, Begins
<1>. QED
  BY <1>5, <1>6, <1>7, <1>8, <1>9 DEF MusicIInv

LEMMA MusicSkipKeeps ==
  ASSUME MusicIInv, NEW p \in Proc, MusicSkip(p)
  PROVE  MusicIInv'
<1>1. MusicTyped /\ live \in 0..MaxPlayers /\ live # 0
  BY DEF MusicIInv, MusicTyped, MusicSkip
<1>2. PICK n \in 1..MaxPlayers : n = live
  BY <1>1, MusicNumbers
<1>8. PICK it : it = Begun("skip", "skip", n)
  OBVIOUS
<1>3. it \in WorkType /\ it.op = "skip" /\ it.pc = "skip" /\ it.n = n /\ it.track = NoTrack
  BY <1>8, BegunIs DEF Place
<1>4. InHand(it) /\ Held(it) = NoTrack
  BY <1>3 DEF InHand, Held
<1>5. /\ Start(p, it) /\ proc[p].pc = "idle" /\ player' = player /\ live' = n /\ SameTracks
      /\ UNCHANGED <<lava, link, ended, sent, issued, voiced>>
  BY <1>2, <1>8 DEF MusicSkip, SameTracks, Begun
<1>6. player' \in [1..MaxPlayers -> PlayerType] /\ link' \in {"down", "dialed", "ready"}
  BY <1>1, <1>5 DEF MusicTyped
<1>7. proc'[p].pc = it.pc /\ proc'[p].op = it.op /\ proc'[p].n = n => Phase(proc[p])'
  BY <1>1, <1>2, <1>3, <1>5 DEF Phase
<1>. QED
  BY <1>2, <1>3, <1>4, <1>5, <1>6, <1>7, Opens

LEMMA MusicStopKeeps ==
  ASSUME MusicIInv, NEW p \in Proc, MusicStop(p)
  PROVE  MusicIInv'
<1>1. MusicTyped /\ live \in 0..MaxPlayers /\ live # 0
  BY DEF MusicIInv, MusicTyped, MusicStop
<1>2. PICK n \in 1..MaxPlayers : n = live
  BY <1>1, MusicNumbers
<1>8. PICK it : it = Begun("stop", "forget", n)
  OBVIOUS
<1>3. it \in WorkType /\ it.op = "stop" /\ it.pc = "forget" /\ it.n = n /\ it.track = NoTrack
  BY <1>8, BegunIs DEF Place
<1>4. InHand(it) /\ Held(it) = NoTrack
  BY <1>3 DEF InHand, Held
<1>5. /\ Start(p, it) /\ proc[p].pc = "idle" /\ player' = player /\ live' = n /\ SameTracks
      /\ UNCHANGED <<lava, link, ended, sent, issued, voiced>>
  BY <1>2, <1>8 DEF MusicStop, SameTracks, Begun
<1>6. player' \in [1..MaxPlayers -> PlayerType] /\ link' \in {"down", "dialed", "ready"}
  BY <1>1, <1>5 DEF MusicTyped
<1>7. proc'[p].pc = it.pc /\ proc'[p].op = it.op /\ proc'[p].n = n => Phase(proc[p])'
  BY <1>1, <1>2, <1>3, <1>5 DEF Phase
<1>. QED
  BY <1>2, <1>3, <1>4, <1>5, <1>6, <1>7, Opens

LEMMA MusicSetKeeps ==
  ASSUME MusicIInv, NEW p \in Proc, NEW key \in Setting, NEW value \in BOOLEAN, MusicSet(p, key, value)
  PROVE  MusicIInv'
<1>0. /\ MusicTyped /\ Steady /\ proc[p].pc = "idle" /\ live \in 0..MaxPlayers
      /\ UNCHANGED <<lava, link, ended, sent, issued, voiced>>
  BY DEF MusicSet, MusicIInv, MusicTyped
<1>1. PICK v \in SetType : v = [Defaults EXCEPT ![key] = value]
  BY DefaultsTyped DEF SetType
<1>2. PICK n \in 1..MaxPlayers :
          /\ IF key = "paused"
             THEN n = live /\ player[n].current # NoTrack /\ UNCHANGED <<player, live>>
             ELSE Reach(n) /\ player' = Set(n, "stale", FALSE)
          /\ Start(p, [Idle EXCEPT !.op = "set", !.pc = "set", !.n = n, !.key = key, !.set = v])
  BY <1>1 DEF MusicSet
<1>3. PICK a : a = Begun("set", "set", n)
  OBVIOUS
<1>4. a \in WorkType /\ a.op = "set" /\ a.pc = "set" /\ a.n = n /\ a.track = NoTrack
  BY <1>3, BegunIs DEF Place
<1>5. PICK it : it = [a EXCEPT !.key = key, !.set = v]
  OBVIOUS
<1>6. it \in WorkType /\ it.op = "set" /\ it.pc = "set" /\ it.n = n /\ it.track = NoTrack
  BY <1>4, <1>5 DEF WorkType
<1>7. Start(p, it)
  <2>1. it = [Idle EXCEPT !.op = "set", !.pc = "set", !.n = n, !.key = key, !.set = v]
    BY <1>3, <1>5, IdleTyped DEF Begun, WorkType
  <2>. QED
    BY <1>2, <2>1
<1>8. InHand(it) /\ Held(it) = NoTrack
  BY <1>6 DEF InHand, Held
<1>9. /\ live' = n /\ live' # 0
      /\ live = n \/ (live = 0 /\ player[n].queue = <<>> /\ player[n].current = NoTrack /\ player[n].session = 0)
  <2>1. CASE key = "paused"
    BY <1>0, <1>2, <2>1, MusicNumbers
  <2>2. CASE key # "paused"
    BY <1>0, <1>2, <2>2, ReachIs
  <2>. QED
    BY <2>1, <2>2
<1>10. /\ player' \in [1..MaxPlayers -> PlayerType] /\ \A m \in (1..MaxPlayers) \ {n} : player'[m] = player[m]
       /\ player'[n].session = player[n].session /\ player'[n].token = player[n].token
       /\ player'[n].current = player[n].current /\ player'[n].queue = player[n].queue /\ player'[n].set = player[n].set
  <2>1. CASE key = "paused"
    BY <1>0, <1>2, <2>1 DEF MusicTyped
  <2>2. CASE key # "paused"
    <3>1. PlayerBut(n, {"stale"})
      BY <1>0, <1>2, <2>2, PlayerSet
    <3>. QED
      BY <3>1 DEF PlayerBut, PlayerField
  <2>. QED
    BY <2>1, <2>2
<1>11. SameTracks
  BY <1>10 DEF SameTracks
<1>12. ASSUME Clear, AtWork = {}, ended = 0, proc'[p].pc = "set", proc'[p].n = n PROVE Phase(proc[p])'
  <2>1. Agree /\ Rest
    BY <1>12 DEF Clear
  <2>2. Current' = Current
    BY <1>9, <1>10 DEF Current
  <2>3. Agree' /\ Rest'
    <3>1. CASE live = n
      BY <1>0, <1>9, <1>10, <2>1, <2>2, <3>1 DEF Agree, Rest
    <3>2. CASE live = 0 /\ player[n].queue = <<>>
      <4>1. Current = NoTrack
        BY <3>2 DEF Current
      <4>. QED
        BY <1>0, <1>9, <1>10, <2>1, <2>2, <3>2, <4>1 DEF Agree, Rest
    <3>. QED
      BY <1>9, <3>1, <3>2
  <2>. QED
    BY <1>9, <1>12, <2>3 DEF Phase
<1>13. link' \in {"down", "dialed", "ready"} /\ player'[n].session = player[n].session
  BY <1>0, <1>10 DEF MusicTyped
<1>. QED
  BY <1>0, <1>6, <1>7, <1>8, <1>9, <1>10, <1>11, <1>12, <1>13, Opens

LEMMA ReadyKeeps ==
  ASSUME MusicIInv, NEW p \in Proc, Ready(p)
  PROVE  MusicIInv'
<1>0. /\ MusicTyped /\ Steady /\ Singly /\ Issued /\ SweptIsEmpty /\ VoiceKnown
      /\ proc[p].pc = "idle" /\ link = "dialed" /\ link' = "ready" /\ live \in 0..MaxPlayers
      /\ UNCHANGED <<player, live, lava, ended, sent, issued, voiced>>
  BY DEF Ready, MusicIInv, MusicTyped
<1>1. CASE live = 0
  <2>0. UNCHANGED <<proc, doubt>>
    BY <1>1 DEF Ready
  <2>1. MusicTyped'
    BY <1>0, <2>0 DEF MusicTyped
  <2>2. Singly' /\ Issued' /\ SweptIsEmpty' /\ VoiceKnown'
    <3>1. SameTracks /\ \A q \in Proc : proc'[q] = proc[q]
      BY <1>0, <2>0 DEF SameTracks
    <3>2. Singly' /\ Issued'
      BY <1>0, <3>1, SinglyStays
    <3>. QED
      BY <1>0, <1>1, <3>2 DEF SweptIsEmpty, VoiceKnown
  <2>3. Steady'
    <3>1. AtWork' = AtWork /\ Current = NoTrack /\ Current' = NoTrack /\ lava.track = NoTrack
      BY <1>0, <1>1, <2>0 DEF AtWork, Current, Steady
    <3>2. ASSUME doubt' = {} PROVE Clear'
      <4>1. Clear
        BY <1>0, <2>0, <3>2 DEF Steady
      <4>2. AtWork = {} /\ ended = 0
        BY <1>1, <4>1 DEF Clear, Phase
      <4>. QED
        BY <1>0, <1>1, <3>1, <4>2 DEF Clear, Agree, Rest
    <3>3. ASSUME NEW q \in AtWork', proc'[q].alone PROVE Alone(q)'
      <4>1. Alone(q) /\ proc' = proc
        BY <1>0, <2>0, <3>1, <3>3 DEF Steady
      <4>. QED
        BY <1>0, <1>1, <3>1, <4>1 DEF Alone, Lull
    <3>. QED
      BY <1>0, <3>1, <3>2, <3>3 DEF Steady
  <2>. QED
    BY <2>1, <2>2, <2>3 DEF MusicIInv
<1>2. CASE live # 0
  <2>1. PICK n \in 1..MaxPlayers : n = live
    BY <1>0, <1>2, MusicNumbers
  <2>2. PICK x \in PlayerType : x = player[n]
    BY <1>0 DEF MusicTyped
  <2>3. x.current \in 0..MaxTracks /\ x.set \in SetType /\ x.session \in 0..MaxVoice /\ x.token \in 0..MaxVoice
    BY PlayerParts
  <2>4. PICK a : a = Begun("resync", "resync", n)
    OBVIOUS
  <2>5. a \in WorkType /\ a.op = "resync" /\ a.pc = "resync" /\ a.n = n
    BY <2>4, BegunIs DEF Place
  <2>6. PICK b : b = [a EXCEPT !.track = x.current, !.set = x.set]
    OBVIOUS
  <2>7. b \in WorkType /\ b.op = "resync" /\ b.pc = "resync" /\ b.n = n /\ b.track = x.current /\ b.set = x.set
    <3>1. x.current \in 0..Blank
      BY <2>3, MusicNumbers
    <3>. QED
      BY <2>3, <2>5, <2>6, <3>1 DEF WorkType
  <2>8. PICK it : it = [b EXCEPT !.session = x.session, !.token = x.token]
    OBVIOUS
  <2>9. /\ it \in WorkType /\ it.op = "resync" /\ it.pc = "resync" /\ it.n = n /\ it.track = x.current /\ it.set = x.set
        /\ it.session = x.session /\ it.token = x.token
    BY <2>3, <2>7, <2>8 DEF WorkType
  <2>10. Start(p, it)
    <3>1. it = [Idle EXCEPT !.op = "resync", !.pc = "resync", !.n = n, !.track = x.current, !.set = x.set,
                            !.session = x.session, !.token = x.token]
      BY <2>4, <2>6, <2>8, IdleTyped DEF Begun, WorkType
    <3>2. Start(p, [Idle EXCEPT !.op = "resync", !.pc = "resync", !.n = n, !.track = x.current, !.set = x.set,
                            !.session = x.session, !.token = x.token])
      BY <1>2, <2>1, <2>2 DEF Ready
    <3>. QED
      BY <3>1, <3>2
  <2>11. InHand(it) /\ Held(it) = NoTrack
    BY <2>9 DEF InHand, Held
  <2>12. VoiceKnown'
    <3>1. Starts(p, it)
      BY <1>0, <2>9, <2>10, StartIs
    <3>2. proc'[p].pc = "resync" /\ proc'[p].session = x.session /\ proc'[p].token = x.token
      BY <2>9, <3>1 DEF Starts, WorkField
    <3>. QED
      BY <1>0, <2>1, <2>2, <3>2 DEF VoiceKnown
  <2>13. ASSUME Clear, AtWork = {}, ended = 0, proc'[p].pc = "resync", proc'[p].n = n,
                proc'[p].track = x.current, proc'[p].set = x.set
         PROVE  Phase(proc[p])'
    <3>1. lava.track = NoTrack /\ Rest /\ Current = x.current
      BY <1>0, <1>2, <2>1, <2>2, <2>13 DEF Steady, Clear, Current
    <3>. QED
      BY <1>0, <1>2, <2>1, <2>2, <2>13, <3>1 DEF Phase, Rest, Current
  <2>14. SameTracks /\ player' \in [1..MaxPlayers -> PlayerType]
    BY <1>0 DEF SameTracks, MusicTyped
  <2>. QED
    BY <1>0, <2>1, <2>9, <2>10, <2>11, <2>12, <2>13, <2>14, Opens
<1>. QED
  BY <1>1, <1>2

---------------------------------------------------------------------------
(* Around those at work: a command that touches no more than the player's    *)
(* modes, or empties its queue.                                              *)
LEMMA Around ==
  ASSUME MusicIInv, NEW n \in 1..MaxPlayers, live' = n,
         live = n \/ (live = 0 /\ player[n].queue = <<>> /\ player[n].current = NoTrack /\ player[n].session = 0),
         player' \in [1..MaxPlayers -> PlayerType], \A m \in (1..MaxPlayers) \ {n} : player'[m] = player[m],
         player'[n].session = player[n].session, player'[n].token = player[n].token,
         player'[n].current = player[n].current, player'[n].set = player[n].set,
         player'[n].queue \in {player[n].queue, <<>>},
         UNCHANGED <<proc, lava, link, ended, sent, issued, voiced, doubt>>
  PROVE  MusicIInv'
<1>1. MusicTyped /\ Singly /\ Issued /\ SweptIsEmpty /\ VoiceKnown /\ Steady /\ n \in 0..MaxPlayers /\ n # 0
  BY MusicNumbers DEF MusicIInv
<1>2. MusicTyped'
  BY <1>1 DEF MusicTyped
<1>3. Singly' /\ Issued'
  <2>1. \A m \in 1..MaxPlayers : /\ player'[m].queue \in {player[m].queue, <<>>}
                                 /\ player'[m].current \in {player[m].current, NoTrack}
    OBVIOUS
  <2>. QED
    BY <1>1, <2>1, SinglyShrinks
<1>4. SweptIsEmpty'
  BY <1>1 DEF SweptIsEmpty
<1>5. VoiceKnown'
  BY <1>1, VoiceStays
<1>6. Steady'
  <2>1. Idles
    BY DEF Idles, AtWork
  <2>2. Untouched
    BY <1>1 DEF Untouched
  <2>. QED
    BY <1>1, <2>1, <2>2, GoesAround
<1>. QED
  BY <1>2, <1>3, <1>4, <1>5, <1>6 DEF MusicIInv

LEMMA MusicJoinKeeps ==
  ASSUME MusicIInv, MusicJoin
  PROVE  MusicIInv'
<1>0. MusicTyped /\ UNCHANGED <<proc, lava, link, ended, sent, issued, voiced, doubt>>
  BY DEF MusicJoin, MusicIInv
<1>1. PICK n \in 1..MaxPlayers : Reach(n) /\ player' = Set(n, "stale", FALSE)
  BY DEF MusicJoin
<1>2. PlayerBut(n, {"stale"})
  BY <1>0, <1>1, PlayerSet
<1>3. /\ player' \in [1..MaxPlayers -> PlayerType] /\ \A m \in (1..MaxPlayers) \ {n} : player'[m] = player[m]
      /\ player'[n].session = player[n].session /\ player'[n].token = player[n].token
      /\ player'[n].current = player[n].current /\ player'[n].queue = player[n].queue /\ player'[n].set = player[n].set
  BY <1>2 DEF PlayerBut, PlayerField
<1>. QED
  BY <1>0, <1>1, <1>3, ReachIs, Around

LEMMA MusicModeKeeps ==
  ASSUME MusicIInv, MusicMode
  PROVE  MusicIInv'
<1>0. MusicTyped /\ UNCHANGED <<proc, lava, link, ended, sent, issued, voiced, doubt>>
  BY DEF MusicMode, MusicIInv
<1>1. PICK n \in 1..MaxPlayers :
          \/ /\ Reach(n)
             /\ \/ \E mode \in {"off", "track", "queue"} :
                      player' = [player EXCEPT ![n].loop = mode, ![n].stale = FALSE]
                \/ player' = [player EXCEPT ![n].shuffle = ~player[n].shuffle, ![n].stale = FALSE]
          \/ /\ n = live /\ UNCHANGED live
             /\ player' = Cleared(n)
  BY DEF MusicMode
<1>2. ASSUME Reach(n), NEW mode \in LoopType, player' = [player EXCEPT ![n].loop = mode, ![n].stale = FALSE]
      PROVE  MusicIInv'
  <2>1. PlayerBut(n, {"loop", "stale"})
    BY <1>0, <1>2, ModeIs
  <2>2. /\ player' \in [1..MaxPlayers -> PlayerType] /\ \A m \in (1..MaxPlayers) \ {n} : player'[m] = player[m]
        /\ player'[n].session = player[n].session /\ player'[n].token = player[n].token
        /\ player'[n].current = player[n].current /\ player'[n].queue = player[n].queue /\ player'[n].set = player[n].set
    BY <2>1 DEF PlayerBut, PlayerField
  <2>. QED
    BY <1>0, <1>2, <2>2, ReachIs, Around
<1>3. ASSUME Reach(n), player' = [player EXCEPT ![n].shuffle = ~player[n].shuffle, ![n].stale = FALSE]
      PROVE  MusicIInv'
  <2>. PICK b \in BOOLEAN : b = ~player[n].shuffle
    OBVIOUS
  <2>1. PlayerBut(n, {"shuffle", "stale"})
    BY <1>0, <1>3, ModeIs
  <2>2. /\ player' \in [1..MaxPlayers -> PlayerType] /\ \A m \in (1..MaxPlayers) \ {n} : player'[m] = player[m]
        /\ player'[n].session = player[n].session /\ player'[n].token = player[n].token
        /\ player'[n].current = player[n].current /\ player'[n].queue = player[n].queue /\ player'[n].set = player[n].set
    BY <2>1 DEF PlayerBut, PlayerField
  <2>. QED
    BY <1>0, <1>3, <2>2, ReachIs, Around
<1>4. ASSUME n = live, live' = live, player' = Cleared(n) PROVE MusicIInv'
  <2>1. PlayerBut(n, {"queue"}) /\ player'[n].queue = <<>>
    <3>1. <<>> \in Seq(Track)
      BY EmptySeq
    <3>. QED
      BY <1>0, <1>4, <3>1, PlayerSet DEF Cleared
  <2>2. /\ player' \in [1..MaxPlayers -> PlayerType] /\ \A m \in (1..MaxPlayers) \ {n} : player'[m] = player[m]
        /\ player'[n].session = player[n].session /\ player'[n].token = player[n].token
        /\ player'[n].current = player[n].current /\ player'[n].set = player[n].set
    BY <2>1 DEF PlayerBut, PlayerField
  <2>. QED
    BY <1>0, <1>4, <2>1, <2>2, Around
<1>. QED
  BY <1>1, <1>2, <1>3, <1>4 DEF LoopType

LEMMA AgeKeeps ==
  ASSUME MusicIInv, Age
  PROVE  MusicIInv'
<1>0. MusicTyped /\ live \in 0..MaxPlayers /\ live # 0 /\ live' = live /\ UNCHANGED <<proc, lava, link, ended, sent, issued, voiced, doubt>>
  BY DEF Age, MusicIInv, MusicTyped
<1>1. PICK n \in 1..MaxPlayers : n = live
  BY <1>0, MusicNumbers
<1>2. PlayerBut(n, {"stale"})
  <2>1. player' = Set(n, "stale", TRUE)
    BY <1>1 DEF Age
  <2>. QED
    BY <1>0, <2>1, PlayerSet
<1>3. /\ player' \in [1..MaxPlayers -> PlayerType] /\ \A m \in (1..MaxPlayers) \ {n} : player'[m] = player[m]
      /\ player'[n].session = player[n].session /\ player'[n].token = player[n].token
      /\ player'[n].current = player[n].current /\ player'[n].queue = player[n].queue /\ player'[n].set = player[n].set
  BY <1>2 DEF PlayerBut, PlayerField
<1>. QED
  BY <1>0, <1>1, <1>3, Around

LEMMA DialKeeps ==
  ASSUME MusicIInv, Dial
  PROVE  MusicIInv'
<1>1. /\ MusicTyped /\ Singly /\ Issued /\ SweptIsEmpty /\ VoiceKnown /\ Steady
      /\ link = "down" /\ link' = "dialed"
      /\ UNCHANGED <<player, live, proc, lava, ended, sent, issued, voiced, doubt>>
  BY DEF MusicIInv, Dial
<1>2. MusicTyped'
  BY <1>1 DEF MusicTyped
<1>3. Singly' /\ Issued' /\ SweptIsEmpty' /\ VoiceKnown'
  <2>1. Singly' /\ Issued'
    BY <1>1, SinglyStays DEF SameTracks
  <2>. QED
    BY <1>1, <2>1 DEF SweptIsEmpty, VoiceKnown
<1>4. Steady'
  <2>1. Idles /\ Untouched
    BY <1>1 DEF Idles, AtWork, Untouched
  <2>. QED
    BY <1>1, <2>1, GoesAround
<1>. QED
  BY <1>2, <1>3, <1>4 DEF MusicIInv

(* p sends the voice connection's two halves, or is about to.                *)
LEMMA Aside ==
  ASSUME MusicIInv, NEW p \in Proc, proc[p].pc \in {"idle", "voice"}, WorkBut(p, WorkField),
         proc'[p].pc \in {"idle", "voice"}, InHand(proc'[p]), Held(proc'[p]) = NoTrack,
         player' \in [1..MaxPlayers -> PlayerType], SameTracks,
         live # 0 => player'[live].set = player[live].set,
         UNCHANGED <<live, lava, link, ended, issued, doubt>>, voiced' \in 0..MaxVoice,
         sent' \subseteq VoiceMsg, VoiceKnown'
  PROVE  MusicIInv'
<1>1. /\ MusicTyped /\ Singly /\ Issued /\ SweptIsEmpty /\ Steady
      /\ proc' \in [Proc -> WorkType] /\ \A q \in Proc \ {p} : proc'[q] = proc[q]
  BY DEF MusicIInv, WorkBut
<1>2. MusicTyped'
  <2>1. \A q \in Proc : InHand(proc'[q])
    BY <1>1 DEF MusicTyped
  <2>. QED
    BY <1>1, <2>1 DEF MusicTyped
<1>3. Singly' /\ Issued'
  BY <1>1, MusicNumbers, SinglyStays
<1>4. SweptIsEmpty'
  BY <1>1 DEF SweptIsEmpty, SameTracks
<1>5. Steady'
  <2>1. Idles
    BY <1>1 DEF Idles, AtWork
  <2>2. live \in 0..MaxPlayers /\ (live # 0 => live \in 1..MaxPlayers)
    BY <1>1, MusicNumbers DEF MusicTyped
  <2>3. Untouched
    BY <2>2 DEF Untouched, SameTracks
  <2>. QED
    BY <1>1, <2>1, <2>3, GoesAround
<1>. QED
  BY <1>2, <1>3, <1>4, <1>5 DEF MusicIInv

LEMMA SendVoiceKeeps ==
  ASSUME MusicIInv, NEW p \in Proc, SendVoice(p)
  PROVE  MusicIInv'
<1>0. /\ proc[p].pc = "voice" /\ player' = player /\ UNCHANGED <<live, lava, link, ended, issued, voiced, doubt>>
      /\ MusicTyped /\ VoiceKnown /\ sent \subseteq VoiceMsg /\ voiced \in 0..MaxVoice
      /\ player \in [1..MaxPlayers -> PlayerType]
  BY DEF SendVoice, MusicIInv, MusicTyped
<1>1. WorkBut(p, WorkField) /\ proc'[p] = Idle
  BY <1>0, DoneIs DEF SendVoice
<1>2. proc[p].session \in 0..MaxVoice /\ proc[p].token \in 0..MaxVoice
  <2>1. proc[p] \in WorkType
    BY <1>0 DEF MusicTyped
  <2>. QED
    BY <2>1, WorkParts
<1>3. /\ sent \subseteq sent' /\ sent' \subseteq VoiceMsg
      /\ \A s, t : Tried(sent, s, t) => Tried(sent', s, t)
      /\ proc[p].session # 0 /\ proc[p].token # 0 /\ link # "down" => Tried(sent', proc[p].session, proc[p].token)
  BY <1>0, <1>2, VoiceTries DEF SendVoice
<1>4. VoiceKnown'
  <2>0. \A q \in Proc \ {p} : proc'[q] = proc[q]
    BY <1>1 DEF WorkBut
  <2> SUFFICES ASSUME live # 0, player[live].session # 0, player[live].token # 0, link = "ready"
               PROVE  \/ Tried(sent', player[live].session, player[live].token)
                      \/ \E q \in Proc : /\ proc'[q].pc \in {"voice", "resync"}
                                         /\ proc'[q].session = player[live].session /\ proc'[q].token = player[live].token
    BY <1>0 DEF VoiceKnown
  <2>1. CASE Tried(sent, player[live].session, player[live].token)
    BY <1>3, <2>1
  <2>2. ASSUME NEW q \in Proc, proc[q].pc \in {"voice", "resync"},
               proc[q].session = player[live].session, proc[q].token = player[live].token
        PROVE  \/ Tried(sent', player[live].session, player[live].token)
               \/ \E o \in Proc : /\ proc'[o].pc \in {"voice", "resync"}
                                  /\ proc'[o].session = player[live].session /\ proc'[o].token = player[live].token
    BY <1>3, <2>0, <2>2
  <2>. QED
    BY <1>0, <2>1, <2>2 DEF VoiceKnown
<1>5. InHand(proc'[p]) /\ Held(proc'[p]) = NoTrack /\ proc'[p].pc = "idle" /\ SameTracks
  BY <1>0, <1>1, IdleTyped, IdleInHand DEF SameTracks
<1>. QED
  BY <1>0, <1>1, <1>3, <1>4, <1>5, Aside

LEMMA VoiceStateKeeps ==
  ASSUME MusicIInv, NEW p \in Proc, VoiceState(p)
  PROVE  MusicIInv'
<1>0. /\ proc[p].pc = "idle" /\ live # 0 /\ UNCHANGED <<live, lava, link, ended, sent, issued, doubt>>
      /\ voiced < MaxVoice /\ voiced' = voiced + 1
      /\ MusicTyped /\ VoiceKnown /\ sent \subseteq VoiceMsg /\ voiced \in 0..MaxVoice /\ live \in 0..MaxPlayers
      /\ proc \in [Proc -> WorkType] /\ InHand(proc[p])
  BY DEF VoiceState, MusicIInv, MusicTyped
<1>1. PICK n \in 1..MaxPlayers : n = live
  BY <1>0, MusicNumbers
<1>2. voiced' \in 0..MaxVoice /\ 0 \in 0..MaxVoice
  BY <1>0, MusicNumbers
<1>3. PICK session \in {0, voiced'} :
          /\ player' = Set(n, "session", session)
          /\ \/ session = 0 /\ UNCHANGED proc
             \/ VoiceSend(p, n, session, player[n].token)
  BY <1>1 DEF VoiceState
<1>4. PlayerBut(n, {"session"}) /\ player'[n].session = session
  BY <1>0, <1>2, <1>3, PlayerSet
<1>5. /\ player' \in [1..MaxPlayers -> PlayerType] /\ player'[n].token = player[n].token /\ player'[n].set = player[n].set
      /\ SameTracks
  BY <1>4 DEF PlayerBut, PlayerField, SameTracks
<1>6. CASE session = 0 /\ UNCHANGED proc
  <2>1. MusicTyped'
    BY <1>0, <1>2, <1>5, <1>6 DEF MusicTyped
  <2>2. VoiceKnown'
    BY <1>0, <1>1, <1>4, <1>6 DEF VoiceKnown
  <2>3. Singly' /\ Issued' /\ SweptIsEmpty'
    <3>1. Singly' /\ Issued'
      BY <1>0, <1>5, <1>6, SinglyStays DEF MusicIInv
    <3>. QED
      BY <1>0, <1>5, <3>1 DEF MusicIInv, SweptIsEmpty, SameTracks
  <2>4. Steady'
    <3>1. Idles /\ Untouched
      BY <1>0, <1>1, <1>5, <1>6 DEF Idles, AtWork, Untouched, SameTracks
    <3>. QED
      BY <1>0, <3>1, GoesAround DEF MusicIInv
  <2>. QED
    BY <2>1, <2>2, <2>3, <2>4 DEF MusicIInv
<1>7. CASE VoiceSend(p, n, session, player[n].token)
  <2>0. player[n].token \in 0..MaxVoice
    <3>1. player[n] \in PlayerType
      BY <1>0 DEF MusicTyped
    <3>. QED
      BY <3>1, PlayerParts
  <2>1. /\ WorkBut(p, WorkField) /\ proc'[p].op = "voice" /\ proc'[p].pc = "voice" /\ proc'[p].n = n
        /\ proc'[p].session = session /\ proc'[p].token = player[n].token /\ proc'[p].track = NoTrack
    BY <1>0, <1>2, <1>7, <2>0, VoiceSendIs
  <2>2. InHand(proc'[p]) /\ Held(proc'[p]) = NoTrack
    BY <2>1 DEF InHand, Held
  <2>3. VoiceKnown'
    BY <1>0, <1>1, <1>4, <1>5, <2>1 DEF VoiceKnown
  <2>. QED
    BY <1>0, <1>1, <1>2, <1>5, <2>1, <2>2, <2>3, Aside
<1>. QED
  BY <1>3, <1>6, <1>7

LEMMA VoiceServerKeeps ==
  ASSUME MusicIInv, NEW p \in Proc, VoiceServer(p)
  PROVE  MusicIInv'
<1>0. /\ proc[p].pc = "idle" /\ live # 0 /\ UNCHANGED <<live, lava, link, ended, sent, issued, doubt>>
      /\ voiced < MaxVoice /\ voiced' = voiced + 1
      /\ MusicTyped /\ VoiceKnown /\ sent \subseteq VoiceMsg /\ voiced \in 0..MaxVoice /\ live \in 0..MaxPlayers
  BY DEF VoiceServer, MusicIInv, MusicTyped
<1>1. PICK n \in 1..MaxPlayers : n = live
  BY <1>0, MusicNumbers
<1>2. PICK token \in 0..MaxVoice : token = voiced'
  BY <1>0, MusicNumbers
<1>3. player' = Set(n, "token", token) /\ VoiceSend(p, n, player[n].session, token)
  BY <1>1, <1>2 DEF VoiceServer
<1>4. PlayerBut(n, {"token"}) /\ player'[n].token = token
  BY <1>0, <1>3, PlayerSet
<1>5. /\ player' \in [1..MaxPlayers -> PlayerType] /\ player'[n].session = player[n].session /\ player'[n].set = player[n].set
      /\ SameTracks
  BY <1>4 DEF PlayerBut, PlayerField, SameTracks
<1>6. player[n].session \in 0..MaxVoice
  <2>1. player[n] \in PlayerType
    BY <1>0 DEF MusicTyped
  <2>. QED
    BY <2>1, PlayerParts
<1>7. /\ WorkBut(p, WorkField) /\ proc'[p].op = "voice" /\ proc'[p].pc = "voice" /\ proc'[p].n = n
      /\ proc'[p].session = player[n].session /\ proc'[p].token = token /\ proc'[p].track = NoTrack
  BY <1>0, <1>3, <1>6, VoiceSendIs
<1>8. InHand(proc'[p]) /\ Held(proc'[p]) = NoTrack
  BY <1>7 DEF InHand, Held
<1>9. VoiceKnown'
  BY <1>0, <1>1, <1>4, <1>5, <1>7 DEF VoiceKnown
<1>. QED
  BY <1>0, <1>1, <1>2, <1>5, <1>7, <1>8, <1>9, Aside

---------------------------------------------------------------------------
(* Lavalink, the websocket and the sweep.                                    *)
LEMMA DisconnectKeeps ==
  ASSUME MusicIInv, Disconnect
  PROVE  MusicIInv'
<1>1. /\ MusicTyped /\ Singly /\ Issued /\ SweptIsEmpty /\ Steady
      /\ link' = "down" /\ lava' = Silent /\ sent' = {} /\ ended' \in 0..ended /\ ended \in Nat
      /\ UNCHANGED <<player, live, proc, issued, voiced, doubt>>
  BY DEF MusicIInv, Disconnect, MusicTyped
<1>2. ended' \in Nat /\ (ended' # 0 => ended # 0)
  BY <1>1
<1>3. MusicTyped'
  BY <1>1, <1>2, SilentTyped DEF MusicTyped
<1>4. Singly' /\ Issued' /\ SweptIsEmpty' /\ VoiceKnown'
  <2>1. Singly' /\ Issued'
    BY <1>1, SinglyStays DEF SameTracks
  <2>. QED
    BY <1>1, <2>1 DEF SweptIsEmpty, VoiceKnown
<1>5. AtWork' = AtWork /\ Current' = Current /\ lava'.track = NoTrack /\ (Lull' <=> Lull) /\ Agree'
  BY <1>1, SilentTyped DEF AtWork, Current, Lull, Agree
<1>6. ASSUME doubt' = {} PROVE Clear'
  <2>1. Clear
    BY <1>1, <1>6 DEF Steady
  <2>2. AtWork = {} /\ ended' = 0 => Rest'
    BY <1>1, <1>5, <2>1 DEF Clear, Rest
  <2>3. \A q \in AtWork : Phase(proc[q])'
    <3>1. ASSUME NEW q \in AtWork PROVE Phase(proc[q])'
      <4>1. Phase(proc[q])
        BY <2>1 DEF Clear
      <4>. QED
        BY <1>1, <1>5, <4>1 DEF Phase, Rest
    <3>. QED
      BY <3>1
  <2>. QED
    BY <1>1, <1>2, <1>5, <2>1, <2>2, <2>3 DEF Clear
<1>7. ASSUME NEW q \in AtWork', proc'[q].alone PROVE Alone(q)'
  <2>1. Alone(q)
    BY <1>1, <1>5, <1>7 DEF Steady
  <2>. QED
    BY <1>1, <1>5, <2>1 DEF Alone
<1>8. Steady'
  BY <1>5, <1>6, <1>7 DEF Steady
<1>. QED
  BY <1>3, <1>4, <1>8 DEF MusicIInv

LEMMA TrackFinishesKeeps ==
  ASSUME MusicIInv, TrackFinishes
  PROVE  MusicIInv'
<1>1. /\ MusicTyped /\ Singly /\ Issued /\ SweptIsEmpty /\ VoiceKnown /\ Steady
      /\ link = "ready" /\ lava.track # NoTrack /\ ended' = ended + 1 /\ ended \in Nat
      /\ UNCHANGED <<player, live, link, sent, issued, voiced>>
      /\ doubt' = (IF AtWork # {} THEN doubt \cup {"overlap"} ELSE doubt)
      /\ lava \in [track : 0..MaxTracks, set : SetType]
  BY DEF MusicIInv, TrackFinishes, MusicTyped
<1>2. /\ proc' \in [Proc -> WorkType]
      /\ \A q \in Proc : ~proc'[q].alone /\ \A f \in WorkField \ {"alone"} : proc'[q][f] = proc[q][f]
  BY <1>1, FinishedIs DEF TrackFinishes
<1>3. \A q \in Proc : /\ proc'[q].op = proc[q].op /\ proc'[q].pc = proc[q].pc /\ proc'[q].n = proc[q].n
                      /\ proc'[q].track = proc[q].track /\ proc'[q].session = proc[q].session /\ proc'[q].token = proc[q].token
  BY <1>2 DEF WorkField
<1>4. lava' \in [track : 0..MaxTracks, set : SetType] /\ lava'.track = NoTrack
  <2>1. lava' = [lava EXCEPT !.track = NoTrack] /\ NoTrack \in 0..MaxTracks
    BY MusicNumbers DEF TrackFinishes
  <2>. QED
    BY <1>1, <2>1
<1>5. MusicTyped'
  <2>1. ASSUME NEW q \in Proc PROVE InHand(proc'[q])
    <3>1. InHand(proc[q])
      BY <1>1 DEF MusicTyped
    <3>. QED
      BY <1>3, <3>1 DEF InHand
  <2>. QED
    BY <1>1, <1>2, <1>4, <2>1 DEF MusicTyped
<1>6. Singly' /\ Issued' /\ SweptIsEmpty' /\ VoiceKnown'
  <2>1. \A q \in Proc : Held(proc'[q]) = Held(proc[q])
    BY <1>3 DEF Held
  <2>2. Singly' /\ Issued'
    BY <1>1, <2>1, SinglyStays DEF SameTracks
  <2>3. VoiceKnown'
    BY <1>1, <1>3, VoiceStays
  <2>. QED
    BY <1>1, <2>2, <2>3 DEF SweptIsEmpty
<1>7. AtWork' = AtWork /\ Current' = Current
  BY <1>1, <1>3 DEF AtWork, Current
<1>8. ASSUME doubt' = {} PROVE Clear'
  <2>1. AtWork = {} /\ Clear
    BY <1>1, <1>8 DEF Steady
  <2>2. ended = 0 /\ Current # NoTrack /\ live # 0
    BY <1>1, <2>1 DEF Clear, Agree, Current
  <2>3. ended' # 0
    BY <1>1
  <2>. QED
    BY <1>1, <1>4, <1>7, <2>1, <2>2, <2>3 DEF Clear
<1>9. Steady'
  BY <1>1, <1>2, <1>4, <1>7, <1>8 DEF Steady, AtWork
<1>. QED
  BY <1>5, <1>6, <1>9 DEF MusicIInv

LEMMA SweepIdleKeeps ==
  ASSUME MusicIInv, SweepIdle
  PROVE  MusicIInv'
<1>1. /\ MusicTyped /\ Singly /\ Issued /\ SweptIsEmpty /\ VoiceKnown /\ Steady
      /\ live # 0 /\ live' = 0 /\ Current = NoTrack /\ player[live].queue = <<>>
      /\ doubt' = (IF AtWork = {} THEN doubt ELSE doubt \cup {"overlap"})
      /\ UNCHANGED <<player, proc, lava, link, ended, sent, issued, voiced>>
  BY DEF MusicIInv, SweepIdle, IdleForLong, Current
<1>2. AtWork' = AtWork /\ Current' = NoTrack /\ Lull'
  BY <1>1 DEF AtWork, Current, Lull
<1>3. MusicTyped'
  BY <1>1, MusicNumbers DEF MusicTyped
<1>4. Singly' /\ Issued' /\ SweptIsEmpty' /\ VoiceKnown'
  <2>1. Singly' /\ Issued'
    BY <1>1, SinglyStays DEF SameTracks
  <2>. QED
    BY <1>1, <2>1 DEF SweptIsEmpty, VoiceKnown
<1>5. ASSUME doubt' = {} PROVE Clear'
  <2>1. AtWork = {} /\ Clear
    BY <1>1, <1>5 DEF Steady
  <2>2. ended = 0 /\ (link = "ready" => lava.track = NoTrack)
    BY <1>1, <2>1 DEF Clear, Agree
  <2>. QED
    BY <1>1, <1>2, <2>1, <2>2 DEF Clear, Agree, Rest
<1>6. ASSUME NEW q \in AtWork', proc'[q].alone PROVE Alone(q)'
  <2>1. Alone(q)
    BY <1>1, <1>2, <1>6 DEF Steady
  <2>. QED
    BY <1>1, <1>2, <2>1 DEF Alone
<1>7. Steady'
  BY <1>1, <1>5, <1>6 DEF Steady
<1>. QED
  BY <1>3, <1>4, <1>7 DEF MusicIInv

LEMMA TrackEndKeeps ==
  ASSUME MusicIInv, NEW p \in Proc, TrackEnd(p)
  PROVE  MusicIInv'
<1>1. /\ MusicTyped /\ Singly /\ Issued /\ SweptIsEmpty /\ VoiceKnown /\ Steady
      /\ proc[p].pc = "idle" /\ ended > 0 /\ ended' = ended - 1 /\ ended \in Nat /\ ended' \in Nat
      /\ UNCHANGED <<live, lava, link, sent, issued, voiced>>
      /\ live \in 0..MaxPlayers /\ lava \in [track : 0..MaxTracks, set : SetType]
  <2>1. ended > 0 /\ ended' = ended - 1 /\ proc[p].pc = "idle" /\ UNCHANGED <<live, lava, link, sent, issued, voiced>>
    BY DEF TrackEnd
  <2>2. MusicTyped
    BY DEF MusicIInv
  <2>3. ended \in Nat /\ live \in 0..MaxPlayers /\ lava \in [track : 0..MaxTracks, set : SetType]
    BY <2>2 DEF MusicTyped
  <2>4. ended' \in Nat
    BY <2>1, <2>3
  <2>. QED
    BY <2>1, <2>2, <2>3, <2>4 DEF MusicIInv
<1>2. CASE NothingEnded
  <2>0. UNCHANGED <<player, proc, doubt>>
    BY <1>2 DEF TrackEnd
  <2>1. MusicTyped'
    BY <1>1, <2>0 DEF MusicTyped
  <2>2. Singly' /\ Issued' /\ SweptIsEmpty' /\ VoiceKnown'
    <3>1. Singly' /\ Issued'
      BY <1>1, <2>0, SinglyStays DEF SameTracks
    <3>. QED
      BY <1>1, <2>0, <3>1 DEF SweptIsEmpty, VoiceKnown
  <2>3. AtWork' = AtWork /\ Current' = Current /\ (Lull' <=> Lull)
    BY <1>1, <2>0 DEF AtWork, Current, Lull
  <2>4. doubt # {}
    <3>1. ended # 0 /\ Current = NoTrack
      BY <1>1, <1>2 DEF NothingEnded, Current
    <3>. QED
      BY <1>1, <3>1 DEF Steady, Clear
  <2>5. ASSUME NEW q \in AtWork', proc'[q].alone PROVE Alone(q)'
    <3>1. Alone(q)
      BY <1>1, <2>0, <2>3, <2>5 DEF Steady
    <3>. QED
      BY <1>1, <2>0, <2>3, <3>1 DEF Alone
  <2>6. Steady'
    BY <1>1, <2>0, <2>4, <2>5 DEF Steady
  <2>. QED
    BY <2>1, <2>2, <2>6 DEF MusicIInv
<1>3. CASE ~NothingEnded
  <2>1. PICK n \in 1..MaxPlayers : n = live
    BY <1>1, <1>3, MusicNumbers DEF NothingEnded
  <2>2. PICK x \in PlayerType : x = player[n]
    BY <1>1 DEF MusicTyped
  <2>3. x.current \in 0..MaxTracks /\ x.loop \in LoopType /\ x.current # NoTrack /\ x.queue \in Seq(Track)
    BY <1>3, <2>1, <2>2, PlayerParts DEF NothingEnded
  <2>4. x.current \in Track /\ x.current \in 0..Blank /\ x.current # Blank
    BY <2>3, MusicNumbers
  <2>5. PICK pc \in {"read", "advance"} : pc = IF x.loop = "track" THEN "read" ELSE "advance"
    OBVIOUS
  <2>6. PICK alone \in BOOLEAN : alone = (AtWork = {} /\ ended = 1)
    OBVIOUS
  <2>7. PICK a : a = Begun("end", pc, n)
    OBVIOUS
  <2>8. a \in WorkType /\ a.op = "end" /\ a.pc = pc /\ a.n = n
    BY <2>7, BegunIs DEF Place
  <2>9. PICK it : it = [a EXCEPT !.track = x.current, !.loop = x.loop]
    OBVIOUS
  <2>10. it \in WorkType /\ it.op = "end" /\ it.pc = pc /\ it.n = n /\ it.track = x.current
    BY <2>3, <2>4, <2>8, <2>9 DEF WorkType
  <2>11. proc' = [q \in Proc |-> IF q = p THEN [it EXCEPT !.alone = alone] ELSE [proc[q] EXCEPT !.alone = FALSE]]
    <3>1. [it EXCEPT !.alone = alone] = [Idle EXCEPT !.op = "end", !.n = n, !.track = x.current, !.loop = x.loop,
                                                     !.alone = alone, !.pc = pc]
      BY <2>7, <2>9, IdleTyped DEF Begun, WorkType
    <3>2. proc' = [q \in Proc |-> IF q = p
                                  THEN [Idle EXCEPT !.op = "end", !.n = n, !.track = x.current, !.loop = x.loop,
                                                    !.alone = alone, !.pc = pc]
                                  ELSE [proc[q] EXCEPT !.alone = FALSE]]
      BY <1>3, <2>1, <2>2, <2>5, <2>6 DEF TrackEnd
    <3>. QED
      BY <3>1, <3>2
  <2>12. player' = TakeCurrent(n) /\ doubt' = IF alone THEN doubt ELSE doubt \cup {"overlap"}
    BY <1>3, <2>1, <2>6 DEF TrackEnd
  <2>13. Starts(p, it) /\ proc'[p].alone = alone
    BY <1>1, <2>10, <2>11, StartsIs
  <2>14. /\ proc' \in [Proc -> WorkType]
         /\ proc'[p].op = "end" /\ proc'[p].pc = pc /\ proc'[p].n = n /\ proc'[p].track = x.current
         /\ \A q \in Proc \ {p} : /\ proc'[q].pc = proc[q].pc /\ proc'[q].session = proc[q].session
                                  /\ proc'[q].token = proc[q].token /\ ~proc'[q].alone
    BY <2>10, <2>13 DEF Starts, WorkField
  <2>15. InHand(it) /\ Held(it) = x.current
    BY <2>3, <2>4, <2>5, <2>10 DEF InHand, Held
  <2>16. /\ \A q \in Proc : InHand(proc'[q])
         /\ \A q \in Proc \ {p} : Held(proc'[q]) = Held(proc[q])
         /\ Held(proc'[p]) = x.current
    BY <1>1, <2>10, <2>13, <2>15, StartsTyped
  <2>17. PlayerBut(n, {"current"}) /\ player'[n].current = NoTrack
    <3>1. NoTrack \in 0..MaxTracks
      BY MusicNumbers
    <3>. QED
      BY <1>1, <2>12, <3>1, PlayerSet DEF TakeCurrent
  <2>18. /\ player' \in [1..MaxPlayers -> PlayerType] /\ \A m \in (1..MaxPlayers) \ {n} : player'[m] = player[m]
         /\ player'[n].session = player[n].session /\ player'[n].token = player[n].token
         /\ player'[n].queue = player[n].queue /\ player'[n].set = player[n].set
    BY <2>17 DEF PlayerBut, PlayerField
  <2>19. MusicTyped'
    BY <1>1, <2>12, <2>14, <2>16, <2>18 DEF MusicTyped
  <2>20. Singly' /\ Issued'
    <3>1. Once(x.queue) /\ ~Within(x.current, x.queue) /\ ~Within(NoTrack, x.queue) /\ NoTrack \notin Track
      <4>1. ~Within(NoTrack, x.queue) /\ NoTrack \notin Track
        BY <2>3, MusicNumbers DEF Within
      <4>2. ~Within(x.current, x.queue)
        BY <1>1, <2>2 DEF Singly, CurrentOut, Within
      <4>3. Once(x.queue)
        BY <1>1, <2>2 DEF Singly, QueuedOnce, Once
      <4>. QED
        BY <4>1, <4>2, <4>3
    <3>2. \A u \in Track : u = player'[n].current \/ u = Held(proc'[p]) \/ Within(u, player'[n].queue) =>
              u = player[n].current \/ u = Held(proc[p]) \/ Within(u, player[n].queue)
      BY <2>2, <2>16, <2>17, <2>18, <3>1
    <3>3. issued <= issued'
      BY <1>1, MusicNumbers DEF MusicTyped
    <3>4. /\ Once(player'[n].queue) /\ ~Within(player'[n].current, player'[n].queue)
          /\ ~Within(Held(proc'[p]), player'[n].queue) /\ (Held(proc'[p]) \in Track => Held(proc'[p]) # player'[n].current)
      BY <2>2, <2>16, <2>17, <2>18, <3>1
    <3>. QED
      BY <1>1, <2>16, <2>18, <2>19, <3>2, <3>3, <3>4, Redealt
  <2>21. SweptIsEmpty'
    BY <1>1, <2>18 DEF SweptIsEmpty
  <2>22. VoiceKnown'
    <3>1. live # 0 => player'[live].session = player[live].session /\ player'[live].token = player[live].token
      BY <2>1, <2>18
    <3>. QED
      BY <1>1, <2>14, <3>1, VoiceStays
  <2>23. Steady'
    <3>1. link' # "ready" => lava'.track = NoTrack
      BY <1>1 DEF Steady
    <3>2. proc'[p].alone => AtWork = {}
      BY <2>6, <2>13
    <3>3. doubt' = {} => AtWork = {} /\ ended' = 0 /\ doubt = {}
      <4>1. alone => AtWork = {} /\ ended = 1
        BY <2>6
      <4>2. ended = 1 => ended' = 0
        BY <1>1
      <4>3. doubt' = {} => alone /\ doubt = {}
        BY <2>12
      <4>. QED
        BY <4>1, <4>2, <4>3
    <3>4. Clear => Phase(proc[p])'
      <4>1. Clear => lava.track = NoTrack
        BY <1>1 DEF Clear
      <4>2. Current' = NoTrack /\ live # 0
        BY <1>1, <2>1, <2>17, MusicNumbers DEF Current
      <4>. QED
        BY <1>1, <2>1, <2>5, <2>14, <4>1, <4>2 DEF Phase
    <3>. QED
      BY <1>1, <2>5, <2>12, <2>14, <3>1, <3>2, <3>3, <3>4, Begins
  <2>. QED
    BY <2>19, <2>20, <2>21, <2>22, <2>23 DEF MusicIInv
<1>. QED
  BY <1>2, <1>3

(* The tracks of one play command, numbered as they are asked for, keep      *)
(* apart from each other and from those that wait.                           *)
LEMMA Ahead ==
  ASSUME NEW q \in Seq(Track), NEW t \in Track, Once(q), ~Within(t, q), NEW r, r = <<t>> \o q
  PROVE  r \in Seq(Track) /\ Once(r) /\ \A u : Within(u, r) => u = t \/ Within(u, q)
<1>1. r \in Seq(Track) /\ Len(r) = Len(q) + 1 /\ Len(q) \in Nat /\ r[1] = t
  OBVIOUS
<1>2. ASSUME NEW i \in 1..Len(r), i # 1 PROVE i - 1 \in 1..Len(q) /\ r[i] = q[i - 1]
  <2>1. i - 1 \in 1..Len(q) /\ i = (i - 1) + 1
    BY <1>1, <1>2
  <2>2. \A j \in 1..Len(q) : r[j + 1] = q[j]
    BY <1>1
  <2>. QED
    BY <2>1, <2>2
<1>3. \A i \in 1..Len(r) : i # 1 => r[i] # t
  BY <1>2 DEF Within
<1>4. ASSUME NEW i \in 1..Len(r), NEW j \in 1..Len(r), r[i] = r[j] PROVE i = j
  <2>1. CASE i = 1 \/ j = 1
    BY <1>1, <1>3, <1>4, <2>1
  <2>2. CASE i # 1 /\ j # 1
    <3>1. i - 1 = j - 1
      BY <1>2, <1>4, <2>2 DEF Once
    <3>. QED
      BY <1>1, <3>1
  <2>. QED
    BY <2>1, <2>2
<1>5. \A u : Within(u, r) => u = t \/ Within(u, q)
  BY <1>1, <1>2 DEF Within
<1>. QED
  BY <1>1, <1>4, <1>5 DEF Once

LEMMA TwoTracks ==
  ASSUME NEW a \in Track, NEW b \in Track
  PROVE  Head(<<a, b>>) = a /\ Tail(<<a, b>>) = <<b>>
OBVIOUS

LEMMA QueuedIs ==
  ASSUME NEW q \in Seq(Track), Once(q), NEW last \in Nat, \A i \in 1..Len(q) : q[i] <= last,
         NEW count \in 1..2, last + count \in 0..MaxTracks, NEW top \in BOOLEAN,
         NEW tracks, tracks = [i \in 1..count |-> last + i], NEW r, r = Queued(q, tracks, top)
  PROVE  /\ r \in Seq(Track) /\ Once(r)
         /\ \A u : Within(u, r) => Within(u, q) \/ (u \in Track /\ last < u /\ u <= last + count)
<1>1. PICK a \in Track : a = last + 1
  BY MusicNumbers
<1>2. last < a /\ a <= last + count
  BY <1>1
<1>3. ~Within(a, q) /\ ~Within(last + 2, q)
  <2>1. \A i \in 1..Len(q) : q[i] \in Nat
    BY MusicNumbers
  <2>2. \A i \in 1..Len(q) : q[i] # last + 1 /\ q[i] # last + 2
    BY <2>1
  <2>. QED
    BY <1>1, <2>2 DEF Within
<1>4. CASE count = 1
  <2>1. tracks = <<a>> /\ Head(tracks) = a /\ Tail(tracks) = <<>>
    BY <1>1, <1>4
  <2>2. CASE top
    <3>1. PICK s : s = <<a>> \o q
      OBVIOUS
    <3>2. s \in Seq(Track) /\ Once(s) /\ \A u : Within(u, s) => u = a \/ Within(u, q)
      BY <1>3, <3>1, Ahead
    <3>3. r = s \o <<>>
      BY <2>1, <2>2, <3>1 DEF Queued
    <3>4. r = s
      BY <3>2, <3>3
    <3>. QED
      BY <1>2, <3>2, <3>4
  <2>3. CASE ~top
    <3>1. r = Append(q, a)
      BY <1>3, <2>1, <2>3, Looped DEF Queued
    <3>. QED
      BY <1>2, <1>3, <3>1, Looped, ZenonT(30)
  <2>. QED
    BY <2>2, <2>3
<1>5. CASE count = 2
  <2>1. PICK b \in Track : b = last + 2
    BY <1>5, MusicNumbers
  <2>2. last < b /\ b <= last + count /\ a # b
    BY <1>1, <1>5, <2>1
  <2>3. tracks = <<a, b>>
    BY <1>1, <1>5, <2>1
  <2>4. Head(tracks) = a /\ Tail(tracks) = <<b>>
    BY <2>3, TwoTracks
  <2>5. CASE top
    <3>1. PICK s : s = <<a>> \o q
      OBVIOUS
    <3>2. s \in Seq(Track) /\ Once(s) /\ \A u : Within(u, s) => u = a \/ Within(u, q)
      BY <1>3, <3>1, Ahead
    <3>3. ~Within(b, s)
      BY <1>3, <2>1, <2>2, <3>2
    <3>4. r = s \o <<b>>
      BY <2>4, <2>5, <3>1 DEF Queued
    <3>5. r = Append(s, b)
      BY <3>2, <3>3, <3>4, Looped
    <3>. QED
      BY <1>2, <2>2, <3>2, <3>3, <3>5, Looped
  <2>6. CASE ~top
    <3>1. PICK s : s = Append(q, a)
      OBVIOUS
    <3>2. s \in Seq(Track) /\ Once(s) /\ (\A u : Within(u, s) => u = a \/ Within(u, q)) /\ s = q \o <<a>>
      BY <1>3, <3>1, Looped
    <3>3. ~Within(b, s)
      BY <1>3, <2>1, <2>2, <3>2
    <3>4. r = s \o <<b>>
      <4>1. r = q \o <<a, b>>
        BY <2>3, <2>6 DEF Queued
      <4>2. <<a, b>> = <<a>> \o <<b>> /\ <<a>> \in Seq(Track) /\ <<b>> \in Seq(Track)
        OBVIOUS
      <4>3. (q \o <<a>>) \o <<b>> = q \o (<<a>> \o <<b>>)
        BY <4>2, ConcatAssociative
      <4>. QED
        BY <3>2, <4>1, <4>2, <4>3
    <3>5. r = Append(s, b)
      BY <3>2, <3>3, <3>4, Looped
    <3>. QED
      BY <1>2, <2>2, <3>2, <3>3, <3>5, Looped
  <2>. QED
    BY <2>5, <2>6
<1>. QED
  BY <1>4, <1>5

LEMMA MusicPlayKeeps ==
  ASSUME MusicIInv, NEW p \in Proc, NEW count \in 1..2, NEW top \in BOOLEAN, MusicPlay(p, count, top)
  PROVE  MusicIInv'
<1>1. /\ MusicTyped /\ Singly /\ Issued /\ SweptIsEmpty /\ VoiceKnown /\ Steady
      /\ proc[p].pc = "idle" /\ UNCHANGED <<lava, link, ended, sent, voiced>>
      /\ issued \in Nat /\ issued' = issued + count /\ issued' \in 0..MaxTracks /\ issued <= issued'
  <2>1. MusicTyped
    BY DEF MusicIInv
  <2>2. /\ issued + count <= MaxTracks /\ issued' = issued + count /\ proc[p].pc = "idle"
        /\ UNCHANGED <<lava, link, ended, sent, voiced>>
    BY DEF MusicPlay
  <2>3. issued \in Nat /\ issued' \in 0..MaxTracks /\ issued <= issued'
    BY <2>1, <2>2, MusicNumbers DEF MusicTyped
  <2>. QED
    BY <2>1, <2>2, <2>3 DEF MusicIInv
<1>2. PICK tracks : tracks = [i \in 1..count |-> issued + i]
  OBVIOUS
<1>3. PICK n \in 1..MaxPlayers :
        /\ Reach(n)
        /\ player' = [player EXCEPT ![n].stale = FALSE, ![n].queue = Queued(player[n].queue, tracks, top)]
        /\ IF player[n].current = NoTrack
           THEN Start(p, [Idle EXCEPT !.op = "play", !.pc = "pop", !.n = n])
           ELSE /\ UNCHANGED proc
                /\ doubt' = IF \E q \in Proc : proc[q].pc = "forget" /\ proc[q].op = "skip"
                            THEN doubt \cup {"overlap"} ELSE doubt
  BY <1>2 DEF MusicPlay
<1>4. PICK x \in PlayerType : x = player[n]
  BY <1>1 DEF MusicTyped
<1>5. x.queue \in Seq(Track) /\ x.current \in 0..MaxTracks
  BY PlayerParts
<1>6. PICK r : r = Queued(x.queue, tracks, top)
  OBVIOUS
<1>15. PICK waiting \in Seq(Track) : waiting = x.queue
  BY <1>5
<1>16. PICK last \in Nat : last = issued
  BY <1>1
<1>7. /\ r \in Seq(Track) /\ Once(r)
      /\ \A u : Within(u, r) => Within(u, x.queue) \/ (u \in Track /\ issued < u /\ u <= issued + count)
  <2>1. Once(x.queue) /\ \A i \in 1..Len(x.queue) : x.queue[i] <= issued
    BY <1>1, <1>4 DEF Singly, QueuedOnce, Once, Issued
  <2>2. Once(waiting) /\ (\A i \in 1..Len(waiting) : waiting[i] <= last) /\ last + count \in 0..MaxTracks
    BY <1>1, <1>15, <1>16, <2>1
  <2>3. tracks = [i \in 1..count |-> last + i] /\ r = Queued(waiting, tracks, top)
    BY <1>2, <1>6, <1>15, <1>16
  <2>4. /\ r \in Seq(Track) /\ Once(r)
        /\ \A u : Within(u, r) => Within(u, waiting) \/ (u \in Track /\ last < u /\ u <= last + count)
    BY <2>2, <2>3, QueuedIs
  <2>. QED
    BY <1>15, <1>16, <2>4
<1>8. PlayerBut(n, {"stale", "queue"}) /\ player'[n].queue = r
  <2>1. player' = [player EXCEPT ![n].stale = FALSE, ![n].queue = r]
    BY <1>3, <1>4, <1>6
  <2>. QED
    BY <1>1, <1>7, <2>1, PlayIs
<1>9. /\ player' \in [1..MaxPlayers -> PlayerType] /\ \A m \in (1..MaxPlayers) \ {n} : player'[m] = player[m]
      /\ player'[n].session = player[n].session /\ player'[n].token = player[n].token
      /\ player'[n].current = player[n].current /\ player'[n].set = player[n].set
  BY <1>8 DEF PlayerBut, PlayerField
<1>10. /\ live' = n /\ live' # 0 /\ live' \in 0..MaxPlayers
       /\ live = n \/ (live = 0 /\ player[n].queue = <<>> /\ player[n].current = NoTrack /\ player[n].session = 0)
  BY <1>1, <1>3, ReachIs
<1>11. SweptIsEmpty'
  BY <1>1, <1>9, <1>10 DEF SweptIsEmpty
<1>12. ASSUME MusicTyped', \A q \in Proc : Held(proc'[q]) = Held(proc[q]) \/ (q = p /\ Held(proc'[q]) = NoTrack) PROVE Singly' /\ Issued'
  <2>1. x.current # NoTrack => x.current \in Track /\ x.current <= issued
    BY <1>1, <1>4, <1>5, MusicNumbers DEF Issued
  <2>2. NoTrack \notin Track /\ \A u \in Track : u \in Nat
    BY MusicNumbers
  <2>3. ~Within(x.current, r)
    <3>1. ~Within(x.current, x.queue)
      BY <1>1, <1>4 DEF Singly, CurrentOut, Within
    <3>. QED
      BY <1>1, <1>7, <2>1, <2>2, <3>1
  <2>4. ASSUME Held(proc[p]) \in Track PROVE ~Within(Held(proc[p]), r) /\ Held(proc[p]) # x.current
    <3>1. ~Within(Held(proc[p]), x.queue) /\ Held(proc[p]) # x.current
      BY <1>1, <1>4, <2>4 DEF Singly, HeldOut, Within
    <3>2. Held(proc[p]) <= issued
      BY <1>1, <2>4 DEF Issued
    <3>. QED
      BY <1>1, <1>7, <2>2, <2>4, <3>1, <3>2
  <2>5. ASSUME Held(proc'[p]) \notin Track PROVE ~Within(Held(proc'[p]), r)
    <3>1. \A u : Within(u, r) => u \in Track
      BY <1>7 DEF Within
    <3>. QED
      BY <2>5, <3>1
  <2>6. ~Within(Held(proc'[p]), r) /\ (Held(proc'[p]) \in Track => Held(proc'[p]) # x.current)
    BY <1>12, <2>2, <2>4, <2>5
  <2>7. \A u \in Track : u = player'[n].current \/ u = Held(proc'[p]) \/ Within(u, player'[n].queue) =>
            \/ issued < u /\ u <= issued'
            \/ u = player[n].current \/ u = Held(proc[p]) \/ Within(u, player[n].queue)
    BY <1>1, <1>4, <1>7, <1>8, <1>9, <1>12, <2>2
  <2>8. \A q \in Proc \ {p} : Held(proc'[q]) = Held(proc[q])
    BY <1>12
  <2>9. /\ Once(player'[n].queue) /\ ~Within(player'[n].current, player'[n].queue)
        /\ ~Within(Held(proc'[p]), player'[n].queue) /\ (Held(proc'[p]) \in Track => Held(proc'[p]) # player'[n].current)
    BY <1>4, <1>7, <1>8, <1>9, <2>3, <2>6
  <2>. QED
    BY <1>1, <1>9, <1>12, <2>7, <2>8, <2>9, Redealt
<1>13. CASE player[n].current = NoTrack
  <2>1. PICK it : it = Begun("play", "pop", n)
    OBVIOUS
  <2>2. it \in WorkType /\ it.op = "play" /\ it.pc = "pop" /\ it.n = n /\ it.track = NoTrack
    BY <2>1, BegunIs DEF Place
  <2>3. Start(p, it)
    BY <1>3, <1>13, <2>1 DEF Begun
  <2>4. InHand(it) /\ Held(it) = NoTrack
    BY <2>2 DEF InHand, Held
  <2>5. /\ Starts(p, it) /\ (proc'[p].alone => AtWork = {} /\ ended = 0)
        /\ doubt' = IF AtWork = {} /\ ended = 0 THEN doubt ELSE doubt \cup {"overlap"}
    BY <1>1, <2>2, <2>3, StartIs
  <2>6. /\ \A q \in Proc : InHand(proc'[q])
        /\ \A q \in Proc \ {p} : Held(proc'[q]) = Held(proc[q])
        /\ Held(proc'[p]) = NoTrack
    BY <1>1, <2>2, <2>4, <2>5, StartsTyped
  <2>7. /\ proc' \in [Proc -> WorkType]
        /\ proc'[p].op = "play" /\ proc'[p].pc = "pop" /\ proc'[p].n = n
        /\ \A q \in Proc \ {p} : /\ proc'[q].pc = proc[q].pc /\ proc'[q].session = proc[q].session
                                 /\ proc'[q].token = proc[q].token /\ ~proc'[q].alone
    BY <2>2, <2>5 DEF Starts, WorkField
  <2>8. MusicTyped'
    BY <1>1, <1>9, <1>10, <2>5, <2>6, <2>7 DEF MusicTyped
  <2>9. Singly' /\ Issued'
    BY <1>12, <2>6, <2>8
  <2>10. VoiceKnown'
    BY <1>1, <1>9, <1>10, <2>7, VoiceStays
  <2>11. Steady'
    <3>1. link' # "ready" => lava'.track = NoTrack
      BY <1>1 DEF Steady
    <3>2. doubt' = {} => AtWork = {} /\ ended' = 0
      BY <1>1, <2>5
    <3>3. Phase(proc[p])'
      BY <1>10, <2>7 DEF Phase
    <3>. QED
      BY <1>1, <2>5, <2>7, <3>1, <3>2, <3>3, Begins
  <2>. QED
    BY <1>11, <2>8, <2>9, <2>10, <2>11 DEF MusicIInv
<1>14. CASE player[n].current # NoTrack
  <2>1. /\ live = n /\ live' = live /\ proc' = proc
        /\ doubt' = IF \E q \in Proc : proc[q].pc = "forget" /\ proc[q].op = "skip" THEN doubt \cup {"overlap"} ELSE doubt
    BY <1>3, <1>10, <1>14
  <2>2. MusicTyped'
    BY <1>1, <1>9, <1>10, <2>1 DEF MusicTyped
  <2>3. Singly' /\ Issued'
    BY <1>12, <2>1, <2>2
  <2>4. VoiceKnown'
    BY <1>1, <1>9, <2>1, VoiceStays
  <2>5. AtWork' = AtWork /\ Current' = Current /\ Current # NoTrack
    BY <1>9, <1>10, <1>14, <2>1 DEF AtWork, Current
  <2>6. ASSUME doubt' = {} PROVE Clear'
    <3>1. Clear /\ ~ \E q \in Proc : proc[q].pc = "forget" /\ proc[q].op = "skip"
      BY <1>1, <2>1, <2>6 DEF Steady
    <3>2. Rest' /\ (Agree => Agree')
      BY <1>1, <1>9, <2>1, <2>5 DEF Rest, Agree
    <3>3. ASSUME NEW q \in AtWork PROVE Phase(proc[q])'
      <4>1. Phase(proc[q]) /\ q \in Proc
        BY <3>1 DEF Clear, AtWork
      <4>2. ~(proc[q].pc \in {"forget", "destroy"} /\ proc[q].op = "skip")
        BY <2>5, <3>1, <4>1 DEF Phase
      <4>. QED
        BY <1>1, <1>9, <2>1, <2>5, <3>2, <4>1, <4>2 DEF Phase
    <3>. QED
      BY <1>1, <2>1, <2>5, <3>1, <3>2, <3>3 DEF Clear
  <2>7. ASSUME NEW q \in AtWork', proc'[q].alone PROVE Alone(q)'
    <3>1. Alone(q) /\ ~Lull
      BY <1>1, <1>10, <2>1, <2>5, <2>7 DEF Steady, Lull
    <3>. QED
      BY <2>1, <2>5, <3>1 DEF Alone
  <2>8. Steady'
    BY <1>1, <2>6, <2>7 DEF Steady
  <2>. QED
    BY <1>11, <2>2, <2>3, <2>4, <2>8 DEF MusicIInv
<1>. QED
  BY <1>13, <1>14

---------------------------------------------------------------------------
(* Every step.                                                               *)
LEMMA MusicInitIInv == MusicInit => MusicIInv
<1>. SUFFICES ASSUME MusicInit PROVE MusicIInv
  OBVIOUS
<1>1. /\ \A n \in 1..MaxPlayers : player[n].queue = <<>> /\ player[n].current = NoTrack
      /\ \A p \in Proc : proc[p].pc = "idle" /\ Held(proc[p]) \notin Track
      /\ live = 0 /\ issued = 0 /\ link = "down" /\ ended = 0 /\ lava.track = NoTrack
  BY NewTyped, IdleTyped, SilentTyped, IdleInHand DEF MusicInit
<1>2. \A n \in 1..MaxPlayers : \A i \in 1..Len(player[n].queue) : FALSE
  BY <1>1
<1>3. Singly /\ Issued
  <2>1. QueuedOnce /\ CurrentOnce /\ CurrentOut
    BY <1>1, <1>2 DEF QueuedOnce, CurrentOnce, CurrentOut
  <2>2. HeldOnce /\ HeldOut
    BY <1>1 DEF HeldOnce, HeldOut
  <2>3. Issued
    BY <1>1, <1>2, MusicNumbers DEF Issued
  <2>. QED
    BY <2>1, <2>2, <2>3 DEF Singly
<1>4. SweptIsEmpty /\ VoiceKnown
  BY <1>1 DEF SweptIsEmpty, VoiceKnown
<1>5. Steady
  <2>1. AtWork = {}
    BY <1>1 DEF AtWork
  <2>. QED
    BY <1>1, <2>1 DEF Steady, Clear, Agree, Rest
<1>. QED
  BY <1>3, <1>4, <1>5, MusicInitTyped DEF MusicIInv

LEMMA MusicNextIInv == MusicIInv /\ [MusicNext]_musicVars => MusicIInv'
<1>. SUFFICES ASSUME MusicIInv, [MusicNext]_musicVars PROVE MusicIInv'
  OBVIOUS
<1>1. ASSUME NEW p \in Proc,
             \/ \E count \in 1..2, top \in BOOLEAN : MusicPlay(p, count, top)
             \/ \E key \in Setting, value \in BOOLEAN : MusicSet(p, key, value)
             \/ MusicSkip(p) \/ MusicStop(p) \/ TrackEnd(p)
      PROVE  MusicIInv'
  BY <1>1, MusicPlayKeeps, MusicSetKeeps, MusicSkipKeeps, MusicStopKeeps, TrackEndKeeps
<1>2. ASSUME NEW p \in Proc,
             \/ PlayPop(p) \/ StartRead(p) \/ StartPush(p) \/ StartShow(p)
             \/ SkipPop(p) \/ StopForget(p) \/ StopDestroy(p) \/ StopClear(p)
             \/ EndAdvance(p) \/ SetPush(p) \/ SetStore(p)
      PROVE  MusicIInv'
  BY <1>2, PlayPopKeeps, StartReadKeeps, StartPushKeeps, StartShowKeeps, SkipPopKeeps, StopForgetKeeps,
     StopDestroyKeeps, StopClearKeeps, EndAdvanceKeeps, SetPushKeeps, SetStoreKeeps
<1>3. ASSUME NEW p \in Proc, VoiceState(p) \/ VoiceServer(p) \/ SendVoice(p) PROVE MusicIInv'
  BY <1>3, VoiceStateKeeps, VoiceServerKeeps, SendVoiceKeeps
<1>4. ASSUME NEW p \in Proc, Ready(p) \/ ResyncVoice(p) \/ ResyncPush(p) PROVE MusicIInv'
  BY <1>4, ReadyKeeps, ResyncVoiceKeeps, ResyncPushKeeps
<1>5. ASSUME MusicJoin \/ MusicMode \/ Disconnect \/ Dial \/ TrackFinishes \/ Age \/ SweepIdle PROVE MusicIInv'
  BY <1>5, MusicJoinKeeps, MusicModeKeeps, DisconnectKeeps, DialKeeps, TrackFinishesKeeps, AgeKeeps, SweepIdleKeeps
<1>6. CASE UNCHANGED musicVars
  <2>1. MusicTyped' /\ Singly' /\ Issued'
    BY <1>6 DEF MusicIInv, musicVars, MusicTyped, Singly, QueuedOnce, CurrentOnce, CurrentOut, HeldOnce, HeldOut, Issued
  <2>2. SweptIsEmpty' /\ VoiceKnown'
    BY <1>6 DEF MusicIInv, musicVars, SweptIsEmpty, VoiceKnown
  <2>3. Steady'
    <3>1. Idles /\ Untouched
      BY <1>6 DEF musicVars, Idles, Untouched, AtWork
    <3>. QED
      BY <1>6, <3>1, GoesAround DEF MusicIInv, musicVars
  <2>. QED
    BY <2>1, <2>2, <2>3 DEF MusicIInv
<1>. QED
  BY <1>1, <1>2, <1>3, <1>4, <1>5, <1>6 DEF MusicNext

(* MusicIInv holds throughout, for the commands, ends of tracks, voice       *)
(* events, resyncs and sweeps of music.go and any failing calls.             *)
THEOREM MusicInvariance == MusicSpec => []MusicIInv
<1>. QED
  BY MusicInitIInv, MusicNextIInv, PTL DEF MusicSpec

---------------------------------------------------------------------------
(* What the invariant says of the system.                                    *)

(* No queue outgrows the tracks that were asked for, since it holds each of  *)
(* them once.                                                                *)
LEMMA QueueFits ==
  ASSUME NEW q \in Seq(Track), Once(q)
  PROVE  Len(q) \in 0..MaxTracks
<1>1. IsFiniteSet(Track) /\ Cardinality(Track) = MaxTracks /\ IsFiniteSet(1..Len(q)) /\ Cardinality(1..Len(q)) = Len(q)
  <2>1. MaxTracks \in Nat /\ Track = 1..MaxTracks
    BY MusicNumbers
  <2>2. Len(q) \in Nat /\ 0 \in Int
    OBVIOUS
  <2>3. IsFiniteSet(Track) /\ Cardinality(Track) = MaxTracks
    BY <2>1, FS_Interval
  <2>4. IsFiniteSet(1..Len(q)) /\ Cardinality(1..Len(q)) = Len(q)
    BY <2>2, FS_Interval, SMTT(30)
  <2>. QED
    BY <2>3, <2>4
<1>2. q \in [1..Len(q) -> Track] /\ Len(q) \in Nat
  OBVIOUS
<1>3. q \in Injection(1..Len(q), Track)
  BY <1>2 DEF Once, Injection, IsInjective
<1>4. Cardinality(1..Len(q)) <= Cardinality(Track)
  BY <1>1, <1>3, FS_Injection
<1>. QED
  BY <1>1, <1>2, <1>4

(* TypeOK: the fields of the players, of Lavalink's and of the connection    *)
(* stay within their types, whatever the commands, events and failures.      *)
THEOREM MusicTypeCorrect == MusicSpec => []MusicTypeOK
<1>1. MusicIInv => MusicTypeOK
  <2>. SUFFICES ASSUME MusicIInv PROVE MusicTypeOK
    OBVIOUS
  <2>1. MusicTyped /\ Singly
    BY DEF MusicIInv
  <2>2. ASSUME NEW n \in 1..MaxPlayers
        PROVE  player[n] \in
          [queue : UNION {[1..k -> Track] : k \in 0..MaxTracks}, current : Track \cup {NoTrack},
           set : [Setting -> BOOLEAN], loop : {"off", "track", "queue"}, shuffle : BOOLEAN,
           stale : BOOLEAN, session : 0..MaxVoice, token : 0..MaxVoice]
    <3>1. PICK x \in PlayerType : x = player[n]
      BY <2>1 DEF MusicTyped
    <3>2. Once(x.queue) /\ x.queue \in Seq(Track)
      BY <2>1, <3>1, PlayerParts DEF Singly, QueuedOnce, Once
    <3>3. x.queue \in UNION {[1..k -> Track] : k \in 0..MaxTracks}
      <4>1. PICK q \in Seq(Track) : q = x.queue
        BY <3>2
      <4>2. Len(q) \in 0..MaxTracks /\ q \in [1..Len(q) -> Track]
        BY <3>2, <4>1, QueueFits
      <4>. QED
        BY <4>1, <4>2
    <3>4. x \in [queue : UNION {[1..k -> Track] : k \in 0..MaxTracks}, current : 0..MaxTracks,
                 set : SetType, loop : LoopType, shuffle : BOOLEAN,
                 stale : BOOLEAN, session : 0..MaxVoice, token : 0..MaxVoice]
      BY <3>3 DEF PlayerType
    <3>. QED
      BY <3>1, <3>4, MusicNumbers DEF SetType, LoopType
  <2>3. player \in [1..MaxPlayers -> [queue : UNION {[1..k -> Track] : k \in 0..MaxTracks}, current : Track \cup {NoTrack},
           set : [Setting -> BOOLEAN], loop : {"off", "track", "queue"}, shuffle : BOOLEAN,
           stale : BOOLEAN, session : 0..MaxVoice, token : 0..MaxVoice]]
    <3>1. player = [n \in 1..MaxPlayers |-> player[n]]
      BY <2>1 DEF MusicTyped
    <3>. QED
      BY <2>2, <3>1
  <2>4. /\ live \in 0..MaxPlayers /\ link \in {"down", "dialed", "ready"}
        /\ sent \subseteq VoiceMsg
        /\ doubt \subseteq {"overlap", "refused", "unheard", "kept"}
        /\ lava \in [track : Track \cup {NoTrack}, set : [Setting -> BOOLEAN]]
    BY <2>1, MusicNumbers DEF MusicTyped, SetType
  <2>. QED
    BY <2>3, <2>4 DEF MusicTypeOK, VoiceMsg
<1>. QED
  BY <1>1, MusicInvariance, PTL

LEMMA OneAtMost ==
  ASSUME NEW S, NEW T, IsFiniteSet(T), S \subseteq T, \A x, y \in S : x = y
  PROVE  Cardinality(S) \in {0, 1} /\ (Cardinality(S) = 1 => \E x \in S : TRUE)
<1>1. CASE S = {}
  BY <1>1, FS_EmptySet
<1>2. CASE S # {}
  <2>1. PICK x : S = {x}
    BY <1>2
  <2>. QED
    BY <2>1, FS_Singleton
<1>. QED
  BY <1>1, <1>2

(* OnePlace: whatever commands, ends of tracks and resyncs do at once, no    *)
(* track is in two queues, in a queue and current, or in two goroutines'     *)
(* hands.                                                                    *)
THEOREM TracksInOnePlace == MusicSpec => []OnePlace
<1>1. MusicIInv => OnePlace
  <2>. SUFFICES ASSUME MusicIInv, NEW t \in Track
                PROVE  Cardinality({n \in 1..MaxPlayers : player[n].current = t})
                     + Cardinality({p \in Proc : t \in Hand(p)})
                     + Cardinality({x \in (1..MaxPlayers) \X (1..MaxTracks) :
                          x[2] <= Len(player[x[1]].queue) /\ player[x[1]].queue[x[2]] = t}) <= 1
    BY DEF OnePlace
  <2>0. MusicTyped /\ Singly /\ t # NoTrack
    BY MusicNumbers DEF MusicIInv
  <2>1. PICK A : A = {n \in 1..MaxPlayers : player[n].current = t}
    OBVIOUS
  <2>2. PICK B : B = {p \in Proc : t \in Hand(p)}
    OBVIOUS
  <2>3. PICK C : C = {x \in (1..MaxPlayers) \X (1..MaxTracks) :
                          x[2] <= Len(player[x[1]].queue) /\ player[x[1]].queue[x[2]] = t}
    OBVIOUS
  <2>4. \A p \in B : p \in Proc /\ Held(proc[p]) = t
    <3>1. ASSUME NEW p \in B PROVE p \in Proc /\ Held(proc[p]) = t
      <4>1. p \in Proc /\ t \in Hand(p)
        BY <2>2
      <4>. QED
        BY <4>1 DEF Hand, Held
    <3>. QED
      BY <3>1
  <2>5. \A x \in C : /\ x[1] \in 1..MaxPlayers /\ x[2] \in 1..Len(player[x[1]].queue)
                     /\ player[x[1]].queue[x[2]] = t /\ x = <<x[1], x[2]>>
    <3>1. ASSUME NEW x \in C
          PROVE  /\ x[1] \in 1..MaxPlayers /\ x[2] \in 1..Len(player[x[1]].queue)
                 /\ player[x[1]].queue[x[2]] = t /\ x = <<x[1], x[2]>>
      <4>1. /\ x[1] \in 1..MaxPlayers /\ x[2] \in 1..MaxTracks /\ x = <<x[1], x[2]>>
            /\ x[2] <= Len(player[x[1]].queue) /\ player[x[1]].queue[x[2]] = t
        BY <2>3
      <4>2. player[x[1]].queue \in Seq(Track)
        <5>1. player[x[1]] \in PlayerType
          BY <2>0, <4>1 DEF MusicTyped
        <5>. QED
          BY <5>1, PlayerParts
      <4>3. x[2] \in 1..Len(player[x[1]].queue)
        BY <4>1, <4>2, MusicNumbers
      <4>. QED
        BY <4>1, <4>3
    <3>. QED
      BY <3>1
  <2>6. Cardinality(A) \in {0, 1} /\ (Cardinality(A) = 1 => \E x \in A : TRUE)
    <3>1. IsFiniteSet(1..MaxPlayers)
      BY FS_Interval, MusicNumbers
    <3>2. \A x, y \in A : x = y
      BY <2>0, <2>1 DEF Singly, CurrentOnce
    <3>3. A \subseteq 1..MaxPlayers
      BY <2>1
    <3>. QED
      BY <3>1, <3>2, <3>3, OneAtMost
  <2>7. Cardinality(B) \in {0, 1} /\ (Cardinality(B) = 1 => \E x \in B : TRUE)
    <3>1. IsFiniteSet(Proc)
      BY MusicNumbers
    <3>2. \A x, y \in B : x = y
      BY <2>0, <2>4 DEF Singly, HeldOnce
    <3>3. B \subseteq Proc
      BY <2>2
    <3>. QED
      BY <3>1, <3>2, <3>3, OneAtMost
  <2>8. Cardinality(C) \in {0, 1} /\ (Cardinality(C) = 1 => \E x \in C : TRUE)
    <3>1. IsFiniteSet((1..MaxPlayers) \X (1..MaxTracks))
      <4>1. IsFiniteSet(1..MaxPlayers) /\ IsFiniteSet(1..MaxTracks)
        BY FS_Interval, MusicNumbers
      <4>. QED
        BY <4>1, FS_Product
    <3>2. \A x, y \in C : x = y
      <4>1. ASSUME NEW x \in C, NEW y \in C PROVE x[1] = y[1] /\ x[2] = y[2]
        BY <2>0, <2>5 DEF Singly, QueuedOnce
      <4>. QED
        BY <2>5, <4>1
    <3>3. C \subseteq (1..MaxPlayers) \X (1..MaxTracks)
      BY <2>3
    <3>. QED
      BY <3>1, <3>2, <3>3, OneAtMost
  <2>9. ASSUME NEW x \in A, NEW y \in B PROVE FALSE
    BY <2>0, <2>1, <2>4 DEF Singly, HeldOut
  <2>10. ASSUME NEW x \in A, NEW y \in C PROVE FALSE
    <3>1. x \in 1..MaxPlayers /\ player[x].current = t
      BY <2>1
    <3>. QED
      BY <2>0, <2>5, <3>1 DEF Singly, CurrentOut
  <2>11. ASSUME NEW x \in B, NEW y \in C PROVE FALSE
    BY <2>0, <2>4, <2>5 DEF Singly, HeldOut
  <2>12. Cardinality(A) + Cardinality(B) + Cardinality(C) <= 1
    <3>1. \/ Cardinality(A) = 0 /\ Cardinality(B) = 0
          \/ Cardinality(A) = 0 /\ Cardinality(C) = 0
          \/ Cardinality(B) = 0 /\ Cardinality(C) = 0
      BY <2>6, <2>7, <2>8, <2>9, <2>10, <2>11
    <3>. QED
      BY <2>6, <2>7, <2>8, <3>1
  <2>. QED
    BY <2>1, <2>2, <2>3, <2>12
<1>. QED
  BY <1>1, MusicInvariance, PTL

(* SweptIsEmpty: the idle sweep and whoever still holds a player that was    *)
(* swept leave no track in a queue nobody reaches any more.                  *)
THEOREM SweptStayEmpty == MusicSpec => []SweptIsEmpty
<1>1. MusicIInv => SweptIsEmpty
  BY DEF MusicIInv
<1>. QED
  BY <1>1, MusicInvariance, PTL

(* InStep: with nobody at work, the player shows what Lavalink plays, as     *)
(* long as no two goroutines met and no call that mattered failed.           *)
THEOREM PlayerInStep == MusicSpec => []InStep
<1>1. MusicIInv => InStep
  BY DEF MusicIInv, Steady, Clear, Agree, InStep, Calm
<1>. QED
  BY <1>1, MusicInvariance, PTL

(* NothingWaits: under the same conditions a player that plays nothing has   *)
(* nothing in its queue.                                                     *)
THEOREM QueueIsPlayed == MusicSpec => []NothingWaits
<1>1. MusicIInv => NothingWaits
  BY DEF MusicIInv, Steady, Clear, Rest, NothingWaits, Calm
<1>. QED
  BY <1>1, MusicInvariance, PTL

(* VoiceReaches: in whatever order the halves of a voice connection and the  *)
(* resyncs arrive, Lavalink has the latest pair once nobody is at work.      *)
THEOREM LatestPairSent == MusicSpec => []VoiceReaches
<1>1. MusicIInv => VoiceReaches
  BY DEF MusicIInv, VoiceKnown, Tried, VoiceReaches, Calm, AtWork
<1>. QED
  BY <1>1, MusicInvariance, PTL
=============================================================================
