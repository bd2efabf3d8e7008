----------------------------- MODULE MCInMemory -----------------------------
(* What the bot keeps in memory in front of a slower truth: the rows of its  *)
(* configuration, two keys in a map that holds one, and the player of a      *)
(* guild in front of Lavalink, with time for two players.  They share        *)
(* nothing, so each runs on its own from an initial state that picks it.  So *)
(* do the voice connection, which meets one track at most, and a cache whose *)
(* queries fail, or whose bot restarts, within a shorter time.               *)
EXTENDS ConfigCache, Music, TLC

VARIABLE memory

Init ==
    /\ memory \in {"cache", "failing", "music", "voice"} /\ CacheInit /\ MusicInit
    /\ memory \in {"music", "voice"} => \A a, b \in Accessor : access[a] = access[b]

Next ==
    /\ \/ memory \in {"cache", "failing"} /\ CacheNext /\ UNCHANGED musicVars
       \/ memory \in {"music", "voice"} /\ MusicNext /\ UNCHANGED cacheVars
    /\ memory = "cache" => UNCHANGED failures
    /\ memory = "failing" => now' < MaxTime
    /\ memory = "music" => UNCHANGED voiced
    /\ memory = "voice" => issued' < MaxTracks
    /\ UNCHANGED memory

Spec == Init /\ [][Next]_<<memory, cacheVars, musicVars>>

AnyOrder == Permutations(Key) \cup Permutations(Accessor) \cup Permutations(Proc)
=============================================================================
