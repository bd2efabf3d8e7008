--------------------------- MODULE MCConfigCache ---------------------------
(* Two keys in a map that holds one, two goroutines.                         *)
EXTENDS ConfigCache, TLC

AnyOrder == Permutations(Key) \cup Permutations(Accessor)
=============================================================================
