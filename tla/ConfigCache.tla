---------------------------- MODULE ConfigCache ----------------------------
(***************************************************************************)
(* The caches in front of guild_config and user_config.  GetGuildConfig    *)
(* and GetUserConfig look into a map, and on a miss read the row and put   *)
(* it into the map with an expiry; SaveGuildConfig and SaveUserConfig      *)
(* write the row and then the map; DeleteUserConfig deletes both.  A lock  *)
(* guards the map, but nothing spans a statement and the access to the map *)
(* that follows it.                                                        *)
(*                                                                         *)
(* The two caches are the same code, one without deletion.  What a row     *)
(* says does not matter here: the n-th write of the process stores version *)
(* n, and version 0 is the absence of a row.  A hit changes nothing and is *)
(* not an action; Served says what it returns.                             *)
(*                                                                         *)
(* Assumed of the scheduler: a goroutine whose write has succeeded reaches *)
(* the map within Lag.  Bounds: MaxTime, MaxWrites, MaxFailures (queries   *)
(* that fail and restarts).                                                *)
(***************************************************************************)
EXTENDS Naturals, FiniteSets, FiniteSetsExt

CONSTANTS Key,      \* guilds, or users
          Accessor, \* goroutines of commands, events and HTTP requests
          PosTTL,   \* life of a cached row (5 minutes)
          NegTTL,   \* life of a cached absence (30 seconds)
          Cap,      \* size at which a fill evicts (10000 and 50000)
          Lag,
          MaxTime, MaxWrites, MaxFailures

ASSUME CacheAssumption ==
    /\ IsFiniteSet(Key)
    /\ PosTTL \in Nat /\ NegTTL \in Nat /\ Lag \in Nat
    /\ Cap \in Nat \ {0}
    /\ MaxTime \in Nat /\ MaxWrites \in Nat /\ MaxFailures \in Nat

VARIABLES
    now,
    table,   \* the version of each row in the database
    writes,  \* versions written so far
    cache,   \* the map; an item not held is not in it
    access,  \* where each goroutine stands
    left,    \* history: when each version of a row was last replaced
    extra,   \* history: keys saves have put into the map since the last fill
    failures

cacheVars == <<now, table, writes, cache, access, left, extra, failures>>

Time == 0..MaxTime
Version == 0..MaxWrites

\* Mutant: an item lives one unit too long.
TTLOneMore(v) == IF v = 0 THEN NegTTL + 1 ELSE PosTTL + 1

TTL(v) == IF v = 0 THEN NegTTL ELSE PosTTL

LastExpiry == MaxTime + (IF NegTTL < PosTTL THEN PosTTL ELSE NegTTL)

\* alone: whoever put the item there met nobody else on this key.
NoItem == [held |-> FALSE, val |-> 0, exp |-> 0, alone |-> FALSE]
Item == [held : BOOLEAN, val : Version, exp : 0..LastExpiry, alone : BOOLEAN]
Entry(v, exp, alone) == [held |-> TRUE, val |-> v, exp |-> exp, alone |-> alone]

AtRest(k) == [pc |-> "idle", key |-> k, val |-> 0, since |-> 0, alone |-> FALSE]
Running == [pc : {"idle", "query", "fill", "put", "drop"}, key : Key, val : Version,
            since : Time, alone : BOOLEAN]

CacheInit ==
    /\ now = 0 /\ writes = 0 /\ failures = 0 /\ extra = {}
    /\ table = [k \in Key |-> 0]
    /\ cache = [k \in Key |-> NoItem]
    /\ access \in [Accessor -> {AtRest(k) : k \in Key}]
    /\ left = [k \in Key |-> [v \in Version |-> 0]]

Held == {k \in Key : cache[k].held}
Expired(k) == now > cache[k].exp
Served(k) == cache[k].held /\ ~Expired(k)

Fault == failures < MaxFailures /\ failures' = failures + 1

WorkingOn(k) == {q \in Accessor : access[q].pc # "idle" /\ access[q].key = k}

(* Goroutine p starts work on key k, and whoever is at work there knows.     *)
StartOn(p, k, pc, v) ==
    access' = [q \in Accessor |->
               IF q = p
               THEN [pc |-> pc, key |-> k, val |-> v, since |-> now, alone |-> WorkingOn(k) = {}]
               ELSE IF q \in WorkingOn(k) THEN [access[q] EXCEPT !.alone = FALSE] ELSE access[q]]

StopAt(p) == access' = [access EXCEPT ![p] = AtRest(access[p].key)]

(* A statement has stored version v.                                         *)
Replace(k, v) ==
    /\ table' = [table EXCEPT ![k] = v]
    /\ left' = [left EXCEPT ![k][table[k]] = now]

---------------------------------------------------------------------------
(* GetGuildConfig, GetUserConfig.  The clock is read before the map.         *)
ReadMiss(p, k) ==
    /\ access[p].pc = "idle" /\ ~Served(k)
    /\ StartOn(p, k, "query", 0)
    /\ UNCHANGED <<now, table, writes, cache, left, extra, failures>>

ReadQuery(p) ==
    /\ access[p].pc = "query"
    /\ \/ /\ access' = [access EXCEPT ![p].pc = "fill", ![p].val = table[access[p].key]]
          /\ UNCHANGED failures
       \/ Fault /\ StopAt(p)
    /\ UNCHANGED <<now, table, writes, cache, left, extra>>

\* Mutant: evicts only once the map has outgrown its cap.
SurvivorsOfOvergrowth ==
    IF Cardinality(Held) <= Cap THEN {Held}
    ELSE LET valid == {k \in Held : ~Expired(k)}
         IN IF Cardinality(valid) < Cap THEN {valid} ELSE kSubset(Cap - 1, valid)

(* evictLocked: nothing below the cap, else what has expired, and then       *)
(* arbitrary entries until there is room for one.                            *)
Survivors ==
    IF Cardinality(Held) < Cap THEN {Held}
    ELSE LET valid == {k \in Held : ~Expired(k)}
         IN IF Cardinality(valid) < Cap THEN {valid} ELSE kSubset(Cap - 1, valid)

\* Mutant: an absence is kept as long as a row.
ReadFillForLong(p) ==
    LET it == access[p]
    IN /\ it.pc = "fill"
       /\ \E kept \in Survivors :
             cache' = [k \in Key |-> IF k = it.key
                                     THEN Entry(it.val, it.since + PosTTL, it.alone)
                                     ELSE IF k \in kept THEN cache[k] ELSE NoItem]
       /\ StopAt(p)
       /\ extra' = {}
       /\ UNCHANGED <<now, table, writes, left, failures>>

ReadFill(p) ==
    LET it == access[p]
    IN /\ it.pc = "fill"
       /\ \E kept \in Survivors :
             cache' = [k \in Key |-> IF k = it.key
                                     THEN Entry(it.val, it.since + TTL(it.val), it.alone)
                                     ELSE IF k \in kept THEN cache[k] ELSE NoItem]
       /\ StopAt(p)
       /\ extra' = {}
       /\ UNCHANGED <<now, table, writes, left, failures>>

---------------------------------------------------------------------------
(* SaveGuildConfig, SaveUserConfig.  A failing UPSERT changes nothing.       *)
SaveRow(p, k) ==
    /\ access[p].pc = "idle" /\ writes < MaxWrites
    /\ writes' = writes + 1
    /\ Replace(k, writes + 1)
    /\ StartOn(p, k, "put", writes + 1)
    /\ UNCHANGED <<now, cache, extra, failures>>

\* Mutant: a save leaves it to the next reader to refresh the cache.
SaveForgettingCache(p) ==
    /\ access[p].pc = "put"
    /\ StopAt(p)
    /\ UNCHANGED <<now, table, writes, cache, left, extra, failures>>

(* No eviction here: a save may outgrow the cap.                             *)
SavePut(p) ==
    LET it == access[p]
    IN /\ it.pc = "put"
       /\ cache' = [cache EXCEPT ![it.key] = Entry(it.val, now + PosTTL, it.alone)]
       /\ extra' = extra \cup {it.key}
       /\ StopAt(p)
       /\ UNCHANGED <<now, table, writes, left, failures>>

(* DeleteUserConfig, whether or not there is a row.                          *)
DeleteRow(p, k) ==
    /\ access[p].pc = "idle"
    /\ IF table[k] = 0 THEN UNCHANGED <<table, left>> ELSE Replace(k, 0)
    /\ StartOn(p, k, "drop", 0)
    /\ UNCHANGED <<now, writes, cache, extra, failures>>

DeleteDrop(p) ==
    /\ access[p].pc = "drop"
    /\ cache' = [cache EXCEPT ![access[p].key] = NoItem]
    /\ StopAt(p)
    /\ UNCHANGED <<now, table, writes, left, extra, failures>>

---------------------------------------------------------------------------
(* janitorLoop, every five minutes.                                          *)
Janitor ==
    /\ \E k \in Held : Expired(k)
    /\ cache' = [k \in Key |-> IF cache[k].held /\ Expired(k) THEN NoItem ELSE cache[k]]
    /\ UNCHANGED <<now, table, writes, access, left, extra, failures>>

(* No write waits for longer than Lag for its turn at the map.               *)
Tick ==
    /\ now < MaxTime
    /\ \A p \in Accessor : access[p].pc = "put" => now < access[p].since + Lag
    /\ now' = now + 1
    /\ UNCHANGED <<table, writes, cache, access, left, extra, failures>>

Restart ==
    /\ Fault
    /\ cache' = [k \in Key |-> NoItem]
    /\ access' = [p \in Accessor |-> AtRest(access[p].key)]
    /\ extra' = {}
    /\ UNCHANGED <<now, table, writes, left>>

CacheNext ==
    \/ \E p \in Accessor, k \in Key : ReadMiss(p, k) \/ SaveRow(p, k) \/ DeleteRow(p, k)
    \/ \E p \in Accessor : ReadQuery(p) \/ ReadFill(p) \/ SavePut(p) \/ DeleteDrop(p)
    \/ Janitor \/ Tick \/ Restart

CacheSpec == CacheInit /\ [][CacheNext]_cacheVars

---------------------------------------------------------------------------
(* Types.                                                                    *)
CacheTypeOK ==
    /\ now \in Time /\ writes \in 0..MaxWrites /\ failures \in 0..MaxFailures
    /\ table \in [Key -> Version]
    /\ cache \in [Key -> Item]
    /\ access \in [Accessor -> Running]
    /\ left \in [Key -> [Version -> Time]]
    /\ extra \subseteq Key

(* What a hit returns was in the table less than one TTL ago, however reads, *)
(* saves and deletions of the row interleave: a reader counts the TTL from   *)
(* before its query.  A save counts it from after its UPSERT, which costs    *)
(* the Lag; but an absence is only ever cached by a reader.                  *)
BoundedStaleness ==
    \A k \in Key : LET v == cache[k].val IN
        Served(k) => \/ v = table[k]
                     \/ now <= left[k][v] + TTL(v) + (IF v = 0 THEN 0 ELSE Lag)

(* An item put there by somebody who met nobody else on its key is the row   *)
(* itself, as long as nobody is between writing that row and the map: only   *)
(* goroutines that cross on one key make the cache lie.                      *)
AloneIsExact ==
    \A k \in Key :
        Served(k) /\ cache[k].alone /\ (\A p \in WorkingOn(k) : access[p].pc \notin {"put", "drop"})
            => cache[k].val = table[k]

(* How far the map may exceed its cap: a fill brings it down to the cap, so  *)
(* only keys that saves have put there since come on top.                    *)
CacheBounded == Cardinality(Held) <= Cap + Cardinality(extra)

(* README: the caches carry size caps.                                       *)
CacheCapped == Cardinality(Held) <= Cap
=============================================================================
