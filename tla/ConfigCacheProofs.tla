-------------------------- MODULE ConfigCacheProofs --------------------------
(***************************************************************************)
(* Theorems about ConfigCache, for any keys, goroutines, lifetimes and     *)
(* cap.  The inductive invariant bounds the age of what a goroutine holds  *)
(* and of what the map holds by the same two facts: a version is the row   *)
(* itself, or it left the table no earlier than a known moment.            *)
(***************************************************************************)
EXTENDS ConfigCache, TLAPS, FiniteSetTheorems

USE CacheAssumption DEF CacheAssumption

Grace(v) == IF v = 0 THEN 0 ELSE Lag

(* Version v of key k was in the table at moment t, or has been since.       *)
InTableAt(k, v, t) == v = table[k] \/ t <= left[k][v]

(* What a goroutine holds was in the table when its clock was read or later; *)
(* only a save holds a version to put, and not for longer than Lag.          *)
HandInv ==
    \A p \in Accessor : LET it == access[p] IN
        /\ it.since <= now
        /\ it.pc \in {"fill", "put"} => InTableAt(it.key, it.val, it.since)
        /\ it.pc = "put" => it.val # 0 /\ now <= it.since + Lag

(* An item expires at most one TTL from now, and one TTL (and Lag) after the *)
(* version it holds left the table.                                          *)
ItemInv ==
    \A k \in Key : LET it == cache[k] IN
        it.held => /\ it.exp <= now + TTL(it.val)
                   /\ \/ it.val = table[k]
                      \/ it.exp <= left[k][it.val] + TTL(it.val) + Grace(it.val)

Writing(k) == \E p \in WorkingOn(k) : access[p].pc \in {"put", "drop"}

(* Two goroutines on one key are not alone, and what a lone reader or writer *)
(* is about to do to the map makes it agree with the row.                    *)
LoneInv ==
    /\ \A p, q \in Accessor : p # q /\ access[p].pc # "idle" /\ access[p].alone /\ access[q].pc # "idle"
                             => access[p].key # access[q].key
    /\ \A p \in Accessor : access[p].alone /\ access[p].pc \in {"fill", "put"}
                             => access[p].val = table[access[p].key]

(* What a lone goroutine has put into the map is the row, until somebody     *)
(* writes the row.                                                           *)
LoneItemInv ==
    \A k \in Key : cache[k].held /\ cache[k].alone /\ ~Writing(k) => cache[k].val = table[k]

(* Keys that no save has put there since the last fill respect the cap.      *)
CapInv == Cardinality(Held \ extra) <= Cap

Inv == CacheTypeOK /\ HandInv /\ ItemInv /\ LoneInv /\ LoneItemInv /\ CapInv

---------------------------------------------------------------------------
LEMMA Lifetimes ==
    /\ LastExpiry \in Nat
    /\ \A v \in Version : TTL(v) \in Nat /\ Grace(v) \in Nat /\ MaxTime + TTL(v) <= LastExpiry
BY DEF LastExpiry, TTL, Grace, Version

LEMMA InitInv == CacheInit => Inv
<1> SUFFICES ASSUME CacheInit PROVE Inv
  OBVIOUS
<1>1. \A p \in Accessor : access[p].pc = "idle" /\ access[p].since = 0 /\ ~access[p].alone
  BY DEF CacheInit, AtRest
<1>2. CacheTypeOK
  <2>1. NoItem \in Item
    BY Lifetimes DEF NoItem, Item, Version
  <2>2. \A k \in Key : AtRest(k) \in Running
    BY DEF AtRest, Running, Version, Time
  <2>. QED
    BY <2>1, <2>2 DEF CacheInit, CacheTypeOK, Time, Version
<1>3. Held = {}
  BY DEF CacheInit, Held, NoItem
<1>4. Cardinality(Held \ extra) = 0
  BY <1>3, FS_EmptySet
<1>. QED
  BY <1>1, <1>2, <1>4 DEF CacheInit, Inv, HandInv, ItemInv, LoneInv, LoneItemInv, CapInv, NoItem

---------------------------------------------------------------------------
(* The two ways a goroutine's state changes. *)

LEMMA Started ==
    ASSUME Inv, NEW p \in Accessor, NEW k \in Key, NEW pc \in {"query", "put", "drop"},
           NEW v \in Version, access[p].pc = "idle", StartOn(p, k, pc, v)
    PROVE  /\ access' \in [Accessor -> Running]
           /\ access'[p] = [pc |-> pc, key |-> k, val |-> v, since |-> now, alone |-> WorkingOn(k) = {}]
           /\ \A q \in Accessor \ {p} : /\ access'[q].pc = access[q].pc /\ access'[q].key = access[q].key
                                        /\ access'[q].val = access[q].val /\ access'[q].since = access[q].since
                                        /\ access'[q].alone => access[q].alone /\ q \notin WorkingOn(k)
<1> DEFINE it == [pc |-> pc, key |-> k, val |-> v, since |-> now, alone |-> WorkingOn(k) = {}]
<1>1. it \in Running
  BY DEF Inv, CacheTypeOK, Running
<1>2. \A q \in Accessor : access[q] \in Running /\ [access[q] EXCEPT !.alone = FALSE] \in Running
  BY DEF Inv, CacheTypeOK, Running
<1>3. access' = [q \in Accessor |-> IF q = p THEN it
                              ELSE IF q \in WorkingOn(k) THEN [access[q] EXCEPT !.alone = FALSE]
                              ELSE access[q]]
  BY DEF StartOn
<1>4. access' \in [Accessor -> Running] /\ access'[p] = it
  BY <1>1, <1>2, <1>3
<1>5. ASSUME NEW q \in Accessor \ {p}
      PROVE  /\ access'[q].pc = access[q].pc /\ access'[q].key = access[q].key
             /\ access'[q].val = access[q].val /\ access'[q].since = access[q].since
             /\ access'[q].alone => access[q].alone /\ q \notin WorkingOn(k)
  <2>1. CASE q \in WorkingOn(k)
    <3>1. access'[q] = [access[q] EXCEPT !.alone = FALSE]
      BY <1>3, <2>1
    <3>. QED
      BY <3>1, <1>2 DEF Running
  <2>2. CASE q \notin WorkingOn(k)
    BY <1>3, <2>2
  <2>. QED
    BY <2>1, <2>2
<1>. QED
  BY <1>4, <1>5

LEMMA Stopped ==
    ASSUME Inv, NEW p \in Accessor, StopAt(p)
    PROVE  /\ access' \in [Accessor -> Running]
           /\ access'[p] = AtRest(access[p].key)
           /\ \A q \in Accessor \ {p} : access'[q] = access[q]
<1>1. AtRest(access[p].key) \in Running
  BY DEF Inv, CacheTypeOK, Running, AtRest, Time, Version
<1>. QED
  BY <1>1 DEF Inv, CacheTypeOK, StopAt

LEMMA StoppedHands ==
    ASSUME Inv, NEW p \in Accessor, StopAt(p), UNCHANGED <<now, table, left>>
    PROVE  HandInv' /\ LoneInv'
<1>0. access'[p] = AtRest(access[p].key) /\ \A q \in Accessor \ {p} : access'[q] = access[q]
  BY Stopped
<1>1. access'[p].pc = "idle" /\ access'[p].since = 0 /\ \A q \in Accessor \ {p} : access'[q] = access[q]
  BY <1>0 DEF AtRest
<1>2. HandInv'
  BY <1>1 DEF Inv, CacheTypeOK, HandInv, InTableAt, Time
<1>. QED
  BY <1>1, <1>2 DEF Inv, LoneInv

(* Starting does not disturb the goroutines already at work, whose state     *)
(* says nothing of the new one; the new one is alone on its key.             *)
LEMMA StartedAlone ==
    ASSUME Inv, NEW p \in Accessor, NEW k \in Key, NEW pc \in {"query", "put", "drop"},
           NEW v \in Version, access[p].pc = "idle", StartOn(p, k, pc, v)
    PROVE  \A q, r \in Accessor : q # r /\ access'[q].pc # "idle" /\ access'[q].alone
                                 /\ access'[r].pc # "idle" => access'[q].key # access'[r].key
<1> DEFINE it == [pc |-> pc, key |-> k, val |-> v, since |-> now, alone |-> WorkingOn(k) = {}]
<1>a. /\ access'[p] = it
      /\ \A s \in Accessor \ {p} : /\ access'[s].pc = access[s].pc /\ access'[s].key = access[s].key
                                   /\ access'[s].val = access[s].val /\ access'[s].since = access[s].since
                                   /\ access'[s].alone => access[s].alone /\ s \notin WorkingOn(k)
  BY Started
<1>b. it.key = k /\ (it.alone => WorkingOn(k) = {})
  OBVIOUS
<1> SUFFICES ASSUME NEW q \in Accessor, NEW r \in Accessor, q # r, access'[q].pc # "idle",
                    access'[q].alone, access'[r].pc # "idle"
             PROVE  access'[q].key # access'[r].key
  OBVIOUS
<1>0. /\ access'[p].key = k /\ (access'[p].alone => WorkingOn(k) = {})
      /\ \A s \in Accessor \ {p} : /\ access'[s].pc = access[s].pc /\ access'[s].key = access[s].key
                                   /\ access'[s].alone => access[s].alone /\ s \notin WorkingOn(k)
  BY <1>a, <1>b
<1>c. \A s \in Accessor : WorkingOn(k) = {} /\ access[s].pc # "idle" => access[s].key # k
  BY DEF WorkingOn
<1>d. \A s \in Accessor : access[s].pc # "idle" /\ s \notin WorkingOn(k) => access[s].key # k
  BY DEF WorkingOn
<1>1. CASE q = p
  <2>1. r \in Accessor \ {p} /\ WorkingOn(k) = {}
    BY <1>0, <1>1
  <2>2. access[r].pc # "idle" /\ access'[r].key = access[r].key
    BY <1>0, <2>1
  <2>. QED
    BY <1>0, <1>1, <1>c, <2>1, <2>2
<1>2. CASE r = p
  <2>1. q \in Accessor \ {p}
    BY <1>2
  <2>2. q \notin WorkingOn(k) /\ access[q].pc # "idle" /\ access'[q].key = access[q].key
    BY <1>0, <2>1
  <2>. QED
    BY <1>0, <1>2, <1>d, <2>2
<1>3. CASE q # p /\ r # p
  <2>1. /\ access[q].pc # "idle" /\ access[q].alone /\ access[r].pc # "idle"
        /\ access'[q].key = access[q].key /\ access'[r].key = access[r].key
    BY <1>0, <1>3
  <2>. QED
    BY <2>1 DEF Inv, LoneInv
<1>. QED
  BY <1>1, <1>2, <1>3

---------------------------------------------------------------------------
(* Whatever takes keys out of the map respects the cap. *)
LEMMA FewerFit ==
    ASSUME Inv, (Held \ extra)' \subseteq Held \ extra
    PROVE  CapInv'
<1>1. IsFiniteSet(Held \ extra)
  BY FS_Subset DEF Held
<1>2. /\ Cardinality((Held \ extra)') <= Cardinality(Held \ extra)
      /\ Cardinality((Held \ extra)') \in Nat /\ Cardinality(Held \ extra) \in Nat
  BY <1>1, FS_Subset, FS_CardinalityType
<1>. QED
  BY <1>2 DEF Inv, CapInv

---------------------------------------------------------------------------
LEMMA ReadMissStep ==
    ASSUME Inv, NEW p \in Accessor, NEW k \in Key, ReadMiss(p, k)
    PROVE  Inv'
<1>0. /\ access[p].pc = "idle" /\ StartOn(p, k, "query", 0) /\ 0 \in Version
      /\ UNCHANGED <<now, table, writes, cache, left, extra, failures>>
  BY DEF ReadMiss, Version
<1>1. /\ access' \in [Accessor -> Running]
      /\ access'[p] = [pc |-> "query", key |-> k, val |-> 0, since |-> now, alone |-> WorkingOn(k) = {}]
      /\ \A q \in Accessor \ {p} : /\ access'[q].pc = access[q].pc /\ access'[q].key = access[q].key
                                   /\ access'[q].val = access[q].val /\ access'[q].since = access[q].since
                                   /\ access'[q].alone => access[q].alone /\ q \notin WorkingOn(k)
  BY <1>0, Started
<1>2. CacheTypeOK'
  BY <1>0, <1>1 DEF Inv, CacheTypeOK
<1>3. HandInv'
  BY <1>0, <1>1 DEF Inv, CacheTypeOK, HandInv, InTableAt, Time
<1>4. ItemInv' /\ CapInv'
  BY <1>0 DEF Inv, ItemInv, CapInv, Held
<1>5. LoneInv'
  <2>1. \A q \in Accessor : access'[q].alone /\ access'[q].pc \in {"fill", "put"}
                           => access'[q].val = table'[access'[q].key]
    BY <1>0, <1>1 DEF Inv, LoneInv
  <2>. QED
    BY <1>0, <2>1, StartedAlone DEF LoneInv
<1>6. LoneItemInv'
  <2>1. \A j \in Key : Writing(j) => Writing(j)'
    BY <1>0, <1>1 DEF Writing, WorkingOn
  <2>. QED
    BY <1>0, <2>1 DEF Inv, LoneItemInv
<1>. QED
  BY <1>2, <1>3, <1>4, <1>5, <1>6 DEF Inv

LEMMA ReadQueryStep ==
    ASSUME Inv, NEW p \in Accessor, ReadQuery(p)
    PROVE  Inv'
<1>0. access[p].pc = "query" /\ UNCHANGED <<now, table, writes, cache, left, extra>>
  BY DEF ReadQuery
<1>1. ItemInv' /\ CapInv'
  BY <1>0 DEF Inv, ItemInv, CapInv, Held
<1>2. CASE /\ access' = [access EXCEPT ![p].pc = "fill", ![p].val = table[access[p].key]]
           /\ UNCHANGED failures
  <2>1. access[p] \in Running /\ table[access[p].key] \in Version
    BY DEF Inv, CacheTypeOK, Running
  <2>2. /\ access'[p].pc = "fill" /\ access'[p].key = access[p].key /\ access'[p].since = access[p].since
        /\ access'[p].val = table[access[p].key] /\ access'[p].alone = access[p].alone
        /\ access'[p] \in Running
    BY <1>2, <2>1 DEF Inv, CacheTypeOK, Running
  <2>3. \A q \in Accessor \ {p} : access'[q] = access[q]
    BY <1>2 DEF Inv, CacheTypeOK
  <2>4. access' \in [Accessor -> Running]
    BY <1>2, <2>2, <2>3 DEF Inv, CacheTypeOK
  <2>5. CacheTypeOK' /\ HandInv'
    BY <1>0, <1>2, <2>2, <2>3, <2>4 DEF Inv, CacheTypeOK, HandInv, InTableAt
  <2>6. LoneInv'
    BY <1>0, <2>2, <2>3 DEF Inv, LoneInv
  <2>7. \A j \in Key : Writing(j) => Writing(j)'
    BY <1>0, <2>2, <2>3 DEF Writing, WorkingOn
  <2>. QED
    BY <1>0, <1>1, <2>5, <2>6, <2>7 DEF Inv, LoneItemInv
<1>3. CASE Fault /\ StopAt(p)
  <2>1. CacheTypeOK'
    BY <1>0, <1>3, Stopped DEF Inv, CacheTypeOK, Fault
  <2>2. \A j \in Key : Writing(j) => Writing(j)'
    BY <1>0, <1>3, Stopped DEF Writing, WorkingOn
  <2>. QED
    BY <1>0, <1>1, <1>3, <2>1, <2>2, StoppedHands DEF Inv, LoneItemInv
<1>. QED
  BY <1>2, <1>3 DEF ReadQuery

(* A fill makes room for its key, whatever saves have put into the map.      *)
LEMMA FillFits ==
    ASSUME Inv, NEW kept \in Survivors, NEW k \in Key
    PROVE  kept \subseteq Held /\ Cardinality(kept \cup {k}) <= Cap
<1>1. IsFiniteSet(Held)
  BY FS_Subset DEF Held
<1>2. kept \subseteq Held /\ Cardinality(kept) < Cap
  <2>1. CASE Cardinality(Held) < Cap
    BY <2>1 DEF Survivors
  <2>2. CASE ~(Cardinality(Held) < Cap)
    <3> DEFINE valid == {j \in Held : ~Expired(j)}
    <3>1. kept \in IF Cardinality(valid) < Cap THEN {valid} ELSE kSubset(Cap - 1, valid)
      BY <2>2 DEF Survivors
    <3>2. CASE Cardinality(valid) < Cap
      BY <3>1, <3>2
    <3>3. CASE ~(Cardinality(valid) < Cap)
      <4>1. kept \in SUBSET valid /\ Cardinality(kept) = Cap - 1
        BY <3>1, <3>3 DEF kSubset
      <4>. QED
        BY <4>1
    <3>. QED
      BY <3>2, <3>3
  <2>. QED
    BY <2>1, <2>2
<1>3. IsFiniteSet(kept) /\ Cardinality(kept) \in Nat
  BY <1>1, <1>2, FS_Subset, FS_CardinalityType
<1>4. Cardinality(kept \cup {k}) <= Cardinality(kept) + 1
  <2>1. Cardinality(kept \cup {k}) = IF k \in kept THEN Cardinality(kept) ELSE Cardinality(kept) + 1
    BY <1>3, FS_AddElement
  <2>. QED
    BY <1>3, <2>1
<1>5. Cardinality(kept \cup {k}) \in Nat
  BY <1>3, FS_AddElement, FS_CardinalityType
<1>. QED
  BY <1>2, <1>3, <1>4, <1>5

LEMMA ReadFillStep ==
    ASSUME Inv, NEW p \in Accessor, ReadFill(p)
    PROVE  Inv'
<1> DEFINE it == access[p]
<1>0. /\ it.pc = "fill" /\ StopAt(p) /\ extra' = {}
      /\ UNCHANGED <<now, table, writes, left, failures>>
  BY DEF ReadFill
<1>1. it \in Running /\ it.key \in Key /\ it.val \in Version /\ it.since \in Time
  BY DEF Inv, CacheTypeOK, Running
<1>2. PICK kept \in Survivors :
         cache' = [k \in Key |-> IF k = it.key
                                 THEN Entry(it.val, it.since + TTL(it.val), it.alone)
                                 ELSE IF k \in kept THEN cache[k] ELSE NoItem]
  BY DEF ReadFill
<1>3. cache'[it.key] = Entry(it.val, it.since + TTL(it.val), it.alone)
  BY <1>1, <1>2
<1>4. \A k \in Key \ {it.key} : cache'[k] = cache[k] \/ cache'[k] = NoItem
  BY <1>2
<1>5. it.since <= now /\ InTableAt(it.key, it.val, it.since)
  BY <1>0 DEF Inv, HandInv
<1>6. CacheTypeOK'
  <2>1. it.since + TTL(it.val) \in 0..LastExpiry
    BY <1>1, Lifetimes DEF Time
  <2>2. Entry(it.val, it.since + TTL(it.val), it.alone) \in Item
    BY <1>1, <2>1 DEF Entry, Item, Running
  <2>3. NoItem \in Item
    BY Lifetimes DEF NoItem, Item, Version
  <2>4. cache' \in [Key -> Item]
    BY <1>2, <2>2, <2>3 DEF Inv, CacheTypeOK
  <2>. QED
    BY <1>0, <2>4, Stopped DEF Inv, CacheTypeOK
<1>7. HandInv' /\ LoneInv'
  BY <1>0, StoppedHands
<1>8. ItemInv'
  <2>1. cache'[it.key].val = it.val /\ cache'[it.key].exp = it.since + TTL(it.val)
    BY <1>3 DEF Entry
  <2>2. ASSUME NEW k \in Key, cache'[k].held, k # it.key
        PROVE  cache'[k] = cache[k] /\ cache[k].held
    BY <1>4, <2>2 DEF NoItem
  <2>3. ASSUME NEW k \in Key, cache'[k].held
        PROVE  /\ cache'[k].exp <= now + TTL(cache'[k].val)
               /\ \/ cache'[k].val = table[k]
                  \/ cache'[k].exp <= left[k][cache'[k].val] + TTL(cache'[k].val)
                                      + Grace(cache'[k].val)
    <3>1. CASE k = it.key
      <4>1. left[k][it.val] \in Nat /\ it.since \in Nat /\ now \in Nat
        BY <1>1, <3>1 DEF Inv, CacheTypeOK, Time
      <4>2. TTL(it.val) \in Nat /\ Grace(it.val) \in Nat
        BY <1>1, Lifetimes
      <4>. QED
        BY <1>5, <2>1, <3>1, <4>1, <4>2 DEF InTableAt
    <3>2. CASE k # it.key
      BY <2>2, <2>3, <3>2 DEF Inv, ItemInv
    <3>. QED
      BY <3>1, <3>2
  <2>. QED
    BY <1>0, <2>3 DEF ItemInv
<1>9. LoneItemInv'
  <2>1. \A k \in Key : Writing(k) => Writing(k)'
    BY <1>0, Stopped DEF Writing, WorkingOn
  <2>2. cache'[it.key].val = it.val /\ cache'[it.key].alone = it.alone
    BY <1>3 DEF Entry
  <2>3. it.alone => it.val = table[it.key]
    BY <1>0 DEF Inv, LoneInv
  <2>. QED
    BY <1>0, <1>4, <2>1, <2>2, <2>3 DEF Inv, LoneItemInv, NoItem
<1>10. CapInv'
  <2>1. Held' \subseteq kept \cup {it.key}
    BY <1>2 DEF Held, NoItem
  <2>2. IsFiniteSet(kept \cup {it.key})
    <3>1. kept \cup {it.key} \subseteq Key
      BY <1>1, FillFits DEF Held
    <3>. QED
      BY <3>1, FS_Subset
  <2>3. /\ Cardinality((Held \ extra)') <= Cardinality(kept \cup {it.key})
        /\ Cardinality((Held \ extra)') \in Nat /\ Cardinality(kept \cup {it.key}) \in Nat
    BY <2>1, <2>2, FS_Subset, FS_CardinalityType
  <2>. QED
    BY <1>1, <2>3, FillFits DEF CapInv
<1>. QED
  BY <1>6, <1>7, <1>8, <1>9, <1>10 DEF Inv

---------------------------------------------------------------------------
(* What a write of the row does to what is known of old versions. *)

LEMMA Replaced ==
    ASSUME Inv, NEW k \in Key, NEW v \in Version, UNCHANGED <<now, cache>>,
           Replace(k, v) \/ (v = table[k] /\ UNCHANGED <<table, left>>)
    PROVE  /\ table' = [table EXCEPT ![k] = v]
           /\ table' \in [Key -> Version] /\ left' \in [Key -> [Version -> Time]]
           /\ \A j \in Key, w \in Version, t \in Time :
                 t <= now /\ InTableAt(j, w, t) => InTableAt(j, w, t)'
           /\ ItemInv'
<1>1. /\ table \in [Key -> Version] /\ left \in [Key -> [Version -> Time]] /\ now \in Time
      /\ cache \in [Key -> Item]
  BY DEF Inv, CacheTypeOK
<1>2. table' = [table EXCEPT ![k] = v]
  BY <1>1 DEF Replace
<1>3. CASE UNCHANGED <<table, left>>
  BY <1>1, <1>2, <1>3 DEF InTableAt, Inv, ItemInv
<1>4. CASE Replace(k, v)
  <2>1. table' \in [Key -> Version] /\ left' \in [Key -> [Version -> Time]]
    BY <1>1, <1>4 DEF Replace
  <2>2. /\ \A j \in Key \ {k} : left'[j] = left[j] /\ table'[j] = table[j]
        /\ \A w \in Version \ {table[k]} : left'[k][w] = left[k][w]
        /\ left'[k][table[k]] = now
    BY <1>1, <1>4 DEF Replace
  <2>3. \A j \in Key, w \in Version, t \in Time :
                 t <= now /\ InTableAt(j, w, t) => InTableAt(j, w, t)'
    BY <2>2 DEF InTableAt
  <2>4. ASSUME NEW j \in Key, cache[j].held
        PROVE  /\ cache[j].exp <= now + TTL(cache[j].val)
               /\ \/ cache[j].val = table'[j]
                  \/ cache[j].exp <= left'[j][cache[j].val] + TTL(cache[j].val)
                                     + Grace(cache[j].val)
    <3> DEFINE w == cache[j].val
               e == cache[j].exp
    <3>1. w \in Version /\ e \in Nat
      BY <1>1, Lifetimes DEF Item
    <3>2. e <= now + TTL(w) /\ (w = table[j] \/ e <= left[j][w] + TTL(w) + Grace(w))
      BY <2>4 DEF Inv, ItemInv
    <3>3. TTL(w) \in Nat /\ Grace(w) \in Nat /\ now \in Nat
      BY <1>1, <3>1, Lifetimes DEF Time
    <3>4. CASE j = k /\ w = table[k]
      BY <2>2, <3>2, <3>3, <3>1, <3>4
    <3>5. CASE ~(j = k /\ w = table[k])
      BY <2>2, <3>1, <3>2, <3>5
    <3>. QED
      BY <3>4, <3>5
  <2>5. ItemInv'
    BY <2>4 DEF ItemInv
  <2>. QED
    BY <1>2, <2>1, <2>3, <2>5
<1>. QED
  BY <1>3, <1>4

LEMMA SaveRowStep ==
    ASSUME Inv, NEW p \in Accessor, NEW k \in Key, SaveRow(p, k)
    PROVE  Inv'
<1> DEFINE v == writes + 1
<1>0. /\ access[p].pc = "idle" /\ writes' = v /\ v \in Version /\ v # 0 /\ writes' \in 0..MaxWrites
      /\ Replace(k, v) /\ StartOn(p, k, "put", v)
      /\ UNCHANGED <<now, cache, extra, failures>>
  BY DEF SaveRow, Version, Inv, CacheTypeOK
<1> HIDE DEF v
<1>1. /\ access' \in [Accessor -> Running]
      /\ access'[p] = [pc |-> "put", key |-> k, val |-> v, since |-> now, alone |-> WorkingOn(k) = {}]
      /\ \A q \in Accessor \ {p} : /\ access'[q].pc = access[q].pc /\ access'[q].key = access[q].key
                                   /\ access'[q].val = access[q].val /\ access'[q].since = access[q].since
                                   /\ access'[q].alone => access[q].alone /\ q \notin WorkingOn(k)
  BY <1>0, Started
<1>2. /\ table' = [table EXCEPT ![k] = v]
      /\ table' \in [Key -> Version] /\ left' \in [Key -> [Version -> Time]]
      /\ \A j \in Key, w \in Version, t \in Time :
            t <= now /\ InTableAt(j, w, t) => InTableAt(j, w, t)'
      /\ ItemInv'
  BY <1>0, Replaced
<1>3. table'[k] = v /\ \A j \in Key \ {k} : table'[j] = table[j]
  BY <1>2 DEF Inv, CacheTypeOK
<1>4. CacheTypeOK' /\ CapInv'
  BY <1>0, <1>1, <1>2 DEF Inv, CacheTypeOK, CapInv, Held
<1>5. HandInv'
  <2>1. ASSUME NEW q \in Accessor
        PROVE  /\ access'[q].since <= now
               /\ access'[q].pc \in {"fill", "put"}
                     => \/ access'[q].val = table'[access'[q].key]
                        \/ access'[q].since <= left'[access'[q].key][access'[q].val]
               /\ access'[q].pc = "put" => access'[q].val # 0 /\ now <= access'[q].since + Lag
    <3>1. CASE q = p
      BY <1>0, <1>1, <1>3, <3>1 DEF Inv, CacheTypeOK, Time, InTableAt
    <3>2. CASE q # p
      <4>1. access[q].key \in Key /\ access[q].val \in Version /\ access[q].since \in Time
        BY DEF Inv, CacheTypeOK, Running
      <4>. QED
        BY <1>1, <1>2, <3>2, <4>1 DEF Inv, HandInv, InTableAt
    <3>. QED
      BY <3>1, <3>2
  <2>. QED
    BY <1>0, <2>1 DEF HandInv, InTableAt
<1>6. LoneInv'
  <2>1. ASSUME NEW q \in Accessor, access'[q].alone, access'[q].pc \in {"fill", "put"}
        PROVE  access'[q].val = table'[access'[q].key]
    <3>1. CASE q = p
      BY <1>1, <1>3, <3>1
    <3>2. CASE q # p
      <4>1. access[q].key \in Key
        BY DEF Inv, CacheTypeOK, Running
      <4>2. q \notin WorkingOn(k) /\ access[q].alone /\ access[q].pc \in {"fill", "put"}
        BY <1>1, <2>1, <3>2
      <4>3. access[q].key # k
        BY <4>2 DEF WorkingOn
      <4>. QED
        BY <1>1, <1>3, <3>2, <4>1, <4>2, <4>3 DEF Inv, LoneInv
    <3>. QED
      BY <3>1, <3>2
  <2>. QED
    BY <1>0, <2>1, StartedAlone DEF LoneInv
<1>7. LoneItemInv'
  <2>1. Writing(k)' /\ \A j \in Key : Writing(j) => Writing(j)'
    BY <1>0, <1>1 DEF Writing, WorkingOn
  <2>. QED
    BY <1>0, <1>3, <2>1 DEF Inv, LoneItemInv
<1>. QED
  BY <1>2, <1>4, <1>5, <1>6, <1>7 DEF Inv
LEMMA DeleteRowStep ==
    ASSUME Inv, NEW p \in Accessor, NEW k \in Key, DeleteRow(p, k)
    PROVE  Inv'
<1>0. /\ access[p].pc = "idle" /\ StartOn(p, k, "drop", 0) /\ 0 \in Version
      /\ Replace(k, 0) \/ (0 = table[k] /\ UNCHANGED <<table, left>>)
      /\ UNCHANGED <<now, writes, cache, extra, failures>>
  BY DEF DeleteRow, Version
<1>1. /\ access' \in [Accessor -> Running]
      /\ access'[p] = [pc |-> "drop", key |-> k, val |-> 0, since |-> now, alone |-> WorkingOn(k) = {}]
      /\ \A q \in Accessor \ {p} : /\ access'[q].pc = access[q].pc /\ access'[q].key = access[q].key
                                   /\ access'[q].val = access[q].val /\ access'[q].since = access[q].since
                                   /\ access'[q].alone => access[q].alone /\ q \notin WorkingOn(k)
  BY <1>0, Started
<1>2. /\ table' = [table EXCEPT ![k] = 0]
      /\ table' \in [Key -> Version] /\ left' \in [Key -> [Version -> Time]]
      /\ \A j \in Key, w \in Version, t \in Time :
            t <= now /\ InTableAt(j, w, t) => InTableAt(j, w, t)'
      /\ ItemInv'
  BY <1>0, Replaced
<1>3. \A j \in Key \ {k} : table'[j] = table[j]
  BY <1>2 DEF Inv, CacheTypeOK
<1>4. CacheTypeOK' /\ CapInv'
  BY <1>0, <1>1, <1>2 DEF Inv, CacheTypeOK, CapInv, Held
<1>5. HandInv'
  <2>1. ASSUME NEW q \in Accessor
        PROVE  /\ access'[q].since <= now
               /\ access'[q].pc \in {"fill", "put"}
                     => \/ access'[q].val = table'[access'[q].key]
                        \/ access'[q].since <= left'[access'[q].key][access'[q].val]
               /\ access'[q].pc = "put" => access'[q].val # 0 /\ now <= access'[q].since + Lag
    <3>1. CASE q = p
      BY <1>0, <1>1, <3>1 DEF Inv, CacheTypeOK, Time
    <3>2. CASE q # p
      <4>1. access[q].key \in Key /\ access[q].val \in Version /\ access[q].since \in Time
        BY DEF Inv, CacheTypeOK, Running
      <4>. QED
        BY <1>1, <1>2, <3>2, <4>1 DEF Inv, HandInv, InTableAt
    <3>. QED
      BY <3>1, <3>2
  <2>. QED
    BY <1>0, <2>1 DEF HandInv, InTableAt
<1>6. LoneInv'
  <2>1. ASSUME NEW q \in Accessor, access'[q].alone, access'[q].pc \in {"fill", "put"}
        PROVE  access'[q].val = table'[access'[q].key]
    <3>1. q # p /\ access[q].key \in Key
      BY <1>1, <2>1 DEF Inv, CacheTypeOK, Running
    <3>2. q \notin WorkingOn(k) /\ access[q].alone /\ access[q].pc \in {"fill", "put"}
      BY <1>1, <2>1, <3>1
    <3>3. access[q].key # k
      BY <3>2 DEF WorkingOn
    <3>. QED
      BY <1>1, <1>3, <3>1, <3>2, <3>3 DEF Inv, LoneInv
  <2>. QED
    BY <1>0, <2>1, StartedAlone DEF LoneInv
<1>7. LoneItemInv'
  <2>1. Writing(k)' /\ \A j \in Key : Writing(j) => Writing(j)'
    BY <1>0, <1>1 DEF Writing, WorkingOn
  <2>. QED
    BY <1>0, <1>3, <2>1 DEF Inv, LoneItemInv
<1>. QED
  BY <1>2, <1>4, <1>5, <1>6, <1>7 DEF Inv

---------------------------------------------------------------------------
LEMMA SavePutStep ==
    ASSUME Inv, NEW p \in Accessor, SavePut(p)
    PROVE  Inv'
<1> DEFINE it == access[p]
<1>0. /\ it.pc = "put" /\ StopAt(p) /\ extra' = extra \cup {it.key}
      /\ cache' = [cache EXCEPT ![it.key] = Entry(it.val, now + PosTTL, it.alone)]
      /\ UNCHANGED <<now, table, writes, left, failures>>
  BY DEF SavePut
<1>1. it \in Running /\ it.key \in Key /\ it.val \in Version /\ it.since \in Time
  BY DEF Inv, CacheTypeOK, Running
<1>2. /\ cache'[it.key] = Entry(it.val, now + PosTTL, it.alone)
      /\ \A k \in Key \ {it.key} : cache'[k] = cache[k]
  BY <1>0, <1>1 DEF Inv, CacheTypeOK
<1>3. /\ it.val # 0 /\ now <= it.since + Lag
      /\ it.val = table[it.key] \/ it.since <= left[it.key][it.val]
  BY <1>0 DEF Inv, HandInv, InTableAt
<1>4. TTL(it.val) = PosTTL /\ Grace(it.val) = Lag
  BY <1>3 DEF TTL, Grace
<1>5. cache'[it.key].held /\ cache'[it.key].val = it.val /\ cache'[it.key].exp = now + PosTTL
      /\ cache'[it.key].alone = it.alone
  BY <1>2 DEF Entry
<1>6. CacheTypeOK'
  <2>1. now + PosTTL \in 0..LastExpiry
    BY <1>1, <1>4, Lifetimes DEF Inv, CacheTypeOK, Time
  <2>2. Entry(it.val, now + PosTTL, it.alone) \in Item
    BY <1>1, <2>1 DEF Entry, Item, Running
  <2>3. cache' \in [Key -> Item]
    BY <1>0, <2>2 DEF Inv, CacheTypeOK
  <2>. QED
    BY <1>0, <1>1, <2>3, Stopped DEF Inv, CacheTypeOK
<1>7. HandInv' /\ LoneInv'
  BY <1>0, StoppedHands
<1>8. ItemInv'
  <2>1. ASSUME NEW k \in Key, cache'[k].held
        PROVE  /\ cache'[k].exp <= now + TTL(cache'[k].val)
               /\ \/ cache'[k].val = table[k]
                  \/ cache'[k].exp <= left[k][cache'[k].val] + TTL(cache'[k].val)
                                      + Grace(cache'[k].val)
    <3>1. CASE k = it.key
      <4>1. left[k][it.val] \in Nat /\ it.since \in Nat /\ now \in Nat
        BY <1>1, <3>1 DEF Inv, CacheTypeOK, Time
      <4>. QED
        BY <1>3, <1>4, <1>5, <3>1, <4>1
    <3>2. CASE k # it.key
      BY <1>2, <2>1, <3>2 DEF Inv, ItemInv
    <3>. QED
      BY <3>1, <3>2
  <2>. QED
    BY <1>0, <2>1 DEF ItemInv
<1>9. LoneItemInv'
  <2>1. it.alone => it.val = table[it.key]
    BY <1>0 DEF Inv, LoneInv
  <2>2. \A k \in Key \ {it.key} : Writing(k) => Writing(k)'
    BY <1>0, Stopped DEF Writing, WorkingOn
  <2>. QED
    BY <1>0, <1>2, <1>5, <2>1, <2>2 DEF Inv, LoneItemInv
<1>10. CapInv'
  <2>1. (Held \ extra)' \subseteq Held \ extra
    BY <1>0, <1>2 DEF Held
  <2>. QED
    BY <2>1, FewerFit
<1>. QED
  BY <1>6, <1>7, <1>8, <1>9, <1>10 DEF Inv

LEMMA DeleteDropStep ==
    ASSUME Inv, NEW p \in Accessor, DeleteDrop(p)
    PROVE  Inv'
<1>0. /\ access[p].pc = "drop" /\ StopAt(p)
      /\ cache' = [cache EXCEPT ![access[p].key] = NoItem]
      /\ UNCHANGED <<now, table, writes, left, extra, failures>>
  BY DEF DeleteDrop
<1>1. access[p].key \in Key
  BY DEF Inv, CacheTypeOK, Running
<1>2. ~cache'[access[p].key].held /\ \A k \in Key \ {access[p].key} : cache'[k] = cache[k]
  BY <1>0, <1>1 DEF Inv, CacheTypeOK, NoItem
<1>3. CacheTypeOK'
  <2>1. NoItem \in Item
    BY Lifetimes DEF NoItem, Item, Version
  <2>. QED
    BY <1>0, <2>1, Stopped DEF Inv, CacheTypeOK
<1>4. HandInv' /\ LoneInv'
  BY <1>0, StoppedHands
<1>5. ItemInv'
  BY <1>0, <1>2 DEF Inv, ItemInv
<1>6. LoneItemInv'
  <2>1. \A k \in Key \ {access[p].key} : Writing(k) => Writing(k)'
    BY <1>0, Stopped DEF Writing, WorkingOn
  <2>. QED
    BY <1>0, <1>2, <2>1 DEF Inv, LoneItemInv
<1>7. CapInv'
  <2>1. (Held \ extra)' \subseteq Held \ extra
    BY <1>0, <1>2 DEF Held
  <2>. QED
    BY <2>1, FewerFit
<1>. QED
  BY <1>3, <1>4, <1>5, <1>6, <1>7 DEF Inv

LEMMA JanitorStep == Inv /\ Janitor => Inv'
<1> SUFFICES ASSUME Inv, Janitor PROVE Inv'
  OBVIOUS
<1>0. UNCHANGED <<now, table, writes, access, left, extra, failures>>
  BY DEF Janitor
<1>1. \A k \in Key : cache'[k] = cache[k] \/ cache'[k] = NoItem
  BY DEF Janitor
<1>2. \A k \in Key : cache'[k].held => cache'[k] = cache[k]
  BY <1>1 DEF NoItem
<1>3. CacheTypeOK'
  <2>1. NoItem \in Item
    BY Lifetimes DEF NoItem, Item, Version
  <2>2. cache' \in [Key -> Item]
    BY <2>1 DEF Inv, CacheTypeOK, Janitor
  <2>. QED
    BY <1>0, <2>2 DEF Inv, CacheTypeOK
<1>4. HandInv' /\ LoneInv'
  BY <1>0 DEF Inv, HandInv, LoneInv, InTableAt
<1>5. ItemInv'
  BY <1>0, <1>2 DEF Inv, ItemInv
<1>6. LoneItemInv'
  BY <1>0, <1>2 DEF Inv, LoneItemInv, Writing, WorkingOn
<1>7. CapInv'
  <2>1. (Held \ extra)' \subseteq Held \ extra
    BY <1>0, <1>2 DEF Held
  <2>. QED
    BY <2>1, FewerFit
<1>. QED
  BY <1>3, <1>4, <1>5, <1>6, <1>7 DEF Inv

LEMMA TickStep == Inv /\ Tick => Inv'
<1> SUFFICES ASSUME Inv, Tick PROVE Inv'
  OBVIOUS
<1>0. /\ now' = now + 1 /\ now \in Nat /\ now' \in Time
      /\ \A p \in Accessor : access[p].pc = "put" => now < access[p].since + Lag
      /\ UNCHANGED <<table, writes, cache, access, left, extra, failures>>
  BY DEF Tick, Inv, CacheTypeOK, Time
<1>1. CacheTypeOK'
  BY <1>0 DEF Inv, CacheTypeOK
<1>2. HandInv'
  <2>1. \A p \in Accessor : access[p].since \in Nat
    BY DEF Inv, CacheTypeOK, Running, Time
  <2>. QED
    BY <1>0, <2>1 DEF Inv, HandInv, InTableAt
<1>3. ItemInv'
  <2>1. \A k \in Key : cache[k].exp \in Nat /\ TTL(cache[k].val) \in Nat
    BY Lifetimes DEF Inv, CacheTypeOK, Item
  <2>2. \A k \in Key : cache[k].held => cache[k].exp <= now' + TTL(cache[k].val)
    BY <1>0, <2>1 DEF Inv, ItemInv
  <2>. QED
    BY <1>0, <2>2 DEF Inv, ItemInv
<1>4. LoneInv' /\ LoneItemInv' /\ CapInv'
  BY <1>0 DEF Inv, LoneInv, LoneItemInv, CapInv, Writing, WorkingOn, Held
<1>. QED
  BY <1>1, <1>2, <1>3, <1>4 DEF Inv

LEMMA RestartStep == Inv /\ Restart => Inv'
<1> SUFFICES ASSUME Inv, Restart PROVE Inv'
  OBVIOUS
<1>0. /\ UNCHANGED <<now, table, writes, left>>
      /\ cache' = [k \in Key |-> NoItem] /\ extra' = {}
      /\ access' = [p \in Accessor |-> AtRest(access[p].key)] /\ failures' \in 0..MaxFailures
  BY DEF Restart, Fault, Inv, CacheTypeOK
<1>1. CacheTypeOK'
  <2>1. NoItem \in Item
    BY Lifetimes DEF NoItem, Item, Version
  <2>2. \A p \in Accessor : AtRest(access[p].key) \in Running
    BY DEF Inv, CacheTypeOK, AtRest, Running, Version, Time
  <2>. QED
    BY <1>0, <2>1, <2>2 DEF Inv, CacheTypeOK
<1>2. \A p \in Accessor : access'[p].pc = "idle" /\ access'[p].since = 0 /\ ~access'[p].alone
  BY <1>0 DEF AtRest
<1>3. HandInv' /\ LoneInv'
  BY <1>0, <1>2 DEF Inv, CacheTypeOK, Time, HandInv, LoneInv
<1>4. Held' = {} /\ \A k \in Key : ~cache'[k].held
  BY <1>0 DEF Held, NoItem
<1>5. ItemInv' /\ LoneItemInv'
  BY <1>4 DEF ItemInv, LoneItemInv
<1>6. CapInv'
  <2>1. Cardinality((Held \ extra)') = 0
    BY <1>4, FS_EmptySet
  <2>. QED
    BY <2>1 DEF CapInv
<1>. QED
  BY <1>1, <1>3, <1>5, <1>6 DEF Inv

LEMMA NextInv == Inv /\ [CacheNext]_cacheVars => Inv'
<1> SUFFICES ASSUME Inv, [CacheNext]_cacheVars PROVE Inv'
  OBVIOUS
<1>1. ASSUME NEW p \in Accessor, NEW k \in Key, ReadMiss(p, k) \/ SaveRow(p, k) \/ DeleteRow(p, k)
      PROVE  Inv'
  BY <1>1, ReadMissStep, SaveRowStep, DeleteRowStep
<1>2. ASSUME NEW p \in Accessor, ReadQuery(p) \/ ReadFill(p) \/ SavePut(p) \/ DeleteDrop(p)
      PROVE  Inv'
  BY <1>2, ReadQueryStep, ReadFillStep, SavePutStep, DeleteDropStep
<1>3. CASE Janitor \/ Tick \/ Restart
  BY <1>3, JanitorStep, TickStep, RestartStep
<1>4. CASE UNCHANGED cacheVars
  BY <1>4 DEF cacheVars, Inv, CacheTypeOK, HandInv, ItemInv, LoneInv, LoneItemInv, CapInv, InTableAt,
              Writing, WorkingOn, Held
<1>. QED
  BY <1>1, <1>2, <1>3, <1>4 DEF CacheNext

LEMMA InvAlways == CacheSpec => []Inv
BY InitInv, NextInv, PTL DEF CacheSpec

---------------------------------------------------------------------------
(* The state of the goroutines, the cache and the history keeps its types,   *)
(* and no item lives beyond the longest lifetime.                            *)
THEOREM TypeCorrect == CacheSpec => []CacheTypeOK
<1>1. Inv => CacheTypeOK
  BY DEF Inv
<1>. QED
  BY <1>1, InvAlways, PTL

(* What GetGuildConfig and GetUserConfig return from the cache left the      *)
(* table at most one TTL ago, and one write's Lag when it is a row.          *)
THEOREM BoundedStale == CacheSpec => []BoundedStaleness
<1>1. Inv => BoundedStaleness
  <2> SUFFICES ASSUME Inv, NEW k \in Key, Served(k), cache[k].val # table[k]
               PROVE  now <= left[k][cache[k].val] + TTL(cache[k].val)
                             + (IF cache[k].val = 0 THEN 0 ELSE Lag)
    BY DEF BoundedStaleness
  <2> DEFINE v == cache[k].val
  <2>1. /\ v \in Version /\ cache[k].exp \in Nat /\ now \in Nat /\ left[k][v] \in Nat
        /\ TTL(v) \in Nat
    BY Lifetimes DEF Inv, CacheTypeOK, Item, Time
  <2>2. now <= cache[k].exp /\ cache[k].exp <= left[k][v] + TTL(v) + Grace(v)
    BY <2>1 DEF Served, Expired, Inv, ItemInv
  <2>. QED
    BY <2>1, <2>2 DEF Grace
<1>. QED
  BY <1>1, InvAlways, PTL

(* With nobody between a row and the map, an item put there without          *)
(* crossing anybody on its key is the row.                                   *)
THEOREM AloneExact == CacheSpec => []AloneIsExact
<1>1. Inv => AloneIsExact
  BY DEF Inv, LoneItemInv, AloneIsExact, Served, Writing
<1>. QED
  BY <1>1, InvAlways, PTL

(* The map never outgrows its cap by more than the keys saved since the      *)
(* last fill.                                                                *)
THEOREM Capped == CacheSpec => []CacheBounded
<1>1. Inv => CacheBounded
  <2> SUFFICES ASSUME Inv PROVE CacheBounded
    OBVIOUS
  <2>1. IsFiniteSet(Held \ extra) /\ IsFiniteSet(extra) /\ IsFiniteSet(Held)
    BY FS_Subset DEF Held, Inv, CacheTypeOK
  <2>2. Held \subseteq (Held \ extra) \cup extra
    OBVIOUS
  <2>3. /\ IsFiniteSet((Held \ extra) \cup extra)
        /\ Cardinality((Held \ extra) \cup extra)
              = Cardinality(Held \ extra) + Cardinality(extra)
                - Cardinality((Held \ extra) \cap extra)
    BY <2>1, FS_Union
  <2>4. (Held \ extra) \cap extra = {}
    OBVIOUS
  <2>5. Cardinality((Held \ extra) \cap extra) = 0
    BY <2>4, FS_EmptySet
  <2>6. Cardinality(Held) <= Cardinality((Held \ extra) \cup extra)
    BY <2>2, <2>3, FS_Subset
  <2>7. /\ Cardinality(Held) \in Nat /\ Cardinality(extra) \in Nat
        /\ Cardinality(Held \ extra) \in Nat
    BY <2>1, FS_CardinalityType
  <2>. QED
    BY <2>3, <2>5, <2>6, <2>7 DEF CacheBounded, Inv, CapInv
<1>. QED
  BY <1>1, InvAlways, PTL
=============================================================================
