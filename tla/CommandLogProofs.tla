-------------------------- MODULE CommandLogProofs --------------------------
(***************************************************************************)
(* Proofs about CommandLog, for every capacity, batch size, number of      *)
(* records and number of failing calls: type correctness, that no record   *)
(* goes missing uncounted, and that the table keeps the order of calls.    *)
(***************************************************************************)
EXTENDS CommandLog, TLAPS

USE CommandLogAssumption DEF CommandLogAssumption

---------------------------------------------------------------------------
(* The inductive invariant: types, the accounts, and the order of records    *)
(* from the table through the open transaction and the buffer to the channel. *)

Types ==
    /\ logged \in 0..MaxLogs
    /\ queue \in Seq(Record) /\ buf \in Seq(Record)
    /\ tx \in Seq(Record) /\ table \in Seq(Record)
    /\ dropped \in Nat /\ attempted \in Nat
    /\ mode \in {"select", "drain", "final", "done"}
    /\ step \in {"wait", "begin", "rows"}
    /\ stopping \in BOOLEAN /\ dbOpen \in BOOLEAN /\ up \in BOOLEAN
    /\ failures \in 0..MaxFailures

(* The writer flushes as soon as a batch is full, and outside a transaction  *)
(* nothing is tried.                                                         *)
Sizes ==
    /\ Len(queue) <= LogQueueCap
    /\ Len(buf) <= WriterBatch
    /\ step = "wait" => Len(buf) < WriterBatch
    /\ Len(tx) <= attempted /\ attempted <= Len(buf)
    /\ step # "rows" => attempted = 0 /\ tx = <<>>

(* Rows the open transaction has given up are counted before the buffer that *)
(* holds them is emptied.                                                    *)
Accounts ==
    up => 0 <= Missing /\ Missing + attempted - Len(tx) <= dropped

Below(s, t) == \A i \in 1..Len(s), j \in 1..Len(t) : s[i] < t[j]

Order ==
    /\ Increasing(table) /\ Increasing(tx) /\ Increasing(buf) /\ Increasing(queue)
    /\ Below(table, tx) /\ Below(table, buf) /\ Below(table, queue)
    /\ Below(tx, queue) /\ Below(buf, queue)
    /\ \A i \in 1..Len(tx), j \in 1..Len(buf) : attempted < j => tx[i] < buf[j]

Issued ==
    /\ \A i \in 1..Len(table) : table[i] <= logged
    /\ \A i \in 1..Len(tx) : tx[i] <= logged
    /\ \A i \in 1..Len(buf) : buf[i] <= logged
    /\ \A i \in 1..Len(queue) : queue[i] <= logged

IInv == Types /\ Sizes /\ Accounts /\ Order /\ Issued

---------------------------------------------------------------------------
LEMMA EmptySeq == <<>> \in Seq(Record) /\ Len(<<>>) = 0
  OBVIOUS

LEMMA InitIInv == LogInit => IInv
<1>. SUFFICES ASSUME LogInit PROVE IInv
  OBVIOUS
<1>1. Types
  <2>1. /\ logged \in 0..MaxLogs /\ failures \in 0..MaxFailures
        /\ dropped \in Nat /\ attempted \in Nat
    BY DEF LogInit
  <2>2. stopping \in BOOLEAN /\ dbOpen \in BOOLEAN /\ up \in BOOLEAN
    BY DEF LogInit
  <2>. QED
    BY <2>1, <2>2, EmptySeq DEF LogInit, Types
<1>2. Sizes /\ Accounts
  BY EmptySeq DEF LogInit, Sizes, Accounts, Missing
<1>3. Order /\ Issued
  <2>1. 1..Len(<<>>) = {}
    OBVIOUS
  <2>. QED
    BY <2>1 DEF LogInit, Order, Issued, Below, Increasing
<1>. QED
  BY <1>1, <1>2, <1>3 DEF IInv

(* FlushReturns empties the buffer and ends the transaction.                 *)
LEMMA FlushTypes ==
  ASSUME Types, FlushReturns
  PROVE  /\ buf' \in Seq(Record) /\ tx' \in Seq(Record) /\ attempted' \in Nat
         /\ mode' \in {"select", "drain", "final", "done"}
         /\ step' \in {"wait", "begin", "rows"}
         /\ Len(buf') = 0 /\ Len(tx') = 0 /\ buf' = <<>> /\ tx' = <<>> /\ attempted' = 0
         /\ step' = "wait"
  BY DEF Types, FlushReturns

LEMMA FaultTypes ==
  ASSUME Types, Fails
  PROVE  failures' \in 0..MaxFailures
  BY DEF Types, Fails

LEMMA NextTypes ==
  ASSUME Types, Sizes, [LogNext]_logVars
  PROVE  Types'
<1>1. CASE LogCommand
  <2>1. logged + 1 \in Record /\ logged' \in 0..MaxLogs
    BY <1>1 DEF LogCommand, Types, Record
  <2>2. queue' \in Seq(Record) /\ dropped' \in Nat
    <3>1. CASE queue' = Append(queue, logged + 1) /\ UNCHANGED dropped
      BY <2>1, <3>1 DEF Types
    <3>2. CASE dropped' = dropped + 1 /\ UNCHANGED queue
      BY <3>2 DEF Types
    <3>. QED
      BY <1>1, <3>1, <3>2 DEF LogCommand
  <2>. QED
    BY <1>1, <2>1, <2>2 DEF LogCommand, Types
<1>2. CASE Take
  <2>1. Head(queue) \in Record /\ Tail(queue) \in Seq(Record)
    BY <1>2 DEF Take, Types
  <2>. QED
    BY <1>2, <2>1 DEF Take, Types
<1>3. CASE TickFlush \/ SeeStop \/ DrainEmpty
  BY <1>3 DEF TickFlush, SeeStop, DrainEmpty, Types
<1>4. CASE Begin
  <2>1. CASE /\ step' = "rows"
             /\ UNCHANGED <<buf, mode, attempted, tx, dropped, failures>>
    BY <1>4, <2>1 DEF Begin, Types
  <2>2. CASE Fails /\ dropped' = dropped + Len(buf) /\ FlushReturns
    BY <1>4, <2>2, FlushTypes, FaultTypes DEF Begin, Types
  <2>. QED
    BY <1>4, <2>1, <2>2 DEF Begin
<1>5. CASE ExecRow
  <2>1. buf[attempted + 1] \in Record
    BY <1>5 DEF ExecRow, Types
  <2>2. CASE tx' = Append(tx, buf[attempted + 1]) /\ UNCHANGED <<dropped, failures>>
    BY <1>5, <2>1, <2>2 DEF ExecRow, Types
  <2>3. CASE Fails /\ dropped' = dropped + 1 /\ UNCHANGED tx
    BY <1>5, <2>3, FaultTypes DEF ExecRow, Types
  <2>. QED
    BY <1>5, <2>2, <2>3 DEF ExecRow
<1>6. CASE Commit
  <2>1. CASE table' = table \o tx /\ UNCHANGED <<dropped, failures>>
    BY <1>6, <2>1, FlushTypes DEF Commit, Types
  <2>2. CASE Fails /\ dropped' = dropped + Len(buf) /\ UNCHANGED table
    BY <1>6, <2>2, FlushTypes, FaultTypes DEF Commit, Types
  <2>. QED
    BY <1>6, <2>1, <2>2 DEF Commit
<1>7. CASE Stop \/ Close
  BY <1>7 DEF Stop, Close, Types
<1>8. CASE Exit
  BY <1>8, EmptySeq DEF Exit, Types
<1>9. CASE UNCHANGED logVars
  BY <1>9 DEF logVars, Types
<1>. QED
  BY <1>1, <1>2, <1>3, <1>4, <1>5, <1>6, <1>7, <1>8, <1>9 DEF LogNext, Writer

LEMMA NextSizes ==
  ASSUME Types, Sizes, [LogNext]_logVars
  PROVE  Sizes'
<1>1. CASE LogCommand
  BY <1>1 DEF LogCommand, Types, Sizes
<1>2. CASE Take
  <2>1. Len(Tail(queue)) = Len(queue) - 1 /\ Len(Append(buf, Head(queue))) = Len(buf) + 1
    BY <1>2 DEF Take, Types
  <2>. QED
    BY <1>2, <2>1 DEF Take, Types, Sizes
<1>3. CASE TickFlush \/ SeeStop \/ DrainEmpty
  BY <1>3 DEF TickFlush, SeeStop, DrainEmpty, Types, Sizes
<1>4. CASE Begin
  <2>1. CASE step' = "rows" /\ UNCHANGED <<buf, mode, attempted, tx, dropped, failures>>
    BY <1>4, <2>1 DEF Begin, Types, Sizes
  <2>2. CASE FlushReturns
    BY <1>4, <2>2, FlushTypes DEF Begin, Types, Sizes
  <2>. QED
    BY <1>4, <2>1, <2>2 DEF Begin
<1>5. CASE ExecRow
  BY <1>5 DEF ExecRow, Types, Sizes
<1>6. CASE Commit
  BY <1>6, FlushTypes DEF Commit, Types, Sizes
<1>7. CASE Stop \/ Close
  BY <1>7 DEF Stop, Close, Sizes
<1>8. CASE Exit
  BY <1>8 DEF Exit, Sizes
<1>9. CASE UNCHANGED logVars
  BY <1>9 DEF logVars, Sizes
<1>. QED
  BY <1>1, <1>2, <1>3, <1>4, <1>5, <1>6, <1>7, <1>8, <1>9 DEF LogNext, Writer

(* Every step moves a record to where it is counted next.                    *)
LEMMA NextAccounts ==
  ASSUME Types, Sizes, Accounts, [LogNext]_logVars
  PROVE  Accounts'
<1>0. /\ Len(queue) \in Nat /\ Len(buf) \in Nat /\ Len(tx) \in Nat /\ Len(table) \in Nat
      /\ logged \in Nat
  BY DEF Types
<1>. USE DEF Accounts, Missing
<1>1. CASE LogCommand
  BY <1>0, <1>1 DEF LogCommand, Types
<1>2. CASE Take
  <2>1. Len(Tail(queue)) = Len(queue) - 1 /\ Len(Append(buf, Head(queue))) = Len(buf) + 1
    BY <1>2 DEF Take, Types
  <2>. QED
    BY <1>0, <1>2, <2>1 DEF Take, Types
<1>3. CASE TickFlush \/ SeeStop \/ DrainEmpty
  BY <1>3 DEF TickFlush, SeeStop, DrainEmpty
<1>4. CASE Begin
  <2>1. CASE UNCHANGED <<buf, mode, attempted, tx, dropped, failures>>
    BY <1>4, <2>1 DEF Begin
  <2>2. CASE dropped' = dropped + Len(buf) /\ FlushReturns
    <3>1. attempted = 0 /\ Len(tx) = 0
      BY <1>4 DEF Begin, Sizes
    <3>. QED
      BY <1>0, <1>4, <2>2, <3>1, FlushTypes DEF Begin, Types
  <2>. QED
    BY <1>4, <2>1, <2>2 DEF Begin
<1>5. CASE ExecRow
  BY <1>0, <1>5 DEF ExecRow, Types
<1>6. CASE Commit
  <2>1. FlushReturns /\ Len(tx) <= attempted /\ attempted = Len(buf) /\ UNCHANGED <<logged, queue, up>>
    BY <1>6 DEF Commit, Sizes
  <2>2. CASE table' = table \o tx /\ UNCHANGED <<dropped, failures>>
    <3>1. Len(table') = Len(table) + Len(tx)
      BY <2>2 DEF Types
    <3>. QED
      BY <1>0, <2>1, <2>2, <3>1, FlushTypes DEF Types
  <2>3. CASE dropped' = dropped + Len(buf) /\ UNCHANGED table
    BY <1>0, <2>1, <2>3, FlushTypes DEF Types
  <2>. QED
    BY <1>6, <2>2, <2>3 DEF Commit
<1>7. CASE Stop \/ Close
  BY <1>7 DEF Stop, Close
<1>8. CASE Exit
  BY <1>8 DEF Exit
<1>9. CASE UNCHANGED logVars
  BY <1>9 DEF logVars
<1>. QED
  BY <1>1, <1>2, <1>3, <1>4, <1>5, <1>6, <1>7, <1>8, <1>9 DEF LogNext, Writer

(* Sequences of records: what Append, Tail and concatenation do to order.    *)

LEMMA Elements ==
  ASSUME NEW s \in Seq(Record)
  PROVE  Len(s) \in Nat /\ \A i \in 1..Len(s) : s[i] \in Record /\ s[i] \in Nat
  BY DEF Record

LEMMA AppendIncreasing ==
  ASSUME NEW s \in Seq(Record), NEW e \in Record, Increasing(s),
         \A i \in 1..Len(s) : s[i] < e
  PROVE  Increasing(Append(s, e))
<1>. DEFINE t == Append(s, e)
<1>1. /\ Len(t) = Len(s) + 1 /\ t[Len(s) + 1] = e
      /\ \A i \in 1..Len(s) : t[i] = s[i]
  OBVIOUS
<1>. HIDE DEF t
<1>2. ASSUME NEW i \in 1..Len(t), NEW j \in 1..Len(t), i < j
      PROVE  t[i] < t[j]
  <2>1. i \in 1..Len(s)
    BY <1>1, <1>2, Elements
  <2>2. CASE j = Len(s) + 1
    BY <1>1, <2>1, <2>2
  <2>3. CASE j \in 1..Len(s)
    BY <1>1, <1>2, <2>1, <2>3 DEF Increasing
  <2>. QED
    BY <1>1, <2>2, <2>3, Elements
<1>. QED
  BY <1>2 DEF Increasing, t

LEMMA AppendElements ==
  ASSUME NEW s \in Seq(Record), NEW e \in Record, NEW i \in 1..Len(Append(s, e))
  PROVE  \/ i \in 1..Len(s) /\ Append(s, e)[i] = s[i]
         \/ i = Len(s) + 1 /\ Append(s, e)[i] = e
  BY Elements

LEMMA TailElements ==
  ASSUME NEW s \in Seq(Record), s # <<>>
  PROVE  /\ Len(s) >= 1 /\ Head(s) = s[1] /\ Len(Tail(s)) = Len(s) - 1
         /\ \A i \in 1..Len(Tail(s)) : i + 1 \in 1..Len(s) /\ Tail(s)[i] = s[i + 1]
  BY Elements

LEMMA ConcatElements ==
  ASSUME NEW s \in Seq(Record), NEW t \in Seq(Record), NEW i \in 1..Len(s \o t)
  PROVE  \/ i \in 1..Len(s) /\ (s \o t)[i] = s[i]
         \/ /\ i - Len(s) \in 1..Len(t) /\ (s \o t)[i] = t[i - Len(s)] /\ i > Len(s)
  BY Elements

LEMMA ConcatIncreasing ==
  ASSUME NEW s \in Seq(Record), NEW t \in Seq(Record),
         Increasing(s), Increasing(t), Below(s, t)
  PROVE  Increasing(s \o t)
<1>1. ASSUME NEW i \in 1..Len(s \o t), NEW j \in 1..Len(s \o t), i < j
      PROVE  (s \o t)[i] < (s \o t)[j]
  <2>0. i \in Nat /\ j \in Nat /\ Len(s) \in Nat
    BY Elements
  <2>1. CASE j \in 1..Len(s) /\ (s \o t)[j] = s[j]
    <3>1. i \in 1..Len(s) /\ (s \o t)[i] = s[i]
      BY <1>1, <2>0, <2>1, ConcatElements
    <3>. QED
      BY <1>1, <2>1, <3>1 DEF Increasing
  <2>2. CASE j - Len(s) \in 1..Len(t) /\ (s \o t)[j] = t[j - Len(s)] /\ j > Len(s)
    <3>1. CASE i \in 1..Len(s) /\ (s \o t)[i] = s[i]
      BY <2>2, <3>1 DEF Below
    <3>2. CASE i - Len(s) \in 1..Len(t) /\ (s \o t)[i] = t[i - Len(s)]
      <4>1. i - Len(s) < j - Len(s)
        BY <1>1, <2>0
      <4>. QED
        BY <2>2, <3>2, <4>1 DEF Increasing
    <3>. QED
      BY <3>1, <3>2, ConcatElements
  <2>. QED
    BY <2>1, <2>2, ConcatElements
<1>. QED
  BY <1>1 DEF Increasing

(* Records keep their order: from the channel to the buffer, from the buffer *)
(* into the transaction, from the transaction into the table.                *)
LEMMA NextOrder ==
  ASSUME Types, Sizes, Order, Issued, [LogNext]_logVars
  PROVE  Order' /\ Issued'
<1>0. /\ queue \in Seq(Record) /\ buf \in Seq(Record) /\ tx \in Seq(Record)
      /\ table \in Seq(Record) /\ logged \in Nat /\ attempted \in Nat
  BY DEF Types
<1>1. CASE LogCommand
  <2>1. UNCHANGED <<table, tx, buf, attempted>> /\ logged' = logged + 1 /\ logged + 1 \in Record
    BY <1>1 DEF LogCommand, Types, Record
  <2>2. CASE queue' = queue
    <3>1. Order'
      BY <2>1, <2>2 DEF Order, Below, Increasing
    <3>2. Issued'
      BY <1>0, <2>1, <2>2, Elements DEF Issued
    <3>. QED
      BY <3>1, <3>2
  <2>3. CASE queue' = Append(queue, logged + 1)
    <3>1. /\ \A i \in 1..Len(queue) : queue[i] < logged + 1
          /\ \A i \in 1..Len(buf) : buf[i] < logged + 1
          /\ \A i \in 1..Len(tx) : tx[i] < logged + 1
          /\ \A i \in 1..Len(table) : table[i] < logged + 1
      BY <1>0, Elements DEF Issued
    <3>2. Increasing(queue')
      BY <1>0, <2>1, <2>3, <3>1, AppendIncreasing DEF Order
    <3>3. Below(table, queue') /\ Below(tx, queue') /\ Below(buf, queue')
      BY <1>0, <2>1, <2>3, <3>1, AppendElements DEF Order, Below
    <3>4. Issued'
      <4>1. \A i \in 1..Len(queue') : queue'[i] <= logged + 1
        BY <1>0, <2>1, <2>3, <3>1, AppendElements, Elements
      <4>. QED
        BY <1>0, <2>1, <3>1, <4>1, Elements DEF Issued
    <3>. QED
      BY <2>1, <3>2, <3>3, <3>4 DEF Order, Below, Increasing
  <2>. QED
    BY <1>1, <2>2, <2>3 DEF LogCommand
<1>2. CASE Take
  <2>1. UNCHANGED <<table, tx, attempted, logged>> /\ tx = <<>> /\ Len(tx) = 0
    BY <1>2 DEF Take, Sizes
  <2>2. buf' = Append(buf, Head(queue)) /\ queue' = Tail(queue) /\ queue # <<>>
    BY <1>2 DEF Take
  <2>3. /\ 1 \in 1..Len(queue) /\ Head(queue) = queue[1] /\ Head(queue) \in Record
        /\ \A i \in 1..Len(queue') : /\ i + 1 \in 1..Len(queue) /\ queue'[i] = queue[i + 1]
                                     /\ 1 < i + 1
    BY <1>0, <2>2, TailElements, Elements
  <2>4. Increasing(buf')
    BY <1>0, <2>2, <2>3, AppendIncreasing DEF Order, Below
  <2>5. Increasing(queue')
    <3>1. ASSUME NEW i \in 1..Len(queue'), NEW j \in 1..Len(queue'), i < j
          PROVE  queue'[i] < queue'[j]
      <4>1. i + 1 < j + 1
        BY <3>1, <1>0, <2>2, TailElements, Elements
      <4>. QED
        BY <2>3, <4>1 DEF Order, Increasing
    <3>. QED
      BY <3>1 DEF Increasing
  <2>6. Below(table, buf')
    BY <1>0, <2>2, <2>3, AppendElements DEF Order, Below
  <2>7. Below(table, queue') /\ Below(tx, queue')
    BY <2>3 DEF Order, Below
  <2>8. Below(buf', queue')
    <3>1. ASSUME NEW i \in 1..Len(buf'), NEW j \in 1..Len(queue')
          PROVE  buf'[i] < queue'[j]
      <4>1. CASE i \in 1..Len(buf) /\ buf'[i] = buf[i]
        BY <2>3, <4>1 DEF Order, Below
      <4>2. CASE buf'[i] = Head(queue)
        BY <2>3, <4>2 DEF Order, Increasing
      <4>. QED
        BY <1>0, <2>2, <2>3, <4>1, <4>2, AppendElements
    <3>. QED
      BY <3>1 DEF Below
  <2>9. Issued'
    <3>1. \A i \in 1..Len(buf') : buf'[i] <= logged
      BY <1>0, <2>2, <2>3, AppendElements DEF Issued
    <3>2. \A i \in 1..Len(queue') : queue'[i] <= logged
      BY <2>3 DEF Issued
    <3>. QED
      BY <2>1, <3>1, <3>2 DEF Issued
  <2>10. \A i \in 1..Len(tx), j \in 1..Len(buf') : attempted < j => tx[i] < buf'[j]
    BY <2>1
  <2>. QED
    BY <2>1, <2>4, <2>5, <2>6, <2>7, <2>8, <2>9, <2>10 DEF Order, Increasing, Below
<1>3. CASE TickFlush \/ SeeStop \/ DrainEmpty
  BY <1>3 DEF TickFlush, SeeStop, DrainEmpty, Order, Issued, Below, Increasing
<1>4. CASE Begin
  <2>1. CASE UNCHANGED <<buf, mode, attempted, tx, dropped, failures>>
    BY <1>4, <2>1 DEF Begin, Order, Issued, Below, Increasing
  <2>2. CASE FlushReturns
    BY <1>4, <2>2, FlushTypes DEF Begin, Order, Issued, Below, Increasing
  <2>. QED
    BY <1>4, <2>1, <2>2 DEF Begin
<1>5. CASE ExecRow
  <2>1. UNCHANGED <<table, buf, queue, logged>> /\ attempted' = attempted + 1 /\ attempted + 1 \in 1..Len(buf)
    BY <1>0, <1>5, Elements DEF ExecRow
  <2>2. /\ buf[attempted + 1] \in Record
        /\ \A j \in 1..Len(buf) : attempted + 1 < j => buf[attempted + 1] < buf[j] /\ attempted < j
    BY <1>0, <2>1, Elements DEF Order, Increasing
  <2>3. CASE UNCHANGED tx
    BY <1>0, <2>1, <2>2, <2>3 DEF Order, Issued, Below, Increasing
  <2>4. CASE tx' = Append(tx, buf[attempted + 1])
    <3>1. Increasing(tx')
      BY <1>0, <2>1, <2>2, <2>4, AppendIncreasing DEF Order
    <3>2. Below(table, tx') /\ Below(tx', queue)
      BY <1>0, <2>1, <2>2, <2>4, AppendElements DEF Order, Below
    <3>3. \A i \in 1..Len(tx'), j \in 1..Len(buf) : attempted + 1 < j => tx'[i] < buf[j]
      BY <1>0, <2>1, <2>2, <2>4, AppendElements DEF Order
    <3>4. \A i \in 1..Len(tx') : tx'[i] <= logged
      BY <1>0, <2>1, <2>2, <2>4, AppendElements DEF Issued
    <3>. QED
      BY <2>1, <3>1, <3>2, <3>3, <3>4 DEF Order, Issued, Below, Increasing
  <2>. QED
    BY <1>5, <2>3, <2>4 DEF ExecRow
<1>6. CASE Commit
  <2>1. FlushReturns /\ UNCHANGED <<logged, queue>>
    BY <1>6 DEF Commit
  <2>2. Len(buf') = 0 /\ Len(tx') = 0 /\ 1..0 = {}
    BY <2>1, FlushTypes
  <2>3. CASE UNCHANGED table
    BY <2>1, <2>2, <2>3 DEF Order, Issued, Below, Increasing
  <2>4. CASE table' = table \o tx
    <3>1. Increasing(table')
      BY <1>0, <2>4, ConcatIncreasing DEF Order
    <3>2. Below(table', queue)
      <4>1. Below(table, queue) /\ Below(tx, queue)
        BY <1>0 DEF Order
      <4>. QED
        BY <1>0, <2>4, <4>1, ConcatElements DEF Below
    <3>3. \A i \in 1..Len(table') : table'[i] <= logged
      BY <1>0, <2>4, ConcatElements DEF Issued
    <3>. QED
      BY <2>1, <2>2, <3>1, <3>2, <3>3 DEF Order, Issued, Below, Increasing
  <2>. QED
    BY <1>6, <2>3, <2>4 DEF Commit
<1>7. CASE Stop \/ Close
  BY <1>7 DEF Stop, Close, Order, Issued, Below, Increasing
<1>8. CASE Exit
  <2>1. Len(buf') = 0 /\ Len(tx') = 0 /\ Len(queue') = 0 /\ 1..0 = {}
    BY <1>8, EmptySeq DEF Exit
  <2>. QED
    BY <1>8, <2>1 DEF Exit, Order, Issued, Below, Increasing
<1>9. CASE UNCHANGED logVars
  BY <1>9 DEF logVars, Order, Issued, Below, Increasing
<1>. QED
  BY <1>1, <1>2, <1>3, <1>4, <1>5, <1>6, <1>7, <1>8, <1>9 DEF LogNext, Writer

LEMMA NextIInv == IInv /\ [LogNext]_logVars => IInv'
  BY NextTypes, NextSizes, NextAccounts, NextOrder DEF IInv

---------------------------------------------------------------------------
LEMMA AlwaysIInv == LogSpec => []IInv
  BY InitIInv, NextIInv, PTL DEF LogSpec

(* Type correctness, the bounds of the channel and of the buffer included.   *)
THEOREM TypeCorrect == LogSpec => []LogTypeOK
<1>1. IInv => LogTypeOK
  BY DEF IInv, Types, Sizes, LogTypeOK
<1>. QED
  BY <1>1, AlwaysIInv, PTL

(* "Overflow is counted and dropped": while the process runs, the records    *)
(* that are neither waiting nor stored are never more than those counted,    *)
(* and no record is stored twice.                                            *)
THEOREM NothingLostSilently == LogSpec => []NoSilentLoss
<1>1. IInv => NoSilentLoss
  BY DEF IInv, Types, Sizes, Accounts, NoSilentLoss, Missing
<1>. QED
  BY <1>1, AlwaysIInv, PTL

(* command_usage_log keeps the order in which LogCommand was called.         *)
THEOREM OrderKept == LogSpec => []StoredInOrder
<1>1. IInv => StoredInOrder
  BY DEF IInv, Order, StoredInOrder
<1>. QED
  BY <1>1, AlwaysIInv, PTL
=============================================================================
