----------------------------- MODULE CommandLog -----------------------------
(***************************************************************************)
(* The asynchronous telemetry of store.go: command handlers hand a record  *)
(* to a bounded channel without ever blocking, one writer goroutine        *)
(* collects records and inserts them in transactions, and shutdown asks    *)
(* the writer to drain what is queued.  Records are numbered in the order  *)
(* in which LogCommand was called.                                         *)
(*                                                                         *)
(* The writer is split at its database calls; LogCommand is one            *)
(* non-blocking channel operation and so one step.                         *)
(* Bounds: MaxLogs (records), MaxFailures (failing database calls).          *)
(***************************************************************************)
EXTENDS Integers, Sequences

CONSTANTS LogQueueCap,   \* capacity of the channel (1024 in the code)
          WriterBatch,   \* records the writer collects before it inserts (64)
          MaxLogs, MaxFailures

ASSUME CommandLogAssumption ==
    /\ LogQueueCap \in Nat \ {0} /\ WriterBatch \in Nat \ {0}
    /\ MaxLogs \in Nat /\ MaxFailures \in Nat

VARIABLES
    logged,    \* calls of LogCommand so far
    queue,     \* s.logQ
    dropped,   \* s.droppedCmd
    buf,       \* the writer's buffer
    mode,      \* the loop the writer is in, "final" when it returns after this flush
    step,      \* where it stands in insertCommandLogs, "wait" outside it
    attempted,     \* rows of buf it has tried to insert in the open transaction
    tx,        \* rows the open transaction holds
    table,     \* command_usage_log
    stopping,  \* stopCh is closed
    dbOpen,    \* db.Close has not been called
    up,        \* the process runs
    failures     \* failing calls so far

logVars == <<logged, queue, dropped, buf, mode, step, attempted, tx, table, stopping,
          dbOpen, up, failures>>

Record == 1..MaxLogs

LogInit ==
    /\ logged = 0 /\ queue = <<>> /\ dropped = 0
    /\ buf = <<>> /\ mode = "select" /\ step = "wait"
    /\ attempted = 0 /\ tx = <<>> /\ table = <<>>
    /\ stopping = FALSE /\ dbOpen = TRUE /\ up = TRUE
    /\ failures = 0

(* A database call that returns an error: any call may, and a closed         *)
(* database need not be counted as a fault of its own.                       *)
Fails ==
    \/ ~dbOpen /\ UNCHANGED failures
    \/ failures < MaxFailures /\ failures' = failures + 1

---------------------------------------------------------------------------
(* The producer side. *)

LogCommand ==
    /\ up /\ logged < MaxLogs
    /\ logged' = logged + 1
    /\ \/ /\ Len(queue) < LogQueueCap
          /\ queue' = Append(queue, logged + 1)
          /\ UNCHANGED dropped
       \/ /\ Len(queue) >= LogQueueCap
          /\ dropped' = dropped + 1
          /\ UNCHANGED queue
    /\ UNCHANGED <<buf, mode, step, attempted, tx, table, stopping, dbOpen, up, failures>>

---------------------------------------------------------------------------
(* The writer: its two loops, which differ only in how they end. *)

\* Mutant: the batch is flushed one record too late.
TakeOneTooMany ==
    /\ up /\ mode \in {"select", "drain"} /\ step = "wait" /\ queue # <<>>
    /\ buf' = Append(buf, Head(queue))
    /\ queue' = Tail(queue)
    /\ step' = IF Len(buf') > WriterBatch THEN "begin" ELSE "wait"
    /\ UNCHANGED <<logged, dropped, mode, attempted, tx, table, stopping, dbOpen, up, failures>>

\* Mutant: what the drain loop receives is put in front of what is buffered.
TakeToFront ==
    /\ up /\ mode \in {"select", "drain"} /\ step = "wait" /\ queue # <<>>
    /\ buf' = IF mode = "drain" THEN <<Head(queue)>> \o buf ELSE Append(buf, Head(queue))
    /\ queue' = Tail(queue)
    /\ step' = IF Len(buf') >= WriterBatch THEN "begin" ELSE "wait"
    /\ UNCHANGED <<logged, dropped, mode, attempted, tx, table, stopping, dbOpen, up, failures>>

Take ==
    /\ up /\ mode \in {"select", "drain"} /\ step = "wait" /\ queue # <<>>
    /\ buf' = Append(buf, Head(queue))
    /\ queue' = Tail(queue)
    /\ step' = IF Len(buf') >= WriterBatch THEN "begin" ELSE "wait"
    /\ UNCHANGED <<logged, dropped, mode, attempted, tx, table, stopping, dbOpen, up, failures>>

TickFlush ==
    /\ up /\ mode = "select" /\ step = "wait" /\ buf # <<>>
    /\ step' = "begin"
    /\ UNCHANGED <<logged, queue, dropped, buf, mode, attempted, tx, table, stopping, dbOpen,
                   up, failures>>

\* Mutant: the writer returns as soon as it sees the stop channel closed.
SeeStopAndReturn ==
    /\ up /\ mode = "select" /\ step = "wait" /\ stopping
    /\ mode' = "done"
    /\ UNCHANGED <<logged, queue, dropped, buf, step, attempted, tx, table, stopping, dbOpen,
                   up, failures>>

(* select chooses at random among the cases that are ready, so the writer    *)
(* may receive or flush any number of times before it takes this one.        *)
SeeStop ==
    /\ up /\ mode = "select" /\ step = "wait" /\ stopping
    /\ mode' = "drain"
    /\ UNCHANGED <<logged, queue, dropped, buf, step, attempted, tx, table, stopping, dbOpen,
                   up, failures>>

DrainEmpty ==
    /\ up /\ mode = "drain" /\ step = "wait" /\ queue = <<>>
    /\ IF buf = <<>> THEN mode' = "done" /\ UNCHANGED step
                     ELSE mode' = "final" /\ step' = "begin"
    /\ UNCHANGED <<logged, queue, dropped, buf, attempted, tx, table, stopping, dbOpen, up,
                   failures>>

---------------------------------------------------------------------------
(* insertCommandLogs *)

FlushReturns ==
    /\ buf' = <<>> /\ step' = "wait" /\ attempted' = 0 /\ tx' = <<>>
    /\ mode' = IF mode = "final" THEN "done" ELSE mode

(* db.Begin and tx.Prepare: if either fails the whole batch is given up. *)
Begin ==
    /\ up /\ step = "begin"
    /\ \/ /\ dbOpen
          /\ step' = "rows"
          /\ UNCHANGED <<buf, mode, attempted, tx, dropped, failures>>
       \/ /\ Fails
          /\ dropped' = dropped + Len(buf)
          /\ FlushReturns
    /\ UNCHANGED <<logged, queue, table, stopping, dbOpen, up>>

\* Mutant: a row that cannot be inserted is skipped without counting it.
ExecRowUncounted ==
    /\ up /\ step = "rows" /\ attempted < Len(buf)
    /\ attempted' = attempted + 1
    /\ \/ tx' = Append(tx, buf[attempted + 1]) /\ UNCHANGED failures
       \/ Fails /\ UNCHANGED tx
    /\ UNCHANGED <<logged, queue, dropped, buf, mode, step, table, stopping, dbOpen, up>>

ExecRow ==
    /\ up /\ step = "rows" /\ attempted < Len(buf)
    /\ attempted' = attempted + 1
    /\ \/ tx' = Append(tx, buf[attempted + 1]) /\ UNCHANGED <<dropped, failures>>
       \/ Fails /\ dropped' = dropped + 1 /\ UNCHANGED tx
    /\ UNCHANGED <<logged, queue, buf, mode, step, table, stopping, dbOpen, up>>

(* A commit that fails counts the whole batch, rows already counted          *)
(* included.                                                                 *)
Commit ==
    /\ up /\ step = "rows" /\ attempted = Len(buf)
    /\ \/ table' = table \o tx /\ UNCHANGED <<dropped, failures>>
       \/ Fails /\ dropped' = dropped + Len(buf) /\ UNCHANGED table
    /\ FlushReturns
    /\ UNCHANGED <<logged, queue, stopping, dbOpen, up>>

---------------------------------------------------------------------------
(* Shutdown: main calls Stop, the deferred Close closes the database, and    *)
(* the process ends without waiting for the writer.  A kill ends it at any   *)
(* point, so Exit needs neither of the two.                                  *)

Stop ==
    /\ up /\ ~stopping
    /\ stopping' = TRUE
    /\ UNCHANGED <<logged, queue, dropped, buf, mode, step, attempted, tx, table, dbOpen, up,
                   failures>>

Close ==
    /\ up /\ stopping /\ dbOpen
    /\ dbOpen' = FALSE
    /\ UNCHANGED <<logged, queue, dropped, buf, mode, step, attempted, tx, table, stopping, up,
                   failures>>

Exit ==
    /\ up
    /\ up' = FALSE
    /\ queue' = <<>> /\ buf' = <<>> /\ tx' = <<>> /\ attempted' = 0
    /\ mode' = "done" /\ step' = "wait"
    /\ UNCHANGED <<logged, dropped, table, stopping, dbOpen, failures>>

---------------------------------------------------------------------------
Writer == Take \/ TickFlush \/ SeeStop \/ DrainEmpty \/ Begin \/ ExecRow \/ Commit

LogNext == LogCommand \/ Writer \/ Stop \/ Close \/ Exit

LogSpec == LogInit /\ [][LogNext]_logVars

(* The writer goroutine is never blocked for good: its ticker fires every    *)
(* 250 ms and its database calls return.                                     *)
LogFairSpec == LogSpec /\ WF_logVars(Writer)

---------------------------------------------------------------------------
(* Types: the channel within its capacity, the buffer within one batch, an   *)
(* open transaction only over the rows of the buffer.                        *)
LogTypeOK ==
    /\ logged \in 0..MaxLogs
    /\ queue \in Seq(Record) /\ Len(queue) <= LogQueueCap
    /\ dropped \in Nat
    /\ buf \in Seq(Record) /\ Len(buf) <= WriterBatch
    /\ mode \in {"select", "drain", "final", "done"}
    /\ step \in {"wait", "begin", "rows"}
    /\ attempted \in 0..Len(buf)
    /\ tx \in Seq(Record) /\ Len(tx) <= attempted
    /\ table \in Seq(Record)
    /\ stopping \in BOOLEAN /\ dbOpen \in BOOLEAN /\ up \in BOOLEAN
    /\ failures \in 0..MaxFailures

(* Records LogCommand was given that are neither waiting nor stored. *)
Missing == logged - (Len(queue) + Len(buf) + Len(table))

(* README "overflow is counted and dropped, never blocking the hot path":    *)
(* while the process runs no record goes missing without being counted,      *)
(* through full queues, failing transactions and a closing database, and     *)
(* none is stored twice.                                                     *)
NoSilentLoss == up => 0 <= Missing /\ Missing <= dropped

Increasing(s) == \A i, j \in 1..Len(s) : i < j => s[i] < s[j]

(* command_usage_log keeps the order of the calls: neither the switch to the *)
(* drain loop nor a batch that was partly inserted reorders the records.     *)
StoredInOrder == Increasing(table)

Holding(s, r) == \E i \in 1..Len(s) : s[i] = r

(* What was queued before shutdown began is settled: the writer stores it or *)
(* counts it, also when Stop and Close overtake it.                          *)
QueuedIsSettled ==
    \A r \in Record :
        (Holding(queue, r) /\ ~stopping) ~> ~(Holding(queue, r) \/ Holding(buf, r))
=============================================================================
