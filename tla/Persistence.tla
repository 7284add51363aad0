---------------------------- MODULE Persistence ----------------------------
(***************************************************************************)
(* The telemetry path of the L5 PersistenceService: a buffer in memory     *)
(* that a timer, or a push that fills it, hands to TimescaleDB as one      *)
(* INSERT, one at a time.  A row is the number of its push.                *)
(*                                                                         *)
(* Status messages arrive from the moment the microservice listens, which  *)
(* is before onModuleInit and until after onModuleDestroy.                 *)
(***************************************************************************)
EXTENDS Naturals, FiniteSets

CONSTANTS
  BatchSize,    \* BATCH_SIZE, 200 in the code
  MaxRows,      \* bound: rows pushed
  MaxFailures,  \* bound: INSERTs that the database rejects
  MaxCrashes    \* bound: process crashes

ASSUME PersistenceAssumption ==
  /\ BatchSize \in Nat \ {0}
  /\ {MaxRows, MaxFailures, MaxCrashes} \subseteq Nat

VARIABLES
  phase,        \* of the module: starting, running, destroying, ending, closed
  buffer,       \* telemetryBuffer
  isFlushing,
  inserts,      \* the batches of the INSERTs in progress
  table,        \* the rows in uam_telemetry
  lost,         \* the rows that are nowhere any more
  pushed,       \* rows pushed so far
  due,          \* history: rows pushed before an onModuleDestroy that no INSERT was in the way of
  failures, crashes

vars == <<phase, buffer, isFlushing, inserts, table, lost, pushed, due, failures, crashes>>

\* Before onModuleInit there is no pool; the field is kept when the pool ends.
HasPool == phase # "starting"

\* Mutant: no flag keeps flushes apart.
CanFlushAnyTime(rows) == rows # {} /\ HasPool

CanFlush(rows) == ~isFlushing /\ rows # {} /\ HasPool

\* Mutant: the buffer is emptied only by the INSERT's success, so it is sent again.
FlushKeepingBuffer(rows) ==
  \/ ~CanFlush(rows) /\ buffer' = rows /\ UNCHANGED <<isFlushing, inserts, lost>>
  \/ /\ CanFlush(rows) /\ phase \in {"running", "destroying"}
     /\ isFlushing' = TRUE
     /\ inserts' = inserts \cup {rows}
     /\ buffer' = rows
     /\ UNCHANGED lost

\* Mutant: the query is made whether there is a pool or not.
FlushWithoutPool(rows) ==
  \/ (isFlushing \/ rows = {}) /\ buffer' = rows /\ UNCHANGED <<isFlushing, inserts, lost>>
  \/ /\ ~isFlushing /\ rows # {} /\ phase \in {"running", "destroying"}
     /\ isFlushing' = TRUE
     /\ inserts' = inserts \cup {rows}
     /\ buffer' = {}
     /\ UNCHANGED lost
  \/ /\ ~isFlushing /\ rows # {} /\ phase \in {"starting", "ending", "closed"}
     /\ lost' = lost \cup rows
     /\ buffer' = {}
     /\ UNCHANGED <<isFlushing, inserts>>

\* flushTelemetryBatch up to its await, with "rows" in the buffer.  A query on a
\* pool that has been ended fails at once.
Flush(rows) ==
  \/ ~CanFlush(rows) /\ buffer' = rows /\ UNCHANGED <<isFlushing, inserts, lost>>
  \/ /\ CanFlush(rows) /\ phase \in {"running", "destroying"}
     /\ isFlushing' = TRUE
     /\ inserts' = inserts \cup {rows}
     /\ buffer' = {}
     /\ UNCHANGED lost
  \/ /\ CanFlush(rows) /\ phase \in {"ending", "closed"}
     /\ lost' = lost \cup rows
     /\ buffer' = {}
     /\ UNCHANGED <<isFlushing, inserts>>

PushTelemetry ==
  /\ pushed < MaxRows
  /\ pushed' = pushed + 1
  /\ LET rows == buffer \cup {pushed + 1}
     IN \/ Cardinality(rows) >= BatchSize /\ Flush(rows)
        \/ /\ Cardinality(rows) < BatchSize
           /\ buffer' = rows
           /\ UNCHANGED <<isFlushing, inserts, lost>>
  /\ UNCHANGED <<phase, table, due, failures, crashes>>

FlushTimer ==
  /\ phase = "running"
  /\ Flush(buffer)
  /\ UNCHANGED <<phase, table, pushed, due, failures, crashes>>

\* onModuleDestroy goes on to end the pool when its own flush, the only one that
\* can be in progress then, returns.
AfterFlush == phase' = IF phase = "destroying" THEN "ending" ELSE phase

\* The await of flushTelemetryBatch returns.
Inserted(rows) ==
  /\ rows \in inserts
  /\ inserts' = inserts \ {rows}
  /\ isFlushing' = FALSE
  /\ table' = table \cup rows
  /\ AfterFlush
  /\ UNCHANGED <<buffer, lost, pushed, due, failures, crashes>>

\* Mutant: isFlushing is reset after the query instead of in the finally block.
InsertFailedFlagKept(rows) ==
  /\ failures < MaxFailures /\ failures' = failures + 1
  /\ rows \in inserts
  /\ inserts' = inserts \ {rows}
  /\ lost' = lost \cup rows
  /\ AfterFlush
  /\ UNCHANGED <<buffer, isFlushing, table, pushed, due, crashes>>

\* The batch of a failed INSERT is dropped.
InsertFailed(rows) ==
  /\ failures < MaxFailures /\ failures' = failures + 1
  /\ rows \in inserts
  /\ inserts' = inserts \ {rows}
  /\ isFlushing' = FALSE
  /\ lost' = lost \cup rows
  /\ AfterFlush
  /\ UNCHANGED <<buffer, table, pushed, due, crashes>>

OnModuleInit ==
  /\ phase = "starting"
  /\ phase' = "running"
  /\ UNCHANGED <<buffer, isFlushing, inserts, table, lost, pushed, due, failures, crashes>>

\* Mutant: the pool is ended without a flush.
OnModuleDestroyUnflushed ==
  /\ phase = "running"
  /\ phase' = "ending"
  /\ due' = IF isFlushing THEN 0 ELSE pushed
  /\ UNCHANGED <<buffer, isFlushing, inserts, table, lost, pushed, failures, crashes>>

\* The timer is stopped and what is in the buffer flushed; if a flush is in
\* progress flushTelemetryBatch returns at once and the pool is ended.
OnModuleDestroy ==
  /\ phase = "running"
  /\ phase' = IF CanFlush(buffer) THEN "destroying" ELSE "ending"
  /\ Flush(buffer)
  /\ due' = IF isFlushing THEN 0 ELSE pushed
  /\ UNCHANGED <<table, pushed, failures, crashes>>

\* pool.end() waits for the clients in use.
PoolEnded ==
  /\ phase = "ending" /\ inserts = {}
  /\ phase' = "closed"
  /\ UNCHANGED <<buffer, isFlushing, inserts, table, lost, pushed, due, failures, crashes>>

\* The process dies and starts anew; an INSERT in progress is committed or not.
Crash ==
  /\ phase # "closed"
  /\ crashes < MaxCrashes /\ crashes' = crashes + 1
  /\ phase' = "starting"
  /\ \E committed \in SUBSET inserts :
       /\ table' = table \cup UNION committed
       /\ lost' = lost \cup buffer \cup UNION (inserts \ committed)
  /\ buffer' = {} /\ inserts' = {} /\ isFlushing' = FALSE
  /\ UNCHANGED <<pushed, due, failures>>

Init ==
  /\ phase = "starting"
  /\ buffer = {} /\ inserts = {} /\ isFlushing = FALSE
  /\ table = {} /\ lost = {}
  /\ pushed = 0 /\ due = 0
  /\ failures = 0 /\ crashes = 0

Answered == \E rows \in inserts : Inserted(rows) \/ InsertFailed(rows)

Next ==
  \/ PushTelemetry \/ FlushTimer \/ Answered
  \/ OnModuleInit \/ OnModuleDestroy \/ PoolEnded
  \/ Crash

Spec == Init /\ [][Next]_vars

\* Start-up completes, the timer fires, and the database answers.
FairSpec ==
  Spec /\ WF_vars(OnModuleInit) /\ WF_vars(FlushTimer) /\ WF_vars(Answered)

-----------------------------------------------------------------------------
(* Properties *)

Row == Nat \ {0}
InFlight == UNION inserts

\* Types; one INSERT at most is in progress, and isFlushing says whether.
TypeOK ==
  /\ phase \in {"starting", "running", "destroying", "ending", "closed"}
  /\ buffer \subseteq Row /\ table \subseteq Row /\ lost \subseteq Row
  /\ isFlushing \in BOOLEAN
  /\ inserts \subseteq SUBSET Row
  /\ isFlushing <=> inserts # {}
  /\ \A b, c \in inserts : b = c
  /\ pushed \in Nat /\ due \in Nat /\ failures \in Nat /\ crashes \in Nat

\* Every row that was pushed is in exactly one place: on its way, stored, or lost;
\* a row pushed while an INSERT is awaited is neither dropped nor sent twice.
EachRowOnce ==
  /\ buffer \cup InFlight \cup table \cup lost = 1 .. pushed
  /\ buffer \cap InFlight = {} /\ buffer \cap table = {} /\ buffer \cap lost = {}
  /\ InFlight \cap table = {} /\ InFlight \cap lost = {} /\ table \cap lost = {}

\* Rows are lost to a failed INSERT, a crash or a shutdown, and to nothing else.
LossHasCause ==
  lost # {} => failures > 0 \/ crashes > 0 \/ phase \in {"ending", "closed"}

\* Rows reach the table in the order of their packets: what is stored later was
\* pushed later.
StoredInOrder == [][\A r \in table' \ table : \A q \in table : q < r]_vars

\* A row in the buffer of a running service is stored or lost in the end: a failed
\* INSERT does not stop the flushing.
RowsSettle ==
  \A r \in 1 .. MaxRows :
    r \in buffer ~> (r \in table \cup lost \/ phase \in {"destroying", "ending", "closed"})

\* A shutdown that finds no INSERT in progress loses nothing: every row pushed before it
\* is stored, though the pool is ended while rows are still coming, unless an INSERT
\* fails or the process dies.
ShutdownFlushes ==
  phase = "closed" /\ failures = 0 /\ crashes = 0 => 1 .. due \subseteq table
=============================================================================
