------------------------- MODULE PersistenceProofs -------------------------
(***************************************************************************)
(* Proofs about Persistence, for every batch size and any number of rows,  *)
(* failures and crashes.                                                   *)
(***************************************************************************)
EXTENDS Persistence, TLAPS

\* What is stored was pushed before what is in progress, and that before what is
\* in the buffer.
Ordered ==
  /\ \A q \in table, r \in InFlight \cup buffer : q < r
  /\ \A q \in InFlight, r \in buffer : q < r

PersistenceInv == TypeOK /\ EachRowOnce /\ Ordered /\ LossHasCause

LEMMA InitPersistence == Init => PersistenceInv
<1> SUFFICES ASSUME Init PROVE PersistenceInv
  OBVIOUS
<1>1. buffer = {} /\ inserts = {} /\ table = {} /\ lost = {} /\ InFlight = {}
        /\ pushed = 0 /\ 1 .. pushed = {}
  BY DEF Init, InFlight
<1>a. phase = "starting" /\ isFlushing = FALSE /\ due = 0 /\ failures = 0 /\ crashes = 0
  BY DEF Init
<1>b. inserts \subseteq SUBSET Row /\ (\A b, c \in inserts : b = c)
        /\ buffer \subseteq Row /\ table \subseteq Row /\ lost \subseteq Row
  BY <1>1
<1>c. isFlushing \in BOOLEAN /\ (isFlushing <=> inserts # {})
  BY <1>1, <1>a
<1>2. TypeOK
  BY <1>1, <1>a, <1>b, <1>c DEF TypeOK
<1>3. EachRowOnce /\ Ordered /\ LossHasCause
  BY <1>1 DEF EachRowOnce, Ordered, LossHasCause
<1>4. QED
  BY <1>2, <1>3 DEF PersistenceInv

\* The places of the rows, and their order, as facts about sets.
Places(b, f, t, l, n) ==
  /\ b \cup f \cup t \cup l = 1 .. n
  /\ b \cap f = {} /\ b \cap t = {} /\ b \cap l = {}
  /\ f \cap t = {} /\ f \cap l = {} /\ t \cap l = {}
  /\ \A q \in t, r \in f \cup b : q < r
  /\ \A q \in f, r \in b : q < r

LEMMA PlacesInv ==
  EachRowOnce /\ Ordered <=> Places(buffer, InFlight, table, lost, pushed)
BY DEF EachRowOnce, Ordered, Places

LEMMA PlacesNext ==
  TypeOK' /\ LossHasCause' /\ Places(buffer', InFlight', table', lost', pushed')
    => PersistenceInv'
BY DEF PersistenceInv, EachRowOnce, Ordered, Places

\* A flush, of the buffer as it is or with a row just pushed.
LEMMA FlushOK ==
  ASSUME TypeOK, LossHasCause, NEW rows \in SUBSET Row, NEW n \in Nat,
         Places(rows, InFlight, table, lost, n), Flush(rows),
         pushed' = n, due' \in Nat,
         UNCHANGED <<table, failures, crashes>>,
         \/ UNCHANGED phase
         \/ phase = "running" /\ CanFlush(rows) /\ phase' = "destroying"
         \/ phase = "running" /\ ~CanFlush(rows) /\ phase' = "ending"
  PROVE  PersistenceInv'
<1>0. Row \subseteq Nat
  BY DEF Row
<1>1. CASE ~CanFlush(rows) /\ buffer' = rows /\ UNCHANGED <<isFlushing, inserts, lost>>
  <2>1. Places(buffer', InFlight', table', lost', pushed')
    BY <1>1 DEF InFlight
  <2>2. TypeOK'
    BY <1>1 DEF TypeOK
  <2>3. LossHasCause'
    BY <1>1 DEF LossHasCause
  <2>4. QED
    BY <2>1, <2>2, <2>3, PlacesNext
<1>2. CASE /\ CanFlush(rows) /\ phase \in {"running", "destroying"}
           /\ isFlushing' = TRUE /\ inserts' = inserts \cup {rows}
           /\ buffer' = {} /\ UNCHANGED lost
  <2>1. inserts = {} /\ inserts' = {rows} /\ InFlight = {} /\ InFlight' = rows
    BY <1>2 DEF CanFlush, TypeOK, InFlight
  <2>2. Places(buffer', InFlight', table', lost', pushed')
    BY <1>2, <2>1 DEF Places
  <2>3. TypeOK'
    BY <1>2, <2>1 DEF TypeOK
  <2>4. LossHasCause'
    BY <1>2 DEF LossHasCause
  <2>5. QED
    BY <2>2, <2>3, <2>4, PlacesNext
<1>3. CASE /\ CanFlush(rows) /\ phase \in {"ending", "closed"}
           /\ lost' = lost \cup rows /\ buffer' = {} /\ UNCHANGED <<isFlushing, inserts>>
  <2>1. Places(buffer', InFlight', table', lost', pushed')
    BY <1>3 DEF Places, InFlight
  <2>2. TypeOK' /\ LossHasCause'
    BY <1>3 DEF TypeOK, LossHasCause
  <2>3. QED
    BY <2>1, <2>2, PlacesNext
<1>4. QED
  BY <1>1, <1>2, <1>3 DEF Flush

LEMMA PushOK ==
  ASSUME TypeOK, NEW n \in Nat, n = pushed,
         Places(buffer, InFlight, table, lost, n)
  PROVE  Places(buffer \cup {n + 1}, InFlight, table, lost, n + 1)
<1>1. \A r \in 1 .. n : r < n + 1
  OBVIOUS
<1>2. (1 .. n) \cup {n + 1} = 1 .. (n + 1)
  OBVIOUS
<1>3. \A r \in buffer \cup InFlight \cup table \cup lost : r \in 1 .. n
  BY DEF Places
<1>4. QED
  BY <1>1, <1>2, <1>3 DEF Places

\* An INSERT in progress ends; there is no other.
LEMMA AnswerOK ==
  ASSUME PersistenceInv, NEW rows \in inserts, inserts' = inserts \ {rows},
         isFlushing' = FALSE, AfterFlush, failures' \in Nat,
         UNCHANGED <<buffer, pushed, due, crashes>>,
         \/ table' = table \cup rows /\ UNCHANGED <<lost, failures>>
         \/ lost' = lost \cup rows /\ failures' > 0 /\ UNCHANGED table
  PROVE  PersistenceInv'
<1>1. inserts = {rows} /\ inserts' = {} /\ InFlight = rows /\ InFlight' = {}
        /\ rows \subseteq Row
  BY DEF PersistenceInv, TypeOK, InFlight
<1>2. Places(buffer, rows, table, lost, pushed)
  BY <1>1, PlacesInv DEF PersistenceInv
<1>3. Places(buffer', InFlight', table', lost', pushed')
  BY <1>1, <1>2 DEF Places
<1>4. TypeOK'
  BY <1>1 DEF PersistenceInv, TypeOK, AfterFlush
<1>5. LossHasCause'
  BY DEF PersistenceInv, LossHasCause, AfterFlush, TypeOK
<1>6. QED
  BY <1>3, <1>4, <1>5, PlacesNext

LEMMA CrashOK == ASSUME PersistenceInv, Crash PROVE PersistenceInv'
<1>1. PICK committed \in SUBSET inserts :
        /\ table' = table \cup UNION committed
        /\ lost' = lost \cup buffer \cup UNION (inserts \ committed)
  BY DEF Crash
<1>2. Places(buffer, InFlight, table, lost, pushed)
  BY PlacesInv DEF PersistenceInv
<1>3. \/ UNION committed = InFlight /\ UNION (inserts \ committed) = {}
      \/ UNION committed = {} /\ UNION (inserts \ committed) = InFlight
  BY DEF PersistenceInv, TypeOK, InFlight
<1>4. Places(buffer', InFlight', table', lost', pushed')
  BY <1>1, <1>2, <1>3 DEF Crash, Places, InFlight
<1>5. InFlight \subseteq Row /\ buffer \subseteq Row /\ table \subseteq Row /\ lost \subseteq Row
  BY DEF PersistenceInv, TypeOK, InFlight
<1>b. table' \subseteq Row /\ lost' \subseteq Row
  BY <1>1, <1>3, <1>5
<1>c. inserts' = {} /\ isFlushing' = FALSE /\ buffer' = {} /\ phase' = "starting"
        /\ crashes' = crashes + 1 /\ UNCHANGED <<pushed, due, failures>>
  BY DEF Crash
<1>d. pushed \in Nat /\ due \in Nat /\ failures \in Nat /\ crashes \in Nat
  BY DEF PersistenceInv, TypeOK
<1>e. inserts' \subseteq SUBSET Row /\ (\A b, c \in inserts' : b = c) /\ buffer' \subseteq Row
  BY <1>c
<1>f. isFlushing' \in BOOLEAN /\ (isFlushing' <=> inserts' # {})
  BY <1>c
<1>g. pushed' \in Nat /\ due' \in Nat /\ failures' \in Nat /\ crashes' \in Nat
  BY <1>c, <1>d
<1>6. TypeOK'
  BY <1>b, <1>c, <1>e, <1>f, <1>g DEF TypeOK
<1>7. LossHasCause'
  BY DEF Crash, LossHasCause, PersistenceInv, TypeOK
<1>8. QED
  BY <1>4, <1>6, <1>7, PlacesNext

LEMMA StepPersistence == PersistenceInv /\ [Next]_vars => PersistenceInv'
<1> SUFFICES ASSUME PersistenceInv, [Next]_vars PROVE PersistenceInv'
  OBVIOUS
<1>a. TypeOK /\ LossHasCause /\ Places(buffer, InFlight, table, lost, pushed)
  BY PlacesInv DEF PersistenceInv
<1>b. buffer \subseteq Row /\ pushed \in Nat /\ pushed + 1 \in Row /\ due \in Nat
  BY <1>a DEF TypeOK, Row
<1>1. CASE PushTelemetry
  <2> DEFINE rows == buffer \cup {pushed + 1}
  <2>1. Places(rows, InFlight, table, lost, pushed + 1) /\ rows \in SUBSET Row
    BY <1>a, <1>b, PushOK
  <2>2. pushed' = pushed + 1 /\ UNCHANGED <<phase, table, due, failures, crashes>>
    BY <1>1 DEF PushTelemetry
  <2>3. \/ Flush(rows)
        \/ buffer' = rows /\ UNCHANGED <<isFlushing, inserts, lost>>
    BY <1>1 DEF PushTelemetry
  <2> HIDE DEF rows
  <2>4. CASE Flush(rows)
    BY <1>a, <1>b, <2>1, <2>2, <2>4, FlushOK
  <2>5. CASE buffer' = rows /\ UNCHANGED <<isFlushing, inserts, lost>>
    <3>1. Places(buffer', InFlight', table', lost', pushed')
      BY <2>1, <2>2, <2>5 DEF InFlight
    <3>2. TypeOK' /\ LossHasCause'
      BY <1>a, <1>b, <2>1, <2>2, <2>5 DEF TypeOK, LossHasCause
    <3>3. QED
      BY <3>1, <3>2, PlacesNext
  <2>6. QED
    BY <2>3, <2>4, <2>5
<1>2. CASE FlushTimer
  BY <1>2, <1>a, <1>b, FlushOK DEF FlushTimer
<1>3. CASE OnModuleDestroy
  BY <1>3, <1>a, <1>b, FlushOK DEF OnModuleDestroy
<1>4. CASE Answered
  <2>1. failures \in Nat
    BY <1>a DEF TypeOK
  <2>2. PICK rows \in inserts : Inserted(rows) \/ InsertFailed(rows)
    BY <1>4 DEF Answered
  <2>3. failures' \in Nat /\ (InsertFailed(rows) => failures' > 0)
    BY <2>1, <2>2 DEF Inserted, InsertFailed
  <2>4. QED
    BY <2>2, <2>3, AnswerOK DEF Inserted, InsertFailed
<1>5. CASE OnModuleInit \/ PoolEnded
  BY <1>5 DEF OnModuleInit, PoolEnded, PersistenceInv, TypeOK, EachRowOnce, Ordered,
     LossHasCause, InFlight
<1>6. CASE Crash
  BY <1>6, CrashOK
<1>7. CASE UNCHANGED vars
  BY <1>7 DEF vars, PersistenceInv, TypeOK, EachRowOnce, Ordered, LossHasCause, InFlight
<1>8. QED
  BY <1>1, <1>2, <1>3, <1>4, <1>5, <1>6, <1>7 DEF Next

LEMMA PersistenceInvariant == Spec => []PersistenceInv
BY InitPersistence, StepPersistence, PTL DEF Spec

\* Types, and at most one INSERT in progress.
THEOREM TypeCorrect == Spec => []TypeOK
<1>1. PersistenceInv => TypeOK
  BY DEF PersistenceInv
<1>2. QED
  BY <1>1, PersistenceInvariant, PTL

\* No row is dropped without trace, duplicated or stored twice.
THEOREM EachRowOnceHolds == Spec => []EachRowOnce
<1>1. PersistenceInv => EachRowOnce
  BY DEF PersistenceInv
<1>2. QED
  BY <1>1, PersistenceInvariant, PTL

\* Only failed INSERTs, crashes and shutdowns lose rows.
THEOREM LossHasCauseHolds == Spec => []LossHasCause
<1>1. PersistenceInv => LossHasCause
  BY DEF PersistenceInv
<1>2. QED
  BY <1>1, PersistenceInvariant, PTL

\* Rows are stored in the order in which they were pushed.
THEOREM StoredInOrderHolds == Spec => StoredInOrder
<1>1. PersistenceInv /\ [Next]_vars =>
        [\A r \in table' \ table : \A q \in table : q < r]_vars
  <2> SUFFICES ASSUME PersistenceInv, Next, NEW r \in table' \ table, NEW q \in table
               PROVE  q < r
    OBVIOUS
  <2>1. r \in InFlight
    BY DEF Next, PushTelemetry, FlushTimer, Answered, Inserted, InsertFailed,
       OnModuleInit, OnModuleDestroy, PoolEnded, Crash, InFlight
  <2>2. QED
    BY <2>1 DEF PersistenceInv, Ordered
<1>2. QED
  BY <1>1, PersistenceInvariant, PTL DEF Spec, StoredInOrder

-----------------------------------------------------------------------------
(* Shutdown *)

\* Where the rows are that a shutdown has to store, while nothing has failed.
DueStored ==
  failures = 0 /\ crashes = 0 =>
    /\ phase \in {"starting", "running"} => due = 0
    /\ phase = "destroying" => 1 .. due \subseteq table \cup InFlight
    /\ phase \in {"ending", "closed"} => 1 .. due \subseteq table

LEMMA InitDue == Init => DueStored
BY DEF Init, DueStored

\* Steps that flush, but for the shutdown, move rows into the INSERT in progress.
LEMMA FlushKeepsDue ==
  ASSUME PersistenceInv, DueStored, NEW rows, Flush(rows),
         UNCHANGED <<phase, table, due, failures, crashes>>
  PROVE  DueStored'
<1>1. InFlight \subseteq InFlight'
  BY DEF Flush, InFlight
<1>2. QED
  BY <1>1 DEF DueStored

LEMMA StepDue == PersistenceInv /\ DueStored /\ [Next]_vars => DueStored'
<1> SUFFICES ASSUME PersistenceInv, DueStored, [Next]_vars PROVE DueStored'
  OBVIOUS
<1>a. TypeOK /\ EachRowOnce /\ LossHasCause
  BY DEF PersistenceInv
<1>1. CASE PushTelemetry
  <2>1. \/ Flush(buffer \cup {pushed + 1})
        \/ UNCHANGED inserts
    BY <1>1 DEF PushTelemetry
  <2>2. UNCHANGED <<phase, table, due, failures, crashes>>
    BY <1>1 DEF PushTelemetry
  <2>3. CASE UNCHANGED inserts
    BY <2>2, <2>3 DEF DueStored, InFlight
  <2>4. QED
    BY <2>1, <2>2, <2>3, FlushKeepsDue
<1>2. CASE FlushTimer
  BY <1>2, FlushKeepsDue DEF FlushTimer
<1>3. CASE OnModuleDestroy
  <2>1. phase = "running" /\ UNCHANGED <<table, failures, crashes>> /\ Flush(buffer)
          /\ due' = (IF isFlushing THEN 0 ELSE pushed)
          /\ phase' = (IF CanFlush(buffer) THEN "destroying" ELSE "ending")
    BY <1>3 DEF OnModuleDestroy
  <2>2. CASE isFlushing
    <3>1. due' = 0 /\ phase' = "ending"
      BY <2>1, <2>2 DEF CanFlush
    <3>2. 1 .. due' = {}
      BY <3>1
    <3>3. QED
      BY <3>1, <3>2 DEF DueStored
  <2>3. CASE ~isFlushing
    <3> SUFFICES ASSUME failures = 0, crashes = 0 PROVE DueStored'
      BY <2>1 DEF DueStored
    <3>1. lost = {} /\ InFlight = {} /\ due' = pushed
      BY <2>1, <2>3, <1>a DEF LossHasCause, TypeOK, InFlight
    <3>2. 1 .. due' = buffer \cup table
      BY <3>1, <1>a DEF EachRowOnce
    <3>3. CASE CanFlush(buffer)
      <4>1. buffer \subseteq InFlight' /\ phase' = "destroying"
        BY <2>1, <3>3 DEF Flush, InFlight
      <4>2. QED
        BY <4>1, <3>2, <2>1 DEF DueStored
    <3>4. CASE ~CanFlush(buffer)
      <4>1. buffer = {} /\ phase' = "ending"
        BY <2>1, <2>3, <3>4 DEF CanFlush, HasPool
      <4>2. QED
        BY <4>1, <3>2, <2>1 DEF DueStored
    <3>5. QED
      BY <3>3, <3>4
  <2>4. QED
    BY <2>2, <2>3
<1>4. CASE Answered
  <2>1. PICK rows \in inserts : Inserted(rows) \/ InsertFailed(rows)
    BY <1>4 DEF Answered
  <2>2. InFlight = rows
    BY <2>1, <1>a DEF TypeOK, InFlight
  <2>3. CASE Inserted(rows)
    BY <2>2, <2>3 DEF Inserted, AfterFlush, DueStored
  <2>4. CASE InsertFailed(rows)
    <3>1. failures' # 0
      BY <2>4, <1>a DEF InsertFailed, TypeOK
    <3>2. QED
      BY <3>1 DEF DueStored
  <2>5. QED
    BY <2>1, <2>3, <2>4
<1>5. CASE OnModuleInit \/ PoolEnded
  BY <1>5 DEF OnModuleInit, PoolEnded, DueStored, InFlight
<1>6. CASE Crash
  <2>1. crashes' # 0
    BY <1>6, <1>a DEF Crash, TypeOK
  <2>2. QED
    BY <2>1 DEF DueStored
<1>7. CASE UNCHANGED vars
  BY <1>7 DEF vars, DueStored, InFlight
<1>8. QED
  BY <1>1, <1>2, <1>3, <1>4, <1>5, <1>6, <1>7 DEF Next

\* A shutdown that no INSERT is in the way of stores every row pushed before it.
THEOREM ShutdownFlushesHolds == Spec => []ShutdownFlushes
<1>1. DueStored => ShutdownFlushes
  BY DEF DueStored, ShutdownFlushes
<1>2. QED
  BY <1>1, InitDue, StepDue, PersistenceInvariant, PTL DEF Spec
=============================================================================
