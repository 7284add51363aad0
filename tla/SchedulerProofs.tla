-------------------------- MODULE SchedulerProofs --------------------------
(***************************************************************************)
(* Proofs about Scheduler.  TypeOK comes first.  Then every step is        *)
(* described by what it does to the registrations in flight, the blocked   *)
(* ids and the landed list (lemma StepKinds); the invariants about         *)
(* landings and the refinement of LandingLog follow from that lemma alone. *)
(***************************************************************************)
EXTENDS Scheduler, FiniteSetTheorems, TLAPS

-----------------------------------------------------------------------------
(* Types *)

\* TypeOK, and what Cardinality needs to mean anything.
TypeInv == TypeOK /\ IsFiniteSet(rawBuffer)

BufferOK(b) == b \subseteq Uam /\ IsFiniteSet(b) /\ Cardinality(b) <= MapBufferLimit

\* updateMapBuffer keeps the buffer within its limit.
LEMMA UpdateMapBufferOK ==
  ASSUME BufferOK(rawBuffer), NEW u \in Uam, UpdateMapBuffer(u)
  PROVE  BufferOK(rawBuffer')
<1> USE SchedulerAssumption
<1>1. CASE UNCHANGED rawBuffer
  BY <1>1 DEF BufferOK
<1>a. IsFiniteSet(rawBuffer) /\ Cardinality(rawBuffer) \in Nat
  BY FS_CardinalityType DEF BufferOK
<1>b. /\ IsFiniteSet(rawBuffer \cup {u})
      /\ \/ Cardinality(rawBuffer \cup {u}) = Cardinality(rawBuffer)
         \/ Cardinality(rawBuffer \cup {u}) = Cardinality(rawBuffer) + 1
  BY <1>a, FS_AddElement, Zenon
<1>2. /\ IsFiniteSet(rawBuffer \cup {u})
      /\ Cardinality(rawBuffer \cup {u}) <= Cardinality(rawBuffer) + 1
      /\ Cardinality(rawBuffer) \in Nat
      /\ Cardinality(rawBuffer \cup {u}) \in Nat
  BY <1>a, <1>b
<1>3. CASE rawBuffer' = rawBuffer \cup {u}
           /\ Cardinality(rawBuffer \cup {u}) <= MapBufferLimit
  BY <1>2, <1>3 DEF BufferOK
<1>4. ASSUME NEW oldest \in rawBuffer \ {u},
             rawBuffer' = (rawBuffer \cup {u}) \ {oldest}
      PROVE  BufferOK(rawBuffer')
  <2>1. /\ IsFiniteSet(rawBuffer')
        /\ Cardinality(rawBuffer') = Cardinality(rawBuffer \cup {u}) - 1
    BY <1>2, <1>4, FS_RemoveElement
  <2>2. QED
    BY <1>2, <1>4, <2>1 DEF BufferOK
<1>5. QED
  BY <1>1, <1>3, <1>4 DEF UpdateMapBuffer

\* A buffer that loses entries keeps within its limit.
LEMMA SmallerBufferOK ==
  ASSUME BufferOK(rawBuffer), NEW b \in SUBSET rawBuffer
  PROVE  BufferOK(b)
BY SchedulerAssumption, FS_Subset, FS_CardinalityType DEF BufferOK

TaskOK(k, n) ==
  /\ k \in TaskRecord
  /\ k.at \in AppCommands \cup RegisterCommands => k.uam \in Uam
  /\ k.at \in ResetCommands => n > 0

\* The parts of TypeOK that the steps change together.
TasksOK ==
  /\ conn \in [Connection -> Seq(Task)]
  /\ task \in [Task -> TaskRecord]
  /\ \A t \in Task : TaskOK(task[t], resets)
MemoryOK ==
  /\ landedUams \in Seq(Uam) /\ landedUamIds \subseteq Uam /\ BufferOK(rawBuffer)
RedisOK    == queue \subseteq Uam /\ detail \subseteq Uam
CommandsOK == commands \in Seq([command: {"LAND", "RESET"}, uam: Uam \cup {NoUam}])
CountsOK   ==
  rejects \in Nat /\ resets \in Nat /\ restarts \in Nat /\ cutShort \subseteq Uam

LEMMA TypeInvParts ==
  TypeInv <=> TasksOK /\ MemoryOK /\ RedisOK /\ CommandsOK /\ CountsOK
BY DEF TypeInv, TypeOK, TasksOK, TaskOK, MemoryOK, RedisOK, CommandsOK, CountsOK,
       BufferOK

Commands == AppCommands \cup GatewayCommands

\* The records a task can become.
LEMMA NewTaskOK ==
  /\ \A n \in Nat : TaskOK(Idle, n) /\ TaskOK(Boot, n)
  /\ \A n \in Nat, at \in Commands, u \in Uam, ks \in SUBSET Uam :
       at \notin ResetCommands => TaskOK(Busy(at, u, ks), n)
  /\ \A n \in Nat, at \in ResetCommands, ks \in SUBSET Uam :
       n > 0 => TaskOK(Busy(at, NoUam, ks), n)
BY DEF TaskOK, TaskRecord, Idle, Boot, Busy, Commands, AppCommands, GatewayCommands,
       RegisterCommands, ResetCommands

\* One task changes and its command is written.
LEMMA AwaitOK ==
  ASSUME TasksOK, CountsOK, resets' \in Nat, resets' >= resets,
         NEW t \in Task, NEW at \in Commands, NEW u, NEW ks,
         TaskOK(Busy(at, u, ks), resets'), Await(t, at, u, ks)
  PROVE  TasksOK'
BY DEF TasksOK, TaskOK, CountsOK, Await, Connection, ConnectionOf

LEMMA FinishOK ==
  ASSUME TasksOK, CountsOK, UNCHANGED resets, NEW t \in Task, Finish(t)
  PROVE  TasksOK'
BY NewTaskOK DEF TasksOK, TaskOK, CountsOK, Finish

\* The oldest command of a connection leaves it.
LEMMA ServeOK ==
  ASSUME TasksOK, CountsOK, UNCHANGED resets, NEW c \in Connection, conn[c] # <<>>,
         NEW k, TaskOK(k, resets), Serve(c, k)
  PROVE  TasksOK'
<1>1. Head(conn[c]) \in Task /\ Tail(conn[c]) \in Seq(Task)
  BY DEF TasksOK
<1>2. QED
  BY <1>1 DEF TasksOK, TaskOK, Serve

LEMMA OldestOK ==
  ASSUME TasksOK, NEW c \in Connection, conn[c] # <<>>
  PROVE  TaskOK(Oldest(c), resets)
<1>1. Head(conn[c]) \in Task
  BY DEF TasksOK
<1>2. QED
  BY <1>1 DEF TasksOK, Oldest

LEMMA AnswerOK ==
  ASSUME TasksOK, CountsOK, UNCHANGED resets, NEW c \in Connection, conn[c] # <<>>,
         Answer(c)
  PROVE  TasksOK'
<1> DEFINE k == [Oldest(c) EXCEPT !.replied = TRUE]
<1>1. TaskOK(Oldest(c), resets)
  BY OldestOK
<1>2. TaskOK(k, resets)
  BY <1>1 DEF TaskOK, TaskRecord
<1>3. Serve(c, k)
  BY DEF Answer
<1> HIDE DEF k
<1>4. QED
  BY <1>2, <1>3, ServeOK

LEMMA RegisterLandedOK ==
  ASSUME TasksOK, MemoryOK, CountsOK, UNCHANGED <<resets, landedUams, rawBuffer>>,
         NEW t \in Task, NEW u \in Uam, RegisterLanded(t, u)
  PROVE  TasksOK' /\ MemoryOK'
<1>1. CASE Finish(t) /\ UNCHANGED landedUamIds
  BY <1>1, FinishOK DEF MemoryOK, CountsOK, BufferOK
<1>2. CASE landedUamIds' = landedUamIds \cup {u} /\ Await(t, "regZrem", u, {})
  <2>1. "regZrem" \in Commands \ ResetCommands
    BY DEF Commands, GatewayCommands, RegisterCommands, ResetCommands
  <2>2. TaskOK(Busy("regZrem", u, {}), resets')
    BY <2>1, NewTaskOK DEF CountsOK
  <2>3. QED
    BY <1>2, <2>1, <2>2, AwaitOK DEF MemoryOK, CountsOK, BufferOK
<1>3. QED
  BY <1>1, <1>2 DEF RegisterLanded

LEMMA ClearMemoryOK == ClearMemory => MemoryOK'
BY SchedulerAssumption, FS_EmptySet DEF ClearMemory, MemoryOK, BufferOK

LEMMA ClearAndSendResetOK ==
  ASSUME TasksOK, CountsOK, CommandsOK, UNCHANGED resets, NEW t \in Task,
         ClearAndSendReset(t)
  PROVE  TasksOK' /\ MemoryOK' /\ CommandsOK'
BY ClearMemoryOK, FinishOK DEF ClearAndSendReset, CommandsOK, Reset

LEMMA StartAnewOK ==
  ASSUME TasksOK, CountsOK, UNCHANGED resets, NEW t \in Task, StartAnew(t)
  PROVE  TasksOK' /\ MemoryOK'
<1>1. MemoryOK'
  BY ClearMemoryOK DEF StartAnew
<1>2. conn' \in [Connection -> Seq(Task)]
  BY DEF StartAnew, Connection
<1>3. \A s \in Task : TaskOK(task'[s], resets')
  BY NewTaskOK DEF StartAnew, CountsOK
<1>4. task' \in [Task -> TaskRecord]
  BY <1>3 DEF StartAnew, TaskOK
<1>5. QED
  BY <1>1, <1>2, <1>3, <1>4 DEF TasksOK

\* A task that has its reply goes on, step by step of its handler.
LEMMA ContinueOK ==
  ASSUME TypeInv, NEW t \in Task, Continue(t)
  PROVE  TypeInv'
<1> TasksOK /\ MemoryOK /\ RedisOK /\ CommandsOK /\ CountsOK
  BY TypeInvParts
<1> SUFFICES TasksOK' /\ MemoryOK' /\ RedisOK' /\ CommandsOK' /\ CountsOK'
  BY TypeInvParts, PTL
<1> USE DEF redis, memory, counts
<1>a. TaskOK(task[t], resets)
  BY DEF TasksOK
<1>b. \A at \in {"regDel", "landDel", "bootDel"} : at \in Commands \ ResetCommands
  BY DEF Commands, AppCommands, GatewayCommands, RegisterCommands, ResetCommands
<1>c. \A at \in ResetCommands : at \in Commands
  BY DEF Commands, GatewayCommands
<1>1. CASE StatusStored(t)
  <2>1. task[t].uam \in Uam
    BY <1>1, <1>a DEF StatusStored, Replied, TaskOK, AppCommands
  <2>2. BufferOK(rawBuffer')
    BY <1>1, <2>1, UpdateMapBufferOK DEF StatusStored, MemoryOK
  <2>3. QED
    BY <1>1, <2>2, FinishOK DEF StatusStored, MemoryOK, RedisOK, CommandsOK, CountsOK
<1>2. CASE LandZremmed(t)
  <2>1. task[t].uam \in Uam
    BY <1>2, <1>a DEF LandZremmed, Replied, TaskOK, AppCommands
  <2>2. TaskOK(Busy("landDel", task[t].uam, {}), resets')
    BY <1>2, <1>b, <2>1, NewTaskOK DEF LandZremmed, CountsOK
  <2>3. QED
    BY <1>2, <1>b, <2>2, AwaitOK
       DEF LandZremmed, MemoryOK, RedisOK, CommandsOK, CountsOK, BufferOK
<1>3. CASE LandDeleted(t)
  <2>1. task[t].uam \in Uam
    BY <1>3, <1>a DEF LandDeleted, Replied, TaskOK, AppCommands
  <2>2. QED
    BY <1>3, <2>1, RegisterLandedOK DEF LandDeleted, RedisOK, CommandsOK, CountsOK
<1>4. CASE RegisterZremmed(t)
  <2>1. task[t].uam \in Uam
    BY <1>4, <1>a DEF RegisterZremmed, Replied, TaskOK, RegisterCommands
  <2>2. TaskOK(Busy("regDel", task[t].uam, {}), resets')
    BY <1>4, <1>b, <2>1, NewTaskOK DEF RegisterZremmed, CountsOK
  <2>3. QED
    BY <1>4, <1>b, <2>2, AwaitOK
       DEF RegisterZremmed, MemoryOK, RedisOK, CommandsOK, CountsOK, BufferOK
<1>5. CASE RegisterDeleted(t)
  <2>1. task[t].uam \in Uam
    BY <1>5, <1>a DEF RegisterDeleted, Replied, TaskOK, RegisterCommands
  <2>2. BufferOK(rawBuffer')
    BY <1>5, SmallerBufferOK DEF RegisterDeleted, MemoryOK
  <2>3. landedUams' \in Seq(Uam)
    BY <1>5, <2>1 DEF RegisterDeleted, MemoryOK
  <2>4. QED
    BY <1>5, <2>2, <2>3, FinishOK
       DEF RegisterDeleted, MemoryOK, RedisOK, CommandsOK, CountsOK
<1>6. CASE BootDeleted(t)
  BY <1>6, FinishOK DEF BootDeleted, MemoryOK, RedisOK, CommandsOK, CountsOK, BufferOK
<1>7. CASE ResetDeleted(t)
  <2>1. "resetKeys" \in ResetCommands /\ resets > 0
    BY <1>7, <1>a DEF ResetDeleted, Replied, TaskOK, ResetCommands
  <2>2. TaskOK(Busy("resetKeys", NoUam, {}), resets')
    BY <1>7, <2>1, NewTaskOK DEF ResetDeleted, CountsOK
  <2>3. QED
    BY <1>7, <1>c, <2>1, <2>2, AwaitOK
       DEF ResetDeleted, MemoryOK, RedisOK, CommandsOK, CountsOK, BufferOK
<1>8. CASE ResetListed(t)
  <2>1. "resetDelKeys" \in ResetCommands /\ resets > 0 /\ task[t].keys \subseteq Uam
    BY <1>8, <1>a DEF ResetListed, Replied, TaskOK, ResetCommands, TaskRecord
  <2>2. TaskOK(Busy("resetDelKeys", NoUam, task[t].keys), resets')
    BY <1>8, <2>1, NewTaskOK DEF ResetListed, CountsOK
  <2>3. CASE ClearAndSendReset(t)
    BY <1>8, <2>3, ClearAndSendResetOK DEF ResetListed, RedisOK, CountsOK
  <2>4. CASE /\ Await(t, "resetDelKeys", NoUam, task[t].keys)
             /\ UNCHANGED <<memory, commands>>
    BY <1>8, <1>c, <2>1, <2>2, <2>4, AwaitOK
       DEF ResetListed, MemoryOK, RedisOK, CommandsOK, CountsOK, BufferOK
  <2>5. QED
    BY <1>8, <2>3, <2>4 DEF ResetListed
<1>9. CASE ResetKeysDeleted(t)
  BY <1>9, ClearAndSendResetOK DEF ResetKeysDeleted, RedisOK, CountsOK
<1>10. CASE OnModuleInit(t)
  <2>1. TaskOK(Busy("bootDel", NoUam, {}), resets')
    BY <1>10 DEF OnModuleInit, TaskOK, TaskRecord, Busy, AppCommands, RegisterCommands,
       ResetCommands, GatewayCommands
  <2>2. QED
    BY <1>10, <1>b, <2>1, AwaitOK
       DEF OnModuleInit, MemoryOK, RedisOK, CommandsOK, CountsOK, BufferOK
<1>11. QED
  BY <1>1, <1>2, <1>3, <1>4, <1>5, <1>6, <1>7, <1>8, <1>9, <1>10 DEF Continue

\* A message, an approval or the reset timer starts a handler.
LEMMA ArriveOK ==
  ASSUME TypeInv, NEW t \in Task, Arrive(t)
  PROVE  TypeInv'
<1> TasksOK /\ MemoryOK /\ RedisOK /\ CommandsOK /\ CountsOK
  BY TypeInvParts
<1> SUFFICES TasksOK' /\ MemoryOK' /\ RedisOK' /\ CommandsOK' /\ CountsOK'
  BY TypeInvParts, PTL
<1> USE SchedulerAssumption DEF redis, memory, counts
<1>1. ASSUME NEW u \in Jamsil \ Leftover, HandleJamsilStatus(t, u)
      PROVE  TasksOK' /\ MemoryOK' /\ RedisOK' /\ CommandsOK' /\ CountsOK'
  <2>1. "zadd" \in Commands \ ResetCommands
    BY DEF Commands, AppCommands, GatewayCommands, RegisterCommands, ResetCommands
  <2>2. TaskOK(Busy("zadd", u, {}), resets')
    BY <1>1, <2>1, NewTaskOK DEF HandleJamsilStatus, CountsOK
  <2>3. conn' \in [Connection -> Seq(Task)]
    BY <1>1 DEF HandleJamsilStatus, UpdatePriorityQueue, TasksOK, Connection
  <2>4. TasksOK'
    BY <1>1, <2>2, <2>3 DEF HandleJamsilStatus, UpdatePriorityQueue, TasksOK, TaskOK
  <2>5. QED
    BY <1>1, <2>4 DEF HandleJamsilStatus, MemoryOK, RedisOK, CommandsOK, CountsOK, BufferOK
<1>2. ASSUME NEW u \in Uam \ Leftover, HandleUamLanded(t, u)
      PROVE  TasksOK' /\ MemoryOK' /\ RedisOK' /\ CommandsOK' /\ CountsOK'
  BY <1>2, RegisterLandedOK DEF HandleUamLanded, RedisOK, CommandsOK, CountsOK
<1>3. ASSUME NEW u \in Jamsil, HandleLandingApprove(t, u)
      PROVE  TasksOK' /\ MemoryOK' /\ RedisOK' /\ CommandsOK' /\ CountsOK'
  <2>1. "landZrem" \in Commands \ ResetCommands
    BY DEF Commands, AppCommands, GatewayCommands, RegisterCommands, ResetCommands
  <2>2. TaskOK(Busy("landZrem", u, {}), resets')
    BY <1>3, <2>1, NewTaskOK DEF HandleLandingApprove, CountsOK
  <2>3. TasksOK'
    BY <1>3, <2>1, <2>2, AwaitOK DEF HandleLandingApprove, CountsOK
  <2>4. CommandsOK'
    BY <1>3 DEF HandleLandingApprove, CommandsOK, Land
  <2>5. QED
    BY <1>3, <2>3, <2>4 DEF HandleLandingApprove, MemoryOK, RedisOK, CountsOK, BufferOK
<1>4. CASE TriggerAutoReset(t)
  <2>1. "resetDel" \in Commands /\ "resetDel" \in ResetCommands
    BY DEF Commands, GatewayCommands, ResetCommands
  <2>2. resets' \in Nat /\ resets' > 0 /\ resets' >= resets
    BY <1>4 DEF TriggerAutoReset, CountsOK
  <2>3. TaskOK(Busy("resetDel", NoUam, {}), resets')
    BY <2>1, <2>2, NewTaskOK
  <2>4. QED
    BY <1>4, <2>1, <2>2, <2>3, AwaitOK
       DEF TriggerAutoReset, MemoryOK, RedisOK, CommandsOK, CountsOK, BufferOK
<1>5. QED
  BY <1>1, <1>2, <1>3, <1>4 DEF Arrive

\* Redis runs or rejects a command, or a key expires.
LEMMA ExecuteOK ==
  ASSUME TypeInv, NEW c \in Connection, Execute(c)
  PROVE  TypeInv'
<1> TasksOK /\ MemoryOK /\ RedisOK /\ CommandsOK /\ CountsOK
  BY TypeInvParts
<1>1. MemoryOK' /\ CommandsOK' /\ CountsOK' /\ UNCHANGED resets
  BY DEF Execute, memory, counts, MemoryOK, CommandsOK, CountsOK, BufferOK
<1> USE DEF Connection
<1>2. CASE Zadd
  <2>1. Oldest("app").uam \in Uam
    BY <1>2, OldestOK DEF Zadd, Pending, TaskOK, AppCommands
  <2>2. TaskOK(Busy("set", Oldest("app").uam, {}), resets)
    BY <2>1, NewTaskOK
       DEF CountsOK, Commands, AppCommands, ResetCommands
  <2>3. TasksOK'
    BY <1>1, <1>2, <2>2, ServeOK DEF Zadd, Pending
  <2>4. RedisOK'
    BY <1>2, <2>1 DEF Zadd, RedisOK
  <2>5. QED
    BY <1>1, <2>3, <2>4, TypeInvParts, PTL
<1>3. CASE Set
  <2>1. Oldest("app").uam \in Uam
    BY <1>3, OldestOK DEF Set, Pending, TaskOK, AppCommands
  <2>2. TasksOK' /\ RedisOK'
    BY <1>1, <1>3, <2>1, AnswerOK DEF Set, Pending, RedisOK
  <2>3. QED
    BY <1>1, <2>2, TypeInvParts, PTL
<1>4. CASE Zrem(c) \/ DelDetail(c)
  <2>1. TasksOK' /\ RedisOK'
    BY <1>1, <1>4, AnswerOK DEF Zrem, DelDetail, Pending, RedisOK
  <2>2. QED
    BY <1>1, <2>1, TypeInvParts, PTL
<1>5. CASE DelQueue \/ DelKeys
  <2>1. TasksOK' /\ RedisOK'
    BY <1>1, <1>5, AnswerOK DEF DelQueue, DelKeys, Pending, RedisOK
  <2>2. QED
    BY <1>1, <2>1, TypeInvParts, PTL
<1>6. CASE Keys
  <2> DEFINE k == [Oldest("gateway") EXCEPT !.keys = detail, !.replied = TRUE]
  <2>1. TaskOK(Oldest("gateway"), resets)
    BY <1>6, OldestOK DEF Keys, Pending
  <2>2. TaskOK(k, resets)
    BY <2>1 DEF TaskOK, TaskRecord, RedisOK
  <2>3. Serve("gateway", k) /\ conn["gateway"] # <<>>
    BY <1>6 DEF Keys, Pending
  <2> HIDE DEF k
  <2>4. TasksOK' /\ RedisOK'
    BY <1>1, <1>6, <2>2, <2>3, ServeOK DEF Keys, RedisOK
  <2>5. QED
    BY <1>1, <2>4, TypeInvParts, PTL
<1>7. QED
  BY <1>2, <1>3, <1>4, <1>5, <1>6 DEF Execute

LEMMA RejectOK ==
  ASSUME TypeInv, RejectStatus \/ \E c \in Connection : RejectLanding(c)
  PROVE  TypeInv'
<1> TasksOK /\ MemoryOK /\ RedisOK /\ CommandsOK /\ CountsOK
  BY TypeInvParts
<1> USE DEF Connection
<1>0. \A c \in Connection : Pending(c, LandingCommands) => Oldest(c).uam \in Uam
  BY OldestOK DEF Pending, TaskOK, LandingCommands, AppCommands
<1>1. /\ MemoryOK' /\ RedisOK' /\ CommandsOK' /\ CountsOK' /\ UNCHANGED resets
  BY <1>0 DEF RejectStatus, RejectLanding, redis, memory, MemoryOK, RedisOK, CommandsOK,
              CountsOK, BufferOK
<1>2. CASE Pending("app", {"zadd"}) /\ Serve("app", Busy("set", Oldest("app").uam, {}))
  <2>1. Oldest("app").uam \in Uam
    BY <1>2, OldestOK DEF Pending, TaskOK, AppCommands
  <2>2. TaskOK(Busy("set", Oldest("app").uam, {}), resets)
    BY <2>1, NewTaskOK DEF CountsOK, Commands, AppCommands, ResetCommands
  <2>3. TasksOK'
    BY <1>1, <1>2, <2>2, ServeOK DEF Pending
  <2>4. QED
    BY <1>1, <2>3, TypeInvParts, PTL
<1>3. CASE Pending("app", {"set"}) /\ Answer("app")
  <2>1. TasksOK'
    BY <1>1, <1>3, AnswerOK DEF Pending
  <2>2. QED
    BY <1>1, <2>1, TypeInvParts, PTL
<1>4. ASSUME NEW c \in Connection, RejectLanding(c)
      PROVE  TypeInv'
  <2>1. TaskOK(Idle, resets)
    BY NewTaskOK DEF CountsOK
  <2>2. TasksOK'
    BY <1>1, <1>4, <2>1, ServeOK DEF RejectLanding, Pending
  <2>3. QED
    BY <1>1, <2>2, TypeInvParts, PTL
<1>5. QED
  BY <1>2, <1>3, <1>4 DEF RejectStatus

\* Steps that no handler in progress takes part in, and process crashes.
LEMMA OtherOK ==
  ASSUME TypeInv,
         \/ \E t \in Task : Crash(t) \/ RejectFatal(t)
         \/ \E u \in Uam \ (Jamsil \cup Leftover) : HandleAllStatus(u)
         \/ MapTick
         \/ \E u \in Uam : DetailExpire(u)
         \/ CommandTaken
         \/ UNCHANGED vars
  PROVE  TypeInv'
<1> TasksOK /\ MemoryOK /\ RedisOK /\ CommandsOK /\ CountsOK
  BY TypeInvParts
<1> SUFFICES TasksOK' /\ MemoryOK' /\ RedisOK' /\ CommandsOK' /\ CountsOK'
  BY TypeInvParts, PTL
<1> USE DEF redis, memory, counts
<1>1. ASSUME NEW t \in Task, Crash(t) \/ RejectFatal(t)
      PROVE  TasksOK' /\ MemoryOK' /\ RedisOK' /\ CommandsOK' /\ CountsOK'
  BY <1>1, StartAnewOK DEF Crash, RejectFatal, StartAnew, RedisOK, CommandsOK, CountsOK
<1>2. ASSUME NEW u \in Uam, HandleAllStatus(u)
      PROVE  TasksOK' /\ MemoryOK' /\ RedisOK' /\ CommandsOK' /\ CountsOK'
  <2>1. BufferOK(rawBuffer')
    BY <1>2, UpdateMapBufferOK DEF HandleAllStatus, MemoryOK
  <2>2. QED
    BY <1>2, <2>1
       DEF HandleAllStatus, TasksOK, MemoryOK, RedisOK, CommandsOK, CountsOK
<1>3. CASE MapTick
  <2>1. PICK old \in SUBSET rawBuffer : rawBuffer' = rawBuffer \ old
    BY <1>3 DEF MapTick
  <2>2. BufferOK(rawBuffer')
    BY <2>1, SmallerBufferOK DEF MemoryOK
  <2>3. QED
    BY <1>3, <2>2 DEF MapTick, TasksOK, MemoryOK, RedisOK, CommandsOK, CountsOK
<1>4. ASSUME NEW u \in Uam, DetailExpire(u)
      PROVE  TasksOK' /\ MemoryOK' /\ RedisOK' /\ CommandsOK' /\ CountsOK'
  BY <1>4 DEF DetailExpire, TasksOK, MemoryOK, RedisOK, CommandsOK, CountsOK, BufferOK
<1>5. CASE CommandTaken
  BY <1>5 DEF CommandTaken, TasksOK, MemoryOK, RedisOK, CommandsOK, CountsOK, BufferOK
<1>6. CASE UNCHANGED vars
  BY <1>6 DEF vars, TasksOK, MemoryOK, RedisOK, CommandsOK, CountsOK, BufferOK
<1>7. QED
  BY <1>1, <1>2, <1>3, <1>4, <1>5, <1>6

LEMMA InitOK == Init => TypeInv
<1> SUFFICES ASSUME Init PROVE TypeInv
  OBVIOUS
<1>1. PICK t \in Task : task = [s \in Task |-> IF s = t THEN Boot ELSE Idle]
  BY DEF Init
<1>2. \A s \in Task : TaskOK(task[s], resets)
  BY <1>1, NewTaskOK DEF Init
<1>3. TasksOK
  BY <1>1, <1>2 DEF Init, TasksOK, TaskOK
<1>4. MemoryOK /\ RedisOK /\ CommandsOK /\ CountsOK
  BY SchedulerAssumption, FS_EmptySet
     DEF Init, MemoryOK, RedisOK, CommandsOK, CountsOK, BufferOK
<1>5. QED
  BY <1>3, <1>4, TypeInvParts

LEMMA StepOK == TypeInv /\ [Next]_vars => TypeInv'
BY ContinueOK, ArriveOK, ExecuteOK, RejectOK, OtherOK DEF Next

\* Types hold in every reachable state, with any number of vehicles, handlers
\* in progress, crashes and resets; the map buffer never exceeds its limit.
THEOREM TypeCorrect == Spec => []TypeOK
<1>1. TypeInv => TypeOK
  BY DEF TypeInv
<1>2. QED
  BY InitOK, StepOK, <1>1, PTL DEF Spec

-----------------------------------------------------------------------------
(* What a step does to landings *)

\* The vehicle that task t is registering, if any.
Reg(t) == IF task[t].at \in RegisterCommands THEN task[t].uam ELSE NoUam

LEMMA RegisteringReg ==
  ASSUME NEW u \in Uam
  PROVE  Registering(u) <=> \E t \in Task : Reg(t) = u
BY SchedulerAssumption DEF Registering, At, Reg

LEMMA RegType == TypeInv => \A t \in Task : Reg(t) \in Uam \cup {NoUam}
BY DEF TypeInv, TypeOK, TaskRecord, Reg

SameReg == \A t \in Task : Reg(t)' = Reg(t)

\* Nothing happens to landings; the map gains no landed vehicle.
Stays ==
  /\ SameReg
  /\ UNCHANGED <<landedUams, landedUamIds>>
  /\ rawBuffer' \subseteq rawBuffer \cup (Uam \ landedUamIds)

\* Task t begins to register u.
Begins(t, u) ==
  /\ u \notin landedUamIds /\ landedUamIds' = landedUamIds \cup {u}
  /\ Reg(t) = NoUam /\ Reg(t)' = u
  /\ \A s \in Task \ {t} : Reg(s)' = Reg(s)
  /\ UNCHANGED <<landedUams, rawBuffer>>

\* Task t lists the vehicle that it registers.
Records(t) ==
  /\ Reg(t) \in Uam /\ Reg(t)' = NoUam
  /\ \A s \in Task \ {t} : Reg(s)' = Reg(s)
  /\ landedUams' = <<Reg(t)>> \o landedUams
  /\ rawBuffer' = rawBuffer \ {Reg(t)}
  /\ UNCHANGED landedUamIds

\* A reset empties the memory and leaves registrations in flight; a new process
\* has none.
Forgets ==
  /\ landedUams' = <<>> /\ landedUamIds' = {} /\ rawBuffer' = {}
  /\ (SameReg /\ resets > 0) \/ (\A t \in Task : Reg(t)' = NoUam)

\* A rejected write may end a registration, which the history notes.
Drops ==
  /\ \A t \in Task : Reg(t)' = Reg(t) \/ (Reg(t)' = NoUam /\ Reg(t) \in cutShort')
  /\ UNCHANGED <<landedUams, landedUamIds, rawBuffer>>

StepKind ==
  \/ Stays \/ Forgets \/ Drops
  \/ \E t \in Task : Records(t)
  \/ \E t \in Task, u \in Uam : Begins(t, u)

\* Redis' answer, or a command's successor in the pipeline, keeps the vehicle.
LEMMA ServeReg ==
  ASSUME TypeInv, NEW c \in Connection, conn[c] # <<>>, NEW k, Serve(c, k),
         k.uam = Oldest(c).uam,
         k.at \in RegisterCommands <=> Oldest(c).at \in RegisterCommands
  PROVE  SameReg
<1>1. Head(conn[c]) \in Task
  BY DEF TypeInv, TypeOK
<1>2. task' = [task EXCEPT ![Head(conn[c])] = k] /\ task \in [Task -> TaskRecord]
  BY DEF Serve, TypeInv, TypeOK
<1>3. QED
  BY <1>1, <1>2 DEF SameReg, Reg, Oldest

LEMMA AnswerReg ==
  ASSUME TypeInv, NEW c \in Connection, conn[c] # <<>>, Answer(c)
  PROVE  SameReg
<1> DEFINE k == [Oldest(c) EXCEPT !.replied = TRUE]
<1>1. Head(conn[c]) \in Task
  BY DEF TypeInv, TypeOK
<1>2. Oldest(c) \in TaskRecord
  BY <1>1 DEF Oldest, TypeInv, TypeOK
<1>3. k.uam = Oldest(c).uam /\ k.at = Oldest(c).at
  BY <1>2 DEF TaskRecord
<1>4. Serve(c, k)
  BY DEF Answer
<1> HIDE DEF k
<1>5. QED
  BY <1>3, <1>4, ServeReg

\* A task that registers nothing before the step and nothing after it.
LEMMA NoReg ==
  ASSUME TypeInv, NEW t \in Task, NEW k, task' = [task EXCEPT ![t] = k],
         task[t].at \notin RegisterCommands, k.at \notin RegisterCommands
  PROVE  SameReg
BY DEF SameReg, Reg, TypeInv, TypeOK

\* A handler that starts with a command of another kind.
LEMMA StartReg ==
  ASSUME TypeInv, NEW t \in Task, Free(t), NEW at, at \notin RegisterCommands, NEW u,
         task' = [task EXCEPT ![t] = Busy(at, u, {})]
  PROVE  SameReg
<1> DEFINE k == Busy(at, u, {})
<1>1. task[t].at \notin RegisterCommands
  BY DEF Free, Idle, RegisterCommands
<1>2. k.at \notin RegisterCommands
  BY DEF Busy
<1> HIDE DEF k
<1>3. task' = [task EXCEPT ![t] = k]
  BY DEF k
<1>4. QED
  BY <1>1, <1>2, <1>3, NoReg

LEMMA StartAnewForgets ==
  ASSUME NEW t \in Task, StartAnew(t)
  PROVE  Forgets
BY DEF StartAnew, ClearMemory, Forgets, Reg, Idle, Boot, Busy, RegisterCommands

LEMMA RegisterLandedKind ==
  ASSUME TypeInv, NEW t \in Task, NEW u \in Uam, RegisterLanded(t, u),
         task[t].at \notin RegisterCommands, UNCHANGED <<landedUams, rawBuffer>>
  PROVE  StepKind
<1>1. CASE Finish(t) /\ UNCHANGED landedUamIds
  <2>1. SameReg
    BY <1>1, NoReg DEF Finish, Idle, RegisterCommands
  <2>2. QED
    BY <1>1, <2>1 DEF StepKind, Stays
<1>2. CASE /\ u \notin landedUamIds /\ landedUamIds' = landedUamIds \cup {u}
           /\ Await(t, "regZrem", u, {})
  <2>1. Begins(t, u)
    BY <1>2 DEF Begins, Await, Reg, Busy, RegisterCommands, TypeInv, TypeOK
  <2>2. QED
    BY <2>1 DEF StepKind
<1>3. QED
  BY <1>1, <1>2 DEF RegisterLanded

LEMMA UpdateMapBufferStays ==
  ASSUME NEW u \in Uam, UpdateMapBuffer(u)
  PROVE  rawBuffer' \subseteq rawBuffer \cup (Uam \ landedUamIds)
BY DEF UpdateMapBuffer

LEMMA ContinueKind ==
  ASSUME TypeInv, NEW t \in Task, Continue(t)
  PROVE  StepKind
<1> USE DEF memory, redis
<1>a. /\ task \in [Task -> TaskRecord]
      /\ task[t].at \in AppCommands \cup RegisterCommands => task[t].uam \in Uam
      /\ task[t].at \in ResetCommands => resets > 0
  BY DEF TypeInv, TypeOK
<1>1. CASE StatusStored(t)
  <2>1. task[t].uam \in Uam /\ task[t].at \notin RegisterCommands
    BY <1>1, <1>a DEF StatusStored, Replied, AppCommands, RegisterCommands
  <2>2. SameReg
    BY <1>1, <2>1, NoReg DEF StatusStored, Finish, Idle, RegisterCommands
  <2>3. QED
    BY <1>1, <2>1, <2>2, UpdateMapBufferStays DEF StatusStored, StepKind, Stays
<1>2. CASE LandZremmed(t)
  <2>1. SameReg
    BY <1>2, NoReg DEF LandZremmed, Replied, Await, Busy, RegisterCommands
  <2>2. QED
    BY <1>2, <2>1 DEF LandZremmed, StepKind, Stays
<1>3. CASE LandDeleted(t)
  <2>1. task[t].uam \in Uam /\ task[t].at \notin RegisterCommands
    BY <1>3, <1>a DEF LandDeleted, Replied, AppCommands, RegisterCommands
  <2>2. QED
    BY <1>3, <2>1, RegisterLandedKind DEF LandDeleted
<1>4. CASE RegisterZremmed(t)
  <2>1. SameReg
    BY <1>4, <1>a
       DEF RegisterZremmed, Replied, Await, Busy, RegisterCommands, SameReg, Reg
  <2>2. QED
    BY <1>4, <2>1 DEF RegisterZremmed, StepKind, Stays
<1>5. CASE RegisterDeleted(t)
  <2>1. Records(t)
    BY <1>5, <1>a
       DEF RegisterDeleted, Replied, Finish, Idle, RegisterCommands, Records, Reg
  <2>2. QED
    BY <2>1 DEF StepKind
<1>6. CASE BootDeleted(t)
  <2>1. SameReg
    BY <1>6, NoReg DEF BootDeleted, Replied, Finish, Idle, RegisterCommands
  <2>2. QED
    BY <1>6, <2>1 DEF BootDeleted, StepKind, Stays
<1>12. CASE OnModuleInit(t)
  <2>1. SameReg
    BY <1>12, NoReg DEF OnModuleInit, Await, Busy, RegisterCommands
  <2>2. QED
    BY <1>12, <2>1 DEF OnModuleInit, StepKind, Stays
<1>7. CASE ResetDeleted(t)
  <2>1. SameReg
    BY <1>7, NoReg DEF ResetDeleted, Replied, Await, Busy, RegisterCommands
  <2>2. QED
    BY <1>7, <2>1 DEF ResetDeleted, StepKind, Stays
<1>8. ASSUME task[t].at \in ResetCommands, ClearAndSendReset(t)
      PROVE  StepKind
  <2>1. SameReg
    BY <1>8, NoReg
       DEF ClearAndSendReset, Finish, Idle, RegisterCommands, ResetCommands
  <2>2. QED
    BY <1>8, <1>a, <2>1 DEF ClearAndSendReset, ClearMemory, StepKind, Forgets
<1>9. CASE ResetListed(t)
  <2>1. CASE ClearAndSendReset(t)
    BY <1>8, <1>9, <2>1 DEF ResetListed, Replied, ResetCommands
  <2>2. CASE /\ Await(t, "resetDelKeys", NoUam, task[t].keys)
             /\ UNCHANGED <<memory, commands>>
    <3>1. SameReg
      BY <1>9, <2>2, NoReg DEF ResetListed, Replied, Await, Busy, RegisterCommands
    <3>2. QED
      BY <2>2, <3>1 DEF StepKind, Stays
  <2>3. QED
    BY <1>9, <2>1, <2>2 DEF ResetListed
<1>10. CASE ResetKeysDeleted(t)
  BY <1>8, <1>10 DEF ResetKeysDeleted, Replied, ResetCommands
<1>11. QED
  BY <1>1, <1>2, <1>3, <1>4, <1>5, <1>6, <1>7, <1>9, <1>10, <1>12 DEF Continue

LEMMA ArriveKind ==
  ASSUME TypeInv, NEW t \in Task, Arrive(t)
  PROVE  StepKind
<1> USE SchedulerAssumption DEF memory
<1>1. CASE \E u \in Jamsil \ Leftover : HandleJamsilStatus(t, u)
  <2>1. SameReg
    BY <1>1, StartReg DEF HandleJamsilStatus, UpdatePriorityQueue, RegisterCommands
  <2>2. QED
    BY <1>1, <2>1 DEF HandleJamsilStatus, StepKind, Stays
<1>2. ASSUME NEW u \in Uam, HandleUamLanded(t, u)
      PROVE  StepKind
  <2>1. task[t].at \notin RegisterCommands
    BY <1>2 DEF HandleUamLanded, Free, Idle, RegisterCommands
  <2>2. QED
    BY <1>2, <2>1, RegisterLandedKind DEF HandleUamLanded
<1>3. CASE \E u \in Jamsil : HandleLandingApprove(t, u)
  <2>1. SameReg
    BY <1>3, StartReg DEF HandleLandingApprove, Await, RegisterCommands
  <2>2. QED
    BY <1>3, <2>1 DEF HandleLandingApprove, StepKind, Stays
<1>4. CASE TriggerAutoReset(t)
  <2>1. SameReg
    BY <1>4, StartReg DEF TriggerAutoReset, Await, RegisterCommands
  <2>2. QED
    BY <1>4, <2>1 DEF TriggerAutoReset, StepKind, Stays
<1>5. QED
  BY <1>1, <1>2, <1>3, <1>4 DEF Arrive

LEMMA RedisKind ==
  ASSUME TypeInv, NEW c \in Connection, Execute(c) \/ RejectLanding(c) \/ RejectStatus
  PROVE  StepKind
<1> USE DEF memory, Connection
<1>1. UNCHANGED <<landedUams, landedUamIds, rawBuffer>>
  BY DEF Execute, RejectLanding, RejectStatus
<1>2. SUFFICES SameReg \/ Drops
  BY <1>1 DEF StepKind, Stays
<1>3. CASE Pending("app", {"zadd"}) /\ Serve("app", Busy("set", Oldest("app").uam, {}))
  BY <1>3, ServeReg DEF Pending, Busy, RegisterCommands
<1>4. CASE \/ Set \/ Zrem(c) \/ DelDetail(c) \/ DelQueue \/ DelKeys
           \/ Pending("app", {"set"}) /\ Answer("app")
  BY <1>4, AnswerReg DEF Set, Zrem, DelDetail, DelQueue, DelKeys, Pending
<1>5. CASE Keys
  <2> DEFINE k == [Oldest("gateway") EXCEPT !.keys = detail, !.replied = TRUE]
  <2>1. Serve("gateway", k) /\ conn["gateway"] # <<>>
    BY <1>5 DEF Keys, Pending
  <2>2. Oldest("gateway") \in TaskRecord
    BY <2>1 DEF Oldest, TypeInv, TypeOK
  <2>3. k.uam = Oldest("gateway").uam /\ k.at = Oldest("gateway").at
    BY <2>2 DEF TaskRecord
  <2> HIDE DEF k
  <2>4. QED
    BY <2>1, <2>3, ServeReg
<1>6. CASE RejectLanding(c)
  <2>1. /\ task' = [task EXCEPT ![Head(conn[c])] = Idle] /\ task \in [Task -> TaskRecord]
        /\ cutShort' = cutShort \cup {Oldest(c).uam}
    BY <1>6 DEF RejectLanding, Serve, TypeInv, TypeOK
  <2>2. ASSUME NEW t \in Task
        PROVE  Reg(t)' = Reg(t) \/ (Reg(t)' = NoUam /\ Reg(t) \in cutShort')
    <3>1. CASE t = Head(conn[c])
      <4>1. Reg(t)' = NoUam
        BY <2>1, <3>1 DEF Idle, Reg, RegisterCommands
      <4>2. Reg(t) = NoUam \/ Reg(t) = Oldest(c).uam
        BY <3>1 DEF Reg, Oldest
      <4>3. QED
        BY <2>1, <4>1, <4>2
    <3>2. CASE t # Head(conn[c])
      BY <2>1, <3>2 DEF Reg
    <3>3. QED
      BY <3>1, <3>2
  <2>3. QED
    BY <1>1, <2>2 DEF Drops
<1>7. QED
  BY <1>3, <1>4, <1>5, <1>6 DEF Execute, Zadd, RejectStatus

LEMMA OtherKind ==
  ASSUME TypeInv,
         \/ \E t \in Task : Crash(t) \/ RejectFatal(t)
         \/ \E u \in Uam \ (Jamsil \cup Leftover) : HandleAllStatus(u)
         \/ MapTick
         \/ \E u \in Uam : DetailExpire(u)
         \/ CommandTaken
         \/ UNCHANGED vars
  PROVE  StepKind
<1> USE DEF memory
<1>1. CASE \E t \in Task : Crash(t) \/ RejectFatal(t)
  BY <1>1, StartAnewForgets DEF Crash, RejectFatal, StepKind
<1>2. CASE \E u \in Uam \ (Jamsil \cup Leftover) : HandleAllStatus(u)
  BY <1>2, UpdateMapBufferStays DEF HandleAllStatus, StepKind, Stays, SameReg, Reg
<1>3. CASE MapTick
  BY <1>3 DEF MapTick, StepKind, Stays, SameReg, Reg
<1>4. CASE (\E u \in Uam : DetailExpire(u)) \/ CommandTaken \/ UNCHANGED vars
  BY <1>4 DEF DetailExpire, CommandTaken, vars, StepKind, Stays, SameReg, Reg
<1>5. QED
  BY <1>1, <1>2, <1>3, <1>4

\* Every step of the specification is of one of the five kinds.
LEMMA StepKinds == TypeInv /\ [Next]_vars => StepKind
BY ContinueKind, ArriveKind, RedisKind, OtherKind DEF Next, Connection

-----------------------------------------------------------------------------
(* Landings *)

\* Putting a new vehicle at the front keeps the records distinct.
LEMMA PrependRecord ==
  ASSUME NEW log \in Seq(Uam), NEW u \in Uam
  PROVE  /\ ToSet(<<u>> \o log) = ToSet(log) \cup {u}
         /\ IsInjective(log) /\ u \notin ToSet(log) => IsInjective(<<u>> \o log)
<1> DEFINE new == <<u>> \o log
<1>1. /\ DOMAIN log = 1 .. Len(log) /\ Len(log) \in Nat
      /\ DOMAIN new = 1 .. Len(log) + 1
      /\ new[1] = u
      /\ \A i \in 2 .. Len(log) + 1 : new[i] = log[i - 1] /\ i - 1 \in DOMAIN log
  OBVIOUS
<1>2. \A i \in DOMAIN log : i + 1 \in DOMAIN new /\ new[i + 1] = log[i]
  BY <1>1
<1> HIDE DEF new
<1>3. ToSet(new) = ToSet(log) \cup {u}
  <2>1. ToSet(new) \subseteq ToSet(log) \cup {u}
    BY <1>1 DEF ToSet
  <2>2. ToSet(log) \cup {u} \subseteq ToSet(new)
    BY <1>1, <1>2 DEF ToSet
  <2>3. QED
    BY <2>1, <2>2
<1>4. ASSUME IsInjective(log), u \notin ToSet(log)
      PROVE  IsInjective(new)
  <2>1. \A i \in DOMAIN log : log[i] # u
    BY <1>4 DEF ToSet
  <2>2. \A i, j \in DOMAIN log : log[i] = log[j] => i = j
    BY <1>4 DEF IsInjective
  <2>3. \A i, j \in DOMAIN new : new[i] = new[j] => i = j
    BY <1>1, <2>1, <2>2
  <2>4. QED
    BY <2>3 DEF IsInjective
<1>5. QED
  BY <1>3, <1>4 DEF new

\* While no reset has happened, registrations in flight are of distinct vehicles,
\* which are blocked and not yet listed; the listed are blocked and distinct.
OnceInv ==
  resets = 0 =>
    /\ \A t \in Task : Reg(t) \in Uam => Reg(t) \in landedUamIds \ Listed
    /\ \A s, t \in Task : Reg(s) = Reg(t) /\ Reg(s) \in Uam => s = t
    /\ Listed \subseteq landedUamIds
    /\ IsInjective(landedUams)

\* A blocked vehicle that is not listed, or is still on the map, is being
\* registered, unless its registration was rejected.
ListedInv ==
  \A u \in landedUamIds \ cutShort :
    u \in rawBuffer \/ u \notin Listed => \E t \in Task : Reg(t) = u

\* Resets are counted, and a vehicle's history ends with the process only.
HistoryKept ==
  /\ resets' = 0 => resets = 0
  /\ landedUamIds' = {} \/ cutShort \subseteq cutShort'

LEMMA HistoryGrows == TypeInv /\ [Next]_vars => HistoryKept
<1> SUFFICES ASSUME TypeInv, [Next]_vars PROVE HistoryKept
  OBVIOUS
<1> USE DEF counts, HistoryKept
<1>1. resets \in Nat
  BY DEF TypeInv, TypeOK
<1>2. CASE \E t \in Task : Continue(t)
  BY <1>2 DEF Continue, StatusStored, LandZremmed, LandDeleted, RegisterZremmed,
     RegisterDeleted, OnModuleInit, BootDeleted, ResetDeleted, ResetListed, ResetKeysDeleted
<1>3. CASE \E t \in Task : Arrive(t)
  BY <1>1, <1>3 DEF Arrive, HandleJamsilStatus, HandleUamLanded, HandleLandingApprove,
     TriggerAutoReset
<1>4. CASE \E t \in Task : Crash(t) \/ RejectFatal(t)
  BY <1>4 DEF Crash, RejectFatal, StartAnew, ClearMemory
<1>5. QED
  BY <1>1, <1>2, <1>3, <1>4 DEF Next, vars, HandleAllStatus, MapTick,
     Execute, RejectLanding, RejectStatus, DetailExpire, CommandTaken

LEMMA InitOnce == Init => OnceInv /\ ListedInv
<1> SUFFICES ASSUME Init PROVE OnceInv /\ ListedInv
  OBVIOUS
<1>1. \A t \in Task : Reg(t) = NoUam
  BY DEF Init, Reg, Boot, Busy, Idle, RegisterCommands
<1>2. Listed = {} /\ IsInjective(landedUams) /\ landedUamIds = {}
  BY DEF Init, Listed, ToSet, IsInjective
<1>3. QED
  BY <1>1, <1>2, SchedulerAssumption DEF OnceInv, ListedInv

LEMMA StepOnce ==
  TypeInv /\ OnceInv /\ [Next]_vars => OnceInv'
<1> SUFFICES ASSUME TypeInv, OnceInv, [Next]_vars, resets' = 0
             PROVE  OnceInv'
  BY DEF OnceInv
<1> USE SchedulerAssumption
<1>1. StepKind /\ resets = 0
  BY StepKinds, HistoryGrows DEF HistoryKept
<1>2. CASE Stays
  BY <1>1, <1>2 DEF Stays, SameReg, OnceInv, Listed
<1>3. CASE Drops
  BY <1>1, <1>3 DEF Drops, OnceInv, Listed
<1>4. CASE Forgets
  <2>1. \A t \in Task : Reg(t)' = NoUam
    BY <1>1, <1>4 DEF Forgets
  <2>2. Listed' = {} /\ IsInjective(landedUams')
    BY <1>4 DEF Forgets, Listed, ToSet, IsInjective
  <2>3. QED
    BY <2>1, <2>2 DEF OnceInv
<1>5. ASSUME NEW t \in Task, Records(t)
      PROVE  OnceInv'
  <2>1. landedUams \in Seq(Uam) /\ Reg(t) \in Uam
    BY <1>5 DEF Records, TypeInv, TypeOK
  <2>2. /\ Listed' = Listed \cup {Reg(t)}
        /\ IsInjective(landedUams')
    BY <1>1, <1>5, <2>1, PrependRecord DEF Records, OnceInv, Listed
  <2>3. QED
    BY <1>1, <1>5, <2>1, <2>2 DEF Records, OnceInv
<1>6. ASSUME NEW t \in Task, NEW u \in Uam, Begins(t, u)
      PROVE  OnceInv'
  <2>1. Listed' = Listed /\ IsInjective(landedUams') /\ u \notin Listed
    BY <1>1, <1>6 DEF Begins, OnceInv, Listed
  <2>2. \A s \in Task : Reg(s) = u => FALSE
    BY <1>1, <1>6 DEF Begins, OnceInv
  <2>3. QED
    BY <1>1, <1>6, <2>1, <2>2 DEF Begins, OnceInv
<1>7. QED
  BY <1>1, <1>2, <1>3, <1>4, <1>5, <1>6 DEF StepKind

LEMMA StepListed ==
  TypeInv /\ ListedInv /\ [Next]_vars => ListedInv'
<1> SUFFICES ASSUME TypeInv, ListedInv, [Next]_vars, landedUamIds' # {}
             PROVE  ListedInv'
  BY DEF ListedInv
<1> USE SchedulerAssumption
<1>1. StepKind /\ cutShort \subseteq cutShort' /\ landedUamIds \subseteq Uam
  BY StepKinds, HistoryGrows DEF HistoryKept, TypeInv, TypeOK
<1>2. CASE Stays
  BY <1>1, <1>2 DEF Stays, SameReg, ListedInv, Listed
<1>3. CASE Drops
  BY <1>1, <1>3 DEF Drops, ListedInv, Listed
<1>4. CASE Forgets
  BY <1>4 DEF Forgets
<1>5. ASSUME NEW t \in Task, Records(t)
      PROVE  ListedInv'
  <2>1. landedUams \in Seq(Uam) /\ Reg(t) \in Uam
    BY <1>5 DEF Records, TypeInv, TypeOK
  <2>2. Listed' = Listed \cup {Reg(t)}
    BY <1>5, <2>1, PrependRecord DEF Records, Listed
  <2>3. \A s \in Task : Reg(s) # Reg(t) => Reg(s)' = Reg(s)
    BY <1>5 DEF Records
  <2>4. QED
    BY <1>1, <1>5, <2>1, <2>2, <2>3 DEF Records, ListedInv
<1>6. ASSUME NEW t \in Task, NEW u \in Uam, Begins(t, u)
      PROVE  ListedInv'
  <2>1. \A s \in Task : Reg(s) \in Uam => Reg(s)' = Reg(s)
    BY <1>6 DEF Begins
  <2>2. QED
    BY <1>1, <1>6, <2>1 DEF Begins, ListedInv, Listed
<1>7. QED
  BY <1>1, <1>2, <1>3, <1>4, <1>5, <1>6 DEF StepKind

LEMMA LandingInvariants == Spec => [](TypeInv /\ OnceInv /\ ListedInv)
BY InitOK, StepOK, InitOnce, StepOnce, StepListed, PTL DEF Spec

\* However the simulator's notices and the approvals interleave, a vehicle has at
\* most one registration in flight until a reset happens.
THEOREM OneRegistrationHolds == Spec => []OneRegistration
<1>1. TypeInv /\ OnceInv => OneRegistration
  BY DEF OnceInv, OneRegistration, At, Reg
<1>2. QED
  BY <1>1, LandingInvariants, PTL

\* No vehicle is listed twice until a reset happens.
THEOREM NoDuplicateRecordsHolds == Spec => []NoDuplicateRecords
<1>1. OnceInv => NoDuplicateRecords
  BY DEF OnceInv, NoDuplicateRecords
<1>2. QED
  BY <1>1, LandingInvariants, PTL

\* A listed vehicle is blocked until a reset happens.
THEOREM RecordsBackedHolds == Spec => []RecordsBacked
<1>1. OnceInv => RecordsBacked
  BY DEF OnceInv, RecordsBacked
<1>2. QED
  BY <1>1, LandingInvariants, PTL

\* A blocked vehicle is listed or about to be, unless Redis rejected a command of its
\* own registration.
THEOREM LandedIdsListedHolds == Spec => []LandedIdsListed
<1>1. TypeInv /\ ListedInv => LandedIdsListed
  BY RegisteringReg DEF ListedInv, LandedIdsListed, TypeInv, TypeOK
<1>2. QED
  BY <1>1, LandingInvariants, PTL

\* A landed vehicle is on the map only while it is being registered, unless Redis
\* rejected a command of its own registration.
THEOREM BufferExcludesLandedHolds == Spec => []BufferExcludesLanded
<1>1. TypeInv /\ ListedInv => BufferExcludesLanded
  BY RegisteringReg DEF ListedInv, BufferExcludesLanded, TypeInv, TypeOK
<1>2. QED
  BY <1>1, LandingInvariants, PTL

-----------------------------------------------------------------------------
(* What a step does to the queue *)

\* The vehicle that task t is about to put into the queue, if any.
Storing(t) == IF task[t].at = "zadd" THEN task[t].uam ELSE NoUam

LEMMA StoringAt ==
  ASSUME NEW u \in Uam
  PROVE  At({"zadd"}, u) = {} <=> \A t \in Task : Storing(t) # u
BY SchedulerAssumption DEF At, Storing

\* A handler begins to store a vehicle only if it is not blocked, and the queue
\* gains only what is being stored.
StoringStep ==
  /\ \A t \in Task :
       Storing(t)' \in {Storing(t), NoUam} \/ Storing(t)' \notin landedUamIds
  /\ queue' \subseteq queue \cup {Storing(t) : t \in Task}

\* Most steps change one task, to something else than a ZADD.
LEMMA NotStoring ==
  ASSUME TypeInv, NEW t \in Task, NEW k, task' = [task EXCEPT ![t] = k],
         k.at # "zadd", queue' \subseteq queue \cup {Storing(t)}
  PROVE  StoringStep
<1>1. task \in [Task -> TaskRecord]
  BY DEF TypeInv, TypeOK
<1>2. Storing(t)' = NoUam
  BY <1>1 DEF Storing
<1>3. \A s \in Task \ {t} : Storing(s)' = Storing(s)
  BY <1>1 DEF Storing
<1>4. QED
  BY <1>2, <1>3 DEF StoringStep

LEMMA AwaitStoring ==
  ASSUME TypeInv, NEW t \in Task, NEW at, at # "zadd", NEW u, NEW ks,
         Await(t, at, u, ks), UNCHANGED queue
  PROVE  StoringStep
<1> DEFINE k == Busy(at, u, ks)
<1>1. k.at # "zadd" /\ task' = [task EXCEPT ![t] = k]
  BY DEF Busy, Await
<1> HIDE DEF k
<1>2. QED
  BY <1>1, NotStoring

LEMMA FinishStoring ==
  ASSUME TypeInv, NEW t \in Task, Finish(t), UNCHANGED queue
  PROVE  StoringStep
<1>1. Idle.at # "zadd" /\ task' = [task EXCEPT ![t] = Idle]
  BY DEF Idle, Finish
<1>2. QED
  BY <1>1, NotStoring

LEMMA ServeStoring ==
  ASSUME TypeInv, NEW c \in Connection, conn[c] # <<>>, NEW k, Serve(c, k),
         k.at # "zadd",
         queue' \subseteq queue \/ (Oldest(c).at = "zadd" /\ queue' = queue \cup {Oldest(c).uam})
  PROVE  StoringStep
<1>1. Head(conn[c]) \in Task
  BY DEF TypeInv, TypeOK
<1>2. queue' \subseteq queue \cup {Storing(Head(conn[c]))}
  BY DEF Storing, Oldest
<1>3. QED
  BY <1>1, <1>2, NotStoring DEF Serve

LEMMA AnswerStoring ==
  ASSUME TypeInv, NEW c \in Connection, conn[c] # <<>>, Answer(c),
         Oldest(c).at # "zadd", queue' \subseteq queue
  PROVE  StoringStep
<1> DEFINE k == [Oldest(c) EXCEPT !.replied = TRUE]
<1>1. Head(conn[c]) \in Task
  BY DEF TypeInv, TypeOK
<1>2. Oldest(c) \in TaskRecord
  BY <1>1 DEF Oldest, TypeInv, TypeOK
<1>3. k.at # "zadd" /\ Serve(c, k)
  BY <1>2 DEF TaskRecord, Answer
<1> HIDE DEF k
<1>4. QED
  BY <1>3, ServeStoring

LEMMA RegisterLandedStoring ==
  ASSUME TypeInv, NEW t \in Task, NEW u, RegisterLanded(t, u), UNCHANGED queue
  PROVE  StoringStep
BY AwaitStoring, FinishStoring DEF RegisterLanded

LEMMA ContinueStoring ==
  ASSUME TypeInv, NEW t \in Task, Continue(t)
  PROVE  StoringStep
<1> USE DEF redis
<1>1. CASE StatusStored(t) \/ RegisterDeleted(t) \/ BootDeleted(t)
  BY <1>1, FinishStoring DEF StatusStored, RegisterDeleted, BootDeleted
<1>2. CASE LandZremmed(t) \/ RegisterZremmed(t) \/ ResetDeleted(t) \/ OnModuleInit(t)
  BY <1>2, AwaitStoring DEF LandZremmed, RegisterZremmed, ResetDeleted, OnModuleInit
<1>3. CASE LandDeleted(t)
  BY <1>3, RegisterLandedStoring DEF LandDeleted
<1>4. CASE ResetListed(t) \/ ResetKeysDeleted(t)
  BY <1>4, AwaitStoring, FinishStoring DEF ResetListed, ResetKeysDeleted, ClearAndSendReset
<1>5. QED
  BY <1>1, <1>2, <1>3, <1>4 DEF Continue

LEMMA ArriveStoring ==
  ASSUME TypeInv, NEW t \in Task, Arrive(t)
  PROVE  StoringStep
<1> USE DEF redis
<1>1. ASSUME NEW u, HandleJamsilStatus(t, u)
      PROVE  StoringStep
  <2>1. task \in [Task -> TaskRecord] /\ u \notin landedUamIds /\ UNCHANGED queue
    BY <1>1 DEF HandleJamsilStatus, TypeInv, TypeOK
  <2>2. Storing(t)' = u
    BY <1>1, <2>1 DEF HandleJamsilStatus, UpdatePriorityQueue, Busy, Storing
  <2>3. \A s \in Task \ {t} : Storing(s)' = Storing(s)
    BY <1>1, <2>1 DEF HandleJamsilStatus, UpdatePriorityQueue, Storing
  <2>4. QED
    BY <2>1, <2>2, <2>3 DEF StoringStep
<1>2. ASSUME NEW u, HandleUamLanded(t, u)
      PROVE  StoringStep
  BY <1>2, RegisterLandedStoring DEF HandleUamLanded
<1>3. CASE (\E u \in Jamsil : HandleLandingApprove(t, u)) \/ TriggerAutoReset(t)
  BY <1>3, AwaitStoring DEF HandleLandingApprove, TriggerAutoReset
<1>4. QED
  BY <1>1, <1>2, <1>3 DEF Arrive

LEMMA RedisStoring ==
  ASSUME TypeInv, NEW c \in Connection, Execute(c) \/ RejectLanding(c) \/ RejectStatus
  PROVE  StoringStep
<1> USE DEF redis, Connection
<1>a. TypeInv /\ \A u : Busy("set", u, {}).at # "zadd" /\ Idle.at # "zadd"
  BY DEF Busy, Idle
<1>1. CASE Zadd
  BY <1>1, <1>a, ServeStoring DEF Zadd, Pending
<1>2. CASE Set \/ Zrem(c) \/ DelDetail(c) \/ DelQueue \/ DelKeys
  BY <1>2, AnswerStoring DEF Set, Zrem, DelDetail, DelQueue, DelKeys, Pending
<1>3. CASE Keys
  <2> DEFINE k == [Oldest("gateway") EXCEPT !.keys = detail, !.replied = TRUE]
  <2>1. Serve("gateway", k) /\ conn["gateway"] # <<>> /\ UNCHANGED queue
          /\ Oldest("gateway").at = "resetKeys"
    BY <1>3 DEF Keys, Pending
  <2>2. Oldest("gateway") \in TaskRecord
    BY <2>1 DEF Oldest, TypeInv, TypeOK
  <2>3. k.at # "zadd"
    BY <2>1, <2>2 DEF TaskRecord
  <2> HIDE DEF k
  <2>4. QED
    BY <2>1, <2>3, ServeStoring
<1>4. CASE RejectLanding(c)
  BY <1>4, <1>a, ServeStoring DEF RejectLanding, Pending
<1>5. CASE RejectStatus
  <2>1. CASE Pending("app", {"zadd"}) /\ Serve("app", Busy("set", Oldest("app").uam, {}))
    BY <1>5, <1>a, <2>1, ServeStoring DEF RejectStatus, Pending
  <2>2. CASE Pending("app", {"set"}) /\ Answer("app")
    BY <1>5, <2>2, AnswerStoring DEF RejectStatus, Pending
  <2>3. QED
    BY <1>5, <2>1, <2>2 DEF RejectStatus
<1>6. QED
  BY <1>1, <1>2, <1>3, <1>4, <1>5 DEF Execute

LEMMA StoringSteps == TypeInv /\ [Next]_vars => StoringStep
<1> SUFFICES ASSUME TypeInv, [Next]_vars PROVE StoringStep
  OBVIOUS
<1> USE DEF redis
<1>1. CASE \E t \in Task : Crash(t) \/ RejectFatal(t)
  BY <1>1 DEF Crash, RejectFatal, StartAnew, StoringStep, Storing, Idle, Boot, Busy
<1>2. CASE \/ \E u \in Uam \ (Jamsil \cup Leftover) : HandleAllStatus(u)
           \/ MapTick \/ (\E u \in Uam : DetailExpire(u)) \/ CommandTaken
           \/ UNCHANGED vars
  BY <1>2 DEF HandleAllStatus, MapTick, DetailExpire, CommandTaken, vars, StoringStep,
     Storing
<1>3. QED
  BY <1>1, <1>2, ContinueStoring, ArriveStoring, RedisStoring DEF Next, Connection

\* A landed vehicle that is neither in the queue nor on its way into it does not
\* come back while it counts as landed.
THEOREM LandedStaysOutOfQueueHolds == Spec => LandedStaysOutOfQueue
<1>1. TypeInv /\ [Next]_vars =>
        [\A u \in landedUamIds' : OutOfQueue(u) => OutOfQueue(u)']_vars
  <2> SUFFICES ASSUME TypeInv, [Next]_vars, NEW u \in landedUamIds', OutOfQueue(u)
               PROVE  OutOfQueue(u)'
    OBVIOUS
  <2>1. u \in landedUamIds /\ u \in Uam /\ u \notin queue /\ u # NoUam
    BY SchedulerAssumption DEF OutOfQueue, TypeInv, TypeOK
  <2>2. \A t \in Task : Storing(t) # u
    BY <2>1, StoringAt DEF OutOfQueue
  <2>3. \A t \in Task : Storing(t)' # u
    BY <2>1, <2>2, StoringSteps DEF StoringStep
  <2>4. At({"zadd"}, u)' = {}
    BY <2>1, <2>3 DEF At, Storing
  <2>5. u \notin queue'
    BY <2>1, <2>2, StoringSteps DEF StoringStep
  <2>6. QED
    BY <2>4, <2>5 DEF OutOfQueue
<1>2. QED
  BY <1>1, InitOK, StepOK, PTL DEF Spec, LandedStaysOutOfQueue

-----------------------------------------------------------------------------
(* The queue of an earlier run *)

Starting(t) == task[t].at = "boot" \/ (task[t].at = "bootDel" /\ ~task[t].replied)

\* Nothing that an earlier run left is stored again, and once the boot command is
\* answered nothing of it is left.
LeftoverInv ==
  /\ \A t \in Task : task[t].at = "zadd" => task[t].uam \notin Leftover
  /\ (\A t \in Task : ~Starting(t)) => queue \cap Leftover = {}

\* One task goes on; it is not the one that starts the process up.
LEMMA OneTaskLeftover ==
  ASSUME TypeInv, LeftoverInv, NEW t \in Task, NEW k, task' = [task EXCEPT ![t] = k],
         ~Starting(t), k.at = "zadd" => k.uam \notin Leftover,
         queue' \cap Leftover \subseteq queue
  PROVE  LeftoverInv'
<1>0. task \in [Task -> TaskRecord]
  BY DEF TypeInv, TypeOK
<1>1. \A s \in Task : task'[s] = IF s = t THEN k ELSE task[s]
  BY <1>0
<1>2. \A s \in Task : task'[s].at = "zadd" => task'[s].uam \notin Leftover
  BY <1>1 DEF LeftoverInv
<1>3. ASSUME \A s \in Task : ~Starting(s)'
      PROVE  queue' \cap Leftover = {}
  <2>1. \A s \in Task : ~Starting(s)
    BY <1>1, <1>3 DEF Starting
  <2>2. QED
    BY <2>1 DEF LeftoverInv
<1>4. QED
  BY <1>2, <1>3 DEF LeftoverInv

LEMMA SameTasksLeftover ==
  ASSUME LeftoverInv, UNCHANGED task, queue' \cap Leftover \subseteq queue
  PROVE  LeftoverInv'
BY DEF LeftoverInv, Starting

LEMMA AwaitLeftover ==
  ASSUME TypeInv, LeftoverInv, NEW t \in Task, NEW at, NEW u, NEW ks, Await(t, at, u, ks),
         at # "zadd", ~Starting(t), UNCHANGED queue
  PROVE  LeftoverInv'
<1>1. Busy(at, u, ks).at # "zadd"
  BY DEF Busy
<1>2. QED
  BY <1>1, OneTaskLeftover DEF Await

LEMMA FinishLeftover ==
  ASSUME TypeInv, LeftoverInv, NEW t \in Task, Finish(t), ~Starting(t), UNCHANGED queue
  PROVE  LeftoverInv'
<1>1. Idle.at # "zadd"
  BY DEF Idle
<1>2. QED
  BY <1>1, OneTaskLeftover DEF Finish

LEMMA ServeLeftover ==
  ASSUME TypeInv, LeftoverInv, NEW c \in Connection, NEW k, conn[c] # <<>>, Serve(c, k),
         Oldest(c).at \notin {"boot", "bootDel"}, k.at # "zadd",
         queue' \cap Leftover \subseteq queue
  PROVE  LeftoverInv'
<1>1. Head(conn[c]) \in Task
  BY DEF TypeInv, TypeOK
<1>2. QED
  BY <1>1, OneTaskLeftover DEF Serve, Oldest, Starting

LEMMA AnswerLeftover ==
  ASSUME TypeInv, LeftoverInv, NEW c \in Connection, conn[c] # <<>>, Answer(c),
         Oldest(c).at \notin {"boot", "bootDel", "zadd"},
         queue' \cap Leftover \subseteq queue
  PROVE  LeftoverInv'
<1> DEFINE k == [Oldest(c) EXCEPT !.replied = TRUE]
<1>1. Oldest(c) \in TaskRecord
  BY TypeInvParts, OldestOK DEF TaskOK
<1>2. k.at = Oldest(c).at
  BY <1>1 DEF TaskRecord
<1>3. Serve(c, k)
  BY DEF Answer
<1> HIDE DEF k
<1>4. QED
  BY <1>2, <1>3, ServeLeftover

LEMMA StartAnewLeftover ==
  ASSUME NEW t \in Task, StartAnew(t)
  PROVE  LeftoverInv'
<1>1. \A s \in Task : task'[s] \in {Boot, Idle}
  BY DEF StartAnew
<1>2. task'[t].at = "boot"
  BY DEF StartAnew, Boot, Busy
<1>3. QED
  BY <1>1, <1>2 DEF LeftoverInv, Starting, Boot, Busy, Idle

LEMMA RegisterLandedLeftover ==
  ASSUME TypeInv, LeftoverInv, NEW t \in Task, NEW u, RegisterLanded(t, u),
         ~Starting(t), UNCHANGED queue
  PROVE  LeftoverInv'
BY AwaitLeftover, FinishLeftover DEF RegisterLanded

LEMMA ContinueLeftover ==
  ASSUME TypeInv, LeftoverInv, NEW t \in Task, Continue(t)
  PROVE  LeftoverInv'
<1> USE DEF redis, Replied, Starting
<1>1. CASE StatusStored(t) \/ RegisterDeleted(t) \/ BootDeleted(t)
  BY <1>1, FinishLeftover DEF StatusStored, RegisterDeleted, BootDeleted
<1>2. CASE LandZremmed(t) \/ RegisterZremmed(t) \/ ResetDeleted(t)
  BY <1>2, AwaitLeftover DEF LandZremmed, RegisterZremmed, ResetDeleted
<1>3. CASE LandDeleted(t)
  BY <1>3, RegisterLandedLeftover DEF LandDeleted
<1>4. CASE ResetListed(t)
  BY <1>4, AwaitLeftover, FinishLeftover DEF ResetListed, ClearAndSendReset
<1>5. CASE ResetKeysDeleted(t)
  BY <1>5, FinishLeftover DEF ResetKeysDeleted, ClearAndSendReset
<1>6. CASE OnModuleInit(t)
  <2>1. task' = [task EXCEPT ![t] = Busy("bootDel", NoUam, {})] /\ task \in [Task -> TaskRecord]
    BY <1>6 DEF OnModuleInit, Await, TypeInv, TypeOK
  <2>2. task'[t].at = "bootDel" /\ ~task'[t].replied
    BY <2>1 DEF Busy
  <2>3. \A s \in Task : task'[s].at = "zadd" => task'[s] = task[s]
    BY <2>1, <2>2
  <2>4. QED
    BY <2>2, <2>3 DEF LeftoverInv
<1>7. QED
  BY <1>1, <1>2, <1>3, <1>4, <1>5, <1>6 DEF Continue

LEMMA ArriveLeftover ==
  ASSUME TypeInv, LeftoverInv, NEW t \in Task, Arrive(t)
  PROVE  LeftoverInv'
<1>0. Free(t) => ~Starting(t)
  BY DEF Free, Idle, Starting
<1> USE DEF redis
<1>1. ASSUME NEW u \in Jamsil \ Leftover, HandleJamsilStatus(t, u) PROVE LeftoverInv'
  <2>1. /\ task' = [task EXCEPT ![t] = Busy("zadd", u, {})]
        /\ Free(t) /\ UNCHANGED queue
    BY <1>1 DEF HandleJamsilStatus, UpdatePriorityQueue
  <2>2. Busy("zadd", u, {}).uam \notin Leftover
    BY DEF Busy
  <2>3. QED
    BY <1>0, <2>1, <2>2, OneTaskLeftover
<1>2. ASSUME NEW u \in Uam \ Leftover, HandleUamLanded(t, u) PROVE LeftoverInv'
  BY <1>0, <1>2, RegisterLandedLeftover DEF HandleUamLanded
<1>3. ASSUME NEW u \in Jamsil, HandleLandingApprove(t, u) PROVE LeftoverInv'
  BY <1>0, <1>3, AwaitLeftover DEF HandleLandingApprove
<1>4. CASE TriggerAutoReset(t)
  BY <1>0, <1>4, AwaitLeftover DEF TriggerAutoReset
<1>5. QED
  BY <1>1, <1>2, <1>3, <1>4 DEF Arrive

LEMMA RedisLeftover ==
  ASSUME TypeInv, LeftoverInv,
         \/ \E c \in Connection : Execute(c) \/ RejectLanding(c)
         \/ RejectStatus
  PROVE  LeftoverInv'
<1> USE DEF Pending, Connection
<1>1. CASE Zadd
  <2>1. Oldest("app").uam \notin Leftover
    <3>1. Head(conn["app"]) \in Task
      BY <1>1 DEF TypeInv, TypeOK, Zadd
    <3>2. QED
      BY <1>1, <3>1 DEF Zadd, Oldest, LeftoverInv
  <2>2. Busy("set", Oldest("app").uam, {}).at # "zadd"
    BY DEF Busy
  <2>3. QED
    BY <1>1, <2>1, <2>2, ServeLeftover DEF Zadd
<1>2. CASE Set
  BY <1>2, AnswerLeftover DEF Set
<1>3. ASSUME NEW c \in Connection, Zrem(c) \/ DelDetail(c) PROVE LeftoverInv'
  BY <1>3, AnswerLeftover DEF Zrem, DelDetail
<1>4. CASE DelQueue
  <2> DEFINE k == [Oldest("gateway") EXCEPT !.replied = TRUE]
  <2>1. Oldest("gateway") \in TaskRecord /\ Head(conn["gateway"]) \in Task
    BY <1>4, TypeInvParts, OldestOK DEF TaskOK, TypeInv, TypeOK, DelQueue
  <2>2. k.at # "zadd"
    BY <1>4, <2>1 DEF DelQueue, TaskRecord
  <2>3. task' = [task EXCEPT ![Head(conn["gateway"])] = k] /\ queue' = {}
    BY <1>4 DEF DelQueue, Answer, Serve
  <2> HIDE DEF k
  <2>4. \A s \in Task : task'[s].at = "zadd" => task'[s].uam \notin Leftover
    BY <2>1, <2>2, <2>3 DEF LeftoverInv, TypeInv, TypeOK
  <2>5. QED
    BY <2>3, <2>4 DEF LeftoverInv
<1>5. CASE Keys
  <2> DEFINE k == [Oldest("gateway") EXCEPT !.keys = detail, !.replied = TRUE]
  <2>1. Oldest("gateway") \in TaskRecord
    BY <1>5, TypeInvParts, OldestOK DEF TaskOK, Keys
  <2>2. k.at # "zadd"
    BY <1>5, <2>1 DEF Keys, TaskRecord
  <2>3. Serve("gateway", k)
    BY <1>5 DEF Keys
  <2> HIDE DEF k
  <2>4. QED
    BY <1>5, <2>2, <2>3, ServeLeftover DEF Keys
<1>6. CASE DelKeys
  BY <1>6, AnswerLeftover DEF DelKeys
<1>7. ASSUME NEW c \in Connection, RejectLanding(c) PROVE LeftoverInv'
  <2>1. Idle.at # "zadd"
    BY DEF Idle
  <2>2. QED
    BY <1>7, <2>1, ServeLeftover DEF RejectLanding, LandingCommands, RegisterCommands, redis
<1>8. CASE RejectStatus
  <2>1. Busy("set", Oldest("app").uam, {}).at # "zadd"
    BY DEF Busy
  <2>2. QED
    BY <1>8, <2>1, ServeLeftover, AnswerLeftover DEF RejectStatus, redis
<1>9. QED
  BY <1>1, <1>2, <1>3, <1>4, <1>5, <1>6, <1>7, <1>8 DEF Execute

LEMMA StepLeftover == TypeInv /\ LeftoverInv /\ [Next]_vars => LeftoverInv'
<1> SUFFICES ASSUME TypeInv, LeftoverInv, [Next]_vars PROVE LeftoverInv'
  OBVIOUS
<1>1. CASE \E t \in Task : Crash(t) \/ RejectFatal(t)
  BY <1>1, StartAnewLeftover DEF Crash, RejectFatal
<1>2. CASE \/ \E u \in Uam \ (Jamsil \cup Leftover) : HandleAllStatus(u)
           \/ MapTick \/ CommandTaken \/ UNCHANGED vars
           \/ \E u \in Uam : DetailExpire(u)
  BY <1>2, SameTasksLeftover DEF HandleAllStatus, MapTick, CommandTaken, DetailExpire, vars, redis
<1>3. QED
  BY <1>1, <1>2, ContinueLeftover, ArriveLeftover, RedisLeftover DEF Next

\* However the previous process ended, and whatever arrived before the answer to
\* onModuleInit's DEL: once it is answered no vehicle of an earlier run is queued.
THEOREM LeftoversGoneHolds == Spec => []LeftoversGone
<1>1. Init => LeftoverInv
  <2> SUFFICES ASSUME Init PROVE LeftoverInv
    OBVIOUS
  <2>1. PICK t \in Task : task = [s \in Task |-> IF s = t THEN Boot ELSE Idle]
    BY DEF Init
  <2>2. Starting(t)
    BY <2>1 DEF Starting, Boot, Busy
  <2>3. \A s \in Task : task[s].at # "zadd"
    BY <2>1 DEF Boot, Busy, Idle
  <2>4. QED
    BY <2>2, <2>3 DEF LeftoverInv
<1>2. LeftoverInv => LeftoversGone
  BY DEF LeftoverInv, LeftoversGone, Booted, Starting
<1>3. QED
  BY InitOK, StepOK, StepLeftover, <1>1, <1>2, PTL DEF Spec

-----------------------------------------------------------------------------
(* The scheduler implements LandingLog *)

LEMMA ResetsBounded == Spec => [](resets \in Nat /\ resets <= MaxResets)
<1> DEFINE Bounded == resets \in Nat /\ resets <= MaxResets
<1> USE SchedulerAssumption DEF counts
<1>1. Init => Bounded
  BY DEF Init
<1>2. Bounded /\ [Next]_vars => Bounded'
  <2> SUFFICES ASSUME Bounded, [Next]_vars PROVE Bounded'
    OBVIOUS
  <2>1. CASE \E t \in Task : Continue(t)
    BY <2>1 DEF Continue, StatusStored, LandZremmed, LandDeleted, RegisterZremmed,
       RegisterDeleted, OnModuleInit, BootDeleted, ResetDeleted, ResetListed, ResetKeysDeleted
  <2>2. CASE \E t \in Task : Arrive(t)
    BY <2>2 DEF Arrive, HandleJamsilStatus, HandleUamLanded, HandleLandingApprove,
       TriggerAutoReset
  <2>3. QED
    BY <2>1, <2>2 DEF Next, vars, Crash, RejectFatal, HandleAllStatus, MapTick,
       Execute, RejectLanding, RejectStatus, DetailExpire, CommandTaken
<1>3. QED
  BY <1>1, <1>2, PTL DEF Spec

LEMMA LandingStep ==
  ASSUME TypeInv, OnceInv, resets = 0, [Next]_vars
  PROVE  [Landings!Next]_<<landedUamIds, landedUams>>
<1> USE SchedulerAssumption
<1>1. StepKind
  BY StepKinds
<1>2. CASE Stays \/ Drops
  BY <1>2 DEF Stays, Drops
<1>3. CASE Forgets
  BY <1>3 DEF Forgets, Landings!Next, Landings!Forget
<1>4. ASSUME NEW t \in Task, Records(t)
      PROVE  Landings!Next
  <2>1. Reg(t) \in Uam /\ Reg(t) \in landedUamIds \ ToSet(landedUams)
    BY <1>4 DEF Records, OnceInv, Listed
  <2>2. Landings!Record(Reg(t))
    BY <1>4, <2>1 DEF Records, Landings!Record, ToSet, Landings!ToSet
  <2>3. QED
    BY <2>1, <2>2 DEF Landings!Next
<1>5. ASSUME NEW t \in Task, NEW u \in Uam, Begins(t, u)
      PROVE  Landings!Next
  BY <1>5 DEF Begins, Landings!Next, Landings!Accept
<1>6. QED
  BY <1>1, <1>2, <1>3, <1>4, <1>5 DEF StepKind

\* As long as the reset timer has not fired, the landed list and the blocked ids
\* behave as LandingLog says, whatever crashes, errors and interleavings occur.
THEOREM Refinement == ASSUME MaxResets = 0 PROVE Spec => ImplementsLandingLog
<1>1. Init => Landings!Init
  BY DEF Init, Landings!Init
<1>2. resets \in Nat /\ resets <= MaxResets => resets = 0
  OBVIOUS
<1>3. TypeInv /\ OnceInv /\ resets = 0 /\ [Next]_vars
        => [Landings!Next]_<<landedUamIds, landedUams>>
  BY LandingStep
<1>4. QED
  BY <1>1, <1>2, <1>3, LandingInvariants, ResetsBounded, PTL
     DEF Spec, ImplementsLandingLog, Landings!Spec

=============================================================================
