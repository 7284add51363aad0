------------------------------ MODULE Scheduler ------------------------------
(***************************************************************************)
(* The L3 scheduler (apps/scheduler): the MQTT handlers of AppController,  *)
(* the Redis calls of AppService and the landing bookkeeping and timers of *)
(* EventsGateway.                                                          *)
(*                                                                         *)
(* A handler runs until its next await without interruption; at an await   *)
(* it has put a command on one of the scheduler's two Redis connections    *)
(* (AppService and EventsGateway open one each) and other handlers run.    *)
(* A handler in progress is a task; "at" names the command it awaits, and  *)
(* "replied" says that Redis has answered and the task may go on.  Redis   *)
(* executes the commands of one connection in the order they were written, *)
(* and says nothing about the order between connections.                   *)
(***************************************************************************)
EXTENDS Naturals, FiniteSets, SequencesExt

CONSTANTS
  Uam,             \* vehicle ids
  Jamsil,          \* those that report on uam/status/jamsil
  Leftover,        \* ids an earlier run left in Redis, which no longer report
  NoUam,           \* the "vehicle" of a task that concerns none
  Task,            \* handlers that can be in progress at once
  MapBufferLimit,  \* MAP_BUFFER_LIMIT, 50 in the code
  MaxCommands,     \* bound: commands on the MQTT channel when one is approved
  MaxRejects,      \* bound: write commands that Redis answers with an error
  MaxResets,       \* bound: firings of the 180 s reset timer
  MaxRestarts      \* bound: process crashes

ASSUME SchedulerAssumption ==
  /\ Jamsil \subseteq Uam /\ Leftover \subseteq Uam
  /\ NoUam \notin Uam
  /\ MapBufferLimit \in Nat \ {0}
  /\ {MaxCommands, MaxRejects, MaxResets, MaxRestarts} \subseteq Nat

VARIABLES
  queue,         \* Redis: members of the ZSET uam:landing:queue
  detail,        \* Redis: vehicles that have a uam:detail:<id> key
  conn,          \* per connection, the tasks whose commands Redis has yet to run
  task,          \* the handlers in progress
  landedUams,    \* the landed records, newest first
  landedUamIds,  \* the ids that may not be approved or stored again
  rawBuffer,     \* the vehicles in the map buffer
  commands,      \* MQTT: commands published and not yet taken by the simulator
  rejects, resets, restarts,
  cutShort       \* history: vehicles whose registration or approval ended early, by an
                 \* error, in this process

redis  == <<queue, detail>>
memory == <<landedUams, landedUamIds, rawBuffer>>
counts == <<rejects, resets, restarts, cutShort>>
vars   == <<redis, conn, task, memory, commands, counts>>

-----------------------------------------------------------------------------
(* Tasks and connections *)

AppCommands      == {"zadd", "set", "landZrem", "landDel"}
RegisterCommands == {"regZrem", "regDel"}
ResetCommands    == {"resetDel", "resetKeys", "resetDelKeys"}
GatewayCommands  == RegisterCommands \cup ResetCommands \cup {"bootDel"}
LandingCommands  == {"landZrem", "landDel"} \cup RegisterCommands
Connection      == {"app", "gateway"}
ConnectionOf(at) == IF at \in AppCommands THEN "app" ELSE "gateway"

Idle == [at |-> "idle", uam |-> NoUam, keys |-> {}, replied |-> FALSE]
Busy(at, u, ks) == [at |-> at, uam |-> u, keys |-> ks, replied |-> FALSE]

\* The process has started and onModuleInit has yet to run.
Boot == Busy("boot", NoUam, {})

Free(t) == task[t] = Idle
Replied(t, at) == task[t].at = at /\ task[t].replied

\* Task t writes the command "at" and awaits its reply.
Await(t, at, u, ks) ==
  /\ task' = [task EXCEPT ![t] = Busy(at, u, ks)]
  /\ conn' = [conn EXCEPT ![ConnectionOf(at)] = Append(@, t)]

Finish(t) == task' = [task EXCEPT ![t] = Idle] /\ UNCHANGED conn

\* The timers and the WebSocket server start after the boot command's reply.
Booted == \A t \in Task : task[t].at \notin {"boot", "bootDel"}

Land(u) == [command |-> "LAND", uam |-> u]
Reset   == [command |-> "RESET", uam |-> NoUam]

-----------------------------------------------------------------------------
(* Status messages *)

\* Mutant: only the caller checks for landed vehicles.
UpdateMapBufferUnchecked(u) ==
  \/ /\ Cardinality(rawBuffer \cup {u}) <= MapBufferLimit
     /\ rawBuffer' = rawBuffer \cup {u}
  \/ /\ Cardinality(rawBuffer \cup {u}) > MapBufferLimit
     /\ \E oldest \in rawBuffer \ {u} : rawBuffer' = (rawBuffer \cup {u}) \ {oldest}

\* An entry moves to the tail of the buffer; beyond the limit another one, the
\* oldest in the code, goes.
UpdateMapBuffer(u) ==
  \/ u \in landedUamIds /\ UNCHANGED rawBuffer
  \/ /\ u \notin landedUamIds
     /\ Cardinality(rawBuffer \cup {u}) <= MapBufferLimit
     /\ rawBuffer' = rawBuffer \cup {u}
  \/ /\ u \notin landedUamIds
     /\ Cardinality(rawBuffer \cup {u}) > MapBufferLimit
     /\ \E oldest \in rawBuffer \ {u} : rawBuffer' = (rawBuffer \cup {u}) \ {oldest}

\* ZADD and SET leave in one write; Redis may serve the other connection
\* between the two.
UpdatePriorityQueue(t, u) ==
  /\ task' = [task EXCEPT ![t] = Busy("zadd", u, {})]
  /\ conn' = [conn EXCEPT !["app"] = @ \o <<t, t>>]

\* Mutant: the handler does not ask isAlreadyLanded.
HandleJamsilStatusUnchecked(t, u) ==
  /\ Free(t)
  /\ UpdatePriorityQueue(t, u)
  /\ UNCHANGED <<redis, memory, commands, counts>>

HandleJamsilStatus(t, u) ==
  /\ Free(t)
  /\ u \notin landedUamIds
  /\ UpdatePriorityQueue(t, u)
  /\ UNCHANGED <<redis, memory, commands, counts>>

\* The rest of the handler, once the pipeline has answered.
StatusStored(t) ==
  /\ Replied(t, "set")
  /\ UpdateMapBuffer(task[t].uam)
  /\ Finish(t)
  /\ UNCHANGED <<redis, landedUams, landedUamIds, commands, counts>>

HandleAllStatus(u) ==
  /\ UpdateMapBuffer(u)
  /\ UNCHANGED <<redis, conn, task, landedUams, landedUamIds, commands, counts>>

-----------------------------------------------------------------------------
(* Landings *)

\* Mutant: registerLanded trusts its callers to have checked.
RegisterLandedUnchecked(t, u) ==
  /\ landedUamIds' = landedUamIds \cup {u}
  /\ Await(t, "regZrem", u, {})

\* Mutant: the id is not added before the awaits.
RegisterLandedLate(t, u) ==
  \/ u \in landedUamIds /\ Finish(t) /\ UNCHANGED landedUamIds
  \/ u \notin landedUamIds /\ UNCHANGED landedUamIds /\ Await(t, "regZrem", u, {})

\* registerLanded up to its first await.
RegisterLanded(t, u) ==
  \/ u \in landedUamIds /\ Finish(t) /\ UNCHANGED landedUamIds
  \/ /\ u \notin landedUamIds
     /\ landedUamIds' = landedUamIds \cup {u}
     /\ Await(t, "regZrem", u, {})

HandleUamLanded(t, u) ==
  /\ Free(t)
  /\ RegisterLanded(t, u)
  /\ UNCHANGED <<redis, landedUams, rawBuffer, commands, counts>>

\* Mutant: registerLanded returns after the ZREM.
RegisterZremmedOnly(t) ==
  /\ Replied(t, "regZrem")
  /\ Finish(t)
  /\ UNCHANGED <<redis, memory, commands, counts>>

RegisterZremmed(t) ==
  /\ Replied(t, "regZrem")
  /\ Await(t, "regDel", task[t].uam, {})
  /\ UNCHANGED <<redis, memory, commands, counts>>

RegisterDeleted(t) ==
  /\ Replied(t, "regDel")
  /\ rawBuffer' = rawBuffer \ {task[t].uam}
  /\ landedUams' = <<task[t].uam>> \o landedUams
  /\ Finish(t)
  /\ UNCHANGED <<redis, landedUamIds, commands, counts>>

\* handleLandingApprove: publish LAND, then await sendLandingCommand's ZREM.
HandleLandingApprove(t, u) ==
  /\ Booted /\ Free(t)
  /\ Len(commands) < MaxCommands
  /\ u \notin landedUamIds
  /\ commands' = Append(commands, Land(u))
  /\ Await(t, "landZrem", u, {})
  /\ UNCHANGED <<redis, memory, counts>>

LandZremmed(t) ==
  /\ Replied(t, "landZrem")
  /\ Await(t, "landDel", task[t].uam, {})
  /\ UNCHANGED <<redis, memory, commands, counts>>

\* Mutant: an approval sends the command and registers nothing.
LandDeletedUnregistered(t) ==
  /\ Replied(t, "landDel")
  /\ Finish(t)
  /\ UNCHANGED <<redis, memory, commands, counts>>

LandDeleted(t) ==
  /\ Replied(t, "landDel")
  /\ RegisterLanded(t, task[t].uam)
  /\ UNCHANGED <<redis, landedUams, rawBuffer, commands, counts>>

-----------------------------------------------------------------------------
(* Start-up, timers and reset *)

\* Messages that come first have their commands on the connection already.
OnModuleInit(t) ==
  /\ task[t].at = "boot"
  /\ Await(t, "bootDel", NoUam, {})
  /\ UNCHANGED <<redis, memory, commands, counts>>

BootDeleted(t) ==
  /\ Replied(t, "bootDel")
  /\ Finish(t)
  /\ UNCHANGED <<redis, memory, commands, counts>>

\* The 500 ms timer drops the entries that were not refreshed for 5 s.
MapTick ==
  /\ Booted
  /\ \E old \in SUBSET rawBuffer \ {{}} : rawBuffer' = rawBuffer \ old
  /\ UNCHANGED <<redis, conn, task, landedUams, landedUamIds, commands, counts>>

TriggerAutoReset(t) ==
  /\ Booted /\ Free(t)
  /\ resets < MaxResets
  /\ resets' = resets + 1
  /\ Await(t, "resetDel", NoUam, {})
  /\ UNCHANGED <<redis, memory, commands, rejects, restarts, cutShort>>

ResetDeleted(t) ==
  /\ Replied(t, "resetDel")
  /\ Await(t, "resetKeys", NoUam, {})
  /\ UNCHANGED <<redis, memory, commands, counts>>

\* Mutant: the reset forgets landedUamIds.clear().
ClearMemoryKeepsIds ==
  /\ landedUams' = <<>>
  /\ UNCHANGED landedUamIds
  /\ rawBuffer' = {}

ClearMemory ==
  /\ landedUams' = <<>>
  /\ landedUamIds' = {}
  /\ rawBuffer' = {}

\* Steps 2 and 3 of the reset; no await separates them.
ClearAndSendReset(t) ==
  /\ ClearMemory
  /\ commands' = Append(commands, Reset)
  /\ Finish(t)

\* Mutant: without detail keys the reset returns.
ResetListedOrReturn(t) ==
  /\ Replied(t, "resetKeys")
  /\ \/ task[t].keys # {} /\ Await(t, "resetDelKeys", NoUam, task[t].keys)
     \/ task[t].keys = {} /\ Finish(t)
  /\ UNCHANGED <<redis, memory, commands, counts>>

ResetListed(t) ==
  /\ Replied(t, "resetKeys")
  /\ \/ /\ task[t].keys # {}
        /\ Await(t, "resetDelKeys", NoUam, task[t].keys)
        /\ UNCHANGED <<memory, commands>>
     \/ task[t].keys = {} /\ ClearAndSendReset(t)
  /\ UNCHANGED <<redis, counts>>

ResetKeysDeleted(t) ==
  /\ Replied(t, "resetDelKeys")
  /\ ClearAndSendReset(t)
  /\ UNCHANGED <<redis, counts>>

-----------------------------------------------------------------------------
(* Redis *)

\* The oldest command of connection c leaves it; the task that wrote it
\* becomes k.
Serve(c, k) ==
  /\ conn' = [conn EXCEPT ![c] = Tail(@)]
  /\ task' = [task EXCEPT ![Head(conn[c])] = k]

Oldest(c) == task[Head(conn[c])]
Pending(c, ats) == conn[c] # <<>> /\ Oldest(c).at \in ats
Answer(c) == Serve(c, [Oldest(c) EXCEPT !.replied = TRUE])

Zadd ==
  /\ Pending("app", {"zadd"})
  /\ queue' = queue \cup {Oldest("app").uam}
  /\ Serve("app", Busy("set", Oldest("app").uam, {}))
  /\ UNCHANGED detail

Set ==
  /\ Pending("app", {"set"})
  /\ detail' = detail \cup {Oldest("app").uam}
  /\ Answer("app")
  /\ UNCHANGED queue

Zrem(c) ==
  /\ Pending(c, {"landZrem", "regZrem"})
  /\ queue' = queue \ {Oldest(c).uam}
  /\ Answer(c)
  /\ UNCHANGED detail

DelDetail(c) ==
  /\ Pending(c, {"landDel", "regDel"})
  /\ detail' = detail \ {Oldest(c).uam}
  /\ Answer(c)
  /\ UNCHANGED queue

DelQueue ==
  /\ Pending("gateway", {"resetDel", "bootDel"})
  /\ queue' = {}
  /\ Answer("gateway")
  /\ UNCHANGED detail

Keys ==
  /\ Pending("gateway", {"resetKeys"})
  /\ Serve("gateway", [Oldest("gateway") EXCEPT !.keys = detail, !.replied = TRUE])
  /\ UNCHANGED <<queue, detail>>

DelKeys ==
  /\ Pending("gateway", {"resetDelKeys"})
  /\ detail' = detail \ Oldest("gateway").keys
  /\ Answer("gateway")
  /\ UNCHANGED queue

\* Redis executes the oldest command of connection c.
Execute(c) ==
  /\ \/ c = "app" /\ (Zadd \/ Set)
     \/ Zrem(c) \/ DelDetail(c)
     \/ c = "gateway" /\ (DelQueue \/ Keys \/ DelKeys)
  /\ UNCHANGED <<memory, commands, counts>>

\* The 60 s expiry of a detail key.
DetailExpire(u) ==
  /\ u \in detail
  /\ detail' = detail \ {u}
  /\ UNCHANGED <<queue, conn, task, memory, commands, counts>>

\* Redis answers a write with an error.  The results of a pipeline carry the
\* error and the status handler does not look at them.
RejectStatus ==
  /\ rejects < MaxRejects /\ rejects' = rejects + 1
  /\ \/ Pending("app", {"zadd"}) /\ Serve("app", Busy("set", Oldest("app").uam, {}))
     \/ Pending("app", {"set"}) /\ Answer("app")
  /\ UNCHANGED <<redis, memory, commands, resets, restarts, cutShort>>

\* The rejected await ends registerLanded or handleLandingApprove where it is.
RejectLanding(c) ==
  /\ rejects < MaxRejects /\ rejects' = rejects + 1
  /\ Pending(c, LandingCommands)
  /\ Serve(c, Idle)
  /\ cutShort' = cutShort \cup {Oldest(c).uam}
  /\ UNCHANGED <<redis, memory, commands, resets, restarts>>

-----------------------------------------------------------------------------
(* Process crash and the broker *)

\* Mutant: onModuleInit does not delete the queue.
StartAnewKeepingQueue(t) ==
  /\ task' = [s \in Task |-> Idle]
  /\ conn' = [c \in Connection |-> <<>>]
  /\ ClearMemory
  /\ cutShort' = {}

\* The process starts anew: what it remembered and had not sent is gone, Redis
\* keeps its keys.
StartAnew(t) ==
  /\ task' = [s \in Task |-> IF s = t THEN Boot ELSE Idle]
  /\ conn' = [c \in Connection |-> <<>>]
  /\ ClearMemory
  /\ cutShort' = {}

Crash(t) ==
  /\ restarts < MaxRestarts /\ restarts' = restarts + 1
  /\ StartAnew(t)
  /\ UNCHANGED <<redis, commands, rejects, resets>>

\* An error that ends the process, as nothing handles the rejection: of a command
\* of onModuleInit or of the reset timer, or of a read of the poll, which
\* QueueStream models and which runs at any time after start-up.
RejectFatal(t) ==
  /\ rejects < MaxRejects /\ rejects' = rejects + 1
  /\ Booted \/ Pending("gateway", ResetCommands \cup {"bootDel"})
  /\ StartAnew(t)
  /\ UNCHANGED <<redis, commands, resets, restarts>>

\* The broker hands the oldest command to the simulator, or loses it (QoS 0).
CommandTaken ==
  /\ commands # <<>>
  /\ commands' = Tail(commands)
  /\ UNCHANGED <<redis, conn, task, memory, counts>>

-----------------------------------------------------------------------------

Init ==
  /\ queue \in SUBSET Leftover /\ detail \in SUBSET Leftover
  /\ \E t \in Task : task = [s \in Task |-> IF s = t THEN Boot ELSE Idle]
  /\ conn = [c \in Connection |-> <<>>]
  /\ landedUams = <<>> /\ landedUamIds = {} /\ rawBuffer = {}
  /\ commands = <<>>
  /\ rejects = 0 /\ resets = 0 /\ restarts = 0 /\ cutShort = {}

Continue(t) ==
  \/ StatusStored(t)
  \/ LandZremmed(t) \/ LandDeleted(t)
  \/ RegisterZremmed(t) \/ RegisterDeleted(t)
  \/ OnModuleInit(t) \/ BootDeleted(t)
  \/ ResetDeleted(t) \/ ResetListed(t) \/ ResetKeysDeleted(t)

Arrive(t) ==
  \/ \E u \in Jamsil \ Leftover : HandleJamsilStatus(t, u)
  \/ \E u \in Uam \ Leftover : HandleUamLanded(t, u)
  \/ \E u \in Jamsil : HandleLandingApprove(t, u)
  \/ TriggerAutoReset(t)

Next ==
  \/ \E t \in Task : Continue(t) \/ Arrive(t) \/ Crash(t) \/ RejectFatal(t)
  \/ \E u \in Uam \ (Jamsil \cup Leftover) : HandleAllStatus(u)
  \/ MapTick
  \/ \E c \in Connection : Execute(c) \/ RejectLanding(c)
  \/ RejectStatus
  \/ \E u \in Uam : DetailExpire(u)
  \/ CommandTaken

\* The event loop runs every handler whose reply is in, and Redis serves what it
\* is sent.  Nothing forces a message, an approval, a timer or the broker.
Fairness ==
  /\ \A t \in Task : WF_vars(Continue(t))
  /\ \A c \in Connection : WF_vars(Execute(c))

Spec == Init /\ [][Next]_vars
FairSpec == Spec /\ Fairness
-----------------------------------------------------------------------------
(* Properties *)

Listed == ToSet(landedUams)
At(ats, u) == {t \in Task : task[t].at \in ats /\ task[t].uam = u}
Registering(u) == At(RegisterCommands, u) # {}

TaskRecord ==
  [at: {"idle", "boot"} \cup AppCommands \cup GatewayCommands, uam: Uam \cup {NoUam},
   keys: SUBSET Uam, replied: BOOLEAN]

\* Types: a handler that names a vehicle has one, a reset in progress has been
\* counted, and the map buffer keeps to the limit of updateMapBuffer.
TypeOK ==
  /\ queue \subseteq Uam /\ detail \subseteq Uam
  /\ conn \in [Connection -> Seq(Task)]
  /\ task \in [Task -> TaskRecord]
  /\ \A t \in Task :
       /\ task[t].at \in AppCommands \cup RegisterCommands => task[t].uam \in Uam
       /\ task[t].at \in ResetCommands => resets > 0
  /\ landedUams \in Seq(Uam)
  /\ landedUamIds \subseteq Uam
  /\ rawBuffer \subseteq Uam /\ Cardinality(rawBuffer) <= MapBufferLimit
  /\ commands \in Seq([command: {"LAND", "RESET"}, uam: Uam \cup {NoUam}])
  /\ rejects \in Nat /\ resets \in Nat /\ restarts \in Nat /\ cutShort \subseteq Uam

\* An id that registerLanded has blocked is in the landed list, or the
\* registration that will list it is still awaiting Redis: no vehicle is refused
\* as "already landed" without ever being shown, unless Redis refused a command of
\* that very registration.
LandedIdsListed ==
  \A u \in landedUamIds \ cutShort : u \in Listed \/ Registering(u)

\* The simulator's notice and any number of approvals of one vehicle, in
\* whatever order they pass their awaits, start at most one registration:
\* registerLanded checks and adds without an await between.
OneRegistration ==
  resets = 0 =>
    \A u \in Uam : \A s, t \in At(RegisterCommands, u) : s = t

\* No vehicle is in the landed list twice, until a reset happens.
NoDuplicateRecords == resets = 0 => IsInjective(landedUams)

\* Every vehicle in the landed list is blocked: a later status, notice or
\* approval of it is refused.  (A reset that overtakes a registration breaks this.)
RecordsBacked == resets = 0 => Listed \subseteq landedUamIds

\* A landed vehicle is on the map only while its registration is in flight,
\* even when a status that passed the landed check is stored after it, and whatever
\* the pipeline's results say; or the registration ended before the buffer's delete.
BufferExcludesLanded ==
  \A u \in (landedUamIds \cap rawBuffer) \ cutShort : Registering(u)

\* After start-up no vehicle of an earlier run is in the queue, however the
\* previous process ended and whatever arrived before the start-up DEL.
LeftoversGone == Booted => queue \cap Leftover = {}

\* A landed vehicle that is in the queue neither now nor on its way stays out of
\* it for as long as it counts as landed.
OutOfQueue(u) == u \in landedUamIds \ queue /\ At({"zadd"}, u) = {}
LandedStaysOutOfQueue ==
  [][\A u \in landedUamIds' : OutOfQueue(u) => OutOfQueue(u)']_vars

\* A reset that has begun unblocks every vehicle in the end, with detail keys to
\* delete or without: if Redis refuses one of its commands, the process dies and
\* the next one knows nothing.  No vehicle stays blocked behind half a reset.
Resetting == \E t \in Task : task[t].at \in ResetCommands
ResetUnblocks ==
  \A u \in Uam : u \in landedUamIds /\ Resetting ~> u \notin landedUamIds

\* A vehicle that was sent LAND by an approval counts as landed in the end, unless
\* an error cut its own approval short or the process died.
ApprovedIsRegistered ==
  \A u \in Uam :
    At({"landZrem", "landDel"}, u) # {} ~> (u \in landedUamIds \cup cutShort \/ ~Booted)

\* A blocked id is shown in the landed list in the end, or forgotten, unless Redis
\* refused a command of its own registration.
RegisteredIsListed ==
  \A u \in Uam : u \in landedUamIds ~> (u \in Listed \cup cutShort \/ u \notin landedUamIds)

-----------------------------------------------------------------------------
(* Without resets the scheduler implements LandingLog *)

Landings == INSTANCE LandingLog WITH known <- landedUamIds, log <- landedUams

\* Seen through the landed list and the blocked ids, every step of the handlers,
\* of Redis and of a restart is one of LandingLog or leaves both alone.
ImplementsLandingLog == Landings!Spec

-----------------------------------------------------------------------------
(* What comments and documents say and the code does not do *)

\* LANDING-REFACTORING.md:78 and the comment at events.gateway.ts:126: once a
\* landing is registered and nothing is in progress, the vehicle is not queued.
LandedNotQueued ==
  (\A t \in Task : Free(t)) => queue \cap landedUamIds = {}
=============================================================================
