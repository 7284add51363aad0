-------------------------------- MODULE System --------------------------------
(***************************************************************************)
(* Simulator and scheduler together, and the QoS 0 topics between them:    *)
(* uam/status/jamsil and uam/landed one way, uam/command/land and          *)
(* uam/command/reset the other.  The simulator is Fleet, with where its    *)
(* vehicles are; the scheduler is its landing queue, its blocked ids, the  *)
(* calls that wait on its two Redis connections and the handlers that      *)
(* await them; and the landings that PersistenceService has written down.  *)
(* All vehicles are bound for Jamsil.                                      *)
(*                                                                         *)
(* Messages of one direction stay in order, and so do the calls of one     *)
(* connection.  Any message may be lost, any call refused, and the         *)
(* scheduler may die at any time.  The detail keys are left to Scheduler:  *)
(* a handler that deletes one after its ZREM waits here from the ZREM to   *)
(* the answer of that DEL.                                                 *)
(***************************************************************************)
EXTENDS Fleet, SequencesExt

CONSTANTS
  MaxReports,   \* bound: messages on their way to the scheduler
  MaxCommands,  \* bound: LANDs on their way to the simulator
  MaxCalls      \* bound: calls that wait when the scheduler takes a message

ASSUME SystemAssumption == {MaxReports, MaxCommands, MaxCalls} \subseteq Nat

VARIABLES
  waiting,       \* vehicles with waitingForLanding
  approved,      \* vehicles with landingApproved
  reports,       \* on their way to the scheduler
  commands,      \* on their way to the simulator
  queue,         \* Redis: members of uam:landing:queue
  landedUamIds,
  app, gateway,  \* calls on the connections of AppService and of EventsGateway
  approving,     \* approvals after sendLandingCommand's ZREM, in order
  saving,        \* vehicles whose uam/landed is handled, after registerLanded's ZREM
  clearing,      \* resets that have deleted the queue, and have yet to do the rest
  up,            \* onModuleInit's DEL is done
  schedulerResets,
  landingEvents, \* vehicles with a row in uam_landing_events
  excused,       \* history: queued vehicles that something has stranded there
  unheard,       \* history: flying vehicles that LAND did not reach at their LDP
  touchedDown,   \* history: vehicles that have landed
  unreported,    \* history: vehicles whose uam/landed was lost
  unsaved        \* history: vehicles whose row was not written

simulator == <<vars, waiting, approved>>
handlers  == <<approving, saving, clearing, up, schedulerResets>>
scheduler == <<queue, landedUamIds, app, gateway, handlers>>
audit     == <<landingEvents, unsaved>>
landings  == <<touchedDown, unreported>>
systemVars == <<simulator, reports, commands, scheduler, audit, landings, excused, unheard>>

Message(kind, u) == [kind |-> kind, uam |-> u]
Nobody == 0

SystemInit ==
  /\ Init
  /\ waiting = {} /\ approved = {}
  /\ reports = <<>> /\ commands = <<>>
  /\ queue = {} /\ landedUamIds = {}
  /\ app = <<>> /\ gateway = <<>> /\ approving = <<>> /\ saving = {} /\ clearing = 0
  /\ up = FALSE /\ schedulerResets = 0 /\ excused = {} /\ unheard = {}
  /\ landingEvents = {} /\ unsaved = {} /\ touchedDown = {} /\ unreported = {}

-----------------------------------------------------------------------------
(* The simulator *)

Report(kind, u) ==
  /\ Len(reports) < MaxReports
  /\ reports' = Append(reports, Message(kind, u))

\* updateMovement in the air: the vehicle may reach its LDP, or its battery the
\* threshold, and reports.
Fly(u) ==
  /\ u \in ticking
  /\ waiting' \in {waiting, waiting \cup {u}}
  /\ approved' \in {approved, approved \cup {u}}
  /\ Report("status", u)
  /\ UNCHANGED <<vars, commands, scheduler, audit, landings, excused, unheard>>

\* updateMovement on the ground.
TouchDown(u) ==
  /\ u \in approved /\ approved' = approved \ {u}
  /\ StopSimulation(u)
  /\ waiting' = waiting \ {u}
  /\ Report("landed", u)
  /\ unheard' = unheard \ {u} /\ touchedDown' = touchedDown \cup {u}
  /\ UNCHANGED <<commands, scheduler, audit, unreported, excused>>

\* Bound: the system stops before its ids come round.
IdsLeft(k) == vehicleSeq + k <= IdSpace

StartNext ==
  /\ IdsLeft(1) /\ Respawn
  /\ UNCHANGED <<waiting, approved, reports, commands, scheduler, audit, landings, excused, unheard>>

\* What would need more ids waits for ever.
IdsUsedUp ==
  /\ \/ respawns > 0 /\ ~IdsLeft(1)
     \/ commands # <<>> /\ Head(commands).kind = "RESET" /\ ~IdsLeft(FleetSize)
  /\ UNCHANGED systemVars

Take(kind) == commands # <<>> /\ Head(commands).kind = kind /\ commands' = Tail(commands)

\* Mutant: approveLanding looks the vehicle up and forgets to change it.
HandleLandingCommandInert ==
  /\ Take("LAND")
  /\ unheard' = unheard \cup ({Head(commands).uam} \cap (flying \ waiting))
  /\ UNCHANGED <<vars, waiting, approved, reports, scheduler, audit, landings, excused>>

\* approveLanding: a vehicle that is not hovering ignores the command.
HandleLandingCommand ==
  /\ Take("LAND")
  /\ LET u == Head(commands).uam
     IN /\ approved' = approved \cup ({u} \cap waiting)
        /\ unheard' = unheard \cup ({u} \cap (flying \ waiting))
  /\ UNCHANGED <<vars, waiting, reports, scheduler, audit, landings, excused>>

HandleResetCommand ==
  /\ Take("RESET")
  /\ IdsLeft(FleetSize) /\ ResetSimulation
  /\ waiting' = {} /\ approved' = {} /\ unheard' = {}
  /\ UNCHANGED <<reports, scheduler, audit, landings, excused>>

-----------------------------------------------------------------------------
(* The scheduler: messages, approvals, the reset timer *)

Room == Len(app) + Len(gateway) + Len(approving) < MaxCalls

\* registerLanded up to its first await, the ZREM that "kind" names.
RegisterLanded(u, kind) ==
  \/ u \in landedUamIds /\ UNCHANGED <<landedUamIds, gateway>>
  \/ /\ u \notin landedUamIds
     /\ landedUamIds' = landedUamIds \cup {u}
     /\ gateway' = Append(gateway, Message(kind, u))

\* isAlreadyLanded, and the pipeline is written; Redis has yet to run it.
HandleJamsilStatus(u) ==
  /\ \/ u \in landedUamIds /\ UNCHANGED app
     \/ u \notin landedUamIds /\ app' = Append(app, Message("zadd", u))
  /\ UNCHANGED <<landedUamIds, gateway, audit>>

\* saveLandingEvent: a refused INSERT is logged, and before there is a pool nothing
\* is written.
SaveLandingEvent(u) ==
  \/ landingEvents' = landingEvents \cup {u} /\ UNCHANGED unsaved
  \/ unsaved' = unsaved \cup {u} /\ UNCHANGED landingEvents

\* Mutant: the row is written for a landing that is registered here only.
HandleUamLandedOnce(u) ==
  /\ RegisterLanded(u, "landedZrem")
  /\ UNCHANGED <<app, audit>>

\* An approved vehicle is registered already, and written down here.
HandleUamLanded(u) ==
  /\ RegisterLanded(u, "landedZrem")
  /\ \/ u \in landedUamIds /\ SaveLandingEvent(u)
     \/ u \notin landedUamIds /\ UNCHANGED audit
  /\ UNCHANGED app

HandleReport ==
  /\ Room
  /\ reports # <<>> /\ reports' = Tail(reports)
  /\ LET m == Head(reports)
     IN \/ m.kind = "status" /\ HandleJamsilStatus(m.uam)
        \/ m.kind = "landed" /\ HandleUamLanded(m.uam)
  /\ UNCHANGED <<simulator, commands, queue, handlers, landings, excused, unheard>>

\* A client approves any vehicle it has ever been shown, queued or not.
HandleLandingApprove(u) ==
  /\ up /\ Room
  /\ u <= vehicleSeq /\ u \notin landedUamIds
  /\ Len(commands) < MaxCommands
  /\ commands' = Append(commands, Message("LAND", u))
  /\ app' = Append(app, Message("zrem", u))
  /\ UNCHANGED <<simulator, reports, queue, landedUamIds, gateway, handlers, audit, landings,
                 excused, unheard>>

\* sendLandingCommand has its answers.
RegisterApproved ==
  /\ approving # <<>> /\ approving' = Tail(approving)
  /\ RegisterLanded(Head(approving), "zrem")
  /\ UNCHANGED <<simulator, reports, commands, queue, app, saving, clearing, up, schedulerResets,
                 audit, landings, excused, unheard>>

\* registerLanded has its answers; an error there (or of the INSERT) and there is no
\* row.
LandingSaved(u) ==
  /\ u \in saving /\ saving' = saving \ {u}
  /\ SaveLandingEvent(u)
  /\ UNCHANGED <<simulator, reports, commands, queue, landedUamIds, app, gateway, approving,
                 clearing, up, schedulerResets, landings, excused, unheard>>

\* triggerAutoReset up to its first await ...
TriggerAutoReset ==
  /\ up
  /\ schedulerResets < MaxResets /\ schedulerResets' = schedulerResets + 1
  /\ gateway' = Append(gateway, Message("resetDel", Nobody))
  /\ UNCHANGED <<simulator, reports, commands, queue, landedUamIds, app, approving, saving,
                 clearing, up, audit, landings, excused, unheard>>

\* ... and after the last; the KEYS and the DEL of the keys are between.
ResetEnds ==
  /\ clearing > 0 /\ clearing' = clearing - 1
  /\ landedUamIds' = {}
  /\ commands' = Append(commands, Message("RESET", Nobody))
  /\ UNCHANGED <<simulator, reports, queue, app, gateway, approving, saving, up, schedulerResets,
                 audit, landings, excused, unheard>>

-----------------------------------------------------------------------------
(* Redis *)

\* No uam/landed is on its way that will be accepted, nor will there be one, as far as
\* anybody can know: the vehicle counts as landed, or is down or replaced, or the
\* simulator is about to replace it.
ResetComing == clearing > 0 \/ Message("RESET", Nobody) \in ToSet(commands)
Stranded(u) ==
  \/ u \in landedUamIds
  \/ /\ Message("landed", u) \notin ToSet(reports)
     /\ u \notin flying \/ ResetComing

Zadd(u) ==
  /\ queue' = queue \cup {u}
  /\ excused' = IF Stranded(u) THEN excused \cup {u} ELSE excused

Zrem(u) == queue' = queue \ {u} /\ excused' = excused \ {u}

\* Mutant: the queue is not deleted.
DelQueueNot == excused' = {} /\ UNCHANGED queue

DelQueue == queue' = {} /\ excused' = {}

\* The oldest call of AppService's connection.
ExecuteApp ==
  /\ app # <<>> /\ app' = Tail(app)
  /\ LET m == Head(app)
     IN \/ m.kind = "zadd" /\ Zadd(m.uam) /\ UNCHANGED approving
        \/ m.kind = "zrem" /\ Zrem(m.uam) /\ approving' = Append(approving, m.uam)
  /\ UNCHANGED <<simulator, reports, commands, landedUamIds, gateway, saving, clearing, up,
                 schedulerResets, audit, landings, unheard>>

\* The oldest call of the gateway's.
ExecuteGateway ==
  /\ gateway # <<>> /\ gateway' = Tail(gateway)
  /\ LET m == Head(gateway)
     IN \/ m.kind = "zrem" /\ Zrem(m.uam) /\ UNCHANGED <<saving, clearing, up>>
        \/ /\ m.kind = "landedZrem" /\ Zrem(m.uam) /\ saving' = saving \cup {m.uam}
           /\ UNCHANGED <<clearing, up>>
        \/ /\ m.kind = "resetDel" /\ DelQueue /\ clearing' = clearing + 1
           /\ UNCHANGED <<saving, up>>
        \/ m.kind = "bootDel" /\ DelQueue /\ up' = TRUE /\ UNCHANGED <<saving, clearing>>
  /\ UNCHANGED <<simulator, reports, commands, landedUamIds, app, approving, schedulerResets,
                 audit, landings, unheard>>

\* What a refused ZREM leaves in the queue.
Refuse(zrems) == excused' = excused \cup {u \in queue : Message("zrem", u) \in zrems /\ Stranded(u)}

\* An error instead: a status goes on, an approval ends.
RejectApp ==
  /\ app # <<>> /\ app' = Tail(app)
  /\ Refuse({Head(app)})
  /\ UNCHANGED <<simulator, reports, commands, queue, landedUamIds, gateway, handlers, audit,
                 landings, unheard>>

\* The DEL after an approval's ZREM is refused: the approval ends too.
RejectApproving ==
  /\ approving # <<>> /\ approving' = Tail(approving)
  /\ UNCHANGED <<simulator, reports, commands, queue, landedUamIds, app, gateway, saving,
                 clearing, up, schedulerResets, audit, landings, excused, unheard>>

\* registerLanded ends, and handleUamLanded with it.
RejectGateway ==
  /\ gateway # <<>> /\ gateway' = Tail(gateway)
  /\ LET m == Head(gateway)
     IN /\ m.kind \in {"zrem", "landedZrem"}
        /\ Refuse({Message("zrem", m.uam)})
        /\ unsaved' = IF m.kind = "landedZrem" THEN unsaved \cup {m.uam} ELSE unsaved
  /\ UNCHANGED <<simulator, reports, commands, queue, landedUamIds, app, handlers, landingEvents,
                 landings, unheard>>

-----------------------------------------------------------------------------
(* The life of the scheduler *)

\* Landings that a handler has in hand.
InHand == {u \in Id : Message("landedZrem", u) \in ToSet(gateway)} \cup saving

\* The process dies, of a refused call of the reset, the poll or onModuleInit or of
\* anything else, and starts again.
Crash ==
  /\ up' = FALSE
  /\ landedUamIds' = {}
  /\ app' = <<>> /\ gateway' = <<>> /\ approving' = <<>> /\ saving' = {} /\ clearing' = 0
  /\ unsaved' = unsaved \cup InHand
  /\ UNCHANGED <<simulator, reports, commands, queue, schedulerResets, landingEvents, landings,
                 excused, unheard>>

\* Messages that came first may have their calls before the DEL.
OnModuleInit ==
  /\ ~up /\ Message("bootDel", Nobody) \notin ToSet(gateway)
  /\ gateway' = Append(gateway, Message("bootDel", Nobody))
  /\ UNCHANGED <<simulator, reports, commands, queue, landedUamIds, app, handlers, audit,
                 landings, excused, unheard>>

-----------------------------------------------------------------------------
(* The broker *)

LoseReport ==
  /\ reports # <<>> /\ reports' = Tail(reports)
  /\ LET m == Head(reports)
     IN unreported' = unreported \cup {u \in Id : m = Message("landed", u)}
  /\ UNCHANGED <<simulator, commands, scheduler, audit, touchedDown, excused, unheard>>

LoseCommand ==
  /\ commands # <<>> /\ commands' = Tail(commands)
  /\ unheard' = unheard \cup ({Head(commands).uam} \cap flying)
  /\ UNCHANGED <<simulator, reports, scheduler, audit, landings, excused>>

SystemNext ==
  \/ \E u \in Id : Fly(u) \/ TouchDown(u) \/ HandleLandingApprove(u) \/ LandingSaved(u)
  \/ StartNext \/ HandleLandingCommand \/ HandleResetCommand
  \/ HandleReport \/ RegisterApproved \/ TriggerAutoReset \/ ResetEnds
  \/ ExecuteApp \/ ExecuteGateway
  \/ RejectApp \/ RejectApproving \/ RejectGateway
  \/ Crash \/ OnModuleInit
  \/ LoseReport \/ LoseCommand \/ IdsUsedUp

SystemSpec == SystemInit /\ [][SystemNext]_systemVars
-----------------------------------------------------------------------------
(* Properties *)

Sent(m) == m \in ToSet(reports) \cup ToSet(commands)

ReportMsg == [kind : {"status", "landed"}, uam : Id]
CommandMsg == [kind : {"LAND"}, uam : Id] \cup {Message("RESET", Nobody)}
AppCall == [kind : {"zadd", "zrem"}, uam : Id]
GatewayCall == [kind : {"zrem", "landedZrem"}, uam : Id]
                 \cup {Message("resetDel", Nobody), Message("bootDel", Nobody)}

\* Types; flags are of vehicles in the air, excuses of vehicles in the queue.
SystemTypeOK ==
  /\ TypeOK
  /\ waiting \subseteq flying /\ approved \subseteq flying /\ unheard \subseteq flying
  /\ reports \in Seq(ReportMsg) /\ commands \in Seq(CommandMsg)
  /\ app \in Seq(AppCall) /\ gateway \in Seq(GatewayCall) /\ approving \in Seq(Id)
  /\ saving \subseteq Id /\ clearing \in Nat /\ up \in BOOLEAN
  /\ queue \subseteq Id /\ landedUamIds \subseteq Id /\ excused \subseteq queue

\* A call that takes the vehicle out of the queue, or all of them, waits for Redis.
Removal(u) ==
  \/ ~up
  \/ Message("zrem", u) \in ToSet(app) \cup ToSet(gateway)
  \/ Message("landedZrem", u) \in ToSet(gateway)
  \/ Message("resetDel", Nobody) \in ToSet(gateway)

\* A queued vehicle that is down, gone or blocked is on its way out, by a call or by
\* its uam/landed, or it has one of these causes to be a ghost: its uam/landed was
\* lost; its ZADD overtook its registration's ZREM, or came during a reset or after
\* its simulation; or its ZREM was refused.  Crashes, late approvals, approvals of
\* vehicles not in the queue and registrations that a reset forgets cause none.
GhostsHaveCause ==
  \A u \in queue :
    \/ u \in flying \ landedUamIds
    \/ Sent(Message("landed", u)) /\ u \notin landedUamIds
    \/ Removal(u)
    \/ u \in excused \cup unreported

\* A vehicle that flies and counts as landed descends, unless its LAND is on its
\* way, was lost, or came before the vehicle hovered at its LDP.  No late message
\* or call of one simulation blocks a vehicle of the next.
BlockedDescend ==
  \A u \in landedUamIds \cap flying :
    u \in approved \cup unheard \/ Sent(Message("LAND", u))

\* Every landing is written down, those by approval too, whatever resets come
\* between, unless its message is on its way or was lost, a handler has it in hand,
\* or an error or a crash ended that handler.  Nothing else is: a vehicle that a
\* reset takes out of the air has not landed.
LandingsAudited ==
  /\ touchedDown = landingEvents \cup unsaved \cup unreported \cup InHand
                     \cup {u \in Id : Sent(Message("landed", u))}
  /\ landingEvents \cap (unsaved \cup unreported \cup InHand) = {}
=============================================================================
