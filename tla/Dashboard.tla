------------------------------ MODULE Dashboard ------------------------------
(***************************************************************************)
(* The dashboard (useUamData, App and the components that act) on its      *)
(* socket.io connection to EventsGateway, with the operator who locks the  *)
(* queue and opens and confirms approval dialogs.                          *)
(*                                                                         *)
(* A list of vehicles is a set here: what is in it and how it is ordered   *)
(* is in QueueStream.  A click is rendered at once, so that the handlers   *)
(* and effects after it see its state; a socket event is rendered later,   *)
(* and until then the handlers have the uams of the last render.           *)
(***************************************************************************)
EXTENDS Naturals, SequencesExt

CONSTANTS
  Uam, NoUam,
  MaxDown,        \* bound: events on their way to the dashboard
  MaxUp,          \* bound: approvals on their way to the gateway
  MaxResets,      \* bound: resets
  MaxDisconnects  \* bound: lost connections

ASSUME DashboardAssumption ==
  /\ NoUam \notin Uam
  /\ {MaxDown, MaxUp} \subseteq Nat \ {0}
  /\ {MaxResets, MaxDisconnects} \subseteq Nat

VARIABLES
  \* The gateway.
  landedUams, landedUamIds,
  registering,   \* registrations between their first and their last step
  reset,         \* where triggerAutoReset is
  overtaken,     \* history: the last landed:update is older than landedUams
  \* The connection.
  connected, down, up,
  \* useUamData.
  uams, rendered, displayedUams, landedShown,
  isQueueLocked,
  isResetting, overlayTimers,
  raced,         \* history: the last unlock showed uams that were out of date
  \* App.
  pendingApproval,
  resets, disconnects

gateway == <<landedUams, landedUamIds, registering, reset, overtaken>>
queue   == <<uams, rendered, displayedUams, isQueueLocked, raced>>
overlay == <<isResetting, overlayTimers>>
counts  == <<resets, disconnects>>
vars == <<gateway, connected, down, up, queue, landedShown, overlay, pendingApproval, counts>>

Init ==
  /\ landedUams = <<>> /\ landedUamIds = {} /\ registering = <<>>
  /\ reset = "none" /\ overtaken = FALSE
  /\ connected = FALSE /\ down = <<>> /\ up = <<>>
  /\ uams = {} /\ rendered = {} /\ displayedUams = {} /\ landedShown = <<>>
  /\ isQueueLocked = FALSE /\ raced = FALSE
  /\ isResetting = FALSE /\ overlayTimers = 0
  /\ pendingApproval = NoUam
  /\ resets = 0 /\ disconnects = 0

-----------------------------------------------------------------------------
(* The gateway *)

LandedUpdate(log) == [event |-> "landed:update", log |-> log]
UamUpdate(list)   == [event |-> "uam:update", list |-> list]
Resetting         == [event |-> "simulation:resetting"]

\* server.emit reaches the clients that are connected.
Emit(events) == down' = IF connected THEN down \o events ELSE down
Room(n) == Len(down) + n <= MaxDown

\* Continuations of awaits run between the two last steps of a reset, and nothing
\* else does.
Turn == reset # "cleared"

\* Mutant: a connection is greeted with the next landing.
HandleConnectionSilent == connected' = TRUE /\ UNCHANGED down

HandleConnection == connected' = TRUE /\ down' = <<LandedUpdate(landedUams)>>

Connect ==
  /\ Turn /\ ~connected
  /\ HandleConnection
  /\ UNCHANGED <<gateway, up, queue, landedShown, overlay, pendingApproval, counts>>

\* What was on its way down is lost; of what was on its way up a part arrives.
Disconnect ==
  /\ Turn /\ connected
  /\ disconnects < MaxDisconnects /\ disconnects' = disconnects + 1
  /\ connected' = FALSE /\ down' = <<>>
  /\ \E n \in 0 .. Len(up) : up' = SubSeq(up, 1, n)
  /\ UNCHANGED <<gateway, queue, landedShown, overlay, pendingApproval, resets>>

\* The 1 s poll, with whatever Redis has.
Poll ==
  /\ Turn /\ Room(1)
  /\ \E list \in SUBSET Uam : Emit(<<UamUpdate(list)>>)
  /\ UNCHANGED <<gateway, connected, up, queue, landedShown, overlay, pendingApproval, counts>>

\* Mutant: nobody asks whether the vehicle has landed.
StartRegisteringAgain(u) ==
  /\ landedUamIds' = landedUamIds \cup {u}
  /\ registering' = IF Len(registering) < 2 THEN Append(registering, u) ELSE registering

\* registerLanded up to its awaits.
StartRegistering(u) ==
  \/ u \in landedUamIds /\ UNCHANGED <<landedUamIds, registering>>
  \/ /\ u \notin landedUamIds
     /\ landedUamIds' = landedUamIds \cup {u}
     /\ registering' = Append(registering, u)

HandleUamLanded(u) ==
  /\ Turn
  /\ StartRegistering(u)
  /\ UNCHANGED <<landedUams, reset, overtaken, connected, down, up, queue, landedShown,
                 overlay, pendingApproval, counts>>

\* handleLandingApprove.  Its command and its awaits are in Scheduler; here an
\* approval that awaits Redis is still on its way.
HandleLandingApprove ==
  /\ connected
  /\ up # <<>> /\ up' = Tail(up)
  /\ StartRegistering(Head(up))
  /\ UNCHANGED <<landedUams, reset, overtaken, connected, down, queue, landedShown,
                 overlay, pendingApproval, counts>>

\* registerLanded after its awaits.
Registered ==
  /\ Room(1)
  /\ registering # <<>> /\ registering' = Tail(registering)
  /\ landedUams' = <<Head(registering)>> \o landedUams
  /\ Emit(<<LandedUpdate(landedUams')>>)
  /\ overtaken' = (reset = "cleared")
  /\ UNCHANGED <<landedUamIds, reset, connected, up, queue, landedShown, overlay,
                 pendingApproval, counts>>

ResetBegins ==
  /\ reset = "none" /\ Room(1)
  /\ resets < MaxResets /\ resets' = resets + 1
  /\ reset' = "begun"
  /\ Emit(<<Resetting>>)
  /\ UNCHANGED <<landedUams, landedUamIds, registering, overtaken, connected, up, queue,
                 landedShown, overlay, pendingApproval, disconnects>>

\* Steps 2 and 3, up to the await of sendResetCommand.
ResetClears ==
  /\ reset = "begun" /\ reset' = "cleared"
  /\ landedUams' = <<>> /\ landedUamIds' = {}
  /\ UNCHANGED <<registering, overtaken, connected, down, up, queue, landedShown, overlay,
                 pendingApproval, counts>>

\* Step 4: literal empty lists, whatever was registered during the await.
ResetBroadcasts ==
  /\ reset = "cleared" /\ Room(2)
  /\ reset' = "none"
  /\ Emit(<<LandedUpdate(<<>>), UamUpdate({})>>)
  /\ UNCHANGED <<landedUams, landedUamIds, registering, overtaken, connected, up, queue,
                 landedShown, overlay, pendingApproval, counts>>

-----------------------------------------------------------------------------
(* The dashboard's socket handlers *)

\* The handler reads the lock through a ref.
OnUamUpdate(list) ==
  /\ uams' = list
  /\ displayedUams' = IF isQueueLocked THEN displayedUams ELSE list
  /\ raced' = FALSE
  /\ UNCHANGED <<rendered, isQueueLocked, landedShown, overlay>>

OnLandedUpdate(log) ==
  /\ landedShown' = log
  /\ UNCHANGED <<queue, overlay>>

\* Mutant: the overlay waits for the lists of the new simulation.
OnResettingUntimed ==
  /\ isResetting' = TRUE
  /\ UNCHANGED <<queue, landedShown, overlayTimers>>

\* A timer per event; none is ever cleared.
OnResetting ==
  /\ isResetting' = TRUE
  /\ overlayTimers' = overlayTimers + 1
  /\ UNCHANGED <<queue, landedShown>>

Deliver ==
  /\ down # <<>> /\ down' = Tail(down)
  /\ LET e == Head(down)
     IN \/ e.event = "uam:update" /\ OnUamUpdate(e.list)
        \/ e.event = "landed:update" /\ OnLandedUpdate(e.log)
        \/ e.event = "simulation:resetting" /\ OnResetting
  /\ UNCHANGED <<gateway, connected, up, pendingApproval, counts>>

Render ==
  /\ rendered # uams /\ rendered' = uams
  /\ UNCHANGED <<gateway, connected, down, up, uams, displayedUams, isQueueLocked, raced,
                 landedShown, overlay, pendingApproval, counts>>

OverlayTimer ==
  /\ overlayTimers > 0 /\ overlayTimers' = overlayTimers - 1
  /\ isResetting' = FALSE
  /\ UNCHANGED <<gateway, connected, down, up, queue, landedShown, pendingApproval, counts>>

-----------------------------------------------------------------------------
(* The operator.  Dialog and overlay catch the pointer and not the         *)
(* keyboard: all of this may happen while they are shown.                  *)

Lock ==
  /\ ~isQueueLocked /\ isQueueLocked' = TRUE
  /\ raced' = FALSE
  /\ UNCHANGED <<gateway, connected, down, up, uams, rendered, displayedUams, landedShown,
                 overlay, pendingApproval, counts>>

\* Mutant: the list is left to the next uam:update.
UnlockOnly ==
  /\ isQueueLocked /\ isQueueLocked' = FALSE
  /\ raced' = (rendered # uams)
  /\ UNCHANGED <<gateway, connected, down, up, uams, rendered, displayedUams, landedShown,
                 overlay, pendingApproval, counts>>

\* handleToggleLock(false) shows the uams of the render it belongs to.
Unlock ==
  /\ isQueueLocked /\ isQueueLocked' = FALSE
  /\ displayedUams' = rendered
  /\ raced' = (rendered # uams)
  /\ UNCHANGED <<gateway, connected, down, up, uams, rendered, landedShown, overlay,
                 pendingApproval, counts>>

\* The dialog keeps a copy of the card it was opened from.
HandleApproveClick(u) ==
  /\ u \in displayedUams
  /\ pendingApproval' = u
  /\ UNCHANGED <<gateway, connected, down, up, queue, landedShown, overlay, counts>>

HandleCancelApproval ==
  /\ pendingApproval # NoUam /\ pendingApproval' = NoUam
  /\ UNCHANGED <<gateway, connected, down, up, queue, landedShown, overlay, counts>>

\* Without a connection socket.io keeps the approval and sends it later.
HandleConfirmApproval ==
  /\ pendingApproval # NoUam /\ pendingApproval' = NoUam
  /\ Len(up) < MaxUp /\ up' = Append(up, pendingApproval)
  /\ UNCHANGED <<gateway, connected, down, queue, landedShown, overlay, counts>>

-----------------------------------------------------------------------------

Next ==
  \/ Connect \/ Disconnect \/ Poll
  \/ HandleLandingApprove \/ Registered
  \/ ResetBegins \/ ResetClears \/ ResetBroadcasts
  \/ Deliver \/ Render \/ OverlayTimer
  \/ Lock \/ Unlock \/ HandleCancelApproval \/ HandleConfirmApproval
  \/ \E u \in Uam : HandleUamLanded(u) \/ HandleApproveClick(u)

\* The socket reconnects for ever, timers fire, the event loops run and Redis
\* answers.  The operator owes nothing.
Fairness ==
  /\ WF_vars(Connect) /\ WF_vars(Poll) /\ WF_vars(Deliver)
  /\ WF_vars(Registered) /\ WF_vars(ResetClears) /\ WF_vars(ResetBroadcasts)
  /\ WF_vars(OverlayTimer)

Spec == Init /\ [][Next]_vars /\ Fairness
-----------------------------------------------------------------------------
(* Properties *)

\* Types; an overlay that is shown has a timer that will hide it.
TypeOK ==
  /\ landedUams \in Seq(Uam) /\ landedUamIds \subseteq Uam /\ registering \in Seq(Uam)
  /\ reset \in {"none", "begun", "cleared"}
  /\ {connected, isQueueLocked, isResetting, overtaken, raced} \subseteq BOOLEAN
  /\ Len(down) <= MaxDown /\ up \in Seq(Uam) /\ Len(up) <= MaxUp
  /\ {uams, rendered, displayedUams} \subseteq SUBSET Uam
  /\ landedShown \in Seq(Uam)
  /\ pendingApproval \in Uam \cup {NoUam}
  /\ overlayTimers \in Nat /\ (isResetting => overlayTimers > 0)

\* A dashboard that is connected and has nothing to come shows the gateway's
\* landed list, after a reconnection and after a reset as well.  (The exception
\* is a landing that was listed while the reset awaited sendResetCommand: the
\* empty list that follows hides it until the next landing.)
LandedShownIsCurrent ==
  connected /\ down = <<>> /\ reset # "cleared" /\ ~overtaken => landedShown = landedUams

\* Dialogs that were opened before a vehicle landed, approvals that waited for a
\* connection and the simulator's notice never list a vehicle twice.  (A reset
\* that overtakes a registration breaks this.)
StaleApprovalsListNothingTwice == resets = 0 => IsInjective(landedUams)

\* Without the lock the last list that arrived is shown, also right after it is
\* opened.  (The exception is a list that arrived and was not yet rendered.)
UnlockedIsCurrent == ~isQueueLocked /\ ~raced => displayedUams = uams

\* The overlay of a reset, which covers the dashboard, goes again.
OverlayEnds == isResetting ~> ~isResetting
=============================================================================
