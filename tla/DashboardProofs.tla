--------------------------- MODULE DashboardProofs ---------------------------
(***************************************************************************)
(* Proofs about Dashboard, for every set of vehicles and any number of     *)
(* events, approvals, resets and lost connections.                         *)
(*                                                                         *)
(* The landed list that a client shows is argued from the last             *)
(* landed:update on its way (Current), and that nothing is listed twice    *)
(* from the registrations and the records together (Disjoint).  Last come  *)
(* the order of the lists it is sent, by the scheduler's score, and what   *)
(* its panels make of them, for every status a packet can carry.           *)
(***************************************************************************)
EXTENDS Dashboard, Display, SequenceTheorems, TLAPS

Event ==
  {LandedUpdate(log) : log \in Seq(Uam)} \cup {UamUpdate(list) : list \in SUBSET Uam}
    \cup {Resetting}

IsLog(e) == e.event = "landed:update"

\* The last landed:update that a client with the events d to come, and the list s on
\* show, will see is the gateway's list l.
LastLog(d, s, l) ==
  \/ \E i \in DOMAIN d : /\ IsLog(d[i]) /\ d[i].log = l
                         /\ \A j \in DOMAIN d : j > i => ~IsLog(d[j])
  \/ s = l /\ \A j \in DOMAIN d : ~IsLog(d[j])

Current ==
  ~overtaken => IF reset = "cleared" THEN landedUams = <<>>
                ELSE connected => LastLog(down, landedShown, landedUams)

\* Until a reset, the registrations in flight and the landed list name different
\* vehicles, all of them blocked.
Disjoint ==
  resets = 0 =>
    /\ reset = "none"
    /\ IsInjective(landedUams) /\ IsInjective(registering)
    /\ \A i \in DOMAIN landedUams : landedUams[i] \in landedUamIds
    /\ \A i \in DOMAIN registering : registering[i] \in landedUamIds
    /\ \A i \in DOMAIN landedUams, j \in DOMAIN registering : landedUams[i] # registering[j]

Typed == TypeOK /\ down \in Seq(Event) /\ resets \in Nat

DashboardInv == Typed /\ Current /\ Disjoint /\ UnlockedIsCurrent

-----------------------------------------------------------------------------
(* Sequences of events *)

LEMMA EventFacts ==
  /\ \A log \in Seq(Uam) : /\ LandedUpdate(log) \in Event /\ IsLog(LandedUpdate(log))
                           /\ LandedUpdate(log).log = log
  /\ \A list \in SUBSET Uam : UamUpdate(list) \in Event /\ ~IsLog(UamUpdate(list))
  /\ Resetting \in Event /\ ~IsLog(Resetting)
BY DEF Event, IsLog, LandedUpdate, UamUpdate, Resetting

LEMMA HeadKinds ==
  ASSUME NEW e \in Event
  PROVE  /\ e.event = "uam:update" => e.list \in SUBSET Uam /\ ~IsLog(e)
         /\ e.event = "landed:update" => e.log \in Seq(Uam) /\ IsLog(e)
         /\ e.event = "simulation:resetting" => ~IsLog(e)
BY DEF Event, IsLog, LandedUpdate, UamUpdate, Resetting

\* The list is unchanged by an event that is no landed:update, and is the one of a
\* landed:update that is sent.
LEMMA SentLast ==
  ASSUME NEW d \in Seq(Event), NEW e \in Event, NEW s, NEW l
  PROVE  /\ ~IsLog(e) /\ LastLog(d, s, l) => LastLog(d \o <<e>>, s, l)
         /\ IsLog(e) => LastLog(d \o <<e>>, s, e.log)
<1> DEFINE r == d \o <<e>>
<1>1. PICK n \in Nat : n = Len(d)
  OBVIOUS
<1>2. /\ DOMAIN r = 1 .. (n + 1) /\ DOMAIN d = 1 .. n /\ r[n + 1] = e
      /\ \A i \in 1 .. n : r[i] = d[i]
  BY <1>1
<1> HIDE DEF r
<1>3. ASSUME ~IsLog(e), LastLog(d, s, l) PROVE LastLog(r, s, l)
  BY <1>2, <1>3 DEF LastLog
<1>4. ASSUME IsLog(e) PROVE LastLog(r, s, e.log)
  BY <1>2, <1>4 DEF LastLog
<1>5. QED
  BY <1>3, <1>4 DEF r

\* What a client will see does not change when the first event is handled.
LEMMA HandledFirst ==
  ASSUME NEW d \in Seq(Event), d # <<>>, NEW s, NEW l, LastLog(d, s, l), NEW t,
         t = IF IsLog(Head(d)) THEN Head(d).log ELSE s
  PROVE  LastLog(Tail(d), t, l)
<1> DEFINE r == Tail(d)
<1>1. PICK n \in Nat : n = Len(d) /\ n > 0
  OBVIOUS
<1>2. /\ DOMAIN r = 1 .. (n - 1) /\ DOMAIN d = 1 .. n /\ Head(d) = d[1]
      /\ \A i \in 1 .. (n - 1) : r[i] = d[i + 1]
  BY <1>1
<1> HIDE DEF r
<1>3. CASE \E i \in DOMAIN d : /\ IsLog(d[i]) /\ d[i].log = l
                               /\ \A j \in DOMAIN d : j > i => ~IsLog(d[j])
  <2>1. PICK i \in DOMAIN d : /\ IsLog(d[i]) /\ d[i].log = l
                              /\ \A j \in DOMAIN d : j > i => ~IsLog(d[j])
    BY <1>3
  <2>2. CASE i = 1
    <3>1. t = l
      BY <1>2, <2>1, <2>2
    <3>2. \A j \in DOMAIN r : ~IsLog(r[j])
      BY <1>2, <2>1, <2>2
    <3>3. QED
      BY <3>1, <3>2 DEF LastLog, r
  <2>3. CASE i # 1
    <3>1. i - 1 \in DOMAIN r /\ r[i - 1] = d[i]
      BY <1>2, <2>1, <2>3
    <3>2. \A j \in DOMAIN r : j > i - 1 => ~IsLog(r[j])
      BY <1>2, <2>1, <2>3
    <3>3. QED
      BY <2>1, <3>1, <3>2 DEF LastLog, r
  <2>4. QED
    BY <2>2, <2>3
<1>4. CASE s = l /\ \A j \in DOMAIN d : ~IsLog(d[j])
  <2>1. t = l /\ \A j \in DOMAIN r : ~IsLog(r[j])
    BY <1>1, <1>2, <1>4
  <2>2. QED
    BY <2>1 DEF LastLog, r
<1>5. QED
  BY <1>3, <1>4 DEF LastLog

LEMMA TwoEvents ==
  ASSUME NEW d \in Event, NEW e \in Event
  PROVE  <<d>> \o <<e>> = <<d, e>>
<1>1. <<d>> \in Seq(Event) /\ <<e>> \in Seq(Event) /\ <<d, e>> \in Seq(Event)
  OBVIOUS
<1>2. <<d>> \o <<e>> \in Seq(Event) /\ Len(<<d>> \o <<e>>) = 2 /\ Len(<<d, e>>) = 2
  BY <1>1
<1>3. (<<d>> \o <<e>>)[1] = d /\ (<<d>> \o <<e>>)[2] = e
  BY <1>1
<1>4. \A i \in 1 .. 2 : (<<d>> \o <<e>>)[i] = <<d, e>>[i]
  BY <1>3
<1>5. QED
  BY <1>1, <1>2, <1>4, SeqEqual

-----------------------------------------------------------------------------
(* Types *)

LEMMA InitDashboard == Init => DashboardInv
<1> SUFFICES ASSUME Init PROVE DashboardInv
  OBVIOUS
<1> USE DashboardAssumption
<1>1. <<>> \in Seq(Uam) /\ <<>> \in Seq(Event)
  OBVIOUS
<1>2. Typed
  <2>1. Len(down) = 0 /\ Len(up) = 0
    BY DEF Init
  <2>2. Init /\ down \in Seq(Event) /\ resets \in Nat /\ 0 <= MaxDown /\ 0 <= MaxUp
    BY <1>1 DEF Init
  <2>3. isResetting = FALSE /\ overlayTimers \in Nat
    BY DEF Init
  <2>4. TypeOK
    BY <1>1, <2>1, <2>2, <2>3 DEF Init, TypeOK
  <2>5. QED
    BY <2>2, <2>4 DEF Typed
<1>3. Current /\ Disjoint /\ UnlockedIsCurrent
  BY DEF Init, Current, LastLog, Disjoint, IsInjective, UnlockedIsCurrent
<1>4. QED
  BY <1>2, <1>3 DEF DashboardInv

DownOK(d) == d \in Seq(Event) /\ Len(d) <= MaxDown

LEMMA EmitOK ==
  ASSUME DownOK(down), NEW events \in Seq(Event), Len(down) + Len(events) <= MaxDown,
         connected \in BOOLEAN, Emit(events)
  PROVE  DownOK(down')
BY DashboardAssumption DEF DownOK, Emit

LEMMA StartRegisteringOK ==
  ASSUME landedUamIds \subseteq Uam, registering \in Seq(Uam), NEW u \in Uam, StartRegistering(u)
  PROVE  landedUamIds' \subseteq Uam /\ registering' \in Seq(Uam)
BY DEF StartRegistering

\* What TypeOK says of each part.
GatewayOK ==
  /\ landedUams \in Seq(Uam) /\ landedUamIds \subseteq Uam /\ registering \in Seq(Uam)
  /\ reset \in {"none", "begun", "cleared"} /\ overtaken \in BOOLEAN
QueueOK ==
  /\ isQueueLocked \in BOOLEAN /\ raced \in BOOLEAN
  /\ uams \subseteq Uam /\ rendered \subseteq Uam /\ displayedUams \subseteq Uam
UpOK == connected \in BOOLEAN /\ up \in Seq(Uam) /\ Len(up) <= MaxUp
OverlayOK ==
  isResetting \in BOOLEAN /\ overlayTimers \in Nat /\ (isResetting => overlayTimers > 0)
RestOK ==
  /\ landedShown \in Seq(Uam) /\ pendingApproval \in Uam \cup {NoUam}
  /\ resets \in Nat

LEMMA TypedParts ==
  Typed <=> GatewayOK /\ QueueOK /\ UpOK /\ OverlayOK /\ RestOK /\ DownOK(down)
BY DEF Typed, TypeOK, GatewayOK, QueueOK, UpOK, OverlayOK, RestOK, DownOK

LEMMA TypedStep == Typed /\ [Next]_vars => Typed'
<1> SUFFICES ASSUME Typed, [Next]_vars PROVE Typed'
  OBVIOUS
<1> USE DashboardAssumption
<1>0. GatewayOK /\ QueueOK /\ UpOK /\ OverlayOK /\ RestOK /\ DownOK(down)
  BY TypedParts
<1>p. ASSUME GatewayOK', QueueOK', UpOK', OverlayOK', RestOK', DownOK(down)' PROVE Typed'
  <2>1. TypeOK'
    BY <1>p DEF TypeOK, GatewayOK, QueueOK, UpOK, OverlayOK, RestOK, DownOK
  <2>2. QED
    BY <1>p, <2>1 DEF Typed, DownOK, RestOK
<1> USE DEF gateway, queue, overlay, counts
<1>1. CASE Connect
  <2>1. /\ UNCHANGED <<gateway, up, queue, landedShown, overlay, pendingApproval, counts>>
        /\ connected' = TRUE /\ down' = <<LandedUpdate(landedUams)>>
    BY <1>1 DEF Connect, HandleConnection
  <2>2. LandedUpdate(landedUams) \in Event
    BY <1>0, EventFacts DEF GatewayOK
  <2>3. DownOK(down')
    BY <2>1, <2>2 DEF DownOK
  <2>4. QED
    BY <1>0, <2>1, <2>3, <1>p DEF GatewayOK, QueueOK, UpOK, OverlayOK, RestOK
<1>2. CASE Disconnect
  <2>1. /\ connected' = FALSE /\ down' = <<>>
        /\ UNCHANGED <<gateway, queue, landedShown, overlay, pendingApproval, resets>>
    BY <1>2 DEF Disconnect
  <2>2. PICK n \in 0 .. Len(up) : up' = SubSeq(up, 1, n)
    BY <1>2 DEF Disconnect
  <2>3. UpOK'
    <3>1. up \in Seq(Uam) /\ Len(up) \in Nat /\ Len(up) <= MaxUp /\ n \in 0 .. Len(up)
      BY <1>0 DEF UpOK
    <3>2. SubSeq(up, 1, n) \in Seq(Uam) /\ Len(SubSeq(up, 1, n)) <= Len(up)
      <4>1. /\ \A i \in 1 .. Len(up) : up[i] \in Uam
            /\ SubSeq(up, 1, n) = [i \in 1 .. n |-> up[i]]
        BY <3>1
      <4>2. \A i \in 1 .. n : i \in 1 .. Len(up)
        BY <3>1
      <4>3. [i \in 1 .. n |-> up[i]] \in [1 .. n -> Uam] /\ n \in Nat
        BY <3>1, <4>1, <4>2
      <4>4. SubSeq(up, 1, n) \in Seq(Uam) /\ Len(SubSeq(up, 1, n)) = n
        BY <4>1, <4>3
      <4>5. QED
        BY <3>1, <4>4
    <3>3. up' \in Seq(Uam) /\ Len(up') <= Len(up) /\ Len(up') \in Nat /\ connected' = FALSE
      BY <2>1, <2>2, <3>2
    <3>4. Len(up') <= MaxUp
      BY <3>1, <3>3
    <3>5. QED
      BY <3>3, <3>4 DEF UpOK
  <2>4. DownOK(down')
    BY <2>1 DEF DownOK
  <2>5. QED
    BY <1>0, <2>1, <2>3, <2>4, <1>p DEF GatewayOK, QueueOK, OverlayOK, RestOK
<1>3. CASE Poll
  <2>1. PICK list \in SUBSET Uam : Emit(<<UamUpdate(list)>>)
    BY <1>3 DEF Poll
  <2>2. /\ Room(1)
        /\ UNCHANGED <<gateway, connected, up, queue, landedShown, overlay, pendingApproval, counts>>
    BY <1>3 DEF Poll
  <2>3. <<UamUpdate(list)>> \in Seq(Event) /\ Len(<<UamUpdate(list)>>) = 1
    BY EventFacts
  <2>4. DownOK(down')
    BY <1>0, <2>1, <2>2, <2>3, EmitOK DEF Room, UpOK
  <2>5. QED
    BY <1>0, <2>2, <2>4, <1>p DEF GatewayOK, QueueOK, UpOK, OverlayOK, RestOK
<1>4. ASSUME NEW u \in Uam, HandleUamLanded(u) PROVE Typed'
  <2>1. /\ StartRegistering(u)
        /\ UNCHANGED <<landedUams, reset, overtaken, connected, down, up, queue, landedShown,
                       overlay, pendingApproval, counts>>
    BY <1>4 DEF HandleUamLanded
  <2>2. landedUamIds' \subseteq Uam /\ registering' \in Seq(Uam)
    BY <1>0, <2>1, StartRegisteringOK DEF GatewayOK
  <2>3. QED
    BY <1>0, <2>1, <2>2, <1>p DEF GatewayOK, QueueOK, UpOK, OverlayOK, RestOK, DownOK
<1>5. CASE HandleLandingApprove
  <2>1. /\ up # <<>> /\ up' = Tail(up) /\ StartRegistering(Head(up))
        /\ UNCHANGED <<landedUams, reset, overtaken, connected, down, queue, landedShown,
                       overlay, pendingApproval, counts>>
    BY <1>5 DEF HandleLandingApprove
  <2>2. Head(up) \in Uam /\ UpOK'
    BY <1>0, <2>1 DEF UpOK
  <2>3. landedUamIds' \subseteq Uam /\ registering' \in Seq(Uam)
    BY <1>0, <2>1, <2>2, StartRegisteringOK DEF GatewayOK
  <2>4. QED
    BY <1>0, <2>1, <2>2, <2>3, <1>p DEF GatewayOK, QueueOK, OverlayOK, RestOK, DownOK
<1>6. CASE Registered
  <2>1. /\ Room(1) /\ registering # <<>> /\ registering' = Tail(registering)
        /\ landedUams' = <<Head(registering)>> \o landedUams
        /\ Emit(<<LandedUpdate(landedUams')>>)
        /\ overtaken' = (reset = "cleared")
        /\ UNCHANGED <<landedUamIds, reset, connected, up, queue, landedShown, overlay,
                       pendingApproval, counts>>
    BY <1>6 DEF Registered
  <2>2. Head(registering) \in Uam /\ registering' \in Seq(Uam) /\ landedUams' \in Seq(Uam)
    BY <1>0, <2>1 DEF GatewayOK
  <2>3. <<LandedUpdate(landedUams')>> \in Seq(Event) /\ Len(<<LandedUpdate(landedUams')>>) = 1
    BY <2>2, EventFacts
  <2>4. DownOK(down')
    BY <1>0, <2>1, <2>3, EmitOK DEF Room, UpOK
  <2>5. QED
    BY <1>0, <2>1, <2>2, <2>4, <1>p DEF GatewayOK, QueueOK, UpOK, OverlayOK, RestOK
<1>7. CASE ResetBegins
  <2>1. /\ Room(1) /\ resets' = resets + 1 /\ reset' = "begun" /\ Emit(<<Resetting>>)
        /\ UNCHANGED <<landedUams, landedUamIds, registering, overtaken, connected, up, queue,
                       landedShown, overlay, pendingApproval, disconnects>>
    BY <1>7 DEF ResetBegins
  <2>2. <<Resetting>> \in Seq(Event) /\ Len(<<Resetting>>) = 1
    BY EventFacts
  <2>3. DownOK(down')
    BY <1>0, <2>1, <2>2, EmitOK DEF Room, UpOK
  <2>4. QED
    BY <1>0, <2>1, <2>3, <1>p DEF GatewayOK, QueueOK, UpOK, OverlayOK, RestOK
<1>8. CASE ResetClears
  BY <1>0, <1>8, <1>p DEF ResetClears, GatewayOK, QueueOK, UpOK, OverlayOK, RestOK, DownOK
<1>9. CASE ResetBroadcasts
  <2>1. /\ Room(2) /\ reset' = "none" /\ Emit(<<LandedUpdate(<<>>), UamUpdate({})>>)
        /\ UNCHANGED <<landedUams, landedUamIds, registering, overtaken, connected, up, queue,
                       landedShown, overlay, pendingApproval, counts>>
    BY <1>9 DEF ResetBroadcasts
  <2>2. LandedUpdate(<<>>) \in Event /\ UamUpdate({}) \in Event
    <3>1. <<>> \in Seq(Uam) /\ {} \in SUBSET Uam
      OBVIOUS
    <3>2. QED
      BY <3>1, EventFacts
  <2>3. /\ <<LandedUpdate(<<>>), UamUpdate({})>> \in Seq(Event)
        /\ Len(<<LandedUpdate(<<>>), UamUpdate({})>>) = 2
    BY <2>2
  <2>4. DownOK(down')
    BY <1>0, <2>1, <2>3, EmitOK DEF Room, UpOK
  <2>5. QED
    BY <1>0, <2>1, <2>4, <1>p DEF GatewayOK, QueueOK, UpOK, OverlayOK, RestOK
<1>10. CASE Deliver
  <2>1. /\ down # <<>> /\ down' = Tail(down)
        /\ UNCHANGED <<gateway, connected, up, pendingApproval, counts>>
    BY <1>10 DEF Deliver
  <2>2. Head(down) \in Event /\ DownOK(down')
    BY <1>0, <2>1 DEF DownOK
  <2>3. QueueOK' /\ OverlayOK' /\ landedShown' \in Seq(Uam)
    <3>1. CASE Head(down).event = "uam:update" /\ OnUamUpdate(Head(down).list)
      BY <1>0, <2>2, <3>1, HeadKinds DEF OnUamUpdate, QueueOK, OverlayOK, RestOK
    <3>2. CASE Head(down).event = "landed:update" /\ OnLandedUpdate(Head(down).log)
      BY <1>0, <2>2, <3>2, HeadKinds DEF OnLandedUpdate, QueueOK, OverlayOK
    <3>3. CASE Head(down).event = "simulation:resetting" /\ OnResetting
      BY <1>0, <3>3 DEF OnResetting, QueueOK, OverlayOK, RestOK
    <3>4. QED
      BY <1>10, <3>1, <3>2, <3>3 DEF Deliver
  <2>4. QED
    BY <1>0, <2>1, <2>2, <2>3, <1>p DEF GatewayOK, UpOK, RestOK
<1>11. CASE Render
  BY <1>0, <1>11, <1>p DEF Render, GatewayOK, QueueOK, UpOK, OverlayOK, RestOK, DownOK
<1>12. CASE OverlayTimer
  <2>1. isResetting' = FALSE /\ overlayTimers' \in Nat
    BY <1>0, <1>12 DEF OverlayTimer, OverlayOK
  <2>2. OverlayOK'
    BY <2>1 DEF OverlayOK
  <2>3. QED
    BY <1>0, <1>12, <2>2, <1>p DEF OverlayTimer, GatewayOK, QueueOK, UpOK, RestOK, DownOK
<1>13. CASE Lock
  BY <1>0, <1>13, <1>p DEF Lock, GatewayOK, QueueOK, UpOK, OverlayOK, RestOK, DownOK
<1>14. CASE Unlock
  BY <1>0, <1>14, <1>p DEF Unlock, GatewayOK, QueueOK, UpOK, OverlayOK, RestOK, DownOK
<1>15. ASSUME NEW u \in Uam, HandleApproveClick(u) PROVE Typed'
  BY <1>0, <1>15, <1>p DEF HandleApproveClick, GatewayOK, QueueOK, UpOK, OverlayOK, RestOK, DownOK
<1>16. CASE HandleCancelApproval
  BY <1>0, <1>16, <1>p DEF HandleCancelApproval, GatewayOK, QueueOK, UpOK, OverlayOK, RestOK, DownOK
<1>17. CASE HandleConfirmApproval
  <2>1. pendingApproval \in Uam /\ up' \in Seq(Uam) /\ Len(up') <= MaxUp
    BY <1>0, <1>17 DEF HandleConfirmApproval, RestOK, UpOK
  <2>2. QED
    BY <1>0, <1>17, <2>1, <1>p
       DEF HandleConfirmApproval, GatewayOK, QueueOK, UpOK, OverlayOK, RestOK, DownOK
<1>18. CASE UNCHANGED vars
  BY <1>0, <1>18, <1>p DEF vars, GatewayOK, QueueOK, UpOK, OverlayOK, RestOK, DownOK
<1>19. QED
  BY <1>1, <1>2, <1>3, <1>4, <1>5, <1>6, <1>7, <1>8, <1>9, <1>10, <1>11, <1>12, <1>13, <1>14,
     <1>15, <1>16, <1>17, <1>18 DEF Next

-----------------------------------------------------------------------------
(* The landed list that is shown *)

LEMMA CurrentStep == Typed /\ Current /\ [Next]_vars /\ Typed' => Current'
<1> SUFFICES ASSUME Typed, Current, [Next]_vars, Typed' PROVE Current'
  OBVIOUS
<1>0. /\ down \in Seq(Event) /\ landedUams \in Seq(Uam) /\ landedUams' \in Seq(Uam)
      /\ connected \in BOOLEAN /\ overtaken \in BOOLEAN
  BY TypedParts DEF Typed, GatewayOK, UpOK, TypeOK
<1>same. ASSUME UNCHANGED <<landedUams, reset, overtaken, connected, down, landedShown>>
         PROVE  Current'
  BY <1>same DEF Current
<1> USE DEF gateway, queue, overlay, counts
<1>1. CASE Connect
  <2>1. /\ UNCHANGED <<landedUams, reset, overtaken, landedShown>>
        /\ down' = <<LandedUpdate(landedUams)>> /\ reset # "cleared"
    BY <1>1 DEF Connect, HandleConnection, Turn
  <2>2. LastLog(<<LandedUpdate(landedUams)>>, landedShown, landedUams)
    BY <1>0, EventFacts DEF LastLog
  <2>3. QED
    BY <2>1, <2>2 DEF Current
<1>2. CASE Disconnect
  BY <1>2 DEF Disconnect, Turn, Current
<1>3. CASE Poll
  <2>1. PICK list \in SUBSET Uam : Emit(<<UamUpdate(list)>>)
    BY <1>3 DEF Poll
  <2>2. UNCHANGED <<landedUams, reset, overtaken, connected, landedShown>> /\ reset # "cleared"
    BY <1>3 DEF Poll, Turn
  <2>3. LastLog(down, landedShown, landedUams) =>
          LastLog(down \o <<UamUpdate(list)>>, landedShown, landedUams)
    BY <1>0, EventFacts, SentLast
  <2>4. QED
    BY <2>1, <2>2, <2>3 DEF Current, Emit
<1>4. ASSUME NEW u \in Uam, HandleUamLanded(u) PROVE Current'
  BY <1>4, <1>same DEF HandleUamLanded
<1>5. CASE HandleLandingApprove
  BY <1>5, <1>same DEF HandleLandingApprove
<1>6. CASE Registered
  <2>1. /\ Emit(<<LandedUpdate(landedUams')>>) /\ overtaken' = (reset = "cleared")
        /\ UNCHANGED <<reset, connected, landedShown>>
    BY <1>6 DEF Registered
  <2>2. LastLog(down \o <<LandedUpdate(landedUams')>>, landedShown, landedUams')
    <3>1. /\ LandedUpdate(landedUams') \in Event /\ IsLog(LandedUpdate(landedUams'))
          /\ LandedUpdate(landedUams').log = landedUams'
      BY <1>0, EventFacts
    <3>2. QED
      BY <1>0, <3>1, SentLast
  <2>3. QED
    BY <2>1, <2>2 DEF Current, Emit
<1>7. CASE ResetBegins
  <2>1. /\ reset = "none" /\ reset' = "begun" /\ Emit(<<Resetting>>)
        /\ UNCHANGED <<landedUams, overtaken, connected, landedShown>>
    BY <1>7 DEF ResetBegins
  <2>2. LastLog(down, landedShown, landedUams) =>
          LastLog(down \o <<Resetting>>, landedShown, landedUams)
    BY <1>0, EventFacts, SentLast
  <2>3. QED
    BY <2>1, <2>2 DEF Current, Emit
<1>8. CASE ResetClears
  BY <1>8 DEF ResetClears, Current
<1>9. CASE ResetBroadcasts
  <2> DEFINE log == LandedUpdate(<<>>)
             list == UamUpdate({})
  <2>1. /\ reset = "cleared" /\ reset' = "none" /\ Emit(<<log, list>>)
        /\ UNCHANGED <<landedUams, overtaken, connected, landedShown>>
    BY <1>9 DEF ResetBroadcasts
  <2>2. log \in Event /\ IsLog(log) /\ log.log = <<>> /\ list \in Event /\ ~IsLog(list)
    <3>1. <<>> \in Seq(Uam) /\ {} \in SUBSET Uam
      OBVIOUS
    <3>2. QED
      BY <3>1, EventFacts
  <2> HIDE DEF log, list
  <2>3. LastLog(down \o <<log>>, landedShown, <<>>)
    BY <1>0, <2>2, SentLast
  <2>4. LastLog((down \o <<log>>) \o <<list>>, landedShown, <<>>)
    <3>1. down \o <<log>> \in Seq(Event)
      BY <1>0, <2>2
    <3>2. QED
      BY <2>2, <2>3, <3>1, SentLast
  <2>5. (down \o <<log>>) \o <<list>> = down \o <<log, list>>
    <3>1. down \in Seq(Event) /\ <<log>> \in Seq(Event) /\ <<list>> \in Seq(Event)
      BY <1>0, <2>2
    <3>2. (down \o <<log>>) \o <<list>> = down \o (<<log>> \o <<list>>)
      BY <3>1, ConcatAssociative
    <3>3. <<log>> \o <<list>> = <<log, list>>
      BY <2>2, TwoEvents
    <3>4. QED
      BY <3>2, <3>3
  <2>6. QED
    BY <2>1, <2>4, <2>5 DEF Current, Emit
<1>10. CASE Deliver
  <2>1. /\ down # <<>> /\ down' = Tail(down)
        /\ UNCHANGED <<landedUams, reset, overtaken, connected>>
    BY <1>10 DEF Deliver
  <2>2. landedShown' = IF IsLog(Head(down)) THEN Head(down).log ELSE landedShown
    <3>1. CASE Head(down).event = "uam:update" /\ OnUamUpdate(Head(down).list)
      BY <3>1 DEF OnUamUpdate, IsLog
    <3>2. CASE Head(down).event = "landed:update" /\ OnLandedUpdate(Head(down).log)
      BY <3>2 DEF OnLandedUpdate, IsLog
    <3>3. CASE Head(down).event = "simulation:resetting" /\ OnResetting
      BY <3>3 DEF OnResetting, IsLog
    <3>4. QED
      BY <1>10, <3>1, <3>2, <3>3 DEF Deliver
  <2>3. LastLog(down, landedShown, landedUams) => LastLog(down', landedShown', landedUams)
    BY <1>0, <2>1, <2>2, HandledFirst
  <2>4. QED
    BY <2>1, <2>3 DEF Current
<1>11. CASE Render
  BY <1>11, <1>same DEF Render
<1>12. CASE OverlayTimer
  BY <1>12, <1>same DEF OverlayTimer
<1>13. CASE Lock
  BY <1>13, <1>same DEF Lock
<1>14. CASE Unlock
  BY <1>14, <1>same DEF Unlock
<1>15. ASSUME NEW u \in Uam, HandleApproveClick(u) PROVE Current'
  BY <1>15, <1>same DEF HandleApproveClick
<1>16. CASE HandleCancelApproval
  BY <1>16, <1>same DEF HandleCancelApproval
<1>17. CASE HandleConfirmApproval
  BY <1>17, <1>same DEF HandleConfirmApproval
<1>18. CASE UNCHANGED vars
  BY <1>18, <1>same DEF vars
<1>19. QED
  BY <1>1, <1>2, <1>3, <1>4, <1>5, <1>6, <1>7, <1>8, <1>9, <1>10, <1>11, <1>12, <1>13, <1>14,
     <1>15, <1>16, <1>17, <1>18 DEF Next

\* With nothing to come, what is shown is the gateway's list.
LEMMA CurrentShown == Typed /\ Current => LandedShownIsCurrent
BY DEF Current, LastLog, LandedShownIsCurrent

-----------------------------------------------------------------------------
(* Nothing is listed twice *)

LEMMA InjectiveSteps ==
  ASSUME NEW s \in Seq(Uam), IsInjective(s), NEW u \in Uam
  PROVE  /\ s # <<>> => IsInjective(Tail(s)) /\ \A i \in DOMAIN Tail(s) : Tail(s)[i] # Head(s)
         /\ (\A i \in DOMAIN s : s[i] # u) =>
              IsInjective(Append(s, u)) /\ IsInjective(<<u>> \o s)
<1>1. PICK n \in Nat : n = Len(s) /\ DOMAIN s = 1 .. n
  OBVIOUS
<1>2. ASSUME s # <<>>
      PROVE  IsInjective(Tail(s)) /\ \A i \in DOMAIN Tail(s) : Tail(s)[i] # Head(s)
  <2> DEFINE t == Tail(s)
  <2>1. /\ DOMAIN t = 1 .. (n - 1) /\ \A i \in 1 .. (n - 1) : t[i] = s[i + 1]
        /\ Head(s) = s[1] /\ 1 \in 1 .. n
    BY <1>1, <1>2
  <2> HIDE DEF t
  <2>2. \A i \in 1 .. (n - 1) : i + 1 \in 1 .. n /\ i + 1 # 1
    OBVIOUS
  <2>3. IsInjective(t)
    <3>1. ASSUME NEW i \in 1 .. (n - 1), NEW j \in 1 .. (n - 1), t[i] = t[j] PROVE i = j
      <4>1. s[i + 1] = s[j + 1]
        BY <2>1, <3>1
      <4>2. i + 1 = j + 1
        BY <1>1, <2>2, <4>1 DEF IsInjective
      <4>3. QED
        BY <4>2
    <3>2. QED
      BY <2>1, <3>1 DEF IsInjective
  <2>4. \A i \in DOMAIN t : t[i] # Head(s)
    BY <1>1, <2>1, <2>2 DEF IsInjective
  <2>5. QED
    BY <2>3, <2>4 DEF t
<1>3. ASSUME \A i \in DOMAIN s : s[i] # u
      PROVE  IsInjective(Append(s, u)) /\ IsInjective(<<u>> \o s)
  <2> DEFINE a == Append(s, u)
             c == <<u>> \o s
  <2>1. /\ DOMAIN a = 1 .. (n + 1) /\ a[n + 1] = u /\ \A i \in 1 .. n : a[i] = s[i]
        /\ DOMAIN c = 1 .. (n + 1) /\ c[1] = u /\ \A i \in 2 .. (n + 1) : c[i] = s[i - 1]
    BY <1>1
  <2> HIDE DEF a, c
  <2>2. IsInjective(a)
    BY <1>1, <1>3, <2>1 DEF IsInjective
  <2>3. \A i \in 2 .. (n + 1) : i - 1 \in 1 .. n
    OBVIOUS
  <2>4. IsInjective(c)
    <3>1. ASSUME NEW i \in 1 .. (n + 1), NEW j \in 1 .. (n + 1), c[i] = c[j], i # j PROVE FALSE
      <4>1. CASE i = 1 \/ j = 1
        BY <1>1, <1>3, <2>1, <2>3, <3>1, <4>1
      <4>2. CASE i \in 2 .. (n + 1) /\ j \in 2 .. (n + 1)
        <5>1. s[i - 1] = s[j - 1] /\ i - 1 \in DOMAIN s /\ j - 1 \in DOMAIN s
          BY <1>1, <2>1, <2>3, <3>1, <4>2
        <5>2. i - 1 = j - 1
          BY <5>1 DEF IsInjective
        <5>3. QED
          BY <3>1, <4>2, <5>2
      <4>3. QED
        BY <4>1, <4>2
    <3>2. QED
      BY <2>1, <3>1 DEF IsInjective
  <2>5. QED
    BY <2>2, <2>4 DEF a, c
<1>4. QED
  BY <1>2, <1>3

\* A registration is begun for a vehicle that is in neither list.
LEMMA StartRegisteringDisjoint ==
  ASSUME Typed, Disjoint, NEW u \in Uam, StartRegistering(u),
         UNCHANGED <<landedUams, reset, resets>>
  PROVE  Disjoint'
<1> SUFFICES ASSUME resets = 0
             PROVE  /\ IsInjective(registering')
                    /\ \A i \in DOMAIN landedUams : landedUams[i] \in landedUamIds'
                    /\ \A i \in DOMAIN registering' : registering'[i] \in landedUamIds'
                    /\ \A i \in DOMAIN landedUams, j \in DOMAIN registering' :
                         landedUams[i] # registering'[j]
  BY DEF Disjoint
<1>0. landedUams \in Seq(Uam) /\ registering \in Seq(Uam)
  BY DEF Typed, TypeOK
<1>1. CASE u \in landedUamIds /\ UNCHANGED <<landedUamIds, registering>>
  BY <1>1 DEF Disjoint
<1>2. CASE /\ u \notin landedUamIds
           /\ landedUamIds' = landedUamIds \cup {u} /\ registering' = Append(registering, u)
  <2>1. PICK n \in Nat : n = Len(registering)
    BY <1>0
  <2>2. /\ DOMAIN registering = 1 .. n /\ DOMAIN registering' = 1 .. (n + 1)
        /\ registering'[n + 1] = u
        /\ \A i \in 1 .. n : registering'[i] = registering[i]
    BY <1>0, <1>2, <2>1
  <2>3. IsInjective(registering')
    <3>1. \A i \in DOMAIN registering : registering[i] # u
      BY <1>2 DEF Disjoint
    <3>2. QED
      BY <1>0, <1>2, <3>1, InjectiveSteps DEF Disjoint
  <2>4. \A i \in DOMAIN registering' : i = n + 1 \/ i \in DOMAIN registering
    BY <2>2
  <2>5. QED
    BY <1>2, <2>2, <2>3, <2>4 DEF Disjoint
<1>3. QED
  BY <1>1, <1>2 DEF StartRegistering

LEMMA DisjointStep == Typed /\ Disjoint /\ [Next]_vars => Disjoint'
<1> SUFFICES ASSUME Typed, Disjoint, [Next]_vars PROVE Disjoint'
  OBVIOUS
<1>0. landedUams \in Seq(Uam) /\ registering \in Seq(Uam) /\ up \in Seq(Uam) /\ resets \in Nat
  BY DEF Typed, TypeOK
<1>same. ASSUME UNCHANGED <<landedUams, landedUamIds, registering, reset, resets>>
         PROVE  Disjoint'
  BY <1>same DEF Disjoint
<1> USE DEF gateway, queue, overlay, counts
<1>1. CASE Connect
  BY <1>1, <1>same DEF Connect
<1>2. CASE Disconnect
  BY <1>2, <1>same DEF Disconnect
<1>3. CASE Poll
  BY <1>3, <1>same DEF Poll
<1>4. ASSUME NEW u \in Uam, HandleUamLanded(u) PROVE Disjoint'
  BY <1>4, StartRegisteringDisjoint DEF HandleUamLanded
<1>5. CASE HandleLandingApprove
  <2>1. Head(up) \in Uam
    BY <1>0, <1>5 DEF HandleLandingApprove
  <2>2. QED
    BY <1>5, <2>1, StartRegisteringDisjoint DEF HandleLandingApprove
<1>6. CASE Registered
  <2>1. /\ registering # <<>> /\ registering' = Tail(registering)
        /\ landedUams' = <<Head(registering)>> \o landedUams
        /\ UNCHANGED <<landedUamIds, reset, resets>>
    BY <1>6 DEF Registered
  <2>2. SUFFICES ASSUME resets = 0
                 PROVE  /\ IsInjective(landedUams') /\ IsInjective(registering')
                        /\ \A i \in DOMAIN landedUams' : landedUams'[i] \in landedUamIds
                        /\ \A i \in DOMAIN registering' : registering'[i] \in landedUamIds
                        /\ \A i \in DOMAIN landedUams', j \in DOMAIN registering' :
                             landedUams'[i] # registering'[j]
    BY <2>1 DEF Disjoint
  <2>3. PICK m \in Nat, n \in Nat : m = Len(landedUams) /\ n = Len(registering) /\ n > 0
    BY <1>0, <2>1
  <2>4. /\ DOMAIN landedUams = 1 .. m /\ DOMAIN landedUams' = 1 .. (m + 1)
        /\ landedUams'[1] = Head(registering)
        /\ \A i \in 2 .. (m + 1) : landedUams'[i] = landedUams[i - 1]
    BY <1>0, <2>1, <2>3
  <2>5. /\ DOMAIN registering = 1 .. n /\ DOMAIN registering' = 1 .. (n - 1)
        /\ Head(registering) = registering[1] /\ 1 \in 1 .. n
        /\ \A i \in 1 .. (n - 1) : registering'[i] = registering[i + 1] /\ i + 1 \in 1 .. n
    BY <1>0, <2>1, <2>3
  <2>6. \A i \in DOMAIN landedUams' : i = 1 \/ (i \in 2 .. (m + 1) /\ i - 1 \in DOMAIN landedUams)
    BY <2>4
  <2>7. IsInjective(registering') /\ \A i \in DOMAIN registering' : registering'[i] # Head(registering)
    BY <1>0, <2>1, <2>2, InjectiveSteps DEF Disjoint
  <2>8. IsInjective(landedUams')
    <3>1. \A i \in DOMAIN landedUams : landedUams[i] # Head(registering)
      BY <2>2, <2>5 DEF Disjoint
    <3>2. Head(registering) \in Uam /\ IsInjective(landedUams)
      BY <1>0, <2>1, <2>2 DEF Disjoint
    <3>3. QED
      BY <1>0, <2>1, <3>1, <3>2, InjectiveSteps
  <2>9. ASSUME NEW i \in DOMAIN landedUams'
        PROVE  /\ landedUams'[i] \in landedUamIds
               /\ \A j \in DOMAIN registering' : landedUams'[i] # registering'[j]
    <3>1. CASE i = 1
      BY <2>2, <2>4, <2>5, <2>7, <3>1 DEF Disjoint
    <3>2. CASE i \in 2 .. (m + 1) /\ i - 1 \in DOMAIN landedUams
      <4>1. landedUams'[i] = landedUams[i - 1] /\ i - 1 \in DOMAIN landedUams
        BY <2>4, <3>2
      <4>2. \A j \in DOMAIN registering' : /\ registering'[j] = registering[j + 1]
                                            /\ j + 1 \in DOMAIN registering
        BY <2>5
      <4>3. QED
        BY <2>2, <4>1, <4>2 DEF Disjoint
    <3>3. QED
      BY <2>6, <3>1, <3>2
  <2>10. \A i \in DOMAIN registering' : registering'[i] \in landedUamIds
    BY <2>2, <2>5 DEF Disjoint
  <2>11. QED
    BY <2>7, <2>8, <2>9, <2>10
<1>7. CASE ResetBegins
  <2>1. resets' # 0
    BY <1>0, <1>7 DEF ResetBegins
  <2>2. QED
    BY <2>1 DEF Disjoint
<1>8. CASE ResetClears
  BY <1>8 DEF ResetClears, Disjoint
<1>9. CASE ResetBroadcasts
  BY <1>9 DEF ResetBroadcasts, Disjoint
<1>10. CASE Deliver
  BY <1>10, <1>same DEF Deliver
<1>11. CASE Render
  BY <1>11, <1>same DEF Render
<1>12. CASE OverlayTimer
  BY <1>12, <1>same DEF OverlayTimer
<1>13. CASE Lock
  BY <1>13, <1>same DEF Lock
<1>14. CASE Unlock
  BY <1>14, <1>same DEF Unlock
<1>15. ASSUME NEW u \in Uam, HandleApproveClick(u) PROVE Disjoint'
  BY <1>15, <1>same DEF HandleApproveClick
<1>16. CASE HandleCancelApproval
  BY <1>16, <1>same DEF HandleCancelApproval
<1>17. CASE HandleConfirmApproval
  BY <1>17, <1>same DEF HandleConfirmApproval
<1>18. CASE UNCHANGED vars
  BY <1>18, <1>same DEF vars
<1>19. QED
  BY <1>1, <1>2, <1>3, <1>4, <1>5, <1>6, <1>7, <1>8, <1>9, <1>10, <1>11, <1>12, <1>13, <1>14,
     <1>15, <1>16, <1>17, <1>18 DEF Next

-----------------------------------------------------------------------------
(* The queue without its lock *)

LEMMA UnlockedStep == UnlockedIsCurrent /\ [Next]_vars => UnlockedIsCurrent'
<1> SUFFICES ASSUME UnlockedIsCurrent, [Next]_vars PROVE UnlockedIsCurrent'
  OBVIOUS
<1>same. ASSUME UNCHANGED <<isQueueLocked, raced, displayedUams, uams>> PROVE UnlockedIsCurrent'
  BY <1>same DEF UnlockedIsCurrent
<1> USE DEF gateway, queue, overlay, counts
<1>1. CASE Connect
  BY <1>1, <1>same DEF Connect
<1>2. CASE Disconnect
  BY <1>2, <1>same DEF Disconnect
<1>3. CASE Poll
  BY <1>3, <1>same DEF Poll
<1>4. ASSUME NEW u \in Uam, HandleUamLanded(u) PROVE UnlockedIsCurrent'
  BY <1>4, <1>same DEF HandleUamLanded
<1>5. CASE HandleLandingApprove
  BY <1>5, <1>same DEF HandleLandingApprove
<1>6. CASE Registered
  BY <1>6, <1>same DEF Registered
<1>7. CASE ResetBegins
  BY <1>7, <1>same DEF ResetBegins
<1>8. CASE ResetClears
  BY <1>8, <1>same DEF ResetClears
<1>9. CASE ResetBroadcasts
  BY <1>9, <1>same DEF ResetBroadcasts
<1>10. CASE Deliver
  <2>1. CASE \E list : OnUamUpdate(list)
    BY <2>1 DEF OnUamUpdate, UnlockedIsCurrent
  <2>2. CASE \E log : OnLandedUpdate(log)
    BY <2>2, <1>same DEF OnLandedUpdate
  <2>3. CASE OnResetting
    BY <2>3, <1>same DEF OnResetting
  <2>4. QED
    BY <1>10, <2>1, <2>2, <2>3 DEF Deliver
<1>11. CASE Render
  BY <1>11, <1>same DEF Render
<1>12. CASE OverlayTimer
  BY <1>12, <1>same DEF OverlayTimer
<1>13. CASE Lock
  BY <1>13 DEF Lock, UnlockedIsCurrent
<1>14. CASE Unlock
  BY <1>14 DEF Unlock, UnlockedIsCurrent
<1>15. ASSUME NEW u \in Uam, HandleApproveClick(u) PROVE UnlockedIsCurrent'
  BY <1>15, <1>same DEF HandleApproveClick
<1>16. CASE HandleCancelApproval
  BY <1>16, <1>same DEF HandleCancelApproval
<1>17. CASE HandleConfirmApproval
  BY <1>17, <1>same DEF HandleConfirmApproval
<1>18. CASE UNCHANGED vars
  BY <1>18, <1>same DEF vars
<1>19. QED
  BY <1>1, <1>2, <1>3, <1>4, <1>5, <1>6, <1>7, <1>8, <1>9, <1>10, <1>11, <1>12, <1>13, <1>14,
     <1>15, <1>16, <1>17, <1>18 DEF Next

-----------------------------------------------------------------------------
(* Theorems *)

\* The strengthening is an invariant: what the client will have been told of the
\* landed list is the gateway's, and until a reset the registrations and the
\* landed list are disjoint.
THEOREM DashboardInvariant == Spec => []DashboardInv
<1>1. DashboardInv /\ [Next]_vars => DashboardInv'
  BY TypedStep, CurrentStep, DisjointStep, UnlockedStep DEF DashboardInv
<1>2. QED
  BY InitDashboard, <1>1, PTL DEF Spec

\* The gateway, the connection and the client keep their types; an overlay that is
\* shown has a timer (useUamData's setTimeout) that will hide it.
THEOREM TypeCorrect == Spec => []TypeOK
BY DashboardInvariant, PTL DEF DashboardInv, Typed

\* A connected dashboard that has handled everything shows the gateway's landed list,
\* however often the connection was lost (handleConnection) and the simulation reset.
THEOREM LandedShownIsCurrentHolds == Spec => []LandedShownIsCurrent
<1>1. DashboardInv => LandedShownIsCurrent
  BY CurrentShown DEF DashboardInv
<1>2. QED
  BY <1>1, DashboardInvariant, PTL

\* Until a reset, no order of landings, stale dialogs and late approvals lists a
\* vehicle twice (the landedUamIds test of registerLanded).
THEOREM StaleApprovalsListNothingTwiceHolds == Spec => []StaleApprovalsListNothingTwice
<1>1. DashboardInv => StaleApprovalsListNothingTwice
  BY DEF DashboardInv, Disjoint, StaleApprovalsListNothingTwice
<1>2. QED
  BY <1>1, DashboardInvariant, PTL

\* Without the lock the queue shows the last list that arrived (handleToggleLock and
\* the uam:update handler).
THEOREM UnlockedIsCurrentHolds == Spec => []UnlockedIsCurrent
BY DashboardInvariant, PTL DEF DashboardInv

-----------------------------------------------------------------------------
(* What a packet says of a vehicle *)

Battery  == 0 .. 1000
Distance == Nat

-----------------------------------------------------------------------------
(* The score *)

\* Points add up to 0 .. 1000, whatever battery and distance.
THEOREM ScoreInRange ==
  ASSUME NEW b \in Battery, NEW d \in Distance
  PROVE  Score(b, d) \in Nat /\ Score(b, d) <= 1000 * Point
<1>1. BatteryScore(b) \in Nat /\ BatteryScore(b) <= 14000
  BY DEF BatteryScore, Battery, Point
<1>2. DistanceScore(d) \in Nat /\ DistanceScore(d) <= 6000
  BY DEF DistanceScore, Distance
<1>3. QED
  BY <1>1, <1>2 DEF Score, Point

\* Every emergency outranks every vehicle that is none, however near the latter is and
\* however far the former: by 350 points at least.
THEOREM EmergencyFirst ==
  ASSUME NEW b \in Battery, NEW d \in Distance, NEW c \in Battery, NEW e \in Distance,
         IsEmergency(b), ~IsEmergency(c)
  PROVE  Score(b, d) >= Score(c, e) + 350 * Point
BY DEF Score, BatteryScore, DistanceScore, IsEmergency, Battery, Distance, Point

\* Among vehicles at one distance a lower battery never ranks lower, the step at the
\* emergency threshold included; among vehicles with one battery a nearer one never does.
THEOREM ScoreMonotone ==
  /\ \A b, c \in Battery, d \in Distance : b <= c => Score(b, d) >= Score(c, d)
  /\ \A b \in Battery, d, e \in Distance : d <= e => Score(b, d) >= Score(b, e)
<1>1. ASSUME NEW b \in Battery, NEW c \in Battery, b <= c
      PROVE  /\ BatteryScore(b) \in Int /\ BatteryScore(c) \in Int
             /\ BatteryScore(b) >= BatteryScore(c)
             /\ IsEmergency(c) => IsEmergency(b)
  <2>1. b \in Int /\ c \in Int
    BY DEF Battery
  <2>2. BatteryScore(b) \in Int /\ BatteryScore(c) \in Int
    BY <2>1 DEF BatteryScore, Point
  <2>3. BatteryScore(b) >= BatteryScore(c)
    BY <1>1, <2>1 DEF BatteryScore, Point
  <2>4. IsEmergency(c) => IsEmergency(b)
    BY <1>1, <2>1 DEF IsEmergency
  <2>5. QED
    BY <2>2, <2>3, <2>4
<1>2. ASSUME NEW d \in Distance, NEW e \in Distance, d <= e
      PROVE  /\ DistanceScore(d) \in Int /\ DistanceScore(e) \in Int
             /\ DistanceScore(d) >= DistanceScore(e)
  BY <1>2 DEF DistanceScore, Distance
<1>3. ASSUME NEW b \in Battery, NEW c \in Battery, NEW d \in Distance, b <= c
      PROVE  Score(b, d) >= Score(c, d)
  <2>1. d <= d
    BY DEF Distance
  <2>2. DistanceScore(d) \in Int
    BY <1>2, <2>1
  <2>3. QED
    BY <1>1, <1>3, <2>2 DEF Score, Point
<1>4. ASSUME NEW b \in Battery, NEW d \in Distance, NEW e \in Distance, d <= e
      PROVE  Score(b, d) >= Score(b, e)
  <2>1. b <= b
    BY DEF Battery
  <2>2. BatteryScore(b) \in Int
    BY <1>1, <2>1
  <2>3. QED
    BY <1>2, <1>4, <2>2 DEF Score, Point
<1>5. QED
  BY <1>3, <1>4

-----------------------------------------------------------------------------
(* From the simulator's numbers to the packet's *)

\* A vehicle in an emergency for the simulator (below 15 %) is one for the scheduler, unless
\* its battery is rounded up to 15.0 %, less than 0.05 % below the threshold.
THEOREM RoundingKeepsEmergency ==
  ASSUME NEW battery \in Nat
  PROVE  /\ battery < 14950 => IsEmergency(ReportedBattery(battery))
         /\ battery >= 15000 => ~IsEmergency(ReportedBattery(battery))
BY DEF ReportedBattery, IsEmergency

-----------------------------------------------------------------------------
(* The panels *)

LEMMA Members == ASSUME NEW S, NEW s \in Seq(S) PROVE \A i \in DOMAIN s : s[i] \in S
OBVIOUS

\* One vehicle looks the same in every panel: card, marker, timeline and dialog agree whether
\* it is an emergency, although three of the five tests have their own threshold, and else
\* whether it waits at its LDP.
THEOREM PanelsAgree ==
  ASSUME NEW list \in Seq(Shown), NEW i \in DOMAIN list
  PROVE  /\ CardColour(list[i]) = TimelineColour(EtaEntry(list, i))
         /\ CardColour(list[i]) = "emergency" <=> MarkerColour(list[i], i) = "emergency"
         /\ CardColour(list[i]) = "waiting" <=> MarkerColour(list[i], i) = "waiting"
         /\ CardColour(list[i]) = "emergency" <=> DialogEmergency(list[i])
         /\ CardColour(list[i]) = "emergency" <=> BatteryAlarm(list[i])
BY DEF CardColour, TimelineColour, EtaEntry, MarkerColour, DialogEmergency, BatteryAlarm,
   HighlightedEmergency, Shown

\* The two zones of cards are the list: none of its vehicles is left out or shown twice, and the
\* large markers are those of the first zone.
THEOREM ZonesCover ==
  ASSUME NEW list \in Seq(Shown)
  PROVE  /\ PriorityZone(list) \o StandbyQueue(list) = list
         /\ \A i \in DOMAIN list : MarkerSize(i) = 16 <=> i <= Len(PriorityZone(list))
<1>1. CASE Len(list) < 3
  <2>1. PriorityZone(list) = list /\ StandbyQueue(list) = << >>
    BY <1>1 DEF PriorityZone, StandbyQueue
  <2>2. QED
    BY <1>1, <2>1 DEF MarkerSize
<1>2. CASE Len(list) >= 3
  <2>1. PriorityZone(list) = SubSeq(list, 1, 3) /\ StandbyQueue(list) = SubSeq(list, 4, Len(list))
    BY <1>2 DEF PriorityZone, StandbyQueue
  <2>2. QED
    BY <1>2, <2>1 DEF MarkerSize
<1>3. QED
  BY <1>1, <1>2

LEMMA ClampedMonotone ==
  ASSUME NEW p \in Int, NEW q \in Int
  PROVE  /\ Clamped(p) \in 5 .. 85
         /\ p <= q => Clamped(p) <= Clamped(q)
BY DEF Clamped

LEMMA DivMonotone ==
  ASSUME NEW a \in Nat, NEW b \in Nat, NEW n \in Nat, n > 0, a <= b
  PROVE  a \div n \in Int /\ b \div n \in Int /\ a \div n <= b \div n
OBVIOUS

LEMMA PercentMonotone ==
  ASSUME NEW max \in Nat, max > 0, NEW d \in 0 .. max, NEW e \in 0 .. max, d <= e
  PROVE  /\ Percent(d, max) \in Int /\ Percent(e, max) \in Int
         /\ Percent(d, max) >= Percent(e, max)
<1>1. /\ 170 * (max - d) + max \in Nat /\ 170 * (max - e) + max \in Nat
      /\ 2 * max \in Nat /\ 2 * max > 0
      /\ 170 * (max - e) + max <= 170 * (max - d) + max
  OBVIOUS
<1>2. /\ (170 * (max - d) + max) \div (2 * max) \in Int
      /\ (170 * (max - e) + max) \div (2 * max) \in Int
      /\ (170 * (max - d) + max) \div (2 * max) >= (170 * (max - e) + max) \div (2 * max)
  BY <1>1, DivMonotone
<1>3. QED
  BY <1>2 DEF Percent

\* In one list a nearer vehicle is never drawn behind a farther one, nor with a later arrival, and
\* one that waits at its LDP is drawn ahead of all that fly.
THEOREM TrackMonotone ==
  ASSUME NEW list \in Seq(Shown), NEW i \in DOMAIN list, NEW j \in DOMAIN list,
         NEW max \in Nat, IsMaxDist(list, max), ~list[j].waiting
  PROVE  /\ Track(EtaEntry(list, j), max) \in 5 .. 85
         /\ list[i].waiting => Track(EtaEntry(list, i), max) > Track(EtaEntry(list, j), max)
         /\ ~list[i].waiting /\ list[i].dist <= list[j].dist
              => /\ Track(EtaEntry(list, i), max) >= Track(EtaEntry(list, j), max)
                 /\ EtaEntry(list, i).eta <= EtaEntry(list, j).eta
<1>0. list[i] \in Shown /\ list[j] \in Shown
  BY Members
<1>1. max \in Nat /\ max >= 1000 /\ list[i].dist \in 0 .. max /\ list[j].dist \in 0 .. max
  BY <1>0 DEF IsMaxDist, Shown
<1>2. /\ EtaEntry(list, i).isWaiting = list[i].waiting
      /\ EtaEntry(list, i).uam.dist = list[i].dist
      /\ EtaEntry(list, j).isWaiting = FALSE /\ EtaEntry(list, j).uam.dist = list[j].dist
      /\ list[i].waiting \in BOOLEAN
  BY <1>0 DEF EtaEntry, Shown
<1>3. ~list[i].waiting /\ list[i].dist <= list[j].dist
        => EtaEntry(list, i).eta <= EtaEntry(list, j).eta
  <2>1. SUFFICES ASSUME ~list[i].waiting, list[i].dist <= list[j].dist
                 PROVE  EtaEntry(list, i).eta <= EtaEntry(list, j).eta
    OBVIOUS
  <2>2. /\ EtaEntry(list, i).eta = EtaTenths(list[i].dist, list[i].waiting)
        /\ EtaEntry(list, j).eta = EtaTenths(list[j].dist, list[j].waiting)
    BY DEF EtaEntry
  <2>3. list[i].dist + 1250 \in Nat /\ list[j].dist + 1250 \in Nat
        /\ list[i].dist + 1250 <= list[j].dist + 1250
    BY <1>1, <2>1
  <2>4. /\ (list[i].dist + 1250) \div 2500 \in Int /\ (list[j].dist + 1250) \div 2500 \in Int
        /\ (list[i].dist + 1250) \div 2500 <= (list[j].dist + 1250) \div 2500
    BY <2>3, DivMonotone
  <2>5. /\ EtaTenths(list[i].dist, list[i].waiting) = 10 * ((list[i].dist + 1250) \div 2500)
        /\ EtaTenths(list[j].dist, list[j].waiting) = 10 * ((list[j].dist + 1250) \div 2500)
    BY <2>1 DEF EtaTenths
  <2>6. QED
    BY <2>2, <2>4, <2>5
<1>4. Percent(list[j].dist, max) \in Int /\ Percent(list[i].dist, max) \in Int
  <2>1. max > 0 /\ list[i].dist <= list[i].dist /\ list[j].dist <= list[j].dist
    BY <1>1
  <2>2. QED
    BY <1>1, <2>1, PercentMonotone
<1>5. list[i].dist <= list[j].dist => Percent(list[i].dist, max) >= Percent(list[j].dist, max)
  <2>1. SUFFICES ASSUME list[i].dist <= list[j].dist
                 PROVE  Percent(list[i].dist, max) >= Percent(list[j].dist, max)
    OBVIOUS
  <2>2. max > 0
    BY <1>1
  <2>3. QED
    BY <1>1, <2>1, <2>2, PercentMonotone
<1>6. /\ list[i].waiting => Track(EtaEntry(list, i), max) = 90
      /\ ~list[i].waiting
           => Track(EtaEntry(list, i), max) = Clamped(Percent(list[i].dist, max))
      /\ Track(EtaEntry(list, j), max) = Clamped(Percent(list[j].dist, max))
  BY <1>2 DEF Track
<1>7. Clamped(Percent(list[j].dist, max)) \in 5 .. 85
  BY <1>4, ClampedMonotone
<1>8. list[i].dist <= list[j].dist
        => Clamped(Percent(list[i].dist, max)) >= Clamped(Percent(list[j].dist, max))
  BY <1>4, <1>5, ClampedMonotone
<1>9. QED
  <2>1. Track(EtaEntry(list, j), max) \in 5 .. 85
    BY <1>6, <1>7
  <2>2. list[i].waiting => Track(EtaEntry(list, i), max) > Track(EtaEntry(list, j), max)
    <3> SUFFICES ASSUME list[i].waiting
                 PROVE  Track(EtaEntry(list, i), max) > Track(EtaEntry(list, j), max)
      OBVIOUS
    <3>1. Track(EtaEntry(list, i), max) = 90
      BY <1>6
    <3>2. \A s \in 5 .. 85 : 90 > s
      OBVIOUS
    <3>3. 90 > Track(EtaEntry(list, j), max)
      BY <2>1, <3>2
    <3>4. QED
      BY <3>1, <3>3
  <2>3. QED
    BY <1>3, <1>6, <1>8, <2>1, <2>2
=============================================================================
