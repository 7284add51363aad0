---------------------------- MODULE SystemProofs ----------------------------
(***************************************************************************)
(* Proofs about the simulator and the composed system: Flight, for every   *)
(* speed, route, battery and moment of approval; Fleet and System, for     *)
(* every fleet size, id space, number of resets and of messages on their   *)
(* way.  The composed system is a Fleet, and what the queue, the blocked   *)
(* ids and the audit log say of its vehicles is true.                      *)
(*                                                                         *)
(* The proofs about System look at the channels and the connections as     *)
(* sets: the vehicles whose uam/landed, LAND or ZREM waits there, and      *)
(* whether a RESET or the DEL of a reset does.                             *)
(***************************************************************************)
EXTENDS System, Flight, FiniteSetTheorems, TLAPS

-----------------------------------------------------------------------------
(* Flight *)

\* Every tick leaves a vehicle no farther away, and never above its altitude once
\* it is approved.
LEMMA MoveBounds ==
  ASSUME NEW w \in Vehicle
  PROVE  /\ Move(w) \in Vehicle
         /\ Move(w).approved = Approved(w)
         /\ Move(w).waiting = AtLdp(w)
         /\ Move(w).alt = NextAlt(w) /\ Move(w).dist = NextDist(w)
         /\ Move(w).battery = NextBattery(w)
         /\ NextDist(w) \in Nat /\ NextDist(w) <= w.dist
         /\ NextAlt(w) \in Nat
         /\ NextBattery(w) \in Nat /\ NextBattery(w) >= w.battery - MaxDrain
         /\ NextBattery(w) <= w.battery
<1> USE MovementAssumption
<1>1. /\ w.speed \in 3 .. 10 /\ w.course \in 88 .. 112 /\ w.dist \in Nat /\ w.alt \in Nat /\ w.battery \in Nat
      /\ Approved(w) \in BOOLEAN /\ AtLdp(w) \in BOOLEAN
  BY DEF Vehicle, Approved, AtLdp
<1>2. Step(w) \in Nat /\ Step(w) <= 1120
  <2>1. \A c \in 88 .. 112, s \in 3 .. 10 : c * s \in Nat /\ c * s <= 1120
    <3> SUFFICES ASSUME NEW c \in 88 .. 112, NEW s \in 3 .. 10
                 PROVE  c * s \in Nat /\ c * s <= 1120
      OBVIOUS
    <3>1. s \in {3, 4, 5, 6, 7, 8, 9, 10}
      OBVIOUS
    <3>2. QED
      BY <3>1
  <2>2. QED
    BY <1>1, <2>1 DEF Step
<1>3. Drain(w) \in Nat /\ Drain(w) <= MaxDrain
  BY <1>1 DEF Drain, MaxDrain
<1>4. NextDist(w) \in Nat /\ NextDist(w) <= w.dist
  BY <1>1, <1>2 DEF NextDist, AtLdp
<1>5. NextBattery(w) \in Nat /\ NextBattery(w) >= w.battery - MaxDrain
        /\ NextBattery(w) <= w.battery
  BY <1>1, <1>3 DEF NextBattery, MaxDrain
<1>6. NextAlt(w) \in Nat
  <2>1. CASE Approved(w)
    BY <1>1, <2>1 DEF NextAlt
  <2>2. CASE ~Approved(w) /\ AtLdp(w)
    BY <1>1, <2>2 DEF NextAlt
  <2>3. CASE ~Approved(w) /\ ~AtLdp(w)
    BY <1>1, <2>3 DEF NextAlt
  <2>4. QED
    BY <2>1, <2>2, <2>3
<1>7. QED
  BY <1>1, <1>4, <1>5, <1>6 DEF Move, Vehicle

LEMMA NextAltCases ==
  ASSUME NEW w \in Vehicle
  PROVE  /\ Approved(w) => NextAlt(w) = IF w.alt > 20 THEN w.alt - 20 ELSE 0
         /\ ~Approved(w) /\ w.dist > ApproachRadius =>
              NextAlt(w) = IF w.alt < CruiseAlt THEN w.alt + 10 ELSE w.alt
         /\ ~Approved(w) /\ w.dist <= ApproachRadius /\ w.alt <= CruiseAlt =>
              NextAlt(w) <= CruiseAlt
<1> USE MovementAssumption
<1>1. w.dist \in Nat /\ w.alt \in Nat
  BY DEF Vehicle
<1>2. Approved(w) => NextAlt(w) = IF w.alt > 20 THEN w.alt - 20 ELSE 0
  BY DEF NextAlt
<1>3. ASSUME ~Approved(w), w.dist > ApproachRadius
      PROVE  NextAlt(w) = IF w.alt < CruiseAlt THEN w.alt + 10 ELSE w.alt
  <2>1. ~AtLdp(w)
    BY <1>1, <1>3 DEF AtLdp
  <2>2. QED
    BY <1>1, <1>3, <2>1 DEF NextAlt
<1>4. ASSUME ~Approved(w), w.dist <= ApproachRadius, w.alt <= CruiseAlt
      PROVE  NextAlt(w) <= CruiseAlt
  <2>1. CASE AtLdp(w)
    BY <1>1, <1>4, <2>1 DEF NextAlt
  <2>2. CASE ~AtLdp(w)
    BY <1>1, <1>4, <2>2 DEF NextAlt
  <2>3. QED
    BY <2>1, <2>2
<1>5. QED
  BY <1>2, <1>3, <1>4

\* Cruising vehicles are at cruise altitude, all others below; an approval is due
\* to the vertiport or to the battery; and what is left of the battery depends on
\* how far the descent has come.
FlightInv ==
  /\ v \in Vehicle /\ aloft \in BOOLEAN
  /\ v.alt <= CruiseAlt
  /\ ~aloft => v.alt = 0 /\ v.approved
  /\ v.dist > ApproachRadius /\ ~v.approved => v.alt = CruiseAlt
  /\ v.waiting => AtLdp(v)
  /\ v.approved => AtLdp(v) \/ v.battery < EmergencyBattery
  /\ ~v.approved => v.battery >= EmergencyBattery - MaxDrain
  /\ v.approved /\ v.alt > 0 =>
       v.battery >= EmergencyBattery - 10 * (CruiseAlt - v.alt) - MaxDrain
  /\ v.approved => v.battery >= Reserve

LEMMA InitFlight == FlightInit => FlightInv
<1> SUFFICES ASSUME FlightInit PROVE FlightInv
  OBVIOUS
<1> USE MovementAssumption, FlightAssumption
<1>1. v \in Spawned /\ aloft = TRUE
  BY DEF FlightInit
<1>2. v \in Vehicle
  BY <1>1 DEF Spawned, Vehicle
<1>3. /\ v.alt = CruiseAlt /\ ~v.waiting /\ ~v.approved
      /\ v.battery \in Nat /\ v.battery >= EmergencyBattery
  BY <1>1 DEF Spawned
<1>4. v.battery >= EmergencyBattery - MaxDrain
  BY <1>3 DEF MaxDrain
<1>5. QED
  BY <1>1, <1>2, <1>3, <1>4 DEF FlightInv

LEMMA ReserveValue == Reserve = EmergencyBattery - 10 * CruiseAlt - 400
BY MovementAssumption DEF Reserve, MaxDrain

LEMMA TickFlight == FlightInv /\ UpdateMovement => FlightInv'
<1> SUFFICES ASSUME FlightInv, UpdateMovement PROVE FlightInv'
  OBVIOUS
<1> USE MovementAssumption
<1>1. /\ v \in Vehicle /\ v' = Move(v) /\ aloft /\ aloft' /\ ~Touchdown(v)
      /\ v.alt \in Nat /\ v.dist \in Nat /\ v.battery \in Nat /\ v.alt <= CruiseAlt
      /\ v.approved \in BOOLEAN /\ Approved(v) \in BOOLEAN
  BY DEF FlightInv, UpdateMovement, Vehicle, Approved
<1>2. /\ v' \in Vehicle /\ v'.approved = Approved(v) /\ v'.waiting = AtLdp(v)
      /\ v'.alt = NextAlt(v) /\ v'.alt \in Nat
      /\ v'.dist \in Nat /\ v'.dist <= v.dist
      /\ v'.battery \in Nat /\ v'.battery >= v.battery - MaxDrain
      /\ v'.battery <= v.battery
  BY <1>1, MoveBounds
<1>3. v.approved => v.alt > 0
  BY <1>1 DEF Touchdown
<1>4. v'.alt <= CruiseAlt
  <2>1. CASE Approved(v)
    BY <1>1, <1>2, <2>1, NextAltCases
  <2>2. CASE ~Approved(v) /\ v.dist > ApproachRadius
    <3>1. v.alt = CruiseAlt
      BY <2>2 DEF FlightInv, Approved
    <3>2. QED
      BY <1>1, <1>2, <2>2, <3>1, NextAltCases
  <2>3. CASE ~Approved(v) /\ v.dist <= ApproachRadius
    BY <1>1, <1>2, <2>3, NextAltCases
  <2>4. QED
    BY <1>1, <2>1, <2>2, <2>3
<1>5. v'.dist > ApproachRadius /\ ~v'.approved => v'.alt = CruiseAlt
  <2> SUFFICES ASSUME v'.dist > ApproachRadius, ~v'.approved
               PROVE  v'.alt = CruiseAlt
    OBVIOUS
  <2>1. v.dist > ApproachRadius /\ ~Approved(v) /\ ~v.approved
    BY <1>1, <1>2 DEF Approved
  <2>2. v.alt = CruiseAlt
    BY <2>1 DEF FlightInv
  <2>3. QED
    BY <1>1, <1>2, <2>1, <2>2, NextAltCases
<1>6. AtLdp(v) => AtLdp(v')
  BY <1>1, <1>2 DEF AtLdp
<1>7. v'.approved => AtLdp(v') \/ v'.battery < EmergencyBattery
  <2>1. v.approved => AtLdp(v) \/ v.battery < EmergencyBattery
    BY DEF FlightInv
  <2>2. v.battery < EmergencyBattery => v'.battery < EmergencyBattery
    BY <1>1, <1>2
  <2>3. QED
    BY <1>2, <1>6, <2>1, <2>2 DEF Approved
<1>8. ~v'.approved => v'.battery >= EmergencyBattery - MaxDrain
  BY <1>1, <1>2 DEF Approved, MaxDrain
<1>9. v.battery >= EmergencyBattery - 10 * (CruiseAlt - v.alt) - MaxDrain
  <2>1. CASE v.approved
    BY <1>3, <2>1 DEF FlightInv
  <2>2. CASE ~v.approved
    <3>1. v.battery >= EmergencyBattery - MaxDrain
      BY <2>2 DEF FlightInv
    <3>2. QED
      BY <1>1, <3>1 DEF MaxDrain
  <2>3. QED
    BY <1>1, <2>1, <2>2
<1>10. v'.approved /\ v'.alt > 0 =>
         v'.battery >= EmergencyBattery - 10 * (CruiseAlt - v'.alt) - MaxDrain
  <2> SUFFICES ASSUME v'.approved, v'.alt > 0
               PROVE  v'.battery >= EmergencyBattery - 10 * (CruiseAlt - v'.alt) - MaxDrain
    OBVIOUS
  <2>1. v'.alt = v.alt - 20
    BY <1>1, <1>2, NextAltCases
  <2>2. QED
    BY <1>1, <1>2, <1>9, <2>1 DEF MaxDrain
<1>11. v'.approved => v'.battery >= Reserve
  BY <1>1, <1>2, <1>9, ReserveValue DEF MaxDrain
<1>12. QED
  BY <1>1, <1>2, <1>4, <1>5, <1>7, <1>8, <1>10, <1>11, <1>6 DEF FlightInv

LEMMA StepFlight == FlightInv /\ [FlightNext]_flightVars => FlightInv'
<1> SUFFICES ASSUME FlightInv, [FlightNext]_flightVars PROVE FlightInv'
  OBVIOUS
<1> USE MovementAssumption
<1>1. CASE UpdateMovement
  BY <1>1, TickFlight
<1>2. CASE StopVehicle
  <2>1. v.alt = 0 /\ v.approved
    BY <1>2 DEF StopVehicle, Touchdown, FlightInv, Vehicle
  <2>2. QED
    BY <1>2, <2>1 DEF StopVehicle, FlightInv, AtLdp
<1>3. CASE ApproveLanding
  <2>1. /\ v' \in Vehicle /\ v'.alt = v.alt /\ v'.dist = v.dist
        /\ v'.battery = v.battery /\ v'.waiting = v.waiting /\ v'.approved
        /\ v.alt \in Nat /\ v.battery \in Nat /\ v.approved \in BOOLEAN
    BY <1>3 DEF ApproveLanding, FlightInv, Vehicle
  <2>2. AtLdp(v) /\ AtLdp(v')
    BY <1>3, <2>1 DEF ApproveLanding, FlightInv, AtLdp
  <2>3. CASE v.approved
    BY <1>3, <2>1, <2>2, <2>3 DEF ApproveLanding, FlightInv
  <2>4. CASE ~v.approved
    <3>1. v.battery >= EmergencyBattery - MaxDrain /\ v.alt <= CruiseAlt
      BY <2>4 DEF FlightInv
    <3>2. /\ v.battery >= EmergencyBattery - 10 * (CruiseAlt - v.alt) - MaxDrain
          /\ v.battery >= Reserve
      BY <2>1, <3>1, ReserveValue DEF MaxDrain
    <3>3. QED
      BY <1>3, <2>1, <2>2, <3>1, <3>2 DEF ApproveLanding, FlightInv
  <2>5. QED
    BY <2>1, <2>3, <2>4
<1>4. CASE UNCHANGED flightVars
  BY <1>4 DEF flightVars, FlightInv, AtLdp
<1>5. QED
  BY <1>1, <1>2, <1>3, <1>4 DEF FlightNext

LEMMA FlightInvariant == FlightSpec => []FlightInv
BY InitFlight, StepFlight, PTL DEF FlightSpec

\* Types, the ceiling and the ground.
THEOREM FlightTypeCorrect == FlightSpec => []FlightTypeOK
<1>1. FlightInv => FlightTypeOK
  BY DEF FlightInv, FlightTypeOK
<1>2. QED
  BY <1>1, FlightInvariant, PTL

\* The emergency descent always ends with at least Reserve in the battery.
THEOREM ReserveKeptHolds == FlightSpec => []ReserveKept
<1>1. FlightInv => ReserveKept
  <2> SUFFICES ASSUME FlightInv PROVE ReserveKept
    OBVIOUS
  <2>1. CASE v.approved
    BY <2>1 DEF FlightInv, ReserveKept
  <2>2. CASE ~v.approved
    BY <2>2, ReserveValue, MovementAssumption
       DEF FlightInv, ReserveKept, MaxDrain, Vehicle
  <2>3. QED
    BY <2>1, <2>2
<1>2. QED
  BY <1>1, FlightInvariant, PTL

\* A touchdown away from the vertiport is an emergency.
THEOREM AwayOnlyInEmergencyHolds == FlightSpec => []AwayOnlyInEmergency
<1>1. FlightInv => AwayOnlyInEmergency
  BY DEF FlightInv, AwayOnlyInEmergency
<1>2. QED
  BY <1>1, FlightInvariant, PTL

\* An approved vehicle stays approved and never climbs.
THEOREM DescentIsFinalHolds == FlightSpec => DescentIsFinal
<1>1. FlightInv /\ [FlightNext]_flightVars =>
        [v.approved => v'.approved /\ v'.alt <= v.alt]_flightVars
  <2> SUFFICES ASSUME FlightInv, FlightNext, v.approved
               PROVE  v'.approved /\ v'.alt <= v.alt
    BY DEF flightVars
  <2>1. v \in Vehicle /\ v.alt \in Nat
    BY DEF FlightInv, Vehicle
  <2>2. CASE UpdateMovement
    <3>1. Approved(v)
      BY DEF Approved
    <3>2. v'.approved /\ v'.alt = NextAlt(v)
      BY <2>1, <2>2, <3>1, MoveBounds DEF UpdateMovement
    <3>3. QED
      BY <2>1, <3>1, <3>2, NextAltCases
  <2>3. CASE StopVehicle
    BY <2>1, <2>3 DEF StopVehicle
  <2>4. CASE ApproveLanding
    BY <2>1, <2>4 DEF ApproveLanding, Vehicle
  <2>5. QED
    BY <2>2, <2>3, <2>4 DEF FlightNext
<1>2. QED
  BY <1>1, FlightInvariant, PTL DEF FlightSpec, DescentIsFinal

-----------------------------------------------------------------------------
(* Fleet *)

FleetInv == TypeOK /\ OnlyFlyingTick /\ IsFiniteSet(flying) /\ FleetKept

\* The next k ids are k different ids.
LEMMA NextIdsCount ==
  ASSUME vehicleSeq \in Id, NEW k \in 1 .. IdSpace
  PROVE  /\ NextIds(k) \subseteq Id /\ SeqAfter(k) \in Id
         /\ IsFiniteSet(NextIds(k)) /\ Cardinality(NextIds(k)) = k
<1> USE FleetAssumption DEF Id
<1>1. \A i \in 1 .. k : Wrap(vehicleSeq + i) \in Id
  BY DEF Wrap
<1>2. \A i, j \in 1 .. k : Wrap(vehicleSeq + i) = Wrap(vehicleSeq + j) => i = j
  BY DEF Wrap
<1>3. NextIds(k) \subseteq Id /\ SeqAfter(k) \in Id
  BY <1>1 DEF NextIds, SeqAfter
<1>4. IsFiniteSet(1 .. k) /\ Cardinality(1 .. k) = k
  BY FS_Interval
<1> DEFINE f == [i \in 1 .. k |-> Wrap(vehicleSeq + i)]
<1>5. f \in Bijection(1 .. k, NextIds(k))
  <2>1. f \in [1 .. k -> NextIds(k)]
    BY DEF NextIds
  <2>2. \A i, j \in 1 .. k : f[i] = f[j] => i = j
    BY <1>2
  <2>3. \A n \in NextIds(k) : \E i \in 1 .. k : f[i] = n
    BY DEF NextIds
  <2> HIDE DEF f
  <2>4. QED
    BY <2>1, <2>2, <2>3 DEF Bijection, Injection, Surjection, IsInjective
<1>6. ExistsBijection(1 .. k, NextIds(k))
  BY <1>5 DEF ExistsBijection
<1>7. QED
  BY <1>3, <1>4, <1>6, FS_Bijection

LEMMA InitFleet == Init => FleetInv
<1> SUFFICES ASSUME Init PROVE FleetInv
  OBVIOUS
<1> USE FleetAssumption
<1>1. IsFiniteSet(1 .. FleetSize) /\ Cardinality(1 .. FleetSize) = FleetSize
  BY FS_Interval
<1>2. QED
  BY <1>1 DEF Init, FleetInv, TypeOK, OnlyFlyingTick, FleetKept, Id

LEMMA StepFleet == FleetInv /\ [Next]_vars => FleetInv'
<1> SUFFICES ASSUME FleetInv, [Next]_vars PROVE FleetInv'
  OBVIOUS
<1> USE FleetAssumption
<1>1. /\ vehicleSeq \in Id /\ flying \subseteq Id /\ ticking = flying
      /\ respawns \in Nat /\ resets \in Nat
      /\ IsFiniteSet(flying) /\ Cardinality(flying) \in Nat /\ FleetKept
  BY FS_CardinalityType DEF FleetInv, TypeOK, OnlyFlyingTick
<1>2. ASSUME NEW u \in Id, StopSimulation(u) PROVE FleetInv'
  <2>1. IsFiniteSet(flying') /\ Cardinality(flying') = Cardinality(flying) - 1
    BY <1>1, <1>2, FS_RemoveElement DEF StopSimulation
  <2>2. respawns' = respawns + 1 /\ resets' = resets
    BY <1>2 DEF StopSimulation
  <2>3. TypeOK' /\ OnlyFlyingTick'
    BY <1>1, <1>2 DEF StopSimulation, TypeOK, OnlyFlyingTick
  <2>4. FleetKept'
    BY <1>1, <2>1, <2>2 DEF FleetKept
  <2>5. QED
    BY <2>1, <2>3, <2>4 DEF FleetInv
<1>3. CASE Respawn
  <2>1. /\ NextIds(1) = {Wrap(vehicleSeq + 1)} /\ NextIds(1) \subseteq Id
        /\ SeqAfter(1) \in Id
    <3>1. 1 \in 1 .. IdSpace
      OBVIOUS
    <3>2. NextIds(1) = {Wrap(vehicleSeq + 1)}
      BY DEF NextIds
    <3>3. NextIds(1) \subseteq Id /\ SeqAfter(1) \in Id
      BY <1>1, <3>1, NextIdsCount
    <3>4. QED
      BY <3>2, <3>3
  <2>2. IsFiniteSet(flying') /\ Cardinality(flying') = Cardinality(flying) + 1
    BY <1>1, <1>3, <2>1, FS_AddElement DEF Respawn
  <2>3. respawns \in Nat \ {0} /\ respawns' = respawns - 1 /\ resets' = resets
    BY <1>1, <1>3 DEF Respawn
  <2>4. TypeOK' /\ OnlyFlyingTick'
    BY <1>1, <1>3, <2>1, <2>3 DEF Respawn, TypeOK, OnlyFlyingTick
  <2>5. FleetKept'
    BY <1>1, <2>2, <2>3 DEF FleetKept
  <2>6. QED
    BY <2>2, <2>4, <2>5 DEF FleetInv
<1>4. CASE ResetSimulation
  <2>1. /\ NextIds(FleetSize) \subseteq Id /\ SeqAfter(FleetSize) \in Id
        /\ IsFiniteSet(NextIds(FleetSize)) /\ Cardinality(NextIds(FleetSize)) = FleetSize
    BY <1>1, NextIdsCount
  <2>2. flying' = NextIds(FleetSize) /\ ticking' = NextIds(FleetSize)
    BY <1>1, <1>4 DEF ResetSimulation
  <2>3. respawns' = respawns /\ resets' = resets + 1 /\ vehicleSeq' = SeqAfter(FleetSize)
    BY <1>4 DEF ResetSimulation
  <2>4. TypeOK' /\ OnlyFlyingTick'
    BY <1>1, <2>1, <2>2, <2>3 DEF TypeOK, OnlyFlyingTick
  <2>5. FleetKept'
    BY <1>1, <2>1, <2>2, <2>3 DEF FleetKept
  <2>6. QED
    BY <2>1, <2>2, <2>4, <2>5 DEF FleetInv
<1>5. CASE UNCHANGED vars
  BY <1>5 DEF vars, FleetInv, TypeOK, OnlyFlyingTick, FleetKept
<1>6. QED
  BY <1>2, <1>3, <1>4, <1>5 DEF Next

LEMMA FleetInvariant == Spec => []FleetInv
BY InitFleet, StepFleet, PTL DEF Spec

\* Types, for any sequence of landings, respawns and resets.
THEOREM FleetTypeCorrect == Spec => []TypeOK
<1>1. FleetInv => TypeOK
  BY DEF FleetInv
<1>2. QED
  BY <1>1, FleetInvariant, PTL

\* No interval outlives its vehicle.
THEOREM OnlyFlyingTickHolds == Spec => []OnlyFlyingTick
<1>1. FleetInv => OnlyFlyingTick
  BY DEF FleetInv
<1>2. QED
  BY <1>1, FleetInvariant, PTL

\* Vehicles in the air and pending timers are never fewer than the fleet, and
\* exactly as many until a reset.
THEOREM FleetKeptHolds == Spec => []FleetKept
<1>1. FleetInv => FleetKept
  BY DEF FleetInv
<1>2. QED
  BY <1>1, FleetInvariant, PTL

-----------------------------------------------------------------------------
(* System *)

LandedSent == {u \in Id : Message("landed", u) \in ToSet(reports)}
LandSent == {u \in Id : Message("LAND", u) \in ToSet(commands)}
ResetSent == Message("RESET", Nobody) \in ToSet(commands)

\* Vehicles with a ZREM that waits: of an approval, of registerLanded after an
\* approval, of registerLanded after a uam/landed; and the DEL of a reset.
AppZrem == {u \in Id : Message("zrem", u) \in ToSet(app)}
GateZrem == {u \in Id : Message("zrem", u) \in ToSet(gateway)}
Registering == {u \in Id : Message("landedZrem", u) \in ToSet(gateway)}
ResetDel == Message("resetDel", Nobody) \in ToSet(gateway)

\* Vehicles that an approval under way will register.
Approving == AppZrem \cup ToSet(approving)

\* A vehicle's landing is in a channel at most once.
Once(s) ==
  \A i, j \in DOMAIN s : s[i] = s[j] /\ s[i].kind \in {"landed", "landedZrem"} => i = j

\* Vehicles that have started.
Started(S) == \A u \in S : u <= vehicleSeq

Channels ==
  /\ reports \in Seq(ReportMsg) /\ commands \in Seq(CommandMsg)
  /\ app \in Seq(AppCall) /\ gateway \in Seq(GatewayCall) /\ approving \in Seq(Id)
  /\ Once(reports) /\ Once(gateway)

Sets ==
  /\ waiting \subseteq flying /\ approved \subseteq flying /\ unheard \subseteq flying
  /\ queue \subseteq Id /\ landedUamIds \subseteq Id /\ excused \subseteq queue
  /\ saving \subseteq Id /\ clearing \in Nat /\ up \in BOOLEAN
  /\ touchedDown \subseteq Id \ flying

\* Ids are not used before they are given out.
Fresh ==
  /\ Started(flying) /\ Started(touchedDown)
  /\ Started(landedUamIds) /\ Started(Approving)

\* The registered and those whom an approval will register.
Blocked ==
  \A u \in (landedUamIds \cup Approving) \cap flying : u \in approved \cup unheard \cup LandSent

\* A queued vehicle that is stranded has an excuse, or is on its way out.
Ghosts == \A u \in queue : Stranded(u) => u \in excused \cup unreported \/ Removal(u)

\* Every landing is in one place at a time, until its row is written or lost.
Audit ==
  /\ touchedDown = landingEvents \cup unsaved \cup unreported \cup InHand \cup LandedSent
  /\ landingEvents \cap (unsaved \cup unreported) = {}
  /\ (LandedSent \cup InHand) \cap (landingEvents \cup unsaved \cup unreported) = {}
  /\ LandedSent \cap InHand = {} /\ Registering \cap saving = {}

Parts == Sets /\ Fresh /\ Blocked /\ Ghosts /\ Audit
SystemInv == FleetInv /\ Channels /\ Parts

-----------------------------------------------------------------------------
(* Messages *)

LEMMA Appended ==
  ASSUME NEW S, NEW s \in Seq(S), NEW e \in S
  PROVE  Append(s, e) \in Seq(S) /\ ToSet(Append(s, e)) = ToSet(s) \cup {e}
<1> DEFINE r == Append(s, e)
<1>1. PICK n \in Nat : n = Len(s)
  OBVIOUS
<1>2. /\ r \in Seq(S) /\ DOMAIN r = 1 .. (n + 1) /\ r[n + 1] = e
      /\ DOMAIN s = 1 .. n /\ \A i \in 1 .. n : r[i] = s[i]
  BY <1>1
<1> HIDE DEF r
<1>3. ToSet(r) \subseteq ToSet(s) \cup {e}
  BY <1>2 DEF ToSet
<1>4. ToSet(s) \cup {e} \subseteq ToSet(r)
  BY <1>2 DEF ToSet
<1>5. QED
  BY <1>2, <1>3, <1>4 DEF r

LEMMA Taken ==
  ASSUME NEW S, NEW s \in Seq(S), s # << >>
  PROVE  /\ Tail(s) \in Seq(S) /\ Head(s) \in S
         /\ ToSet(s) = ToSet(Tail(s)) \cup {Head(s)}
<1> DEFINE r == Tail(s)
<1>1. PICK n \in Nat : Len(s) = n + 1
  <2>1. Len(s) \in Nat /\ Len(s) > 0
    OBVIOUS
  <2>2. Len(s) - 1 \in Nat /\ Len(s) = (Len(s) - 1) + 1
    BY <2>1
  <2>3. QED
    BY <2>2
<1>2. /\ r \in Seq(S) /\ DOMAIN r = 1 .. n /\ Head(s) = s[1] /\ s[1] \in S
      /\ DOMAIN s = 1 .. (n + 1) /\ \A i \in 1 .. n : r[i] = s[i + 1]
  BY <1>1
<1> HIDE DEF r
<1>3. ToSet(r) \cup {s[1]} \subseteq ToSet(s)
  BY <1>2 DEF ToSet
<1>4. ToSet(s) \subseteq ToSet(r) \cup {s[1]}
  <2>1. ASSUME NEW i \in 1 .. (n + 1) PROVE s[i] \in ToSet(r) \cup {s[1]}
    <3>1. CASE i = 1
      BY <3>1
    <3>2. CASE i # 1
      <4>1. i - 1 \in 1 .. n /\ (i - 1) + 1 = i
        BY <3>2
      <4>2. r[i - 1] = s[i]
        BY <1>2, <4>1
      <4>3. QED
        BY <1>2, <4>1, <4>2 DEF ToSet
    <3>3. QED
      BY <3>1, <3>2
  <2>2. QED
    BY <1>2, <2>1 DEF ToSet
<1>5. QED
  BY <1>2, <1>3, <1>4 DEF r

LEMMA OnceAppended ==
  ASSUME NEW S, NEW s \in Seq(S), NEW e \in S, Once(s),
         e.kind \notin {"landed", "landedZrem"} \/ e \notin ToSet(s)
  PROVE  Once(Append(s, e))
<1> DEFINE r == Append(s, e)
<1>1. PICK n \in Nat : n = Len(s)
  OBVIOUS
<1>2. /\ DOMAIN r = 1 .. (n + 1) /\ r[n + 1] = e
      /\ DOMAIN s = 1 .. n /\ \A i \in 1 .. n : r[i] = s[i]
  BY <1>1
<1> HIDE DEF r
<1>3. \A i \in 1 .. (n + 1) : i \in 1 .. n \/ i = n + 1
  OBVIOUS
<1>4. Once(r)
  BY <1>2, <1>3 DEF Once, ToSet
<1>5. QED
  BY <1>4 DEF r

LEMMA OnceTaken ==
  ASSUME NEW S, NEW s \in Seq(S), s # << >>, Once(s)
  PROVE  /\ Once(Tail(s))
         /\ Head(s).kind \in {"landed", "landedZrem"} => Head(s) \notin ToSet(Tail(s))
<1> DEFINE r == Tail(s)
<1>1. PICK n \in Nat : Len(s) = n + 1
  <2>1. Len(s) \in Nat /\ Len(s) > 0
    OBVIOUS
  <2>2. Len(s) - 1 \in Nat /\ Len(s) = (Len(s) - 1) + 1
    BY <2>1
  <2>3. QED
    BY <2>2
<1>2. /\ DOMAIN r = 1 .. n /\ Head(s) = s[1]
      /\ DOMAIN s = 1 .. (n + 1) /\ \A i \in 1 .. n : r[i] = s[i + 1]
  BY <1>1
<1> HIDE DEF r
<1>3. \A i \in 1 .. n : i + 1 \in 1 .. (n + 1) /\ i + 1 # 1
  OBVIOUS
<1>4. 1 \in 1 .. (n + 1)
  OBVIOUS
<1>5. Once(r)
  <2> SUFFICES ASSUME NEW i \in 1 .. n, NEW j \in 1 .. n, r[i] = r[j],
                      r[i].kind \in {"landed", "landedZrem"}
               PROVE  i = j
    BY <1>2 DEF Once
  <2>1. s[i + 1] = s[j + 1] /\ s[i + 1].kind \in {"landed", "landedZrem"}
    BY <1>2
  <2>2. i + 1 \in DOMAIN s /\ j + 1 \in DOMAIN s
    BY <1>2, <1>3
  <2>3. i + 1 = j + 1
    BY <2>1, <2>2 DEF Once
  <2>4. QED
    BY <2>3
<1>6. Head(s).kind \in {"landed", "landedZrem"} => Head(s) \notin ToSet(r)
  BY <1>2, <1>3, <1>4 DEF Once, ToSet
<1>7. QED
  BY <1>5, <1>6 DEF r

LEMMA Messages ==
  /\ \A k, l, u, w : Message(k, u) = Message(l, w) <=> k = l /\ u = w
  /\ \A k, u : Message(k, u).kind = k /\ Message(k, u).uam = u
  /\ \A m \in ReportMsg : m = Message(m.kind, m.uam) /\ m.uam \in Id
  /\ \A u \in Id : Message("status", u) \in ReportMsg /\ Message("landed", u) \in ReportMsg
<1>1. \A k, l, u, w : Message(k, u) = Message(l, w) <=> k = l /\ u = w
  BY DEF Message
<1>2. \A k, u : Message(k, u).kind = k /\ Message(k, u).uam = u
  BY DEF Message
<1>3. \A m \in ReportMsg : m = Message(m.kind, m.uam) /\ m.uam \in Id
  BY DEF Message, ReportMsg
<1>4. \A u \in Id : Message("status", u) \in ReportMsg /\ Message("landed", u) \in ReportMsg
  BY DEF Message, ReportMsg
<1>5. QED
  BY <1>1, <1>2, <1>3, <1>4

LEMMA Commands ==
  /\ \A m \in CommandMsg : \/ m.uam \in Id /\ m = Message("LAND", m.uam) /\ m.kind = "LAND"
                           \/ m = Message("RESET", Nobody) /\ m.kind = "RESET"
  /\ \A u \in Id : Message("LAND", u) \in CommandMsg
  /\ Message("RESET", Nobody) \in CommandMsg
BY DEF Message, CommandMsg

\* A message that is sent, and one that is taken, on either channel.
LEMMA StatusSent ==
  ASSUME Channels, NEW u \in Id, Report("status", u)
  PROVE  /\ reports' \in Seq(ReportMsg) /\ Once(reports') /\ LandedSent' = LandedSent
         /\ ToSet(reports') = ToSet(reports) \cup {Message("status", u)}
<1>1. reports' = Append(reports, Message("status", u)) /\ Message("status", u) \in ReportMsg
        /\ reports \in Seq(ReportMsg)
  BY Messages DEF Report, Channels
<1>2. reports' \in Seq(ReportMsg) /\ ToSet(reports') = ToSet(reports) \cup {Message("status", u)}
  BY <1>1, Appended
<1>3. Message("status", u).kind \notin {"landed", "landedZrem"}
  BY Messages
<1>4. Once(reports')
  BY <1>1, <1>3, OnceAppended DEF Channels
<1>5. LandedSent' = LandedSent
  BY <1>2, Messages DEF LandedSent
<1>6. QED
  BY <1>2, <1>4, <1>5

LEMMA LandingSent ==
  ASSUME Channels, NEW u \in Id, u \notin LandedSent, Report("landed", u)
  PROVE  /\ reports' \in Seq(ReportMsg) /\ Once(reports') /\ LandedSent' = LandedSent \cup {u}
         /\ ToSet(reports') = ToSet(reports) \cup {Message("landed", u)}
<1>1. reports' = Append(reports, Message("landed", u)) /\ Message("landed", u) \in ReportMsg
        /\ reports \in Seq(ReportMsg)
  BY Messages DEF Report, Channels
<1>2. reports' \in Seq(ReportMsg) /\ ToSet(reports') = ToSet(reports) \cup {Message("landed", u)}
  BY <1>1, Appended
<1>3. Message("landed", u) \notin ToSet(reports)
  BY DEF LandedSent
<1>4. Once(reports')
  BY <1>1, <1>3, OnceAppended DEF Channels
<1>5. LandedSent' = LandedSent \cup {u}
  BY <1>2, Messages DEF LandedSent
<1>6. QED
  BY <1>2, <1>4, <1>5

LEMMA ReportTaken ==
  ASSUME Channels, reports # << >>, reports' = Tail(reports)
  PROVE  /\ reports' \in Seq(ReportMsg) /\ Once(reports')
         /\ ToSet(reports') \subseteq ToSet(reports) /\ Head(reports) \in ToSet(reports)
         /\ Head(reports) \in ReportMsg
         /\ Head(reports).kind # "landed" => LandedSent' = LandedSent
         /\ Head(reports).kind = "landed" =>
              /\ Head(reports) = Message("landed", Head(reports).uam)
              /\ Head(reports).uam \notin LandedSent'
              /\ LandedSent = LandedSent' \cup {Head(reports).uam}
<1>1. /\ reports' \in Seq(ReportMsg) /\ Head(reports) \in ReportMsg
      /\ ToSet(reports) = ToSet(reports') \cup {Head(reports)}
  BY Taken DEF Channels
<1>2. Once(reports') /\ (Head(reports).kind = "landed" => Head(reports) \notin ToSet(reports'))
  BY OnceTaken DEF Channels
<1>3. PICK m \in ReportMsg : m = Head(reports) /\ m = Message(m.kind, m.uam) /\ m.uam \in Id
  BY <1>1, Messages
<1>4. m.kind # "landed" => LandedSent' = LandedSent
  BY <1>1, <1>3, Messages DEF LandedSent
<1>5. m.kind = "landed" => m.uam \notin LandedSent' /\ LandedSent = LandedSent' \cup {m.uam}
  BY <1>1, <1>2, <1>3, Messages DEF LandedSent
<1>6. QED
  BY <1>1, <1>2, <1>3, <1>4, <1>5

LEMMA CommandTaken ==
  ASSUME Channels, commands # << >>, commands' = Tail(commands)
  PROVE  /\ commands' \in Seq(CommandMsg) /\ LandSent' \subseteq LandSent
         /\ ResetSent' => ResetSent
         /\ \/ /\ Head(commands).kind = "LAND" /\ Head(commands).uam \in Id
               /\ LandSent \subseteq LandSent' \cup {Head(commands).uam}
            \/ /\ Head(commands).kind = "RESET" /\ Head(commands).uam = Nobody
               /\ ResetSent /\ LandSent \subseteq LandSent'
<1>1. /\ commands' \in Seq(CommandMsg) /\ Head(commands) \in CommandMsg
      /\ ToSet(commands) = ToSet(commands') \cup {Head(commands)}
  BY Taken DEF Channels
<1>2. LandSent' \subseteq LandSent /\ (ResetSent' => ResetSent)
  BY <1>1 DEF LandSent, ResetSent
<1>3. PICK m \in CommandMsg : m = Head(commands)
  BY <1>1
<1>4. CASE m.uam \in Id /\ m = Message("LAND", m.uam) /\ m.kind = "LAND"
  BY <1>1, <1>2, <1>3, <1>4, Messages DEF LandSent
<1>5. CASE m = Message("RESET", Nobody) /\ m.kind = "RESET"
  BY <1>1, <1>2, <1>3, <1>5, Messages DEF LandSent, ResetSent
<1>6. QED
  BY <1>3, <1>4, <1>5, Commands

LEMMA CommandSent ==
  ASSUME Channels, NEW m \in CommandMsg, commands' = Append(commands, m)
  PROVE  /\ commands' \in Seq(CommandMsg)
         /\ LandSent' = LandSent \cup {u \in Id : m = Message("LAND", u)}
         /\ ResetSent' <=> ResetSent \/ m = Message("RESET", Nobody)
<1>1. commands' \in Seq(CommandMsg) /\ ToSet(commands') = ToSet(commands) \cup {m}
  BY Appended DEF Channels
<1>2. QED
  BY <1>1 DEF LandSent, ResetSent

LEMMA Calls ==
  /\ \A m \in AppCall : /\ m.kind \in {"zadd", "zrem"} /\ m.uam \in Id
                        /\ m = Message(m.kind, m.uam)
  /\ \A m \in GatewayCall :
       \/ m.kind \in {"zrem", "landedZrem"} /\ m.uam \in Id /\ m = Message(m.kind, m.uam)
       \/ m.kind \in {"resetDel", "bootDel"} /\ m = Message(m.kind, Nobody)
  /\ \A u \in Id : /\ Message("zadd", u) \in AppCall /\ Message("zrem", u) \in AppCall
                   /\ Message("zrem", u) \in GatewayCall
                   /\ Message("landedZrem", u) \in GatewayCall
  /\ Message("resetDel", Nobody) \in GatewayCall /\ Message("bootDel", Nobody) \in GatewayCall
BY DEF Message, AppCall, GatewayCall

\* A call that is made, and one that Redis takes, on either connection.
LEMMA AppCalled ==
  ASSUME Channels, NEW m \in AppCall, app' = Append(app, m)
  PROVE  /\ app' \in Seq(AppCall)
         /\ AppZrem' = AppZrem \cup {u \in Id : m = Message("zrem", u)}
<1>1. app' \in Seq(AppCall) /\ ToSet(app') = ToSet(app) \cup {m}
  BY Appended DEF Channels
<1>2. QED
  BY <1>1 DEF AppZrem

LEMMA AppTaken ==
  ASSUME Channels, app # << >>, app' = Tail(app)
  PROVE  /\ app' \in Seq(AppCall) /\ AppZrem' \subseteq AppZrem
         /\ Head(app).uam \in Id /\ Head(app) = Message(Head(app).kind, Head(app).uam)
         /\ \/ Head(app).kind = "zadd" /\ AppZrem' = AppZrem
            \/ Head(app).kind = "zrem" /\ AppZrem = AppZrem' \cup {Head(app).uam}
<1>1. /\ app' \in Seq(AppCall) /\ Head(app) \in AppCall
      /\ ToSet(app) = ToSet(app') \cup {Head(app)}
  BY Taken DEF Channels
<1>2. PICK m \in AppCall : m = Head(app)
  BY <1>1
<1>3. m.kind \in {"zadd", "zrem"} /\ m.uam \in Id /\ m = Message(m.kind, m.uam)
  BY Calls
<1>4. AppZrem' \subseteq AppZrem
  BY <1>1 DEF AppZrem
<1>5. m.kind = "zadd" => AppZrem' = AppZrem
  BY <1>1, <1>2, <1>3, Messages DEF AppZrem
<1>6. m.kind = "zrem" => AppZrem = AppZrem' \cup {m.uam}
  BY <1>1, <1>2, <1>3, Messages DEF AppZrem
<1>7. QED
  BY <1>1, <1>2, <1>3, <1>4, <1>5, <1>6

LEMMA GatewayCalled ==
  ASSUME Channels, NEW m \in GatewayCall, m.kind # "landedZrem" \/ m.uam \notin Registering,
         gateway' = Append(gateway, m)
  PROVE  /\ gateway' \in Seq(GatewayCall) /\ Once(gateway')
         /\ GateZrem' = GateZrem \cup {u \in Id : m = Message("zrem", u)}
         /\ Registering' = Registering \cup {u \in Id : m = Message("landedZrem", u)}
         /\ ResetDel' <=> ResetDel \/ m = Message("resetDel", Nobody)
<1>1. gateway' \in Seq(GatewayCall) /\ ToSet(gateway') = ToSet(gateway) \cup {m}
  BY Appended DEF Channels
<1>2. m.kind \notin {"landed", "landedZrem"} \/ m \notin ToSet(gateway)
  BY Calls, Messages DEF Registering
<1>3. Once(gateway')
  BY <1>2, OnceAppended DEF Channels
<1>4. QED
  BY <1>1, <1>3 DEF GateZrem, Registering, ResetDel

LEMMA GatewayTaken ==
  ASSUME Channels, gateway # << >>, gateway' = Tail(gateway)
  PROVE  /\ gateway' \in Seq(GatewayCall) /\ Once(gateway')
         /\ GateZrem' \subseteq GateZrem /\ Registering' \subseteq Registering
         /\ \/ /\ Head(gateway).kind = "zrem" /\ Head(gateway).uam \in Id
               /\ GateZrem = GateZrem' \cup {Head(gateway).uam}
               /\ Registering' = Registering /\ ResetDel' = ResetDel
            \/ /\ Head(gateway).kind = "landedZrem" /\ Head(gateway).uam \in Id
               /\ Registering = Registering' \cup {Head(gateway).uam}
               /\ Head(gateway).uam \notin Registering'
               /\ GateZrem' = GateZrem /\ ResetDel' = ResetDel
            \/ /\ Head(gateway).kind \in {"resetDel", "bootDel"}
               /\ GateZrem' = GateZrem /\ Registering' = Registering
<1>1. /\ gateway' \in Seq(GatewayCall) /\ Head(gateway) \in GatewayCall
      /\ ToSet(gateway) = ToSet(gateway') \cup {Head(gateway)}
  BY Taken DEF Channels
<1>2. /\ Once(gateway')
      /\ Head(gateway).kind = "landedZrem" => Head(gateway) \notin ToSet(gateway')
  BY OnceTaken DEF Channels
<1>3. PICK m \in GatewayCall : m = Head(gateway)
  BY <1>1
<1>4. GateZrem' \subseteq GateZrem /\ Registering' \subseteq Registering
  BY <1>1 DEF GateZrem, Registering
<1>5. CASE m.kind = "zrem" /\ m.uam \in Id /\ m = Message("zrem", m.uam)
  BY <1>1, <1>2, <1>3, <1>4, <1>5, Messages DEF GateZrem, Registering, ResetDel
<1>6. CASE m.kind = "landedZrem" /\ m.uam \in Id /\ m = Message("landedZrem", m.uam)
  BY <1>1, <1>2, <1>3, <1>4, <1>6, Messages DEF GateZrem, Registering, ResetDel
<1>7. CASE m.kind \in {"resetDel", "bootDel"} /\ m = Message(m.kind, Nobody)
  BY <1>1, <1>2, <1>3, <1>4, <1>7, Messages DEF GateZrem, Registering
<1>8. QED
  BY <1>5, <1>6, <1>7, Calls

\* registerLanded blocks the vehicle; if it was not blocked, a ZREM follows.
LEMMA Registered ==
  ASSUME Channels, NEW u \in Id, NEW kind \in {"zrem", "landedZrem"}, RegisterLanded(u, kind),
         kind = "zrem" \/ u \notin Registering
  PROVE  /\ gateway' \in Seq(GatewayCall) /\ Once(gateway')
         /\ landedUamIds' = landedUamIds \cup {u}
         /\ u \notin landedUamIds => u \in GateZrem' \cup Registering'
         /\ GateZrem \subseteq GateZrem' /\ (ResetDel' <=> ResetDel)
         /\ Registering' = IF kind = "landedZrem" /\ u \notin landedUamIds
                           THEN Registering \cup {u} ELSE Registering
<1>1. CASE u \in landedUamIds
  <2>1. UNCHANGED <<landedUamIds, gateway>>
    BY <1>1 DEF RegisterLanded
  <2>2. QED
    BY <1>1, <2>1 DEF Channels, GateZrem, Registering, ResetDel
<1>2. CASE u \notin landedUamIds
  <2>1. landedUamIds' = landedUamIds \cup {u} /\ gateway' = Append(gateway, Message(kind, u))
    BY <1>2 DEF RegisterLanded
  <2>2. Message(kind, u) \in GatewayCall /\ Message(kind, u).kind = kind
          /\ Message(kind, u).uam = u
    BY Calls, Messages
  <2>3. /\ gateway' \in Seq(GatewayCall) /\ Once(gateway')
        /\ GateZrem' = GateZrem \cup {w \in Id : Message(kind, u) = Message("zrem", w)}
        /\ Registering' = Registering \cup {w \in Id : Message(kind, u) = Message("landedZrem", w)}
        /\ ResetDel' <=> ResetDel \/ Message(kind, u) = Message("resetDel", Nobody)
    BY <2>1, <2>2, GatewayCalled
  <2>4. /\ GateZrem \subseteq GateZrem' /\ (ResetDel' <=> ResetDel)
        /\ kind = "zrem" => u \in GateZrem' /\ Registering' = Registering
        /\ kind = "landedZrem" => Registering' = Registering \cup {u}
    BY <2>3, Messages
  <2>5. QED
    BY <1>2, <2>1, <2>3, <2>4
<1>3. QED
  BY <1>1, <1>2

\* What strands a vehicle, and what takes it out, in terms of the channels.
LEMMA Views ==
  ASSUME NEW u \in Id
  PROVE  /\ Stranded(u) <=> \/ u \in landedUamIds
                            \/ u \notin LandedSent /\ (u \notin flying \/ clearing > 0 \/ ResetSent)
         /\ Removal(u) <=> ~up \/ u \in AppZrem \cup GateZrem \cup Registering \/ ResetDel
         /\ Stranded(u)' <=>
              \/ u \in landedUamIds'
              \/ u \notin LandedSent' /\ (u \notin flying' \/ clearing' > 0 \/ ResetSent')
         /\ Removal(u)' <=> \/ ~up'
                            \/ u \in AppZrem' \cup GateZrem' \cup Registering' \/ ResetDel'
BY DEF Stranded, ResetComing, LandedSent, ResetSent, Removal, AppZrem, GateZrem, Registering,
       ResetDel

-----------------------------------------------------------------------------
(* The steps of the simulator *)

LEMMA FleetFacts ==
  ASSUME FleetInv
  PROVE  flying \subseteq Id /\ ticking = flying /\ vehicleSeq \in Id /\ Id \subseteq Nat
BY DEF FleetInv, TypeOK, OnlyFlyingTick, Id

\* The scheduler's side of the invariant, when the scheduler does nothing.
SchedulerViews ==
  UNCHANGED <<AppZrem, GateZrem, Registering, ResetDel, Approving, InHand>>

LEMMA Idle == UNCHANGED scheduler => SchedulerViews
BY DEF scheduler, handlers, SchedulerViews, AppZrem, GateZrem, Registering, ResetDel, Approving,
       InHand

LEMMA InHandSets == InHand = Registering \cup saving
BY DEF InHand, Registering

LEMMA FlyOK ==
  ASSUME SystemInv, NEW u \in Id, Fly(u)
  PROVE  Channels' /\ Parts'
<1> USE DEF SystemInv, Parts
<1>1. /\ u \in flying /\ waiting' \in {waiting, waiting \cup {u}}
      /\ approved' \in {approved, approved \cup {u}} /\ Report("status", u)
      /\ UNCHANGED <<vehicleSeq, flying, commands, queue, landedUamIds, app, gateway, approving,
                     saving, clearing, up, landingEvents, unsaved, touchedDown, unreported,
                     excused, unheard>>
      /\ SchedulerViews
  BY FleetFacts, Idle DEF Fly, vars, scheduler, handlers, audit, landings
<1>2. /\ reports' \in Seq(ReportMsg) /\ Once(reports') /\ LandedSent' = LandedSent
  BY <1>1, StatusSent
<1>3. Channels' /\ LandSent' = LandSent /\ (ResetSent' <=> ResetSent)
  BY <1>1, <1>2 DEF Channels, LandSent, ResetSent
<1>4. Sets'
  BY <1>1 DEF Sets
<1>5. Fresh' /\ Blocked'
  BY <1>1, <1>3 DEF Fresh, Started, Blocked, SchedulerViews
<1>6. Ghosts'
  <2>1. \A w \in Id : (Stranded(w)' <=> Stranded(w)) /\ (Removal(w)' <=> Removal(w))
    BY <1>1, <1>2, <1>3, Views DEF SchedulerViews
  <2>2. QED
    BY <1>1, <2>1 DEF Ghosts, Sets
<1>7. Audit'
  BY <1>1, <1>2 DEF Audit, SchedulerViews
<1>8. QED
  BY <1>3, <1>4, <1>5, <1>6, <1>7

LEMMA TouchDownOK ==
  ASSUME SystemInv, NEW u \in Id, TouchDown(u)
  PROVE  Channels' /\ Parts'
<1> USE DEF SystemInv, Parts
<1>1. /\ u \in flying /\ flying' = flying \ {u} /\ approved' = approved \ {u}
      /\ waiting' = waiting \ {u} /\ unheard' = unheard \ {u}
      /\ touchedDown' = touchedDown \cup {u} /\ Report("landed", u)
      /\ UNCHANGED <<vehicleSeq, commands, queue, landedUamIds, app, gateway, approving,
                     saving, clearing, up, landingEvents, unsaved, unreported, excused>>
      /\ SchedulerViews
  BY FleetFacts, Idle DEF TouchDown, StopSimulation, scheduler, handlers, audit
<1>2. u \notin touchedDown /\ u \notin LandedSent
  BY <1>1 DEF Sets, Audit
<1>3. /\ reports' \in Seq(ReportMsg) /\ Once(reports') /\ LandedSent' = LandedSent \cup {u}
  BY <1>1, <1>2, LandingSent
<1>4. Channels' /\ LandSent' = LandSent /\ (ResetSent' <=> ResetSent)
  BY <1>1, <1>3 DEF Channels, LandSent, ResetSent
<1>5. Sets'
  BY <1>1 DEF Sets
<1>6. Fresh' /\ Blocked'
  BY <1>1, <1>4 DEF Fresh, Started, Blocked, SchedulerViews
<1>7. Ghosts'
  <2>1. \A w \in Id : (Stranded(w)' => Stranded(w)) /\ (Removal(w)' <=> Removal(w))
    BY <1>1, <1>3, <1>4, Views DEF SchedulerViews
  <2>2. QED
    BY <1>1, <2>1 DEF Ghosts, Sets
<1>8. Audit'
  BY <1>1, <1>2, <1>3 DEF Audit, SchedulerViews
<1>9. QED
  BY <1>4, <1>5, <1>6, <1>7, <1>8

\* While ids are left, those that are given out are new.
LEMMA NewIds ==
  ASSUME vehicleSeq \in Id, NEW k \in 1 .. IdSpace, IdsLeft(k)
  PROVE  /\ \A n \in NextIds(k) : n > vehicleSeq /\ n <= SeqAfter(k)
         /\ SeqAfter(k) >= vehicleSeq /\ NextIds(k) \subseteq Id
<1>1. IdSpace \in Nat /\ vehicleSeq \in Nat /\ k \in Nat /\ vehicleSeq + k <= IdSpace
  BY FleetAssumption DEF Id, IdsLeft
<1>2. SeqAfter(k) = vehicleSeq + k
  BY <1>1 DEF SeqAfter, Wrap
<1>3. \A i \in 1 .. k : Wrap(vehicleSeq + i) = vehicleSeq + i
  BY <1>1 DEF Wrap
<1>4. NextIds(k) = {vehicleSeq + i : i \in 1 .. k}
  BY <1>3 DEF NextIds
<1>5. \A n \in NextIds(k) : n \in Nat /\ n > vehicleSeq /\ n <= vehicleSeq + k
  BY <1>1, <1>4
<1>6. QED
  BY <1>1, <1>2, <1>5 DEF Id

\* New vehicles start, beside those in the air or instead of them.
LEMMA StartOK ==
  ASSUME SystemInv, NEW new \in SUBSET Id, \A n \in new : n > vehicleSeq /\ n <= vehicleSeq',
         vehicleSeq' \in Id, vehicleSeq' >= vehicleSeq,
         \/ /\ flying' = flying \cup new
            /\ UNCHANGED <<waiting, approved, unheard, commands>>
         \/ /\ flying' = new /\ waiting' = {} /\ approved' = {} /\ unheard' = {}
            /\ commands' \in Seq(CommandMsg) /\ ResetSent /\ LandSent \subseteq LandSent'
            /\ (ResetSent' => ResetSent),
         UNCHANGED <<reports, scheduler, landingEvents, unsaved, touchedDown, unreported, excused>>
  PROVE  Channels' /\ Parts'
<1> USE DEF SystemInv, Parts
<1>1. /\ UNCHANGED <<queue, landedUamIds, app, gateway, approving, saving, clearing, up>>
      /\ SchedulerViews
  BY Idle DEF scheduler, handlers
<1>2. Channels' /\ LandedSent' = LandedSent
  BY <1>1 DEF Channels, LandedSent
<1>3. LandSent \subseteq LandSent' /\ (ResetSent' => ResetSent)
  BY DEF LandSent, ResetSent
<1>4. \A n \in Id : n \in Nat
  BY DEF Id
<1>5. Approving \subseteq Id
  BY DEF Channels, Approving, AppZrem, ToSet
<1>6. new \cap touchedDown = {} /\ new \cap (landedUamIds \cup Approving) = {}
  BY <1>4, <1>5, FleetFacts DEF Fresh, Started, Sets
<1>7. Sets'
  BY <1>1, <1>6, FleetFacts DEF Sets
<1>8. Fresh'
  <2>1. Started(flying)'
    BY <1>4, FleetFacts DEF Fresh, Started
  <2>2. Started(touchedDown)' /\ Started(landedUamIds)' /\ Started(Approving)'
    BY <1>1, <1>4, <1>5, FleetFacts DEF Fresh, Started, Sets, SchedulerViews
  <2>3. QED
    BY <2>1, <2>2 DEF Fresh
<1>9. Blocked'
  BY <1>1, <1>3, <1>6 DEF Blocked, SchedulerViews
<1>10. Ghosts'
  <2>1. \A w \in Id : (Stranded(w)' => Stranded(w)) /\ (Removal(w)' <=> Removal(w))
    BY <1>1, <1>2, <1>3, Views DEF SchedulerViews
  <2>2. QED
    BY <1>1, <2>1 DEF Ghosts, Sets
<1>11. Audit'
  BY <1>1, <1>2 DEF Audit, SchedulerViews
<1>12. QED
  BY <1>2, <1>7, <1>8, <1>9, <1>10, <1>11

LEMMA StartNextOK == SystemInv /\ StartNext => Channels' /\ Parts'
<1> SUFFICES ASSUME SystemInv, StartNext PROVE Channels' /\ Parts'
  OBVIOUS
<1>1. 1 \in 1 .. IdSpace /\ vehicleSeq \in Id
  BY FleetAssumption, FleetFacts DEF SystemInv
<1>2. IdsLeft(1) /\ vehicleSeq' = SeqAfter(1) /\ flying' = flying \cup NextIds(1)
  BY DEF StartNext, Respawn
<1>3. /\ \A n \in NextIds(1) : n > vehicleSeq /\ n <= vehicleSeq'
      /\ vehicleSeq' >= vehicleSeq /\ NextIds(1) \subseteq Id /\ vehicleSeq' \in Id
  BY <1>1, <1>2, NewIds, NextIdsCount
<1>4. UNCHANGED <<waiting, approved, unheard, commands, reports, scheduler, landingEvents,
                  unsaved, touchedDown, unreported, excused>>
  BY DEF StartNext, audit, landings
<1>5. QED
  BY <1>2, <1>3, <1>4, StartOK

LEMMA HandleResetCommandOK == SystemInv /\ HandleResetCommand => Channels' /\ Parts'
<1> SUFFICES ASSUME SystemInv, HandleResetCommand PROVE Channels' /\ Parts'
  OBVIOUS
<1>1. FleetSize \in 1 .. IdSpace /\ vehicleSeq \in Id
  BY FleetAssumption, FleetFacts DEF SystemInv
<1>2. IdsLeft(FleetSize) /\ vehicleSeq' = SeqAfter(FleetSize) /\ flying' = NextIds(FleetSize)
  BY DEF HandleResetCommand, ResetSimulation
<1>3. /\ \A n \in NextIds(FleetSize) : n > vehicleSeq /\ n <= vehicleSeq'
      /\ vehicleSeq' >= vehicleSeq /\ NextIds(FleetSize) \subseteq Id /\ vehicleSeq' \in Id
  BY <1>1, <1>2, NewIds, NextIdsCount
<1>4. /\ waiting' = {} /\ approved' = {} /\ unheard' = {}
      /\ UNCHANGED <<reports, scheduler, landingEvents, unsaved, touchedDown, unreported, excused>>
  BY DEF HandleResetCommand, audit, landings
<1>5. Channels /\ commands # << >> /\ commands' = Tail(commands) /\ Head(commands).kind = "RESET"
  BY DEF HandleResetCommand, Take, SystemInv
<1>6. /\ commands' \in Seq(CommandMsg) /\ ResetSent /\ LandSent \subseteq LandSent'
      /\ ResetSent' => ResetSent
  BY <1>5, CommandTaken
<1>7. QED
  BY <1>2, <1>3, <1>4, <1>6, StartOK

LEMMA HandleLandingCommandOK == SystemInv /\ HandleLandingCommand => Channels' /\ Parts'
<1> SUFFICES ASSUME SystemInv, HandleLandingCommand PROVE Channels' /\ Parts'
  OBVIOUS
<1> USE DEF SystemInv, Parts
<1>1. Channels /\ commands # << >> /\ commands' = Tail(commands) /\ Head(commands).kind = "LAND"
  BY DEF HandleLandingCommand, Take
<1>2. PICK u \in Id : /\ u = Head(commands).uam /\ LandSent \subseteq LandSent' \cup {u}
                     /\ commands' \in Seq(CommandMsg) /\ (ResetSent' => ResetSent)
  BY <1>1, CommandTaken
<1>3. /\ approved' = approved \cup ({u} \cap waiting)
      /\ unheard' = unheard \cup ({u} \cap (flying \ waiting))
      /\ UNCHANGED <<vehicleSeq, flying, waiting, reports, queue, landedUamIds, app, gateway,
                     approving, saving, clearing, up, landingEvents, unsaved, touchedDown,
                     unreported, excused>>
      /\ SchedulerViews
  BY <1>2, Idle DEF HandleLandingCommand, vars, scheduler, handlers, audit, landings
<1>4. Channels' /\ LandedSent' = LandedSent
  BY <1>2, <1>3 DEF Channels, LandedSent
<1>5. Sets' /\ Fresh' /\ Blocked'
  BY <1>2, <1>3 DEF Sets, Fresh, Started, Blocked, SchedulerViews
<1>6. Ghosts'
  <2>1. \A w \in Id : (Stranded(w)' => Stranded(w)) /\ (Removal(w)' <=> Removal(w))
    BY <1>2, <1>3, <1>4, Views DEF SchedulerViews
  <2>2. QED
    BY <1>3, <2>1 DEF Ghosts, Sets
<1>7. Audit'
  BY <1>3, <1>4 DEF Audit, SchedulerViews
<1>8. QED
  BY <1>4, <1>5, <1>6, <1>7

-----------------------------------------------------------------------------
(* The steps of the scheduler *)

LEMMA StatusHandledOK ==
  ASSUME SystemInv, HandleReport, Head(reports).kind = "status",
         HandleJamsilStatus(Head(reports).uam)
  PROVE  Channels' /\ Parts'
<1> USE DEF SystemInv, Parts
<1>1. Channels /\ reports # << >> /\ reports' = Tail(reports)
  BY DEF HandleReport
<1>2. PICK u \in Id : u = Head(reports).uam
  BY <1>1, ReportTaken, Messages
<1>3. /\ reports' \in Seq(ReportMsg) /\ Once(reports') /\ LandedSent' = LandedSent
  BY <1>1, ReportTaken
<1>4. UNCHANGED <<vehicleSeq, flying, waiting, approved, commands, queue, landedUamIds, gateway,
                  approving, saving, clearing, up, landingEvents, unsaved, touchedDown, unreported,
                  excused, unheard>>
  BY DEF HandleReport, HandleJamsilStatus, simulator, vars, handlers, audit, landings
<1>5. app' \in Seq(AppCall) /\ AppZrem' = AppZrem
  <2>1. CASE UNCHANGED app
    BY <1>1, <2>1 DEF Channels, AppZrem
  <2>2. CASE app' = Append(app, Message("zadd", u))
    <3>1. Message("zadd", u) \in AppCall
      BY Calls
    <3>2. /\ app' \in Seq(AppCall)
          /\ AppZrem' = AppZrem \cup {w \in Id : Message("zadd", u) = Message("zrem", w)}
      BY <1>1, <2>2, <3>1, AppCalled
    <3>3. QED
      BY <3>2, Messages
  <2>3. QED
    BY <1>2, <2>1, <2>2 DEF HandleJamsilStatus
<1>6. SchedulerViews /\ LandSent' = LandSent /\ (ResetSent' <=> ResetSent)
  BY <1>4, <1>5 DEF SchedulerViews, GateZrem, Registering, ResetDel, Approving, InHand, LandSent,
                    ResetSent
<1>7. Channels'
  BY <1>3, <1>4, <1>5 DEF Channels
<1>8. Sets' /\ Fresh' /\ Blocked'
  BY <1>4, <1>6 DEF Sets, Fresh, Started, Blocked, SchedulerViews
<1>9. Ghosts'
  <2>1. \A w \in Id : (Stranded(w)' <=> Stranded(w)) /\ (Removal(w)' <=> Removal(w))
    BY <1>3, <1>4, <1>6, Views DEF SchedulerViews
  <2>2. QED
    BY <1>4, <2>1 DEF Ghosts, Sets
<1>10. Audit'
  BY <1>3, <1>4, <1>6 DEF Audit, SchedulerViews
<1>11. QED
  BY <1>7, <1>8, <1>9, <1>10

LEMMA LandedHandledOK ==
  ASSUME SystemInv, HandleReport, Head(reports).kind = "landed",
         HandleUamLanded(Head(reports).uam)
  PROVE  Channels' /\ Parts'
<1> USE DEF SystemInv, Parts
<1>1. Channels /\ reports # << >> /\ reports' = Tail(reports)
  BY DEF HandleReport
<1>2. PICK u \in Id : /\ u = Head(reports).uam
                     /\ u \notin LandedSent' /\ LandedSent = LandedSent' \cup {u}
  BY <1>1, ReportTaken, Messages
<1>3. reports' \in Seq(ReportMsg) /\ Once(reports')
  BY <1>1, ReportTaken
<1>4. /\ u \in touchedDown /\ u \notin flying /\ u \notin Registering /\ u \notin saving
      /\ u \notin landingEvents \cup unsaved \cup unreported
  BY <1>2, InHandSets DEF Audit, Sets
<1>5. HandleUamLanded(u)
  BY <1>2
<1>6. UNCHANGED <<vehicleSeq, flying, waiting, approved, commands, queue, app, approving, saving,
                  clearing, up, touchedDown, unreported, excused, unheard>>
  BY <1>5 DEF HandleReport, HandleUamLanded, simulator, vars, handlers, landings
<1>7. /\ gateway' \in Seq(GatewayCall) /\ Once(gateway')
      /\ landedUamIds' = landedUamIds \cup {u}
      /\ u \notin landedUamIds => u \in GateZrem' \cup Registering'
      /\ GateZrem \subseteq GateZrem' /\ (ResetDel' <=> ResetDel)
      /\ Registering' = IF u \notin landedUamIds THEN Registering \cup {u} ELSE Registering
  <2>1. RegisterLanded(u, "landedZrem")
    BY <1>5 DEF HandleUamLanded
  <2>2. QED
    BY <1>1, <1>4, <2>1, Registered
<1>8. \/ /\ u \in landedUamIds
         /\ \/ landingEvents' = landingEvents \cup {u} /\ UNCHANGED unsaved
            \/ unsaved' = unsaved \cup {u} /\ UNCHANGED landingEvents
      \/ u \notin landedUamIds /\ UNCHANGED <<landingEvents, unsaved>>
  BY <1>5 DEF HandleUamLanded, SaveLandingEvent, audit
<1>9. /\ LandSent' = LandSent /\ (ResetSent' <=> ResetSent)
      /\ AppZrem' = AppZrem /\ Approving' = Approving
  BY <1>6 DEF LandSent, ResetSent, AppZrem, Approving
<1>10. Channels'
  BY <1>3, <1>6, <1>7 DEF Channels
<1>11. Sets' /\ Fresh' /\ Blocked'
  BY <1>4, <1>6, <1>7, <1>9 DEF Sets, Fresh, Started, Blocked
<1>12. Ghosts'
  <2>1. ASSUME NEW w \in Id, w # u PROVE Stranded(w)' <=> Stranded(w)
    BY <1>2, <1>6, <1>7, <1>9, <2>1, Views
  <2>2. \A w \in Id : Removal(w) => Removal(w)'
    BY <1>6, <1>7, <1>9, Views
  <2>3. u \in landedUamIds => Stranded(u)
    BY Views
  <2>4. u \notin landedUamIds => Removal(u)'
    BY <1>7, Views
  <2>5. QED
    BY <1>6, <2>1, <2>2, <2>3, <2>4 DEF Ghosts, Sets
<1>13. Audit'
  <2>1. InHand = Registering \cup saving /\ InHand' = Registering' \cup saving'
    BY InHandSets DEF InHand, Registering
  <2>2. CASE u \notin landedUamIds
    BY <1>2, <1>4, <1>6, <1>7, <1>8, <2>1, <2>2 DEF Audit
  <2>3. CASE u \in landedUamIds
    BY <1>2, <1>4, <1>6, <1>7, <1>8, <2>1, <2>3 DEF Audit
  <2>4. QED
    BY <2>2, <2>3
<1>14. QED
  BY <1>10, <1>11, <1>12, <1>13

LEMMA HandleReportOK == SystemInv /\ HandleReport => Channels' /\ Parts'
<1> SUFFICES ASSUME SystemInv, HandleReport PROVE Channels' /\ Parts'
  OBVIOUS
<1>1. CASE Head(reports).kind = "status" /\ HandleJamsilStatus(Head(reports).uam)
  BY <1>1, StatusHandledOK
<1>2. CASE Head(reports).kind = "landed" /\ HandleUamLanded(Head(reports).uam)
  BY <1>2, LandedHandledOK
<1>3. QED
  BY <1>1, <1>2 DEF HandleReport

LEMMA ApproveOK ==
  ASSUME SystemInv, NEW u \in Id, HandleLandingApprove(u)
  PROVE  Channels' /\ Parts'
<1> USE DEF SystemInv, Parts
<1>1. /\ u <= vehicleSeq /\ commands' = Append(commands, Message("LAND", u))
      /\ app' = Append(app, Message("zrem", u))
      /\ UNCHANGED <<vehicleSeq, flying, waiting, approved, reports, queue, landedUamIds, gateway,
                     approving, saving, clearing, up, landingEvents, unsaved, touchedDown,
                     unreported, excused, unheard>>
  BY DEF HandleLandingApprove, simulator, vars, handlers, audit, landings
<1>2. /\ commands' \in Seq(CommandMsg) /\ LandSent' = LandSent \cup {u}
      /\ (ResetSent' <=> ResetSent)
  BY <1>1, CommandSent, Commands, Messages
<1>3. app' \in Seq(AppCall) /\ AppZrem' = AppZrem \cup {u}
  BY <1>1, AppCalled, Calls, Messages
<1>4. /\ Approving' = Approving \cup {u} /\ LandedSent' = LandedSent
      /\ UNCHANGED <<GateZrem, Registering, ResetDel, InHand>>
  BY <1>1, <1>3 DEF Approving, LandedSent, GateZrem, Registering, ResetDel, InHand
<1>5. Channels'
  BY <1>1, <1>2, <1>3 DEF Channels
<1>6. Sets' /\ Fresh' /\ Blocked'
  BY <1>1, <1>2, <1>4 DEF Sets, Fresh, Started, Blocked
<1>7. Ghosts'
  <2>1. \A w \in Id : (Stranded(w)' <=> Stranded(w)) /\ (Removal(w) => Removal(w)')
    BY <1>1, <1>2, <1>3, <1>4, Views
  <2>2. QED
    BY <1>1, <2>1 DEF Ghosts, Sets
<1>8. Audit'
  BY <1>1, <1>4 DEF Audit
<1>9. QED
  BY <1>5, <1>6, <1>7, <1>8

LEMMA RegisterApprovedOK == SystemInv /\ RegisterApproved => Channels' /\ Parts'
<1> SUFFICES ASSUME SystemInv, RegisterApproved PROVE Channels' /\ Parts'
  OBVIOUS
<1> USE DEF SystemInv, Parts
<1>1. Channels /\ approving # << >> /\ approving' = Tail(approving)
  BY DEF RegisterApproved
<1>2. PICK u \in Id : /\ u = Head(approving) /\ approving' \in Seq(Id)
                     /\ ToSet(approving) = ToSet(approving') \cup {u}
  BY <1>1, Taken DEF Channels
<1>3. UNCHANGED <<vehicleSeq, flying, waiting, approved, reports, commands, queue, app, saving,
                  clearing, up, landingEvents, unsaved, touchedDown, unreported, excused, unheard>>
  BY DEF RegisterApproved, simulator, vars, audit, landings
<1>4. /\ gateway' \in Seq(GatewayCall) /\ Once(gateway')
      /\ landedUamIds' = landedUamIds \cup {u}
      /\ u \notin landedUamIds => u \in GateZrem' \cup Registering'
      /\ GateZrem \subseteq GateZrem' /\ (ResetDel' <=> ResetDel)
      /\ Registering' = Registering
  <2>1. RegisterLanded(u, "zrem")
    BY <1>2 DEF RegisterApproved
  <2>2. QED
    BY <1>1, <2>1, Registered
<1>5. /\ LandedSent' = LandedSent /\ LandSent' = LandSent /\ (ResetSent' <=> ResetSent)
      /\ AppZrem' = AppZrem /\ Approving = Approving' \cup {u}
  BY <1>2, <1>3 DEF LandedSent, LandSent, ResetSent, AppZrem, Approving
<1>6. InHand' = InHand
  BY <1>3, <1>4 DEF InHand, Registering
<1>7. Channels'
  BY <1>2, <1>3, <1>4 DEF Channels
<1>8. Sets' /\ Fresh' /\ Blocked'
  BY <1>3, <1>4, <1>5 DEF Sets, Fresh, Started, Blocked
<1>9. Ghosts'
  <2>1. ASSUME NEW w \in Id, w # u PROVE Stranded(w)' <=> Stranded(w)
    BY <1>3, <1>4, <1>5, <2>1, Views
  <2>2. \A w \in Id : Removal(w) => Removal(w)'
    BY <1>3, <1>4, <1>5, Views
  <2>3. u \in landedUamIds => Stranded(u)
    BY Views
  <2>4. u \notin landedUamIds => Removal(u)'
    BY <1>4, Views
  <2>5. QED
    BY <1>3, <2>1, <2>2, <2>3, <2>4 DEF Ghosts, Sets
<1>10. Audit'
  BY <1>3, <1>4, <1>5, <1>6 DEF Audit
<1>11. QED
  BY <1>7, <1>8, <1>9, <1>10

LEMMA LandingSavedOK ==
  ASSUME SystemInv, NEW u \in Id, LandingSaved(u)
  PROVE  Channels' /\ Parts'
<1> USE DEF SystemInv, Parts
<1>1. /\ u \in saving /\ saving' = saving \ {u}
      /\ \/ landingEvents' = landingEvents \cup {u} /\ UNCHANGED unsaved
         \/ unsaved' = unsaved \cup {u} /\ UNCHANGED landingEvents
      /\ UNCHANGED <<vehicleSeq, flying, waiting, approved, reports, commands, queue,
                     landedUamIds, app, gateway, approving, clearing, up, touchedDown, unreported,
                     excused, unheard>>
  BY DEF LandingSaved, SaveLandingEvent, simulator, vars, landings
<1>2. UNCHANGED <<LandedSent, LandSent, ResetSent, AppZrem, GateZrem, Registering, ResetDel,
                  Approving>>
  BY <1>1 DEF LandedSent, LandSent, ResetSent, AppZrem, GateZrem, Registering, ResetDel, Approving
<1>3. Channels' /\ Sets' /\ Fresh' /\ Blocked'
  BY <1>1, <1>2 DEF Channels, Sets, Fresh, Started, Blocked
<1>4. Ghosts'
  <2>1. \A w \in Id : (Stranded(w)' <=> Stranded(w)) /\ (Removal(w)' <=> Removal(w))
    BY <1>1, <1>2, Views
  <2>2. QED
    BY <1>1, <2>1 DEF Ghosts, Sets
<1>5. Audit'
  <2>1. InHand = Registering \cup saving /\ InHand' = Registering' \cup saving'
    BY InHandSets DEF InHand, Registering
  <2>2. QED
    BY <1>1, <1>2, <2>1 DEF Audit
<1>6. QED
  BY <1>3, <1>4, <1>5

LEMMA ResetsOK == SystemInv /\ (TriggerAutoReset \/ ResetEnds) => Channels' /\ Parts'
<1> USE DEF SystemInv, Parts
<1>1. ASSUME SystemInv, TriggerAutoReset PROVE Channels' /\ Parts'
  <2>1. /\ gateway' = Append(gateway, Message("resetDel", Nobody))
        /\ UNCHANGED <<vehicleSeq, flying, waiting, approved, reports, commands, queue,
                       landedUamIds, app, approving, saving, clearing, up, landingEvents, unsaved,
                       touchedDown, unreported, excused, unheard>>
    BY <1>1 DEF TriggerAutoReset, simulator, vars, audit, landings
  <2>2. /\ gateway' \in Seq(GatewayCall) /\ Once(gateway') /\ ResetDel'
        /\ Registering' = Registering
    <3>1. /\ Message("resetDel", Nobody) \in GatewayCall
          /\ Message("resetDel", Nobody).kind = "resetDel"
      BY Calls, Messages
    <3>2. /\ gateway' \in Seq(GatewayCall) /\ Once(gateway') /\ ResetDel'
          /\ Registering' = Registering
               \cup {w \in Id : Message("resetDel", Nobody) = Message("landedZrem", w)}
      BY <1>1, <2>1, <3>1, GatewayCalled
    <3>3. QED
      BY <3>2, Messages
  <2>3. UNCHANGED <<LandedSent, LandSent, Approving>> /\ InHand' = InHand
    BY <2>1, <2>2 DEF LandedSent, LandSent, AppZrem, Approving, InHand, Registering
  <2>4. Channels' /\ Sets' /\ Fresh' /\ Blocked'
    BY <1>1, <2>1, <2>2, <2>3 DEF Channels, Sets, Fresh, Started, Blocked
  <2>5. Ghosts'
    BY <1>1, <2>1, <2>2, Views DEF Ghosts, Sets
  <2>6. Audit'
    BY <1>1, <2>1, <2>2, <2>3 DEF Audit
  <2>7. QED
    BY <2>4, <2>5, <2>6
<1>2. ASSUME SystemInv, ResetEnds PROVE Channels' /\ Parts'
  <2>1. /\ clearing > 0 /\ clearing' = clearing - 1 /\ landedUamIds' = {}
        /\ commands' = Append(commands, Message("RESET", Nobody))
        /\ UNCHANGED <<vehicleSeq, flying, waiting, approved, reports, queue, app, gateway,
                       approving, saving, up, landingEvents, unsaved, touchedDown, unreported,
                       excused, unheard>>
    BY <1>2 DEF ResetEnds, simulator, vars, audit, landings
  <2>2. commands' \in Seq(CommandMsg) /\ LandSent \subseteq LandSent'
    BY <1>2, <2>1, CommandSent, Commands
  <2>3. UNCHANGED <<LandedSent, AppZrem, GateZrem, Registering, ResetDel, Approving, InHand>>
    BY <2>1 DEF LandedSent, AppZrem, GateZrem, Registering, ResetDel, Approving, InHand
  <2>4. Channels'
    BY <1>2, <2>1, <2>2 DEF Channels
  <2>5. Sets' /\ Fresh' /\ Blocked'
    <3>1. clearing' \in Nat
      BY <1>2, <2>1 DEF Sets
    <3>2. QED
      BY <1>2, <2>1, <2>2, <2>3, <3>1 DEF Sets, Fresh, Started, Blocked
  <2>6. Ghosts'
    <3>1. \A w \in Id : (Stranded(w)' => Stranded(w)) /\ (Removal(w)' <=> Removal(w))
      BY <2>1, <2>3, Views
    <3>2. QED
      BY <1>2, <2>1, <3>1 DEF Ghosts, Sets
  <2>7. Audit'
    BY <1>2, <2>1, <2>3 DEF Audit
  <2>8. QED
    BY <2>4, <2>5, <2>6, <2>7
<1>3. QED
  BY <1>1, <1>2

-----------------------------------------------------------------------------
(* The steps of Redis *)

LEMMA ExecuteAppOK == SystemInv /\ ExecuteApp => Channels' /\ Parts'
<1> SUFFICES ASSUME SystemInv, ExecuteApp PROVE Channels' /\ Parts'
  OBVIOUS
<1> USE DEF SystemInv, Parts
<1>1. Channels /\ app # << >> /\ app' = Tail(app)
  BY DEF ExecuteApp
<1>2. PICK u \in Id :
        /\ u = Head(app).uam /\ app' \in Seq(AppCall) /\ AppZrem' \subseteq AppZrem
        /\ \/ Head(app).kind = "zadd" /\ AppZrem' = AppZrem
           \/ Head(app).kind = "zrem" /\ AppZrem = AppZrem' \cup {u}
  BY <1>1, AppTaken
<1>3. UNCHANGED <<vehicleSeq, flying, waiting, approved, reports, commands, landedUamIds, gateway,
                  saving, clearing, up, landingEvents, unsaved, touchedDown, unreported, unheard>>
  BY DEF ExecuteApp, simulator, vars, audit, landings
<1>4. UNCHANGED <<LandedSent, LandSent, ResetSent, GateZrem, Registering, ResetDel, InHand>>
  BY <1>3 DEF LandedSent, LandSent, ResetSent, GateZrem, Registering, ResetDel, InHand
<1>5. \A w \in Id : Stranded(w)' <=> Stranded(w)
  BY <1>3, <1>4, Views
<1>6. /\ approving' \in Seq(Id) /\ Approving' = Approving
      /\ \/ /\ queue' = queue \cup {u} /\ AppZrem' = AppZrem
            /\ excused' = IF Stranded(u) THEN excused \cup {u} ELSE excused
         \/ /\ queue' = queue \ {u} /\ excused' = excused \ {u}
            /\ AppZrem = AppZrem' \cup {u}
  <2>1. CASE Head(app).kind = "zadd"
    <3>1. Zadd(u) /\ UNCHANGED approving
      BY <1>2, <2>1 DEF ExecuteApp
    <3>2. QED
      BY <1>1, <1>2, <2>1, <3>1 DEF Zadd, Channels, Approving
  <2>2. CASE Head(app).kind = "zrem"
    <3>1. Zrem(u) /\ approving' = Append(approving, u)
      BY <1>2, <2>2 DEF ExecuteApp
    <3>2. approving' \in Seq(Id) /\ ToSet(approving') = ToSet(approving) \cup {u}
      BY <1>1, <1>2, <3>1, Appended DEF Channels
    <3>3. QED
      BY <1>1, <1>2, <2>2, <3>1, <3>2 DEF Zrem, Approving
  <2>3. QED
    BY <1>2, <2>1, <2>2
<1>7. Channels'
  BY <1>2, <1>3, <1>6 DEF Channels
<1>8. Sets' /\ Fresh' /\ Blocked'
  BY <1>2, <1>3, <1>4, <1>6 DEF Sets, Fresh, Started, Blocked
<1>9. Ghosts'
  <2>1. \A w \in Id : w # u \/ AppZrem' = AppZrem => (Removal(w) => Removal(w)')
    BY <1>2, <1>3, <1>4, Views
  <2>2. QED
    BY <1>2, <1>3, <1>5, <1>6, <2>1 DEF Ghosts, Sets
<1>10. Audit'
  BY <1>3, <1>4 DEF Audit
<1>11. QED
  BY <1>7, <1>8, <1>9, <1>10

LEMMA ExecuteGatewayOK == SystemInv /\ ExecuteGateway => Channels' /\ Parts'
<1> SUFFICES ASSUME SystemInv, ExecuteGateway PROVE Channels' /\ Parts'
  OBVIOUS
<1> USE DEF SystemInv, Parts
<1>1. Channels /\ gateway # << >> /\ gateway' = Tail(gateway)
  BY DEF ExecuteGateway
<1>2. /\ gateway' \in Seq(GatewayCall) /\ Once(gateway')
      /\ UNCHANGED <<vehicleSeq, flying, waiting, approved, reports, commands, landedUamIds, app,
                     approving, landingEvents, unsaved, touchedDown, unreported, unheard>>
  BY <1>1, GatewayTaken DEF ExecuteGateway, simulator, vars, audit, landings
<1>3. UNCHANGED <<LandedSent, LandSent, ResetSent, AppZrem, Approving>>
  BY <1>2 DEF LandedSent, LandSent, ResetSent, AppZrem, Approving
<1>4. Channels' /\ Fresh' /\ Blocked'
  BY <1>2, <1>3 DEF Channels, Fresh, Started, Blocked
<1>5. InHand = Registering \cup saving /\ InHand' = Registering' \cup saving'
  BY InHandSets DEF InHand, Registering
<1>6. CASE Head(gateway).kind = "zrem"
  <2>1. PICK u \in Id : /\ u = Head(gateway).uam /\ GateZrem = GateZrem' \cup {u}
                       /\ Registering' = Registering /\ ResetDel' = ResetDel
    BY <1>1, <1>6, GatewayTaken
  <2>2. queue' = queue \ {u} /\ excused' = excused \ {u} /\ UNCHANGED <<saving, clearing, up>>
    BY <1>6, <2>1 DEF ExecuteGateway, Zrem
  <2>3. \A w \in Id : w # u => (Stranded(w)' <=> Stranded(w)) /\ (Removal(w) => Removal(w)')
    BY <1>2, <1>3, <2>1, <2>2, Views
  <2>4. Sets' /\ Ghosts'
    BY <1>2, <2>2, <2>3 DEF Sets, Ghosts
  <2>5. Audit'
    BY <1>2, <1>3, <1>5, <2>1, <2>2 DEF Audit
  <2>6. QED
    BY <1>4, <2>4, <2>5
<1>7. CASE Head(gateway).kind = "landedZrem"
  <2>1. PICK u \in Id : /\ u = Head(gateway).uam /\ Registering = Registering' \cup {u}
                       /\ u \notin Registering' /\ GateZrem' = GateZrem /\ ResetDel' = ResetDel
    BY <1>1, <1>7, GatewayTaken
  <2>2. /\ queue' = queue \ {u} /\ excused' = excused \ {u} /\ saving' = saving \cup {u}
        /\ UNCHANGED <<clearing, up>>
    BY <1>7, <2>1 DEF ExecuteGateway, Zrem
  <2>3. \A w \in Id : w # u => (Stranded(w)' <=> Stranded(w)) /\ (Removal(w) => Removal(w)')
    BY <1>2, <1>3, <2>1, <2>2, Views
  <2>4. Sets' /\ Ghosts'
    BY <1>2, <2>1, <2>2, <2>3 DEF Sets, Ghosts
  <2>5. Audit'
    BY <1>2, <1>3, <1>5, <2>1, <2>2 DEF Audit
  <2>6. QED
    BY <1>4, <2>4, <2>5
<1>8. CASE Head(gateway).kind \in {"resetDel", "bootDel"}
  <2>1. Registering' = Registering
    BY <1>1, <1>8, GatewayTaken
  <2>2. /\ queue' = {} /\ excused' = {} /\ UNCHANGED saving
        /\ \/ clearing' = clearing + 1 /\ UNCHANGED up
           \/ up' = TRUE /\ UNCHANGED clearing
    BY <1>8 DEF ExecuteGateway, DelQueue
  <2>3. clearing' \in Nat
    BY <2>2 DEF Sets
  <2>4. up' \in BOOLEAN
    BY <2>2 DEF Sets
  <2>5. Sets' /\ Ghosts'
    BY <1>2, <2>2, <2>3, <2>4 DEF Sets, Ghosts
  <2>6. Audit'
    BY <1>2, <1>3, <1>5, <2>1, <2>2 DEF Audit
  <2>7. QED
    BY <1>4, <2>5, <2>6
<1>9. QED
  BY <1>1, <1>6, <1>7, <1>8, GatewayTaken

LEMMA RejectAppOK == SystemInv /\ RejectApp => Channels' /\ Parts'
<1> SUFFICES ASSUME SystemInv, RejectApp PROVE Channels' /\ Parts'
  OBVIOUS
<1> USE DEF SystemInv, Parts
<1>1. Channels /\ app # << >> /\ app' = Tail(app)
  BY DEF RejectApp
<1>2. PICK u \in Id :
        /\ Head(app) = Message(Head(app).kind, u) /\ app' \in Seq(AppCall)
        /\ AppZrem' \subseteq AppZrem
        /\ \/ Head(app).kind = "zadd" /\ AppZrem' = AppZrem
           \/ Head(app).kind = "zrem" /\ AppZrem = AppZrem' \cup {u}
  BY <1>1, AppTaken
<1>3. UNCHANGED <<vehicleSeq, flying, waiting, approved, reports, commands, queue, landedUamIds,
                  gateway, approving, saving, clearing, up, landingEvents, unsaved, touchedDown,
                  unreported, unheard>>
  BY DEF RejectApp, simulator, vars, handlers, audit, landings
<1>4. /\ UNCHANGED <<LandedSent, LandSent, ResetSent, GateZrem, Registering, ResetDel, InHand>>
      /\ Approving' \subseteq Approving
  BY <1>2, <1>3 DEF LandedSent, LandSent, ResetSent, GateZrem, Registering, ResetDel, InHand,
                    Approving
<1>5. excused' = excused \cup {w \in queue : Message("zrem", w) = Head(app) /\ Stranded(w)}
  BY DEF RejectApp, Refuse
<1>6. Channels'
  BY <1>2, <1>3 DEF Channels
<1>7. Sets' /\ Fresh' /\ Blocked'
  BY <1>3, <1>4, <1>5 DEF Sets, Fresh, Started, Blocked
<1>8. Ghosts'
  <2>1. \A w \in Id : Stranded(w)' <=> Stranded(w)
    BY <1>3, <1>4, Views
  <2>2. \A w \in Id : w # u \/ AppZrem' = AppZrem => (Removal(w) => Removal(w)')
    BY <1>2, <1>3, <1>4, Views
  <2>3. AppZrem' # AppZrem /\ u \in queue /\ Stranded(u) => u \in excused'
    BY <1>2, <1>5, Messages
  <2>4. QED
    BY <1>3, <1>5, <2>1, <2>2, <2>3 DEF Ghosts, Sets
<1>9. Audit'
  BY <1>3, <1>4 DEF Audit
<1>10. QED
  BY <1>6, <1>7, <1>8, <1>9

LEMMA RejectApprovingOK == SystemInv /\ RejectApproving => Channels' /\ Parts'
<1> SUFFICES ASSUME SystemInv, RejectApproving PROVE Channels' /\ Parts'
  OBVIOUS
<1> USE DEF SystemInv, Parts
<1>1. Channels /\ approving # << >> /\ approving' = Tail(approving)
  BY DEF RejectApproving
<1>2. approving' \in Seq(Id) /\ ToSet(approving') \subseteq ToSet(approving)
  BY <1>1, Taken DEF Channels
<1>3. UNCHANGED <<vehicleSeq, flying, waiting, approved, reports, commands, queue, landedUamIds,
                  app, gateway, saving, clearing, up, landingEvents, unsaved, touchedDown,
                  unreported, excused, unheard>>
  BY DEF RejectApproving, simulator, vars, audit, landings
<1>4. /\ UNCHANGED <<LandedSent, LandSent, ResetSent, AppZrem, GateZrem, Registering, ResetDel,
                     InHand>>
      /\ Approving' \subseteq Approving
  BY <1>2, <1>3 DEF LandedSent, LandSent, ResetSent, AppZrem, GateZrem, Registering, ResetDel,
                    InHand, Approving
<1>5. Channels' /\ Sets' /\ Fresh' /\ Blocked'
  BY <1>2, <1>3, <1>4 DEF Channels, Sets, Fresh, Started, Blocked
<1>6. Ghosts'
  <2>1. \A w \in Id : (Stranded(w)' <=> Stranded(w)) /\ (Removal(w)' <=> Removal(w))
    BY <1>3, <1>4, Views
  <2>2. QED
    BY <1>3, <2>1 DEF Ghosts, Sets
<1>7. Audit'
  BY <1>3, <1>4 DEF Audit
<1>8. QED
  BY <1>5, <1>6, <1>7

LEMMA RejectGatewayOK == SystemInv /\ RejectGateway => Channels' /\ Parts'
<1> SUFFICES ASSUME SystemInv, RejectGateway PROVE Channels' /\ Parts'
  OBVIOUS
<1> USE DEF SystemInv, Parts
<1>1. Channels /\ gateway # << >> /\ gateway' = Tail(gateway)
  BY DEF RejectGateway
<1>2. /\ gateway' \in Seq(GatewayCall) /\ Once(gateway')
      /\ UNCHANGED <<vehicleSeq, flying, waiting, approved, reports, commands, queue,
                     landedUamIds, app, approving, saving, clearing, up, landingEvents,
                     touchedDown, unreported, unheard>>
  BY <1>1, GatewayTaken DEF RejectGateway, simulator, vars, handlers, landings
<1>3. UNCHANGED <<LandedSent, LandSent, ResetSent, AppZrem, Approving>>
  BY <1>2 DEF LandedSent, LandSent, ResetSent, AppZrem, Approving
<1>4. Channels' /\ Fresh' /\ Blocked'
  BY <1>2, <1>3 DEF Channels, Fresh, Started, Blocked
<1>5. InHand = Registering \cup saving /\ InHand' = Registering' \cup saving'
  BY InHandSets DEF InHand, Registering
<1>6. PICK u \in Id :
        /\ \/ /\ GateZrem = GateZrem' \cup {u} /\ Registering' = Registering
              /\ UNCHANGED unsaved
           \/ /\ GateZrem' = GateZrem /\ Registering = Registering' \cup {u}
              /\ u \notin Registering' /\ unsaved' = unsaved \cup {u}
        /\ ResetDel' = ResetDel
        /\ excused' = excused \cup {w \in queue : Message("zrem", w) = Message("zrem", u)
                                                    /\ Stranded(w)}
  <2>1. /\ Head(gateway).kind \in {"zrem", "landedZrem"}
        /\ excused' = excused \cup {w \in queue :
             Message("zrem", w) = Message("zrem", Head(gateway).uam) /\ Stranded(w)}
        /\ unsaved' = IF Head(gateway).kind = "landedZrem"
                      THEN unsaved \cup {Head(gateway).uam} ELSE unsaved
    BY DEF RejectGateway, Refuse
  <2>2. QED
    BY <1>1, <2>1, GatewayTaken
<1>7. Sets'
  BY <1>2, <1>6 DEF Sets
<1>8. Ghosts'
  <2>1. \A w \in Id : Stranded(w)' <=> Stranded(w)
    BY <1>2, <1>3, Views
  <2>2. \A w \in Id : w # u => (Removal(w) => Removal(w)')
    BY <1>2, <1>3, <1>6, Views
  <2>3. u \in queue /\ Stranded(u) => u \in excused'
    BY <1>6
  <2>4. QED
    BY <1>2, <1>6, <2>1, <2>2, <2>3 DEF Ghosts, Sets
<1>9. Audit'
  BY <1>2, <1>3, <1>5, <1>6 DEF Audit
<1>10. QED
  BY <1>4, <1>7, <1>8, <1>9

-----------------------------------------------------------------------------
(* Crashes, starts and the broker *)

LEMMA CrashOK == SystemInv /\ Crash => Channels' /\ Parts'
<1> SUFFICES ASSUME SystemInv, Crash PROVE Channels' /\ Parts'
  OBVIOUS
<1> USE DEF SystemInv, Parts
<1>1. /\ ~up' /\ up' \in BOOLEAN /\ landedUamIds' = {} /\ app' = << >> /\ gateway' = << >>
      /\ approving' = << >> /\ saving' = {} /\ clearing' = 0 /\ unsaved' = unsaved \cup InHand
      /\ UNCHANGED <<vehicleSeq, flying, waiting, approved, reports, commands, queue,
                     landingEvents, touchedDown, unreported, excused, unheard>>
  BY DEF Crash, simulator, vars, landings
<1>2. /\ AppZrem' = {} /\ Registering' = {} /\ Approving' = {}
      /\ UNCHANGED <<LandedSent, LandSent>>
  BY <1>1 DEF AppZrem, Registering, Approving, ToSet, LandedSent, LandSent
<1>3. InHand' = {}
  BY <1>1, <1>2 DEF InHand, Registering
<1>4. Channels'
  BY <1>1 DEF Channels, Once
<1>5. Sets' /\ Fresh' /\ Blocked'
  BY <1>1, <1>2 DEF Sets, Fresh, Started, Blocked
<1>6. Ghosts'
  BY <1>1, Views DEF Ghosts, Sets
<1>7. Audit'
  BY <1>1, <1>2, <1>3 DEF Audit
<1>8. QED
  BY <1>4, <1>5, <1>6, <1>7

LEMMA OnModuleInitOK == SystemInv /\ OnModuleInit => Channels' /\ Parts'
<1> SUFFICES ASSUME SystemInv, OnModuleInit PROVE Channels' /\ Parts'
  OBVIOUS
<1> USE DEF SystemInv, Parts
<1>1. /\ ~up /\ gateway' = Append(gateway, Message("bootDel", Nobody))
      /\ UNCHANGED <<vehicleSeq, flying, waiting, approved, reports, commands, queue,
                     landedUamIds, app, approving, saving, clearing, up, landingEvents, unsaved,
                     touchedDown, unreported, excused, unheard>>
  BY DEF OnModuleInit, simulator, vars, handlers, audit, landings
<1>2. /\ Message("bootDel", Nobody) \in GatewayCall
      /\ Message("bootDel", Nobody).kind = "bootDel"
  BY Calls, Messages
<1>3. /\ gateway' \in Seq(GatewayCall) /\ Once(gateway')
      /\ Registering' = Registering
           \cup {w \in Id : Message("bootDel", Nobody) = Message("landedZrem", w)}
  BY <1>1, <1>2, GatewayCalled
<1>4. Registering' = Registering
  BY <1>3, Messages
<1>5. UNCHANGED <<LandedSent, LandSent, Approving>> /\ InHand' = InHand
  BY <1>1, <1>4 DEF LandedSent, LandSent, AppZrem, Approving, InHand, Registering
<1>6. Channels' /\ Sets' /\ Fresh' /\ Blocked'
  BY <1>1, <1>3, <1>5 DEF Channels, Sets, Fresh, Started, Blocked
<1>7. Ghosts'
  BY <1>1, Views DEF Ghosts, Sets
<1>8. Audit'
  BY <1>1, <1>4, <1>5 DEF Audit
<1>9. QED
  BY <1>6, <1>7, <1>8

LEMMA LoseReportOK == SystemInv /\ LoseReport => Channels' /\ Parts'
<1> SUFFICES ASSUME SystemInv, LoseReport PROVE Channels' /\ Parts'
  OBVIOUS
<1> USE DEF SystemInv, Parts
<1>1. Channels /\ reports # << >> /\ reports' = Tail(reports)
  BY DEF LoseReport
<1>2. /\ UNCHANGED <<vehicleSeq, flying, waiting, approved, commands, queue, landedUamIds, app,
                     gateway, approving, saving, clearing, up, landingEvents, unsaved,
                     touchedDown, excused, unheard>>
      /\ SchedulerViews
  BY Idle DEF LoseReport, simulator, vars, scheduler, handlers, audit
<1>3. unreported' = unreported \cup {u \in Id : Head(reports) = Message("landed", u)}
  BY DEF LoseReport
<1>4. reports' \in Seq(ReportMsg) /\ Once(reports')
  BY <1>1, ReportTaken
<1>5. PICK lost \in SUBSET Id :
        /\ unreported' = unreported \cup lost
        /\ lost \cap LandedSent' = {} /\ LandedSent = LandedSent' \cup lost
  <2>1. CASE Head(reports).kind = "landed"
    <3>1. PICK u \in Id : /\ Head(reports) = Message("landed", u)
                         /\ u \notin LandedSent' /\ LandedSent = LandedSent' \cup {u}
      BY <1>1, <2>1, ReportTaken, Messages
    <3>2. unreported' = unreported \cup {u}
      BY <1>3, <3>1, Messages
    <3>3. {u} \in SUBSET Id /\ {u} \cap LandedSent' = {}
      BY <3>1
    <3>4. QED
      BY <3>1, <3>2, <3>3
  <2>2. CASE Head(reports).kind # "landed"
    <3>1. LandedSent' = LandedSent
      BY <1>1, <2>2, ReportTaken
    <3>2. unreported' = unreported
      BY <1>3, <2>2, Messages
    <3>3. /\ {} \in SUBSET Id /\ {} \cap LandedSent' = {}
          /\ unreported' = unreported \cup {} /\ LandedSent = LandedSent' \cup {}
      BY <3>1, <3>2
    <3>4. QED
      BY <3>3
  <2>3. QED
    BY <2>1, <2>2
<1>6. Channels' /\ LandSent' = LandSent /\ (ResetSent' <=> ResetSent)
  BY <1>2, <1>4 DEF Channels, LandSent, ResetSent
<1>7. Sets' /\ Fresh' /\ Blocked'
  BY <1>2, <1>6 DEF Sets, Fresh, Started, Blocked, SchedulerViews
<1>8. Ghosts'
  <2>1. \A w \in Id : Removal(w)' <=> Removal(w)
    BY <1>2, Views DEF SchedulerViews
  <2>2. \A w \in Id : w \in lost \/ (Stranded(w)' <=> Stranded(w))
    BY <1>2, <1>5, <1>6, Views
  <2>3. QED
    BY <1>2, <1>5, <2>1, <2>2 DEF Ghosts, Sets
<1>9. Audit'
  BY <1>2, <1>5 DEF Audit, SchedulerViews
<1>10. QED
  BY <1>6, <1>7, <1>8, <1>9

LEMMA LoseCommandOK == SystemInv /\ LoseCommand => Channels' /\ Parts'
<1> SUFFICES ASSUME SystemInv, LoseCommand PROVE Channels' /\ Parts'
  OBVIOUS
<1> USE DEF SystemInv, Parts
<1>1. Channels /\ commands # << >> /\ commands' = Tail(commands)
  BY DEF LoseCommand
<1>2. PICK u : /\ u = Head(commands).uam /\ LandSent \subseteq LandSent' \cup {u}
               /\ commands' \in Seq(CommandMsg) /\ (ResetSent' => ResetSent)
  BY <1>1, CommandTaken
<1>3. /\ unheard' = unheard \cup ({u} \cap flying)
      /\ UNCHANGED <<vehicleSeq, flying, waiting, approved, reports, queue, landedUamIds, app,
                     gateway, approving, saving, clearing, up, landingEvents, unsaved,
                     touchedDown, unreported, excused>>
      /\ SchedulerViews
  BY <1>2, Idle DEF LoseCommand, simulator, vars, scheduler, handlers, audit, landings
<1>4. Channels' /\ LandedSent' = LandedSent
  BY <1>2, <1>3 DEF Channels, LandedSent
<1>5. Sets' /\ Fresh' /\ Blocked'
  BY <1>2, <1>3 DEF Sets, Fresh, Started, Blocked, SchedulerViews
<1>6. Ghosts'
  <2>1. \A w \in Id : (Stranded(w)' => Stranded(w)) /\ (Removal(w)' <=> Removal(w))
    BY <1>2, <1>3, <1>4, Views DEF SchedulerViews
  <2>2. QED
    BY <1>3, <2>1 DEF Ghosts, Sets
<1>7. Audit'
  BY <1>3, <1>4 DEF Audit, SchedulerViews
<1>8. QED
  BY <1>4, <1>5, <1>6, <1>7

-----------------------------------------------------------------------------
(* The system *)

\* What the simulator does in the system is a step of the fleet.
LEMMA StepIsFleet == [SystemNext]_systemVars => [Next]_vars
<1>1. ASSUME NEW u \in Id, Fly(u) PROVE UNCHANGED vars
  BY <1>1 DEF Fly
<1>2. ASSUME NEW u \in Id, TouchDown(u) PROVE Next
  BY <1>2 DEF TouchDown, Next
<1>3. ASSUME NEW u \in Id, HandleLandingApprove(u) \/ LandingSaved(u) PROVE UNCHANGED vars
  BY <1>3 DEF HandleLandingApprove, LandingSaved, simulator
<1>4. StartNext \/ HandleResetCommand => Next
  BY DEF StartNext, HandleResetCommand, Next
<1>5. HandleLandingCommand => UNCHANGED vars
  BY DEF HandleLandingCommand
<1>6. HandleReport \/ RegisterApproved \/ TriggerAutoReset \/ ResetEnds => UNCHANGED vars
  BY DEF HandleReport, RegisterApproved, TriggerAutoReset, ResetEnds, simulator
<1>7. ExecuteApp \/ ExecuteGateway => UNCHANGED vars
  BY DEF ExecuteApp, ExecuteGateway, simulator
<1>8. RejectApp \/ RejectApproving \/ RejectGateway => UNCHANGED vars
  BY DEF RejectApp, RejectApproving, RejectGateway, simulator
<1>9. Crash \/ OnModuleInit \/ LoseReport \/ LoseCommand => UNCHANGED vars
  BY DEF Crash, OnModuleInit, LoseReport, LoseCommand, simulator
<1>10. IdsUsedUp \/ UNCHANGED systemVars => UNCHANGED vars
  BY DEF IdsUsedUp, systemVars, simulator
<1>11. QED
  BY <1>1, <1>2, <1>3, <1>4, <1>5, <1>6, <1>7, <1>8, <1>9, <1>10 DEF SystemNext

LEMMA InitSystem == SystemInit => SystemInv
<1> SUFFICES ASSUME SystemInit PROVE SystemInv
  OBVIOUS
<1>1. FleetInv
  BY InitFleet DEF SystemInit
<1>2. /\ ToSet(reports) = {} /\ ToSet(commands) = {} /\ ToSet(app) = {} /\ ToSet(gateway) = {}
      /\ ToSet(approving) = {} /\ Channels
  BY DEF SystemInit, ToSet, Channels, Once
<1>3. LandedSent = {} /\ LandSent = {} /\ Registering = {} /\ Approving = {}
  BY <1>2 DEF LandedSent, LandSent, Registering, AppZrem, Approving
<1>4. InHand = {}
  BY <1>3, InHandSets DEF SystemInit
<1>5. Started(flying)
  BY FleetAssumption DEF SystemInit, Init, Started
<1>6. Fresh
  BY <1>3, <1>5 DEF SystemInit, Fresh, Started
<1>7. Sets /\ Blocked /\ Ghosts /\ Audit
  BY <1>3, <1>4 DEF SystemInit, Sets, Blocked, Ghosts, Audit
<1>8. QED
  BY <1>1, <1>2, <1>6, <1>7 DEF SystemInv, Parts

LEMMA StepSystem == SystemInv /\ [SystemNext]_systemVars => SystemInv'
<1> SUFFICES ASSUME SystemInv, [SystemNext]_systemVars PROVE SystemInv'
  OBVIOUS
<1>1. FleetInv'
  BY StepIsFleet, StepFleet DEF SystemInv
<1>2. Channels' /\ Parts'
  <2>1. CASE UNCHANGED systemVars
    <3>1. UNCHANGED <<vehicleSeq, flying, waiting, approved, reports, commands, queue,
                      landedUamIds, app, gateway, approving, saving, clearing, up, landingEvents,
                      unsaved, touchedDown, unreported, excused, unheard>> /\ SchedulerViews
      BY <2>1, Idle DEF systemVars, simulator, vars, scheduler, handlers, audit, landings
    <3>2. UNCHANGED <<LandedSent, LandSent, ResetSent>>
      BY <3>1 DEF LandedSent, LandSent, ResetSent
    <3>3. Channels' /\ Sets' /\ Fresh' /\ Blocked' /\ Audit'
      BY <3>1, <3>2 DEF SystemInv, Parts, Channels, Sets, Fresh, Started, Blocked, Audit,
                        SchedulerViews
    <3>4. \A w \in Id : (Stranded(w)' <=> Stranded(w)) /\ (Removal(w)' <=> Removal(w))
      BY <3>1, <3>2, Views DEF SchedulerViews
    <3>5. Ghosts'
      BY <3>1, <3>4 DEF SystemInv, Parts, Ghosts, Sets
    <3>6. QED
      BY <3>3, <3>5 DEF Parts
  <2>2. CASE SystemNext
    <3>1. IdsUsedUp => UNCHANGED systemVars
      BY DEF IdsUsedUp
    <3>2. QED
      BY <2>1, <2>2, <3>1, FlyOK, TouchDownOK, ApproveOK, LandingSavedOK, StartNextOK,
         HandleLandingCommandOK, HandleResetCommandOK, HandleReportOK, RegisterApprovedOK,
         ResetsOK, ExecuteAppOK, ExecuteGatewayOK, RejectAppOK, RejectApprovingOK,
         RejectGatewayOK, CrashOK, OnModuleInitOK, LoseReportOK, LoseCommandOK
      DEF SystemNext
  <2>3. QED
    BY <2>1, <2>2
<1>3. QED
  BY <1>1, <1>2 DEF SystemInv

LEMMA SystemInvariant == SystemSpec => []SystemInv
<1>1. QED
  BY InitSystem, StepSystem, PTL DEF SystemSpec

-----------------------------------------------------------------------------
(* Theorems *)

\* The simulator within the system is the fleet of module Fleet, whatever the
\* scheduler sends it and the broker loses.
THEOREM ImplementsFleet == SystemSpec => Spec
<1>1. SystemInit => Init
  BY DEF SystemInit
<1>2. QED
  BY <1>1, StepIsFleet, PTL DEF SystemSpec, Spec

\* resetSimulation, stopSimulation and its timers keep the fleet up in the system
\* too.
THEOREM SystemFleetKept == SystemSpec => []FleetKept
<1>1. QED
  BY ImplementsFleet, FleetKeptHolds, PTL

\* The types of all variables, calls and messages included.
THEOREM SystemTypeCorrect == SystemSpec => []SystemTypeOK
<1>1. SystemInv => Channels /\ Sets
  BY DEF SystemInv, Parts
<1>2. SystemSpec => []TypeOK
  BY ImplementsFleet, FleetTypeCorrect, PTL
<1>3. TypeOK /\ Channels /\ Sets => SystemTypeOK
  BY DEF SystemTypeOK, Channels, Sets
<1>4. QED
  BY <1>1, <1>2, <1>3, SystemInvariant, PTL

\* A message on its way is in the channel of its kind.
LEMMA InItsChannel ==
  ASSUME SystemInv, NEW u \in Id
  PROVE  /\ Sent(Message("landed", u)) <=> u \in LandedSent
         /\ Sent(Message("LAND", u)) <=> u \in LandSent
<1>1. reports \in Seq(ReportMsg) /\ commands \in Seq(CommandMsg)
  BY DEF SystemInv, Channels
<1>2. ToSet(reports) \subseteq ReportMsg /\ ToSet(commands) \subseteq CommandMsg
  BY <1>1 DEF ToSet
<1>3. Message("landed", u) \notin CommandMsg /\ Message("LAND", u) \notin ReportMsg
  BY DEF Message, CommandMsg, ReportMsg
<1>4. QED
  BY <1>2, <1>3 DEF Sent, LandedSent, LandSent

\* A queued vehicle that is down, gone or blocked is on its way out of the queue, or
\* its uam/landed was lost, or its ZADD or a refused ZREM stranded it: whatever the
\* order in which Redis runs the calls of the two connections, and whenever the
\* scheduler dies.
THEOREM GhostsHaveCauseHolds == SystemSpec => []GhostsHaveCause
<1>1. SystemInv => GhostsHaveCause
  <2> SUFFICES ASSUME SystemInv, NEW u \in queue
               PROVE  \/ u \in flying \ landedUamIds
                      \/ Sent(Message("landed", u)) /\ u \notin landedUamIds
                      \/ Removal(u)
                      \/ u \in excused \cup unreported
    BY DEF GhostsHaveCause
  <2>1. u \in Id /\ (Stranded(u) => u \in excused \cup unreported \/ Removal(u))
    BY DEF SystemInv, Parts, Sets, Ghosts
  <2>2. ~Stranded(u) => u \notin landedUamIds /\ (u \in LandedSent \/ u \in flying)
    BY <2>1, Views
  <2>3. QED
    BY <2>1, <2>2, InItsChannel
<1>2. QED
  BY <1>1, SystemInvariant, PTL

\* A registered vehicle in the air descends, unless its LAND is late or lost.
THEOREM BlockedDescendHolds == SystemSpec => []BlockedDescend
<1>1. SystemInv => BlockedDescend
  <2> SUFFICES ASSUME SystemInv, NEW u \in landedUamIds \cap flying
               PROVE  u \in approved \cup unheard \/ Sent(Message("LAND", u))
    BY DEF BlockedDescend
  <2>1. u \in Id /\ u \in approved \cup unheard \cup LandSent
    BY DEF SystemInv, Parts, Sets, Blocked
  <2>2. QED
    BY <2>1, InItsChannel
<1>2. QED
  BY <1>1, SystemInvariant, PTL

\* saveLandingEvent's log: every landing is in it, on its way to it, in the hands of
\* a handler, or lost with a message, an error or a crash; and nothing else is in it.
THEOREM LandingsAuditedHolds == SystemSpec => []LandingsAudited
<1>1. SystemInv => LandingsAudited
  <2> SUFFICES ASSUME SystemInv PROVE LandingsAudited
    OBVIOUS
  <2>1. {u \in Id : Sent(Message("landed", u))} = LandedSent
    BY InItsChannel DEF LandedSent
  <2>2. QED
    BY <2>1 DEF SystemInv, Parts, Audit, LandingsAudited
<1>2. QED
  BY <1>1, SystemInvariant, PTL
=============================================================================
