------------------------------- MODULE Flight -------------------------------
(***************************************************************************)
(* The flight of one vehicle, from startSimulation to its touchdown, with  *)
(* LAND commands at any time.                                              *)
(***************************************************************************)
EXTENDS Movement

CONSTANTS
  Speeds, Courses, Distances, Batteries  \* what startSimulation may draw

ASSUME FlightAssumption ==
  /\ Speeds \subseteq 3 .. 10 /\ Courses \subseteq 88 .. 112
  /\ Distances \subseteq Nat
  /\ Batteries \subseteq Nat
  /\ \A b \in Batteries : b >= EmergencyBattery

VARIABLES
  v,     \* the vehicle's state
  aloft  \* it is in vehicleStates and its interval runs

flightVars == <<v, aloft>>

\* The states in which startSimulation leaves a vehicle.
Spawned ==
  [speed: Speeds, course: Courses, dist: Distances, alt: {CruiseAlt},
   battery: Batteries, jamsil: BOOLEAN, waiting: {FALSE}, approved: {FALSE}]

FlightInit == v \in Spawned /\ aloft = TRUE

UpdateMovement ==
  /\ aloft /\ ~Touchdown(v)
  /\ v' = Move(v)
  /\ UNCHANGED aloft

StopVehicle ==
  /\ aloft /\ Touchdown(v)
  /\ aloft' = FALSE
  /\ UNCHANGED v

\* Mutant: a LAND command is obeyed anywhere.
ApproveLandingAnywhere ==
  /\ aloft
  /\ v' = [v EXCEPT !.approved = TRUE]
  /\ UNCHANGED aloft

ApproveLanding ==
  /\ aloft /\ v.waiting
  /\ v' = [v EXCEPT !.approved = TRUE]
  /\ UNCHANGED aloft

FlightNext == UpdateMovement \/ StopVehicle \/ ApproveLanding

\* The interval fires every second; nothing forces an approval.
FlightSpec     == FlightInit /\ [][FlightNext]_flightVars
FairFlightSpec == FlightSpec /\ WF_flightVars(UpdateMovement \/ StopVehicle)

-----------------------------------------------------------------------------
(* Properties *)

\* Types; no vehicle is above cruise altitude, and one that has stopped is on the
\* ground.
FlightTypeOK ==
  /\ v \in Vehicle /\ aloft \in BOOLEAN
  /\ v.alt <= CruiseAlt
  /\ ~aloft => v.alt = 0

\* Battery left when a vehicle that met the emergency threshold at cruise altitude
\* has come down at 20 m a tick, with a tick before the threshold is noticed and
\* one for the last metres.
Reserve == EmergencyBattery - ((MaxDrain \div 20) * CruiseAlt + 2 * MaxDrain)

\* No vehicle, whatever its speed, route and wait for an approval, runs lower than
\* Reserve (9.6 % with the code's constants): the emergency descent is in time.
ReserveKept == v.battery >= Reserve

\* A touchdown away from the vertiport is an emergency: a LAND command that comes
\* en route has no effect.
AwayOnlyInEmergency ==
  ~aloft => AtLdp(v) \/ v.battery < EmergencyBattery

\* An approved vehicle stays approved and never climbs, whichever phase of the
\* flight it is in.
DescentIsFinal ==
  [][v.approved => v'.approved /\ v'.alt <= v.alt]_flightVars

\* Every vehicle lands, even if no approval ever comes.
EveryFlightLands == <>~aloft
=============================================================================
