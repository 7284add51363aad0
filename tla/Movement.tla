------------------------------ MODULE Movement ------------------------------
(***************************************************************************)
(* What one second does to a vehicle: updateMovement of the simulator's    *)
(* AppService, as a function of the vehicle's state.                       *)
(*                                                                         *)
(* Integers stand for the code's doubles: metres of altitude, thousandths  *)
(* of a percent of battery, and speed in units of 0.0001 degrees per       *)
(* second, of which the code draws 3 to 10.  A position is its distance to *)
(* the destination in decimetres, as getDistanceKm measures it: 0.0001     *)
(* degrees are 88 of them along a parallel, 111 along a meridian, and      *)
(* between these on the straight course of a vehicle.                      *)
(***************************************************************************)
EXTENDS Integers

CONSTANTS
  CruiseAlt, ApproachAlt, LdpAlt,  \* m
  ApproachRadius, LdpRadius,       \* dm
  EmergencyBattery                 \* EMERGENCY_BATTERY_THRESHOLD, 15 %

ASSUME MovementAssumption ==
  /\ {CruiseAlt, ApproachAlt, LdpAlt} \subseteq Nat \ {0}
  /\ {ApproachRadius, LdpRadius, EmergencyBattery} \subseteq Nat
  /\ 25 <= LdpAlt /\ LdpAlt <= ApproachAlt /\ ApproachAlt <= CruiseAlt
  /\ LdpRadius <= ApproachRadius
  /\ 560 <= LdpRadius  \* else the longest step, 112 m, could end farther away

Vehicle ==
  [speed: 3 .. 10, course: 88 .. 112, dist: Nat, alt: Nat, battery: Nat, jamsil: BOOLEAN,
   waiting: BOOLEAN, approved: BOOLEAN]

Step(v)  == v.course * v.speed
Drain(v) == 50 + 15 * v.speed
MaxDrain == 200

AtLdp(v) == v.dist <= LdpRadius
Touchdown(v) == v.approved /\ v.alt <= 0

\* Mutant: the emergency check is dropped.
ApprovedWhenAsked(v) == v.approved \/ (AtLdp(v) /\ ~v.jamsil)

\* A vehicle lands when it was approved, when its battery is low, wherever it is,
\* and when it reaches a vertiport that is not controlled.
Approved(v) ==
  \/ v.approved
  \/ v.battery < EmergencyBattery
  \/ AtLdp(v) /\ ~v.jamsil

NextAlt(v) ==
  CASE Approved(v)                -> IF v.alt > 20 THEN v.alt - 20 ELSE 0
    [] ~Approved(v) /\ AtLdp(v)   -> IF v.alt > LdpAlt THEN v.alt - 25 ELSE LdpAlt
    [] ~Approved(v) /\ ~AtLdp(v) /\ v.dist <= ApproachRadius
                                  -> IF v.alt > ApproachAlt THEN v.alt - 15 ELSE v.alt
    [] ~Approved(v) /\ ~AtLdp(v) /\ v.dist > ApproachRadius
                                  -> IF v.alt < CruiseAlt THEN v.alt + 10 ELSE v.alt

\* The step is made along the line to the destination, and past it if it is longer
\* than what is left.
NextDist(v) ==
  CASE AtLdp(v)                      -> v.dist
    [] ~AtLdp(v) /\ v.dist >= Step(v) -> v.dist - Step(v)
    [] ~AtLdp(v) /\ v.dist < Step(v)  -> Step(v) - v.dist

NextBattery(v) == IF v.battery > Drain(v) THEN v.battery - Drain(v) ELSE 0

Move(v) ==
  [v EXCEPT !.dist = NextDist(v), !.alt = NextAlt(v), !.battery = NextBattery(v),
            !.waiting = AtLdp(v), !.approved = Approved(v)]
=============================================================================
