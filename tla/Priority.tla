------------------------------ MODULE Priority ------------------------------
(***************************************************************************)
(* How urgent a vehicle is, on both sides: the score handleJamsilStatus    *)
(* gives a status, by which Redis orders the landing queue, and what the   *)
(* dashboard makes of the same status (geo.ts).                            *)
(*                                                                         *)
(* Numbers are integers in the precision of a status packet: battery in    *)
(* tenths of a percent, distance in hundredths of a kilometre.  A score is *)
(* in fortieths of a point, so that both slopes of the score are whole.    *)
(***************************************************************************)
EXTENDS Integers

Point == 40

\* A battery as updateMovement rounds it, from thousandths of a percent.
ReportedBattery(battery) == (battery + 50) \div 100

IsEmergency(battery) == battery < 150

\* 350 points at 10 % and below, none from 20 % on, linear between.
BatteryScore(battery) ==
  IF battery <= 100 THEN 350 * Point
  ELSE IF battery <= 200 THEN (200 - battery) * 140 ELSE 0

\* 150 points at the vertiport, none from 20 km on.
DistanceScore(distance) == IF distance <= 2000 THEN (2000 - distance) * 3 ELSE 0

\* Mutant: an emergency counts as much as an empty battery, no more.
ScoreFlat(battery, distance) == BatteryScore(battery) + DistanceScore(distance)

Score(battery, distance) ==
  (IF IsEmergency(battery) THEN 500 * Point ELSE 0)
    + BatteryScore(battery) + DistanceScore(distance)

\* The dashboard highlights more vehicles than the scheduler puts first.
HighlightedEmergency(battery) == battery < 200

\* computeEtaList: minutes to the vertiport, in tenths, for a distance in metres
\* at 150 km/h.  A vehicle that hovers at its LDP only has to descend.
EtaTenths(distance, waiting) ==
  IF waiting THEN 15 ELSE 10 * ((distance + 1250) \div 2500)
=============================================================================
