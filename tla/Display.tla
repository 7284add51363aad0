------------------------------- MODULE Display -------------------------------
(***************************************************************************)
(* How the panels of the dashboard show the list of the landing queue: the *)
(* cards, the markers of the map, the timeline and the approval dialog.    *)
(* Each has its own test for an emergency, and two a literal of their own. *)
(*                                                                         *)
(* A vehicle is what a status says of it, in the units of Priority, with   *)
(* its distance to the vertiport, which the dashboard computes itself, in  *)
(* metres.  A colour is named for what the legend says it means.           *)
(***************************************************************************)
EXTENDS Priority, Sequences

Shown == [battery : Nat, waiting : BOOLEAN, dist : Nat]

-----------------------------------------------------------------------------
(* Cards *)

CardColour(uam) ==
  IF HighlightedEmergency(uam.battery) THEN "emergency"
  ELSE IF uam.waiting THEN "waiting" ELSE "flight"

\* The battery symbols of card and dialog have the threshold written out.
BatteryAlarm(uam) == uam.battery < 200

PriorityZone(list) == SubSeq(list, 1, IF Len(list) < 3 THEN Len(list) ELSE 3)
StandbyQueue(list) == SubSeq(list, 4, Len(list))

\* The rank of the card that is framed: the first vehicle shown as an emergency.
IsFirstEmergency(list, i) ==
  /\ i \in DOMAIN list /\ HighlightedEmergency(list[i].battery)
  /\ \A j \in 1 .. i - 1 : ~HighlightedEmergency(list[j].battery)

-----------------------------------------------------------------------------
(* Markers *)

MarkerColour(uam, rank) ==
  IF uam.battery < 200 THEN "emergency"
  ELSE IF uam.waiting THEN "waiting" ELSE IF rank <= 3 THEN "top3" ELSE "queue"

MarkerSize(rank) == IF rank <= 3 THEN 16 ELSE 11

-----------------------------------------------------------------------------
(* Timeline *)

\* computeEtaList
EtaEntry(list, i) ==
  [rank |-> i, uam |-> list[i], eta |-> EtaTenths(list[i].dist, list[i].waiting),
   isWaiting |-> list[i].waiting,
   isUamEmergency |-> HighlightedEmergency(list[i].battery)]

TimelineColour(entry) ==
  IF entry.isUamEmergency THEN "emergency"
  ELSE IF entry.isWaiting THEN "waiting" ELSE "flight"

\* The longest distance of the list, 1 km at least.
IsMaxDist(list, max) ==
  /\ max \in {1000} \cup {list[i].dist : i \in DOMAIN list}
  /\ max >= 1000 /\ \A i \in DOMAIN list : max >= list[i].dist

\* Math.min(85, Math.max(5, Math.round((1 - distKm / maxDistKm) * 85)))
Clamped(percent) == IF percent < 5 THEN 5 ELSE IF percent > 85 THEN 85 ELSE percent
Percent(dist, max) == (170 * (max - dist) + max) \div (2 * max)

\* How far along its track, in percent, a vehicle is drawn.
Track(entry, max) == IF entry.isWaiting THEN 90 ELSE Clamped(Percent(entry.uam.dist, max))

-----------------------------------------------------------------------------
(* Dialog *)

DialogEmergency(uam) == HighlightedEmergency(uam.battery)
=============================================================================
