------------------------------ MODULE MCFlight ------------------------------
(* The constants of the code, and the corners of what startSimulation draws. *)
EXTENDS Flight

MCSpeeds    == {3, 7, 10}
MCCourses   == {88, 105}  \* to and from Yeouido, between the other two
MCDistances == {6200, 45000, 144000}
MCBatteries == {25000, 32000}
=============================================================================
