-------------------------------- MODULE Fleet --------------------------------
(***************************************************************************)
(* The simulator's vehicles as a whole: the map vehicleStates, the         *)
(* interval of each vehicle, the ids, the 2 s timers that replace landed   *)
(* vehicles and resetSimulation.  What a vehicle does in the air, and that *)
(* it lands, is in Flight; here it may land at any tick.                   *)
(***************************************************************************)
EXTENDS Naturals, FiniteSets

CONSTANTS
  FleetSize,  \* INITIAL_FLEET_SIZE, 20 in the code
  IdSpace,    \* ids before vehicleSeq starts again, 9999 in the code
  MaxResets   \* bound: RESET commands

ASSUME FleetAssumption ==
  /\ FleetSize \in Nat \ {0} /\ IdSpace \in Nat /\ FleetSize <= IdSpace
  /\ MaxResets \in Nat

VARIABLES
  vehicleSeq,
  flying,    \* the keys of vehicleStates
  ticking,   \* the ids whose interval runs
  respawns,  \* timers of stopSimulation that have yet to fire
  resets

vars == <<vehicleSeq, flying, ticking, respawns, resets>>

Id == 1 .. IdSpace

\* The sequence starts again after IdSpace.
Wrap(n) == IF n > IdSpace THEN n - IdSpace ELSE n

\* The ids of the next k vehicles, and the counter after them.
NextIds(k) == {Wrap(vehicleSeq + i) : i \in 1 .. k}

SeqAfter(k) == Wrap(vehicleSeq + k)

\* stopSimulation, called by the tick that finds the vehicle on the ground.
StopSimulation(u) ==
  /\ u \in ticking /\ u \in flying
  /\ flying' = flying \ {u}
  /\ ticking' = ticking \ {u}
  /\ respawns' = respawns + 1
  /\ UNCHANGED <<vehicleSeq, resets>>

\* Mutant: the timer counts a vehicle and starts none.
RespawnNobody ==
  /\ respawns > 0 /\ respawns' = respawns - 1
  /\ NextIds(1) \cap flying = {}
  /\ vehicleSeq' = SeqAfter(1)
  /\ flying' = flying
  /\ ticking' = ticking
  /\ UNCHANGED resets

\* A respawn timer fires.  The sequence comes round to an id only after 9999
\* vehicles, long after the flight that had it.
Respawn ==
  /\ respawns > 0 /\ respawns' = respawns - 1
  /\ NextIds(1) \cap flying = {}
  /\ vehicleSeq' = SeqAfter(1)
  /\ flying' = flying \cup NextIds(1)
  /\ ticking' = ticking \cup NextIds(1)
  /\ UNCHANGED resets

\* The intervals of the vehicles in the map are cleared; pending timers are not.
ResetSimulation ==
  /\ resets < MaxResets /\ resets' = resets + 1
  /\ vehicleSeq' = SeqAfter(FleetSize)
  /\ flying' = NextIds(FleetSize)
  /\ ticking' = (ticking \ flying) \cup NextIds(FleetSize)
  /\ UNCHANGED respawns

\* What onModuleInit leaves.
Init ==
  /\ vehicleSeq = FleetSize
  /\ flying = 1 .. FleetSize /\ ticking = 1 .. FleetSize
  /\ respawns = 0 /\ resets = 0

Next == (\E u \in Id : StopSimulation(u)) \/ Respawn \/ ResetSimulation

Spec == Init /\ [][Next]_vars

-----------------------------------------------------------------------------
(* Properties *)

\* Types; the counter stays within the ids.
TypeOK ==
  /\ vehicleSeq \in Id
  /\ flying \subseteq Id /\ ticking \subseteq Id
  /\ respawns \in Nat /\ resets \in Nat

\* No interval outlives its vehicle: after a reset nobody ticks, and reports to
\* the scheduler, that resetSimulation has taken out of the map.
OnlyFlyingTick == ticking = flying

\* No landing and no reset loses a vehicle: those in the air and those about to
\* start are the fleet, and never fewer.
FleetKept ==
  /\ Cardinality(flying) + respawns >= FleetSize
  /\ resets = 0 => Cardinality(flying) + respawns = FleetSize
=============================================================================
