------------------------------ MODULE MapStream ------------------------------
(***************************************************************************)
(* Stream A: the map buffer of EventsGateway from the status handlers to   *)
(* the clients' maps.  The buffer is a JavaScript Map, which keeps its     *)
(* keys in the order in which they were inserted: an entry here carries    *)
(* the number of its insertion, and the head has the smallest.             *)
(*                                                                         *)
(* Time is the 500 ms timer: the age of a status is the number of times it *)
(* has fired since the vehicle sent it, the clocks of both sides agreeing. *)
(* The awaits of a status bound for Jamsil and of a landing are kept.      *)
(***************************************************************************)
EXTENDS Naturals, FiniteSets, SequencesExt

CONSTANTS
  Uam,
  Jamsil,      \* those whose statuses wait for Redis first
  Limit,       \* MAP_BUFFER_LIMIT, 50 in the code
  MaxAge,      \* a status may be this old, 5 s or 10 firings in the code
  MaxStatus,   \* bound: statuses
  MaxLandings, \* bound: landings
  MaxResets    \* bound: resets

ASSUME MapStreamAssumption ==
  /\ Jamsil \subseteq Uam
  /\ Limit \in Nat \ {0}
  /\ {MaxAge, MaxStatus, MaxLandings, MaxResets} \subseteq Nat

VARIABLES
  storing,       \* statuses whose pipeline Redis has yet to answer, oldest first
  rawBuffer,     \* the entries of the Map
  inserted,      \* insertions since it was last cleared
  landedUamIds,
  registering,   \* vehicles whose registerLanded awaits Redis
  listed,        \* vehicles the clients were told have landed
  mapUams,       \* what the clients show
  live,          \* history: what a buffer without a limit would hold
  statuses, landings, resets

landed == <<landedUamIds, registering, listed>>
counts == <<statuses, landings, resets>>
vars   == <<storing, rawBuffer, inserted, landed, mapUams, live, counts>>

Ids(entries) == {e.uam : e \in entries}
Without(entries, u) == {e \in entries : e.uam # u}

Init ==
  /\ storing = <<>> /\ rawBuffer = {} /\ inserted = 0 /\ mapUams = {} /\ live = {}
  /\ landedUamIds = {} /\ registering = {} /\ listed = {}
  /\ statuses = 0 /\ landings = 0 /\ resets = 0

-----------------------------------------------------------------------------
(* Statuses *)

\* The entry that set() makes of a status.
Entry(s) == [uam |-> s.uam, age |-> s.age, at |-> inserted + 1]

\* Mutant: set() without delete(), which leaves a key where it is.
InsertedInPlace(s) ==
  LET old == {e \in rawBuffer : e.uam = s.uam}
  IN Without(rawBuffer, s.uam)
       \cup (IF old = {} THEN {Entry(s)} ELSE {[e EXCEPT !.age = s.age] : e \in old})

\* delete() and set(): the entry moves to the tail.
Inserted(s) == Without(rawBuffer, s.uam) \cup {Entry(s)}

\* Beyond the limit the head goes.
Trimmed(entries) ==
  IF Cardinality(entries) > Limit
  THEN {e \in entries : \E f \in entries : f.at < e.at}
  ELSE entries

\* Mutant: only handleJamsilStatus asks whether the vehicle has landed.
UpdateMapBufferUnchecked(s) ==
  /\ rawBuffer' = Trimmed(Inserted(s))
  /\ live' = Without(live, s.uam) \cup {Entry(s)}
  /\ inserted' = inserted + 1

UpdateMapBuffer(s) ==
  \/ s.uam \in landedUamIds /\ UNCHANGED <<rawBuffer, live, inserted>>
  \/ /\ s.uam \notin landedUamIds
     /\ rawBuffer' = Trimmed(Inserted(s))
     /\ live' = Without(live, s.uam) \cup {Entry(s)}
     /\ inserted' = inserted + 1

NewStatus ==
  /\ statuses < MaxStatus /\ statuses' = statuses + 1
  /\ UNCHANGED <<landings, resets>>

\* Up to the await of updatePriorityQueue.
HandleJamsilStatus(u) ==
  /\ NewStatus
  /\ u \notin landedUamIds
  /\ storing' = Append(storing, [uam |-> u, age |-> 0])
  /\ UNCHANGED <<rawBuffer, inserted, landed, mapUams, live>>

\* Mutant: pipelines on several connections, answered in any order.
StatusStoredInAnyOrder ==
  \E i \in DOMAIN storing :
    /\ storing' = RemoveAt(storing, i)
    /\ UpdateMapBuffer(storing[i])
    /\ UNCHANGED <<landed, mapUams, counts>>

StatusStored ==
  /\ storing # <<>> /\ storing' = Tail(storing)
  /\ UpdateMapBuffer(Head(storing))
  /\ UNCHANGED <<landed, mapUams, counts>>

HandleAllStatus(u) ==
  /\ NewStatus
  /\ UpdateMapBuffer([uam |-> u, age |-> 0])
  /\ UNCHANGED <<storing, landed, mapUams>>

-----------------------------------------------------------------------------
(* Landings and the reset *)

RegisterLanded(u) ==
  /\ landings < MaxLandings /\ landings' = landings + 1
  /\ u \notin landedUamIds
  /\ landedUamIds' = landedUamIds \cup {u}
  /\ registering' = registering \cup {u}
  /\ UNCHANGED <<storing, rawBuffer, inserted, listed, mapUams, live, statuses, resets>>

\* After both awaits.
Registered(u) ==
  /\ u \in registering /\ registering' = registering \ {u}
  /\ rawBuffer' = Without(rawBuffer, u)
  /\ live' = Without(live, u)
  /\ listed' = listed \cup {u}
  /\ UNCHANGED <<storing, inserted, landedUamIds, mapUams, counts>>

\* The end of triggerAutoReset; what awaits Redis goes on awaiting it.
ResetDone ==
  /\ resets < MaxResets /\ resets' = resets + 1
  /\ landedUamIds' = {} /\ listed' = {}
  /\ rawBuffer' = {} /\ inserted' = 0 /\ live' = {} /\ mapUams' = {}
  /\ UNCHANGED <<storing, registering, statuses, landings>>

-----------------------------------------------------------------------------
(* The 500 ms timer *)

Older(age) == IF age > MaxAge THEN age ELSE age + 1
Aged(entries) == {[e EXCEPT !.age = Older(@)] : e \in entries}
Swept(entries) == {e \in Aged(entries) : e.age <= MaxAge}

\* What the clients see of an entry.
Sent(entries) == {[uam |-> e.uam, age |-> e.age] : e \in entries}

Sweep ==
  /\ storing' = [i \in DOMAIN storing |-> [storing[i] EXCEPT !.age = Older(@)]]
  /\ rawBuffer' = Swept(rawBuffer) /\ live' = Swept(live)
  /\ UNCHANGED <<inserted, landed, counts>>

\* The sweep, and map:update, which an empty buffer does not send.
MapTick ==
  /\ Sweep
  /\ mapUams' = IF rawBuffer' = {} THEN Aged(mapUams) ELSE Sent(rawBuffer')

Next ==
  \/ \E u \in Jamsil : HandleJamsilStatus(u)
  \/ \E u \in Uam \ Jamsil : HandleAllStatus(u)
  \/ \E u \in Uam : RegisterLanded(u) \/ Registered(u)
  \/ StatusStored \/ ResetDone \/ MapTick

Spec == Init /\ [][Next]_vars
-----------------------------------------------------------------------------
(* Properties *)

Status == [uam: Uam, age: 0 .. MaxAge + 1]

\* Types; a Map has a key once, and no more keys than the limit.
TypeOK ==
  /\ storing \in Seq(Status) /\ mapUams \subseteq Status
  /\ inserted \in Nat /\ rawBuffer \subseteq live
  /\ live \subseteq [uam: Uam, age: 0 .. MaxAge + 1, at: 1 .. inserted]
  /\ \A e, f \in live : e.uam = f.uam \/ e.at = f.at => e = f
  /\ IsFiniteSet(rawBuffer) /\ Cardinality(rawBuffer) <= Limit
  /\ landedUamIds \cup registering \cup listed \subseteq Uam

\* The buffer holds the vehicles that were heard last: whoever is missing from it,
\* though not silent for 5 s, landed or reset, was heard before all that are in it.
MostRecent ==
  /\ TypeOK
  /\ \A e \in rawBuffer, f \in live \ rawBuffer : f.at < e.at

\* No vehicle jumps back on the map: what the clients see of it is never replaced by
\* an older status.  updateMapBuffer compares no timestamps; that statuses wait for
\* Redis in order, and those of one vehicle all do or all do not, is what keeps this.
MapNeverGoesBack ==
  [][\A e \in mapUams, f \in mapUams' : e.uam = f.uam => f.age <= Older(e.age)]_vars

\* A vehicle that is in the landed list leaves the map at the next firing of the
\* timer and is not seen there again, though a status of it that passed the
\* landed check is stored later.  (An empty buffer is not sent: the last vehicles
\* stay on the map until another one reports.  And a reset that overtakes a
\* registration unblocks the vehicle.)
LandedLeaveMap ==
  [][MapTick /\ resets = 0 =>
       rawBuffer' = {} \/ Ids(mapUams') \cap listed = {}]_vars
=============================================================================
