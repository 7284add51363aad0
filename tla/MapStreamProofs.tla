-------------------------- MODULE MapStreamProofs --------------------------
(***************************************************************************)
(* Proofs about MapStream, for any vehicles, limit, age and number of      *)
(* statuses, landings and resets: the buffer holds those heard last, no    *)
(* vehicle jumps back on the map, and landed vehicles leave it.            *)
(***************************************************************************)
EXTENDS MapStream, FiniteSetTheorems, WellFoundedInduction, TLAPS

Held(n) == [uam : Uam, age : 0 .. MaxAge + 1, at : 1 .. n]

\* What holds of the buffer and of what one without a limit would hold.
Recent(buffer, all, n) ==
  /\ n \in Nat /\ buffer \subseteq all /\ all \subseteq Held(n)
  /\ \A e, f \in all : e.uam = f.uam \/ e.at = f.at => e = f
  /\ IsFiniteSet(buffer) /\ Cardinality(buffer) <= Limit
  /\ \A e \in buffer, f \in all \ buffer : f.at < e.at

LEMMA EmptyRecent == ASSUME NEW n \in Nat PROVE Recent({}, {}, n)
<1>1. IsFiniteSet({}) /\ Cardinality({}) = 0
  BY FS_EmptySet
<1>2. QED
  BY <1>1, MapStreamAssumption DEF Recent

\* A vehicle is taken out.
LEMMA WithoutRecent ==
  ASSUME NEW buffer, NEW all, NEW n, Recent(buffer, all, n), NEW u
  PROVE  Recent(Without(buffer, u), Without(all, u), n)
<1>1. /\ IsFiniteSet(Without(buffer, u)) /\ Cardinality(Without(buffer, u)) <= Limit
  <2>1. Without(buffer, u) \in SUBSET buffer
    BY DEF Without
  <2>2. /\ IsFiniteSet(Without(buffer, u))
        /\ Cardinality(Without(buffer, u)) <= Cardinality(buffer)
    BY <2>1, FS_Subset DEF Recent
  <2>3. Cardinality(Without(buffer, u)) \in Nat /\ Cardinality(buffer) \in Nat
    BY <2>2, FS_CardinalityType DEF Recent
  <2>4. QED
    BY <2>2, <2>3, MapStreamAssumption DEF Recent
<1>2. QED
  BY <1>1 DEF Recent, Without

\* The head of a set of entries: the one that was inserted first.
LEMMA HeadExists ==
  ASSUME NEW n \in Nat, NEW entries, entries \subseteq Held(n), entries # {}
  PROVE  \E e \in entries : \A f \in entries : e.at <= f.at
<1> DEFINE places == {e.at : e \in entries}
<1>1. places \in SUBSET Nat /\ places # {}
  BY DEF Held
<1>2. PICK k \in places : \A m \in places : k <= m
  <2> DEFINE R == OpToRel(<, Nat)
  <2>1. IsWellFoundedOn(R, Nat)
    BY NatLessThanWellFounded
  <2>2. \A m, k \in Nat : <<m, k>> \in R <=> m < k
    BY DEF OpToRel
  <2> HIDE DEF R, places
  <2>3. PICK k \in places : \A m \in places : ~(<<m, k>> \in R)
    BY <1>1, <2>1, WFMin
  <2>4. ASSUME NEW m \in places PROVE k <= m
    <3>1. m \in Nat /\ k \in Nat /\ ~(m < k)
      BY <1>1, <2>2, <2>3
    <3>2. QED
      BY <3>1
  <2>5. QED
    BY <2>4
<1>3. QED
  BY <1>2

\* The entry of a status goes to the tail; if that makes one too many, the head leaves,
\* which was heard before all that stay.
LEMMA InsertRecent ==
  ASSUME Recent(rawBuffer, live, inserted), NEW s \in Status
  PROVE  Recent(Trimmed(Inserted(s)), Without(live, s.uam) \cup {Entry(s)}, inserted + 1)
<1> DEFINE buffer == Without(rawBuffer, s.uam)
           all == Without(live, s.uam)
           new == Entry(s)
           n == inserted + 1
<1>1. Recent(buffer, all, inserted) /\ n \in Nat
  <2>1. Recent(buffer, all, inserted)
    BY WithoutRecent
  <2>2. QED
    BY <2>1 DEF Recent
<1>2. /\ new \in Held(n) /\ new.uam = s.uam /\ new.at = n
  BY <1>1 DEF Entry, Held, Status, Recent
<1>3. /\ \A e \in all : e \in Held(n) /\ e.at < n /\ e.uam # s.uam
      /\ new \notin all
  BY <1>1, <1>2 DEF Recent, Held, Without
<1>4. /\ IsFiniteSet(Inserted(s)) /\ Cardinality(Inserted(s)) <= Limit + 1
      /\ Cardinality(Inserted(s)) \in Nat
  <2>1. IsFiniteSet(buffer) /\ Cardinality(buffer) <= Limit /\ Cardinality(buffer) \in Nat
    BY <1>1, FS_CardinalityType DEF Recent
  <2>2. /\ IsFiniteSet(buffer \cup {new})
        /\ Cardinality(buffer \cup {new}) <= Cardinality(buffer) + 1
    <3>1. /\ IsFiniteSet(buffer \cup {new})
          /\ Cardinality(buffer \cup {new})
               = IF new \in buffer THEN Cardinality(buffer) ELSE Cardinality(buffer) + 1
      BY <2>1, FS_AddElement
    <3>2. QED
      BY <2>1, <3>1
  <2>3. IsFiniteSet(Inserted(s)) /\ Cardinality(Inserted(s)) <= Cardinality(buffer) + 1
    BY <2>2 DEF Inserted
  <2>4. QED
    BY <2>1, <2>3, FS_CardinalityType, MapStreamAssumption
<1>5. /\ Inserted(s) = buffer \cup {new} /\ buffer \subseteq all
      /\ \A e \in Inserted(s), f \in (all \cup {new}) \ Inserted(s) : f.at < e.at
  <2>1. Inserted(s) = buffer \cup {new} /\ buffer \subseteq all
    BY <1>1 DEF Inserted, Recent
  <2>2. QED
    BY <1>1, <1>2, <1>3, <2>1 DEF Recent
<1>6. /\ all \cup {new} \subseteq Held(n)
      /\ \A e, f \in all \cup {new} : e.uam = f.uam \/ e.at = f.at => e = f
  BY <1>1, <1>2, <1>3 DEF Recent
<1> HIDE DEF buffer, all, new, n
<1>7. CASE ~(Cardinality(Inserted(s)) > Limit)
  <2>1. Trimmed(Inserted(s)) = Inserted(s) /\ Cardinality(Inserted(s)) <= Limit
    BY <1>4, <1>7, MapStreamAssumption DEF Trimmed
  <2>2. Recent(Inserted(s), all \cup {new}, n)
    BY <1>1, <1>4, <1>5, <1>6, <2>1 DEF Recent
  <2>3. QED
    BY <2>1, <2>2 DEF all, new, n
<1>8. CASE Cardinality(Inserted(s)) > Limit
  <2> DEFINE kept == {e \in Inserted(s) : \E f \in Inserted(s) : f.at < e.at}
  <2>1. Trimmed(Inserted(s)) = kept
    BY <1>8 DEF Trimmed
  <2>2. PICK head \in Inserted(s) : \A f \in Inserted(s) : head.at <= f.at
    <3>1. Inserted(s) \subseteq Held(n) /\ Inserted(s) # {}
      BY <1>5, <1>6
    <3>2. QED
      BY <1>1, <3>1, HeadExists
  <2>3. \A e \in Inserted(s) : e.at \in Nat /\ (e.at = head.at => e = head)
    BY <1>1, <1>5, <1>6, <2>2 DEF Held
  <2>4. kept = Inserted(s) \ {head}
    BY <2>2, <2>3
  <2>5. IsFiniteSet(kept) /\ Cardinality(kept) <= Limit
    <3>1. /\ IsFiniteSet(Inserted(s) \ {head})
          /\ Cardinality(Inserted(s) \ {head}) = Cardinality(Inserted(s)) - 1
      BY <1>4, <2>2, FS_RemoveElement
    <3> HIDE DEF kept
    <3>2. QED
      BY <1>4, <2>4, <3>1, MapStreamAssumption
  <2>6. kept \subseteq all \cup {new}
    BY <1>5, <2>4
  <2>7. ASSUME NEW e \in kept, NEW f \in (all \cup {new}) \ kept
        PROVE  f.at < e.at
    <3>1. CASE f = head
      BY <2>2, <2>3, <2>4, <3>1
    <3>2. CASE f # head
      BY <1>5, <2>4, <3>2
    <3>3. QED
      BY <3>1, <3>2
  <2> HIDE DEF kept
  <2>8. Recent(kept, all \cup {new}, n)
    BY <1>1, <1>6, <2>5, <2>6, <2>7 DEF Recent
  <2>9. QED
    BY <2>1, <2>8 DEF all, new, n
<1>9. QED
  BY <1>7, <1>8

\* The timer makes every entry older and drops the old ones; places and vehicles stay.
LEMMA SweptRecent ==
  ASSUME NEW buffer, NEW all, NEW n, Recent(buffer, all, n)
  PROVE  Recent(Swept(buffer), Swept(all), n)
<1> DEFINE older == [e \in all |-> [e EXCEPT !.age = Older(@)]]
<1>1. \A e \in all : /\ older[e] \in Held(n) /\ older[e].uam = e.uam /\ older[e].at = e.at
                     /\ older[e].age = Older(e.age)
  BY MapStreamAssumption DEF Recent, Held, Older
<1>2. /\ Aged(all) = {older[e] : e \in all} /\ Aged(buffer) = {older[e] : e \in buffer}
  BY DEF Recent, Aged
<1> HIDE DEF older
<1>3. IsFiniteSet(Swept(buffer)) /\ Cardinality(Swept(buffer)) <= Limit
  <2> DEFINE g == [e \in buffer |-> older[e]]
  <2>1. g \in Surjection(buffer, Aged(buffer))
    BY <1>2 DEF Surjection
  <2>2. IsFiniteSet(buffer) /\ IsFiniteSet(Aged(buffer))
        /\ Cardinality(Aged(buffer)) <= Cardinality(buffer)
    BY <2>1, FS_Surjection DEF Recent
  <2>3. Swept(buffer) \in SUBSET Aged(buffer)
    BY DEF Swept
  <2>4. /\ IsFiniteSet(Swept(buffer))
        /\ Cardinality(Swept(buffer)) <= Cardinality(Aged(buffer))
    BY <2>2, <2>3, FS_Subset
  <2>5. /\ Cardinality(Swept(buffer)) \in Nat /\ Cardinality(Aged(buffer)) \in Nat
        /\ Cardinality(buffer) \in Nat /\ Limit \in Nat /\ Cardinality(buffer) <= Limit
    BY <2>2, <2>4, FS_CardinalityType, MapStreamAssumption DEF Recent
  <2>6. QED
    BY <2>2, <2>4, <2>5
<1>4. /\ Swept(buffer) \subseteq Swept(all) /\ Swept(all) \subseteq Held(n)
      /\ \A e \in Swept(all) : \E e0 \in all : e = older[e0]
      /\ \A e \in Swept(buffer) : \E e0 \in buffer : e = older[e0]
  BY <1>1, <1>2 DEF Swept, Recent
<1>5. ASSUME NEW e \in Swept(all), NEW f \in Swept(all), e.uam = f.uam \/ e.at = f.at
      PROVE  e = f
  BY <1>1, <1>4, <1>5 DEF Recent
<1>6. ASSUME NEW e \in Swept(buffer), NEW f \in Swept(all) \ Swept(buffer)
      PROVE  f.at < e.at
  <2>1. PICK e0 \in buffer, f0 \in all : e = older[e0] /\ f = older[f0]
    BY <1>4
  <2>2. f0 \notin buffer
    BY <1>2, <2>1 DEF Swept
  <2>3. e0 \in all /\ f0.at < e0.at
    BY <2>1, <2>2 DEF Recent
  <2>4. QED
    BY <1>1, <2>1, <2>3
<1>7. QED
  BY <1>3, <1>4, <1>5, <1>6 DEF Recent

\* No vehicle comes into the buffer when it is swept and sent.
LEMMA SweptIds ==
  ASSUME NEW n, NEW entries, entries \subseteq Held(n)
  PROVE  /\ Ids(Swept(entries)) \subseteq Ids(entries)
         /\ Ids(Sent(Swept(entries))) \subseteq Ids(entries)
<1>1. \A e \in entries : [e EXCEPT !.age = Older(@)].uam = e.uam
  BY DEF Held
<1>2. Ids(Swept(entries)) \subseteq Ids(entries)
  BY <1>1 DEF Swept, Aged, Ids
<1>3. Ids(Sent(Swept(entries))) \subseteq Ids(Swept(entries))
  <2>1. \A s \in Sent(Swept(entries)) : s.uam \in Ids(Swept(entries))
    BY DEF Sent, Ids
  <2>2. QED
    BY <2>1 DEF Ids
<1>4. QED
  BY <1>2, <1>3

-----------------------------------------------------------------------------
(* The invariant *)

\* Until a reset, who is in the landed list is blocked, and out of the buffer.
ListedAreOut ==
  resets = 0 => /\ registering \cup listed \subseteq landedUamIds
                /\ Ids(rawBuffer) \cap listed = {}

MapInv ==
  /\ storing \in Seq(Status) /\ mapUams \subseteq Status
  /\ Recent(rawBuffer, live, inserted)
  /\ landedUamIds \cup registering \cup listed \subseteq Uam
  /\ resets \in Nat /\ ListedAreOut

LEMMA InitMap == Init => MapInv
<1>1. Recent({}, {}, 0)
  BY EmptyRecent
<1>2. QED
  BY <1>1 DEF Init, MapInv, ListedAreOut, Ids

\* A status that finds its vehicle blocked changes nothing; so it cannot bring a listed one back.
LEMMA UpdateMap ==
  ASSUME MapInv, NEW s \in Status, UpdateMapBuffer(s)
  PROVE  /\ Recent(rawBuffer', live', inserted')
         /\ Ids(rawBuffer') \subseteq Ids(rawBuffer) \cup (Uam \ landedUamIds)
<1>1. CASE s.uam \in landedUamIds /\ UNCHANGED <<rawBuffer, live, inserted>>
  BY <1>1 DEF MapInv
<1>2. CASE /\ s.uam \notin landedUamIds
           /\ rawBuffer' = Trimmed(Inserted(s))
           /\ live' = Without(live, s.uam) \cup {Entry(s)}
           /\ inserted' = inserted + 1
  <2>1. Recent(rawBuffer', live', inserted')
    BY <1>2, InsertRecent DEF MapInv
  <2>2. rawBuffer' \subseteq rawBuffer \cup {Entry(s)} /\ Entry(s).uam = s.uam /\ s.uam \in Uam
    BY <1>2 DEF Trimmed, Inserted, Without, Entry, Status
  <2>3. QED
    BY <1>2, <2>1, <2>2 DEF Ids
<1>3. QED
  BY <1>1, <1>2 DEF UpdateMapBuffer

LEMMA StepMap == MapInv /\ [Next]_vars => MapInv'
<1> SUFFICES ASSUME MapInv, [Next]_vars PROVE MapInv'
  OBVIOUS
<1>1. ASSUME NEW u \in Jamsil, HandleJamsilStatus(u) PROVE MapInv'
  <2>1. [uam |-> u, age |-> 0] \in Status
    BY MapStreamAssumption DEF Status
  <2>2. storing' \in Seq(Status)
    BY <1>1, <2>1 DEF HandleJamsilStatus, MapInv
  <2>3. QED
    BY <1>1, <2>2 DEF HandleJamsilStatus, NewStatus, MapInv, ListedAreOut, landed
<1>2. ASSUME NEW u \in Uam \ Jamsil, HandleAllStatus(u) PROVE MapInv'
  <2>1. [uam |-> u, age |-> 0] \in Status
    BY MapStreamAssumption DEF Status
  <2>2. /\ Recent(rawBuffer', live', inserted')
        /\ Ids(rawBuffer') \subseteq Ids(rawBuffer) \cup (Uam \ landedUamIds)
    BY <1>2, <2>1, UpdateMap DEF HandleAllStatus
  <2>3. QED
    BY <1>2, <2>2 DEF HandleAllStatus, NewStatus, MapInv, ListedAreOut, landed
<1>3. ASSUME NEW u \in Uam, RegisterLanded(u) PROVE MapInv'
  BY <1>3 DEF RegisterLanded, MapInv, ListedAreOut
<1>4. ASSUME NEW u \in Uam, Registered(u) PROVE MapInv'
  <2>1. Recent(rawBuffer', live', inserted')
    BY <1>4, WithoutRecent DEF Registered, MapInv
  <2>2. Ids(rawBuffer') = Ids(rawBuffer) \ {u}
    BY <1>4 DEF Registered, Ids, Without
  <2>3. QED
    BY <1>4, <2>1, <2>2 DEF Registered, MapInv, ListedAreOut, counts
<1>5. CASE StatusStored
  <2>1. Head(storing) \in Status /\ Tail(storing) \in Seq(Status)
    BY <1>5 DEF StatusStored, MapInv
  <2>2. /\ Recent(rawBuffer', live', inserted')
        /\ Ids(rawBuffer') \subseteq Ids(rawBuffer) \cup (Uam \ landedUamIds)
    BY <1>5, <2>1, UpdateMap DEF StatusStored
  <2>3. QED
    BY <1>5, <2>1, <2>2 DEF StatusStored, MapInv, ListedAreOut, landed, counts
<1>6. CASE ResetDone
  <2>1. Recent({}, {}, 0)
    BY EmptyRecent
  <2>2. resets' # 0
    BY <1>6 DEF ResetDone, MapInv
  <2>3. QED
    BY <1>6, <2>1 DEF ResetDone, MapInv, ListedAreOut, Ids
<1>7. CASE MapTick
  <2>1. Recent(rawBuffer', live', inserted')
    BY <1>7, SweptRecent DEF MapTick, Sweep, MapInv
  <2>2. \A s \in Status : [s EXCEPT !.age = Older(@)] \in Status
    BY MapStreamAssumption DEF Status, Older
  <2>3. storing' \in Seq(Status)
    BY <1>7, <2>2 DEF MapTick, Sweep, MapInv
  <2>4. mapUams' \subseteq Status
    <3>1. Aged(mapUams) \subseteq Status
      BY <2>2 DEF MapInv, Aged
    <3>2. Sent(rawBuffer') \subseteq Status
      <4>1. \A e \in rawBuffer' : e \in Held(inserted')
        BY <2>1 DEF Recent
      <4>2. QED
        BY <4>1 DEF Sent, Status, Held
    <3>3. QED
      BY <1>7, <3>1, <3>2 DEF MapTick
  <2>5. Ids(rawBuffer') \subseteq Ids(rawBuffer)
    <3>1. rawBuffer \subseteq Held(inserted)
      BY DEF MapInv, Recent
    <3>2. QED
      BY <1>7, <3>1, SweptIds DEF MapTick, Sweep
  <2>6. QED
    BY <1>7, <2>1, <2>3, <2>4, <2>5
       DEF MapTick, Sweep, MapInv, ListedAreOut, landed, counts
<1>8. CASE UNCHANGED vars
  BY <1>8 DEF vars, landed, counts, MapInv, ListedAreOut
<1>9. QED
  BY <1>1, <1>2, <1>3, <1>4, <1>5, <1>6, <1>7, <1>8 DEF Next

\* The buffer, kept within its limit, holds exactly the vehicles that were heard last.
THEOREM MostRecentHolds == Spec => []MostRecent
<1>1. MapInv => MostRecent
  BY DEF MapInv, Recent, Held, MostRecent, TypeOK
<1>2. QED
  BY InitMap, StepMap, <1>1, PTL DEF Spec

-----------------------------------------------------------------------------
(* The order of statuses *)

LEMMA OlderMonotone ==
  ASSUME NEW a \in 0 .. MaxAge + 1, NEW b \in 0 .. MaxAge + 1
  PROVE  Older(a) \in Nat /\ (a <= b => Older(a) <= Older(b)) /\ a <= Older(a)
BY MapStreamAssumption DEF Older

\* No status that waits is older than an entry of its vehicle.
Behind(entries) ==
  \A e \in entries, i \in DOMAIN storing :
    e.uam = storing[i].uam => storing[i].age <= e.age

InOrder ==
  /\ \A i \in DOMAIN storing : storing[i].uam \in Jamsil
  /\ \A i, j \in DOMAIN storing : i <= j => storing[j].age <= storing[i].age
  /\ Behind(rawBuffer) /\ Behind(mapUams)
  /\ \A e \in mapUams, f \in rawBuffer : e.uam = f.uam => f.age <= e.age
  /\ \A e, f \in mapUams : e.uam = f.uam => e = f

LEMMA Typed ==
  ASSUME MapInv
  PROVE  /\ \A i \in DOMAIN storing : storing[i].age \in 0 .. MaxAge + 1
         /\ \A e \in rawBuffer \cup mapUams : e.age \in 0 .. MaxAge + 1
         /\ \A e, f \in rawBuffer : e.uam = f.uam => e = f
         /\ \A e \in rawBuffer : e \in Held(inserted)
         /\ \A a \in 0 .. MaxAge + 1 : a \in Nat
<1>1. \A i \in DOMAIN storing : storing[i] \in Status
  BY DEF MapInv
<1>2. \A e \in rawBuffer : e \in Held(inserted)
  BY DEF MapInv, Recent
<1>3. \A a \in 0 .. MaxAge + 1 : a \in Nat
  BY MapStreamAssumption
<1>4. QED
  BY <1>1, <1>2, <1>3 DEF MapInv, Recent, Held, Status

\* The statuses that wait are as they were, and the buffer gains at most an entry that
\* is not older than what was there.
LEMMA UpdateOrder ==
  ASSUME MapInv, NEW s \in Status, UpdateMapBuffer(s)
  PROVE  \A e \in rawBuffer' : e \in rawBuffer \/ (e.uam = s.uam /\ e.age = s.age)
BY DEF UpdateMapBuffer, Trimmed, Inserted, Without, Entry

LEMMA StepOrder == MapInv /\ MapInv' /\ InOrder /\ [Next]_vars => InOrder'
<1> SUFFICES ASSUME MapInv, MapInv', InOrder, [Next]_vars PROVE InOrder'
  OBVIOUS
<1> DEFINE n == Len(storing)
<1>0. n \in Nat /\ DOMAIN storing = 1 .. n /\ storing \in Seq(Status)
  BY DEF MapInv
<1>1. ASSUME NEW u \in Jamsil, HandleJamsilStatus(u) PROVE InOrder'
  <2>1. /\ storing' = Append(storing, [uam |-> u, age |-> 0])
        /\ UNCHANGED <<rawBuffer, mapUams>>
    BY <1>1 DEF HandleJamsilStatus
  <2>2. /\ DOMAIN storing' = 1 .. n + 1 /\ storing'[n + 1] = [uam |-> u, age |-> 0]
        /\ \A i \in 1 .. n : storing'[i] = storing[i]
    BY <1>0, <2>1
  <2>3. \A i \in 1 .. n + 1 : i \in 1 .. n \/ i = n + 1
    BY <1>0
  <2> HIDE DEF n
  <2>4. \A i \in DOMAIN storing' : storing'[i].uam \in Jamsil
    BY <1>0, <2>2, <2>3 DEF InOrder
  <2>5. \A i, j \in DOMAIN storing' : i <= j => storing'[j].age <= storing'[i].age
    <3> SUFFICES ASSUME NEW i \in 1 .. n + 1, NEW j \in 1 .. n + 1, i <= j
                 PROVE  storing'[j].age <= storing'[i].age
      BY <2>2
    <3>1. CASE j = n + 1
      <4>1. storing'[j].age = 0 /\ storing'[i].age \in Nat
        BY <1>0, <2>2, <2>3, <3>1, Typed
      <4>2. QED
        BY <4>1
    <3>2. CASE j \in 1 .. n
      <4>1. i \in 1 .. n
        BY <1>0, <3>2
      <4>2. QED
        BY <1>0, <2>2, <3>2, <4>1 DEF InOrder
    <3>3. QED
      BY <2>3, <3>1, <3>2
  <2>6. Behind(rawBuffer)' /\ Behind(mapUams)'
    <3> SUFFICES ASSUME NEW e \in rawBuffer \cup mapUams, NEW i \in 1 .. n + 1,
                        e.uam = storing'[i].uam
                 PROVE  storing'[i].age <= e.age
      BY <2>1, <2>2 DEF Behind
    <3>1. CASE i = n + 1
      <4>1. storing'[i].age = 0 /\ e.age \in Nat
        BY <2>2, <3>1, Typed
      <4>2. QED
        BY <4>1
    <3>2. CASE i \in 1 .. n
      BY <1>0, <2>2, <3>2 DEF InOrder, Behind
    <3>3. QED
      BY <2>3, <3>1, <3>2
  <2>7. QED
    BY <2>1, <2>4, <2>5, <2>6 DEF InOrder
<1>2. ASSUME NEW u \in Uam \ Jamsil, HandleAllStatus(u) PROVE InOrder'
  <2>1. [uam |-> u, age |-> 0] \in Status
    BY MapStreamAssumption DEF Status
  <2>2. \A e \in rawBuffer' : e \in rawBuffer \/ (e.uam = u /\ e.age = 0)
    BY <1>2, <2>1, UpdateOrder DEF HandleAllStatus
  <2>3. UNCHANGED <<storing, mapUams>>
    BY <1>2 DEF HandleAllStatus
  <2>4. \A e \in mapUams : 0 <= e.age
    BY Typed
  <2>5. QED
    BY <2>2, <2>3, <2>4 DEF InOrder, Behind
<1>3. ASSUME NEW u \in Uam, RegisterLanded(u) \/ Registered(u) PROVE InOrder'
  <2>1. rawBuffer' \subseteq rawBuffer /\ UNCHANGED <<storing, mapUams>>
    BY <1>3 DEF RegisterLanded, Registered, Without
  <2>2. QED
    BY <2>1 DEF InOrder, Behind
<1>4. CASE StatusStored
  <2> DEFINE s == Head(storing)
  <2>1. /\ n > 0 /\ 1 \in 1 .. n /\ s = storing[1] /\ s \in Status
        /\ storing' = Tail(storing) /\ UNCHANGED mapUams
    BY <1>0, <1>4 DEF StatusStored
  <2>2. DOMAIN storing' = 1 .. n - 1 /\ \A i \in 1 .. n - 1 : storing'[i] = storing[i + 1]
    BY <1>0, <2>1
  <2>3. \A i \in 1 .. n - 1 : i + 1 \in 1 .. n /\ 1 <= i + 1
    BY <1>0
  <2>11. \A i, j \in 1 .. n - 1 : i <= j => i + 1 <= j + 1
    BY <1>0
  <2>4. \A e \in rawBuffer' : e \in rawBuffer \/ (e.uam = s.uam /\ e.age = s.age)
    BY <1>4, <2>1, UpdateOrder DEF StatusStored
  <2> HIDE DEF n, s
  <2>5. \A i \in DOMAIN storing' : storing'[i].uam \in Jamsil
    BY <1>0, <2>2, <2>3 DEF InOrder
  <2>6. \A i, j \in DOMAIN storing' : i <= j => storing'[j].age <= storing'[i].age
    BY <1>0, <2>2, <2>3, <2>11 DEF InOrder
  <2>7. Behind(rawBuffer)'
    <3> SUFFICES ASSUME NEW e \in rawBuffer', NEW i \in 1 .. n - 1, e.uam = storing'[i].uam
                 PROVE  storing'[i].age <= e.age
      BY <2>2 DEF Behind
    <3>1. CASE e \in rawBuffer
      BY <1>0, <2>2, <2>3, <3>1 DEF InOrder, Behind
    <3>2. CASE e.uam = s.uam /\ e.age = s.age
      BY <1>0, <2>1, <2>2, <2>3, <3>2 DEF InOrder
    <3>3. QED
      BY <2>4, <3>1, <3>2
  <2>8. Behind(mapUams)'
    BY <1>0, <2>1, <2>2, <2>3 DEF InOrder, Behind
  <2>9. \A e \in mapUams', f \in rawBuffer' : e.uam = f.uam => f.age <= e.age
    BY <1>0, <2>1, <2>4 DEF InOrder, Behind
  <2>10. QED
    BY <2>1, <2>5, <2>6, <2>7, <2>8, <2>9 DEF InOrder
<1>5. CASE ResetDone
  BY <1>5 DEF ResetDone, InOrder, Behind
<1>6. CASE MapTick
  <2>1. /\ DOMAIN storing' = DOMAIN storing
        /\ \A i \in DOMAIN storing : /\ storing'[i].uam = storing[i].uam
                                     /\ storing'[i].age = Older(storing[i].age)
    <3>1. storing' = [i \in DOMAIN storing |-> [storing[i] EXCEPT !.age = Older(@)]]
      BY <1>6 DEF MapTick, Sweep
    <3>2. \A i \in DOMAIN storing : storing[i] \in Status
      BY <1>0
    <3>3. QED
      BY <3>1, <3>2 DEF Status
  <2>2. \A f \in rawBuffer' : \E e \in rawBuffer : f.uam = e.uam /\ f.age = Older(e.age)
    BY <1>6, Typed DEF MapTick, Sweep, Swept, Aged, Held
  <2>3. \/ mapUams' = Aged(mapUams) /\ rawBuffer' = {}
        \/ mapUams' = Sent(rawBuffer')
    BY <1>6 DEF MapTick
  <2>4. \A f \in mapUams' : \E e \in mapUams \cup rawBuffer : f.uam = e.uam /\ f.age = Older(e.age)
    <3>1. CASE mapUams' = Aged(mapUams)
      BY <3>1 DEF Aged, MapInv, Status
    <3>2. CASE mapUams' = Sent(rawBuffer')
      BY <2>2, <3>2 DEF Sent
    <3>3. QED
      BY <2>3, <3>1, <3>2
  <2>5. \A i \in DOMAIN storing' : storing'[i].uam \in Jamsil
    BY <2>1 DEF InOrder
  <2>6. \A i, j \in DOMAIN storing' : i <= j => storing'[j].age <= storing'[i].age
    BY <2>1, Typed, OlderMonotone DEF InOrder
  <2>7. Behind(rawBuffer)'
    BY <2>1, <2>2, Typed, OlderMonotone DEF InOrder, Behind
  <2>8. Behind(mapUams)'
    BY <2>1, <2>4, Typed, OlderMonotone DEF InOrder, Behind
  <2>9. \A e, f \in mapUams' : e.uam = f.uam => e = f
    <3>1. CASE mapUams' = Aged(mapUams)
      <4>1. \A e \in mapUams : [e EXCEPT !.age = Older(@)].uam = e.uam
        BY DEF MapInv, Status
      <4>2. \A f \in mapUams' : \E e \in mapUams : f = [e EXCEPT !.age = Older(@)] /\ f.uam = e.uam
        BY <3>1, <4>1 DEF Aged
      <4>3. SUFFICES ASSUME NEW e \in mapUams', NEW f \in mapUams', e.uam = f.uam
                     PROVE  e = f
        OBVIOUS
      <4>4. PICK d \in mapUams : e = [d EXCEPT !.age = Older(@)] /\ e.uam = d.uam
        BY <4>2
      <4>5. PICK g \in mapUams : f = [g EXCEPT !.age = Older(@)] /\ f.uam = g.uam
        BY <4>2
      <4>6. d = g
        BY <4>3, <4>4, <4>5 DEF InOrder
      <4>7. QED
        BY <4>4, <4>5, <4>6
    <3>2. CASE mapUams' = Sent(rawBuffer')
      <4>1. \A e, f \in rawBuffer' : e.uam = f.uam => e = f
        BY DEF MapInv, Recent
      <4>2. QED
        BY <3>2, <4>1 DEF Sent
    <3>3. QED
      BY <2>3, <3>1, <3>2
  <2>10. \A e \in mapUams', f \in rawBuffer' : e.uam = f.uam => f.age <= e.age
    <3>1. CASE rawBuffer' = {}
      BY <3>1
    <3>2. CASE mapUams' = Sent(rawBuffer')
      <4>1. \A e, f \in rawBuffer' : e.uam = f.uam => e = f
        BY DEF MapInv, Recent
      <4>2. \A e \in rawBuffer' : e.age \in Nat
        BY <2>2, Typed, OlderMonotone
      <4>3. \A e \in mapUams', f \in rawBuffer' : e.uam = f.uam => e.age = f.age
        BY <3>2, <4>1 DEF Sent
      <4>4. QED
        BY <4>2, <4>3
    <3>3. QED
      BY <2>3, <3>1, <3>2
  <2>11. QED
    BY <2>5, <2>6, <2>7, <2>8, <2>9, <2>10 DEF InOrder
<1>7. CASE UNCHANGED vars
  BY <1>7 DEF vars, InOrder, Behind
<1>8. QED
  BY <1>1, <1>2, <1>3, <1>4, <1>5, <1>6, <1>7 DEF Next

\* No status, however long it waited for Redis, puts a vehicle back on the clients' maps.
THEOREM MapNeverGoesBackHolds == Spec => MapNeverGoesBack
<1>1. Init => InOrder
  BY DEF Init, InOrder, Behind
<1>2. MapInv /\ InOrder /\ [Next]_vars
        => [\A e \in mapUams, f \in mapUams' : e.uam = f.uam => f.age <= Older(e.age)]_vars
  <2> SUFFICES ASSUME MapInv, InOrder, Next, NEW e \in mapUams, NEW f \in mapUams',
                      e.uam = f.uam
               PROVE  f.age <= Older(e.age)
    BY DEF vars
  <2>1. CASE mapUams' \subseteq mapUams
    <3>1. f = e
      BY <2>1 DEF InOrder
    <3>2. QED
      BY <3>1, Typed, OlderMonotone
  <2>2. CASE MapTick
    <3>1. PICK g \in mapUams \cup rawBuffer : f.uam = g.uam /\ f.age = Older(g.age)
      <4>1. CASE mapUams' = Aged(mapUams)
        BY <4>1 DEF Aged, MapInv, Status
      <4>2. CASE mapUams' = Sent(rawBuffer')
        <5>1. PICK h \in rawBuffer' : f.uam = h.uam /\ f.age = h.age
          BY <4>2 DEF Sent
        <5>2. PICK g \in rawBuffer : h.uam = g.uam /\ h.age = Older(g.age)
          BY <2>2, Typed DEF MapTick, Sweep, Swept, Aged, Held
        <5>3. QED
          BY <5>1, <5>2
      <4>3. QED
        BY <2>2, <4>1, <4>2 DEF MapTick
    <3>2. g.age <= e.age
      <4>1. CASE g \in mapUams
        BY <3>1, <4>1, Typed DEF InOrder
      <4>2. CASE g \in rawBuffer
        BY <3>1, <4>2 DEF InOrder
      <4>3. QED
        BY <4>1, <4>2
    <3>3. QED
      BY <3>1, <3>2, Typed, OlderMonotone
  <2>3. MapTick \/ mapUams' \subseteq mapUams
    BY DEF Next, HandleJamsilStatus, HandleAllStatus, RegisterLanded, Registered, StatusStored,
           ResetDone
  <2>4. QED
    BY <2>1, <2>2, <2>3
<1>3. QED
  BY InitMap, StepMap, StepOrder, <1>1, <1>2, PTL DEF Spec, MapNeverGoesBack

\* The firing of the timer leaves no vehicle of the landed list on the map.
THEOREM LandedLeaveMapHolds == Spec => LandedLeaveMap
<1>1. MapInv /\ [Next]_vars
        => [MapTick /\ resets = 0 => rawBuffer' = {} \/ Ids(mapUams') \cap listed = {}]_vars
  <2> SUFFICES ASSUME MapInv, MapTick, resets = 0, rawBuffer' # {}
               PROVE  Ids(mapUams') \cap listed = {}
    OBVIOUS
  <2>1. Ids(mapUams') \subseteq Ids(rawBuffer)
    <3>1. rawBuffer \subseteq Held(inserted)
      BY DEF MapInv, Recent
    <3>2. mapUams' = Sent(Swept(rawBuffer))
      BY DEF MapTick, Sweep
    <3>3. QED
      BY <3>1, <3>2, SweptIds
  <2>2. QED
    BY <2>1 DEF MapInv, ListedAreOut
<1>2. QED
  BY InitMap, StepMap, <1>1, PTL DEF Spec, LandedLeaveMap
=============================================================================
