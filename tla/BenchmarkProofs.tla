--------------------------- MODULE BenchmarkProofs ---------------------------
(***************************************************************************)
(* Proofs about BenchmarkE2E, for every number of samples, batch size and  *)
(* time-out: what is counted, what the exit code means, and when the run   *)
(* is given up.                                                            *)
(***************************************************************************)
EXTENDS BenchmarkE2E, FiniteSetTheorems, TLAPS

\* In the grace period all that was sent has arrived.
GraceComplete == phase = "grace" => sentCount >= SampleCount /\ receivedCount = sentCount

\* The exit code comes with the end.
ExitIsLast == exit = "success" => phase = "over"

\* The checks without an arrival that the code counts are some of those that were.
IdleIsQuiet ==
  /\ phase # "over" => idleCounter < IdleLimit
  /\ lastReceived <= receivedCount
  /\ receivedCount = lastReceived => idleCounter <= quiet

BenchmarkInv ==
  TypeOK /\ CountedOnce /\ GraceComplete /\ ExitIsLast /\ SuccessIsComplete /\ IdleIsQuiet

\* The packets that arrived are as many as were sent only if they are all.
LEMMA Counting ==
  ASSUME NEW n \in Nat, NEW A \in SUBSET (1 .. n)
  PROVE  IsFiniteSet(A) /\ Cardinality(A) \in Nat /\ Cardinality(A) <= n
         /\ (Cardinality(A) = n => A = 1 .. n)
<1>1. IsFiniteSet(1 .. n) /\ Cardinality(1 .. n) = n
  BY FS_Interval
<1>2. QED
  BY <1>1, FS_Subset, FS_CardinalityType

LEMMA CountedAll ==
  ASSUME TypeOK, CountedOnce
  PROVE  /\ receivedCount <= sentCount /\ IsFiniteSet(arrived)
         /\ receivedCount = sentCount => arrived = 1 .. sentCount /\ sentPackets = {}
BY Counting DEF TypeOK, CountedOnce

LEMMA LeastBounds ==
  ASSUME NEW n \in Nat, NEW q \in 0 .. n, NEW r, r = Least(q + 1, n)
  PROVE  r \in 0 .. n /\ (r = q + 1 \/ r = n)
BY DEF Least

LEMMA InitBenchmark == Init => BenchmarkInv
<1> SUFFICES ASSUME Init PROVE BenchmarkInv
  OBVIOUS
<1>1. 1 .. 0 = {} /\ Cardinality({}) = 0
  BY FS_EmptySet
<1>2. TypeOK
  <2>1. MaxSent \in Nat /\ IdleLimit \in Nat /\ SampleCount \in Nat
    BY BenchmarkAssumption
  <2>2. /\ sentCount \in 0 .. MaxSent /\ receivedCount \in Nat /\ sentCount <= SampleCount
        /\ idleCounter \in 0 .. IdleLimit /\ quiet \in 0 .. IdleLimit
    BY <2>1 DEF Init
  <2>3. QED
    BY <2>2 DEF Init, TypeOK
<1>3. CountedOnce
  BY <1>1 DEF Init, CountedOnce
<1>4. QED
  BY <1>2, <1>3, BenchmarkAssumption
     DEF Init, BenchmarkInv, GraceComplete, ExitIsLast, SuccessIsComplete, IdleIsQuiet

LEMMA SendBatchOK == BenchmarkInv /\ SendBatch => BenchmarkInv' /\ phase # "grace"
<1> SUFFICES ASSUME BenchmarkInv, SendBatch PROVE BenchmarkInv' /\ phase # "grace"
  OBVIOUS
<1> USE DEF BenchmarkInv
<1>1. phase # "grace"
  BY DEF SendBatch, SenderDone, GraceComplete, TypeOK
<1>2. Batch \in Nat /\ (mode = "STRESS" => sentCount + Batch <= SampleCount)
  BY BenchmarkAssumption DEF SendBatch, SenderDone, Batch, Least, TypeOK
<1>3. PICK n \in Nat : n = sentCount + Batch
  BY <1>2 DEF TypeOK
<1>4. /\ sentCount' = n /\ sentCount <= n /\ n <= MaxSent /\ (mode = "STRESS" => n <= SampleCount)
      /\ sentPackets' = sentPackets \cup ((sentCount + 1) .. n)
      /\ inFlight' = inFlight \cup ((sentCount + 1) .. n)
      /\ phase # "over"
      /\ UNCHANGED <<mode, phase, sending, receivedCount, arrived, check, exit, quiet>>
  BY <1>2, <1>3 DEF SendBatch, TypeOK
<1>5. TypeOK'
  <2>1. sentPackets' \subseteq 1 .. n /\ inFlight' \subseteq 1 .. n /\ arrived \subseteq 1 .. n
    BY <1>4 DEF TypeOK
  <2>2. QED
    BY <1>4, <2>1 DEF TypeOK, check
<1>6. CountedOnce'
  BY <1>4 DEF TypeOK, CountedOnce
<1>7. QED
  BY <1>1, <1>4, <1>5, <1>6
     DEF GraceComplete, ExitIsLast, SuccessIsComplete, IdleIsQuiet, check

LEMMA ArriveOK ==
  ASSUME BenchmarkInv, NEW p \in 1 .. MaxSent, Arrive(p)
  PROVE  BenchmarkInv'
<1> USE DEF BenchmarkInv
<1>1. /\ p \in 1 .. sentCount /\ inFlight' \subseteq 1 .. sentCount
      /\ arrived' = arrived \cup {p} /\ phase # "over"
      /\ UNCHANGED <<mode, phase, sending, sentCount, check, exit>>
  BY DEF Arrive, TypeOK
<1>2. CASE Receive(p)
  <2>1. p \notin arrived /\ receivedCount' = receivedCount + 1 /\ quiet' = 0
          /\ sentPackets' = sentPackets \ {p}
    BY <1>2 DEF Receive, CountedOnce
  <2>2. TypeOK'
    BY <1>1, <2>1, BenchmarkAssumption DEF TypeOK, check
  <2>3. CountedOnce'
    BY <1>1, <2>1, CountedAll, FS_AddElement DEF CountedOnce
  <2>4. phase # "grace"
    BY <1>1, <2>1, CountedAll DEF GraceComplete
  <2>5. QED
    BY <1>1, <2>1, <2>2, <2>3, <2>4
       DEF GraceComplete, ExitIsLast, SuccessIsComplete, IdleIsQuiet, check, TypeOK
<1>3. CASE p \notin sentPackets /\ UNCHANGED <<receivedCount, sentPackets, quiet>>
  <2>1. arrived' = arrived
    BY <1>1, <1>3 DEF CountedOnce
  <2>2. QED
    BY <1>1, <1>3, <2>1
       DEF TypeOK, CountedOnce, GraceComplete, ExitIsLast, SuccessIsComplete, IdleIsQuiet, check
<1>4. QED
  BY <1>2, <1>3 DEF Arrive

LEMMA CheckIncompleteOK ==
  ASSUME BenchmarkInv, CheckIncomplete
  PROVE  BenchmarkInv' /\ (phase' = "over" => quiet' >= IdleLimit)
<1> USE DEF BenchmarkInv
<1>1. /\ phase = "running" /\ receivedCount < sentCount
      /\ quiet' = Least(quiet + 1, IdleLimit)
      /\ UNCHANGED <<mode, sending, sentCount, received, inFlight>>
  BY DEF CheckIncomplete
<1>2. quiet' \in 0 .. IdleLimit /\ (quiet' = quiet + 1 \/ quiet' = IdleLimit)
  <2>1. IdleLimit \in Nat /\ quiet \in 0 .. IdleLimit /\ quiet' = Least(quiet + 1, IdleLimit)
    BY <1>1, BenchmarkAssumption DEF TypeOK
  <2>2. QED
    BY <2>1, LeastBounds
<1>3. /\ lastReceived' = receivedCount /\ idleCounter' \in 0 .. IdleLimit
      /\ idleCounter' <= quiet'
  BY <1>1, <1>2, BenchmarkAssumption DEF CheckIncomplete, CheckArrivals, TypeOK, IdleIsQuiet
<1>4. \/ idleCounter' >= IdleLimit /\ phase' = "over" /\ exit' = "failure"
      \/ idleCounter' < IdleLimit /\ UNCHANGED <<phase, exit>>
  BY <1>1 DEF CheckIncomplete, Finish, LossCount, TypeOK
<1>5. TypeOK' /\ CountedOnce'
  BY <1>1, <1>2, <1>3, <1>4 DEF TypeOK, CountedOnce, received
<1>6. phase' # "grace" /\ exit' # "success"
  BY <1>1, <1>4 DEF ExitIsLast
<1>7. IdleIsQuiet'
  <2>1. receivedCount' = receivedCount /\ receivedCount \in Nat
    BY <1>1 DEF received, TypeOK
  <2>2. phase' # "over" => idleCounter' < IdleLimit
    BY <1>4
  <2>3. QED
    BY <1>3, <2>1, <2>2 DEF IdleIsQuiet
<1>8. BenchmarkInv'
  BY <1>5, <1>6, <1>7 DEF GraceComplete, ExitIsLast, SuccessIsComplete
<1>9. phase' = "over" => quiet' >= IdleLimit
  <2>1. IdleLimit \in Nat
    BY BenchmarkAssumption
  <2>2. phase' = "over" => idleCounter' >= IdleLimit
    BY <1>1, <1>4
  <2>3. QED
    BY <1>2, <1>3, <2>1, <2>2
<1>10. QED
  BY <1>8, <1>9

LEMMA GraceOverOK == BenchmarkInv /\ GraceOver => BenchmarkInv'
<1> SUFFICES ASSUME BenchmarkInv, GraceOver PROVE BenchmarkInv'
  OBVIOUS
<1> USE DEF BenchmarkInv
<1>1. /\ phase' = "over" /\ exit' \in {"success", "failure"}
      /\ arrived = 1 .. sentCount /\ sentCount >= SampleCount
      /\ UNCHANGED <<mode, sending, sentCount, received, check, inFlight, quiet>>
  BY CountedAll DEF GraceOver, Finish, GraceComplete
<1>2. QED
  BY <1>1 DEF TypeOK, CountedOnce, GraceComplete, ExitIsLast, SuccessIsComplete, IdleIsQuiet,
              received, check

LEMMA OtherOK ==
  ASSUME BenchmarkInv,
         \/ ConnectWebSocket \/ ConnectMqtt \/ ConnectFails \/ StopSending \/ CheckComplete
         \/ (\E p \in 1 .. MaxSent : Lose(p)) \/ UNCHANGED vars
  PROVE  BenchmarkInv'
<1> USE DEF BenchmarkInv
<1>1. /\ UNCHANGED <<mode, sentCount, received, check, quiet>>
      /\ sending' \in BOOLEAN /\ inFlight' \subseteq inFlight
      /\ \/ phase' = phase
         \/ phase' \in {"mqtt", "running", "over"} /\ phase # "over"
         \/ phase' = "grace" /\ phase # "over" /\ sentCount >= SampleCount
            /\ receivedCount >= sentCount
      /\ exit' = exit \/ exit' = "failure"
  BY DEF ConnectWebSocket, ConnectMqtt, ConnectFails, StopSending, CheckComplete, Lose, vars,
         IsSentAll, TypeOK
<1>2. TypeOK' /\ CountedOnce'
  BY <1>1 DEF TypeOK, CountedOnce, received, check
<1>3. GraceComplete'
  BY <1>1, CountedAll DEF GraceComplete, received, TypeOK
<1>4. QED
  BY <1>1, <1>2, <1>3 DEF ExitIsLast, SuccessIsComplete, IdleIsQuiet, received, check

LEMMA StepBenchmark == BenchmarkInv /\ [Next]_vars => BenchmarkInv'
BY SendBatchOK, ArriveOK, CheckIncompleteOK, GraceOverOK, OtherOK DEF Next

\* Every step keeps the bounds, and STRESS never sends a packet too many.
THEOREM TypeCorrect == Spec => []TypeOK
BY InitBenchmark, StepBenchmark, PTL DEF Spec, BenchmarkInv

\* No packet is counted twice, however often QoS 1 delivers it.
THEOREM CountedOnceHolds == Spec => []CountedOnce
BY InitBenchmark, StepBenchmark, PTL DEF Spec, BenchmarkInv

\* Exit code 0 means that everything arrived.
THEOREM SuccessIsCompleteHolds == Spec => []SuccessIsComplete
BY InitBenchmark, StepBenchmark, PTL DEF Spec, BenchmarkInv

\* The run is given up only after IdleLimit checks in a row without an arrival.
THEOREM PatientHolds == Spec => Patient
<1>1. BenchmarkInv /\ [Next]_vars => [phase = "running" /\ phase' = "over" => quiet' >= IdleLimit]_vars
  <2> SUFFICES ASSUME BenchmarkInv, Next, phase = "running", phase' = "over"
               PROVE  quiet' >= IdleLimit
    OBVIOUS
  <2>1. CheckIncomplete
    BY DEF Next, ConnectWebSocket, ConnectMqtt, ConnectFails, StopSending, SendBatch, Lose, Arrive,
           CheckComplete, GraceOver
  <2>2. QED
    BY <2>1, CheckIncompleteOK
<1>2. QED
  BY <1>1, InitBenchmark, StepBenchmark, PTL DEF Spec, Patient

\* Nothing is sent any more while the report waits for its 300 ms.
THEOREM QuietGraceHolds == Spec => QuietGrace
<1>1. BenchmarkInv /\ [Next]_vars => [phase = "grace" => sentCount' = sentCount]_vars
  <2> SUFFICES ASSUME BenchmarkInv, Next, phase = "grace"
               PROVE  sentCount' = sentCount
    OBVIOUS
  <2>1. ~SendBatch
    BY SendBatchOK
  <2>2. QED
    BY <2>1 DEF Next, ConnectWebSocket, ConnectMqtt, ConnectFails, StopSending, Lose, Arrive,
                CheckComplete, CheckIncomplete, GraceOver
<1>2. QED
  BY <1>1, InitBenchmark, StepBenchmark, PTL DEF Spec, QuietGrace
=============================================================================
