---------------------------- MODULE BenchmarkE2E ----------------------------
(***************************************************************************)
(* The end-to-end benchmark (scripts/benchmark-e2e.ts): a sender on MQTT,  *)
(* a receiver on socket.io, and a check every 150 ms that decides when the *)
(* run is over and what it lost.                                           *)
(*                                                                         *)
(* A packet is its sequence number.  Between sender and receiver lie two   *)
(* brokers' worth of network: packets arrive in any order, may be lost,    *)
(* and QoS 1 may deliver one twice.  The latencies are left out.           *)
(***************************************************************************)
EXTENDS Integers, FiniteSets

CONSTANTS
  SampleCount, \* packets to measure
  BatchSize,   \* packets per tick of the sender
  IdleLimit,   \* checks without an arrival before the run is given up, 20
  MaxSent      \* bound: packets sent in STEADY mode, which stops on arrivals

ASSUME BenchmarkAssumption ==
  /\ {SampleCount, BatchSize, IdleLimit} \subseteq Nat \ {0}
  /\ MaxSent \in Nat /\ SampleCount <= MaxSent

VARIABLES
  mode,          \* isStressMode
  phase,         \* where runBenchmark is
  sending,       \* the sender's interval is set
  sentCount, receivedCount,
  sentPackets,   \* the keys of the map: packets without an answer
  lastReceived, idleCounter,
  exit,          \* the exit code, or "none"
  inFlight,      \* the network: packets that may still arrive
  arrived,       \* history: packets that arrived
  quiet          \* history: checks since the last packet was counted

check == <<lastReceived, idleCounter>>
received == <<receivedCount, sentPackets, arrived>>
vars == <<mode, phase, sending, sentCount, received, check, exit, inFlight, quiet>>

Least(a, b) == IF a < b THEN a ELSE b

Init ==
  /\ mode \in {"STRESS", "STEADY"}
  /\ phase = "websocket" /\ sending = FALSE
  /\ sentCount = 0 /\ receivedCount = 0 /\ sentPackets = {}
  /\ lastReceived = -1 /\ idleCounter = 0 /\ exit = "none"
  /\ inFlight = {} /\ arrived = {} /\ quiet = 0

-----------------------------------------------------------------------------
(* Connecting *)

ConnectWebSocket ==
  /\ phase = "websocket" /\ phase' = "mqtt"
  /\ UNCHANGED <<mode, sending, sentCount, received, check, exit, inFlight, quiet>>

\* Sender and check are set up in one turn.
ConnectMqtt ==
  /\ phase = "mqtt" /\ phase' = "running"
  /\ sending' = TRUE
  /\ UNCHANGED <<mode, sentCount, received, check, exit, inFlight, quiet>>

ConnectFails ==
  /\ phase \in {"websocket", "mqtt"} /\ phase' = "over"
  /\ exit' = "failure"
  /\ UNCHANGED <<mode, sending, sentCount, received, check, inFlight, quiet>>

-----------------------------------------------------------------------------
(* The sender's interval *)

SenderDone ==
  \/ mode = "STRESS" /\ sentCount >= SampleCount
  \/ mode = "STEADY" /\ receivedCount >= SampleCount

StopSending ==
  /\ sending /\ phase # "over"
  /\ SenderDone
  /\ sending' = FALSE
  /\ UNCHANGED <<mode, phase, sentCount, received, check, exit, inFlight, quiet>>

\* STRESS stops in the middle of a batch; STEADY sends whole ones.
Batch == IF mode = "STRESS" THEN Least(BatchSize, SampleCount - sentCount) ELSE BatchSize

SendBatch ==
  /\ sending /\ phase # "over"
  /\ ~SenderDone
  /\ sentCount + Batch <= MaxSent
  /\ LET packets == (sentCount + 1) .. (sentCount + Batch)
     IN sentPackets' = sentPackets \cup packets /\ inFlight' = inFlight \cup packets
  /\ sentCount' = sentCount + Batch
  /\ UNCHANGED <<mode, phase, sending, receivedCount, arrived, check, exit, quiet>>

-----------------------------------------------------------------------------
(* The network and the listener *)

Lose(p) ==
  /\ p \in inFlight /\ inFlight' = inFlight \ {p}
  /\ UNCHANGED <<mode, phase, sending, sentCount, received, check, exit, quiet>>

\* Mutant: a packet is not taken out of the map when it is counted.
ReceiveKeeping(p) ==
  /\ p \in sentPackets
  /\ receivedCount < MaxSent + 1
  /\ receivedCount' = receivedCount + 1
  /\ quiet' = 0
  /\ UNCHANGED sentPackets

\* The listener counts a packet once.
Receive(p) ==
  /\ p \in sentPackets
  /\ receivedCount' = receivedCount + 1
  /\ sentPackets' = sentPackets \ {p}
  /\ quiet' = 0

\* The packet arrives; the network may keep it to deliver it again.
Arrive(p) ==
  /\ phase # "over"
  /\ p \in inFlight /\ inFlight' \in {inFlight, inFlight \ {p}}
  /\ arrived' = arrived \cup {p}
  /\ \/ Receive(p)
     \/ p \notin sentPackets /\ UNCHANGED <<receivedCount, sentPackets, quiet>>
  /\ UNCHANGED <<mode, phase, sending, sentCount, check, exit>>

-----------------------------------------------------------------------------
(* The check *)

IsSentAll == sentCount >= SampleCount

\* Everything has arrived: the run ends 300 ms later.
CheckComplete ==
  /\ phase = "running"
  /\ IsSentAll /\ receivedCount >= sentCount
  /\ phase' = "grace" /\ quiet' = quiet
  /\ UNCHANGED <<mode, sending, sentCount, received, check, exit, inFlight>>

LossCount == IF sentCount > receivedCount THEN sentCount - receivedCount ELSE 0

\* Mutant: the loss is taken from the packets that were asked for.
FinishOnSamples ==
  /\ phase' = "over"
  /\ exit' = IF receivedCount >= SampleCount THEN "success" ELSE "failure"

\* The report and the exit code.
Finish ==
  /\ phase' = "over"
  /\ exit' = IF LossCount = 0 THEN "success" ELSE "failure"

\* Mutant: idle checks are counted over the whole run.
CheckArrivalsSumming ==
  \/ receivedCount = lastReceived /\ idleCounter' = idleCounter + 1 /\ UNCHANGED lastReceived
  \/ receivedCount # lastReceived /\ lastReceived' = receivedCount /\ UNCHANGED idleCounter

\* Mutant: the count of the last check is not kept.
CheckArrivalsForgetting ==
  \/ receivedCount = lastReceived /\ idleCounter' = idleCounter + 1 /\ UNCHANGED lastReceived
  \/ receivedCount # lastReceived /\ idleCounter' = 0 /\ UNCHANGED lastReceived

CheckArrivals ==
  \/ receivedCount = lastReceived /\ idleCounter' = idleCounter + 1 /\ UNCHANGED lastReceived
  \/ receivedCount # lastReceived /\ lastReceived' = receivedCount /\ idleCounter' = 0

\* Otherwise it goes on until nothing has arrived for IdleLimit checks.
CheckIncomplete ==
  /\ phase = "running"
  /\ IsSentAll /\ receivedCount < sentCount
  /\ CheckArrivals
  /\ \/ idleCounter' >= IdleLimit /\ Finish
     \/ idleCounter' < IdleLimit /\ UNCHANGED <<phase, exit>>
  /\ quiet' = Least(quiet + 1, IdleLimit)
  /\ UNCHANGED <<mode, sending, sentCount, received, inFlight>>

GraceOver ==
  /\ phase = "grace"
  /\ Finish
  /\ UNCHANGED <<mode, sending, sentCount, received, check, inFlight, quiet>>

Next ==
  \/ ConnectWebSocket \/ ConnectMqtt \/ ConnectFails
  \/ StopSending \/ SendBatch
  \/ \E p \in 1 .. MaxSent : Lose(p) \/ Arrive(p)
  \/ CheckComplete \/ CheckIncomplete \/ GraceOver

\* Timers fire and connections are made or refused; the network owes nothing.
Fairness ==
  /\ WF_vars(ConnectWebSocket \/ ConnectMqtt \/ ConnectFails)
  /\ WF_vars(StopSending \/ SendBatch)
  /\ WF_vars(CheckComplete \/ CheckIncomplete)
  /\ WF_vars(GraceOver)

Spec == Init /\ [][Next]_vars /\ Fairness
-----------------------------------------------------------------------------
(* Properties *)

\* Types; STRESS sends exactly the packets it was asked for, no more.
TypeOK ==
  /\ mode \in {"STRESS", "STEADY"}
  /\ phase \in {"websocket", "mqtt", "running", "grace", "over"}
  /\ sending \in BOOLEAN /\ exit \in {"none", "success", "failure"}
  /\ sentCount \in 0 .. MaxSent /\ receivedCount \in Nat
  /\ mode = "STRESS" => sentCount <= SampleCount
  /\ sentPackets \subseteq 1 .. sentCount /\ inFlight \subseteq 1 .. sentCount
  /\ arrived \subseteq 1 .. sentCount
  /\ lastReceived \in Nat \cup {-1} /\ idleCounter \in 0 .. IdleLimit /\ quiet \in 0 .. IdleLimit

\* Every packet that arrived is counted once, however often QoS 1 delivers it,
\* and the map holds exactly those that have not arrived.
CountedOnce ==
  /\ receivedCount = Cardinality(arrived)
  /\ sentPackets = (1 .. sentCount) \ arrived

\* The exit code is 0 only if everything that was sent has arrived, and only after
\* at least SampleCount packets.
SuccessIsComplete ==
  exit = "success" => arrived = 1 .. sentCount /\ sentCount >= SampleCount

\* In the 300 ms before the report nothing is sent: the report does not count a
\* packet as lost that has only just been sent.
QuietGrace == [][phase = "grace" => sentCount' = sentCount]_vars

\* The run is given up only after IdleLimit checks in a row without an arrival.
Patient ==
  [][phase = "running" /\ phase' = "over" => quiet' >= IdleLimit]_vars

\* The run ends, whatever is lost.
Ends == <>(phase = "over")
=============================================================================
