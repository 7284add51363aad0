-------------------------- MODULE QueueStreamProofs --------------------------
(***************************************************************************)
(* Proofs about QueueStream, for every set of vehicles, statuses and polls *)
(* and any number of statuses, landings and resets.                        *)
(*                                                                         *)
(* What the polls may do is read off the connection: which commands of a   *)
(* poll are on it, and which of them are answered (PollsOK).  That lists   *)
(* are sent in the order they were read follows from the order of two      *)
(* polls' commands on it (OrderOK), that a removed vehicle stays away from *)
(* where the removal and the reads are on it (RemovalsOK), and that        *)
(* emergencies lead from what the details on their way can be (ScoresOK).  *)
(***************************************************************************)
EXTENDS QueueStream, SequenceTheorems, FiniteSetTheorems, TLAPS

-----------------------------------------------------------------------------
(* Types *)

Known == Status \cup {NoStatus}

Command ==
  [op : {"zrevrange"}, poll : Poll]
    \cup [op : {"get"}, poll : Poll, nth : Nat, uam : Uam]
    \cup [op : {"zrem"}, uam : Uam] \cup [op : {"delQueue"}]
    \cup [op : {"keys"}, since : Nat]
    \cup [op : {"del"}, for : {"landing", "reset"}, uams : SUBSET Uam, since : Nat]

Value == Seq(Uam) \cup Known \cup Nat \cup {"OK"} \cup (SUBSET Uam)

InProgress ==
  [at : {"idle", "reading", "read", "getting", "ready"}, ids : Seq(Uam), got : Seq(Known),
   before : SUBSET Poll, fresh : SUBSET Uam, late : BOOLEAN]

\* What Redis answers, n statuses having been stored.
Answers(c, v, n) ==
  /\ c.op = "zrevrange" => v \in Seq(Uam) /\ Len(v) <= Limit
  /\ c.op = "get" => v \in Known
  /\ c.op \in {"zrem", "delQueue"} => v \in Nat /\ v <= n
  /\ c.op = "keys" => v \subseteq Uam

StoreOK ==
  /\ scored \in [Uam -> Known] /\ detail \in [Uam -> Known]
  /\ half \in Seq(Entry) /\ Len(half) <= 1
  /\ IsFiniteSet(Queued)

ConnOK ==
  /\ commands \in Seq(Command) /\ replies \in Seq(Value) /\ Len(replies) <= Len(commands)
  /\ \A i \in 1 .. Len(replies) : Answers(commands[i], replies[i], statuses)
  /\ \A i \in 1 .. Len(commands) : commands[i].op \in {"keys", "del"} => commands[i].since <= statuses

HistoryOK ==
  /\ statuses \in Nat /\ stored \in [Uam -> 0 .. statuses] /\ gone \in [Uam -> 0 .. statuses]

PollsTyped ==
  /\ poll \in [Poll -> InProgress]
  /\ \A p \in Poll : Len(poll[p].ids) <= Limit /\ Len(poll[p].got) <= Len(poll[p].ids)

ShownOK == landed \subseteq Uam /\ shown \in Seq(Entry) /\ Len(shown) <= Limit

TypeInv == StoreOK /\ ConnOK /\ HistoryOK /\ PollsTyped /\ ShownOK

LEMMA CommandFacts ==
  ASSUME NEW c \in Command
  PROVE  /\ c.op \in {"zrevrange", "get", "zrem", "delQueue", "keys", "del"}
         /\ c.op \in {"zrevrange", "get"} => c.poll \in Poll
         /\ c.op = "get" => c.nth \in Nat
         /\ c.op \in {"get", "zrem"} => c.uam \in Uam
         /\ c.op \in {"keys", "del"} => c.since \in Nat
         /\ c.op = "del" => c.uams \subseteq Uam /\ c.for \in {"landing", "reset"}
BY DEF Command

LEMMA AppendFacts ==
  ASSUME NEW S, NEW s \in Seq(S), NEW e \in S
  PROVE  /\ Append(s, e) \in Seq(S) /\ Len(Append(s, e)) = Len(s) + 1
         /\ \A i \in 1 .. Len(s) : Append(s, e)[i] = s[i]
         /\ Append(s, e)[Len(s) + 1] = e
OBVIOUS

LEMMA TailFacts ==
  ASSUME NEW S, NEW s \in Seq(S), s # << >>
  PROVE  /\ Tail(s) \in Seq(S) /\ Len(Tail(s)) = Len(s) - 1 /\ Len(s) >= 1
         /\ \A i \in 1 .. (Len(s) - 1) : Tail(s)[i] = s[i + 1]
         /\ Head(s) = s[1] /\ Head(s) \in S
OBVIOUS

\* What becomes of the connection s when w is written: it comes last.
Longer(s, w, t) ==
  /\ Len(t) = Len(s) + Len(w)
  /\ \A i \in 1 .. Len(s) : t[i] = s[i]
  /\ \A k \in 1 .. Len(w) : t[Len(s) + k] = w[k]
  /\ \A i \in 1 .. Len(t) :
       \/ i \in 1 .. Len(s) /\ t[i] = s[i]
       \/ \E k \in 1 .. Len(w) : i = Len(s) + k /\ t[i] = w[k]

\* What becomes of it when the oldest reply is handled and w is written: every
\* command moves up one place, and w comes last.
Shifted(s, w, t) ==
  /\ Len(t) = Len(s) - 1 + Len(w)
  /\ \A i \in 1 .. (Len(s) - 1) : t[i] = s[i + 1]
  /\ \A k \in 1 .. Len(w) : t[Len(s) - 1 + k] = w[k]
  /\ \A i \in 1 .. Len(t) :
       \/ i \in 1 .. (Len(s) - 1) /\ i + 1 \in 1 .. Len(s) /\ t[i] = s[i + 1]
       \/ \E k \in 1 .. Len(w) : i = Len(s) - 1 + k /\ t[i] = w[k]

LEMMA WrittenFacts ==
  ASSUME NEW S, NEW s \in Seq(S), NEW w \in Seq(S)
  PROVE  s \o w \in Seq(S) /\ Longer(s, w, s \o w)
<1> DEFINE t == s \o w
<1>1. /\ t \in Seq(S) /\ Len(t) = Len(s) + Len(w)
      /\ \A i \in 1 .. (Len(s) + Len(w)) : t[i] = IF i <= Len(s) THEN s[i] ELSE w[i - Len(s)]
  BY ConcatProperties
<1> HIDE DEF t
<1>2. PICK m \in Nat, n \in Nat : m = Len(s) /\ n = Len(w)
  OBVIOUS
<1>3. \A i \in 1 .. m : i \in 1 .. (m + n) /\ i <= m
  OBVIOUS
<1>4. \A k \in 1 .. n : m + k \in 1 .. (m + n) /\ ~(m + k <= m) /\ (m + k) - m = k
  OBVIOUS
<1>5. \A i \in 1 .. (m + n) : i \in 1 .. m \/ (~(i <= m) /\ i - m \in 1 .. n /\ i = m + (i - m))
  OBVIOUS
<1>6. \A i \in 1 .. m : t[i] = s[i]
  BY <1>1, <1>2, <1>3
<1>7. \A k \in 1 .. n : t[m + k] = w[k]
  BY <1>1, <1>2, <1>4
<1>8. \A i \in 1 .. (m + n) :
        \/ i \in 1 .. m /\ t[i] = s[i]
        \/ \E k \in 1 .. n : i = m + k /\ t[i] = w[k]
  BY <1>5, <1>6, <1>7
<1>9. Longer(s, w, t)
  BY <1>1, <1>2, <1>6, <1>7, <1>8 DEF Longer
<1>10. QED
  BY <1>1, <1>9 DEF t

LEMMA HandledFacts ==
  ASSUME NEW S, NEW s \in Seq(S), s # << >>, NEW w \in Seq(S)
  PROVE  Tail(s) \o w \in Seq(S) /\ Shifted(s, w, Tail(s) \o w)
<1> DEFINE r == Tail(s)
           t == r \o w
<1>1. PICK m \in Nat : m = Len(s) - 1 /\ Len(s) = m + 1 /\ Len(r) = m
                       /\ r \in Seq(S) /\ \A i \in 1 .. m : r[i] = s[i + 1]
  <2>1. /\ r \in Seq(S) /\ Len(r) = Len(s) - 1 /\ Len(s) >= 1
        /\ \A i \in 1 .. (Len(s) - 1) : r[i] = s[i + 1]
    BY TailFacts
  <2>2. Len(s) - 1 \in Nat /\ Len(s) = (Len(s) - 1) + 1
    BY <2>1
  <2>3. QED
    BY <2>1, <2>2
<1> HIDE DEF r
<1>2. t \in Seq(S) /\ Longer(r, w, t)
  BY <1>1, WrittenFacts
<1> HIDE DEF t
<1>3. /\ Len(t) = m + Len(w)
      /\ \A i \in 1 .. m : t[i] = r[i]
      /\ \A k \in 1 .. Len(w) : t[m + k] = w[k]
      /\ \A i \in 1 .. Len(t) :
              \/ i \in 1 .. m /\ t[i] = r[i]
              \/ \E k \in 1 .. Len(w) : i = m + k /\ t[i] = w[k]
  BY <1>1, <1>2 DEF Longer
<1>4. \A i \in 1 .. m : i + 1 \in 1 .. (m + 1)
  OBVIOUS
<1>5. \A i \in 1 .. Len(t) :
        \/ i \in 1 .. m /\ i + 1 \in 1 .. Len(s) /\ t[i] = s[i + 1]
        \/ \E k \in 1 .. Len(w) : i = m + k /\ t[i] = w[k]
  BY <1>1, <1>3, <1>4
<1>6. Shifted(s, w, t)
  BY <1>1, <1>3, <1>5 DEF Shifted
<1>7. QED
  BY <1>2, <1>6 DEF t, r

LEMMA ConnWritten ==
  ASSUME ConnOK, NEW w \in Seq(Command), Write(w), UNCHANGED <<replies, statuses>>,
         \A k \in 1 .. Len(w) : w[k].op \in {"keys", "del"} => w[k].since <= statuses
  PROVE  ConnOK' /\ Longer(commands, w, commands')
<1>1. commands' \in Seq(Command) /\ Longer(commands, w, commands')
  BY WrittenFacts DEF ConnOK, Write
<1>2. Len(commands) \in Nat /\ Len(w) \in Nat /\ Len(replies) \in Nat /\ Len(replies) <= Len(commands)
  BY DEF ConnOK
<1>3. \A i \in 1 .. Len(commands') :
        commands'[i].op \in {"keys", "del"} => commands'[i].since <= statuses
  BY <1>1 DEF ConnOK, Longer
<1>4. \A i \in 1 .. Len(replies) : i \in 1 .. Len(commands)
  BY <1>2
<1>5. Len(replies) <= Len(commands')
  BY <1>1, <1>2 DEF Longer
<1>6. \A i \in 1 .. Len(replies) : Answers(commands'[i], replies[i], statuses)
  BY <1>1, <1>4 DEF ConnOK, Longer
<1>7. QED
  BY <1>1, <1>3, <1>5, <1>6 DEF ConnOK

LEMMA ConnExecuted ==
  ASSUME ConnOK, NEW v \in Value, Reply(v), UNCHANGED <<commands, statuses>>,
         Len(replies) < Len(commands), Answers(commands[Len(replies) + 1], v, statuses)
  PROVE  /\ ConnOK' /\ Len(replies') = Len(replies) + 1
         /\ \A i \in 1 .. Len(replies) : replies'[i] = replies[i]
         /\ replies'[Len(replies) + 1] = v
<1>1. /\ replies' \in Seq(Value) /\ Len(replies') = Len(replies) + 1
      /\ \A i \in 1 .. Len(replies) : replies'[i] = replies[i]
      /\ replies'[Len(replies) + 1] = v
  BY AppendFacts DEF ConnOK, Reply
<1>2. PICK m \in Nat, a \in Nat : m = Len(commands) /\ a = Len(replies) /\ a + 1 <= m
  BY DEF ConnOK
<1>3. \A i \in 1 .. Len(replies') : i \in 1 .. Len(replies) \/ i = Len(replies) + 1
  BY <1>1, <1>2
<1>4. \A i \in 1 .. Len(replies') : Answers(commands[i], replies'[i], statuses)
  BY <1>1, <1>3 DEF ConnOK
<1>5. QED
  BY <1>1, <1>2, <1>4 DEF ConnOK

\* The reply at the head belongs to the command at the head.
LEMMA HeadOK ==
  ASSUME ConnOK, replies # << >>
  PROVE  /\ commands # << >> /\ Head(commands) = commands[1] /\ Head(replies) = replies[1]
         /\ Head(commands) \in Command /\ Answers(Head(commands), Head(replies), statuses)
         /\ Head(commands).op \in {"keys", "del"} => Head(commands).since <= statuses
         /\ Len(replies) \in Nat /\ Len(replies) >= 1 /\ Len(commands) \in Nat
         /\ Len(replies) <= Len(commands)
<1>1. Len(replies) \in Nat /\ Len(replies) >= 1 /\ Len(commands) \in Nat
      /\ Len(replies) <= Len(commands)
  BY DEF ConnOK
<1>2. commands # << >> /\ 1 \in 1 .. Len(replies) /\ 1 \in 1 .. Len(commands)
  BY <1>1
<1>3. Head(commands) = commands[1] /\ Head(replies) = replies[1] /\ Head(commands) \in Command
  BY <1>2, TailFacts DEF ConnOK
<1>4. QED
  BY <1>1, <1>2, <1>3 DEF ConnOK

LEMMA ConnHandled ==
  ASSUME ConnOK, replies # << >>, replies' = Tail(replies), UNCHANGED statuses,
         NEW w \in Seq(Command), Handled(w),
         \A k \in 1 .. Len(w) : w[k].op \in {"keys", "del"} => w[k].since <= statuses
  PROVE  /\ ConnOK' /\ Len(replies') = Len(replies) - 1
         /\ \A i \in 1 .. (Len(replies) - 1) : replies'[i] = replies[i + 1]
         /\ Shifted(commands, w, commands')
<1>1. commands' \in Seq(Command) /\ Shifted(commands, w, commands')
  <2>1. commands # << >> /\ commands \in Seq(Command)
    BY HeadOK DEF ConnOK
  <2>2. commands' = Tail(commands) \o w
    BY DEF Handled
  <2>3. QED
    BY <2>1, <2>2, HandledFacts
<1>2. /\ replies' \in Seq(Value) /\ Len(replies') = Len(replies) - 1
      /\ \A i \in 1 .. (Len(replies) - 1) : replies'[i] = replies[i + 1]
  BY TailFacts DEF ConnOK
<1>3. /\ Len(replies) \in Nat /\ Len(replies) >= 1 /\ Len(commands) \in Nat
      /\ Len(replies) <= Len(commands) /\ Len(w) \in Nat
  BY HeadOK
<1>4. \A i \in 1 .. Len(commands') :
        commands'[i].op \in {"keys", "del"} => commands'[i].since <= statuses
  BY <1>1 DEF ConnOK, Shifted
<1>5. \A i \in 1 .. (Len(replies) - 1) :
        i + 1 \in 1 .. Len(replies) /\ i \in 1 .. (Len(commands) - 1)
  BY <1>3
<1>6. \A i \in 1 .. (Len(replies) - 1) : Answers(commands'[i], replies'[i], statuses)
  BY <1>1, <1>2, <1>5 DEF ConnOK, Shifted
<1>7. Len(replies') <= Len(commands')
  BY <1>1, <1>2, <1>3 DEF Shifted
<1>8. QED
  BY <1>1, <1>2, <1>4, <1>6, <1>7 DEF ConnOK

\* More statuses do not matter to what has been answered.
LEMMA ConnKept ==
  ASSUME ConnOK, UNCHANGED <<commands, replies>>, HistoryOK,
         statuses' = statuses \/ statuses' = statuses + 1
  PROVE  ConnOK'
<1>1. statuses \in Nat /\ statuses' \in Nat /\ statuses <= statuses'
  BY DEF HistoryOK
<1>2. \A c, v : Answers(c, v, statuses) => Answers(c, v, statuses')
  BY <1>1 DEF Answers
<1>3. \A i \in 1 .. Len(commands) : commands[i].op \in {"keys", "del"} => commands[i].since \in Nat
  BY CommandFacts DEF ConnOK
<1>4. QED
  BY <1>1, <1>2, <1>3 DEF ConnOK

LEMMA InitType == Init => TypeInv
<1> SUFFICES ASSUME Init PROVE TypeInv
  OBVIOUS
<1>1. Queued = {} /\ IsFiniteSet(Queued)
  BY FS_EmptySet DEF Init, Queued
<1>2. StoreOK
  BY <1>1 DEF Init, StoreOK, Known
<1>3. ConnOK
  BY DEF Init, ConnOK
<1>4. HistoryOK
  BY DEF Init, HistoryOK
<1>5. Idle \in InProgress /\ Len(Idle.ids) <= Limit /\ Len(Idle.got) <= Len(Idle.ids)
  BY QueueStreamAssumption DEF Idle, InProgress
<1>6. PollsTyped
  BY <1>5 DEF Init, PollsTyped
<1>7. ShownOK
  BY QueueStreamAssumption DEF Init, ShownOK
<1>8. QED
  BY <1>2, <1>3, <1>4, <1>6, <1>7 DEF TypeInv

\* The ids that Redis may return are those of queued vehicles, and no more than the limit.
LEMMA TopFacts ==
  ASSUME StoreOK, NEW ids \in TopUams
  PROVE  ids \in Seq(Uam) /\ Len(ids) <= Limit /\ \A k \in DOMAIN ids : ids[k] \in Queued
<1>1. PICK size \in Nat : ids \in [1 .. size -> Queued] /\ size <= Limit
  <2>1. Cardinality(Queued) \in Nat /\ Limit \in Nat
    BY FS_CardinalityType, QueueStreamAssumption DEF StoreOK
  <2>2. LET size == IF Cardinality(Queued) > Limit THEN Limit ELSE Cardinality(Queued)
        IN size \in Nat /\ size <= Limit /\ ids \in [1 .. size -> Queued]
    BY <2>1 DEF TopUams
  <2>3. QED
    BY <2>2
<1>2. Queued \subseteq Uam
  BY DEF Queued
<1>3. QED
  BY <1>1, <1>2

\* The list of a poll, which its details make.
LEMMA DetailsFacts ==
  ASSUME PollsTyped, NEW p \in Poll, NEW at \in Increasing(Kept(p))
  PROVE  /\ Details(p, at) \in Seq(Entry) /\ Len(Details(p, at)) <= Limit
         /\ \A i \in DOMAIN Details(p, at) :
              /\ at[i] \in DOMAIN poll[p].got /\ at[i] \in DOMAIN poll[p].ids
              /\ Details(p, at)[i].uam = poll[p].ids[at[i]]
              /\ Details(p, at)[i].status = poll[p].got[at[i]]
              /\ poll[p].got[at[i]] \in Status
         /\ \A i, j \in DOMAIN Details(p, at) : i < j => at[i] < at[j]
<1>1. /\ poll[p].ids \in Seq(Uam) /\ poll[p].got \in Seq(Known)
      /\ Len(poll[p].ids) <= Limit /\ Len(poll[p].got) <= Len(poll[p].ids)
  BY DEF PollsTyped, InProgress
<1>2. PICK g \in Nat, m \in Nat : g = Len(poll[p].got) /\ m = Len(poll[p].ids) /\ g <= m /\ m <= Limit
  BY <1>1
<1>3. Kept(p) \in SUBSET (1 .. g) /\ \A i \in Kept(p) : poll[p].got[i] \in Status
  BY <1>1, <1>2 DEF Kept, Known
<1>4. PICK n \in Nat : n = Cardinality(Kept(p)) /\ n <= g
  <2>1. IsFiniteSet(1 .. g) /\ Cardinality(1 .. g) = g
    <3>1. 1 \in Int /\ g \in Int
      OBVIOUS
    <3>2. IsFiniteSet(1 .. g) /\ Cardinality(1 .. g) = IF 1 > g THEN 0 ELSE g - 1 + 1
      BY <3>1, FS_Interval
    <3>3. QED
      BY <3>2
  <2>2. IsFiniteSet(Kept(p)) /\ Cardinality(Kept(p)) <= g
    BY <1>3, <2>1, FS_Subset
  <2>3. QED
    BY <2>2, FS_CardinalityType
<1>5. /\ at \in [1 .. n -> Kept(p)] /\ DOMAIN at = 1 .. n
      /\ \A i, j \in 1 .. n : i < j => at[i] < at[j]
  BY <1>4 DEF Increasing
<1>6. \A i \in 1 .. n : at[i] \in 1 .. g /\ at[i] \in 1 .. m /\ poll[p].got[at[i]] \in Status
  BY <1>2, <1>3, <1>5
<1>7. \A i \in 1 .. n : [uam |-> poll[p].ids[at[i]], status |-> poll[p].got[at[i]]] \in Entry
  BY <1>1, <1>2, <1>6 DEF Entry
<1>8. Details(p, at) = [i \in 1 .. n |-> [uam |-> poll[p].ids[at[i]], status |-> poll[p].got[at[i]]]]
  BY <1>5 DEF Details
<1>9. Details(p, at) \in Seq(Entry) /\ Len(Details(p, at)) = n
  BY <1>7, <1>8
<1>10. DOMAIN poll[p].got = 1 .. g /\ DOMAIN poll[p].ids = 1 .. m
  BY <1>1, <1>2
<1>11. QED
  BY <1>2, <1>4, <1>5, <1>6, <1>8, <1>9, <1>10, QueueStreamAssumption

LEMMA RefreshedTyped ==
  ASSUME PollsTyped, NEW u \in Uam, poll' = Refreshed(u)
  PROVE  /\ PollsTyped'
         /\ \A p \in Poll : /\ poll'[p].at = poll[p].at /\ poll'[p].ids = poll[p].ids
                            /\ poll'[p].got = poll[p].got /\ poll'[p].before = poll[p].before
                            /\ poll'[p].late = poll[p].late
                            /\ poll'[p].fresh = IF HasRead(p) THEN poll[p].fresh \cup {u} ELSE poll[p].fresh
<1>1. \A p \in Poll : [poll[p] EXCEPT !.fresh = @ \cup {u}] \in InProgress
  <2>1. \A r \in InProgress : [r EXCEPT !.fresh = @ \cup {u}] \in InProgress
    BY DEF InProgress
  <2>2. QED
    BY <2>1 DEF PollsTyped
<1>2. poll' \in [Poll -> InProgress]
  BY <1>1 DEF PollsTyped, Refreshed
<1>3. ASSUME NEW p \in Poll
      PROVE  /\ poll'[p].at = poll[p].at /\ poll'[p].ids = poll[p].ids
             /\ poll'[p].got = poll[p].got /\ poll'[p].before = poll[p].before
             /\ poll'[p].late = poll[p].late
             /\ poll'[p].fresh = IF HasRead(p) THEN poll[p].fresh \cup {u} ELSE poll[p].fresh
  <2>1. poll[p] \in InProgress
    BY DEF PollsTyped
  <2>2. CASE HasRead(p)
    BY <2>1, <2>2 DEF Refreshed, InProgress
  <2>3. CASE ~HasRead(p)
    BY <2>3 DEF Refreshed
  <2>4. QED
    BY <2>2, <2>3
<1>4. QED
  BY <1>2, <1>3 DEF PollsTyped

LEMMA OvertakenTyped ==
  ASSUME PollsTyped, poll' = Overtaken
  PROVE  /\ PollsTyped'
         /\ \A p \in Poll : /\ poll'[p].at = poll[p].at /\ poll'[p].ids = poll[p].ids
                            /\ poll'[p].got = poll[p].got /\ poll'[p].before = poll[p].before
                            /\ poll'[p].fresh = poll[p].fresh
                            /\ At(p, "ready") => poll'[p].late
<1>1. \A p \in Poll : [poll[p] EXCEPT !.late = TRUE] \in InProgress
  <2>1. \A r \in InProgress : [r EXCEPT !.late = TRUE] \in InProgress
    BY DEF InProgress
  <2>2. QED
    BY <2>1 DEF PollsTyped
<1>2. poll' \in [Poll -> InProgress]
  BY <1>1 DEF PollsTyped, Overtaken
<1>3. ASSUME NEW p \in Poll
      PROVE  /\ poll'[p].at = poll[p].at /\ poll'[p].ids = poll[p].ids
             /\ poll'[p].got = poll[p].got /\ poll'[p].before = poll[p].before
             /\ poll'[p].fresh = poll[p].fresh
             /\ At(p, "ready") => poll'[p].late
  <2>1. poll[p] \in InProgress
    BY DEF PollsTyped
  <2>2. CASE At(p, "ready")
    <3>1. poll'[p] = [poll[p] EXCEPT !.late = TRUE]
      BY <2>2 DEF Overtaken
    <3>2. QED
      BY <2>1, <3>1 DEF InProgress
  <2>3. CASE ~At(p, "ready")
    BY <2>3 DEF Overtaken
  <2>4. QED
    BY <2>2, <2>3
<1>4. QED
  BY <1>2, <1>3 DEF PollsTyped

\* What a poll's own steps make of it; the other polls stay as they are.
OthersKept(p) == \A q \in Poll : q # p => poll'[q] = poll[q]

LEMMA StartTyped ==
  ASSUME PollsTyped, NEW p \in Poll, StartPoll(p)
  PROVE  /\ PollsTyped' /\ OthersKept(p)
         /\ poll'[p].at = "reading" /\ poll'[p].ids = poll[p].ids /\ poll'[p].got = poll[p].got
         /\ poll'[p].before = poll[p].before
<1>1. poll[p] \in InProgress
  BY DEF PollsTyped
<1>2. poll'[p] = [poll[p] EXCEPT !.at = "reading"] /\ OthersKept(p)
  BY DEF StartPoll, PollsTyped, OthersKept
<1>3. /\ poll'[p] \in InProgress /\ poll'[p].at = "reading" /\ poll'[p].ids = poll[p].ids
      /\ poll'[p].got = poll[p].got /\ poll'[p].before = poll[p].before
  BY <1>1, <1>2 DEF InProgress
<1>4. poll' \in [Poll -> InProgress]
  BY <1>3 DEF PollsTyped, StartPoll
<1>5. QED
  BY <1>2, <1>3, <1>4 DEF PollsTyped, OthersKept

LEMMA ReadTyped ==
  ASSUME PollsTyped, StoreOK, NEW c \in Command, Zrevrange(c)
  PROVE  /\ PollsTyped' /\ c.poll \in Poll /\ OthersKept(c.poll)
         /\ poll'[c.poll].at = "read" /\ poll'[c.poll].ids = poll[c.poll].ids
         /\ poll'[c.poll].got = poll[c.poll].got
         /\ poll'[c.poll].before = {q \in Poll : HasRead(q)}
         /\ poll'[c.poll].fresh = {e.uam : e \in ToSet(half)}
         /\ poll'[c.poll].late = poll[c.poll].late
<1>1. c.poll \in Poll
  BY CommandFacts DEF Zrevrange
<1> DEFINE p == c.poll
           reported == {e.uam : e \in ToSet(half)}
           readers == {q \in Poll : HasRead(q)}
<1>2. poll[p] \in InProgress
  BY <1>1 DEF PollsTyped
<1>3. reported \subseteq Uam /\ readers \subseteq Poll
  <2>1. \A e \in ToSet(half) : e \in Entry
    BY DEF StoreOK, ToSet
  <2>2. QED
    BY <2>1 DEF Entry
<1> HIDE DEF reported, readers
<1>4. /\ poll' = [poll EXCEPT ![p].at = "read", ![p].before = readers, ![p].fresh = reported]
  BY DEF Zrevrange, reported, readers
<1> HIDE DEF p
<1>5. poll'[p] = [poll[p] EXCEPT !.at = "read", !.before = readers, !.fresh = reported]
  BY <1>1, <1>4 DEF PollsTyped, p
<1>6. \A q \in Poll : q # p => poll'[q] = poll[q]
  BY <1>1, <1>4 DEF PollsTyped, p
<1>7. /\ poll'[p] \in InProgress /\ poll'[p].at = "read" /\ poll'[p].ids = poll[p].ids
      /\ poll'[p].got = poll[p].got /\ poll'[p].before = readers /\ poll'[p].fresh = reported
      /\ poll'[p].late = poll[p].late
  BY <1>2, <1>3, <1>5 DEF InProgress
<1>8. poll' \in [Poll -> InProgress]
  BY <1>4, <1>6, <1>7 DEF PollsTyped
<1>9. PollsTyped'
  BY <1>6, <1>7, <1>8 DEF PollsTyped
<1>10. QED
  BY <1>1, <1>6, <1>7, <1>9 DEF OthersKept, p, readers, reported

LEMMA QueueReadTyped ==
  ASSUME PollsTyped, NEW c \in Command, NEW ids \in Seq(Uam), Len(ids) <= Limit,
         QueueRead(c, ids), Len(poll[c.poll].got) <= Len(ids)
  PROVE  /\ PollsTyped' /\ c.poll \in Poll /\ OthersKept(c.poll)
         /\ poll'[c.poll].at = IF ids = << >> THEN "ready" ELSE "getting"
         /\ poll'[c.poll].ids = ids /\ poll'[c.poll].got = poll[c.poll].got
         /\ poll'[c.poll].before = poll[c.poll].before /\ poll'[c.poll].fresh = poll[c.poll].fresh
         /\ poll'[c.poll].late = poll[c.poll].late
<1>1. c.poll \in Poll
  BY CommandFacts DEF QueueRead
<1> DEFINE p == c.poll
           next == IF ids = << >> THEN "ready" ELSE "getting"
<1>2. poll[p] \in InProgress
  BY <1>1 DEF PollsTyped
<1>3. next \in {"ready", "getting"}
  OBVIOUS
<1> HIDE DEF next
<1>4. poll' = [poll EXCEPT ![p].ids = ids, ![p].at = next]
  BY DEF QueueRead, next
<1> HIDE DEF p
<1>5. poll'[p] = [poll[p] EXCEPT !.ids = ids, !.at = next] /\ \A q \in Poll : q # p => poll'[q] = poll[q]
  BY <1>1, <1>4 DEF PollsTyped, p
<1>6. /\ poll'[p] \in InProgress /\ poll'[p].at = next /\ poll'[p].ids = ids
      /\ poll'[p].got = poll[p].got /\ poll'[p].before = poll[p].before
      /\ poll'[p].fresh = poll[p].fresh /\ poll'[p].late = poll[p].late
  BY <1>2, <1>3, <1>5 DEF InProgress
<1>7. poll' \in [Poll -> InProgress]
  BY <1>4, <1>5, <1>6 DEF PollsTyped
<1>8. PollsTyped'
  <2>1. Len(poll'[p].ids) <= Limit /\ Len(poll'[p].got) <= Len(poll'[p].ids)
    BY <1>6 DEF p
  <2>2. QED
    BY <1>5, <1>7, <2>1 DEF PollsTyped
<1>9. QED
  BY <1>1, <1>5, <1>6, <1>8 DEF OthersKept, p, next

LEMMA GotTyped ==
  ASSUME PollsTyped, NEW p \in Poll, NEW status \in Known, Got(p, status),
         Len(poll[p].got) < Len(poll[p].ids)
  PROVE  /\ PollsTyped' /\ OthersKept(p)
         /\ poll'[p].at = IF Len(poll[p].got) + 1 = Len(poll[p].ids) THEN "ready" ELSE poll[p].at
         /\ poll'[p].ids = poll[p].ids /\ poll'[p].got = Append(poll[p].got, status)
         /\ poll'[p].before = poll[p].before /\ poll'[p].fresh = poll[p].fresh
         /\ poll'[p].late = poll[p].late
<1> DEFINE next == IF Len(poll[p].got) + 1 = Len(poll[p].ids) THEN "ready" ELSE poll[p].at
           more == Append(poll[p].got, status)
<1>1. /\ poll[p] \in InProgress /\ Len(poll[p].ids) <= Limit
      /\ poll[p].got \in Seq(Known) /\ poll[p].ids \in Seq(Uam)
  BY DEF PollsTyped, InProgress
<1>2. next \in {"idle", "reading", "read", "getting", "ready"}
  BY <1>1 DEF InProgress
<1>3. more \in Seq(Known) /\ Len(more) = Len(poll[p].got) + 1
  BY <1>1
<1>4. Len(more) <= Len(poll[p].ids)
  BY <1>1, <1>3
<1>5. poll' = [poll EXCEPT ![p].got = more, ![p].at = next]
  BY DEF Got, PollsTyped
<1> HIDE DEF next, more
<1>6. poll'[p] = [poll[p] EXCEPT !.got = more, !.at = next] /\ \A q \in Poll : q # p => poll'[q] = poll[q]
  BY <1>5 DEF PollsTyped
<1>7. /\ poll'[p] \in InProgress /\ poll'[p].at = next /\ poll'[p].ids = poll[p].ids
      /\ poll'[p].got = more /\ poll'[p].before = poll[p].before
      /\ poll'[p].fresh = poll[p].fresh /\ poll'[p].late = poll[p].late
  BY <1>1, <1>2, <1>3, <1>6 DEF InProgress
<1>8. poll' \in [Poll -> InProgress]
  BY <1>5, <1>6, <1>7 DEF PollsTyped
<1>9. PollsTyped'
  <2>1. Len(poll'[p].ids) <= Limit /\ Len(poll'[p].got) <= Len(poll'[p].ids)
    BY <1>1, <1>4, <1>7
  <2>2. QED
    BY <1>6, <1>8, <2>1 DEF PollsTyped
<1>10. QED
  BY <1>6, <1>7, <1>9 DEF OthersKept, more, next

LEMMA EmitTyped ==
  ASSUME PollsTyped, NEW p \in Poll, Emit(p)
  PROVE  /\ PollsTyped' /\ poll'[p] = Idle
         /\ \A q \in Poll \ {p} :
              /\ poll'[q].at = poll[q].at /\ poll'[q].ids = poll[q].ids
              /\ poll'[q].got = poll[q].got /\ poll'[q].before = poll[q].before \ {p}
              /\ poll'[q].fresh = poll[q].fresh /\ poll'[q].late = poll[q].late
<1>1. /\ poll'[p] = Idle
      /\ \A q \in Poll \ {p} : poll'[q] = [poll[q] EXCEPT !.before = @ \ {p}]
  BY DEF Emit, Ended
<1>2. Idle \in InProgress /\ Len(Idle.ids) <= Limit /\ Len(Idle.got) <= Len(Idle.ids)
  BY QueueStreamAssumption DEF Idle, InProgress
<1>3. ASSUME NEW q \in Poll \ {p}
      PROVE  /\ poll'[q] \in InProgress /\ poll'[q].at = poll[q].at /\ poll'[q].ids = poll[q].ids
             /\ poll'[q].got = poll[q].got /\ poll'[q].before = poll[q].before \ {p}
             /\ poll'[q].fresh = poll[q].fresh /\ poll'[q].late = poll[q].late
  <2>1. poll[q] \in InProgress /\ poll'[q] = [poll[q] EXCEPT !.before = @ \ {p}]
    BY <1>1 DEF PollsTyped
  <2>2. QED
    BY <2>1 DEF InProgress
<1>4. poll' = [q \in Poll |-> poll'[q]]
  BY DEF Emit, Ended
<1>5. poll' \in [Poll -> InProgress]
  BY <1>1, <1>2, <1>3, <1>4
<1>6. PollsTyped'
  BY <1>1, <1>2, <1>3, <1>5 DEF PollsTyped
<1>7. QED
  BY <1>1, <1>3, <1>6

-----------------------------------------------------------------------------
(* The commands of a poll *)

ZrevAt(cs, i, p) == i \in 1 .. Len(cs) /\ cs[i].op = "zrevrange" /\ cs[i].poll = p
GetAt(cs, i, p, k) ==
  i \in 1 .. Len(cs) /\ cs[i].op = "get" /\ cs[i].poll = p /\ cs[i].nth = k

NoRead(cs, p) == \A i \in Nat : ~ZrevAt(cs, i, p)
OneRead(cs, p) ==
  /\ \E i \in Nat : ZrevAt(cs, i, p)
  /\ \A i, j \in Nat : ZrevAt(cs, i, p) /\ ZrevAt(cs, j, p) => i = j
NoGets(cs, p) == \A i, k \in Nat : ~GetAt(cs, i, p, k)

\* A poll that has n details of its ids waits for the rest, in their order.
GetsOf(cs, p, ids, n) ==
  /\ \A k \in (n + 1) .. Len(ids) : \E i \in Nat : GetAt(cs, i, p, k)
  /\ \A i, k \in Nat : GetAt(cs, i, p, k) => k \in (n + 1) .. Len(ids) /\ cs[i].uam = ids[k]
  /\ \A i, j, k, m \in Nat : GetAt(cs, i, p, k) /\ GetAt(cs, j, p, m) /\ i < j => k < m

\* What a poll r of the name p waits for, when Redis has executed a commands of cs.
PollOK(cs, a, p, r) ==
  /\ r.at \in {"idle", "reading", "read"} => r.ids = << >> /\ r.got = << >> /\ NoGets(cs, p)
  /\ r.at \in {"idle", "reading"} => r.before = {}
  /\ r.at \in {"reading", "read"} => OneRead(cs, p)
  /\ r.at \in {"idle", "getting", "ready"} => NoRead(cs, p)
  /\ r.at = "reading" => \A i \in Nat : ZrevAt(cs, i, p) => a < i
  /\ r.at = "read" => \A i \in Nat : ZrevAt(cs, i, p) => i <= a
  /\ r.at = "getting" => Len(r.got) < Len(r.ids) /\ GetsOf(cs, p, r.ids, Len(r.got))
  /\ r.at = "ready" => Len(r.got) = Len(r.ids) /\ NoGets(cs, p)

PollsOK == \A p \in Poll : PollOK(commands, Len(replies), p, poll[p])

\* The commands of poll p are the same in t as in cs, d places on.
Moved(cs, t, d, p) ==
  /\ \A i \in Nat : ZrevAt(t, i, p) <=> ZrevAt(cs, i + d, p)
  /\ \A i, k \in Nat : GetAt(t, i, p, k) <=> GetAt(cs, i + d, p, k)
  /\ \A i, k \in Nat : GetAt(t, i, p, k) => t[i].uam = cs[i + d].uam
  /\ \A i \in Nat : ZrevAt(cs, i, p) => d < i
  /\ \A i, k \in Nat : GetAt(cs, i, p, k) => d < i

LEMMA MovedOK ==
  ASSUME NEW cs, NEW t, NEW d \in Nat, NEW p, Moved(cs, t, d, p),
         NEW a \in Nat, NEW b \in Int, NEW r, NEW s, PollOK(cs, a, p, r), Len(r.got) \in Nat,
         s.at = r.at, s.ids = r.ids, s.got = r.got, r.before = {} => s.before = {},
         b + d = a \/ (b + d = a + 1 /\ ~ZrevAt(cs, a + 1, p))
  PROVE  PollOK(t, b, p, s)
<1>1. /\ NoRead(cs, p) => NoRead(t, p)
      /\ NoGets(cs, p) => NoGets(t, p)
  <2>1. \A i \in Nat : i + d \in Nat
    OBVIOUS
  <2>2. NoRead(cs, p) => NoRead(t, p)
    BY <2>1 DEF Moved, NoRead
  <2>3. NoGets(cs, p) => NoGets(t, p)
    BY <2>1 DEF Moved, NoGets
  <2>4. QED
    BY <2>2, <2>3
<1>2. \A i \in Nat : d < i => i - d \in Nat /\ (i - d) + d = i
  OBVIOUS
<1>3. OneRead(cs, p) => OneRead(t, p)
  <2> SUFFICES ASSUME OneRead(cs, p) PROVE OneRead(t, p)
    OBVIOUS
  <2>1. \E i \in Nat : ZrevAt(t, i, p)
    <3>1. PICK i \in Nat : ZrevAt(cs, i, p)
      BY DEF OneRead
    <3>2. i - d \in Nat /\ (i - d) + d = i
      BY <1>2, <3>1 DEF Moved
    <3>3. ZrevAt(t, i - d, p)
      BY <3>1, <3>2 DEF Moved
    <3>4. QED
      BY <3>2, <3>3
  <2>2. ASSUME NEW i \in Nat, NEW j \in Nat, ZrevAt(t, i, p), ZrevAt(t, j, p)
        PROVE  i = j
    <3>1. i + d \in Nat /\ j + d \in Nat /\ ZrevAt(cs, i + d, p) /\ ZrevAt(cs, j + d, p)
      BY <2>2 DEF Moved
    <3>2. i + d = j + d
      BY <3>1 DEF OneRead
    <3>3. QED
      BY <3>2
  <2>3. QED
    BY <2>1, <2>2 DEF OneRead
<1>4. ASSUME NEW ids, NEW n \in Nat, GetsOf(cs, p, ids, n)
      PROVE  GetsOf(t, p, ids, n)
  <2>1. ASSUME NEW k \in (n + 1) .. Len(ids)
        PROVE  \E i \in Nat : GetAt(t, i, p, k)
    <3>1. PICK i \in Nat : GetAt(cs, i, p, k)
      BY <1>4 DEF GetsOf
    <3>2. k \in Nat /\ i - d \in Nat /\ (i - d) + d = i
      <4>1. k \in Nat
        BY <1>4
      <4>2. QED
        BY <1>2, <3>1, <4>1 DEF Moved
    <3>3. GetAt(t, i - d, p, k)
      BY <3>1, <3>2 DEF Moved
    <3>4. QED
      BY <3>2, <3>3
  <2>2. ASSUME NEW i \in Nat, NEW k \in Nat, GetAt(t, i, p, k)
        PROVE  k \in (n + 1) .. Len(ids) /\ t[i].uam = ids[k]
    <3>1. i + d \in Nat
      OBVIOUS
    <3>2. GetAt(cs, i + d, p, k)
      BY <2>2 DEF Moved
    <3>3. t[i].uam = cs[i + d].uam
      BY <2>2 DEF Moved
    <3>4. k \in (n + 1) .. Len(ids) /\ cs[i + d].uam = ids[k]
      BY <1>4, <3>1, <3>2 DEF GetsOf
    <3>5. QED
      BY <3>3, <3>4
  <2>3. ASSUME NEW i \in Nat, NEW j \in Nat, NEW k \in Nat, NEW m \in Nat,
               GetAt(t, i, p, k), GetAt(t, j, p, m), i < j
        PROVE  k < m
    <3>1. /\ i + d \in Nat /\ GetAt(cs, i + d, p, k) /\ j + d \in Nat /\ GetAt(cs, j + d, p, m)
          /\ i + d < j + d
      BY <2>3 DEF Moved
    <3>2. QED
      BY <1>4, <3>1 DEF GetsOf
  <2>4. QED
    BY <2>1, <2>2, <2>3 DEF GetsOf
<1>5. r.at = "reading" => \A i \in Nat : ZrevAt(t, i, p) => b < i
  <2> SUFFICES ASSUME r.at = "reading", NEW i \in Nat, ZrevAt(t, i, p) PROVE b < i
    OBVIOUS
  <2>1. i + d \in Nat /\ ZrevAt(cs, i + d, p)
    BY DEF Moved
  <2>2. a < i + d
    BY <2>1 DEF PollOK
  <2>3. CASE b + d = a
    BY <2>2, <2>3
  <2>4. CASE b + d = a + 1 /\ ~ZrevAt(cs, a + 1, p)
    <3>1. i + d # a + 1
      BY <2>1, <2>4
    <3>2. QED
      BY <2>2, <2>4, <3>1
  <2>5. QED
    BY <2>3, <2>4
<1>6. r.at = "read" => \A i \in Nat : ZrevAt(t, i, p) => i <= b
  <2> SUFFICES ASSUME r.at = "read", NEW i \in Nat, ZrevAt(t, i, p) PROVE i <= b
    OBVIOUS
  <2>1. i + d \in Nat /\ ZrevAt(cs, i + d, p)
    BY DEF Moved
  <2>2. i + d <= a /\ b + d >= a
    BY <2>1 DEF PollOK
  <2>3. QED
    BY <2>2
<1>7. QED
  BY <1>1, <1>3, <1>4, <1>5, <1>6 DEF PollOK

Of(c, p) == c.op \in {"zrevrange", "get"} /\ c.poll = p

LEMMA SameMoved == ASSUME NEW cs, NEW p PROVE Moved(cs, cs, 0, p)
<1>1. \A i \in Nat : i + 0 = i
  OBVIOUS
<1>2. \A i \in Nat : ZrevAt(cs, i, p) => 0 < i
  BY DEF ZrevAt
<1>3. \A i, k \in Nat : GetAt(cs, i, p, k) => 0 < i
  BY DEF GetAt
<1>4. QED
  BY <1>1, <1>2, <1>3 DEF Moved

LEMMA LongerMoved ==
  ASSUME NEW cs, NEW w, NEW t, Longer(cs, w, t), Len(cs) \in Nat, Len(w) \in Nat,
         NEW p, \A k \in 1 .. Len(w) : ~Of(w[k], p)
  PROVE  Moved(cs, t, 0, p)
<1>1. \A i \in Nat : i + 0 = i
  OBVIOUS
<1>2. \A i \in 1 .. Len(cs) : i \in 1 .. Len(t) /\ t[i] = cs[i]
  BY DEF Longer
<1>3. \A i \in 1 .. Len(t) : Of(t[i], p) => i \in 1 .. Len(cs)
  BY DEF Longer
<1>4. \A i \in Nat : ZrevAt(t, i, p) <=> ZrevAt(cs, i, p)
  BY <1>2, <1>3 DEF ZrevAt, Of
<1>5. \A i, k \in Nat : GetAt(t, i, p, k) <=> GetAt(cs, i, p, k)
  BY <1>2, <1>3 DEF GetAt, Of
<1>6. \A i, k \in Nat : GetAt(t, i, p, k) => t[i].uam = cs[i].uam
  BY <1>2, <1>5 DEF GetAt
<1>7. /\ \A i \in Nat : ZrevAt(cs, i, p) => 0 < i
      /\ \A i, k \in Nat : GetAt(cs, i, p, k) => 0 < i
  BY DEF ZrevAt, GetAt
<1>8. QED
  BY <1>1, <1>4, <1>5, <1>6, <1>7 DEF Moved

LEMMA ShiftedMoved ==
  ASSUME NEW cs, NEW w, NEW t, Shifted(cs, w, t), Len(cs) \in Nat, Len(cs) >= 1, Len(w) \in Nat,
         NEW p, \A k \in 1 .. Len(w) : ~Of(w[k], p), ~Of(cs[1], p)
  PROVE  Moved(cs, t, 1, p)
<1>1. \A i \in Nat : i + 1 \in 1 .. Len(cs) => i = 0 \/ i \in 1 .. (Len(cs) - 1)
  OBVIOUS
<1>2. \A i \in 1 .. (Len(cs) - 1) : i \in 1 .. Len(t) /\ t[i] = cs[i + 1] /\ i + 1 \in 1 .. Len(cs)
  BY DEF Shifted
<1>3. \A i \in 1 .. Len(t) : Of(t[i], p) => i \in 1 .. (Len(cs) - 1)
  BY DEF Shifted
<1>4. ASSUME NEW i \in Nat PROVE ZrevAt(t, i, p) <=> ZrevAt(cs, i + 1, p)
  <2>1. ZrevAt(t, i, p) => i \in 1 .. (Len(cs) - 1)
    BY <1>3 DEF ZrevAt, Of
  <2>2. ZrevAt(cs, i + 1, p) => i \in 1 .. (Len(cs) - 1)
    <3>1. i = 0 => ~ZrevAt(cs, i + 1, p)
      BY DEF ZrevAt, Of
    <3>2. QED
      BY <1>1, <3>1 DEF ZrevAt
  <2>3. QED
    BY <1>2, <2>1, <2>2 DEF ZrevAt
<1>5. ASSUME NEW i \in Nat, NEW k \in Nat PROVE GetAt(t, i, p, k) <=> GetAt(cs, i + 1, p, k)
  <2>1. GetAt(t, i, p, k) => i \in 1 .. (Len(cs) - 1)
    BY <1>3 DEF GetAt, Of
  <2>2. GetAt(cs, i + 1, p, k) => i \in 1 .. (Len(cs) - 1)
    <3>1. i = 0 => ~GetAt(cs, i + 1, p, k)
      BY DEF GetAt, Of
    <3>2. QED
      BY <1>1, <3>1 DEF GetAt
  <2>3. QED
    BY <1>2, <2>1, <2>2 DEF GetAt
<1>6. ASSUME NEW i \in Nat, NEW k \in Nat, GetAt(t, i, p, k) PROVE t[i].uam = cs[i + 1].uam
  <2>1. i \in 1 .. (Len(cs) - 1)
    BY <1>3, <1>6 DEF GetAt, Of
  <2>2. QED
    BY <1>2, <2>1
<1>7. \A i \in 1 .. Len(cs) : 1 < i \/ i = 1
  OBVIOUS
<1>8. /\ \A i \in Nat : ZrevAt(cs, i, p) => 1 < i
      /\ \A i, k \in Nat : GetAt(cs, i, p, k) => 1 < i
  BY <1>7 DEF ZrevAt, GetAt, Of
<1>9. QED
  BY <1>4, <1>5, <1>6, <1>8 DEF Moved

-----------------------------------------------------------------------------
(* Kinds of steps *)

Kept4(p) == /\ poll'[p].at = poll[p].at /\ poll'[p].ids = poll[p].ids
            /\ poll'[p].got = poll[p].got /\ poll'[p].before = poll[p].before
AllKept == \A p \in Poll : Kept4(p)
Foreign(w) == \A k \in 1 .. Len(w) : w[k].op \notin {"zrevrange", "get"}

\* No poll takes a step, and the connection stays.
Quiet == AllKept /\ UNCHANGED <<commands, replies>>

\* Another command is written ...
Writes(w) ==
  /\ AllKept /\ w \in Seq(Command) /\ Foreign(w) /\ Longer(commands, w, commands')
  /\ UNCHANGED replies

\* ... executed ...
Answered ==
  /\ AllKept /\ UNCHANGED commands /\ Len(replies) < Len(commands)
  /\ commands[Len(replies) + 1].op # "zrevrange"
  /\ Len(replies') = Len(replies) + 1
  /\ \A i \in 1 .. Len(replies) : replies'[i] = replies[i]

\* ... or its reply handled.
Handles(w) ==
  /\ AllKept /\ replies # << >> /\ Foreign(<<commands[1]>>)
  /\ w \in Seq(Command) /\ Foreign(w) /\ Shifted(commands, w, commands')
  /\ Len(replies') = Len(replies) - 1
  /\ \A i \in 1 .. (Len(replies) - 1) : replies'[i] = replies[i + 1]

\* A poll starts, ...
Starts(p) ==
  /\ At(p, "idle") /\ OthersKept(p)
  /\ poll'[p].at = "reading" /\ poll'[p].ids = poll[p].ids /\ poll'[p].got = poll[p].got
  /\ poll'[p].before = poll[p].before
  /\ Longer(commands, <<[op |-> "zrevrange", poll |-> p]>>, commands')
  /\ UNCHANGED replies

\* ... its queue is read, ...
Reads(p, ids) ==
  /\ Len(replies) < Len(commands) /\ ZrevAt(commands, Len(replies) + 1, p)
  /\ OthersKept(p)
  /\ poll'[p].at = "read" /\ poll'[p].ids = poll[p].ids /\ poll'[p].got = poll[p].got
  /\ poll'[p].before = {q \in Poll : HasRead(q)}
  /\ UNCHANGED commands
  /\ Len(replies') = Len(replies) + 1
  /\ \A i \in 1 .. Len(replies) : replies'[i] = replies[i]
  /\ replies'[Len(replies) + 1] = ids

GetsFor(p, ids) == [i \in DOMAIN ids |-> [op |-> "get", poll |-> p, nth |-> i, uam |-> ids[i]]]

\* ... it learns of the ids, ...
Asks(p, ids) ==
  /\ replies # << >> /\ ZrevAt(commands, 1, p) /\ ids = replies[1]
  /\ ids \in Seq(Uam) /\ OthersKept(p)
  /\ poll'[p].at = IF ids = << >> THEN "ready" ELSE "getting"
  /\ poll'[p].ids = ids /\ poll'[p].got = poll[p].got /\ poll'[p].before = poll[p].before
  /\ Shifted(commands, GetsFor(p, ids), commands')
  /\ Len(replies') = Len(replies) - 1
  /\ \A i \in 1 .. (Len(replies) - 1) : replies'[i] = replies[i + 1]

\* ... of a detail, ...
Learns(p, status) ==
  /\ replies # << >> /\ Of(commands[1], p) /\ commands[1].op = "get"
  /\ status = replies[1] /\ OthersKept(p)
  /\ poll'[p].at = IF Len(poll[p].got) + 1 = Len(poll[p].ids) THEN "ready" ELSE poll[p].at
  /\ poll'[p].ids = poll[p].ids /\ poll'[p].got = Append(poll[p].got, status)
  /\ poll'[p].before = poll[p].before
  /\ Shifted(commands, << >>, commands')
  /\ Len(replies') = Len(replies) - 1
  /\ \A i \in 1 .. (Len(replies) - 1) : replies'[i] = replies[i + 1]

\* ... and ends.
Ends(p) ==
  /\ At(p, "ready") /\ poll'[p] = Idle
  /\ \A q \in Poll \ {p} :
       /\ poll'[q].at = poll[q].at /\ poll'[q].ids = poll[q].ids
       /\ poll'[q].got = poll[q].got /\ poll'[q].before = poll[q].before \ {p}
  /\ UNCHANGED <<commands, replies>>

StepKind ==
  \/ Quiet \/ Answered
  \/ \E w \in Seq(Command) : Writes(w) \/ Handles(w)
  \/ \E p \in Poll : \/ Starts(p) \/ Ends(p)
                     \/ \E ids \in Seq(Uam) : Reads(p, ids) \/ Asks(p, ids)
                     \/ \E status \in Known : Learns(p, status)

LEMMA Lengths ==
  ASSUME TypeInv
  PROVE  /\ Len(commands) \in Nat /\ Len(replies) \in Nat /\ Len(replies) <= Len(commands)
         /\ \A p \in Poll : Len(poll[p].got) \in Nat /\ Len(poll[p].ids) \in Nat
  BY DEF TypeInv, ConnOK, PollsTyped, InProgress

\* Whose commands they are, by what a poll is at.
LEMMA WhoseZrev ==
  ASSUME NEW cs, NEW a \in Nat, NEW p, NEW r, PollOK(cs, a, p, r), NEW i \in Nat, ZrevAt(cs, i, p),
         r.at \in {"idle", "reading", "read", "getting", "ready"}
  PROVE  /\ r.at \in {"reading", "read"} /\ r.ids = << >> /\ r.got = << >>
         /\ a < i => r.at = "reading"
         /\ i <= a => r.at = "read"
         /\ \A j \in Nat : ZrevAt(cs, j, p) => j = i
<1>1. r.at \in {"reading", "read"}
  BY DEF PollOK, NoRead
<1>2. (r.at = "reading" => a < i) /\ (r.at = "read" => i <= a)
  BY DEF PollOK
<1>3. ~(a < i /\ i <= a)
  OBVIOUS
<1>4. \A j \in Nat : ZrevAt(cs, j, p) => j = i
  BY <1>1 DEF PollOK, OneRead
<1>5. r.ids = << >> /\ r.got = << >>
  BY <1>1 DEF PollOK
<1>6. QED
  BY <1>1, <1>2, <1>3, <1>4, <1>5

LEMMA WhoseGet ==
  ASSUME NEW cs, NEW a \in Nat, NEW p, NEW r, PollOK(cs, a, p, r), NEW i \in Nat, NEW k \in Nat,
         GetAt(cs, i, p, k), r.at \in {"idle", "reading", "read", "getting", "ready"}
  PROVE  /\ r.at = "getting" /\ Len(r.got) < Len(r.ids) /\ GetsOf(cs, p, r.ids, Len(r.got))
         /\ k \in (Len(r.got) + 1) .. Len(r.ids) /\ cs[i].uam = r.ids[k]
<1>1. r.at = "getting"
  BY DEF PollOK, NoGets
<1>2. Len(r.got) < Len(r.ids) /\ GetsOf(cs, p, r.ids, Len(r.got))
  BY <1>1 DEF PollOK
<1>3. QED
  BY <1>1, <1>2 DEF GetsOf

\* The first get of a poll is for the detail that comes next.
LEMMA NextGet ==
  ASSUME NEW cs, NEW p, NEW ids, NEW n \in Nat, Len(ids) \in Nat, n < Len(ids),
         GetsOf(cs, p, ids, n), NEW k \in Nat, GetAt(cs, 1, p, k)
  PROVE  k = n + 1
<1>1. n + 1 \in (n + 1) .. Len(ids)
  OBVIOUS
<1>2. PICK i \in Nat : GetAt(cs, i, p, n + 1)
  BY <1>1 DEF GetsOf
<1>3. i >= 1
  BY <1>2 DEF GetAt
<1>4. k >= n + 1
  BY DEF GetsOf
<1>5. CASE i = 1
  BY <1>2, <1>5 DEF GetAt
<1>6. CASE 1 < i
  <2>1. k < n + 1
    BY <1>2, <1>6 DEF GetsOf
  <2>2. QED
    BY <1>4, <2>1
<1>7. QED
  BY <1>3, <1>5, <1>6

\* A poll whose commands only move keeps waiting for what it waited for.
LEMMA KeptOK ==
  ASSUME TypeInv, PollsOK, NEW p \in Poll, Kept4(p), NEW d \in Nat,
         Moved(commands, commands', d, p),
         \/ Len(replies') = Len(replies) - d
         \/ /\ Len(replies') = Len(replies) - d + 1
            /\ ~ZrevAt(commands, Len(replies) + 1, p)
  PROVE  PollOK(commands', Len(replies'), p, poll'[p])
<1>1. PollOK(commands, Len(replies), p, poll[p])
  BY DEF PollsOK
<1>2. /\ Len(poll[p].got) \in Nat /\ Len(replies) \in Nat /\ Len(replies') \in Int
      /\ \/ Len(replies') + d = Len(replies)
         \/ Len(replies') + d = Len(replies) + 1 /\ ~ZrevAt(commands, Len(replies) + 1, p)
  BY Lengths
<1>3. /\ poll'[p].at = poll[p].at /\ poll'[p].ids = poll[p].ids /\ poll'[p].got = poll[p].got
      /\ poll[p].before = {} => poll'[p].before = {}
  BY DEF Kept4
<1> DEFINE cs == commands
           t == commands'
           a == Len(replies)
           b == Len(replies')
           r == poll[p]
           s == poll'[p]
<1>4. Moved(cs, t, d, p) /\ a \in Nat /\ b \in Int
  BY <1>2
<1>5. PollOK(cs, a, p, r) /\ Len(r.got) \in Nat
  BY <1>1, <1>2
<1>6. s.at = r.at /\ s.ids = r.ids /\ s.got = r.got /\ (r.before = {} => s.before = {})
  BY <1>3
<1>7. b + d = a \/ (b + d = a + 1 /\ ~ZrevAt(cs, a + 1, p))
  BY <1>2
<1> HIDE DEF cs, t, a, b, r, s
<1>8. PollOK(t, b, p, s)
  BY <1>4, <1>5, <1>6, <1>7, MovedOK
<1>9. QED
  BY <1>8 DEF t, b, s

LEMMA QuietPolls ==
  ASSUME TypeInv, PollsOK, Quiet PROVE PollsOK'
<1> SUFFICES ASSUME NEW p \in Poll PROVE PollOK(commands', Len(replies'), p, poll'[p])
  BY DEF PollsOK
<1>1. Kept4(p) /\ Moved(commands, commands', 0, p) /\ Len(replies') = Len(replies) - 0
  BY SameMoved, Lengths DEF Quiet, AllKept
<1>2. QED
  BY <1>1, KeptOK

LEMMA AnsweredPolls ==
  ASSUME TypeInv, PollsOK, Answered PROVE PollsOK'
<1> SUFFICES ASSUME NEW p \in Poll PROVE PollOK(commands', Len(replies'), p, poll'[p])
  BY DEF PollsOK
<1>1. Kept4(p) /\ Moved(commands, commands', 0, p) /\ Len(replies') = Len(replies) - 0 + 1
  BY SameMoved, Lengths DEF Answered, AllKept
<1>2. ~ZrevAt(commands, Len(replies) + 1, p)
  BY DEF Answered, ZrevAt
<1>3. QED
  BY <1>1, <1>2, KeptOK

LEMMA WritesMoved ==
  ASSUME TypeInv, NEW w \in Seq(Command), Writes(w), NEW p \in Poll
  PROVE  Moved(commands, commands', 0, p)
<1>1. \A k \in 1 .. Len(w) : ~Of(w[k], p)
  BY DEF Writes, Foreign, Of
<1>2. Longer(commands, w, commands') /\ Len(w) \in Nat
  BY DEF Writes
<1>3. QED
  BY <1>1, <1>2, Lengths, LongerMoved

LEMMA HandlesMoved ==
  ASSUME TypeInv, NEW w \in Seq(Command), Handles(w), NEW p \in Poll
  PROVE  Moved(commands, commands', 1, p)
<1>1. \A k \in 1 .. Len(w) : ~Of(w[k], p)
  BY DEF Handles, Foreign, Of
<1>2. Shifted(commands, w, commands') /\ Len(w) \in Nat
  BY DEF Handles
<1>3. ~Of(commands[1], p)
  <2>1. 1 \in 1 .. Len(<<commands[1]>>) /\ <<commands[1]>>[1] = commands[1]
    OBVIOUS
  <2>2. QED
    BY <2>1 DEF Handles, Foreign, Of
<1>4. Len(commands) >= 1 /\ Len(commands) \in Nat
  <2>1. replies # << >>
    BY DEF Handles
  <2>2. QED
    BY <2>1, HeadOK DEF TypeInv
<1>5. QED
  BY <1>1, <1>2, <1>3, <1>4, ShiftedMoved

LEMMA WritesPolls ==
  ASSUME TypeInv, PollsOK, NEW w \in Seq(Command), Writes(w) PROVE PollsOK'
<1> SUFFICES ASSUME NEW p \in Poll PROVE PollOK(commands', Len(replies'), p, poll'[p])
  BY DEF PollsOK
<1>1. Kept4(p) /\ Moved(commands, commands', 0, p) /\ Len(replies') = Len(replies) - 0
  BY WritesMoved, Lengths DEF Writes, AllKept
<1>2. QED
  BY <1>1, KeptOK

LEMMA HandlesPolls ==
  ASSUME TypeInv, PollsOK, NEW w \in Seq(Command), Handles(w) PROVE PollsOK'
<1> SUFFICES ASSUME NEW p \in Poll PROVE PollOK(commands', Len(replies'), p, poll'[p])
  BY DEF PollsOK
<1>1. Kept4(p) /\ Moved(commands, commands', 1, p) /\ Len(replies') = Len(replies) - 1
  BY HandlesMoved DEF Handles, AllKept
<1>2. QED
  BY <1>1, KeptOK

LEMMA StartsMoved ==
  ASSUME TypeInv, NEW p \in Poll, Starts(p), NEW q \in Poll, q # p
  PROVE  Moved(commands, commands', 0, q)
<1> DEFINE w == <<[op |-> "zrevrange", poll |-> p]>>
<1>1. \A k \in 1 .. Len(w) : ~Of(w[k], q)
  BY DEF Of
<1>2. Longer(commands, w, commands') /\ Len(w) \in Nat
  BY DEF Starts
<1> HIDE DEF w
<1>3. QED
  BY <1>1, <1>2, Lengths, LongerMoved

LEMMA StartsPolls ==
  ASSUME TypeInv, PollsOK, NEW p \in Poll, Starts(p) PROVE PollsOK'
<1> SUFFICES ASSUME NEW q \in Poll PROVE PollOK(commands', Len(replies'), q, poll'[q])
  BY DEF PollsOK
<1>1. CASE q # p
  <2>1. Kept4(q) /\ Moved(commands, commands', 0, q) /\ Len(replies') = Len(replies) - 0
    BY <1>1, StartsMoved, Lengths DEF Starts, OthersKept, Kept4
  <2>2. QED
    BY <2>1, KeptOK
<1>2. CASE q = p
  <2> DEFINE w == <<[op |-> "zrevrange", poll |-> p]>>
             m == Len(commands)
  <2>1. /\ m \in Nat /\ Len(replies) \in Nat /\ Len(replies) <= m
    BY Lengths
  <2>2. /\ Len(w) = 1 /\ w[1].op = "zrevrange" /\ w[1].poll = p
    OBVIOUS
  <2>3. Longer(commands, w, commands')
    BY DEF Starts
  <2> HIDE DEF w
  <2>4. /\ \A i \in 1 .. Len(commands') :
             (i \in 1 .. m /\ commands'[i] = commands[i]) \/ (i = m + 1 /\ commands'[i] = w[1])
        /\ Len(commands') = m + 1 /\ commands'[m + 1] = w[1]
    BY <2>1, <2>2, <2>3 DEF Longer
  <2>5. /\ poll[p].ids = << >> /\ poll[p].got = << >> /\ poll[p].before = {}
        /\ NoGets(commands, p) /\ NoRead(commands, p)
    <3>1. PollOK(commands, Len(replies), p, poll[p]) /\ poll[p].at = "idle"
      BY DEF PollsOK, Starts, At
    <3>2. QED
      BY <3>1 DEF PollOK
  <2>6. NoGets(commands', p)
    BY <2>2, <2>4, <2>5 DEF NoGets, GetAt
  <2>7. ZrevAt(commands', m + 1, p)
    BY <2>1, <2>2, <2>4 DEF ZrevAt
  <2>8. \A i \in Nat : ZrevAt(commands', i, p) => i = m + 1
    BY <2>4, <2>5 DEF NoRead, ZrevAt
  <2>9. OneRead(commands', p) /\ \A i \in Nat : ZrevAt(commands', i, p) => Len(replies) < i
    BY <2>1, <2>7, <2>8 DEF OneRead
  <2>10. QED
    BY <1>2, <2>5, <2>6, <2>9 DEF PollOK, Starts
<1>3. QED
  BY <1>1, <1>2

LEMMA ReadsPolls ==
  ASSUME TypeInv, PollsOK, NEW p \in Poll, NEW ids, Reads(p, ids)
  PROVE  PollsOK' /\ poll[p].at = "reading" /\ poll[p].before = {}
<1>1. Len(replies) \in Nat /\ Len(replies') = Len(replies) + 1
  BY Lengths DEF Reads
<1>2. ZrevAt(commands, Len(replies) + 1, p) /\ UNCHANGED commands
  BY DEF Reads
<1>3. PollOK(commands, Len(replies), p, poll[p])
  BY DEF PollsOK
<1>4. /\ poll[p].at = "reading" /\ poll[p].ids = << >> /\ poll[p].got = << >>
      /\ \A j \in Nat : ZrevAt(commands, j, p) => j = Len(replies) + 1
  <2>1. poll[p].at \in {"idle", "reading", "read", "getting", "ready"}
    BY DEF TypeInv, PollsTyped, InProgress
  <2>2. Len(replies) + 1 \in Nat /\ Len(replies) < Len(replies) + 1
    BY <1>1
  <2>3. QED
    BY <1>1, <1>2, <1>3, <2>1, <2>2, WhoseZrev
<1>5. poll[p].before = {} /\ NoGets(commands, p) /\ OneRead(commands, p)
  BY <1>3, <1>4 DEF PollOK
<1>6. ASSUME NEW q \in Poll PROVE PollOK(commands', Len(replies'), q, poll'[q])
  <2>1. CASE q # p
    <3>1. ~ZrevAt(commands, Len(replies) + 1, q)
      BY <1>2, <2>1 DEF ZrevAt
    <3>2. Kept4(q) /\ Moved(commands, commands', 0, q) /\ Len(replies') = Len(replies) - 0 + 1
      BY <1>1, <1>2, <2>1, SameMoved DEF Reads, OthersKept, Kept4
    <3>3. QED
      BY <3>1, <3>2, KeptOK
  <2>2. CASE q = p
    <3>1. \A i \in Nat : ZrevAt(commands, i, p) => i <= Len(replies')
      BY <1>1, <1>4
    <3>2. /\ poll'[p].at = "read" /\ poll'[p].ids = << >> /\ poll'[p].got = << >>
      BY <1>4 DEF Reads
    <3>3. QED
      BY <1>2, <1>5, <2>2, <3>1, <3>2 DEF PollOK
  <2>3. QED
    BY <2>1, <2>2
<1>7. QED
  BY <1>4, <1>5, <1>6 DEF PollsOK

\* The others' commands only move up when a reply of poll p is handled.
LEMMA AsksMoved ==
  ASSUME TypeInv, NEW p \in Poll, NEW ids \in Seq(Uam), Asks(p, ids), NEW q \in Poll, q # p
  PROVE  Moved(commands, commands', 1, q)
<1> DEFINE w == GetsFor(p, ids)
<1>1. Len(w) \in Nat /\ \A k \in 1 .. Len(w) : ~Of(w[k], q)
  BY DEF GetsFor, Of
<1>2. ~Of(commands[1], q) /\ Shifted(commands, w, commands') /\ replies # << >>
  BY DEF Asks, ZrevAt, Of
<1>3. Len(commands) \in Nat /\ Len(commands) >= 1
  BY <1>2, HeadOK DEF TypeInv
<1> HIDE DEF w
<1>4. QED
  BY <1>1, <1>2, <1>3, ShiftedMoved

LEMMA LearnsMoved ==
  ASSUME TypeInv, NEW p \in Poll, NEW status, Learns(p, status), NEW q \in Poll, q # p
  PROVE  Moved(commands, commands', 1, q)
<1> DEFINE w == << >>
<1>1. Len(w) \in Nat /\ \A k \in 1 .. Len(w) : ~Of(w[k], q)
  OBVIOUS
<1>2. ~Of(commands[1], q) /\ Shifted(commands, w, commands') /\ replies # << >>
  BY DEF Learns, Of
<1>3. Len(commands) \in Nat /\ Len(commands) >= 1
  BY <1>2, HeadOK DEF TypeInv
<1> HIDE DEF w
<1>4. QED
  BY <1>1, <1>2, <1>3, ShiftedMoved

\* The gets that a poll writes are all its commands then, at the end and in order.
LEMMA AsksOwn ==
  ASSUME TypeInv, PollsOK, NEW p \in Poll, NEW ids \in Seq(Uam), Asks(p, ids)
  PROVE  /\ poll[p].at = "read" /\ poll[p].got = << >> /\ NoRead(commands', p)
         /\ \A i, k \in Nat : GetAt(commands', i, p, k)
                                <=> k \in 1 .. Len(ids) /\ i = Len(commands) - 1 + k
         /\ \A k \in 1 .. Len(ids) : commands'[Len(commands) - 1 + k].uam = ids[k]
<1> DEFINE w == GetsFor(p, ids)
<1>1. PICK n \in Nat : n = Len(ids) /\ Len(w) = n /\ DOMAIN ids = 1 .. n
  BY DEF GetsFor
<1>2. \A k \in 1 .. n : w[k].op = "get" /\ w[k].poll = p /\ w[k].nth = k /\ w[k].uam = ids[k]
  BY <1>1 DEF GetsFor
<1>3. Shifted(commands, w, commands') /\ replies # << >> /\ ZrevAt(commands, 1, p)
  BY DEF Asks
<1> HIDE DEF w
<1>4. PICK m \in Nat : m = Len(commands) - 1 /\ Len(commands) = m + 1
  <2>1. Len(commands) \in Nat /\ Len(commands) >= 1
    BY <1>3, HeadOK DEF TypeInv
  <2>2. QED
    BY <2>1
<1>5. /\ \A i \in 1 .. Len(commands') :
           \/ i \in 1 .. m /\ i + 1 \in 1 .. Len(commands) /\ commands'[i] = commands[i + 1]
           \/ \E k \in 1 .. n : i = m + k /\ commands'[i] = w[k]
      /\ \A k \in 1 .. n : commands'[m + k] = w[k]
      /\ Len(commands') = m + n
  BY <1>1, <1>3, <1>4 DEF Shifted
<1>6. /\ poll[p].at = "read" /\ poll[p].got = << >> /\ NoGets(commands, p)
      /\ \A j \in Nat : ZrevAt(commands, j, p) => j = 1
  <2>1. PollOK(commands, Len(replies), p, poll[p]) /\ Len(replies) \in Nat /\ 1 <= Len(replies)
        /\ poll[p].at \in {"idle", "reading", "read", "getting", "ready"}
    BY <1>3, HeadOK DEF PollsOK, TypeInv, PollsTyped, InProgress
  <2>2. /\ poll[p].at = "read" /\ poll[p].got = << >> /\ \A j \in Nat : ZrevAt(commands, j, p) => j = 1
    BY <1>3, <2>1, WhoseZrev
  <2>3. QED
    BY <2>1, <2>2 DEF PollOK
<1>7. \A i \in 1 .. m : ~ZrevAt(commands, i + 1, p) /\ \A k \in Nat : ~GetAt(commands, i + 1, p, k)
  BY <1>6 DEF NoGets
<1>8. NoRead(commands', p)
  <2> SUFFICES ASSUME NEW i \in Nat, ZrevAt(commands', i, p) PROVE FALSE
    BY DEF NoRead
  <2>1. i \in 1 .. Len(commands') /\ commands'[i].op = "zrevrange" /\ commands'[i].poll = p
    BY DEF ZrevAt
  <2>2. CASE i \in 1 .. m /\ i + 1 \in 1 .. Len(commands) /\ commands'[i] = commands[i + 1]
    BY <1>7, <2>1, <2>2 DEF ZrevAt
  <2>3. CASE \E k \in 1 .. n : i = m + k /\ commands'[i] = w[k]
    BY <1>2, <2>1, <2>3
  <2>4. QED
    BY <1>5, <2>1, <2>2, <2>3
<1>9. ASSUME NEW i \in Nat, NEW k \in Nat, GetAt(commands', i, p, k)
      PROVE  k \in 1 .. n /\ i = m + k
  <2>1. i \in 1 .. Len(commands') /\ commands'[i].op = "get" /\ commands'[i].poll = p
        /\ commands'[i].nth = k
    BY <1>9 DEF GetAt
  <2>2. CASE i \in 1 .. m /\ i + 1 \in 1 .. Len(commands) /\ commands'[i] = commands[i + 1]
    BY <1>7, <2>1, <2>2 DEF GetAt
  <2>3. CASE \E l \in 1 .. n : i = m + l /\ commands'[i] = w[l]
    BY <1>2, <2>1, <2>3
  <2>4. QED
    BY <1>5, <2>1, <2>2, <2>3
<1>10. ASSUME NEW k \in 1 .. n
       PROVE  GetAt(commands', m + k, p, k) /\ commands'[m + k].uam = ids[k]
  <2>1. m + k \in 1 .. Len(commands')
    BY <1>5
  <2>2. commands'[m + k].op = "get" /\ commands'[m + k].poll = p /\ commands'[m + k].nth = k
        /\ commands'[m + k].uam = ids[k]
    <3>1. commands'[m + k] = w[k]
      BY <1>5
    <3>2. QED
      BY <1>2, <3>1
  <2>3. QED
    BY <2>1, <2>2 DEF GetAt
<1>11. QED
  BY <1>1, <1>4, <1>6, <1>8, <1>9, <1>10

LEMMA AsksPolls ==
  ASSUME TypeInv, PollsOK, NEW p \in Poll, NEW ids \in Seq(Uam), Asks(p, ids)
  PROVE  PollsOK'
<1> SUFFICES ASSUME NEW q \in Poll PROVE PollOK(commands', Len(replies'), q, poll'[q])
  BY DEF PollsOK
<1>1. CASE q # p
  <2>1. Kept4(q) /\ Moved(commands, commands', 1, q) /\ Len(replies') = Len(replies) - 1
    BY <1>1, AsksMoved DEF Asks, OthersKept, Kept4
  <2>2. QED
    BY <2>1, KeptOK
<1>2. CASE q = p
  <2>1. /\ poll[p].got = << >> /\ NoRead(commands', p)
        /\ \A i, k \in Nat : GetAt(commands', i, p, k)
                                <=> k \in 1 .. Len(ids) /\ i = Len(commands) - 1 + k
        /\ \A k \in 1 .. Len(ids) : commands'[Len(commands) - 1 + k].uam = ids[k]
    BY AsksOwn
  <2>2. PICK n \in Nat, m \in Nat : n = Len(ids) /\ m = Len(commands) - 1
    <3>1. replies # << >>
      BY DEF Asks
    <3>2. Len(commands) \in Nat /\ Len(commands) >= 1
      BY <3>1, HeadOK DEF TypeInv
    <3>3. Len(commands) - 1 \in Nat /\ Len(ids) \in Nat
      BY <3>2
    <3>4. QED
      BY <3>3
  <2>3. /\ poll'[p].ids = ids /\ poll'[p].got = << >>
        /\ poll'[p].at = IF ids = << >> THEN "ready" ELSE "getting"
    BY <2>1 DEF Asks
  <2>4. CASE ids = << >>
    <3>1. NoGets(commands', p)
      BY <2>1, <2>4 DEF NoGets
    <3>2. QED
      BY <1>2, <2>1, <2>3, <2>4, <3>1 DEF PollOK
  <2>5. CASE ids # << >>
    <3>1. Len(<< >>) = 0 /\ 0 < n
      BY <2>2, <2>5
    <3>2. /\ \A k \in 1 .. n : m + k \in Nat /\ GetAt(commands', m + k, p, k)
      BY <2>1, <2>2
    <3>3. \A i, k \in Nat : GetAt(commands', i, p, k) => k \in 1 .. n /\ i = m + k
      BY <2>1, <2>2
    <3>4. \A i, k \in Nat : GetAt(commands', i, p, k) => commands'[i].uam = ids[k]
      BY <2>1, <2>2, <3>3
    <3>5. \A i, j, k, l \in Nat :
            GetAt(commands', i, p, k) /\ GetAt(commands', j, p, l) /\ i < j => k < l
      BY <3>3
    <3>6. GetsOf(commands', p, ids, 0)
      <4>1. 0 + 1 = 1 /\ Len(ids) = n
        BY <2>2
      <4>2. \A k \in 1 .. n : \E i \in Nat : GetAt(commands', i, p, k)
        BY <3>2
      <4>3. QED
        BY <3>3, <3>4, <3>5, <4>1, <4>2 DEF GetsOf
    <3>7. QED
      BY <1>2, <2>1, <2>2, <2>3, <2>5, <3>1, <3>6 DEF PollOK
  <2>6. QED
    BY <2>4, <2>5
<1>3. QED
  BY <1>1, <1>2

\* A detail is the one that poll p waits for first; its other gets move up.
LEMMA LearnsOwn ==
  ASSUME TypeInv, PollsOK, NEW p \in Poll, NEW status, Learns(p, status)
  PROVE  /\ poll[p].at = "getting" /\ Len(poll[p].got) < Len(poll[p].ids)
         /\ GetsOf(commands, p, poll[p].ids, Len(poll[p].got))
         /\ GetAt(commands, 1, p, Len(poll[p].got) + 1)
         /\ commands[1].uam = poll[p].ids[Len(poll[p].got) + 1]
         /\ NoRead(commands', p)
         /\ \A i, k \in Nat : GetAt(commands', i, p, k) <=> i >= 1 /\ GetAt(commands, i + 1, p, k)
         /\ \A i, k \in Nat : GetAt(commands', i, p, k) => commands'[i].uam = commands[i + 1].uam
<1> DEFINE g == Len(poll[p].got)
           k1 == commands[1].nth
<1>1. /\ replies # << >> /\ Of(commands[1], p) /\ commands[1].op = "get"
      /\ Shifted(commands, << >>, commands')
  BY DEF Learns
<1>2. /\ Len(commands) \in Nat /\ Len(commands) >= 1 /\ k1 \in Nat /\ Len(replies) \in Nat
  <2>1. /\ Head(commands) = commands[1] /\ Head(commands) \in Command
        /\ Len(replies) \in Nat /\ Len(replies) >= 1 /\ Len(commands) \in Nat
        /\ Len(replies) <= Len(commands)
    BY <1>1, HeadOK DEF TypeInv
  <2>2. QED
    BY <1>1, <2>1, CommandFacts
<1>3. GetAt(commands, 1, p, k1)
  BY <1>1, <1>2 DEF GetAt, Of
<1>4. PollOK(commands, Len(replies), p, poll[p])
      /\ poll[p].at \in {"idle", "reading", "read", "getting", "ready"}
  BY DEF PollsOK, TypeInv, PollsTyped, InProgress
<1>5. /\ poll[p].at = "getting" /\ g < Len(poll[p].ids) /\ GetsOf(commands, p, poll[p].ids, g)
      /\ commands[1].uam = poll[p].ids[k1]
  <2>1. PICK a \in Nat, k \in Nat : a = Len(replies) /\ k = k1
    BY <1>2
  <2>2. GetAt(commands, 1, p, k) /\ PollOK(commands, a, p, poll[p])
    BY <1>3, <1>4, <2>1
  <2>3. /\ poll[p].at = "getting" /\ Len(poll[p].got) < Len(poll[p].ids)
        /\ GetsOf(commands, p, poll[p].ids, Len(poll[p].got))
        /\ commands[1].uam = poll[p].ids[k]
    <3>1. poll[p].at = "getting"
      BY <1>4, <2>2 DEF PollOK, NoGets
    <3>2. /\ Len(poll[p].got) < Len(poll[p].ids)
          /\ GetsOf(commands, p, poll[p].ids, Len(poll[p].got))
      BY <2>2, <3>1 DEF PollOK
    <3>3. commands[1].uam = poll[p].ids[k]
      BY <2>2, <3>2 DEF GetsOf
    <3>4. QED
      BY <3>1, <3>2, <3>3
  <2>4. QED
    BY <2>1, <2>3
<1>6. k1 = g + 1
  <2>1. g \in Nat /\ Len(poll[p].ids) \in Nat
    BY Lengths
  <2> HIDE DEF g, k1
  <2>2. QED
    BY <1>2, <1>3, <1>5, <2>1, NextGet
<1>7. NoRead(commands, p)
  BY <1>4, <1>5 DEF PollOK
<1>8. PICK m \in Nat : m = Len(commands) - 1 /\ Len(commands) = m + 1
  <2>1. Len(commands) - 1 \in Nat /\ Len(commands) = (Len(commands) - 1) + 1
    BY <1>2
  <2>2. QED
    BY <2>1
<1>9. Len(commands') = m /\ \A i \in 1 .. m : commands'[i] = commands[i + 1]
  <2>1. Len(<< >>) = 0
    OBVIOUS
  <2>2. QED
    BY <1>1, <1>8, <2>1 DEF Shifted
<1>10. \A i \in Nat : i \in 1 .. m <=> i >= 1 /\ i + 1 \in 1 .. (m + 1)
  OBVIOUS
<1>11. \A i, k \in Nat : GetAt(commands', i, p, k) <=> i >= 1 /\ GetAt(commands, i + 1, p, k)
  BY <1>8, <1>9, <1>10 DEF GetAt
<1>12. \A i, k \in Nat : GetAt(commands', i, p, k) => commands'[i].uam = commands[i + 1].uam
  BY <1>9 DEF GetAt
<1>13. NoRead(commands', p)
  <2> SUFFICES ASSUME NEW i \in Nat, ZrevAt(commands', i, p) PROVE FALSE
    BY DEF NoRead
  <2>1. i + 1 \in Nat /\ ZrevAt(commands, i + 1, p)
    BY <1>8, <1>9, <1>10 DEF ZrevAt
  <2>2. QED
    BY <1>7, <2>1 DEF NoRead
<1>14. QED
  BY <1>3, <1>5, <1>6, <1>11, <1>12, <1>13

LEMMA LearnsPolls ==
  ASSUME TypeInv, PollsOK, NEW p \in Poll, NEW status \in Known, Learns(p, status)
  PROVE  PollsOK'
<1> SUFFICES ASSUME NEW q \in Poll PROVE PollOK(commands', Len(replies'), q, poll'[q])
  BY DEF PollsOK
<1>1. CASE q # p
  <2>1. Kept4(q) /\ Moved(commands, commands', 1, q) /\ Len(replies') = Len(replies) - 1
    BY <1>1, LearnsMoved DEF Learns, OthersKept, Kept4
  <2>2. QED
    BY <2>1, KeptOK
<1>2. CASE q = p
  <2>1. /\ poll[p].at = "getting" /\ Len(poll[p].got) < Len(poll[p].ids)
        /\ GetsOf(commands, p, poll[p].ids, Len(poll[p].got))
        /\ GetAt(commands, 1, p, Len(poll[p].got) + 1)
        /\ NoRead(commands', p)
        /\ \A i, k \in Nat : GetAt(commands', i, p, k) <=> i >= 1 /\ GetAt(commands, i + 1, p, k)
        /\ \A i, k \in Nat : GetAt(commands', i, p, k) => commands'[i].uam = commands[i + 1].uam
    BY LearnsOwn
  <2>2. PICK g \in Nat, n \in Nat : g = Len(poll[p].got) /\ n = Len(poll[p].ids) /\ g < n
    BY <2>1, Lengths
  <2>3. /\ poll'[p].ids = poll[p].ids /\ Len(poll'[p].got) = g + 1
        /\ poll'[p].at = IF g + 1 = n THEN "ready" ELSE "getting"
    <3>1. poll[p].got \in Seq(Known)
      BY DEF TypeInv, PollsTyped, InProgress
    <3>2. Len(Append(poll[p].got, status)) = g + 1
      BY <2>2, <3>1, AppendFacts
    <3>3. QED
      BY <2>1, <2>2, <3>2 DEF Learns
  <2>4. ASSUME NEW i \in Nat, NEW k \in Nat, GetAt(commands', i, p, k)
        PROVE  k \in (g + 2) .. n /\ commands'[i].uam = poll[p].ids[k]
    <3>1. i + 1 \in Nat /\ 1 < i + 1 /\ GetAt(commands, i + 1, p, k) /\ 1 \in Nat /\ g + 1 \in Nat
      BY <2>1, <2>4
    <3>2. k \in (g + 1) .. n /\ commands[i + 1].uam = poll[p].ids[k]
      BY <2>1, <2>2, <3>1 DEF GetsOf
    <3>3. g + 1 < k
      BY <2>1, <2>2, <3>1 DEF GetsOf
    <3>4. QED
      BY <2>1, <2>4, <3>2, <3>3
  <2>5. CASE g + 1 = n
    <3>1. NoGets(commands', p)
      BY <2>4, <2>5 DEF NoGets
    <3>2. QED
      BY <1>2, <2>1, <2>2, <2>3, <2>5, <3>1 DEF PollOK
  <2>6. CASE g + 1 # n
    <3>1. g + 1 < n /\ (g + 1) + 1 = g + 2
      BY <2>2, <2>6
    <3>2. ASSUME NEW k \in (g + 2) .. n PROVE \E i \in Nat : GetAt(commands', i, p, k)
      <4>1. k \in (g + 1) .. n /\ k \in Nat /\ k # g + 1
        BY <3>2
      <4>2. PICK i \in Nat : GetAt(commands, i, p, k)
        BY <2>1, <2>2, <4>1 DEF GetsOf
      <4>3. i # 1
        BY <2>1, <2>2, <4>1, <4>2 DEF GetAt
      <4>4. i - 1 \in Nat /\ i - 1 >= 1 /\ (i - 1) + 1 = i
        BY <4>2, <4>3 DEF GetAt
      <4>5. GetAt(commands', i - 1, p, k)
        BY <2>1, <4>1, <4>2, <4>4
      <4>6. QED
        BY <4>4, <4>5
    <3>3. ASSUME NEW i \in Nat, NEW j \in Nat, NEW k \in Nat, NEW m \in Nat,
                 GetAt(commands', i, p, k), GetAt(commands', j, p, m), i < j
          PROVE  k < m
      <4>1. /\ i + 1 \in Nat /\ j + 1 \in Nat /\ i + 1 < j + 1
            /\ GetAt(commands, i + 1, p, k) /\ GetAt(commands, j + 1, p, m)
        BY <2>1, <3>3
      <4>2. QED
        BY <2>1, <4>1 DEF GetsOf
    <3>4. GetsOf(commands', p, poll[p].ids, g + 1)
      BY <2>2, <2>4, <3>1, <3>2, <3>3 DEF GetsOf
    <3>5. QED
      BY <1>2, <2>1, <2>2, <2>3, <2>6, <3>1, <3>4 DEF PollOK
  <2>7. QED
    BY <2>5, <2>6
<1>3. QED
  BY <1>1, <1>2

LEMMA EndsPolls ==
  ASSUME TypeInv, PollsOK, NEW p \in Poll, Ends(p) PROVE PollsOK'
<1> SUFFICES ASSUME NEW q \in Poll PROVE PollOK(commands, Len(replies), q, poll'[q])
  BY DEF PollsOK, Ends
<1>1. PollOK(commands, Len(replies), q, poll[q])
  BY DEF PollsOK
<1>2. CASE q # p
  <2>1. /\ poll'[q].at = poll[q].at /\ poll'[q].ids = poll[q].ids
        /\ poll'[q].got = poll[q].got /\ (poll[q].before = {} => poll'[q].before = {})
    BY <1>2 DEF Ends
  <2>2. QED
    BY <1>1, <2>1 DEF PollOK
<1>3. CASE q = p
  <2>1. NoGets(commands, p) /\ NoRead(commands, p)
    BY <1>1, <1>3 DEF PollOK, Ends, At
  <2>2. /\ poll'[p].at = "idle" /\ poll'[p].ids = << >> /\ poll'[p].got = << >>
        /\ poll'[p].before = {}
    BY DEF Ends, Idle
  <2>3. QED
    BY <1>3, <2>1, <2>2 DEF PollOK
<1>4. QED
  BY <1>2, <1>3

LEMMA StepPolls == ASSUME TypeInv, PollsOK, StepKind PROVE PollsOK'
BY QuietPolls, AnsweredPolls, WritesPolls, HandlesPolls, StartsPolls, ReadsPolls, AsksPolls,
   LearnsPolls, EndsPolls DEF StepKind

LEMMA InitPolls == Init => PollsOK
<1> SUFFICES ASSUME Init, NEW p \in Poll PROVE PollOK(commands, Len(replies), p, poll[p])
  BY DEF PollsOK
<1>1. /\ commands = << >> /\ Len(commands) = 0 /\ poll[p] = Idle
  BY DEF Init
<1>2. NoGets(commands, p) /\ NoRead(commands, p)
  BY <1>1 DEF NoGets, NoRead, GetAt, ZrevAt
<1>3. QED
  BY <1>1, <1>2 DEF PollOK, Idle

-----------------------------------------------------------------------------
(* Every action keeps the types, and is of one of the kinds *)

LEMMA ScoredKept ==
  ASSUME StoreOK, NEW u, Queued' \subseteq Queued \cup {u} PROVE IsFiniteSet(Queued')
BY FS_AddElement, FS_Subset DEF StoreOK

LEMMA StartPollStep ==
  ASSUME TypeInv, NEW p \in Poll, StartPoll(p) PROVE TypeInv' /\ Starts(p)
<1> DEFINE w == <<[op |-> "zrevrange", poll |-> p]>>
<1>1. PollsTyped' /\ OthersKept(p) /\ poll'[p].at = "reading" /\ poll'[p].ids = poll[p].ids
      /\ poll'[p].got = poll[p].got /\ poll'[p].before = poll[p].before
  BY StartTyped DEF TypeInv
<1>2. w \in Seq(Command) /\ \A k \in 1 .. Len(w) : w[k].op \notin {"keys", "del"}
  BY DEF Command
<1>3. Write(w) /\ UNCHANGED <<store, half, replies, landed, shown, stored, gone, statuses>> /\ At(p, "idle")
  BY DEF StartPoll, counts
<1>4. ConnOK' /\ Longer(commands, w, commands')
  <2> HIDE DEF w
  <2>1. QED
    BY <1>2, <1>3, ConnWritten DEF TypeInv
<1>5. StoreOK' /\ HistoryOK' /\ ShownOK'
  BY <1>3 DEF TypeInv, StoreOK, HistoryOK, ShownOK, store, Queued
<1>6. QED
  BY <1>1, <1>3, <1>4, <1>5 DEF TypeInv, Starts

\* The handlers that write a command of their own.
LEMMA WrittenStep ==
  ASSUME TypeInv, NEW c \in Command, c.op \in {"zrem", "delQueue"}, Write(<<c>>),
         UNCHANGED <<store, half, replies, poll, shown, stored, gone, statuses>>,
         landed' \subseteq Uam
  PROVE  TypeInv' /\ Writes(<<c>>)
<1> DEFINE w == <<c>>
<1>1. w \in Seq(Command) /\ \A k \in 1 .. Len(w) : w[k] = c
  OBVIOUS
<1>2. Write(w)
  OBVIOUS
<1> HIDE DEF w
<1>3. \A k \in 1 .. Len(w) : w[k].op \in {"zrem", "delQueue"}
  BY <1>1
<1>4. /\ \A k \in 1 .. Len(w) : w[k].op \notin {"keys", "del"}
      /\ \A k \in 1 .. Len(w) : w[k].op \notin {"zrevrange", "get"}
  BY <1>3
<1>5. ConnOK' /\ Longer(commands, w, commands')
  BY <1>1, <1>2, <1>4, ConnWritten DEF TypeInv
<1>6. StoreOK' /\ HistoryOK' /\ ShownOK' /\ PollsTyped'
  BY DEF TypeInv, StoreOK, HistoryOK, ShownOK, PollsTyped, store, Queued
<1>7. Writes(w)
  BY <1>1, <1>4, <1>5 DEF Writes, Foreign, AllKept, Kept4
<1>8. QED
  BY <1>5, <1>6, <1>7 DEF TypeInv, w

LEMMA RegisterStep ==
  ASSUME TypeInv, NEW u \in Uam, RegisterLanded(u)
  PROVE  TypeInv' /\ Writes(<<[op |-> "zrem", uam |-> u]>>)
<1>1. [op |-> "zrem", uam |-> u] \in Command
  BY DEF Command
<1>2. QED
  BY <1>1, WrittenStep DEF RegisterLanded, TypeInv, ShownOK

LEMMA ResetStep ==
  ASSUME TypeInv, TriggerAutoReset PROVE TypeInv' /\ Writes(<<[op |-> "delQueue"]>>)
<1>1. [op |-> "delQueue"] \in Command
  BY DEF Command
<1>2. QED
  BY <1>1, WrittenStep DEF TriggerAutoReset, TypeInv, ShownOK

LEMMA ZaddStep ==
  ASSUME TypeInv, NEW u \in Uam, NEW s \in Status, Zadd(u, s) PROVE TypeInv' /\ Quiet
<1>1. PollsTyped' /\ Quiet
  BY RefreshedTyped DEF TypeInv, Zadd, Quiet, AllKept, Kept4, conn
<1>2. ConnOK'
  BY ConnKept DEF TypeInv, Zadd, conn
<1>3. StoreOK'
  <2>1. scored' \in [Uam -> Known] /\ detail' \in [Uam -> Known]
    BY DEF TypeInv, StoreOK, Zadd, Known
  <2>2. half' \in Seq(Entry) /\ Len(half') <= 1
    <3>1. [uam |-> u, status |-> s] \in Entry
      BY DEF Entry
    <3>2. QED
      BY <3>1 DEF Zadd
  <2>3. Queued' \subseteq Queued \cup {u}
    BY DEF TypeInv, StoreOK, Zadd, Queued
  <2>4. QED
    BY <2>1, <2>2, <2>3, ScoredKept DEF StoreOK, TypeInv
<1>4. HistoryOK'
  <2>1. statuses \in Nat /\ statuses' = statuses + 1 /\ gone' = gone
        /\ stored' = [stored EXCEPT ![u] = statuses + 1]
        /\ stored \in [Uam -> 0 .. statuses] /\ gone \in [Uam -> 0 .. statuses]
    BY DEF TypeInv, HistoryOK, Zadd
  <2>2. \A x \in 0 .. statuses : x \in 0 .. (statuses + 1)
    BY <2>1
  <2>3. statuses + 1 \in Nat /\ statuses + 1 \in 0 .. (statuses + 1)
    BY <2>1
  <2>4. QED
    BY <2>1, <2>2, <2>3 DEF HistoryOK
<1>5. ShownOK'
  BY DEF TypeInv, ShownOK, Zadd
<1>6. QED
  BY <1>1, <1>2, <1>3, <1>4, <1>5 DEF TypeInv

LEMMA SetStep == ASSUME TypeInv, Set PROVE TypeInv' /\ Quiet
<1>1. half[1] \in Entry
  <2>1. half \in Seq(Entry) /\ half # << >>
    BY DEF TypeInv, StoreOK, Set
  <2>2. QED
    BY <2>1
<1>2. half[1].uam \in Uam /\ half[1].status \in Status
  BY <1>1 DEF Entry
<1>3. PollsTyped' /\ Quiet
  BY <1>2, RefreshedTyped DEF TypeInv, Set, Quiet, AllKept, Kept4, conn
<1>4. ConnOK'
  BY ConnKept DEF TypeInv, Set, conn, counts
<1>5. StoreOK'
  BY <1>2 DEF TypeInv, StoreOK, Set, Known, Queued
<1>6. HistoryOK' /\ ShownOK'
  BY DEF TypeInv, HistoryOK, ShownOK, Set, counts
<1>7. QED
  BY <1>3, <1>4, <1>5, <1>6 DEF TypeInv

LEMMA StoreStep ==
  ASSUME TypeInv, NEW u \in Uam, LandZrem(u) \/ DetailExpire(u) PROVE TypeInv' /\ Quiet
<1>1. Quiet /\ PollsTyped' /\ HistoryOK' /\ ShownOK'
  BY DEF TypeInv, HistoryOK, ShownOK, PollsTyped, LandZrem, DetailExpire, counts, conn, Quiet, AllKept, Kept4
<1>2. ConnOK'
  BY ConnKept DEF TypeInv, LandZrem, DetailExpire, conn, counts
<1>3. scored' \in [Uam -> Known] /\ detail' \in [Uam -> Known] /\ UNCHANGED half
  BY DEF TypeInv, StoreOK, LandZrem, DetailExpire, Known
<1>4. Queued' \subseteq Queued \cup {u}
  BY DEF TypeInv, StoreOK, LandZrem, DetailExpire, Queued
<1>5. QED
  BY <1>1, <1>2, <1>3, <1>4, ScoredKept DEF TypeInv, StoreOK

LEMMA EmitStep == ASSUME TypeInv, NEW p \in Poll, Emit(p) PROVE TypeInv' /\ Ends(p)
<1>1. PollsTyped' /\ Ends(p)
  BY EmitTyped DEF TypeInv, Emit, Ends, conn
<1>2. ConnOK'
  BY ConnKept DEF TypeInv, Emit, conn, counts
<1>3. StoreOK' /\ HistoryOK'
  BY DEF TypeInv, StoreOK, HistoryOK, Emit, store, Queued, counts
<1>4. ShownOK'
  BY DetailsFacts DEF TypeInv, ShownOK, Emit
<1>5. QED
  BY <1>1, <1>2, <1>3, <1>4 DEF TypeInv

-----------------------------------------------------------------------------
(* Redis *)

\* The command that is executed next.
LEMMA NextCommand ==
  ASSUME TypeInv, Len(replies) < Len(commands)
  PROVE  /\ Len(replies) + 1 \in 1 .. Len(commands) /\ commands[Len(replies) + 1] \in Command
<1>1. Len(replies) + 1 \in 1 .. Len(commands) /\ commands \in Seq(Command)
  BY Lengths DEF TypeInv, ConnOK
<1>2. QED
  BY <1>1

LEMMA ExecuteStep ==
  ASSUME TypeInv, Execute
  PROVE  /\ TypeInv'
         /\ \/ Answered
            \/ \E p \in Poll, ids \in TopUams : ids \in Seq(Uam) /\ Reads(p, ids)
<1> DEFINE c == commands[Len(replies) + 1]
<1>1. /\ Len(replies) < Len(commands) /\ UNCHANGED <<half, commands, landed, shown, stored, gone, counts>>
      /\ Zrevrange(c) \/ Get(c) \/ Zrem(c) \/ Del(c) \/ DelQueue(c) \/ Keys(c)
  BY DEF Execute
<1>2. c \in Command /\ Len(replies) + 1 \in 1 .. Len(commands)
  BY <1>1, NextCommand
<1>3. ShownOK' /\ HistoryOK' /\ statuses' = statuses
  BY <1>1 DEF TypeInv, ShownOK, HistoryOK, counts
<1>4. ASSUME NEW v \in Value, Reply(v), Answers(c, v, statuses)
      PROVE  /\ ConnOK' /\ Len(replies') = Len(replies) + 1
             /\ \A i \in 1 .. Len(replies) : replies'[i] = replies[i]
             /\ replies'[Len(replies) + 1] = v
  BY <1>1, <1>3, <1>4, ConnExecuted DEF TypeInv
<1> HIDE DEF c
<1>5. CASE Zrevrange(c)
  <2>1. PICK ids \in TopUams : Reply(ids)
    BY <1>5 DEF Zrevrange
  <2>2. ids \in Seq(Uam) /\ Len(ids) <= Limit
    BY <2>1, TopFacts DEF TypeInv
  <2>3. ids \in Value /\ Answers(c, ids, statuses)
    BY <1>5, <2>2 DEF Value, Answers, Zrevrange
  <2>4. /\ PollsTyped' /\ c.poll \in Poll /\ OthersKept(c.poll)
        /\ poll'[c.poll].at = "read" /\ poll'[c.poll].ids = poll[c.poll].ids
        /\ poll'[c.poll].got = poll[c.poll].got
        /\ poll'[c.poll].before = {q \in Poll : HasRead(q)}
    BY <1>2, <1>5, ReadTyped DEF TypeInv
  <2>5. StoreOK'
    BY <1>1, <1>5 DEF TypeInv, StoreOK, Zrevrange, store, Queued
  <2>6. ZrevAt(commands, Len(replies) + 1, c.poll)
    BY <1>2, <1>5 DEF ZrevAt, Zrevrange, c
  <2>7. Reads(c.poll, ids)
    BY <1>1, <1>4, <2>1, <2>3, <2>4, <2>6 DEF Reads
  <2>8. TypeInv'
    BY <1>3, <1>4, <2>1, <2>3, <2>4, <2>5 DEF TypeInv
  <2>9. QED
    BY <2>2, <2>4, <2>7, <2>8
<1>6. CASE Get(c) \/ Zrem(c) \/ Del(c) \/ DelQueue(c) \/ Keys(c)
  <2>1. c.op # "zrevrange" /\ UNCHANGED poll
    BY <1>6 DEF Get, Zrem, Del, DelQueue, Keys
  <2>2. \E v \in Value : Reply(v) /\ Answers(c, v, statuses)
    <3>1. statuses \in Nat /\ detail \in [Uam -> Known] /\ c.op = "get" => c.uam \in Uam
      BY <1>2, CommandFacts DEF TypeInv, HistoryOK, StoreOK
    <3>2. CASE Get(c)
      <4>1. detail[c.uam] \in Known
        BY <1>2, <3>2, CommandFacts DEF Get, TypeInv, StoreOK
      <4>2. QED
        BY <3>2, <4>1 DEF Get, Answers, Value
    <3>3. CASE Zrem(c) \/ DelQueue(c)
      <4>1. statuses \in Nat /\ statuses <= statuses
        BY DEF TypeInv, HistoryOK
      <4>2. QED
        BY <3>3, <4>1 DEF Zrem, DelQueue, Answers, Value
    <3>4. CASE Del(c)
      <4>1. "OK" \in Value
        BY DEF Value
      <4>2. c.op = "del" /\ Reply("OK")
        BY <3>4 DEF Del
      <4>3. Answers(c, "OK", statuses)
        BY <4>2 DEF Answers
      <4>4. QED
        BY <4>1, <4>2, <4>3
    <3>5. CASE Keys(c)
      <4>1. {u \in Uam : detail[u] # NoStatus} \in SUBSET Uam
        OBVIOUS
      <4>2. QED
        BY <3>5, <4>1 DEF Keys, Answers, Value
    <3>6. QED
      BY <1>6, <3>2, <3>3, <3>4, <3>5
  <2>3. /\ ConnOK' /\ Len(replies') = Len(replies) + 1
        /\ \A i \in 1 .. Len(replies) : replies'[i] = replies[i]
    BY <1>4, <2>2
  <2>4. StoreOK'
    <3>1. scored' \in [Uam -> Known] /\ detail' \in [Uam -> Known] /\ UNCHANGED half
      <4>1. scored \in [Uam -> Known] /\ detail \in [Uam -> Known] /\ NoStatus \in Known
        BY DEF TypeInv, StoreOK, Known
      <4>2. QED
        BY <1>1, <1>6, <4>1 DEF Get, Zrem, Del, DelQueue, Keys, store
    <3>2. Queued' \subseteq Queued
      BY <1>6 DEF TypeInv, StoreOK, Queued, Get, Zrem, Del, DelQueue, Keys, store
    <3>3. QED
      BY <1>1, <3>1, <3>2, FS_Subset DEF TypeInv, StoreOK
  <2>5. PollsTyped'
    BY <2>1 DEF TypeInv, PollsTyped
  <2>6. Answered
    BY <1>1, <2>1, <2>3 DEF Answered, AllKept, Kept4, c
  <2>7. QED
    BY <1>3, <2>3, <2>4, <2>5, <2>6 DEF TypeInv
<1>7. QED
  BY <1>1, <1>5, <1>6 DEF c

-----------------------------------------------------------------------------
(* Replies *)

LEMMA QueueReadStep ==
  ASSUME TypeInv, PollsOK, replies # << >>, replies' = Tail(replies),
         UNCHANGED <<store, half, stored, counts>>, QueueRead(Head(commands), Head(replies))
  PROVE  /\ TypeInv' /\ Head(commands).poll \in Poll /\ Head(replies) \in Seq(Uam)
         /\ Asks(Head(commands).poll, Head(replies))
         /\ poll'[Head(commands).poll].fresh = poll[Head(commands).poll].fresh
         /\ poll'[Head(commands).poll].late = poll[Head(commands).poll].late
<1> DEFINE c == Head(commands)
           ids == Head(replies)
           p == c.poll
<1>1. /\ c = commands[1] /\ ids = replies[1] /\ c \in Command /\ Answers(c, ids, statuses)
      /\ Len(commands) \in Nat /\ Len(commands) >= 1 /\ Len(replies) \in Nat /\ 1 <= Len(replies)
  BY HeadOK DEF TypeInv
<1>2. c.op = "zrevrange" /\ p \in Poll
  BY <1>1, CommandFacts DEF QueueRead
<1>3. ids \in Seq(Uam) /\ Len(ids) <= Limit /\ Len(ids) \in Nat
  BY <1>1, <1>2 DEF Answers
<1>4. ZrevAt(commands, 1, p)
  BY <1>1, <1>2 DEF ZrevAt
<1>5. poll[p].got = << >>
  <2>1. PollOK(commands, Len(replies), p, poll[p])
        /\ poll[p].at \in {"idle", "reading", "read", "getting", "ready"}
    BY <1>2 DEF PollsOK, TypeInv, PollsTyped, InProgress
  <2>2. 1 \in Nat
    OBVIOUS
  <2>3. QED
    BY <1>1, <1>4, <2>1, <2>2, WhoseZrev
<1>6. Len(poll[p].got) <= Len(ids)
  BY <1>3, <1>5
<1>7. QueueRead(c, ids)
  OBVIOUS
<1> HIDE DEF ids
<1>8. /\ PollsTyped' /\ OthersKept(p)
      /\ poll'[p].at = IF ids = << >> THEN "ready" ELSE "getting"
      /\ poll'[p].ids = ids /\ poll'[p].got = poll[p].got
      /\ poll'[p].before = poll[p].before /\ poll'[p].fresh = poll[p].fresh
      /\ poll'[p].late = poll[p].late
  <2>1. PollsTyped
    BY DEF TypeInv
  <2>2. QED
    BY <1>1, <1>3, <1>6, <1>7, <2>1, QueueReadTyped
<1> DEFINE w == GetsFor(p, ids)
<1>9. Handled(w) /\ UNCHANGED <<landed, gone, shown>>
  BY <1>7 DEF QueueRead, GetsFor
<1>10. w \in Seq(Command)
  <2>1. \A i \in 1 .. Len(ids) : [op |-> "get", poll |-> p, nth |-> i, uam |-> ids[i]] \in Command
    <3> SUFFICES ASSUME NEW i \in 1 .. Len(ids)
                 PROVE  [op |-> "get", poll |-> p, nth |-> i, uam |-> ids[i]] \in Command
      OBVIOUS
    <3>1. i \in Nat /\ ids[i] \in Uam
      BY <1>3
    <3> HIDE DEF p
    <3>2. QED
      BY <1>2, <3>1 DEF Command
  <2>2. DOMAIN ids = 1 .. Len(ids)
    BY <1>3
  <2>3. QED
    BY <1>3, <2>1, <2>2 DEF GetsFor
<1>11. \A k \in 1 .. Len(w) : w[k].op \notin {"keys", "del"}
  BY DEF GetsFor
<1> HIDE DEF w
<1>12. ConnOK' /\ Len(replies') = Len(replies) - 1
       /\ (\A i \in 1 .. (Len(replies) - 1) : replies'[i] = replies[i + 1])
       /\ Shifted(commands, w, commands')
  BY <1>9, <1>10, <1>11, ConnHandled DEF TypeInv, counts
<1>13. StoreOK' /\ HistoryOK' /\ ShownOK'
  BY <1>9 DEF TypeInv, StoreOK, HistoryOK, ShownOK, store, counts, Queued
<1>14. Asks(p, ids)
  BY <1>1, <1>3, <1>4, <1>8, <1>12 DEF Asks, w
<1>15. QED
  BY <1>2, <1>3, <1>8, <1>12, <1>13, <1>14 DEF TypeInv, ids

LEMMA DetailReadStep ==
  ASSUME TypeInv, PollsOK, replies # << >>, replies' = Tail(replies),
         UNCHANGED <<store, half, stored, counts>>, DetailRead(Head(commands), Head(replies))
  PROVE  /\ TypeInv' /\ Head(commands).poll \in Poll /\ Head(replies) \in Known
         /\ Learns(Head(commands).poll, Head(replies))
         /\ poll'[Head(commands).poll].fresh = poll[Head(commands).poll].fresh
         /\ poll'[Head(commands).poll].late = poll[Head(commands).poll].late
<1> DEFINE c == Head(commands)
           v == Head(replies)
           p == c.poll
<1>1. /\ c = commands[1] /\ v = replies[1] /\ c \in Command /\ Answers(c, v, statuses)
      /\ Len(commands) \in Nat /\ Len(commands) >= 1 /\ Len(replies) \in Nat /\ 1 <= Len(replies)
  BY HeadOK DEF TypeInv
<1>2. c.op = "get" /\ p \in Poll /\ c.nth \in Nat
  BY <1>1, CommandFacts DEF DetailRead
<1>3. v \in Known
  BY <1>1, <1>2 DEF Answers
<1>4. GetAt(commands, 1, p, c.nth)
  BY <1>1, <1>2 DEF GetAt
<1>5. Len(poll[p].got) < Len(poll[p].ids)
  <2>1. PollOK(commands, Len(replies), p, poll[p])
        /\ poll[p].at \in {"idle", "reading", "read", "getting", "ready"}
    BY <1>2 DEF PollsOK, TypeInv, PollsTyped, InProgress
  <2>2. 1 \in Nat
    OBVIOUS
  <2>3. QED
    BY <1>1, <1>2, <1>4, <2>1, <2>2, WhoseGet
<1>6. Got(p, v) /\ Handled(<< >>) /\ UNCHANGED <<landed, gone, shown>>
  BY DEF DetailRead
<1> HIDE DEF v
<1>7. /\ PollsTyped' /\ OthersKept(p)
      /\ poll'[p].at = IF Len(poll[p].got) + 1 = Len(poll[p].ids) THEN "ready" ELSE poll[p].at
      /\ poll'[p].ids = poll[p].ids /\ poll'[p].got = Append(poll[p].got, v)
      /\ poll'[p].before = poll[p].before /\ poll'[p].fresh = poll[p].fresh
      /\ poll'[p].late = poll[p].late
  BY <1>2, <1>3, <1>5, <1>6, GotTyped DEF TypeInv
<1> DEFINE w == << >>
<1>8. w \in Seq(Command) /\ (\A k \in 1 .. Len(w) : w[k].op \notin {"keys", "del"}) /\ Handled(w)
  BY <1>6
<1> HIDE DEF w
<1>9. ConnOK' /\ Len(replies') = Len(replies) - 1
      /\ (\A i \in 1 .. (Len(replies) - 1) : replies'[i] = replies[i + 1])
      /\ Shifted(commands, w, commands')
  BY <1>8, ConnHandled DEF TypeInv, counts
<1>10. StoreOK' /\ HistoryOK' /\ ShownOK'
  BY <1>6 DEF TypeInv, StoreOK, HistoryOK, ShownOK, store, counts, Queued
<1>11. Learns(p, v)
  BY <1>1, <1>2, <1>7, <1>9 DEF Learns, Of, w
<1>12. QED
  BY <1>2, <1>3, <1>7, <1>9, <1>10, <1>11 DEF TypeInv, v

LEMMA AnnouncedFacts ==
  ASSUME HistoryOK, NEW us, NEW n \in 0 .. statuses
  PROVE  /\ Announced(us, n) \in [Uam -> 0 .. statuses]
         /\ \A u \in us \cap Uam : Announced(us, n)[u] = IF n > gone[u] THEN n ELSE gone[u]
         /\ \A u \in Uam \ us : Announced(us, n)[u] = gone[u]
BY DEF HistoryOK, Announced

\* The handlers of the other replies.
LEMMA HandledStep ==
  ASSUME TypeInv, replies # << >>, replies' = Tail(replies),
         UNCHANGED <<store, half, stored, counts>>,
         Head(commands).op \notin {"zrevrange", "get"},
         NEW w \in Seq(Command), Handled(w), Foreign(w),
         \A k \in 1 .. Len(w) : w[k].op \in {"keys", "del"} => w[k].since <= statuses,
         poll' = poll \/ poll' = Overtaken,
         gone' = gone \/ \E us, n : n \in 0 .. statuses /\ gone' = Announced(us, n),
         landed' \subseteq landed, shown' = shown \/ shown' = << >>
  PROVE  TypeInv' /\ Handles(w)
<1>1. ConnOK' /\ Len(replies') = Len(replies) - 1
      /\ (\A i \in 1 .. (Len(replies) - 1) : replies'[i] = replies[i + 1])
      /\ Shifted(commands, w, commands')
  BY ConnHandled DEF TypeInv, counts
<1>2. PollsTyped' /\ AllKept
  BY OvertakenTyped DEF TypeInv, PollsTyped, AllKept, Kept4
<1>3. StoreOK'
  BY DEF TypeInv, StoreOK, store, Queued
<1>4. HistoryOK'
  BY AnnouncedFacts DEF TypeInv, HistoryOK, counts
<1>5. ShownOK'
  <2>1. << >> \in Seq(Entry) /\ Len(<< >>) <= Limit
    BY QueueStreamAssumption
  <2>2. shown' \in Seq(Entry) /\ Len(shown') <= Limit
    BY <2>1 DEF TypeInv, ShownOK
  <2>3. QED
    BY <2>2 DEF TypeInv, ShownOK
<1>6. Foreign(<<commands[1]>>)
  <2>1. Head(commands) = commands[1]
    BY HeadOK DEF TypeInv
  <2>2. \A k \in 1 .. Len(<<commands[1]>>) : <<commands[1]>>[k] = commands[1]
    OBVIOUS
  <2>3. QED
    BY <2>1, <2>2 DEF Foreign
<1>7. Handles(w)
  BY <1>1, <1>2, <1>6 DEF Handles
<1>8. QED
  BY <1>1, <1>2, <1>3, <1>4, <1>5, <1>7 DEF TypeInv

LEMMA OneFacts ==
  ASSUME NEW c \in Command, c.op \notin {"zrevrange", "get"}
  PROVE  <<c>> \in Seq(Command) /\ Foreign(<<c>>) /\ \A k \in 1 .. Len(<<c>>) : <<c>>[k] = c
<1>1. \A k \in 1 .. Len(<<c>>) : <<c>>[k] = c
  OBVIOUS
<1>2. QED
  BY <1>1 DEF Foreign

\* What the handlers of the other replies write.
Follows(c, v, w) ==
  \/ c.op = "zrem" /\ w = <<[op |-> "del", for |-> "landing", uams |-> {c.uam}, since |-> v]>>
  \/ c.op = "delQueue" /\ w = <<[op |-> "keys", since |-> v]>>
  \/ c.op = "keys" /\ v # {} /\ w = <<[op |-> "del", for |-> "reset", uams |-> v, since |-> c.since]>>
  \/ c.op \in {"keys", "del"} /\ w = << >>

LEMMA OtherReplyStep ==
  ASSUME TypeInv, replies # << >>, replies' = Tail(replies),
         UNCHANGED <<store, half, stored, counts>>,
         LET c == Head(commands)
             v == Head(replies)
         IN Zremmed(c, v) \/ LandingDeleted(c) \/ QueueDeleted(c, v) \/ KeysListed(c, v) \/ KeysDeleted(c)
  PROVE  /\ TypeInv'
         /\ \E w \in Seq(Command) : Follows(Head(commands), Head(replies), w) /\ Handled(w) /\ Handles(w)
<1> DEFINE c == Head(commands)
           v == Head(replies)
<1>1. /\ c \in Command /\ Answers(c, v, statuses) /\ statuses \in Nat
      /\ c.op \in {"keys", "del"} => c.since <= statuses
  BY HeadOK DEF TypeInv, HistoryOK
<1>2. Zremmed(c, v) \/ LandingDeleted(c) \/ QueueDeleted(c, v) \/ KeysListed(c, v) \/ KeysDeleted(c)
  OBVIOUS
<1>3. c.op \in {"keys", "del"} => c.since \in Nat /\ c.since \in 0 .. statuses
  BY <1>1, CommandFacts
<1>4. << >> \in Seq(Command) /\ Foreign(<< >>)
      /\ \A k \in 1 .. Len(<< >>) : <<>>[k].op \in {"keys", "del"} => <<>>[k].since <= statuses
  BY DEF Foreign
<1>5. landed \subseteq landed /\ {} \subseteq landed
  OBVIOUS
<1>6. ASSUME NEW x \in Command, x.op \notin {"zrevrange", "get"},
             x.op \in {"keys", "del"} => x.since <= statuses
      PROVE  /\ <<x>> \in Seq(Command) /\ Foreign(<<x>>)
             /\ \A k \in 1 .. Len(<<x>>) :
                  <<x>>[k].op \in {"keys", "del"} => <<x>>[k].since <= statuses
  BY <1>6, OneFacts
<1> HIDE DEF c, v
<1>7. ASSUME NEW w \in Seq(Command), Handled(w), Foreign(w), Follows(c, v, w),
             \A k \in 1 .. Len(w) : w[k].op \in {"keys", "del"} => w[k].since <= statuses,
             c.op \notin {"zrevrange", "get"},
             poll' = poll \/ poll' = Overtaken,
             gone' = gone \/ \E us, n : n \in 0 .. statuses /\ gone' = Announced(us, n),
             landed' \subseteq landed, shown' = shown \/ shown' = << >>
      PROVE  /\ TypeInv'
             /\ \E x \in Seq(Command) : Follows(c, v, x) /\ Handled(x) /\ Handles(x)
  <2>1. Head(commands).op \notin {"zrevrange", "get"}
    BY <1>7 DEF c
  <2>2. TypeInv' /\ Handles(w)
    BY <1>7, <2>1, HandledStep
  <2>3. QED
    BY <1>7, <2>2
<1>8. CASE Zremmed(c, v)
  <2> DEFINE x == [op |-> "del", for |-> "landing", uams |-> {c.uam}, since |-> v]
  <2>1. c.uam \in Uam /\ v \in Nat /\ v <= statuses /\ c.op = "zrem"
    BY <1>1, <1>8, CommandFacts DEF Zremmed, Answers
  <2>2. x \in Command /\ x.op = "del" /\ x.since <= statuses
    BY <2>1 DEF Command
  <2>3. Handled(<<x>>) /\ UNCHANGED <<poll, landed, gone, shown>> /\ Follows(c, v, <<x>>)
    BY <1>8, <2>1 DEF Zremmed, Follows
  <2> HIDE DEF x
  <2>4. QED
    BY <1>5, <1>6, <1>7, <2>1, <2>2, <2>3 DEF c, v
<1>9. CASE QueueDeleted(c, v)
  <2> DEFINE x == [op |-> "keys", since |-> v]
  <2>1. v \in Nat /\ v <= statuses /\ c.op = "delQueue"
    BY <1>1, <1>9 DEF QueueDeleted, Answers
  <2>2. x \in Command /\ x.op = "keys" /\ x.since <= statuses
    BY <2>1 DEF Command
  <2>3. Handled(<<x>>) /\ UNCHANGED <<poll, landed, gone, shown>> /\ Follows(c, v, <<x>>)
    BY <1>9, <2>1 DEF QueueDeleted, Follows
  <2> HIDE DEF x
  <2>4. QED
    BY <1>5, <1>6, <1>7, <2>1, <2>2, <2>3 DEF c, v
<1>10. CASE LandingDeleted(c)
  <2>1. c.op = "del" /\ Handled(<< >>) /\ Follows(c, v, << >>)
    BY <1>10 DEF LandingDeleted, Follows
  <2>2. QED
    BY <1>3, <1>4, <1>5, <1>7, <1>10, <2>1 DEF LandingDeleted, c, v
<1>11. CASE ResetDone(c) /\ c.op \in {"keys", "del"}
  <2>1. Handled(<< >>) /\ Follows(c, v, << >>)
    BY <1>11 DEF ResetDone, Follows
  <2>2. QED
    BY <1>3, <1>4, <1>5, <1>7, <1>11, <2>1 DEF ResetDone, c, v
<1>12. CASE c.op = "keys" /\ v # {} /\ KeysListed(c, v)
  <2> DEFINE x == [op |-> "del", for |-> "reset", uams |-> v, since |-> c.since]
  <2>1. v \subseteq Uam /\ c.since \in Nat /\ c.since <= statuses
    BY <1>1, <1>3, <1>12 DEF Answers
  <2>2. x \in Command /\ x.op = "del" /\ x.since <= statuses
    BY <2>1 DEF Command
  <2>3. Handled(<<x>>) /\ UNCHANGED <<poll, landed, gone, shown>> /\ Follows(c, v, <<x>>)
    BY <1>12 DEF KeysListed, Follows
  <2> HIDE DEF x
  <2>4. QED
    BY <1>5, <1>6, <1>7, <1>12, <2>2, <2>3 DEF c, v
<1>13. QED
  BY <1>2, <1>8, <1>9, <1>10, <1>11, <1>12 DEF KeysListed, KeysDeleted, c, v

LEMMA NextStep ==
  ASSUME TypeInv, PollsOK, [Next]_vars PROVE TypeInv' /\ StepKind
<1>1. CASE UNCHANGED vars
  <2>1. TypeInv'
    BY <1>1 DEF vars, store, conn, counts, TypeInv, StoreOK, ConnOK, HistoryOK, PollsTyped, ShownOK, Queued
  <2>2. Quiet
    BY <1>1 DEF vars, conn, Quiet, AllKept, Kept4
  <2>3. QED
    BY <2>1, <2>2 DEF StepKind
<1>2. ASSUME NEW u \in Uam, NEW s \in Status, Zadd(u, s) PROVE TypeInv' /\ StepKind
  BY <1>2, ZaddStep DEF StepKind
<1>3. ASSUME NEW u \in Uam, RegisterLanded(u) PROVE TypeInv' /\ StepKind
  BY <1>3, RegisterStep DEF StepKind, Writes
<1>4. ASSUME NEW u \in Uam, LandZrem(u) \/ DetailExpire(u) PROVE TypeInv' /\ StepKind
  BY <1>4, StoreStep DEF StepKind
<1>5. ASSUME NEW p \in Poll, StartPoll(p) PROVE TypeInv' /\ StepKind
  BY <1>5, StartPollStep DEF StepKind
<1>6. ASSUME NEW p \in Poll, Emit(p) PROVE TypeInv' /\ StepKind
  BY <1>6, EmitStep DEF StepKind
<1>7. CASE TriggerAutoReset
  BY <1>7, ResetStep DEF StepKind, Writes
<1>8. CASE Set
  BY <1>8, SetStep DEF StepKind
<1>9. CASE Execute
  BY <1>9, ExecuteStep DEF StepKind
<1>10. CASE Deliver
  BY <1>10, QueueReadStep, DetailReadStep, OtherReplyStep DEF Deliver, StepKind
<1>11. QED
  BY <1>1, <1>2, <1>3, <1>4, <1>5, <1>6, <1>7, <1>8, <1>9, <1>10 DEF Next

-----------------------------------------------------------------------------
(* The order of the polls *)

\* What a poll r of the name p and a poll s of the name q that read the queue before
\* it wait for: the commands of q come first.
BeforeOK(cs, p, r, q, s) ==
  /\ q # p
  /\ r.at \in {"read", "getting", "ready"} /\ s.at \in {"read", "getting", "ready"}
  /\ s.at = "read" => /\ r.at = "read"
                      /\ \A i, j \in Nat : ZrevAt(cs, i, q) /\ ZrevAt(cs, j, p) => i < j
  /\ s.at = "getting" /\ r.at = "getting" =>
       \A i, j, k, m \in Nat : GetAt(cs, i, q, k) /\ GetAt(cs, j, p, m) => i < j
  /\ s.at = "getting" /\ r.at = "ready" => r.ids = << >>

OrderOK == \A p \in Poll : \A q \in poll[p].before : BeforeOK(commands, p, poll[p], q, poll[q])

LEMMA BeforeFacts ==
  ASSUME TypeInv, NEW p \in Poll
  PROVE  poll[p].before \subseteq Poll /\ poll[p].at \in {"idle", "reading", "read", "getting", "ready"}
BY DEF TypeInv, PollsTyped, InProgress

\* Two polls whose commands move together stay in order.
LEMMA MovedBefore ==
  ASSUME NEW cs, NEW t, NEW d \in Nat, NEW p, NEW q, Moved(cs, t, d, p), Moved(cs, t, d, q),
         NEW r, NEW s, BeforeOK(cs, p, r, q, s), NEW r2, NEW s2,
         r2.at = r.at, r2.ids = r.ids, s2.at = s.at
  PROVE  BeforeOK(t, p, r2, q, s2)
<1>1. \A i, j \in Nat : i + d \in Nat /\ j + d \in Nat /\ (i + d < j + d => i < j)
  OBVIOUS
<1>2. s.at = "read" => \A i, j \in Nat : ZrevAt(t, i, q) /\ ZrevAt(t, j, p) => i < j
  BY <1>1 DEF BeforeOK, Moved
<1>3. s.at = "getting" /\ r.at = "getting" =>
        \A i, j, k, m \in Nat : GetAt(t, i, q, k) /\ GetAt(t, j, p, m) => i < j
  BY <1>1 DEF BeforeOK, Moved
<1>4. QED
  BY <1>2, <1>3 DEF BeforeOK

\* A step in which no poll of a pair takes part.
LEMMA PairKept ==
  ASSUME OrderOK, NEW p \in Poll, NEW q \in Poll, NEW d \in Nat, Kept4(p), Kept4(q),
         Moved(commands, commands', d, p), Moved(commands, commands', d, q),
         q \in poll'[p].before
  PROVE  BeforeOK(commands', p, poll'[p], q, poll'[q])
<1>1. BeforeOK(commands, p, poll[p], q, poll[q])
  BY DEF OrderOK, Kept4
<1>2. QED
  BY <1>1, MovedBefore DEF Kept4

LEMMA AllKeptOrder ==
  ASSUME TypeInv, TypeInv', OrderOK, AllKept, NEW d \in Nat,
         \A p \in Poll : Moved(commands, commands', d, p)
  PROVE  OrderOK'
<1> SUFFICES ASSUME NEW p \in Poll, NEW q \in poll'[p].before
             PROVE  BeforeOK(commands', p, poll'[p], q, poll'[q])
  BY DEF OrderOK
<1>1. q \in Poll
  BY BeforeFacts DEF AllKept, Kept4
<1>2. QED
  BY <1>1, PairKept DEF AllKept

LEMMA StartsOrder ==
  ASSUME TypeInv, TypeInv', PollsOK, OrderOK, NEW x \in Poll, Starts(x) PROVE OrderOK'
<1> SUFFICES ASSUME NEW p \in Poll, NEW q \in poll'[p].before
             PROVE  BeforeOK(commands', p, poll'[p], q, poll'[q])
  BY DEF OrderOK
<1>1. p # x
  BY DEF Starts, PollsOK, PollOK, At
<1>2. Kept4(p) /\ q \in poll[p].before
  BY <1>1 DEF Starts, OthersKept, Kept4
<1>3. q \in Poll /\ q # x
  BY <1>2, BeforeFacts DEF OrderOK, BeforeOK, Starts, At
<1>4. Kept4(q) /\ Moved(commands, commands', 0, p) /\ Moved(commands, commands', 0, q)
  BY <1>1, <1>3, StartsMoved DEF Starts, OthersKept, Kept4
<1>5. QED
  BY <1>2, <1>3, <1>4, PairKept

LEMMA ReadsOrder ==
  ASSUME TypeInv, TypeInv', PollsOK, OrderOK, NEW x \in Poll, NEW ids, Reads(x, ids) PROVE OrderOK'
<1> SUFFICES ASSUME NEW p \in Poll, NEW q \in poll'[p].before
             PROVE  BeforeOK(commands', p, poll'[p], q, poll'[q])
  BY DEF OrderOK
<1>1. poll[x].at = "reading" /\ UNCHANGED commands
  BY ReadsPolls DEF Reads
<1>2. CASE p = x
  <2>1. q \in Poll /\ HasRead(q) /\ q # x
    BY <1>1, <1>2 DEF Reads, HasRead
  <2>2. /\ poll'[p].at = "read" /\ poll'[q] = poll[q]
        /\ poll[q].at \in {"read", "getting", "ready"}
    BY <1>2, <2>1 DEF Reads, OthersKept, HasRead
  <2>3. ASSUME poll[q].at = "read", NEW i \in Nat, NEW j \in Nat,
               ZrevAt(commands, i, q), ZrevAt(commands, j, p)
        PROVE  i < j
    <3>1. i <= Len(replies)
      BY <2>1, <2>3 DEF PollsOK, PollOK
    <3>2. Len(replies) < j
      BY <1>1, <1>2, <2>3 DEF PollsOK, PollOK
    <3>3. QED
      BY <3>1, <3>2, Lengths
  <2>4. QED
    BY <1>1, <1>2, <2>1, <2>2, <2>3 DEF BeforeOK
<1>3. CASE p # x
  <2>1. Kept4(p) /\ q \in poll[p].before
    BY <1>3 DEF Reads, OthersKept, Kept4
  <2>2. q \in Poll /\ q # x
    BY <1>1, <2>1, BeforeFacts DEF OrderOK, BeforeOK
  <2>3. Kept4(q) /\ Moved(commands, commands', 0, p) /\ Moved(commands, commands', 0, q)
    BY <1>1, <2>2, SameMoved DEF Reads, OthersKept, Kept4
  <2>4. QED
    BY <2>1, <2>2, <2>3, PairKept
<1>4. QED
  BY <1>2, <1>3

LEMMA AsksOrder ==
  ASSUME TypeInv, TypeInv', PollsOK, OrderOK, NEW x \in Poll, NEW ids \in Seq(Uam), Asks(x, ids)
  PROVE  OrderOK'
<1> SUFFICES ASSUME NEW p \in Poll, NEW q \in poll'[p].before
             PROVE  BeforeOK(commands', p, poll'[p], q, poll'[q])
  BY DEF OrderOK
<1>1. /\ poll[x].at = "read" /\ ZrevAt(commands, 1, x)
      /\ \A i, k \in Nat : GetAt(commands', i, x, k) => k \in 1 .. Len(ids) /\ i = Len(commands) - 1 + k
  BY AsksOwn DEF Asks
<1>2. poll'[p].before = poll[p].before
  BY DEF Asks, OthersKept
<1>3. q \in Poll /\ BeforeOK(commands, p, poll[p], q, poll[q]) /\ q # p
  BY <1>2, BeforeFacts DEF OrderOK, BeforeOK
<1>4. CASE p = x
  <2>1. poll[q].at # "read"
    <3> SUFFICES ASSUME poll[q].at = "read" PROVE FALSE
      OBVIOUS
    <3>1. PICK i \in Nat : ZrevAt(commands, i, q)
      BY <1>3 DEF PollsOK, PollOK, OneRead
    <3>2. i < 1
      BY <1>1, <1>3, <1>4, <3>1 DEF BeforeOK
    <3>3. QED
      BY <3>1, <3>2 DEF ZrevAt
  <2>2. poll'[q] = poll[q] /\ poll[q].at \in {"getting", "ready"}
    BY <1>3, <1>4, <2>1 DEF Asks, OthersKept, BeforeOK
  <2>3. poll'[p].at = (IF ids = << >> THEN "ready" ELSE "getting") /\ poll'[p].ids = ids
    BY <1>4 DEF Asks
  <2>4. ASSUME NEW i \in Nat, NEW j \in Nat, NEW k \in Nat, NEW m \in Nat,
               GetAt(commands', i, q, k), GetAt(commands', j, p, m)
        PROVE  i < j
    <3>1. Moved(commands, commands', 1, q)
      BY <1>3, <1>4, AsksMoved
    <3>2. i + 1 \in 1 .. Len(commands)
      BY <2>4, <3>1 DEF Moved, GetAt
    <3>3. m \in 1 .. Len(ids) /\ j = Len(commands) - 1 + m
      BY <1>1, <1>4, <2>4
    <3>4. QED
      BY <3>2, <3>3, Lengths
  <2>5. QED
    BY <1>3, <2>2, <2>3, <2>4 DEF BeforeOK
<1>5. CASE q = x
  <2>1. poll[p].at = "read" /\ poll'[p] = poll[p]
    BY <1>1, <1>3, <1>5 DEF BeforeOK, Asks, OthersKept
  <2>2. poll'[q].at \in {"getting", "ready"}
    BY <1>5 DEF Asks
  <2>3. QED
    BY <1>3, <2>1, <2>2 DEF BeforeOK
<1>6. CASE p # x /\ q # x
  <2>1. Kept4(p) /\ Kept4(q) /\ Moved(commands, commands', 1, p) /\ Moved(commands, commands', 1, q)
    BY <1>3, <1>6, AsksMoved DEF Asks, OthersKept, Kept4
  <2>2. QED
    BY <1>3, <2>1, PairKept
<1>7. QED
  BY <1>4, <1>5, <1>6

LEMMA LearnsOrder ==
  ASSUME TypeInv, TypeInv', PollsOK, OrderOK, NEW x \in Poll, NEW status, Learns(x, status)
  PROVE  OrderOK'
<1> SUFFICES ASSUME NEW p \in Poll, NEW q \in poll'[p].before
             PROVE  BeforeOK(commands', p, poll'[p], q, poll'[q])
  BY DEF OrderOK
<1>1. /\ poll[x].at = "getting" /\ GetAt(commands, 1, x, Len(poll[x].got) + 1)
      /\ \A i, k \in Nat : GetAt(commands', i, x, k) => GetAt(commands, i + 1, x, k)
  BY LearnsOwn
<1>2. poll'[p].before = poll[p].before /\ poll'[x].ids = poll[x].ids
      /\ poll'[x].at \in {"getting", "ready"}
  BY <1>1 DEF Learns, OthersKept
<1>3. q \in Poll /\ BeforeOK(commands, p, poll[p], q, poll[q]) /\ q # p
  BY <1>2, BeforeFacts DEF OrderOK, BeforeOK
<1>4. CASE p = x
  <2>1. poll[q].at # "getting"
    <3> SUFFICES ASSUME poll[q].at = "getting" PROVE FALSE
      OBVIOUS
    <3>1. Len(poll[q].got) < Len(poll[q].ids) /\ GetsOf(commands, q, poll[q].ids, Len(poll[q].got))
      BY <1>3 DEF PollsOK, PollOK
    <3>2. Len(poll[q].got) + 1 \in (Len(poll[q].got) + 1) .. Len(poll[q].ids)
          /\ Len(poll[q].got) + 1 \in Nat /\ 1 \in Nat /\ Len(poll[x].got) + 1 \in Nat
      <4>1. Len(poll[q].got) \in Nat /\ Len(poll[q].ids) \in Nat /\ Len(poll[x].got) \in Nat
        BY <1>3, Lengths
      <4>2. PICK g \in Nat, n \in Nat, h \in Nat :
              g = Len(poll[q].got) /\ n = Len(poll[q].ids) /\ h = Len(poll[x].got)
        BY <4>1
      <4>3. g < n
        BY <3>1, <4>2
      <4>4. g + 1 \in (g + 1) .. n /\ g + 1 \in Nat /\ h + 1 \in Nat
        BY <4>3
      <4>5. QED
        BY <4>2, <4>4
    <3>3. PICK i \in Nat : GetAt(commands, i, q, Len(poll[q].got) + 1)
      BY <3>1, <3>2 DEF GetsOf
    <3>4. i < 1
      BY <1>1, <1>3, <1>4, <3>2, <3>3 DEF BeforeOK
    <3>5. QED
      BY <3>3, <3>4 DEF GetAt
  <2>2. poll[q].at = "ready" /\ poll'[q] = poll[q]
    BY <1>1, <1>3, <1>4, <2>1 DEF BeforeOK, Learns, OthersKept
  <2>3. QED
    BY <1>2, <1>3, <1>4, <2>2 DEF BeforeOK
<1>5. CASE q = x
  <2>1. poll'[p] = poll[p] /\ Moved(commands, commands', 1, p)
    BY <1>3, <1>5, LearnsMoved DEF Learns, OthersKept
  <2>2. ASSUME poll[p].at = "getting", NEW i \in Nat, NEW j \in Nat, NEW k \in Nat, NEW m \in Nat,
               GetAt(commands', i, q, k), GetAt(commands', j, p, m)
        PROVE  i < j
    <3>1. GetAt(commands, i + 1, q, k)
      BY <1>1, <1>5, <2>2
    <3>2. GetAt(commands, j + 1, p, m)
      BY <2>1, <2>2 DEF Moved
    <3>3. i + 1 \in Nat /\ j + 1 \in Nat
      OBVIOUS
    <3>4. i + 1 < j + 1
      BY <1>1, <1>3, <1>5, <2>2, <3>1, <3>2, <3>3 DEF BeforeOK
    <3>5. QED
      BY <3>4
  <2>3. QED
    BY <1>1, <1>2, <1>3, <1>5, <2>1, <2>2 DEF BeforeOK
<1>6. CASE p # x /\ q # x
  <2>1. Kept4(p) /\ Kept4(q) /\ Moved(commands, commands', 1, p) /\ Moved(commands, commands', 1, q)
    BY <1>3, <1>6, LearnsMoved DEF Learns, OthersKept, Kept4
  <2>2. QED
    BY <1>3, <2>1, PairKept
<1>7. QED
  BY <1>4, <1>5, <1>6

LEMMA EndsOrder ==
  ASSUME TypeInv, TypeInv', OrderOK, NEW x \in Poll, Ends(x) PROVE OrderOK'
<1> SUFFICES ASSUME NEW p \in Poll, NEW q \in poll'[p].before
             PROVE  BeforeOK(commands', p, poll'[p], q, poll'[q])
  BY DEF OrderOK
<1>1. p # x
  BY DEF Ends, Idle
<1>2. q \in poll[p].before /\ q # x
  BY <1>1 DEF Ends
<1>3. q \in Poll /\ BeforeOK(commands, p, poll[p], q, poll[q])
  BY <1>2, BeforeFacts DEF OrderOK
<1>4. poll'[p].at = poll[p].at /\ poll'[p].ids = poll[p].ids /\ poll'[q].at = poll[q].at
      /\ UNCHANGED commands
  BY <1>1, <1>2, <1>3 DEF Ends
<1>5. QED
  BY <1>3, <1>4 DEF BeforeOK

LEMMA StepOrder ==
  ASSUME TypeInv, TypeInv', PollsOK, OrderOK, StepKind PROVE OrderOK'
<1>1. 0 \in Nat /\ 1 \in Nat
  OBVIOUS
<1>2. CASE Quiet
  BY <1>1, <1>2, SameMoved, AllKeptOrder DEF Quiet
<1>3. CASE Answered
  BY <1>1, <1>3, SameMoved, AllKeptOrder DEF Answered
<1>4. ASSUME NEW w \in Seq(Command), Writes(w) PROVE OrderOK'
  BY <1>1, <1>4, WritesMoved, AllKeptOrder DEF Writes
<1>5. ASSUME NEW w \in Seq(Command), Handles(w) PROVE OrderOK'
  BY <1>1, <1>5, HandlesMoved, AllKeptOrder DEF Handles
<1>6. QED
  BY <1>2, <1>3, <1>4, <1>5, StartsOrder, ReadsOrder, AsksOrder, LearnsOrder, EndsOrder DEF StepKind

StreamInv == TypeInv /\ PollsOK /\ OrderOK

LEMMA StreamOrdered == Spec => []StreamInv
<1>1. Init => StreamInv
  <2>1. Init => OrderOK
    BY DEF Init, OrderOK, Idle
  <2>2. QED
    BY <2>1, InitType, InitPolls DEF StreamInv
<1>2. StreamInv /\ [Next]_vars => StreamInv'
  BY NextStep, StepPolls, StepOrder DEF StreamInv
<1>3. QED
  BY <1>1, <1>2, PTL DEF Spec

\* Types: a poll waits for as many details as it read ids, and no list is longer than
\* the limit.
THEOREM QueueTypeCorrect == Spec => []TypeOK
<1>1. StreamInv => TypeOK
  <2> SUFFICES ASSUME StreamInv PROVE TypeOK
    OBVIOUS
  <2>1. /\ scored \in [Uam -> Status \cup {NoStatus}] /\ detail \in [Uam -> Status \cup {NoStatus}]
        /\ half \in Seq(Entry) /\ Len(half) <= 1 /\ Len(replies) <= Len(commands)
        /\ landed \subseteq Uam /\ {stored, gone} \subseteq [Uam -> 0 .. statuses]
        /\ shown \in Seq(Entry) /\ Len(shown) <= Limit
    BY DEF StreamInv, TypeInv, StoreOK, ConnOK, HistoryOK, ShownOK, Known
  <2>2. ASSUME NEW p \in Poll
        PROVE  /\ poll[p].at \in {"idle", "reading", "read", "getting", "ready"}
               /\ Len(poll[p].got) <= Len(poll[p].ids) /\ Len(poll[p].ids) <= Limit
               /\ poll[p].fresh \subseteq Uam
    BY DEF StreamInv, TypeInv, PollsTyped, InProgress
  <2>3. ASSUME NEW p \in Poll PROVE poll[p].before \subseteq Poll \ {p}
    BY BeforeFacts DEF StreamInv, OrderOK, BeforeOK
  <2>4. QED
    BY <2>1, <2>2, <2>3 DEF TypeOK
<1>2. QED
  BY <1>1, StreamOrdered, PTL

\* Only the end of a poll sends its list.
LEMMA SendsIsEmit ==
  ASSUME TypeInv, PollsOK, Next, NEW p \in Poll, Sends(p) PROVE Emit(p)
<1>1. poll[p].at = "ready" /\ poll'[p].at = "idle"
  BY DEF Sends, At
<1>2. ASSUME Kept4(p) PROVE FALSE
  BY <1>1, <1>2 DEF Kept4
<1>3. ASSUME NEW u \in Uam, NEW s \in Status, Zadd(u, s) PROVE FALSE
  BY <1>2, <1>3, ZaddStep DEF Quiet, AllKept
<1>4. ASSUME NEW u \in Uam, RegisterLanded(u) \/ LandZrem(u) \/ DetailExpire(u) PROVE FALSE
  BY <1>1, <1>4 DEF RegisterLanded, LandZrem, DetailExpire
<1>5. ASSUME NEW q \in Poll, StartPoll(q) PROVE FALSE
  <2>1. q # p
    BY <1>1, <1>5 DEF StartPoll, At
  <2>2. QED
    BY <1>2, <1>5, <2>1, StartPollStep DEF Starts, OthersKept, Kept4
<1>6. ASSUME NEW q \in Poll, Emit(q) PROVE q = p
  BY <1>2, <1>6, EmitStep, <1>1 DEF Ends
<1>7. ~TriggerAutoReset
  BY <1>1 DEF TriggerAutoReset
<1>8. ~Set
  BY <1>2, SetStep DEF Quiet, AllKept
<1>9. ~Execute
  BY <1>1, ExecuteStep DEF Execute, Turn, At
<1>10. ~Deliver
  <2> SUFFICES ASSUME Deliver PROVE FALSE
    OBVIOUS
  <2>1. ASSUME NEW q \in Poll, NEW ids \in Seq(Uam), Asks(q, ids) PROVE FALSE
    <3>1. q # p
      BY <1>1, <2>1, AsksOwn
    <3>2. QED
      BY <1>2, <2>1, <3>1 DEF Asks, OthersKept, Kept4
  <2>2. ASSUME NEW q \in Poll, NEW v \in Known, Learns(q, v) PROVE FALSE
    <3>1. q # p
      BY <1>1, <2>2, LearnsOwn
    <3>2. QED
      BY <1>2, <2>2, <3>1 DEF Learns, OthersKept, Kept4
  <2>3. ASSUME NEW w \in Seq(Command), Handles(w) PROVE FALSE
    BY <1>2, <2>3 DEF Handles, AllKept
  <2>4. QED
    BY <2>1, <2>2, <2>3, QueueReadStep, DetailReadStep, OtherReplyStep DEF Deliver
<1>11. QED
  BY <1>3, <1>4, <1>5, <1>6, <1>7, <1>8, <1>9, <1>10 DEF Next

\* Polls overlap, and yet no list of vehicles is sent before one that was read earlier.
THEOREM ListsInOrderHolds == Spec => ListsInOrder
<1>1. ASSUME StreamInv, Next, NEW p \in Poll, Sends(p), poll[p].ids # << >>, NEW q \in poll[p].before
      PROVE  FALSE
  <2>1. Emit(p) /\ poll[p].at = "ready"
    BY <1>1, SendsIsEmit DEF StreamInv, Sends, At
  <2>2. BeforeOK(commands, p, poll[p], q, poll[q])
    BY <1>1 DEF StreamInv, OrderOK
  <2>3. poll[q].at = "ready"
    BY <1>1, <2>1, <2>2 DEF BeforeOK
  <2>4. QED
    BY <1>1, <2>1, <2>3 DEF Emit, At
<1>2. StreamInv /\ [Next]_vars =>
        [\A p \in Poll :
           Sends(p) /\ poll[p].ids # << >> => \A q \in poll[p].before : poll[q].ids = << >>]_vars
  BY <1>1
<1>3. QED
  BY <1>2, StreamOrdered, PTL DEF Spec, ListsInOrder

-----------------------------------------------------------------------------
(* Removals *)

\* Commands that take a vehicle out of the queue, and those that its removal still
\* waits for before the clients are told.
Zrems(c, u) == (c.op = "zrem" /\ c.uam = u) \/ c.op = "delQueue"
Dels(c, u)  == c.op = "keys" \/ (c.op = "del" /\ (c.for = "reset" \/ u \in c.uams))

\* The status that put u in the queue is newer than the removals that were executed
\* before x, than those on their way before y, and than those the clients know of.
ZClear(u, x) == \A j \in 1 .. Len(replies) : j < x /\ Zrems(commands[j], u) => replies[j] < stored[u]
DClear(u, y) == \A j \in 1 .. Len(commands) : j < y /\ Dels(commands[j], u) => commands[j].since < stored[u]
GClear(u)    == gone[u] < stored[u]

\* It is newer than all removals but those that came after x.
ReadClear(u, x) == GClear(u) /\ ZClear(u, x) /\ \A y \in Nat : DClear(u, y)

\* Vehicles in the queue, and those in the list of a poll, are not removed ones: a
\* removal that is newer than the list comes after it on every step of its way.
QueueClear == \A u \in Queued : \A x \in Nat : ReadClear(u, x)
ListClear(p) ==
  /\ At(p, "read") => \A i \in Nat : ZrevAt(commands, i, p) => \A u \in ToSet(replies[i]) : ReadClear(u, i)
  /\ At(p, "getting") => \A u \in ToSet(poll[p].ids) :
       GClear(u) /\ \A i, k \in Nat : GetAt(commands, i, p, k) => DClear(u, i)
  /\ At(p, "ready") /\ ~poll[p].late => \A u \in ToSet(poll[p].ids) : GClear(u)

RemovalsOK == QueueClear /\ \A p \in Poll : ListClear(p)

LEMMA ListsOfUams ==
  ASSUME TypeInv, NEW p \in Poll
  PROVE  ToSet(poll[p].ids) \subseteq Uam
BY DEF TypeInv, PollsTyped, InProgress, ToSet

\* The list that the reply of an executed ZREVRANGE is.
LEMMA ReadList ==
  ASSUME TypeInv, NEW i \in 1 .. Len(replies), commands[i].op = "zrevrange"
  PROVE  replies[i] \in Seq(Uam) /\ ToSet(replies[i]) \subseteq Uam
<1>1. replies[i] \in Seq(Uam)
  BY DEF TypeInv, ConnOK, Answers
<1>2. QED
  BY <1>1 DEF ToSet

\* No removal is newer than the statuses stored so far.
LEMMA SinceFacts ==
  ASSUME TypeInv, NEW u \in Uam
  PROVE  /\ statuses \in Nat /\ stored[u] \in 0 .. statuses /\ gone[u] \in 0 .. statuses
         /\ \A j \in 1 .. Len(replies) : Zrems(commands[j], u) => replies[j] \in 0 .. statuses
         /\ \A j \in 1 .. Len(commands) : Dels(commands[j], u) => commands[j].since \in 0 .. statuses
<1>1. statuses \in Nat /\ stored[u] \in 0 .. statuses /\ gone[u] \in 0 .. statuses
  BY DEF TypeInv, HistoryOK
<1>2. \A j \in 1 .. Len(replies) : Zrems(commands[j], u) => replies[j] \in 0 .. statuses
  BY <1>1 DEF TypeInv, ConnOK, Answers, Zrems
<1>3. ASSUME NEW j \in 1 .. Len(commands), Dels(commands[j], u)
      PROVE  commands[j].since \in 0 .. statuses
  <2>1. commands[j] \in Command /\ commands[j].op \in {"keys", "del"}
    BY <1>3 DEF TypeInv, ConnOK, Dels
  <2>2. commands[j].since \in Nat
    BY <2>1, CommandFacts
  <2>3. commands[j].since <= statuses
    BY <2>1 DEF TypeInv, ConnOK
  <2>4. QED
    BY <1>1, <2>2, <2>3
<1>4. QED
  BY <1>1, <1>2, <1>3

LEMMA ClearLess ==
  ASSUME NEW u, NEW x \in Nat, NEW y \in Nat, y <= x, Len(commands) \in Nat, Len(replies) \in Nat
  PROVE  (ZClear(u, x) => ZClear(u, y)) /\ (DClear(u, x) => DClear(u, y))
<1>1. \A j \in Nat : j < y => j < x
  OBVIOUS
<1>2. \A j \in 1 .. Len(replies) : j \in Nat
  OBVIOUS
<1>3. \A j \in 1 .. Len(commands) : j \in Nat
  OBVIOUS
<1>4. QED
  BY <1>1, <1>2, <1>3 DEF ZClear, DClear

\* A new status is newer than every removal.
LEMMA ZaddClear ==
  ASSUME TypeInv, NEW u \in Uam, NEW s \in Status, Zadd(u, s), NEW v \in Uam
  PROVE  /\ \A x : ZClear(v, x) => ZClear(v, x)'
         /\ \A x : DClear(v, x) => DClear(v, x)'
         /\ GClear(v) => GClear(v)'
         /\ v = u => GClear(v)' /\ \A x : ZClear(v, x)' /\ DClear(v, x)'
<1>1. /\ UNCHANGED <<commands, replies, gone>>
      /\ stored' = [stored EXCEPT ![u] = statuses + 1]
      /\ stored \in [Uam -> 0 .. statuses]
  BY DEF Zadd, conn, TypeInv, HistoryOK
<1>2. v # u => stored'[v] = stored[v]
  BY <1>1
<1>3. CASE v # u
  BY <1>1, <1>2, <1>3 DEF ZClear, DClear, GClear
<1>4. CASE v = u
  <2>1. stored'[v] = statuses + 1 /\ statuses \in Nat
    BY <1>1, <1>4, SinceFacts
  <2>2. \A n \in 0 .. statuses : n < statuses + 1
    BY <2>1
  <2>3. /\ gone[v] \in 0 .. statuses
        /\ \A j \in 1 .. Len(replies) : Zrems(commands[j], v) => replies[j] \in 0 .. statuses
        /\ \A j \in 1 .. Len(commands) : Dels(commands[j], v) => commands[j].since \in 0 .. statuses
    BY SinceFacts
  <2>4. GClear(v)' /\ \A x : ZClear(v, x)' /\ DClear(v, x)'
    BY <1>1, <2>1, <2>2, <2>3 DEF ZClear, DClear, GClear
  <2>5. QED
    BY <2>4
<1>5. QED
  BY <1>3, <1>4

\* Another command that is written changes nothing yet.
LEMMA WrittenClear ==
  ASSUME TypeInv, NEW c, Longer(commands, <<c>>, commands'), c.op \notin {"keys", "del"},
         UNCHANGED <<replies, stored, gone>>, NEW v, NEW x
  PROVE  /\ ZClear(v, x) => ZClear(v, x)'
         /\ DClear(v, x) => DClear(v, x)'
         /\ GClear(v) => GClear(v)'
<1> DEFINE w == <<c>>
<1>1. Len(w) = 1 /\ w[1] = c /\ Longer(commands, w, commands')
  OBVIOUS
<1> HIDE DEF w
<1>2. /\ \A j \in 1 .. Len(commands) : commands'[j] = commands[j]
      /\ \A j \in 1 .. Len(commands') :
           (j \in 1 .. Len(commands) /\ commands'[j] = commands[j]) \/ commands'[j] = c
  <2>1. \A k \in 1 .. 1 : k = 1
    OBVIOUS
  <2>2. QED
    BY <1>1, <2>1 DEF Longer
<1>3. ~Dels(c, v)
  BY DEF Dels
<1>4. DClear(v, x) => DClear(v, x)'
  BY <1>2, <1>3 DEF DClear
<1>5. \A j \in 1 .. Len(replies) : j \in 1 .. Len(commands)
  BY Lengths
<1>6. ZClear(v, x) => ZClear(v, x)'
  BY <1>2, <1>5 DEF ZClear
<1>7. QED
  BY <1>4, <1>6 DEF GClear

\* A command that is executed comes after those executed before.
LEMMA ExecutedClear ==
  ASSUME TypeInv, UNCHANGED <<commands, stored, gone>>, Len(replies') = Len(replies) + 1,
         \A j \in 1 .. Len(replies) : replies'[j] = replies[j], NEW v, NEW x \in Nat
  PROVE  /\ ZClear(v, x) /\ (x <= Len(replies) + 1 \/ ~Zrems(commands[Len(replies) + 1], v))
              => ZClear(v, x)'
         /\ DClear(v, x) => DClear(v, x)'
         /\ GClear(v) => GClear(v)'
<1>1. Len(replies) \in Nat
  BY Lengths
<1>2. \A j \in 1 .. Len(replies') : j \in 1 .. Len(replies) \/ j = Len(replies) + 1
  BY <1>1
<1>3. x <= Len(replies) + 1 => ~(Len(replies) + 1 < x)
  BY <1>1
<1>4. ASSUME ZClear(v, x), x <= Len(replies) + 1 \/ ~Zrems(commands[Len(replies) + 1], v)
      PROVE  ZClear(v, x)'
  <2> SUFFICES ASSUME NEW j \in 1 .. Len(replies'), j < x, Zrems(commands[j], v)
               PROVE  replies'[j] < stored[v]
    BY DEF ZClear
  <2>1. j \in 1 .. Len(replies)
    BY <1>2, <1>3, <1>4
  <2>2. QED
    BY <1>4, <2>1 DEF ZClear
<1>5. QED
  BY <1>4 DEF DClear, GClear

-----------------------------------------------------------------------------
(* What the handling of a reply makes of the removals *)

\* The announcement at the head, and what the handler writes.
Delivers(w) ==
  /\ replies # << >> /\ w \in Seq(Command) /\ Shifted(commands, w, commands')
  /\ Len(replies') = Len(replies) - 1
  /\ \A i \in 1 .. (Len(replies) - 1) : replies'[i] = replies[i + 1]
  /\ UNCHANGED <<scored, stored>>
  /\ \A u \in Uam : gone'[u] = gone[u] \/ (Dels(commands[1], u) /\ gone'[u] = commands[1].since)
  /\ gone' = gone \/ poll' = Overtaken
  /\ \A p \in Poll : At(p, "ready") /\ poll[p].late => poll'[p].late
  /\ \A k \in 1 .. Len(w) : \A u \in Uam :
       Dels(w[k], u) => \/ Zrems(commands[1], u) /\ w[k].since = replies[1]
                        \/ Dels(commands[1], u) /\ w[k].since = commands[1].since

LEMMA FollowsFacts ==
  ASSUME NEW c, NEW v, NEW w, Follows(c, v, w), NEW k \in 1 .. Len(w), NEW u, Dels(w[k], u)
  PROVE  \/ Zrems(c, u) /\ w[k].since = v
         \/ Dels(c, u) /\ w[k].since = c.since
<1>1. ASSUME NEW d, w = <<d>> PROVE w[k] = d
  BY <1>1
<1>2. CASE c.op = "zrem" /\ w = <<[op |-> "del", for |-> "landing", uams |-> {c.uam}, since |-> v]>>
  <2> DEFINE d == [op |-> "del", for |-> "landing", uams |-> {c.uam}, since |-> v]
  <2>1. w[k] = d
    BY <1>1, <1>2
  <2>2. d.op = "del" /\ d.for = "landing" /\ d.uams = {c.uam} /\ d.since = v
    OBVIOUS
  <2> HIDE DEF d
  <2>3. QED
    BY <1>2, <2>1, <2>2 DEF Dels, Zrems
<1>3. CASE c.op = "delQueue" /\ w = <<[op |-> "keys", since |-> v]>>
  <2>1. w[k] = [op |-> "keys", since |-> v]
    BY <1>1, <1>3
  <2>2. QED
    BY <1>3, <2>1 DEF Zrems
<1>4. CASE c.op = "keys" /\ w = <<[op |-> "del", for |-> "reset", uams |-> v, since |-> c.since]>>
  <2>1. w[k] = [op |-> "del", for |-> "reset", uams |-> v, since |-> c.since]
    BY <1>1, <1>4
  <2>2. QED
    BY <1>4, <2>1 DEF Dels
<1>5. CASE w = << >>
  BY <1>5
<1>6. QED
  BY <1>2, <1>3, <1>4, <1>5 DEF Follows

LEMMA GoneStep ==
  ASSUME TypeInv, replies # << >>,
         LET c == Head(commands)
             v == Head(replies)
         IN Zremmed(c, v) \/ LandingDeleted(c) \/ QueueDeleted(c, v) \/ KeysListed(c, v) \/ KeysDeleted(c)
  PROVE  /\ (gone' = gone /\ poll' = poll) \/ poll' = Overtaken
         /\ \A u \in Uam : gone'[u] = gone[u] \/ (Dels(commands[1], u) /\ gone'[u] = commands[1].since)
<1> DEFINE c == Head(commands)
           v == Head(replies)
<1>1. c = commands[1]
  BY HeadOK DEF TypeInv
<1>2. Zremmed(c, v) \/ LandingDeleted(c) \/ QueueDeleted(c, v) \/ KeysListed(c, v) \/ KeysDeleted(c)
  OBVIOUS
<1> HIDE DEF c, v
<1>3. CASE UNCHANGED <<gone, poll>>
  BY <1>3
<1>4. CASE LandingDeleted(c)
  <2>1. c.op = "del" /\ gone' = Announced(c.uams, c.since) /\ poll' = Overtaken
    BY <1>4 DEF LandingDeleted
  <2>2. ASSUME NEW u \in Uam PROVE gone'[u] = gone[u] \/ (u \in c.uams /\ gone'[u] = c.since)
    BY <2>1 DEF Announced
  <2>3. QED
    BY <1>1, <2>1, <2>2 DEF Dels
<1>5. CASE ResetDone(c) /\ (c.op = "keys" \/ (c.op = "del" /\ c.for = "reset"))
  <2>1. gone' = Announced(Uam, c.since) /\ poll' = Overtaken
    BY <1>5 DEF ResetDone
  <2>2. ASSUME NEW u \in Uam PROVE gone'[u] = gone[u] \/ gone'[u] = c.since
    BY <2>1 DEF Announced
  <2>3. \A u \in Uam : Dels(c, u)
    BY <1>5 DEF Dels
  <2>4. QED
    BY <1>1, <2>1, <2>2, <2>3
<1>6. QED
  BY <1>2, <1>3, <1>4, <1>5 DEF Zremmed, QueueDeleted, KeysListed, KeysDeleted

LEMMA DeliverEffects ==
  ASSUME TypeInv, PollsOK, Deliver PROVE \E w \in Seq(Command) : Delivers(w)
<1> DEFINE c == Head(commands)
           v == Head(replies)
<1>1. /\ replies # << >> /\ replies' = Tail(replies) /\ UNCHANGED <<store, half, stored, counts>>
      /\ \/ QueueRead(c, v) \/ DetailRead(c, v)
         \/ Zremmed(c, v) \/ LandingDeleted(c) \/ QueueDeleted(c, v) \/ KeysListed(c, v) \/ KeysDeleted(c)
  BY DEF Deliver
<1>2. c = commands[1] /\ v = replies[1] /\ UNCHANGED <<scored, stored>>
  BY <1>1, HeadOK DEF TypeInv, store
<1>3. CASE QueueRead(c, v)
  <2>1. Asks(c.poll, v) /\ c.poll \in Poll /\ v \in Seq(Uam)
        /\ \A p \in Poll : poll[p].late => poll'[p].late
    BY <1>1, <1>3, QueueReadStep DEF Asks, OthersKept
  <2>2. gone' = gone
    BY <1>3 DEF QueueRead
  <2> DEFINE w == GetsFor(c.poll, v)
  <2>3. /\ Shifted(commands, w, commands') /\ Len(replies') = Len(replies) - 1
        /\ \A i \in 1 .. (Len(replies) - 1) : replies'[i] = replies[i + 1]
    BY <2>1 DEF Asks
  <2>4. \A k \in 1 .. Len(w) : \A u \in Uam : ~Dels(w[k], u)
    BY DEF GetsFor, Dels
  <2>5. w \in Seq(Command)
    <3>1. \A i \in 1 .. Len(v) : i \in Nat /\ v[i] \in Uam
      BY <2>1
    <3>2. \A p \in Poll, i \in Nat, u \in Uam : [op |-> "get", poll |-> p, nth |-> i, uam |-> u] \in Command
      BY DEF Command
    <3>3. DOMAIN v = 1 .. Len(v) /\ Len(v) \in Nat
      BY <2>1
    <3> HIDE DEF v, c
    <3>4. \A i \in 1 .. Len(v) : [op |-> "get", poll |-> c.poll, nth |-> i, uam |-> v[i]] \in Command
      BY <2>1, <3>1, <3>2
    <3>5. QED
      BY <3>3, <3>4 DEF GetsFor
  <2> HIDE DEF w
  <2>6. QED
    BY <1>1, <1>2, <2>1, <2>2, <2>3, <2>4, <2>5 DEF Delivers
<1>4. CASE DetailRead(c, v)
  <2>1. Learns(c.poll, v) /\ \A p \in Poll : poll[p].late => poll'[p].late
    BY <1>1, <1>4, DetailReadStep DEF Learns, OthersKept
  <2>2. gone' = gone
    BY <1>4 DEF DetailRead
  <2>3. << >> \in Seq(Command) /\ \A k \in 1 .. Len(<< >>) : \A u \in Uam : ~Dels(<< >>[k], u)
    OBVIOUS
  <2>4. QED
    BY <1>1, <1>2, <2>1, <2>2, <2>3 DEF Delivers, Learns
<1>5. CASE Zremmed(c, v) \/ LandingDeleted(c) \/ QueueDeleted(c, v) \/ KeysListed(c, v) \/ KeysDeleted(c)
  <2>1. PICK w \in Seq(Command) : Follows(c, v, w) /\ Handles(w)
    BY <1>1, <1>5, OtherReplyStep
  <2>2. /\ (gone' = gone /\ poll' = poll) \/ poll' = Overtaken
        /\ \A u \in Uam : gone'[u] = gone[u] \/ (Dels(commands[1], u) /\ gone'[u] = commands[1].since)
    BY <1>1, <1>5, GoneStep
  <2>3. \A p \in Poll : At(p, "ready") /\ poll[p].late => poll'[p].late
    BY <2>2, OvertakenTyped DEF TypeInv
  <2>4. \A k \in 1 .. Len(w) : \A u \in Uam :
          Dels(w[k], u) => \/ Zrems(commands[1], u) /\ w[k].since = replies[1]
                           \/ Dels(commands[1], u) /\ w[k].since = commands[1].since
    BY <1>2, <2>1, FollowsFacts
  <2>5. QED
    BY <1>1, <1>2, <2>1, <2>2, <2>3, <2>4 DEF Delivers, Handles
<1>6. QED
  BY <1>1, <1>3, <1>4, <1>5

\* What is clear before the step is clear after it, one place further to the front.
LEMMA DeliveredClear ==
  ASSUME TypeInv, NEW w \in Seq(Command), Delivers(w), NEW u \in Uam
  PROVE  /\ \A x \in Nat : ZClear(u, x + 1) => ZClear(u, x)'
         /\ GClear(u) /\ DClear(u, 2) => GClear(u)'
         /\ \A y \in Nat : y <= Len(commands) /\ DClear(u, y + 1) => DClear(u, y)'
         /\ ZClear(u, 2) /\ (\A y \in Nat : DClear(u, y)) => \A y \in Nat : DClear(u, y)'
<1>1. /\ Len(replies) \in Nat /\ Len(replies) >= 1 /\ Len(commands) \in Nat
      /\ Len(replies) <= Len(commands)
  BY HeadOK DEF TypeInv, Delivers
<1>2. PICK m \in Nat, a \in Nat : Len(commands) = m + 1 /\ Len(replies) = a + 1 /\ a <= m
  <2>1. Len(commands) - 1 \in Nat /\ Len(replies) - 1 \in Nat
        /\ Len(commands) = (Len(commands) - 1) + 1 /\ Len(replies) = (Len(replies) - 1) + 1
        /\ Len(replies) - 1 <= Len(commands) - 1
    BY <1>1
  <2>2. QED
    BY <2>1
<1>3. /\ Len(replies') = a /\ \A i \in 1 .. a : replies'[i] = replies[i + 1]
      /\ \A i \in 1 .. m : commands'[i] = commands[i + 1]
      /\ \A i \in 1 .. Len(commands') :
           \/ i \in 1 .. m /\ commands'[i] = commands[i + 1]
           \/ \E k \in 1 .. Len(w) : i = m + k /\ commands'[i] = w[k]
      /\ stored' = stored /\ Len(w) \in Nat
  <2>1. Len(commands) - 1 = m /\ Len(replies) - 1 = a
    BY <1>2
  <2>2. /\ Len(replies') = a /\ \A i \in 1 .. a : replies'[i] = replies[i + 1]
        /\ stored' = stored /\ Len(w) \in Nat /\ Shifted(commands, w, commands')
    BY <2>1 DEF Delivers
  <2>3. \A i \in 1 .. m : commands'[i] = commands[i + 1]
    BY <2>1, <2>2 DEF Shifted
  <2>4. \A i \in 1 .. Len(commands') :
          \/ i \in 1 .. m /\ commands'[i] = commands[i + 1]
          \/ \E k \in 1 .. Len(w) : i = m + k /\ commands'[i] = w[k]
    BY <2>1, <2>2 DEF Shifted
  <2>5. QED
    BY <2>2, <2>3, <2>4
<1>4. /\ \A i \in 1 .. a : i \in 1 .. m /\ i + 1 \in 1 .. (a + 1)
      /\ \A i \in 1 .. m : i + 1 \in 1 .. (m + 1)
      /\ \A i, x \in Nat : i < x => i + 1 < x + 1
      /\ \A i \in 1 .. m : i \in Nat
      /\ \A i \in 1 .. a : i \in Nat
  BY <1>2
<1>5. \A x \in Nat : ZClear(u, x + 1) => ZClear(u, x)'
  BY <1>2, <1>3, <1>4 DEF ZClear
<1>6. ASSUME NEW y \in Nat, y <= Len(commands), DClear(u, y + 1) PROVE DClear(u, y)'
  <2> SUFFICES ASSUME NEW j \in 1 .. Len(commands'), j < y, Dels(commands'[j], u)
               PROVE  commands'[j].since < stored[u]
    BY <1>3 DEF DClear
  <2>1. \A k \in 1 .. Len(w) : j # m + k
    BY <1>2, <1>3, <1>6
  <2>2. j \in 1 .. m /\ commands'[j] = commands[j + 1]
    BY <1>3, <2>1
  <2>3. j + 1 < y + 1 /\ j + 1 \in 1 .. Len(commands)
    BY <1>2, <1>4, <2>2
  <2>4. QED
    BY <1>6, <2>2, <2>3 DEF DClear
<1>7. 1 \in 1 .. Len(commands) /\ 1 \in 1 .. Len(replies) /\ 1 < 2
  BY <1>1
<1>8. ASSUME ZClear(u, 2), \A y \in Nat : DClear(u, y), NEW y \in Nat PROVE DClear(u, y)'
  <2> SUFFICES ASSUME NEW j \in 1 .. Len(commands'), Dels(commands'[j], u)
               PROVE  commands'[j].since < stored[u]
    BY <1>3 DEF DClear
  <2>1. CASE j \in 1 .. m /\ commands'[j] = commands[j + 1]
    <3>1. j + 1 \in 1 .. Len(commands) /\ (j + 1) + 1 \in Nat /\ j + 1 < (j + 1) + 1
      BY <1>2, <1>4, <2>1
    <3>2. DClear(u, (j + 1) + 1)
      BY <1>8, <3>1
    <3>3. QED
      BY <2>1, <3>1, <3>2 DEF DClear
  <2>2. CASE \E k \in 1 .. Len(w) : j = m + k /\ commands'[j] = w[k]
    <3>1. \/ Zrems(commands[1], u) /\ commands'[j].since = replies[1]
          \/ Dels(commands[1], u) /\ commands'[j].since = commands[1].since
      BY <2>2 DEF Delivers
    <3>2. Zrems(commands[1], u) => replies[1] < stored[u]
      BY <1>7, <1>8 DEF ZClear
    <3>3. Dels(commands[1], u) => commands[1].since < stored[u]
      BY <1>7, <1>8 DEF DClear
    <3>4. QED
      BY <3>1, <3>2, <3>3
  <2>3. QED
    BY <1>3, <2>1, <2>2
<1>9. ASSUME GClear(u), DClear(u, 2) PROVE GClear(u)'
  <2>1. Dels(commands[1], u) => commands[1].since < stored[u]
    BY <1>7, <1>9 DEF DClear
  <2>2. gone'[u] = gone[u] \/ (Dels(commands[1], u) /\ gone'[u] = commands[1].since)
    BY DEF Delivers
  <2>3. QED
    BY <1>3, <1>9, <2>1, <2>2 DEF GClear
<1>10. QED
  BY <1>5, <1>6, <1>8, <1>9

-----------------------------------------------------------------------------
(* Every step keeps the lists clear of the removed vehicles *)

\* A poll that takes no step, when the connection only grows.
LEMMA ListKept ==
  ASSUME TypeInv, PollsOK, NEW p \in Poll, ListClear(p), Kept4(p),
         At(p, "ready") /\ poll[p].late => poll'[p].late,
         Moved(commands, commands', 0, p), \A i \in 1 .. Len(replies) : replies'[i] = replies[i],
         \A u \in Uam :
           /\ \A x \in Nat : x <= Len(replies) /\ ZClear(u, x) => ZClear(u, x)'
           /\ \A y \in Nat : DClear(u, y) => DClear(u, y)'
           /\ GClear(u) => GClear(u)'
  PROVE  ListClear(p)'
<1>1. /\ poll'[p].at = poll[p].at /\ poll'[p].ids = poll[p].ids
      /\ ToSet(poll[p].ids) \subseteq Uam
  BY ListsOfUams DEF Kept4
<1>2. \A i \in Nat : i + 0 = i
  OBVIOUS
<1>3. ASSUME poll[p].at = "read", NEW i \in Nat, ZrevAt(commands', i, p), NEW u \in ToSet(replies'[i])
      PROVE  ReadClear(u, i)'
  <2>1. ZrevAt(commands, i, p)
    BY <1>2, <1>3 DEF Moved
  <2>2. i <= Len(replies) /\ i \in 1 .. Len(replies) /\ commands[i].op = "zrevrange"
    <3>1. i <= Len(replies)
      BY <1>3, <2>1 DEF PollsOK, PollOK
    <3>2. QED
      BY <2>1, <3>1, Lengths DEF ZrevAt
  <2>3. u \in ToSet(replies[i]) /\ u \in Uam
    BY <1>3, <2>2, ReadList
  <2>4. ReadClear(u, i)
    BY <1>3, <2>1, <2>3 DEF ListClear, At
  <2>5. QED
    BY <2>2, <2>3, <2>4 DEF ReadClear
<1>4. ASSUME poll[p].at = "getting", NEW u \in ToSet(poll[p].ids)
      PROVE  GClear(u)' /\ \A i, k \in Nat : GetAt(commands', i, p, k) => DClear(u, i)'
  <2>1. u \in Uam /\ GClear(u) /\ \A i, k \in Nat : GetAt(commands, i, p, k) => DClear(u, i)
    BY <1>1, <1>4 DEF ListClear, At
  <2>2. \A i, k \in Nat : GetAt(commands', i, p, k) => GetAt(commands, i, p, k)
    BY <1>2 DEF Moved
  <2>3. QED
    BY <2>1, <2>2
<1>5. ASSUME poll[p].at = "ready", ~poll'[p].late, NEW u \in ToSet(poll[p].ids) PROVE GClear(u)'
  BY <1>1, <1>5 DEF ListClear, At
<1>6. QED
  BY <1>1, <1>3, <1>4, <1>5 DEF ListClear, At

\* A poll whose commands move up when a reply is handled.
LEMMA ListDelivered ==
  ASSUME TypeInv, PollsOK, NEW p \in Poll, ListClear(p), Kept4(p),
         NEW w \in Seq(Command), Delivers(w), Moved(commands, commands', 1, p)
  PROVE  ListClear(p)'
<1>1. /\ poll'[p].at = poll[p].at /\ poll'[p].ids = poll[p].ids
      /\ ToSet(poll[p].ids) \subseteq Uam
  BY ListsOfUams DEF Kept4
<1>2. Len(replies) \in Nat /\ Len(commands) \in Nat
  BY Lengths
<1>3. ASSUME poll[p].at = "read", NEW i \in Nat, ZrevAt(commands', i, p), NEW u \in ToSet(replies'[i])
      PROVE  ReadClear(u, i)'
  <2>1. i + 1 \in Nat /\ 2 \in Nat /\ ZrevAt(commands, i + 1, p) /\ 1 < i + 1 /\ 2 <= i + 1
    <3>1. i + 1 \in Nat /\ ZrevAt(commands, i + 1, p)
      BY <1>3 DEF Moved
    <3>2. 1 < i + 1
      BY <3>1 DEF Moved
    <3>3. QED
      BY <3>1, <3>2
  <2>2. /\ i + 1 \in 1 .. Len(replies) /\ i \in 1 .. (Len(replies) - 1)
        /\ commands[i + 1].op = "zrevrange"
    <3>1. i + 1 <= Len(replies)
      BY <1>3, <2>1 DEF PollsOK, PollOK
    <3>2. QED
      BY <1>2, <2>1, <3>1 DEF ZrevAt
  <2>3. u \in ToSet(replies[i + 1]) /\ u \in Uam
    <3>1. replies'[i] = replies[i + 1]
      BY <2>2 DEF Delivers
    <3>2. QED
      BY <1>3, <2>2, <3>1, ReadList
  <2>4. GClear(u) /\ ZClear(u, i + 1) /\ (\A y \in Nat : DClear(u, y))
    BY <1>3, <2>1, <2>3 DEF ListClear, At, ReadClear
  <2>5. ZClear(u, 2) /\ DClear(u, 2)
    BY <1>2, <2>1, <2>4, ClearLess
  <2>6. QED
    BY <2>3, <2>4, <2>5, DeliveredClear DEF ReadClear
<1>4. ASSUME poll[p].at = "getting", NEW u \in ToSet(poll[p].ids)
      PROVE  GClear(u)' /\ \A i, k \in Nat : GetAt(commands', i, p, k) => DClear(u, i)'
  <2>1. u \in Uam /\ GClear(u) /\ \A i, k \in Nat : GetAt(commands, i, p, k) => DClear(u, i)
    BY <1>1, <1>4 DEF ListClear, At
  <2>2. ASSUME NEW i \in Nat, NEW k \in Nat, GetAt(commands', i, p, k) PROVE DClear(u, i)'
    <3>1. i + 1 \in Nat /\ GetAt(commands, i + 1, p, k)
      BY <2>2 DEF Moved
    <3>2. i <= Len(commands) /\ DClear(u, i + 1)
      <4>1. i + 1 \in 1 .. Len(commands)
        BY <3>1 DEF GetAt
      <4>2. QED
        BY <1>2, <2>1, <3>1, <4>1
    <3>3. QED
      BY <2>1, <3>2, DeliveredClear
  <2>3. DClear(u, 2)
    <3>1. Len(poll[p].got) < Len(poll[p].ids) /\ GetsOf(commands, p, poll[p].ids, Len(poll[p].got))
      BY <1>4 DEF PollsOK, PollOK
    <3>2. Len(poll[p].got) + 1 \in (Len(poll[p].got) + 1) .. Len(poll[p].ids)
          /\ Len(poll[p].got) + 1 \in Nat
      BY <3>1, Lengths
    <3>3. PICK i \in Nat : GetAt(commands, i, p, Len(poll[p].got) + 1)
      BY <3>1, <3>2 DEF GetsOf
    <3>4. 1 < i /\ DClear(u, i)
      BY <2>1, <3>2, <3>3 DEF Moved
    <3>5. 2 <= i /\ 2 \in Nat
      BY <3>4
    <3>6. QED
      BY <1>2, <3>4, <3>5, ClearLess
  <2>4. QED
    BY <2>1, <2>2, <2>3, DeliveredClear
<1>5. ASSUME poll[p].at = "ready", ~poll'[p].late, NEW u \in ToSet(poll[p].ids) PROVE GClear(u)'
  <2>1. ~poll[p].late
    BY <1>5 DEF Delivers, At
  <2>2. GClear(u) /\ u \in Uam
    BY <1>1, <1>5, <2>1 DEF ListClear, At
  <2>3. gone' = gone
    BY <1>5, OvertakenTyped DEF Delivers, At, TypeInv
  <2>4. QED
    BY <2>2, <2>3 DEF GClear, Delivers
<1>6. QED
  BY <1>1, <1>3, <1>4, <1>5 DEF ListClear, At

\* Steps that leave the connection and the history alone.
LEMMA SameClear ==
  ASSUME UNCHANGED <<commands, replies, stored, gone>>
  PROVE  \A u, x : (ZClear(u, x)' <=> ZClear(u, x)) /\ (DClear(u, x)' <=> DClear(u, x))
                   /\ (GClear(u)' <=> GClear(u)) /\ (ReadClear(u, x)' <=> ReadClear(u, x))
BY DEF ZClear, DClear, GClear, ReadClear

LEMMA StoreRemovals ==
  ASSUME StreamInv, RemovalsOK, UNCHANGED <<commands, replies, stored, gone>>,
         Queued' \subseteq Queued,
         \A p \in Poll : Kept4(p) /\ poll'[p].late = poll[p].late
  PROVE  RemovalsOK'
<1>1. QueueClear'
  BY SameClear DEF RemovalsOK, QueueClear
<1>2. \A p \in Poll : ListClear(p)'
  <2>1. \A p : Moved(commands, commands, 0, p)
    BY SameMoved
  <2>2. QED
    BY <2>1, SameClear, ListKept DEF RemovalsOK, StreamInv
<1>3. QED
  BY <1>1, <1>2 DEF RemovalsOK

LEMMA ZaddRemovals ==
  ASSUME StreamInv, RemovalsOK, NEW u \in Uam, NEW s \in Status, Zadd(u, s) PROVE RemovalsOK'
<1>1. /\ \A v \in Uam : \A x : (ZClear(v, x) => ZClear(v, x)') /\ (DClear(v, x) => DClear(v, x)')
      /\ \A v \in Uam : GClear(v) => GClear(v)'
      /\ GClear(u)' /\ \A x : ZClear(u, x)' /\ DClear(u, x)'
  BY ZaddClear DEF StreamInv
<1>2. Queued' \subseteq Queued \cup {u} /\ Queued \subseteq Uam
  BY DEF StreamInv, TypeInv, StoreOK, Zadd, Queued
<1>3. QueueClear'
  BY <1>1, <1>2 DEF RemovalsOK, QueueClear, ReadClear
<1>4. ASSUME NEW p \in Poll PROVE ListClear(p)'
  <2>1. Kept4(p) /\ poll'[p].late = poll[p].late /\ UNCHANGED <<commands, replies>>
    BY RefreshedTyped DEF StreamInv, TypeInv, Zadd, Kept4, conn
  <2>2. Moved(commands, commands', 0, p)
    BY <2>1, SameMoved
  <2>3. QED
    BY <1>1, <2>1, <2>2, ListKept DEF RemovalsOK, StreamInv
<1>5. QED
  BY <1>3, <1>4 DEF RemovalsOK

\* A command is written that is no part of a removal's way yet.
LEMMA WrittenRemovals ==
  ASSUME StreamInv, RemovalsOK, NEW c, Longer(commands, <<c>>, commands'),
         c.op \notin {"keys", "del"}, UNCHANGED <<scored, replies, stored, gone>>,
         \A p \in Poll : \/ Kept4(p) /\ poll'[p].late = poll[p].late /\ Moved(commands, commands', 0, p)
                         \/ poll'[p].at = "reading"
  PROVE  RemovalsOK'
<1>1. \A v, x : /\ ZClear(v, x) => ZClear(v, x)'
                /\ DClear(v, x) => DClear(v, x)'
                /\ GClear(v) => GClear(v)'
  BY WrittenClear DEF StreamInv
<1>2. QueueClear'
  BY <1>1 DEF RemovalsOK, QueueClear, ReadClear, Queued
<1>3. ASSUME NEW p \in Poll PROVE ListClear(p)'
  <2>1. CASE Kept4(p) /\ poll'[p].late = poll[p].late /\ Moved(commands, commands', 0, p)
    <3>1. \A u \in Uam :
            /\ \A x \in Nat : x <= Len(replies) /\ ZClear(u, x) => ZClear(u, x)'
            /\ \A y \in Nat : DClear(u, y) => DClear(u, y)'
            /\ GClear(u) => GClear(u)'
      BY <1>1
    <3>2. QED
      BY <2>1, <3>1, ListKept DEF RemovalsOK, StreamInv
  <2>2. CASE poll'[p].at = "reading"
    BY <2>2 DEF ListClear, At
  <2>3. QED
    BY <2>1, <2>2
<1>4. QED
  BY <1>2, <1>3 DEF RemovalsOK

LEMMA EmitRemovals ==
  ASSUME StreamInv, RemovalsOK, NEW x \in Poll, Emit(x) PROVE RemovalsOK'
<1>1. UNCHANGED <<commands, replies, scored, stored, gone>>
  BY DEF Emit, conn, store
<1>2. QueueClear'
  BY <1>1, SameClear DEF RemovalsOK, QueueClear, Queued
<1>3. ASSUME NEW p \in Poll PROVE ListClear(p)'
  <2>1. CASE p = x
    BY <2>1, EmitTyped DEF ListClear, At, Idle, StreamInv, TypeInv
  <2>2. CASE p # x
    <3>1. poll'[p].at = poll[p].at /\ poll'[p].ids = poll[p].ids /\ poll'[p].late = poll[p].late
      BY <2>2, EmitTyped DEF StreamInv, TypeInv
    <3>2. QED
      BY <1>1, <3>1, SameClear DEF ListClear, At, RemovalsOK
  <2>3. QED
    BY <2>1, <2>2
<1>4. QED
  BY <1>2, <1>3 DEF RemovalsOK

LEMMA ExecuteRemovals ==
  ASSUME StreamInv, RemovalsOK, Execute PROVE RemovalsOK'
<1> DEFINE c == commands[Len(replies) + 1]
<1>1. /\ Len(replies) < Len(commands) /\ UNCHANGED <<half, commands, landed, shown, stored, gone, counts>>
      /\ Zrevrange(c) \/ Get(c) \/ Zrem(c) \/ Del(c) \/ DelQueue(c) \/ Keys(c)
  BY DEF Execute
<1>2. Answered \/ \E p \in Poll, ids \in TopUams : ids \in Seq(Uam) /\ Reads(p, ids)
  BY ExecuteStep DEF StreamInv
<1>3. Len(replies') = Len(replies) + 1 /\ (\A j \in 1 .. Len(replies) : replies'[j] = replies[j])
      /\ Len(replies) \in Nat
  BY <1>2, Lengths DEF Answered, Reads, StreamInv
<1>4. \A v : \A x \in Nat :
        /\ ZClear(v, x) /\ (x <= Len(replies) + 1 \/ ~Zrems(c, v)) => ZClear(v, x)'
        /\ DClear(v, x) => DClear(v, x)'
        /\ GClear(v) => GClear(v)'
  BY <1>1, <1>3, ExecutedClear DEF StreamInv
<1>5. Queued' \subseteq Queued /\ \A v \in Queued' : ~Zrems(c, v)
  BY <1>1 DEF StreamInv, TypeInv, StoreOK, Queued, Zrems, Zrevrange, Get, Zrem, Del, DelQueue, Keys, store
<1>6. QueueClear'
  BY <1>4, <1>5 DEF RemovalsOK, QueueClear, ReadClear
<1>7. \A x \in Nat : x <= Len(replies) => x <= Len(replies) + 1
  BY <1>3
<1>8. 0 \in Nat
  OBVIOUS
<1>9. ASSUME NEW p \in Poll, Kept4(p), poll'[p].late = poll[p].late PROVE ListClear(p)'
  <2>1. Moved(commands, commands', 0, p)
    BY <1>1, SameMoved
  <2>2. QED
    BY <1>3, <1>4, <1>7, <1>8, <1>9, <2>1, ListKept DEF RemovalsOK, StreamInv
<1>10. CASE Answered /\ UNCHANGED poll
  BY <1>6, <1>9, <1>10 DEF RemovalsOK, Answered, AllKept
<1>11. ASSUME NEW x \in Poll, NEW ids \in TopUams, ids \in Seq(Uam), Reads(x, ids) PROVE RemovalsOK'
  <2>1. \A u \in ToSet(ids) : u \in Queued
    BY TopFacts DEF StreamInv, TypeInv, ToSet
  <2>2. poll[x].at = "reading"
    BY <1>11, ReadsPolls DEF StreamInv
  <2>3. ListClear(x)'
    <3>1. poll'[x].at = "read"
      BY <1>11 DEF Reads
    <3>2. PICK a \in Nat : a = Len(replies) + 1
      BY <1>3
    <3>3. ASSUME NEW i \in Nat, ZrevAt(commands', i, x) PROVE i = a
      <4>1. PollOK(commands, Len(replies), x, poll[x]) /\ ZrevAt(commands, a, x)
        BY <1>11, <3>2 DEF StreamInv, PollsOK, Reads
      <4>2. OneRead(commands, x)
        BY <2>2, <4>1 DEF PollOK
      <4>3. QED
        BY <1>1, <3>3, <4>1, <4>2 DEF OneRead
    <3>4. replies'[a] = ids /\ a <= Len(replies) + 1
      BY <1>11, <3>2 DEF Reads
    <3>5. ASSUME NEW u \in ToSet(ids) PROVE ReadClear(u, a)'
      <4>1. ReadClear(u, a)
        BY <2>1 DEF RemovalsOK, QueueClear
      <4>2. QED
        BY <1>4, <3>4, <4>1 DEF ReadClear
    <3>6. QED
      BY <3>1, <3>3, <3>4, <3>5 DEF ListClear, At
  <2>4. ASSUME NEW p \in Poll, p # x PROVE ListClear(p)'
    BY <1>9, <1>11, <2>4 DEF Reads, OthersKept, Kept4
  <2>5. QED
    BY <1>6, <2>3, <2>4 DEF RemovalsOK
<1>12. Answered => UNCHANGED poll
  <2> SUFFICES ASSUME Answered PROVE UNCHANGED poll
    OBVIOUS
  <2>1. c.op # "zrevrange"
    BY DEF Answered
  <2>2. QED
    BY <1>1, <2>1 DEF Zrevrange, Get, Zrem, Del, DelQueue, Keys
<1>13. QED
  BY <1>2, <1>10, <1>11, <1>12

LEMMA DeliverRemovals ==
  ASSUME StreamInv, RemovalsOK, Deliver PROVE RemovalsOK'
<1>1. PICK w \in Seq(Command) : Delivers(w)
  BY DeliverEffects DEF StreamInv
<1>2. \A u \in Uam :
        /\ \A x \in Nat : ZClear(u, x + 1) => ZClear(u, x)'
        /\ GClear(u) /\ DClear(u, 2) => GClear(u)'
        /\ \A y \in Nat : y <= Len(commands) /\ DClear(u, y + 1) => DClear(u, y)'
        /\ ZClear(u, 2) /\ (\A y \in Nat : DClear(u, y)) => \A y \in Nat : DClear(u, y)'
  BY <1>1, DeliveredClear DEF StreamInv
<1>3. \A x \in Nat : x + 1 \in Nat /\ 2 \in Nat
  OBVIOUS
<1>4. QueueClear'
  <2> SUFFICES ASSUME NEW u \in Queued', NEW x \in Nat PROVE ReadClear(u, x)'
    BY DEF QueueClear
  <2>1. u \in Queued /\ u \in Uam
    BY <1>1 DEF Queued, Delivers
  <2>2. ReadClear(u, x + 1) /\ ReadClear(u, 2)
    BY <1>3, <2>1 DEF RemovalsOK, QueueClear
  <2>3. QED
    BY <1>2, <1>3, <2>1, <2>2 DEF ReadClear
<1>5. ASSUME NEW p \in Poll, Kept4(p), Moved(commands, commands', 1, p) PROVE ListClear(p)'
  BY <1>1, <1>5, ListDelivered DEF StreamInv, RemovalsOK
<1>6. /\ 1 \in Nat /\ Len(replies) \in Nat /\ Len(replies) >= 1 /\ Len(commands) \in Nat
      /\ Len(replies) <= Len(commands) /\ 1 \in 1 .. Len(replies)
  <2>1. /\ Len(replies) \in Nat /\ Len(replies) >= 1 /\ Len(commands) \in Nat
        /\ Len(replies) <= Len(commands)
    BY <1>1, HeadOK DEF StreamInv, TypeInv, Delivers
  <2>2. QED
    BY <2>1
\* The poll's own reply is no part of a removal.
<1>7. ASSUME NEW u \in Uam, commands[1].op \in {"zrevrange", "get"} PROVE ZClear(u, 2) /\ DClear(u, 2)
  <2>1. \A j \in Nat : j >= 1 /\ j < 2 => j = 1
    OBVIOUS
  <2>2. ~Zrems(commands[1], u) /\ ~Dels(commands[1], u)
    BY <1>7 DEF Zrems, Dels
  <2>3. /\ \A j \in 1 .. Len(replies) : j \in Nat /\ j >= 1
        /\ \A j \in 1 .. Len(commands) : j \in Nat /\ j >= 1
    OBVIOUS
  <2>4. QED
    BY <2>1, <2>2, <2>3 DEF ZClear, DClear
<1>8. ASSUME NEW x \in Poll, NEW ids \in Seq(Uam), Asks(x, ids) PROVE RemovalsOK'
  <2>1. ListClear(x)'
    <3>1. /\ poll'[x].ids = ids /\ poll'[x].at \in {"ready", "getting"} /\ ids = replies[1]
          /\ commands[1].op = "zrevrange" /\ ZrevAt(commands, 1, x)
      BY <1>8 DEF Asks, ZrevAt
    <3>2. poll[x].at = "read"
      BY <1>8, AsksOwn DEF StreamInv
    <3>3. ASSUME NEW u \in ToSet(ids) PROVE GClear(u)' /\ \A y \in Nat : DClear(u, y)'
      <4>1. ReadClear(u, 1)
        BY <1>6, <3>1, <3>2, <3>3 DEF RemovalsOK, ListClear, At
      <4>2. u \in Uam
        BY <1>6, <3>1, <3>3, ReadList DEF StreamInv
      <4>3. QED
        BY <1>2, <1>7, <3>1, <4>1, <4>2 DEF ReadClear
    <3>4. QED
      BY <3>1, <3>3 DEF ListClear, At
  <2>2. ASSUME NEW p \in Poll, p # x PROVE ListClear(p)'
    <3>1. Kept4(p)
      BY <1>8, <2>2 DEF Asks, OthersKept, Kept4
    <3>2. Moved(commands, commands', 1, p)
      BY <1>8, <2>2, AsksMoved DEF StreamInv
    <3>3. QED
      BY <1>5, <3>1, <3>2
  <2>3. QED
    BY <1>4, <2>1, <2>2 DEF RemovalsOK
<1>9. ASSUME NEW x \in Poll, NEW status \in Known, Learns(x, status) PROVE RemovalsOK'
  <2>1. ListClear(x)'
    <3>1. /\ poll[x].at = "getting" /\ poll'[x].ids = poll[x].ids /\ poll'[x].at \in {"ready", "getting"}
          /\ commands[1].op = "get"
          /\ \A i, k \in Nat : GetAt(commands', i, x, k) => GetAt(commands, i + 1, x, k)
      BY <1>9, LearnsOwn DEF StreamInv, Learns
    <3>2. ASSUME NEW u \in ToSet(poll[x].ids)
          PROVE  GClear(u)' /\ \A i, k \in Nat : GetAt(commands', i, x, k) => DClear(u, i)'
      <4>1. u \in Uam /\ GClear(u) /\ \A i, k \in Nat : GetAt(commands, i, x, k) => DClear(u, i)
        BY <3>1, <3>2, ListsOfUams DEF RemovalsOK, ListClear, At, StreamInv
      <4>2. GClear(u)'
        BY <1>2, <1>7, <3>1, <4>1
      <4>3. ASSUME NEW i \in Nat, NEW k \in Nat, GetAt(commands', i, x, k) PROVE DClear(u, i)'
        <5>1. GetAt(commands, i + 1, x, k) /\ i + 1 \in Nat
          BY <3>1, <4>3
        <5>2. i + 1 \in 1 .. Len(commands)
          BY <5>1 DEF GetAt
        <5>3. i <= Len(commands) /\ DClear(u, i + 1)
          BY <1>6, <4>1, <5>1, <5>2
        <5>4. QED
          BY <1>2, <4>1, <5>3
      <4>4. QED
        BY <4>2, <4>3
    <3>3. QED
      BY <3>1, <3>2 DEF ListClear, At
  <2>2. ASSUME NEW p \in Poll, p # x PROVE ListClear(p)'
    <3>1. Kept4(p)
      BY <1>9, <2>2 DEF Learns, OthersKept, Kept4
    <3>2. Moved(commands, commands', 1, p)
      BY <1>9, <2>2, LearnsMoved DEF StreamInv
    <3>3. QED
      BY <1>5, <3>1, <3>2
  <2>3. QED
    BY <1>4, <2>1, <2>2 DEF RemovalsOK
<1>10. ASSUME NEW v \in Seq(Command), Handles(v) PROVE RemovalsOK'
  BY <1>4, <1>5, <1>10, HandlesMoved DEF RemovalsOK, Handles, AllKept, StreamInv
<1>11. QED
  BY <1>8, <1>9, <1>10, QueueReadStep, DetailReadStep, OtherReplyStep DEF Deliver, StreamInv

LEMMA StepRemovals ==
  ASSUME StreamInv, RemovalsOK, [Next]_vars PROVE RemovalsOK'
<1>1. CASE UNCHANGED vars
  BY <1>1, StoreRemovals DEF vars, store, conn, Kept4, Queued
<1>2. ASSUME NEW u \in Uam, NEW s \in Status, Zadd(u, s) PROVE RemovalsOK'
  BY <1>2, ZaddRemovals
<1>3. ASSUME NEW u \in Uam, RegisterLanded(u) PROVE RemovalsOK'
  <2> DEFINE c == [op |-> "zrem", uam |-> u]
  <2>1. Writes(<<c>>) /\ UNCHANGED <<scored, replies, stored, gone, poll>>
    BY <1>3, RegisterStep DEF StreamInv, RegisterLanded, store
  <2>2. c.op \notin {"keys", "del"} /\ <<c>> \in Seq(Command)
    BY <2>1 DEF Writes
  <2> HIDE DEF c
  <2>3. \A p \in Poll : Kept4(p) /\ poll'[p].late = poll[p].late /\ Moved(commands, commands', 0, p)
    BY <2>1, <2>2, WritesMoved DEF StreamInv, Kept4
  <2>4. QED
    BY <2>1, <2>2, <2>3, WrittenRemovals DEF Writes
<1>4. ASSUME NEW u \in Uam, LandZrem(u) \/ DetailExpire(u) PROVE RemovalsOK'
  <2>1. UNCHANGED <<commands, replies, stored, gone, poll>> /\ Queued' \subseteq Queued
    BY <1>4 DEF LandZrem, DetailExpire, Queued, conn, StreamInv, TypeInv, StoreOK
  <2>2. QED
    BY <2>1, StoreRemovals DEF Kept4
<1>5. ASSUME NEW x \in Poll, StartPoll(x) PROVE RemovalsOK'
  <2> DEFINE c == [op |-> "zrevrange", poll |-> x]
  <2>1. Starts(x) /\ UNCHANGED <<scored, replies, stored, gone>>
    BY <1>5, StartPollStep DEF StreamInv, StartPoll, store
  <2>2. c.op \notin {"keys", "del"} /\ Longer(commands, <<c>>, commands')
    BY <2>1 DEF Starts
  <2> HIDE DEF c
  <2>3. \A p \in Poll : \/ Kept4(p) /\ poll'[p].late = poll[p].late /\ Moved(commands, commands', 0, p)
                        \/ poll'[p].at = "reading"
    BY <2>1, StartsMoved DEF StreamInv, Starts, OthersKept, Kept4
  <2>4. QED
    BY <2>1, <2>2, <2>3, WrittenRemovals
<1>6. ASSUME NEW x \in Poll, Emit(x) PROVE RemovalsOK'
  BY <1>6, EmitRemovals
<1>7. CASE TriggerAutoReset
  <2> DEFINE c == [op |-> "delQueue"]
  <2>1. Writes(<<c>>) /\ UNCHANGED <<scored, replies, stored, gone, poll>>
    BY <1>7, ResetStep DEF StreamInv, TriggerAutoReset, store
  <2>2. c.op \notin {"keys", "del"} /\ <<c>> \in Seq(Command)
    BY <2>1 DEF Writes
  <2> HIDE DEF c
  <2>3. \A p \in Poll : Kept4(p) /\ poll'[p].late = poll[p].late /\ Moved(commands, commands', 0, p)
    BY <2>1, <2>2, WritesMoved DEF StreamInv, Kept4
  <2>4. QED
    BY <2>1, <2>2, <2>3, WrittenRemovals DEF Writes
<1>8. CASE Set
  <2>1. half[1] \in Entry
    <3>1. half \in Seq(Entry) /\ half # << >>
      BY <1>8 DEF StreamInv, TypeInv, StoreOK, Set
    <3>2. QED
      BY <3>1
  <2>2. half[1].uam \in Uam
    BY <2>1 DEF Entry
  <2>3. \A p \in Poll : Kept4(p) /\ poll'[p].late = poll[p].late
    BY <1>8, <2>2, RefreshedTyped DEF StreamInv, TypeInv, Set, Kept4
  <2>4. UNCHANGED <<commands, replies, stored, gone>> /\ Queued' \subseteq Queued
    BY <1>8 DEF Set, conn, Queued
  <2>5. QED
    BY <2>3, <2>4, StoreRemovals
<1>9. CASE Execute
  BY <1>9, ExecuteRemovals
<1>10. CASE Deliver
  BY <1>10, DeliverRemovals
<1>11. QED
  BY <1>1, <1>2, <1>3, <1>4, <1>5, <1>6, <1>7, <1>8, <1>9, <1>10 DEF Next

LEMMA RemovalsKnown == Spec => []RemovalsOK
<1>1. Init => RemovalsOK
  BY DEF Init, RemovalsOK, QueueClear, Queued, ListClear, At, Idle
<1>2. StreamInv /\ RemovalsOK /\ [Next]_vars => RemovalsOK'
  BY StepRemovals
<1>3. QED
  BY <1>1, <1>2, StreamOrdered, PTL DEF Spec

\* A vehicle that the clients were told is gone is not brought back by a list that was
\* read before its removal.
THEOREM GoneStaysGoneHolds == Spec => GoneStaysGone
<1>1. ASSUME StreamInv, RemovalsOK, Next, NEW p \in Poll, Sends(p), ~poll[p].late,
             NEW e \in ToSet(shown')
      PROVE  stored[e.uam] > gone[e.uam]
  <2>1. Emit(p) /\ poll[p].at = "ready"
    BY <1>1, SendsIsEmit DEF StreamInv, Sends, At
  <2>2. PICK at \in Increasing(Kept(p)) : shown' = Details(p, at)
    BY <2>1 DEF Emit
  <2>3. e.uam \in ToSet(poll[p].ids)
    BY <1>1, <2>2, DetailsFacts DEF StreamInv, TypeInv, ToSet
  <2>4. GClear(e.uam) /\ e.uam \in Uam
    BY <1>1, <2>1, <2>3, ListsOfUams DEF RemovalsOK, ListClear, At, StreamInv
  <2>5. stored[e.uam] \in Int /\ gone[e.uam] \in Int
    BY <1>1, <2>4, SinceFacts DEF StreamInv
  <2>6. QED
    BY <2>4, <2>5 DEF GClear
<1>2. StreamInv /\ RemovalsOK /\ [Next]_vars =>
        [\A p \in Poll :
           Sends(p) /\ ~poll[p].late =>
             \A e \in ToSet(shown') : stored[e.uam] > gone[e.uam]]_vars
  BY <1>1
<1>3. QED
  BY <1>2, StreamOrdered, RemovalsKnown, PTL DEF Spec, GoneStaysGone

-----------------------------------------------------------------------------
(* Emergencies *)

\* A ZADD and its SET store one status: what the two keys of a queued vehicle have
\* agrees, but for a vehicle between the two.
HalfOK ==
  /\ half # << >> => scored[half[1].uam] \in {half[1].status, NoStatus}
  /\ \A u \in Queued : half = << >> \/ half[1].uam # u => detail[u] \in {scored[u], NoStatus}

\* The list that a poll has read.
ListOf(p, list) ==
  \/ At(p, "read") /\ \E i \in Nat : ZrevAt(commands, i, p) /\ list = replies[i]
  \/ poll[p].at \in {"getting", "ready"} /\ list = poll[p].ids

\* Status s may become the detail that poll p shows for its k-th id, which is u.
MayShow(p, u, k, s) ==
  \/ s = detail[u]
  \/ \E i \in 1 .. Len(replies) : GetAt(commands, i, p, k) /\ s = replies[i]
  \/ k \in DOMAIN poll[p].got /\ s = poll[p].got[k]

\* Whatever becomes the details of vehicles that did not report meanwhile, it is in
\* the order of the scores.
InScoreOrder(p) ==
  \A list \in Seq(Uam) : ListOf(p, list) =>
    \A k, m \in DOMAIN list :
      k < m /\ list[k] \notin poll[p].fresh /\ list[m] \notin poll[p].fresh =>
        \A s, t \in Status :
          MayShow(p, list[k], k, s) /\ MayShow(p, list[m], m, t) =>
            Score(s.battery, s.distance) >= Score(t.battery, t.distance)

ScoresOK == HalfOK /\ \A p \in Poll : InScoreOrder(p)

\* A step that gives a poll no new list and no new details to show keeps the order.
LEMMA OrderCarried ==
  ASSUME NEW p \in Poll, InScoreOrder(p), poll[p].fresh \subseteq poll'[p].fresh,
         \A list \in Seq(Uam) : ListOf(p, list)' => ListOf(p, list),
         \A list \in Seq(Uam) : ListOf(p, list)' => \A k \in DOMAIN list : \A s \in Status :
           list[k] \notin poll'[p].fresh /\ MayShow(p, list[k], k, s)' => MayShow(p, list[k], k, s)
  PROVE  InScoreOrder(p)'
<1> SUFFICES ASSUME NEW list \in Seq(Uam), ListOf(p, list)', NEW k \in DOMAIN list, NEW m \in DOMAIN list,
                    k < m, list[k] \notin poll'[p].fresh, list[m] \notin poll'[p].fresh,
                    NEW s \in Status, NEW t \in Status,
                    MayShow(p, list[k], k, s)', MayShow(p, list[m], m, t)'
             PROVE  Score(s.battery, s.distance) >= Score(t.battery, t.distance)
  BY DEF InScoreOrder
<1>1. /\ ListOf(p, list) /\ list[k] \notin poll[p].fresh /\ list[m] \notin poll[p].fresh
      /\ MayShow(p, list[k], k, s) /\ MayShow(p, list[m], m, t)
  OBVIOUS
<1>2. QED
  BY <1>1 DEF InScoreOrder

\* A poll that takes no step, when the connection only grows by replies and commands
\* that are none of its own, and the details it may show only get fewer.
LEMMA ScoresKept ==
  ASSUME TypeInv, PollsOK, NEW p \in Poll, InScoreOrder(p), Kept4(p), poll[p].fresh \subseteq poll'[p].fresh,
         Moved(commands, commands', 0, p), \A i \in 1 .. Len(replies) : replies'[i] = replies[i],
         \A i \in 1 .. Len(replies') : i \in 1 .. Len(replies)
                                       \/ \A k \in Nat : ~GetAt(commands, i, p, k),
         HasRead(p) => \A u \in Uam : u \notin poll'[p].fresh => detail'[u] \in {detail[u], NoStatus}
  PROVE  InScoreOrder(p)'
<1>1. /\ poll'[p].at = poll[p].at /\ poll'[p].ids = poll[p].ids /\ poll'[p].got = poll[p].got
  BY DEF Kept4
<1>2. \A i \in Nat : i + 0 = i
  OBVIOUS
<1>3. /\ \A i \in Nat : ZrevAt(commands', i, p) => ZrevAt(commands, i, p)
      /\ \A i, k \in Nat : GetAt(commands', i, p, k) => GetAt(commands, i, p, k)
  BY <1>2 DEF Moved
<1>4. ASSUME NEW list \in Seq(Uam), ListOf(p, list)' PROVE ListOf(p, list)
  <2>1. CASE poll[p].at = "read"
    <3>1. PICK i \in Nat : ZrevAt(commands', i, p) /\ list = replies'[i]
      BY <1>1, <1>4, <2>1 DEF ListOf, At
    <3>2. ZrevAt(commands, i, p)
      BY <1>3, <3>1
    <3>3. i \in 1 .. Len(replies)
      <4>1. i <= Len(replies)
        BY <2>1, <3>2 DEF PollsOK, PollOK
      <4>2. QED
        BY <3>2, <4>1, Lengths DEF ZrevAt
    <3>4. QED
      BY <2>1, <3>1, <3>2, <3>3 DEF ListOf, At
  <2>2. CASE poll[p].at # "read"
    BY <1>1, <1>4, <2>2 DEF ListOf, At
  <2>3. QED
    BY <2>1, <2>2
<1>5. ASSUME NEW list \in Seq(Uam), ListOf(p, list)', NEW k \in DOMAIN list, NEW s \in Status,
             list[k] \notin poll'[p].fresh, MayShow(p, list[k], k, s)'
      PROVE  MayShow(p, list[k], k, s)
  <2>1. k \in Nat /\ list[k] \in Uam /\ HasRead(p) /\ s # NoStatus
    BY <1>1, <1>5, QueueStreamAssumption DEF ListOf, At, HasRead
  <2>2. CASE s = detail'[list[k]]
    BY <1>5, <2>1, <2>2 DEF MayShow
  <2>3. CASE \E i \in 1 .. Len(replies') : GetAt(commands', i, p, k) /\ s = replies'[i]
    <3>1. PICK i \in 1 .. Len(replies') : GetAt(commands', i, p, k) /\ s = replies'[i]
      BY <2>3
    <3>2. GetAt(commands, i, p, k)
      BY <1>3, <2>1, <3>1
    <3>3. QED
      BY <2>1, <3>1, <3>2 DEF MayShow
  <2>4. CASE k \in DOMAIN poll'[p].got /\ s = poll'[p].got[k]
    BY <1>1, <2>4 DEF MayShow
  <2>5. QED
    BY <1>5, <2>2, <2>3, <2>4 DEF MayShow
<1>6. QED
  BY <1>4, <1>5, OrderCarried

\* A poll whose commands move up when a reply is handled.
LEMMA ScoresMoved ==
  ASSUME TypeInv, PollsOK, NEW p \in Poll, InScoreOrder(p), Kept4(p), poll'[p].fresh = poll[p].fresh,
         Moved(commands, commands', 1, p), UNCHANGED detail, Len(replies') = Len(replies) - 1,
         \A i \in 1 .. (Len(replies) - 1) : replies'[i] = replies[i + 1]
  PROVE  InScoreOrder(p)'
<1>1. /\ poll'[p].at = poll[p].at /\ poll'[p].ids = poll[p].ids /\ poll'[p].got = poll[p].got
  BY DEF Kept4
<1>2. Len(replies) \in Nat
  BY Lengths
<1>3. /\ \A i \in Nat : i + 1 \in Nat
      /\ \A i \in 1 .. (Len(replies) - 1) : i \in Nat /\ i + 1 \in 1 .. Len(replies)
  BY <1>2
<1>4. ASSUME NEW list \in Seq(Uam), ListOf(p, list)' PROVE ListOf(p, list)
  <2>1. CASE poll[p].at = "read"
    <3>1. PICK i \in Nat : ZrevAt(commands', i, p) /\ list = replies'[i]
      BY <1>1, <1>4, <2>1 DEF ListOf, At
    <3>2. i + 1 \in Nat /\ ZrevAt(commands, i + 1, p)
      BY <3>1 DEF Moved
    <3>3. i \in 1 .. (Len(replies) - 1)
      <4>1. i + 1 <= Len(replies)
        BY <2>1, <3>2 DEF PollsOK, PollOK
      <4>2. i >= 1
        BY <3>1 DEF ZrevAt
      <4>3. QED
        BY <1>2, <4>1, <4>2
    <3>4. list = replies[i + 1]
      BY <3>1, <3>3
    <3>5. QED
      BY <2>1, <3>2, <3>4 DEF ListOf, At
  <2>2. CASE poll[p].at # "read"
    BY <1>1, <1>4, <2>2 DEF ListOf, At
  <2>3. QED
    BY <2>1, <2>2
<1>5. ASSUME NEW list \in Seq(Uam), NEW k \in DOMAIN list, NEW s \in Status, MayShow(p, list[k], k, s)'
      PROVE  MayShow(p, list[k], k, s)
  <2>1. CASE \E i \in 1 .. Len(replies') : GetAt(commands', i, p, k) /\ s = replies'[i]
    <3>1. PICK i \in 1 .. (Len(replies) - 1) : GetAt(commands', i, p, k) /\ s = replies'[i]
      BY <2>1
    <3>2. i \in Nat /\ k \in Nat /\ i + 1 \in 1 .. Len(replies) /\ replies'[i] = replies[i + 1]
      BY <1>3, <3>1
    <3>3. GetAt(commands, i + 1, p, k)
      BY <3>1, <3>2 DEF Moved
    <3>4. QED
      BY <3>1, <3>2, <3>3 DEF MayShow
  <2>2. QED
    BY <1>1, <1>5, <2>1 DEF MayShow
<1>6. QED
  BY <1>4, <1>5, OrderCarried

LEMMA HalfFacts ==
  ASSUME StoreOK, half # << >>
  PROVE  half[1] \in Entry /\ half[1].uam \in Uam /\ half[1].status \in Status
         /\ ToSet(half) = {half[1]}
<1>1. half \in Seq(Entry) /\ Len(half) = 1
  <2>1. half \in Seq(Entry) /\ Len(half) \in Nat /\ Len(half) <= 1
    BY DEF StoreOK
  <2>2. Len(half) # 0
    BY <2>1
  <2>3. PICK n \in Nat : n = Len(half)
    BY <2>1
  <2>4. n <= 1 /\ n # 0
    BY <2>1, <2>2, <2>3
  <2>5. n = 1
    BY <2>4
  <2>6. QED
    BY <2>1, <2>3, <2>5
<1>2. DOMAIN half = {1}
  BY <1>1
<1>3. half[1] \in Entry
  BY <1>1
<1>4. QED
  BY <1>2, <1>3 DEF Entry, ToSet

LEMMA ZaddScores ==
  ASSUME StreamInv, ScoresOK, NEW u \in Uam, NEW s \in Status, Zadd(u, s) PROVE ScoresOK'
<1>1. /\ UNCHANGED <<commands, replies, detail>> /\ half = << >>
      /\ scored' = [scored EXCEPT ![u] = s] /\ scored \in [Uam -> Known]
      /\ half' = <<[uam |-> u, status |-> s]>>
  BY DEF Zadd, conn, StreamInv, TypeInv, StoreOK
<1>2. half' # << >> /\ half'[1].uam = u /\ half'[1].status = s
  BY <1>1
<1>3. HalfOK'
  BY <1>1, <1>2 DEF ScoresOK, HalfOK, Queued
<1>4. ASSUME NEW p \in Poll PROVE InScoreOrder(p)'
  <2>1. Kept4(p) /\ poll[p].fresh \subseteq poll'[p].fresh
    BY RefreshedTyped DEF StreamInv, TypeInv, Zadd, Kept4
  <2>2. QED
    BY <1>1, <2>1, SameMoved, ScoresKept DEF ScoresOK, StreamInv
<1>5. QED
  BY <1>3, <1>4 DEF ScoresOK

LEMMA SetScores == ASSUME StreamInv, ScoresOK, Set PROVE ScoresOK'
<1>1. /\ UNCHANGED <<commands, replies, scored>> /\ half # << >> /\ half' = << >>
      /\ detail' = [detail EXCEPT ![half[1].uam] = half[1].status] /\ detail \in [Uam -> Known]
  BY DEF Set, conn, StreamInv, TypeInv, StoreOK
<1>2. half[1].uam \in Uam /\ half[1].status \in Status
  BY <1>1, HalfFacts DEF StreamInv, TypeInv
<1>3. HalfOK'
  <2> SUFFICES ASSUME NEW u \in Queued PROVE detail'[u] \in {scored[u], NoStatus}
    BY <1>1 DEF HalfOK, Queued
  <2>1. CASE u = half[1].uam
    BY <1>1, <1>2, <2>1 DEF ScoresOK, HalfOK, Queued
  <2>2. CASE u # half[1].uam
    BY <1>1, <1>2, <2>2 DEF ScoresOK, HalfOK, Queued
  <2>3. QED
    BY <2>1, <2>2
<1>4. ASSUME NEW p \in Poll PROVE InScoreOrder(p)'
  <2>1. /\ Kept4(p)
        /\ poll'[p].fresh = IF HasRead(p) THEN poll[p].fresh \cup {half[1].uam} ELSE poll[p].fresh
    BY <1>2, RefreshedTyped DEF StreamInv, TypeInv, Set, Kept4
  <2>2. HasRead(p) => \A u \in Uam : u \notin poll'[p].fresh => detail'[u] = detail[u]
    BY <1>1, <2>1
  <2>3. QED
    BY <1>1, <2>1, <2>2, SameMoved, ScoresKept DEF ScoresOK, StreamInv
<1>5. QED
  BY <1>3, <1>4 DEF ScoresOK

\* Steps that only take something out of Redis, or write a command.
LEMMA QuietScores ==
  ASSUME StreamInv, ScoresOK, UNCHANGED <<half, replies>>,
         \A u \in Uam : scored'[u] \in {scored[u], NoStatus} /\ detail'[u] \in {detail[u], NoStatus},
         \A p \in Poll : \/ Kept4(p) /\ poll'[p].fresh = poll[p].fresh /\ Moved(commands, commands', 0, p)
                         \/ ~HasRead(p)'
  PROVE  ScoresOK'
<1>1. HalfOK'
  <2>1. half # << >> => half[1].uam \in Uam
    BY HalfFacts DEF StreamInv, TypeInv
  <2>2. QED
    BY <2>1 DEF ScoresOK, HalfOK, Queued
<1>2. ASSUME NEW p \in Poll PROVE InScoreOrder(p)'
  <2>1. CASE Kept4(p) /\ poll'[p].fresh = poll[p].fresh /\ Moved(commands, commands', 0, p)
    BY <2>1, ScoresKept DEF ScoresOK, StreamInv
  <2>2. CASE ~HasRead(p)'
    BY <2>2 DEF InScoreOrder, ListOf, At, HasRead
  <2>3. QED
    BY <2>1, <2>2
<1>3. QED
  BY <1>1, <1>2 DEF ScoresOK

\* The list that Redis returns is in the order of the scores, and what the details
\* of the vehicles on it are agrees with those.
LEMMA ReadScores ==
  ASSUME StreamInv, ScoresOK, NEW x \in Poll, NEW ids \in TopUams, ids \in Seq(Uam), Reads(x, ids),
         UNCHANGED <<scored, detail, half>>, poll'[x].fresh = {e.uam : e \in ToSet(half)}
  PROVE  InScoreOrder(x)'
<1>1. /\ poll[x].at = "reading" /\ poll'[x].at = "read" /\ poll'[x].got = << >>
      /\ UNCHANGED commands /\ NoGets(commands, x) /\ OneRead(commands, x)
  <2>1. poll[x].at = "reading"
    BY ReadsPolls DEF StreamInv
  <2>2. PollOK(commands, Len(replies), x, poll[x])
    BY DEF StreamInv, PollsOK
  <2>3. QED
    BY <2>1, <2>2 DEF PollOK, Reads
<1>2. PICK a \in Nat : a = Len(replies) + 1 /\ ZrevAt(commands, a, x) /\ replies'[a] = ids
  BY Lengths DEF Reads, StreamInv
<1>3. ASSUME NEW list \in Seq(Uam), ListOf(x, list)' PROVE list = ids
  <2>1. PICK i \in Nat : ZrevAt(commands, i, x) /\ list = replies'[i]
    BY <1>1, <1>3 DEF ListOf, At
  <2>2. i = a
    BY <1>1, <1>2, <2>1 DEF OneRead
  <2>3. QED
    BY <1>2, <2>1, <2>2
<1>4. ASSUME NEW k \in DOMAIN ids, ids[k] \notin poll'[x].fresh, NEW s \in Status,
             MayShow(x, ids[k], k, s)'
      PROVE  ids[k] \in Queued /\ s = scored[ids[k]]
  <2>1. ids[k] \in Queued /\ ids[k] \in Uam /\ k \in Nat
    BY TopFacts DEF StreamInv, TypeInv
  <2>2. s = detail[ids[k]] /\ s # NoStatus
    <3>1. \/ k \in DOMAIN poll'[x].got
          \/ \E i \in 1 .. Len(replies') : GetAt(commands', i, x, k)
          \/ s = detail'[ids[k]]
      BY <1>4 DEF MayShow
    <3>2. k \notin DOMAIN poll'[x].got
      BY <1>1
    <3>3. ASSUME NEW i \in 1 .. Len(replies') PROVE ~GetAt(commands', i, x, k)
      <4>1. Len(replies') \in Nat
        BY <1>2, Lengths DEF Reads, StreamInv
      <4>2. i \in Nat
        BY <4>1
      <4>3. QED
        BY <1>1, <2>1, <4>2 DEF NoGets
    <3>4. s = detail[ids[k]]
      BY <3>1, <3>2, <3>3
    <3>5. s # NoStatus
      BY QueueStreamAssumption
    <3>6. QED
      BY <3>4, <3>5
  <2>3. half = << >> \/ half[1].uam # ids[k]
    BY <1>4, HalfFacts DEF StreamInv, TypeInv
  <2>4. detail[ids[k]] \in {scored[ids[k]], NoStatus}
    BY <2>1, <2>3 DEF ScoresOK, HalfOK
  <2>5. QED
    BY <2>1, <2>2, <2>4
<1>5. ASSUME NEW k \in DOMAIN ids, NEW m \in DOMAIN ids, k < m
      PROVE  ScoreOf(ids[k]) >= ScoreOf(ids[m])
  <2> DEFINE size == IF Cardinality(Queued) > Limit THEN Limit ELSE Cardinality(Queued)
  <2>1. ids \in [1 .. size -> Queued]
        /\ \A i, j \in 1 .. size : i < j => ScoreOf(ids[i]) >= ScoreOf(ids[j])
    BY DEF TopUams
  <2>2. DOMAIN ids = 1 .. size
    BY <2>1
  <2>3. QED
    BY <1>5, <2>1, <2>2
<1>6. QED
  BY <1>3, <1>4, <1>5 DEF InScoreOrder, ScoreOf

LEMMA ExecuteScores == ASSUME StreamInv, ScoresOK, Execute PROVE ScoresOK'
<1> DEFINE c == commands[Len(replies) + 1]
<1>1. /\ Len(replies) < Len(commands) /\ UNCHANGED <<half, commands, landed, shown, stored, gone, counts>>
      /\ Zrevrange(c) \/ Get(c) \/ Zrem(c) \/ Del(c) \/ DelQueue(c) \/ Keys(c)
  BY DEF Execute
<1>2. Answered \/ \E p \in Poll, ids \in TopUams : ids \in Seq(Uam) /\ Reads(p, ids)
  BY ExecuteStep DEF StreamInv
<1>3. PICK a \in Nat : a = Len(replies) + 1
  BY Lengths DEF StreamInv
<1>4. Len(replies') = a /\ (\A j \in 1 .. Len(replies) : replies'[j] = replies[j])
  BY <1>2, <1>3 DEF Answered, Reads
<1>5. \A j \in 1 .. a : j \in 1 .. Len(replies) \/ j = a
  BY <1>3, Lengths DEF StreamInv
<1>6. c \in Command /\ c = commands[a] /\ a \in 1 .. Len(commands)
  BY <1>1, <1>3, NextCommand DEF StreamInv
<1> HIDE DEF c
<1>7. \A u \in Uam : scored'[u] \in {scored[u], NoStatus} /\ detail'[u] \in {detail[u], NoStatus}
  BY <1>1 DEF StreamInv, TypeInv, StoreOK, Zrevrange, Get, Zrem, Del, DelQueue, Keys, store
<1>8. HalfOK'
  <2>1. half # << >> => half[1].uam \in Uam
    BY HalfFacts DEF StreamInv, TypeInv
  <2>2. QED
    BY <1>1, <1>7, <2>1 DEF ScoresOK, HalfOK, Queued
<1>9. ASSUME NEW p \in Poll, Kept4(p), poll'[p].fresh = poll[p].fresh,
             \A k \in Nat : ~GetAt(commands, a, p, k)
      PROVE  InScoreOrder(p)'
  <2>1. Moved(commands, commands', 0, p)
    BY <1>1, SameMoved
  <2>2. \A i \in 1 .. Len(replies') : i \in 1 .. Len(replies) \/ \A k \in Nat : ~GetAt(commands, i, p, k)
    BY <1>4, <1>5, <1>9
  <2>3. QED
    BY <1>4, <1>7, <1>9, <2>1, <2>2, ScoresKept DEF ScoresOK, StreamInv
<1>10. CASE Zrevrange(c)
  <2>1. c.op = "zrevrange" /\ UNCHANGED <<scored, detail>>
    BY <1>10 DEF Zrevrange, store
  <2>2. PICK x \in Poll, ids \in TopUams : ids \in Seq(Uam) /\ Reads(x, ids)
    BY <1>2, <1>3, <1>6, <2>1 DEF Answered
  <2>3. x = c.poll
    BY <1>3, <1>6, <2>2 DEF Reads, ZrevAt
  <2>4. poll'[x].fresh = {e.uam : e \in ToSet(half)}
    BY <1>6, <1>10, <2>3, ReadTyped DEF StreamInv, TypeInv
  <2>5. InScoreOrder(x)'
    BY <1>1, <2>1, <2>2, <2>4, ReadScores
  <2>6. ASSUME NEW p \in Poll, p # x PROVE InScoreOrder(p)'
    <3>1. Kept4(p) /\ poll'[p].fresh = poll[p].fresh
      BY <2>2, <2>6 DEF Reads, OthersKept, Kept4
    <3>2. \A k \in Nat : ~GetAt(commands, a, p, k)
      BY <1>6, <2>1 DEF GetAt
    <3>3. QED
      BY <1>9, <3>1, <3>2
  <2>7. QED
    BY <1>8, <2>5, <2>6 DEF ScoresOK
<1>11. CASE Zrem(c) \/ Del(c) \/ DelQueue(c) \/ Keys(c)
  <2>1. c.op # "get" /\ UNCHANGED poll
    BY <1>11 DEF Zrem, Del, DelQueue, Keys
  <2>2. \A p : \A k \in Nat : ~GetAt(commands, a, p, k)
    BY <1>6, <2>1 DEF GetAt
  <2>3. QED
    BY <1>8, <1>9, <2>1, <2>2 DEF ScoresOK, Kept4
<1>12. CASE Get(c)
  <2>1. c.op = "get" /\ UNCHANGED <<poll, detail>> /\ Reply(detail[c.uam])
    BY <1>12 DEF Get, store
  <2>2. replies'[a] = detail[c.uam]
    BY <1>3, <2>1 DEF Reply, StreamInv, TypeInv, ConnOK
  <2>3. ASSUME NEW p \in Poll PROVE InScoreOrder(p)'
    <3>1. ASSUME NEW list \in Seq(Uam), ListOf(p, list)' PROVE ListOf(p, list)
      <4>1. CASE poll[p].at = "read"
        <5>1. PICK i \in Nat : ZrevAt(commands, i, p) /\ list = replies'[i]
          BY <1>1, <2>1, <3>1, <4>1 DEF ListOf, At
        <5>2. i \in 1 .. Len(replies)
          <6>1. i <= Len(replies)
            BY <4>1, <5>1 DEF PollsOK, PollOK, StreamInv
          <6>2. QED
            BY <5>1, <6>1, Lengths DEF ZrevAt, StreamInv
        <5>3. QED
          BY <1>4, <4>1, <5>1, <5>2 DEF ListOf, At
      <4>2. CASE poll[p].at # "read"
        BY <2>1, <3>1, <4>2 DEF ListOf, At
      <4>3. QED
        BY <4>1, <4>2
    <3>2. ASSUME NEW list \in Seq(Uam), ListOf(p, list)', NEW k \in DOMAIN list, NEW s \in Status,
                 MayShow(p, list[k], k, s)'
          PROVE  MayShow(p, list[k], k, s)
      <4>1. CASE \E i \in 1 .. Len(replies') : GetAt(commands', i, p, k) /\ s = replies'[i]
        <5>1. PICK i \in 1 .. a : GetAt(commands, i, p, k) /\ s = replies'[i]
          BY <1>1, <1>4, <4>1
        <5>2. CASE i \in 1 .. Len(replies)
          BY <1>4, <5>1, <5>2 DEF MayShow
        <5>3. CASE i = a
          <6>1. k \in Nat /\ GetAt(commands, a, p, k)
            BY <5>1, <5>3
          <6>2. PollOK(commands, Len(replies), p, poll[p]) /\ Len(replies) \in Nat
                /\ poll[p].at \in {"idle", "reading", "read", "getting", "ready"}
            BY Lengths DEF StreamInv, PollsOK, TypeInv, PollsTyped, InProgress
          <6>3. poll[p].at = "getting" /\ commands[a].uam = poll[p].ids[k]
            BY <6>1, <6>2, WhoseGet
          <6>4. list = poll[p].ids
            BY <3>1, <3>2, <6>3 DEF ListOf, At
          <6>5. s = detail[list[k]]
            BY <1>6, <2>2, <5>1, <5>3, <6>3, <6>4
          <6>6. QED
            BY <6>5 DEF MayShow
        <5>4. QED
          BY <1>5, <5>2, <5>3
      <4>2. QED
        BY <2>1, <3>2, <4>1 DEF MayShow
    <3>3. poll[p].fresh \subseteq poll'[p].fresh
      BY <2>1
    <3>4. QED
      BY <3>1, <3>2, <3>3, OrderCarried DEF ScoresOK
  <2>4. QED
    BY <1>8, <2>3 DEF ScoresOK
<1>13. QED
  BY <1>1, <1>10, <1>11, <1>12 DEF c

LEMMA AsksScores ==
  ASSUME StreamInv, ScoresOK, NEW x \in Poll, NEW ids \in Seq(Uam), Asks(x, ids), UNCHANGED detail,
         poll'[x].fresh = poll[x].fresh
  PROVE  InScoreOrder(x)'
<1>1. /\ poll[x].at = "read" /\ poll[x].got = << >>
      /\ \A i, k \in Nat : GetAt(commands', i, x, k) => k \in 1 .. Len(ids) /\ i = Len(commands) - 1 + k
  BY AsksOwn DEF StreamInv
<1>2. /\ poll'[x].ids = ids /\ poll'[x].got = << >> /\ poll'[x].at \in {"ready", "getting"}
      /\ ZrevAt(commands, 1, x) /\ ids = replies[1] /\ Len(replies') = Len(replies) - 1
  BY <1>1 DEF Asks
<1>3. \A list \in Seq(Uam) : ListOf(x, list)' => ListOf(x, list)
  BY <1>1, <1>2 DEF ListOf, At
<1>4. \A i \in 1 .. Len(replies') : \A k \in Nat : ~GetAt(commands', i, x, k)
  <2> SUFFICES ASSUME NEW i \in 1 .. Len(replies'), NEW k \in Nat, GetAt(commands', i, x, k) PROVE FALSE
    OBVIOUS
  <2>1. Len(replies) \in Nat /\ Len(commands) \in Nat /\ Len(replies) <= Len(commands)
    BY Lengths DEF StreamInv
  <2>2. i \in Nat /\ i <= Len(replies) - 1
    BY <1>2, <2>1
  <2>3. k \in 1 .. Len(ids) /\ i = Len(commands) - 1 + k
    BY <1>1, <2>2
  <2>4. QED
    BY <2>1, <2>2, <2>3
<1>5. ASSUME NEW list \in Seq(Uam), NEW k \in DOMAIN list, NEW s \in Status, MayShow(x, list[k], k, s)'
      PROVE  MayShow(x, list[k], k, s)
  <2>1. k \in Nat
    OBVIOUS
  <2>2. QED
    BY <1>2, <1>4, <1>5, <2>1 DEF MayShow
<1>6. QED
  BY <1>3, <1>5, OrderCarried DEF ScoresOK

LEMMA LearnsScores ==
  ASSUME StreamInv, ScoresOK, NEW x \in Poll, NEW status \in Known, Learns(x, status), UNCHANGED detail,
         poll'[x].fresh = poll[x].fresh
  PROVE  InScoreOrder(x)'
<1>1. /\ poll[x].at = "getting" /\ GetAt(commands, 1, x, Len(poll[x].got) + 1)
      /\ \A i, k \in Nat : GetAt(commands', i, x, k) => GetAt(commands, i + 1, x, k)
  BY LearnsOwn DEF StreamInv
<1>2. /\ poll'[x].ids = poll[x].ids /\ poll'[x].got = Append(poll[x].got, status)
      /\ poll'[x].at \in {"ready", "getting"} /\ status = replies[1] /\ replies # << >>
      /\ Len(replies') = Len(replies) - 1
      /\ \A i \in 1 .. (Len(replies) - 1) : replies'[i] = replies[i + 1]
  BY <1>1 DEF Learns
<1>3. Len(replies) \in Nat /\ 1 \in 1 .. Len(replies)
  <2>1. Len(replies) \in Nat /\ Len(replies) >= 1
    BY <1>2, HeadOK DEF StreamInv, TypeInv
  <2>2. QED
    BY <2>1
<1>4. \A list \in Seq(Uam) : ListOf(x, list)' => ListOf(x, list)
  BY <1>1, <1>2 DEF ListOf, At
<1>5. ASSUME NEW list \in Seq(Uam), NEW k \in DOMAIN list, NEW s \in Status, MayShow(x, list[k], k, s)'
      PROVE  MayShow(x, list[k], k, s)
  <2>1. CASE \E i \in 1 .. Len(replies') : GetAt(commands', i, x, k) /\ s = replies'[i]
    <3>1. PICK i \in 1 .. (Len(replies) - 1) : GetAt(commands', i, x, k) /\ s = replies'[i]
      BY <1>2, <2>1
    <3>2. i \in Nat /\ k \in Nat /\ i + 1 \in 1 .. Len(replies)
      BY <1>3, <3>1
    <3>3. GetAt(commands, i + 1, x, k) /\ s = replies[i + 1]
      BY <1>1, <1>2, <3>1, <3>2
    <3>4. QED
      BY <3>2, <3>3 DEF MayShow
  <2>2. CASE k \in DOMAIN poll'[x].got /\ s = poll'[x].got[k]
    <3>1. poll[x].got \in Seq(Known) /\ Len(poll[x].got) \in Nat
      BY DEF StreamInv, TypeInv, PollsTyped, InProgress
    <3>2. PICK g \in Nat : g = Len(poll[x].got)
      BY <3>1
    <3>3. /\ DOMAIN poll'[x].got = 1 .. (g + 1) /\ poll'[x].got[g + 1] = status
          /\ \A i \in 1 .. g : i \in DOMAIN poll[x].got /\ poll'[x].got[i] = poll[x].got[i]
      BY <1>2, <3>1, <3>2
    <3>4. CASE k \in 1 .. g
      BY <2>2, <3>3, <3>4 DEF MayShow
    <3>5. CASE k = g + 1
      <4>1. GetAt(commands, 1, x, k) /\ s = replies[1]
        BY <1>1, <1>2, <2>2, <3>2, <3>3, <3>5
      <4>2. QED
        BY <1>3, <4>1 DEF MayShow
    <3>6. k \in 1 .. g \/ k = g + 1
      <4>1. k \in 1 .. (g + 1)
        BY <2>2, <3>3
      <4>2. QED
        BY <4>1
    <3>7. QED
      BY <3>4, <3>5, <3>6
  <2>3. QED
    BY <1>5, <2>1, <2>2 DEF MayShow
<1>6. poll[x].fresh \subseteq poll'[x].fresh
  OBVIOUS
<1>7. QED
  BY <1>4, <1>5, <1>6, OrderCarried DEF ScoresOK

LEMMA DeliverScores == ASSUME StreamInv, ScoresOK, Deliver PROVE ScoresOK'
<1>1. /\ UNCHANGED <<scored, detail, half>> /\ replies # << >>
      /\ UNCHANGED <<store, half, stored, counts>> /\ replies' = Tail(replies)
  BY DEF Deliver, store
<1>2. HalfOK'
  BY <1>1 DEF ScoresOK, HalfOK, Queued
<1>3. PICK w \in Seq(Command) : Delivers(w)
  BY DeliverEffects DEF StreamInv
<1>4. ASSUME NEW p \in Poll, Kept4(p), poll'[p].fresh = poll[p].fresh, Moved(commands, commands', 1, p)
      PROVE  InScoreOrder(p)'
  BY <1>1, <1>3, <1>4, ScoresMoved DEF Delivers, ScoresOK, StreamInv
<1> DEFINE c == Head(commands)
           v == Head(replies)
<1>5. CASE QueueRead(c, v)
  <2>1. /\ c.poll \in Poll /\ v \in Seq(Uam) /\ Asks(c.poll, v)
        /\ poll'[c.poll].fresh = poll[c.poll].fresh
    BY <1>1, <1>5, QueueReadStep DEF StreamInv
  <2> HIDE DEF c, v
  <2>9. PICK x \in Poll : x = c.poll
    BY <2>1
  <2>2. InScoreOrder(x)'
    BY <1>1, <2>1, <2>9, AsksScores
  <2>3. ASSUME NEW p \in Poll, p # x PROVE InScoreOrder(p)'
    <3>1. Kept4(p) /\ poll'[p].fresh = poll[p].fresh
      BY <2>1, <2>9, <2>3 DEF Asks, OthersKept, Kept4
    <3>2. Moved(commands, commands', 1, p)
      BY <2>1, <2>9, <2>3, AsksMoved DEF StreamInv
    <3>3. QED
      BY <1>4, <3>1, <3>2
  <2>4. QED
    BY <1>2, <2>2, <2>3 DEF ScoresOK
<1>6. CASE DetailRead(c, v)
  <2>1. /\ c.poll \in Poll /\ v \in Known /\ Learns(c.poll, v)
        /\ poll'[c.poll].fresh = poll[c.poll].fresh
    BY <1>1, <1>6, DetailReadStep DEF StreamInv
  <2> HIDE DEF c, v
  <2>9. PICK x \in Poll : x = c.poll
    BY <2>1
  <2>2. InScoreOrder(x)'
    BY <1>1, <2>1, <2>9, LearnsScores
  <2>3. ASSUME NEW p \in Poll, p # x PROVE InScoreOrder(p)'
    <3>1. Kept4(p) /\ poll'[p].fresh = poll[p].fresh
      BY <2>1, <2>9, <2>3 DEF Learns, OthersKept, Kept4
    <3>2. Moved(commands, commands', 1, p)
      BY <2>1, <2>9, <2>3, LearnsMoved DEF StreamInv
    <3>3. QED
      BY <1>4, <3>1, <3>2
  <2>4. QED
    BY <1>2, <2>2, <2>3 DEF ScoresOK
<1>7. CASE Zremmed(c, v) \/ LandingDeleted(c) \/ QueueDeleted(c, v) \/ KeysListed(c, v) \/ KeysDeleted(c)
  <2>1. PICK x \in Seq(Command) : Handles(x)
    BY <1>1, <1>7, OtherReplyStep DEF StreamInv
  <2>2. poll' = poll \/ poll' = Overtaken
    BY <1>1, <1>7, GoneStep DEF StreamInv
  <2>3. \A p \in Poll : Kept4(p) /\ poll'[p].fresh = poll[p].fresh
    BY <2>2, OvertakenTyped DEF Kept4, StreamInv, TypeInv
  <2>4. QED
    BY <1>2, <1>4, <2>1, <2>3, HandlesMoved DEF ScoresOK, StreamInv
<1>8. QED
  BY <1>5, <1>6, <1>7 DEF Deliver

LEMMA EmitScores == ASSUME StreamInv, ScoresOK, NEW x \in Poll, Emit(x) PROVE ScoresOK'
<1>1. UNCHANGED <<commands, replies, scored, detail, half>>
  BY DEF Emit, conn, store
<1>2. HalfOK'
  BY <1>1 DEF ScoresOK, HalfOK, Queued
<1>3. ASSUME NEW p \in Poll PROVE InScoreOrder(p)'
  <2>1. CASE p = x
    BY <2>1, EmitTyped DEF InScoreOrder, ListOf, At, Idle, StreamInv, TypeInv
  <2>2. CASE p # x
    <3>1. /\ poll'[p].at = poll[p].at /\ poll'[p].ids = poll[p].ids
          /\ poll'[p].got = poll[p].got /\ poll'[p].fresh = poll[p].fresh
      BY <2>2, EmitTyped DEF StreamInv, TypeInv
    <3>2. \A list : ListOf(p, list)' => ListOf(p, list)
      BY <1>1, <3>1 DEF ListOf, At
    <3>3. \A u, k, s : MayShow(p, u, k, s)' => MayShow(p, u, k, s)
      BY <1>1, <3>1 DEF MayShow
    <3>4. QED
      BY <3>1, <3>2, <3>3, OrderCarried DEF ScoresOK
  <2>3. QED
    BY <2>1, <2>2
<1>4. QED
  BY <1>2, <1>3 DEF ScoresOK

LEMMA StepScores ==
  ASSUME StreamInv, ScoresOK, [Next]_vars PROVE ScoresOK'
<1>1. CASE UNCHANGED vars
  BY <1>1, QuietScores, SameMoved DEF vars, store, conn, Kept4
<1>2. ASSUME NEW u \in Uam, NEW s \in Status, Zadd(u, s) PROVE ScoresOK'
  BY <1>2, ZaddScores
<1>3. ASSUME NEW u \in Uam, RegisterLanded(u) PROVE ScoresOK'
  <2>1. Writes(<<[op |-> "zrem", uam |-> u]>>) /\ UNCHANGED <<store, half, replies, poll>>
    BY <1>3, RegisterStep DEF StreamInv, RegisterLanded
  <2>2. \A p \in Poll : Moved(commands, commands', 0, p)
    <3>1. <<[op |-> "zrem", uam |-> u]>> \in Seq(Command)
      BY <2>1 DEF Writes
    <3>2. QED
      BY <2>1, <3>1, WritesMoved DEF StreamInv
  <2>3. QED
    BY <2>1, <2>2, QuietScores DEF store, Kept4
<1>4. ASSUME NEW u \in Uam, LandZrem(u) \/ DetailExpire(u) PROVE ScoresOK'
  <2>1. /\ UNCHANGED <<half, replies, commands, poll>>
        /\ \A v \in Uam : scored'[v] \in {scored[v], NoStatus} /\ detail'[v] \in {detail[v], NoStatus}
    BY <1>4 DEF LandZrem, DetailExpire, conn, StreamInv, TypeInv, StoreOK
  <2>2. QED
    BY <2>1, QuietScores, SameMoved DEF Kept4
<1>5. ASSUME NEW x \in Poll, StartPoll(x) PROVE ScoresOK'
  <2>1. Starts(x) /\ UNCHANGED <<store, half, replies>>
    BY <1>5, StartPollStep DEF StreamInv, StartPoll
  <2>2. \A p \in Poll : \/ Kept4(p) /\ poll'[p].fresh = poll[p].fresh /\ Moved(commands, commands', 0, p)
                        \/ ~HasRead(p)'
    BY <2>1, StartsMoved DEF StreamInv, Starts, OthersKept, Kept4, HasRead
  <2>3. QED
    BY <2>1, <2>2, QuietScores DEF store
<1>6. ASSUME NEW x \in Poll, Emit(x) PROVE ScoresOK'
  BY <1>6, EmitScores
<1>7. CASE TriggerAutoReset
  <2>1. Writes(<<[op |-> "delQueue"]>>) /\ UNCHANGED <<store, half, replies, poll>>
    BY <1>7, ResetStep DEF StreamInv, TriggerAutoReset
  <2>2. \A p \in Poll : Moved(commands, commands', 0, p)
    <3>1. <<[op |-> "delQueue"]>> \in Seq(Command)
      BY <2>1 DEF Writes
    <3>2. QED
      BY <2>1, <3>1, WritesMoved DEF StreamInv
  <2>3. QED
    BY <2>1, <2>2, QuietScores DEF store, Kept4
<1>8. CASE Set
  BY <1>8, SetScores
<1>9. CASE Execute
  BY <1>9, ExecuteScores
<1>10. CASE Deliver
  BY <1>10, DeliverScores
<1>11. QED
  BY <1>1, <1>2, <1>3, <1>4, <1>5, <1>6, <1>7, <1>8, <1>9, <1>10 DEF Next

LEMMA ScoresKnown == Spec => []ScoresOK
<1>1. Init => ScoresOK
  BY DEF Init, ScoresOK, HalfOK, Queued, InScoreOrder, ListOf, At, Idle
<1>2. StreamInv /\ ScoresOK /\ [Next]_vars => ScoresOK'
  BY StepScores
<1>3. QED
  BY <1>1, <1>2, StreamOrdered, PTL DEF Spec

LEMMA EmergencyAhead ==
  ASSUME NEW s \in Status, NEW t \in Status, IsEmergency(t.battery), ~IsEmergency(s.battery)
  PROVE  ~(Score(s.battery, s.distance) >= Score(t.battery, t.distance))
<1>1. \A b, c, d, e \in Nat : IsEmergency(b) /\ ~IsEmergency(c) => Score(b, d) > Score(c, e)
  BY DEF Score, BatteryScore, DistanceScore, IsEmergency, Point
<1>2. s.battery \in Nat /\ s.distance \in Nat /\ t.battery \in Nat /\ t.distance \in Nat
  BY QueueStreamAssumption
<1>3. \A b, d \in Nat : Score(b, d) \in Int
  BY DEF Score, BatteryScore, DistanceScore, IsEmergency, Point
<1>4. QED
  BY <1>1, <1>2, <1>3

\* In a list that is sent every emergency is before the other vehicles, unless one of the two
\* reported while the poll was on its way.
THEOREM EmergenciesLeadHolds == Spec => EmergenciesLead
<1>1. ASSUME StreamInv, ScoresOK, Next, NEW p \in Poll, Sends(p),
             NEW i \in DOMAIN shown', NEW j \in DOMAIN shown', i < j,
             IsEmergency(shown'[j].status.battery), ~IsEmergency(shown'[i].status.battery)
      PROVE  {shown'[i].uam, shown'[j].uam} \cap poll[p].fresh # {}
  <2> SUFFICES ASSUME shown'[i].uam \notin poll[p].fresh, shown'[j].uam \notin poll[p].fresh
               PROVE  FALSE
    OBVIOUS
  <2>1. Emit(p) /\ poll[p].at = "ready"
    BY <1>1, SendsIsEmit DEF StreamInv, Sends, At
  <2>2. PICK at \in Increasing(Kept(p)) : shown' = Details(p, at)
    BY <2>1 DEF Emit
  <2>3. /\ \A n \in DOMAIN shown' :
             /\ at[n] \in DOMAIN poll[p].got /\ at[n] \in DOMAIN poll[p].ids
             /\ shown'[n].uam = poll[p].ids[at[n]] /\ shown'[n].status = poll[p].got[at[n]]
             /\ poll[p].got[at[n]] \in Status
        /\ at[i] < at[j]
    BY <1>1, <2>2, DetailsFacts DEF StreamInv, TypeInv
  <2>4. poll[p].ids \in Seq(Uam) /\ ListOf(p, poll[p].ids)
    BY <1>1, <2>1 DEF StreamInv, TypeInv, PollsTyped, InProgress, ListOf
  <2>5. \A n \in DOMAIN shown' : MayShow(p, poll[p].ids[at[n]], at[n], shown'[n].status)
    BY <2>3 DEF MayShow
  <2> DEFINE s == shown'[i].status
             t == shown'[j].status
  <2>6. Score(s.battery, s.distance) >= Score(t.battery, t.distance)
    BY <1>1, <2>3, <2>4, <2>5 DEF ScoresOK, InScoreOrder
  <2>7. s \in Status /\ t \in Status
    BY <1>1, <2>3
  <2> HIDE DEF s, t
  <2>8. QED
    BY <1>1, <2>6, <2>7, EmergencyAhead DEF s, t
<1>2. StreamInv /\ ScoresOK /\ [Next]_vars =>
        [\A p \in Poll :
           Sends(p) =>
             \A i, j \in DOMAIN shown' :
               /\ i < j
               /\ IsEmergency(shown'[j].status.battery) /\ ~IsEmergency(shown'[i].status.battery)
               => {shown'[i].uam, shown'[j].uam} \cap poll[p].fresh # {}]_vars
  BY <1>1
<1>3. QED
  BY <1>2, StreamOrdered, ScoresKnown, PTL DEF Spec, EmergenciesLead
=============================================================================
