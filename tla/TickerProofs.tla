---------------------------- MODULE TickerProofs ----------------------------
(***************************************************************************)
(* Proofs about Ticker, for any vehicles, sizes of lists, lateness of the  *)
(* browser's timers and number of approvals: its types, that no block      *)
(* stays lit, how many streaks run, how long a badge is shown, and that    *)
(* the latency stays in its range.                                         *)
(***************************************************************************)
EXTENDS Ticker, SequenceTheorems, FiniteSetTheorems, TLAPS

Timer == [age : Nat, fired : 0 .. 4]

\* A bar that is folded has no badge, no light and no timers.
FoldedIsDark ==
  ~mounted => approvedBadge = NoUam /\ activeFlashNode = NoFlash /\ timers = << >>

TickerInv == TypeOK /\ timers \in Seq(Timer) /\ FoldedIsDark /\ LitIsTimed

LEMMA FlashAtFacts ==
  /\ Len(FlashAt) = 4 /\ LastTimer = 5
  /\ \A n \in 1 .. 4 : FlashAt[n].node \in {"L3", "L2", "L1", NoFlash}
  /\ \A n \in 1 .. 4 : FlashAt[n].node # NoFlash => n < 4
BY DEF FlashAt, LastTimer, NoFlash

\* What is left of a sequence from which one element is taken.
LEMMA Removed ==
  ASSUME NEW S, NEW s \in Seq(S), NEW i \in 1 .. Len(s)
  PROVE  /\ RemoveAt(s, i) \in Seq(S) /\ Len(RemoveAt(s, i)) = Len(s) - 1
         /\ \A k \in 1 .. (i - 1) : RemoveAt(s, i)[k] = s[k]
         /\ \A k \in i .. (Len(s) - 1) : RemoveAt(s, i)[k] = s[k + 1]
         /\ \A k \in 1 .. Len(s) : k # i =>
              \E m \in 1 .. Len(RemoveAt(s, i)) : RemoveAt(s, i)[m] = s[k]
<1> DEFINE r == RemoveAt(s, i)
<1>1. Len(s) \in Nat /\ i \in Nat /\ 1 <= i /\ i <= Len(s)
  OBVIOUS
<1>2. /\ SubSeq(s, 1, i - 1) \in Seq(S) /\ Len(SubSeq(s, 1, i - 1)) = i - 1
      /\ SubSeq(s, i + 1, Len(s)) \in Seq(S) /\ Len(SubSeq(s, i + 1, Len(s))) = Len(s) - i
      /\ \A k \in 1 .. (i - 1) : SubSeq(s, 1, i - 1)[k] = s[k]
      /\ \A k \in 1 .. (Len(s) - i) : SubSeq(s, i + 1, Len(s))[k] = s[i + k]
  BY <1>1
<1>3. r = SubSeq(s, 1, i - 1) \o SubSeq(s, i + 1, Len(s))
  BY DEF RemoveAt
<1>4. /\ r \in Seq(S) /\ Len(r) = Len(s) - 1
      /\ \A k \in 1 .. (i - 1) : r[k] = s[k]
      /\ \A k \in i .. (Len(s) - 1) : r[k] = s[k + 1]
  <2>1. i - 1 \in Nat /\ Len(s) - i \in Nat
    BY <1>1
  <2>2. PICK m \in Nat, n \in Nat : m = i - 1 /\ n = Len(s) - i
    BY <2>1
  <2>5. /\ r \in Seq(S) /\ Len(r) = m + n
        /\ \A k \in 1 .. m : r[k] = SubSeq(s, 1, i - 1)[k]
        /\ \A k \in 1 .. n : r[m + k] = SubSeq(s, i + 1, Len(s))[k]
    <3>1. PICK a \in Seq(S), b \in Seq(S) :
            a = SubSeq(s, 1, i - 1) /\ b = SubSeq(s, i + 1, Len(s)) /\ Len(a) = m /\ Len(b) = n
      BY <1>2, <2>2
    <3>2. r = a \o b
      BY <1>3, <3>1
    <3>3. /\ r \in Seq(S) /\ Len(r) = m + n
          /\ \A k \in 1 .. m : r[k] = a[k]
          /\ \A k \in 1 .. n : r[m + k] = b[k]
      <4>1. /\ a \o b \in Seq(S) /\ Len(a \o b) = Len(a) + Len(b)
            /\ \A k \in 1 .. Len(a) + Len(b) :
                 (a \o b)[k] = IF k <= Len(a) THEN a[k] ELSE b[k - Len(a)]
        BY ConcatProperties
      <4>2. /\ r \in Seq(S) /\ Len(r) = m + n
            /\ \A k \in 1 .. m + n : r[k] = IF k <= m THEN a[k] ELSE b[k - m]
        BY <3>1, <3>2, <4>1
      <4>3. QED
        BY <4>2
    <3>4. QED
      BY <3>1, <3>3
  <2>3. ASSUME NEW k \in i .. (Len(s) - 1) PROVE r[k] = s[k + 1]
    <3>1. PICK j \in 1 .. (Len(s) - i) : k = (i - 1) + j
      <4>1. k - (i - 1) \in 1 .. (Len(s) - i) /\ k = (i - 1) + (k - (i - 1))
        BY <1>1
      <4>2. QED
        BY <4>1
    <3>2. r[k] = SubSeq(s, i + 1, Len(s))[j]
      BY <2>2, <2>5, <3>1
    <3>4. SubSeq(s, i + 1, Len(s))[j] = s[i + j] /\ i + j = k + 1
      BY <1>1, <1>2, <3>1
    <3>3. QED
      BY <3>2, <3>4
  <2>4. QED
    BY <1>1, <1>2, <2>2, <2>5, <2>3
<1>5. ASSUME NEW k \in 1 .. Len(s), k # i
      PROVE  \E m \in 1 .. Len(r) : r[m] = s[k]
  <2>1. CASE k < i
    <3>1. k \in 1 .. Len(r) /\ r[k] = s[k]
      BY <1>1, <1>4, <1>5, <2>1
    <3>2. QED
      BY <3>1
  <2>2. CASE k > i
    <3>1. k - 1 \in 1 .. Len(r) /\ r[k - 1] = s[k]
      BY <1>1, <1>4, <1>5, <2>2
    <3>2. QED
      BY <3>1
  <2>3. QED
    BY <1>1, <1>5, <2>1, <2>2
<1>6. QED
  BY <1>4, <1>5

\* A timer that has fired once more.
LEMMA Advanced ==
  ASSUME NEW t \in Timer, NEW n \in 0 .. 4
  PROVE  [t EXCEPT !.fired = n] \in Timer /\ [t EXCEPT !.fired = n].fired = n
BY DEF Timer

LEMMA Replaced ==
  ASSUME NEW S, NEW s \in Seq(S), NEW i \in 1 .. Len(s), NEW t \in S
  PROVE  [s EXCEPT ![i] = t] \in Seq(S) /\ i \in DOMAIN [s EXCEPT ![i] = t]
         /\ [s EXCEPT ![i] = t][i] = t
OBVIOUS

LEMMA NoTimers == << >> \in Seq(Timer)
OBVIOUS

LEMMA InitTicker == Init => TickerInv
<1> SUFFICES ASSUME Init PROVE TickerInv
  OBVIOUS
<1>1. TypeOK
  BY DEF Init, TypeOK
<1>2. timers \in Seq(Timer) /\ FoldedIsDark /\ LitIsTimed
  BY NoTimers DEF Init, FoldedIsDark, LitIsTimed
<1>3. QED
  BY <1>1, <1>2 DEF TickerInv

\* An approval lights a block and sets the timer that puts the light out.
LEMMA EffectOK ==
  ASSUME NEW u \in Uam, NEW pending \in Seq(Timer), ApprovalEffect(u, pending)
  PROVE  /\ approvedBadge' = u /\ activeFlashNode' = "L4" /\ timers' \in Seq(Timer)
         /\ LitIsTimed'
<1>1. [age |-> 0, fired |-> 0] \in Timer
  BY DEF Timer
<1>2. PICK n \in Nat : n = Len(pending)
  OBVIOUS
<1>3. /\ timers' = Append(pending, [age |-> 0, fired |-> 0])
      /\ approvedBadge' = u /\ activeFlashNode' = "L4"
  BY DEF ApprovalEffect
<1>4. timers' \in Seq(Timer) /\ n + 1 \in DOMAIN timers' /\ timers'[n + 1].fired = 0
  BY <1>1, <1>2, <1>3
<1>5. timers'[n + 1].fired < Len(FlashAt)
  BY <1>4, FlashAtFacts
<1>6. QED
  BY <1>3, <1>4, <1>5 DEF LitIsTimed

LEMMA ApproveOK == TickerInv /\ HandleConfirmApproval => TickerInv'
<1> SUFFICES ASSUME TickerInv, HandleConfirmApproval PROVE TickerInv'
  OBVIOUS
<1> USE DEF TickerInv
<1>1. PICK u \in Uam :
        /\ lastApprovedId' = u
        /\ IF mounted /\ u # lastApprovedId
           THEN ApprovalEffect(u, timers) /\ streaks' = SentBack(streaks)
           ELSE UNCHANGED <<flash, streaks>>
  BY DEF HandleConfirmApproval
<1>2. UNCHANGED <<mounted, hidden, mapUams, displayedUams>>
  BY DEF HandleConfirmApproval
<1>3. CASE mounted /\ u # lastApprovedId
  <2>1. /\ approvedBadge' = u /\ activeFlashNode' = "L4" /\ timers' \in Seq(Timer)
        /\ LitIsTimed'
    BY <1>1, <1>3, EffectOK
  <2>2. QED
    BY <1>1, <1>2, <1>3, <2>1 DEF TypeOK, FoldedIsDark
<1>4. CASE ~(mounted /\ u # lastApprovedId)
  <2>1. UNCHANGED <<activeFlashNode, approvedBadge, timers>>
    BY <1>1, <1>4 DEF flash
  <2>2. QED
    BY <1>1, <1>2, <1>4, <2>1 DEF TypeOK, FoldedIsDark, LitIsTimed
<1>5. QED
  BY <1>3, <1>4

LEMMA UnfoldOK == TickerInv /\ Unfold => TickerInv'
<1> SUFFICES ASSUME TickerInv, Unfold PROVE TickerInv'
  OBVIOUS
<1> USE DEF TickerInv
<1>1. mounted' = TRUE /\ UNCHANGED <<hidden, mapUams, displayedUams, lastApprovedId>>
  BY DEF Unfold, props
<1>2. CASE lastApprovedId = NoUam
  <2>1. UNCHANGED <<activeFlashNode, approvedBadge, timers>>
    BY <1>2 DEF Unfold, flash
  <2>2. QED
    BY <1>1, <2>1 DEF TypeOK, FoldedIsDark, LitIsTimed
<1>3. CASE lastApprovedId # NoUam
  <2>1. lastApprovedId \in Uam /\ << >> \in Seq(Timer) /\ ApprovalEffect(lastApprovedId, << >>)
    BY <1>3 DEF Unfold, TypeOK
  <2>2. QED
    BY <1>1, <2>1, EffectOK DEF TypeOK, FoldedIsDark
<1>4. QED
  BY <1>2, <1>3

LEMMA TickOK == TickerInv /\ Tick => TickerInv'
<1> SUFFICES ASSUME TickerInv, Tick PROVE TickerInv'
  OBVIOUS
<1> USE DEF TickerInv
<1>1. /\ timers' = [i \in DOMAIN timers |-> [timers[i] EXCEPT !.age = @ + 1]]
      /\ UNCHANGED <<mounted, hidden, mapUams, displayedUams, lastApprovedId, activeFlashNode,
                     approvedBadge>>
  BY DEF Tick, props
<1>2. PICK n \in Nat : DOMAIN timers = 1 .. n /\ \A i \in 1 .. n : timers[i] \in Timer
  OBVIOUS
<1>3. \A i \in 1 .. n : [timers[i] EXCEPT !.age = @ + 1] \in Timer
  BY <1>2 DEF Timer
<1>4. timers' \in Seq(Timer) /\ DOMAIN timers' = 1 .. n
  BY <1>1, <1>2, <1>3
<1>5. \A i \in 1 .. n : timers'[i].fired = timers[i].fired
  BY <1>1, <1>2 DEF Timer
<1>6. mounted
  BY DEF Tick, FoldedIsDark, TypeOK
<1>7. QED
  BY <1>1, <1>2, <1>4, <1>5, <1>6 DEF TypeOK, FoldedIsDark, LitIsTimed

LEMMA FireOK == TickerInv /\ Fire => TickerInv'
<1> SUFFICES ASSUME TickerInv, Fire PROVE TickerInv'
  OBVIOUS
<1> USE DEF TickerInv
<1>1. PICK i \in DOMAIN timers :
        LET n == timers[i].fired + 1
        IN IF n < LastTimer
           THEN /\ activeFlashNode' = FlashAt[n].node
                /\ timers' = [timers EXCEPT ![i].fired = n]
                /\ UNCHANGED approvedBadge
           ELSE /\ approvedBadge' = NoUam
                /\ timers' = RemoveAt(timers, i)
                /\ UNCHANGED activeFlashNode
  BY DEF Fire, Due
<1>2. UNCHANGED <<mounted, hidden, mapUams, displayedUams, lastApprovedId>>
  BY DEF Fire, props
<1>3. timers # << >> /\ i \in 1 .. Len(timers) /\ timers[i] \in Timer
  BY <1>1
<1>4. PICK n \in 1 .. 5 : n = timers[i].fired + 1
  BY <1>3 DEF Timer
<1>5. CASE n < 5
  <2>1. /\ activeFlashNode' = FlashAt[n].node
        /\ timers' = [timers EXCEPT ![i].fired = n]
        /\ UNCHANGED approvedBadge
    BY <1>1, <1>4, <1>5, FlashAtFacts
  <2>3. timers' \in Seq(Timer) /\ i \in DOMAIN timers' /\ timers'[i].fired = n
    <3>1. n \in 0 .. 4
      BY <1>5
    <3>2. timers \in Seq(Timer) /\ i \in 1 .. Len(timers)
      BY <1>3
    <3>3. PICK t \in Timer : t = [timers[i] EXCEPT !.fired = n] /\ t.fired = n
      BY <1>3, <3>1, Advanced
    <3>4. timers' = [timers EXCEPT ![i] = t]
      BY <2>1, <3>3
    <3>5. timers' \in Seq(Timer) /\ i \in DOMAIN timers' /\ timers'[i] = t
      BY ONLY <3>2, <3>4, Replaced
    <3>6. t.fired = n
      BY <3>3
    <3>7. QED
      BY ONLY <3>5, <3>6
  <2>4. activeFlashNode' \in {"L3", "L2", "L1", NoFlash}
          /\ (activeFlashNode' # NoFlash => timers'[i].fired < Len(FlashAt))
    BY <1>5, <2>1, <2>3, FlashAtFacts
  <2>5. mounted'
    BY <1>2, <1>3 DEF FoldedIsDark, TypeOK
  <2>6. QED
    BY <1>2, <2>1, <2>3, <2>4, <2>5 DEF TypeOK, FoldedIsDark, LitIsTimed
<1>6. CASE n = 5
  <2>1. /\ approvedBadge' = NoUam /\ timers' = RemoveAt(timers, i)
        /\ UNCHANGED activeFlashNode
    BY <1>1, <1>4, <1>6, FlashAtFacts
  <2>2. timers[i].fired = 4
    BY <1>3, <1>4, <1>6 DEF Timer
  <2>3. timers' \in Seq(Timer)
    BY <1>3, <2>1, Removed
  <2>4. LitIsTimed'
    <3> SUFFICES ASSUME activeFlashNode # NoFlash
                 PROVE  \E m \in DOMAIN timers' : timers'[m].fired < Len(FlashAt)
      BY <2>1 DEF LitIsTimed
    <3>1. PICK k \in DOMAIN timers : timers[k].fired < Len(FlashAt)
      BY DEF LitIsTimed
    <3>2. k \in 1 .. Len(timers) /\ k # i
      BY <2>2, <3>1, FlashAtFacts
    <3>3. PICK m \in 1 .. Len(timers') : timers'[m] = timers[k]
      BY <1>3, <2>1, <3>2, Removed
    <3>4. QED
      BY <2>3, <3>1, <3>3
  <2>5. QED
    BY <1>2, <1>3, <2>1, <2>3, <2>4 DEF TypeOK, FoldedIsDark
<1>7. QED
  BY <1>5, <1>6

LEMMA StepTicker == TickerInv /\ [Next]_vars => TickerInv'
<1> SUFFICES ASSUME TickerInv, [Next]_vars PROVE TickerInv'
  OBVIOUS
<1> USE DEF TickerInv
<1>1. CASE ReceiveMap \/ ReceiveQueue \/ Render \/ VisibilityChange \/ UNCHANGED vars
  <2>1. /\ UNCHANGED <<mounted, lastApprovedId, activeFlashNode, approvedBadge, timers>>
        /\ hidden' \in BOOLEAN /\ {mapUams', displayedUams'} \subseteq Sizes \cup {0}
    BY <1>1 DEF ReceiveMap, ReceiveQueue, Render, VisibilityChange, vars, props, flash, TypeOK
  <2>2. QED
    BY <2>1 DEF TypeOK, FoldedIsDark, LitIsTimed
<1>2. CASE Fold
  <2>1. /\ mounted' = FALSE /\ activeFlashNode' = NoFlash /\ approvedBadge' = NoUam
        /\ timers' = << >>
        /\ UNCHANGED <<hidden, mapUams, displayedUams, lastApprovedId>>
    BY <1>2 DEF Fold, props
  <2>2. TypeOK'
    BY <2>1 DEF TypeOK
  <2>3. QED
    BY <2>1, <2>2, NoTimers DEF FoldedIsDark, LitIsTimed
<1>3. QED
  BY <1>1, <1>2, ApproveOK, UnfoldOK, TickOK, FireOK DEF Next

\* The badge only ever names the last approval, and a list has one of the sizes given.
THEOREM TypeCorrect == Spec => []TypeOK
BY InitTicker, StepTicker, PTL DEF Spec, TickerInv

\* However approvals overlap and timers are late, no block stays lit.
THEOREM LitIsTimedHolds == Spec => []LitIsTimed
BY InitTicker, StepTicker, PTL DEF Spec, TickerInv

-----------------------------------------------------------------------------
(* Streaks *)

Direction == {Forward, Backward}
StreaksOK(list) ==
  /\ list \in Seq(Direction)
  /\ IsFiniteSet(OfStreams(list)) /\ Cardinality(OfStreams(list)) <= 7

LEMMA ShortListOK == ASSUME NEW list \in Seq(Direction), Len(list) <= 7 PROVE StreaksOK(list)
<1>1. PICK n \in Nat : n = Len(list) /\ DOMAIN list = 1 .. n /\ n <= 7
  OBVIOUS
<1>2. IsFiniteSet(1 .. n) /\ Cardinality(1 .. n) = n
  <2>1. /\ IsFiniteSet(1 .. n)
        /\ Cardinality(1 .. n) = IF 1 > n THEN 0 ELSE n - 1 + 1
    BY FS_Interval, 1 \in Int, n \in Int
  <2>2. QED
    BY <2>1
<1>3. OfStreams(list) \subseteq 1 .. n
  BY <1>1 DEF OfStreams
<1>4. /\ IsFiniteSet(OfStreams(list)) /\ Cardinality(OfStreams(list)) <= n
      /\ Cardinality(OfStreams(list)) \in Nat
  BY <1>2, <1>3, FS_Subset, FS_CardinalityType
<1>5. QED
  BY <1>1, <1>4 DEF StreaksOK

\* The cut leaves at most five, and at most two are added.
LEMMA SentOK ==
  ASSUME NEW list, StreaksOK(list), NEW n \in 0 .. 2
  PROVE  StreaksOK(Sent(list, n))
<1>1. CASE n = 0
  BY <1>1 DEF Sent
<1>2. CASE n # 0
  <2>1. list \in Seq(Direction) /\ Trimmed(list) \in Seq(Direction) /\ Len(Trimmed(list)) <= 5
    BY DEF StreaksOK, Trimmed
  <2>2. PICK a \in Seq(Direction) : a = Trimmed(list) /\ Len(a) <= 5
    BY <2>1
  <2>3. PICK b \in Seq(Direction) : b = [i \in 1 .. n |-> Forward] /\ Len(b) = n
    <3>1. n \in Nat /\ [i \in 1 .. n |-> Forward] \in [1 .. n -> Direction]
      BY DEF Direction
    <3>2. [i \in 1 .. n |-> Forward] \in Seq(Direction) /\ Len([i \in 1 .. n |-> Forward]) = n
      BY <3>1
    <3>3. QED
      BY <3>2
  <2>4. a \o b \in Seq(Direction) /\ Len(a \o b) <= 7
    BY <2>2, <2>3
  <2>5. QED
    BY <1>2, <2>2, <2>3, <2>4, ShortListOK DEF Sent
<1>3. QED
  BY <1>1, <1>2

LEMMA StreamsOK ==
  ASSUME NEW list, StreaksOK(list), NEW m \in Nat, NEW n \in Nat
  PROVE  StreaksOK(Streams(list, m, n))
<1>1. Least(m, 2) \in 0 .. 2 /\ Least(n, 1) \in 0 .. 2
  BY DEF Least
<1>2. QED
  BY <1>1, SentOK DEF Streams

LEMMA SentBackOK ==
  ASSUME NEW list, StreaksOK(list)
  PROVE  StreaksOK(SentBack(list))
<1>1. list \in Seq(Direction) /\ Backward \in Direction /\ Backward # Forward
  BY DEF StreaksOK, Direction, Forward, Backward
<1>2. PICK n \in Nat : n = Len(list) /\ DOMAIN list = 1 .. n
  BY <1>1
<1>3. /\ SentBack(list) \in Seq(Direction) /\ DOMAIN SentBack(list) = 1 .. (n + 1)
      /\ SentBack(list)[n + 1] = Backward
      /\ \A i \in 1 .. n : SentBack(list)[i] = list[i]
  BY <1>1, <1>2 DEF SentBack
<1>4. OfStreams(SentBack(list)) = OfStreams(list)
  BY <1>1, <1>2, <1>3 DEF OfStreams
<1>5. QED
  BY <1>3, <1>4 DEF StreaksOK

LEMMA RenderOK ==
  ASSUME NEW list, StreaksOK(list), NEW i \in DOMAIN list
  PROVE  StreaksOK(RemoveAt(list, i))
<1> DEFINE r == RemoveAt(list, i)
           f == [k \in OfStreams(r) |-> IF k < i THEN k ELSE k + 1]
<1>1. PICK n \in Nat : n = Len(list) /\ DOMAIN list = 1 .. n /\ i \in 1 .. n
  BY DEF StreaksOK
<1>2. /\ r \in Seq(Direction) /\ DOMAIN r = 1 .. (n - 1)
      /\ \A k \in 1 .. (i - 1) : r[k] = list[k]
      /\ \A k \in i .. (n - 1) : r[k] = list[k + 1]
  <2>1. list \in Seq(Direction) /\ i \in 1 .. Len(list)
    BY <1>1 DEF StreaksOK
  <2>2. /\ r \in Seq(Direction) /\ Len(r) = Len(list) - 1
        /\ \A k \in 1 .. (i - 1) : r[k] = list[k]
        /\ \A k \in i .. (Len(list) - 1) : r[k] = list[k + 1]
    BY <2>1, Removed
  <2>3. QED
    BY <1>1, <2>2
<1> HIDE DEF r
<1>3. \A k \in OfStreams(r) : k \in 1 .. (n - 1) /\ r[k] = Forward
  BY <1>2 DEF OfStreams
<1>4. ASSUME NEW k \in OfStreams(r) PROVE f[k] \in OfStreams(list)
  <2>1. CASE k < i
    BY <1>1, <1>2, <1>3, <2>1 DEF OfStreams
  <2>2. CASE ~(k < i)
    <3>1. k \in i .. (n - 1) /\ k + 1 \in 1 .. n /\ f[k] = k + 1
      BY <1>1, <1>3, <2>2
    <3>2. QED
      BY <1>1, <1>2, <1>3, <3>1 DEF OfStreams
  <2>3. QED
    BY <2>1, <2>2
<1>5. \A k, m \in OfStreams(r) : f[k] = f[m] => k = m
  BY <1>1, <1>3
<1>6. f \in Injection(OfStreams(r), OfStreams(list))
  BY <1>4, <1>5 DEF Injection, IsInjective
<1>7. /\ IsFiniteSet(OfStreams(r)) /\ Cardinality(OfStreams(r)) <= Cardinality(OfStreams(list))
      /\ Cardinality(OfStreams(r)) \in Nat /\ Cardinality(OfStreams(list)) \in Nat
  BY <1>6, FS_Injection, FS_CardinalityType DEF StreaksOK
<1>8. QED
  BY <1>2, <1>7 DEF StreaksOK, r

LEMMA NoStreaks == StreaksOK(<< >>)
<1>1. << >> \in Seq(Direction) /\ Len(<< >>) <= 7
  OBVIOUS
<1>2. QED
  BY <1>1, ShortListOK

StreaksInv == StreaksOK(streaks)

LEMMA StepStreaks == TypeOK /\ StreaksInv /\ [Next]_vars => StreaksInv'
<1> SUFFICES ASSUME TypeOK, StreaksOK(streaks), [Next]_vars PROVE StreaksOK(streaks')
  BY DEF StreaksInv
<1>0. mapUams \in Nat /\ displayedUams \in Nat /\ Sizes \subseteq Nat
  <2>1. {mapUams, displayedUams} \subseteq Sizes \cup {0} /\ Sizes \subseteq Nat
    BY TickerAssumption, Zenon DEF TypeOK
  <2>2. mapUams \in Sizes \cup {0} /\ displayedUams \in Sizes \cup {0}
    BY <2>1, Zenon
  <2>3. QED
    BY <2>1, <2>2
<1>1. CASE ReceiveMap \/ ReceiveQueue
  BY <1>0, <1>1, StreamsOK DEF ReceiveMap, ReceiveQueue
<1>2. CASE HandleConfirmApproval
  BY <1>2, SentBackOK DEF HandleConfirmApproval
<1>3. CASE Render
  BY <1>3, RenderOK DEF Render
<1>4. CASE VisibilityChange \/ Fold
  BY <1>4, NoStreaks DEF VisibilityChange, Fold
<1>5. CASE Unfold
  <2>1. StreaksOK(Streams(<< >>, mapUams, displayedUams))
    BY <1>0, NoStreaks, StreamsOK
  <2>2. QED
    BY <1>5, <2>1, SentBackOK DEF Unfold
<1>6. CASE Tick \/ Fire \/ UNCHANGED vars
  BY <1>6 DEF Tick, Fire, vars
<1>7. QED
  BY <1>1, <1>2, <1>3, <1>4, <1>5, <1>6 DEF Next

\* However many lists, approvals, frames and hidden tabs there are, the two streams never have
\* more than seven streaks.
THEOREM StreaksBoundedHolds == Spec => []StreaksBounded
<1>1. Init => StreaksInv
  BY NoStreaks DEF Init, StreaksInv
<1>2. StreaksInv => StreaksBounded
  BY DEF StreaksOK, StreaksInv, StreaksBounded
<1>3. QED
  BY InitTicker, StepTicker, StepStreaks, <1>1, <1>2, PTL DEF Spec, TickerInv

-----------------------------------------------------------------------------
(* The badge *)

\* Unless approvals overlapped, the only timer there can be is that of the badge on show.
BadgeTimed ==
  /\ sinceApproval \in Nat
  /\ ~overlapped =>
       /\ Len(timers) <= 1
       /\ Len(timers) = 1 => sinceApproval = Least(timers[1].age, BadgeTime)

LEMMA EffectBadge ==
  ASSUME NEW u, NEW pending \in Seq(Timer), ApprovalEffect(u, pending)
  PROVE  BadgeTimed'
<1>1. /\ timers' = Append(pending, [age |-> 0, fired |-> 0]) /\ sinceApproval' = 0
      /\ overlapped' = (pending # << >>)
  BY DEF ApprovalEffect
<1>2. Least(0, BadgeTime) = 0
  BY TickerAssumption DEF Least
<1>3. CASE pending = << >>
  <2>1. Len(timers') = 1 /\ timers'[1].age = 0
    BY <1>1, <1>3
  <2>2. QED
    BY <1>1, <1>2, <2>1 DEF BadgeTimed
<1>4. CASE pending # << >>
  BY <1>1, <1>4 DEF BadgeTimed
<1>5. QED
  BY <1>3, <1>4

\* The last timer of an approval takes the badge away after BadgeTime.
LEMMA FireBadge ==
  ASSUME TickerInv, BadgeTimed, Fire
  PROVE  /\ BadgeTimed'
         /\ approvedBadge # NoUam /\ approvedBadge' = NoUam
              => sinceApproval = BadgeTime \/ overlapped
<1>0. timers \in Seq(Timer) /\ UNCHANGED <<sinceApproval, overlapped>> /\ BadgeTime \in Nat
  BY TickerAssumption DEF TickerInv, Fire
<1>1. PICK i \in DOMAIN timers :
        /\ timers[i].age >= DueAt(timers[i].fired + 1)
        /\ LET n == timers[i].fired + 1
           IN IF n < LastTimer
              THEN timers' = [timers EXCEPT ![i].fired = n] /\ UNCHANGED approvedBadge
              ELSE timers' = RemoveAt(timers, i)
  BY DEF Fire, Due
<1>2. i \in 1 .. Len(timers) /\ timers[i] \in Timer
  BY <1>0, <1>1
<1>3. PICK n \in 1 .. 5 : n = timers[i].fired + 1
  BY <1>2 DEF Timer
<1>4. CASE n < 5
  <2>1. timers' = [timers EXCEPT ![i].fired = n] /\ UNCHANGED approvedBadge
    BY <1>1, <1>3, <1>4, FlashAtFacts
  <2>2. Len(timers') = Len(timers) /\ \A k \in 1 .. Len(timers) : timers'[k].age = timers[k].age
    BY <1>0, <1>2, <2>1 DEF Timer
  <2>3. QED
    BY <1>0, <2>1, <2>2 DEF BadgeTimed
<1>5. CASE n = 5
  <2>1. timers' = RemoveAt(timers, i) /\ timers[i].age >= BadgeTime
    BY <1>1, <1>3, <1>5, FlashAtFacts DEF DueAt
  <2>2. Len(timers') = Len(timers) - 1 /\ Len(timers) \in Nat
    BY <1>0, <1>2, <2>1, Removed
  <2>3. ASSUME ~overlapped PROVE Len(timers') = 0 /\ sinceApproval = BadgeTime
    <3>1. Len(timers) = 1 /\ i = 1
      BY <1>2, <2>2, <2>3 DEF BadgeTimed
    <3>2. QED
      BY <1>0, <1>2, <2>1, <2>2, <2>3, <3>1 DEF BadgeTimed, Least, Timer
  <2>4. QED
    BY <1>0, <2>3 DEF BadgeTimed
<1>6. QED
  BY <1>4, <1>5

LEMMA StepBadge ==
  ASSUME TickerInv, BadgeTimed, [Next]_vars
  PROVE  /\ BadgeTimed'
         /\ approvedBadge # NoUam /\ approvedBadge' = NoUam /\ mounted'
              => sinceApproval = BadgeTime \/ overlapped
<1>0. timers \in Seq(Timer) /\ approvedBadge \in {NoUam, lastApprovedId} /\ mounted \in BOOLEAN
  BY DEF TickerInv, TypeOK
<1>1. CASE UNCHANGED flash
  BY <1>1 DEF flash, BadgeTimed
<1>2. CASE HandleConfirmApproval
  <2>1. PICK u \in Uam : ApprovalEffect(u, timers) \/ UNCHANGED flash
    BY <1>2 DEF HandleConfirmApproval
  <2>2. CASE ApprovalEffect(u, timers)
    BY <1>0, <2>2, EffectBadge, TickerAssumption DEF ApprovalEffect
  <2>3. QED
    BY <1>1, <2>1, <2>2
<1>3. CASE Fold
  <2>1. mounted' = FALSE /\ timers' = << >> /\ sinceApproval' = 0
    BY <1>3 DEF Fold
  <2>2. QED
    BY <2>1 DEF BadgeTimed
<1>4. CASE Unfold
  <2>1. UNCHANGED flash \/ ApprovalEffect(lastApprovedId, << >>)
    BY <1>4 DEF Unfold
  <2>2. CASE ApprovalEffect(lastApprovedId, << >>)
    <3>1. ~mounted
      BY <1>4 DEF Unfold
    <3>2. approvedBadge = NoUam
      BY <3>1 DEF TickerInv, FoldedIsDark
    <3>3. QED
      BY <2>2, <3>2, EffectBadge, NoTimers
  <2>3. QED
    BY <1>1, <2>1, <2>2
<1>5. CASE Tick
  <2>1. /\ timers' = [i \in DOMAIN timers |-> [timers[i] EXCEPT !.age = @ + 1]]
        /\ sinceApproval' = Least(sinceApproval + 1, BadgeTime)
        /\ UNCHANGED <<approvedBadge, overlapped>>
    BY <1>5 DEF Tick
  <2>2. PICK n \in Nat : n = Len(timers) /\ DOMAIN timers = 1 .. n
                         /\ \A i \in 1 .. n : timers[i] \in Timer
    BY <1>0
  <2>3. \A i \in 1 .. n : timers'[i].age = timers[i].age + 1
    BY <2>1, <2>2 DEF Timer
  <2>4. Len(timers') = n
    BY <2>1, <2>2
  <2>5. sinceApproval' \in Nat
    BY <2>1, TickerAssumption DEF Least, BadgeTimed
  <2>6. ASSUME n = 1, ~overlapped PROVE sinceApproval' = Least(timers'[1].age, BadgeTime)
    <3>1. sinceApproval = Least(timers[1].age, BadgeTime) /\ timers[1].age \in Nat
      BY <2>2, <2>6 DEF BadgeTimed, Timer
    <3>2. timers'[1].age = timers[1].age + 1
      BY <2>3, <2>6
    <3>3. QED
      BY <2>1, <3>1, <3>2, TickerAssumption DEF Least
  <2>7. QED
    BY <2>1, <2>2, <2>4, <2>5, <2>6 DEF BadgeTimed
<1>6. CASE Fire
  BY <1>6, FireBadge
<1>7. CASE ReceiveMap \/ ReceiveQueue \/ Render \/ VisibilityChange \/ UNCHANGED vars
  BY <1>1, <1>7 DEF ReceiveMap, ReceiveQueue, Render, VisibilityChange, vars
<1>8. QED
  BY <1>2, <1>3, <1>4, <1>5, <1>6, <1>7 DEF Next

\* A badge stays for its 3.5 s however late the timers are, unless the bar is folded or an
\* approval came while the timers of an earlier one were pending.
THEOREM BadgeKeptHolds == Spec => BadgeKept
<1>1. Init => BadgeTimed
  BY DEF Init, BadgeTimed
<1>2. TickerInv /\ BadgeTimed /\ [Next]_vars
        => /\ BadgeTimed'
           /\ [approvedBadge # NoUam /\ approvedBadge' = NoUam /\ mounted'
                 => sinceApproval = BadgeTime \/ overlapped]_vars
  BY StepBadge
<1>3. QED
  BY InitTicker, StepTicker, <1>1, <1>2, PTL DEF Spec, BadgeKept

-----------------------------------------------------------------------------
(* The latency *)

\* Whatever two clocks say, the latency shown stays within 8 .. 22 ms.
THEOREM LatencyPlausible ==
  ASSUME NEW prev \in 8 .. 22, NEW rawDelta \in Int, NEW millis \in 0 .. 999
  PROVE  Smoothed(prev, InstantLatency(rawDelta, millis)) \in 8 .. 22
<1>1. ASSUME NEW instant \in 8 .. 22 PROVE Smoothed(prev, instant) \in 8 .. 22
  BY DEF Smoothed
<1>2. InstantLatency(rawDelta, millis) \in 8 .. 22
  BY DEF InstantLatency, Clip
<1>3. QED
  BY <1>1, <1>2
=============================================================================
