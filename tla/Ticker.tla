-------------------------------- MODULE Ticker --------------------------------
(***************************************************************************)
(* PipelineStreamTicker: the bar of the dashboard that animates packets,   *)
(* lights up its blocks and shows a badge when a landing is approved.  App *)
(* can fold it, which unmounts it, and the browser can hide its tab.       *)
(*                                                                         *)
(* Time is in units of 160 ms, the step of the flash.  A list of vehicles  *)
(* is its length; counters, frame rate and the console's latency report    *)
(* are left out.                                                           *)
(***************************************************************************)
EXTENDS Naturals, SequencesExt

CONSTANTS
  Uam, NoUam,
  Sizes,        \* bound: how many vehicles a list has
  BadgeTime,    \* 3.5 s
  MaxLate,      \* bound: how late a timer may fire
  MaxUpdates,   \* bound: lists received
  MaxApprovals, \* bound: approvals
  MaxToggles    \* bound: tab switches and foldings

ASSUME TickerAssumption ==
  /\ NoUam \notin Uam
  /\ Sizes \subseteq Nat
  /\ BadgeTime \in Nat /\ BadgeTime > 5
  /\ {MaxLate, MaxUpdates, MaxApprovals, MaxToggles} \subseteq Nat

VARIABLES
  mounted,       \* isStreamTickerOpen
  hidden,        \* document.hidden
  mapUams, displayedUams, lastApprovedId,
  streaks,       \* the animations, oldest first: whether one runs in reverse
  activeFlashNode, approvedBadge,
  timers,        \* setTimeouts pending: per approval the time since and how many have fired
  sinceApproval, \* history: time since the badge was last set, up to BadgeTime
  overlapped,    \* history: it was set while the timer of an earlier one was pending
  updates, approvals, toggles

props   == <<mapUams, displayedUams, lastApprovedId>>
flash   == <<activeFlashNode, approvedBadge, timers, sinceApproval, overlapped>>
counts  == <<updates, approvals, toggles>>
vars == <<mounted, hidden, props, streaks, flash, counts>>

Clip(x, low, high) == IF x < low THEN low ELSE IF x > high THEN high ELSE x
Least(a, b) == IF a < b THEN a ELSE b

NoFlash == "none"
Forward == "forward"
Backward == "backward"

-----------------------------------------------------------------------------
(* Streaks *)

\* Mutant: the list is never cut.
TrimmedNever(list) == list

\* Of more than five streaks the last three are kept.
Trimmed(list) == IF Len(list) > 5 THEN SubSeq(list, Len(list) - 2, Len(list)) ELSE list

\* What the list becomes when n streaks are sent.
Sent(list, n) == IF n = 0 THEN list ELSE Trimmed(list) \o [i \in 1 .. n |-> Forward]

\* The list after an approval: one more, which runs backwards.
SentBack(list) == Append(list, Backward)

-----------------------------------------------------------------------------
(* Latency *)

\* A number of ms that looks like a latency: a delta within 100 ms folded into 8 .. 22,
\* else one made of the clock.
InstantLatency(rawDelta, millis) ==
  IF rawDelta > 0 /\ rawDelta < 100 THEN Clip(rawDelta % 30, 8, 22) ELSE 11 + millis \div 200

\* Math.round(prev * 0.7 + instant * 0.3)
Smoothed(prev, instant) == (7 * prev + 3 * instant + 5) \div 10

-----------------------------------------------------------------------------
(* The effects *)

\* The streaks that the two lists send, the map's first.
Streams(list, mapN, queueN) ==
  IF hidden THEN list ELSE Sent(Sent(list, Least(mapN, 2)), Least(queueN, 1))

\* What the timers of an approval set, and when.
FlashAt == <<[node |-> "L3", at |-> 1], [node |-> "L2", at |-> 2],
             [node |-> "L1", at |-> 3], [node |-> NoFlash, at |-> 5]>>
DueAt(i) == IF i <= Len(FlashAt) THEN FlashAt[i].at ELSE BadgeTime
LastTimer == Len(FlashAt) + 1

\* Mutant: the badge is left to the timers of an earlier approval.
ApprovalEffectUntimed(id, pending) ==
  /\ approvedBadge' = id
  /\ activeFlashNode' = "L4"
  /\ timers' = pending
  /\ sinceApproval' = 0
  /\ overlapped' = (pending # << >>)

\* The effect of lastApprovedId, but for its streak.
ApprovalEffect(id, pending) ==
  /\ approvedBadge' = id
  /\ activeFlashNode' = "L4"
  /\ timers' = Append(pending, [age |-> 0, fired |-> 0])
  /\ sinceApproval' = 0
  /\ overlapped' = (pending # << >>)

-----------------------------------------------------------------------------
Init ==
  /\ mounted = TRUE /\ hidden = FALSE
  /\ mapUams = 0 /\ displayedUams = 0 /\ lastApprovedId = NoUam
  /\ streaks = << >>
  /\ activeFlashNode = NoFlash /\ approvedBadge = NoUam /\ timers = << >>
  /\ sinceApproval = 0 /\ overlapped = FALSE
  /\ updates = 0 /\ approvals = 0 /\ toggles = 0

\* map:update
ReceiveMap ==
  /\ updates < MaxUpdates
  /\ \E n \in Sizes :
       /\ mapUams' = n
       /\ IF mounted THEN streaks' = Streams(streaks, n, 0) ELSE UNCHANGED streaks
  /\ updates' = updates + 1
  /\ UNCHANGED <<mounted, hidden, displayedUams, lastApprovedId, flash, approvals, toggles>>

\* uam:update, or the queue unlocked
ReceiveQueue ==
  /\ updates < MaxUpdates
  /\ \E n \in Sizes :
       /\ displayedUams' = n
       /\ IF mounted THEN streaks' = Streams(streaks, 0, n) ELSE UNCHANGED streaks
  /\ updates' = updates + 1
  /\ UNCHANGED <<mounted, hidden, mapUams, lastApprovedId, flash, approvals, toggles>>

\* The dialog is confirmed.  A vehicle approved twice in a row (a reset freed it) is no change.
HandleConfirmApproval ==
  /\ approvals < MaxApprovals
  /\ ~hidden
  /\ \E u \in Uam :
       /\ lastApprovedId' = u
       /\ IF mounted /\ u # lastApprovedId
          THEN ApprovalEffect(u, timers) /\ streaks' = SentBack(streaks)
          ELSE UNCHANGED <<flash, streaks>>
  /\ approvals' = approvals + 1
  /\ UNCHANGED <<mounted, hidden, mapUams, displayedUams, updates, toggles>>

\* Frames until a streak arrives and is dropped: speeds are random, so any may be the first.
\* A hidden tab has no frames.
Render ==
  /\ mounted /\ ~hidden
  /\ \E i \in DOMAIN streaks : streaks' = RemoveAt(streaks, i)
  /\ UNCHANGED <<mounted, hidden, props, flash, counts>>

\* The tab is hidden, or shown: it starts with no streaks.
VisibilityChange ==
  /\ toggles < MaxToggles
  /\ hidden' = ~hidden
  /\ streaks' = IF hidden /\ mounted THEN << >> ELSE streaks
  /\ toggles' = toggles + 1
  /\ UNCHANGED <<mounted, props, flash, updates, approvals>>

\* The bar is folded: its state goes, and its timers set nothing any more.
Fold ==
  /\ toggles < MaxToggles /\ mounted /\ ~hidden
  /\ mounted' = FALSE
  /\ streaks' = << >>
  /\ activeFlashNode' = NoFlash /\ approvedBadge' = NoUam /\ timers' = << >>
  /\ sinceApproval' = 0 /\ overlapped' = FALSE
  /\ toggles' = toggles + 1
  /\ UNCHANGED <<hidden, props, updates, approvals>>

\* It is unfolded: every effect runs, the last approval's too however old it is.
Unfold ==
  /\ toggles < MaxToggles /\ ~mounted /\ ~hidden
  /\ mounted' = TRUE
  /\ LET list == Streams(<< >>, mapUams, displayedUams)
     IN IF lastApprovedId = NoUam
        THEN streaks' = list /\ UNCHANGED flash
        ELSE streaks' = SentBack(list) /\ ApprovalEffect(lastApprovedId, << >>)
  /\ toggles' = toggles + 1
  /\ UNCHANGED <<hidden, props, updates, approvals>>

-----------------------------------------------------------------------------
(* Time *)

Overdue(i) == timers[i].age - DueAt(timers[i].fired + 1)
Due == {i \in DOMAIN timers : timers[i].age >= DueAt(timers[i].fired + 1)}

\* Time passes.  A timer may be late, as they are in a hidden tab.
Tick ==
  /\ timers # << >>
  /\ \A i \in Due : Overdue(i) < MaxLate
  /\ timers' = [i \in DOMAIN timers |-> [timers[i] EXCEPT !.age = @ + 1]]
  /\ sinceApproval' = Least(sinceApproval + 1, BadgeTime)
  /\ UNCHANGED <<mounted, hidden, props, streaks, activeFlashNode, approvedBadge, overlapped,
                 counts>>

\* Mutant: the timer of the flash also takes the badge away.
FireBoth ==
  /\ Due # {}
  /\ LET i == CHOOSE j \in Due : TRUE
         n == timers[i].fired + 1
     IN /\ activeFlashNode' = IF n < LastTimer THEN FlashAt[n].node ELSE activeFlashNode
        /\ approvedBadge' = IF n >= Len(FlashAt) THEN NoUam ELSE approvedBadge
        /\ timers' = IF n < LastTimer THEN [timers EXCEPT ![i].fired = n] ELSE RemoveAt(timers, i)
  /\ UNCHANGED <<mounted, hidden, props, streaks, sinceApproval, overlapped, counts>>

\* The timer that was due first fires.
Fire ==
  /\ \E i \in Due :
       /\ \A j \in Due : Overdue(j) < Overdue(i) \/ (Overdue(j) = Overdue(i) /\ i <= j)
       /\ LET n == timers[i].fired + 1
          IN IF n < LastTimer
             THEN /\ activeFlashNode' = FlashAt[n].node
                  /\ timers' = [timers EXCEPT ![i].fired = n]
                  /\ UNCHANGED approvedBadge
             ELSE /\ approvedBadge' = NoUam
                  /\ timers' = RemoveAt(timers, i)
                  /\ UNCHANGED activeFlashNode
  /\ UNCHANGED <<mounted, hidden, props, streaks, sinceApproval, overlapped, counts>>

Next ==
  \/ ReceiveMap \/ ReceiveQueue
  \/ HandleConfirmApproval
  \/ Render
  \/ VisibilityChange
  \/ Fold \/ Unfold
  \/ Tick \/ Fire

Spec == Init /\ [][Next]_vars

-----------------------------------------------------------------------------
(* Properties *)

\* The bar's state, in which a badge can only name the last approval.
TypeOK ==
  /\ mounted \in BOOLEAN /\ hidden \in BOOLEAN
  /\ {mapUams, displayedUams} \subseteq Sizes \cup {0} /\ lastApprovedId \in Uam \cup {NoUam}
  /\ activeFlashNode \in {"L4", "L3", "L2", "L1", NoFlash}
  /\ approvedBadge \in {NoUam, lastApprovedId}

\* However packets, frames and hidden tabs alternate, the two streams never animate more than
\* seven streaks: both effects cut the list before they add to it.
OfStreams(list) == {i \in DOMAIN list : list[i] = Forward}
StreaksBounded == Cardinality(OfStreams(streaks)) <= 7

\* A block lights up only while the timer that puts it out is pending, so the flashes of
\* approvals in quick succession cannot leave one lit, nor can folding the bar.
LitIsTimed ==
  activeFlashNode # NoFlash => \E i \in DOMAIN timers : timers[i].fired < Len(FlashAt)

\* A badge is shown for its 3.5 s, unless an approval came while an earlier one's was shown.
BadgeKept ==
  [][ approvedBadge # NoUam /\ approvedBadge' = NoUam /\ mounted'
        => sinceApproval = BadgeTime \/ overlapped ]_vars

=============================================================================
