----------------------------- MODULE QueueStream -----------------------------
(***************************************************************************)
(* Stream B: the 1 s poll of EventsGateway that reads the landing queue    *)
(* and broadcasts uam:update, beside the landings and the reset that use   *)
(* the same Redis connection, and the status handlers that use the other.  *)
(*                                                                         *)
(* Redis executes the gateway's commands in the order they were written    *)
(* and its replies are handled in that order; a poll that has its last     *)
(* reply still has to go through Promise.all, and replies that came with   *)
(* it may be handled first.  How landings race each other is in Scheduler. *)
(***************************************************************************)
EXTENDS Priority, SequencesExt

CONSTANTS
  Uam,        \* vehicle ids
  NoStatus,   \* no status
  Status,     \* what a vehicle may report: [battery, distance]
  Poll,       \* polls that can be in progress at once
  Limit,      \* vehicles in uam:update, 10 in the code
  MaxStatus,  \* bound: statuses
  MaxRemovals \* bound: landings and resets

ASSUME QueueStreamAssumption ==
  /\ NoStatus \notin Status
  /\ Status \subseteq [battery: Nat, distance: Nat]
  /\ Limit \in Nat \ {0} /\ {MaxStatus, MaxRemovals} \subseteq Nat

VARIABLES
  scored,    \* Redis: the status whose score the ZSET has for a vehicle
  detail,    \* Redis: the status in uam:detail:<id>
  half,      \* AppService's connection: the status whose ZADD has run and whose SET has not
  commands,  \* the gateway's connection: commands whose replies are not handled, oldest first
  replies,   \* the replies of those that Redis has executed
  poll,      \* the polls in progress
  landed,    \* landedUamIds
  shown,     \* what the clients have from the last uam:update
  stored,    \* history: the number of the status that put a vehicle in the queue last
  gone,      \* history: how many statuses were older than the removal clients know of
  statuses, removals

store    == <<scored, detail>>
conn     == <<commands, replies>>
counts   == <<statuses, removals>>
vars == <<store, half, conn, poll, landed, shown, stored, gone, counts>>

-----------------------------------------------------------------------------
(* Commands and polls *)

Queued == {u \in Uam : scored[u] # NoStatus}
ScoreOf(u) == Score(scored[u].battery, scored[u].distance)

\* ZREVRANGE 0 .. Limit - 1, with equal scores in any order.
TopUams ==
  LET size == IF Cardinality(Queued) > Limit THEN Limit ELSE Cardinality(Queued)
  IN {ids \in [1 .. size -> Queued] :
        /\ IsInjective(ids)
        /\ \A i, j \in 1 .. size : i < j => ScoreOf(ids[i]) >= ScoreOf(ids[j])
        /\ \A i \in 1 .. size, u \in Queued \ ToSet(ids) : ScoreOf(ids[i]) >= ScoreOf(u)}

Write(cmds) == commands' = commands \o cmds
Reply(v)    == replies' = Append(replies, v)

\* A poll: its progress, the ids of the queue, the details so far, the polls that
\* read the queue before it and are still in progress; and what befell it (history).
Idle == [at |-> "idle", ids |-> <<>>, got |-> <<>>, before |-> {}, fresh |-> {}, late |-> FALSE]
At(p, at) == poll[p].at = at
HasRead(p) == poll[p].at \in {"read", "getting", "ready"}

\* details.filter(d => d !== null): the places of the details that are kept.
Kept(p) == {i \in DOMAIN poll[p].got : poll[p].got[i] # NoStatus}
Increasing(S) ==
  {at \in [1 .. Cardinality(S) -> S] : \A i, j \in 1 .. Cardinality(S) : i < j => at[i] < at[j]}
Details(p, at) == [i \in DOMAIN at |-> [uam |-> poll[p].ids[at[i]], status |-> poll[p].got[at[i]]]]

\* Polls in progress learn which vehicles reported meanwhile (history).
Refreshed(u) == [p \in Poll |-> IF HasRead(p) THEN [poll[p] EXCEPT !.fresh = @ \cup {u}] ELSE poll[p]]

\* ... and which broadcasts overtake them on their last steps (history).
Overtaken == [p \in Poll |-> IF At(p, "ready") THEN [poll[p] EXCEPT !.late = TRUE] ELSE poll[p]]

\* The clients are told of the removal of vehicles, which n statuses preceded.
Announced(us, n) == [u \in Uam |-> IF u \in us /\ n > gone[u] THEN n ELSE gone[u]]

-----------------------------------------------------------------------------
(* The scheduler's handlers *)

\* The 1 s timer; it does not wait for the poll before.
StartPoll(p) ==
  /\ At(p, "idle")
  /\ poll' = [poll EXCEPT ![p].at = "reading"]
  /\ Write(<<[op |-> "zrevrange", poll |-> p]>>)
  /\ UNCHANGED <<store, half, replies, landed, shown, stored, gone, counts>>

RegisterLanded(u) ==
  /\ removals < MaxRemovals /\ removals' = removals + 1
  /\ u \notin landed
  /\ landed' = landed \cup {u}
  /\ Write(<<[op |-> "zrem", uam |-> u]>>)
  /\ UNCHANGED <<store, half, replies, poll, shown, stored, gone, statuses>>

\* Mutant: the empty lists are broadcast with the notice of the reset.
TriggerAutoResetEarly ==
  /\ removals < MaxRemovals /\ removals' = removals + 1
  /\ gone' = Announced(Uam, statuses) /\ shown' = <<>>
  /\ Write(<<[op |-> "delQueue"]>>)
  /\ UNCHANGED <<store, half, replies, poll, landed, stored, statuses>>

TriggerAutoReset ==
  /\ removals < MaxRemovals /\ removals' = removals + 1
  /\ Write(<<[op |-> "delQueue"]>>)
  /\ UNCHANGED <<store, half, replies, poll, landed, shown, stored, gone, statuses>>

-----------------------------------------------------------------------------
(* Redis *)

\* The rest of the event loop's turn comes before a command that is written in
\* a later one.
Turn == \A p \in Poll : ~At(p, "ready")

\* The pipeline of a status: ZADD now, SET later.  It may belong to a handler that
\* passed the landed check before the vehicle landed.
Zadd(u, s) ==
  /\ Turn
  /\ statuses < MaxStatus /\ statuses' = statuses + 1
  /\ half = <<>> /\ half' = <<[uam |-> u, status |-> s]>>
  /\ scored' = [scored EXCEPT ![u] = s]
  /\ stored' = [stored EXCEPT ![u] = statuses + 1]
  /\ poll' = Refreshed(u)
  /\ UNCHANGED <<detail, conn, landed, shown, gone, removals>>

Set ==
  /\ Turn
  /\ half # <<>> /\ half' = <<>>
  /\ detail' = [detail EXCEPT ![half[1].uam] = half[1].status]
  /\ poll' = Refreshed(half[1].uam)
  /\ UNCHANGED <<scored, conn, landed, shown, stored, gone, counts>>

\* sendLandingCommand's ZREM, on AppService's connection.
LandZrem(u) ==
  /\ Turn
  /\ u \in Queued \ landed
  /\ scored' = [scored EXCEPT ![u] = NoStatus]
  /\ UNCHANGED <<detail, half, conn, poll, landed, shown, stored, gone, counts>>

DetailExpire(u) ==
  /\ Turn
  /\ detail[u] # NoStatus
  /\ detail' = [detail EXCEPT ![u] = NoStatus]
  /\ UNCHANGED <<scored, half, conn, poll, landed, shown, stored, gone, counts>>

Zrevrange(c) ==
  /\ c.op = "zrevrange"
  /\ \E ids \in TopUams : Reply(ids)
  /\ poll' = [poll EXCEPT ![c.poll].at = "read",
                          ![c.poll].before = {q \in Poll : HasRead(q)},
                          ![c.poll].fresh = {e.uam : e \in ToSet(half)}]
  /\ UNCHANGED store

Get(c) ==
  /\ c.op = "get"
  /\ Reply(detail[c.uam])
  /\ UNCHANGED <<store, poll>>

\* What Redis answers to the next two is not used; the number of statuses stored
\* so far stands for it (history).
Zrem(c) ==
  /\ c.op = "zrem"
  /\ Reply(statuses)
  /\ scored' = [scored EXCEPT ![c.uam] = NoStatus]
  /\ UNCHANGED <<detail, poll>>

DelQueue(c) ==
  /\ c.op = "delQueue"
  /\ Reply(statuses)
  /\ scored' = [u \in Uam |-> NoStatus]
  /\ UNCHANGED <<detail, poll>>

Del(c) ==
  /\ c.op = "del"
  /\ Reply("OK")
  /\ detail' = [u \in Uam |-> IF u \in c.uams THEN NoStatus ELSE detail[u]]
  /\ UNCHANGED <<scored, poll>>

Keys(c) ==
  /\ c.op = "keys"
  /\ Reply({u \in Uam : detail[u] # NoStatus})
  /\ UNCHANGED <<store, poll>>

Execute ==
  /\ Turn
  /\ Len(replies) < Len(commands)
  /\ LET c == commands[Len(replies) + 1]
     IN Zrevrange(c) \/ Get(c) \/ Zrem(c) \/ Del(c) \/ DelQueue(c) \/ Keys(c)
  /\ UNCHANGED <<half, commands, landed, shown, stored, gone, counts>>

-----------------------------------------------------------------------------
(* Replies *)

\* The reply at the head is handled; its handler writes cmds.
Handled(cmds) == commands' = Tail(commands) \o cmds

\* All GETs are written at once; there are none for an empty queue.
QueueRead(c, ids) ==
  /\ c.op = "zrevrange"
  /\ poll' = [poll EXCEPT ![c.poll].ids = ids,
                          ![c.poll].at = IF ids = <<>> THEN "ready" ELSE "getting"]
  /\ Handled([i \in DOMAIN ids |-> [op |-> "get", poll |-> c.poll, nth |-> i, uam |-> ids[i]]])
  /\ UNCHANGED <<landed, gone, shown>>

Got(p, status) ==
  poll' = [poll EXCEPT ![p].got = Append(@, status),
                       ![p].at = IF Len(poll[p].got) + 1 = Len(poll[p].ids) THEN "ready" ELSE @]

\* Mutant: a detail that is missing is asked for again.
DetailReadAgain(c, status) ==
  /\ c.op = "get"
  /\ \/ status = NoStatus /\ Handled(<<c>>) /\ UNCHANGED poll
     \/ status # NoStatus /\ Handled(<<>>) /\ Got(c.poll, status)
  /\ UNCHANGED <<landed, gone, shown>>

DetailRead(c, status) ==
  /\ c.op = "get"
  /\ Got(c.poll, status)
  /\ Handled(<<>>)
  /\ UNCHANGED <<landed, gone, shown>>

Zremmed(c, n) ==
  /\ c.op = "zrem"
  /\ Handled(<<[op |-> "del", for |-> "landing", uams |-> {c.uam}, since |-> n]>>)
  /\ UNCHANGED <<poll, landed, gone, shown>>

\* The end of registerLanded: landed:update is broadcast.
LandingDeleted(c) ==
  /\ c.op = "del" /\ c.for = "landing"
  /\ gone' = Announced(c.uams, c.since)
  /\ poll' = Overtaken
  /\ Handled(<<>>)
  /\ UNCHANGED <<landed, shown>>

QueueDeleted(c, n) ==
  /\ c.op = "delQueue"
  /\ Handled(<<[op |-> "keys", since |-> n]>>)
  /\ UNCHANGED <<poll, landed, gone, shown>>

\* The end of the reset: the memory is cleared, empty lists are broadcast.
ResetDone(c) ==
  /\ landed' = {}
  /\ gone' = Announced(Uam, c.since)
  /\ shown' = <<>>
  /\ poll' = Overtaken
  /\ Handled(<<>>)

KeysListed(c, keys) ==
  /\ c.op = "keys"
  /\ \/ keys = {} /\ ResetDone(c)
     \/ /\ keys # {}
        /\ Handled(<<[op |-> "del", for |-> "reset", uams |-> keys, since |-> c.since]>>)
        /\ UNCHANGED <<poll, landed, gone, shown>>

KeysDeleted(c) == c.op = "del" /\ c.for = "reset" /\ ResetDone(c)

Deliver ==
  /\ replies # <<>> /\ replies' = Tail(replies)
  /\ LET c == Head(commands)
         v == Head(replies)
     IN \/ QueueRead(c, v) \/ DetailRead(c, v)
        \/ Zremmed(c, v) \/ LandingDeleted(c)
        \/ QueueDeleted(c, v) \/ KeysListed(c, v) \/ KeysDeleted(c)
  /\ UNCHANGED <<store, half, stored, counts>>

\* The others forget a poll that has ended.
Ended(p, rest) ==
  [q \in Poll |-> IF q = p THEN rest ELSE [poll[q] EXCEPT !.before = @ \ {p}]]

\* Mutant: the details of a poll are collected in an array of the gateway.
EmitKeepingDetails(p) ==
  /\ At(p, "ready")
  /\ \E at \in Increasing(Kept(p)) : shown' = Details(p, at)
  /\ poll' = Ended(p, [Idle EXCEPT !.got = poll[p].got])
  /\ UNCHANGED <<store, half, conn, landed, stored, gone, counts>>

\* The end of a poll.  Polls that waited for details pass Promise.all in order.
Emit(p) ==
  /\ At(p, "ready")
  /\ \A q \in poll[p].before : At(q, "ready") => poll[p].ids = <<>>
  /\ \E at \in Increasing(Kept(p)) : shown' = Details(p, at)
  /\ poll' = Ended(p, Idle)
  /\ UNCHANGED <<store, half, conn, landed, stored, gone, counts>>

Init ==
  /\ scored = [u \in Uam |-> NoStatus] /\ detail = [u \in Uam |-> NoStatus]
  /\ half = <<>> /\ commands = <<>> /\ replies = <<>>
  /\ poll = [p \in Poll |-> Idle]
  /\ landed = {} /\ shown = <<>>
  /\ stored = [u \in Uam |-> 0] /\ gone = [u \in Uam |-> 0]
  /\ statuses = 0 /\ removals = 0

Next ==
  \/ \E u \in Uam, s \in Status : Zadd(u, s)
  \/ \E u \in Uam : RegisterLanded(u) \/ LandZrem(u) \/ DetailExpire(u)
  \/ \E p \in Poll : StartPoll(p) \/ Emit(p)
  \/ TriggerAutoReset
  \/ Set \/ Execute \/ Deliver

Spec == Init /\ [][Next]_vars
-----------------------------------------------------------------------------
(* Properties *)

Entry == [uam: Uam, status: Status]

\* Types; a poll waits for as many details as it read ids, and no list is longer
\* than the limit.
TypeOK ==
  /\ scored \in [Uam -> Status \cup {NoStatus}] /\ detail \in [Uam -> Status \cup {NoStatus}]
  /\ half \in Seq(Entry) /\ Len(half) <= 1
  /\ Len(replies) <= Len(commands)
  /\ \A p \in Poll :
       /\ poll[p].at \in {"idle", "reading", "read", "getting", "ready"}
       /\ Len(poll[p].got) <= Len(poll[p].ids) /\ Len(poll[p].ids) <= Limit
       /\ poll[p].before \subseteq Poll \ {p} /\ poll[p].fresh \subseteq Uam
  /\ landed \subseteq Uam /\ {stored, gone} \subseteq [Uam -> 0 .. statuses]
  /\ shown \in Seq(Entry) /\ Len(shown) <= Limit

\* Poll p sends its list in this step.
Sends(p) == At(p, "ready") /\ poll'[p].at = "idle"

\* Polls overlap when Redis is slow.  Still no list of vehicles is followed by one
\* that was read before it: a poll with details to read is never overtaken by
\* another such poll.  (An empty list needs no details and may overtake.)
ListsInOrder ==
  [][\A p \in Poll :
       Sends(p) /\ poll[p].ids # <<>> =>
         \A q \in poll[p].before : poll[q].ids = <<>>]_vars

\* A list never brings back a vehicle that the clients have been told is gone, by
\* landed:update or by the reset, unless its status was stored after the removal:
\* a poll that read the queue before it is always sent first.  (The exception is
\* a poll whose last reply is handled in one turn with that broadcast.)
GoneStaysGone ==
  [][\A p \in Poll :
       Sends(p) /\ ~poll[p].late =>
         \A e \in ToSet(shown') : stored[e.uam] > gone[e.uam]]_vars

\* Score and details are read at different times.  Yet a vehicle that is shown as
\* no emergency is before one that is shown as an emergency only if one of the
\* two reported while the poll was on its way.
EmergenciesLead ==
  [][\A p \in Poll :
       Sends(p) =>
         \A i, j \in DOMAIN shown' :
           /\ i < j
           /\ IsEmergency(shown'[j].status.battery) /\ ~IsEmergency(shown'[i].status.battery)
           => {shown'[i].uam, shown'[j].uam} \cap poll[p].fresh # {}]_vars
=============================================================================
