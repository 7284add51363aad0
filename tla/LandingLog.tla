----------------------------- MODULE LandingLog -----------------------------
(***************************************************************************)
(* What the scheduler promises about landings, without Redis, awaits or    *)
(* concurrent handlers: a vehicle counts as landed from the moment it is   *)
(* accepted, is recorded at most once and only while it counts as landed,  *)
(* and is forgotten together with all the others or not at all.            *)
(***************************************************************************)
EXTENDS SequencesExt

CONSTANT Uam

VARIABLES
  known,  \* vehicles that count as landed
  log     \* the landed list that is shown, newest first

Init == known = {} /\ log = <<>>

Accept(u) ==
  /\ u \notin known
  /\ known' = known \cup {u}
  /\ UNCHANGED log

Record(u) ==
  /\ u \in known \ ToSet(log)
  /\ log' = <<u>> \o log
  /\ UNCHANGED known

Forget == known' = {} /\ log' = <<>>

Next == Forget \/ \E u \in Uam : Accept(u) \/ Record(u)

Spec == Init /\ [][Next]_<<known, log>>
=============================================================================
