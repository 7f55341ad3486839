------------------------------ MODULE Contract ------------------------------
(***************************************************************************)
(* What a session is to the two people who pay and are paid for it: an     *)
(* escrow.  It is opened by one acceptance, collects money while it runs,  *)
(* and is closed once, giving out exactly what it holds.  TutorNow         *)
(* implements this (Promises!KeepsTheContract).                            *)
(***************************************************************************)
EXTENDS Integers

CONSTANTS Sessions, Offers

VARIABLES
  phase,      \* "waiting" for a teacher, "running", or "closed"
  accepted,   \* the offers the session was accepted through
  collected,  \* what the student was charged
  paid        \* who got it: the platform, the teacher, the student again

cvars == <<phase, accepted, collected, paid>>

Nobody == [fee |-> 0, earning |-> 0, refund |-> 0]

(* Either the student gets everything back, or the teacher and the platform share it. *)
Payouts(total) ==
  {[fee |-> total - earning, earning |-> earning, refund |-> 0] : earning \in 0 .. total}
    \cup {[fee |-> 0, earning |-> 0, refund |-> total]}

Init ==
  /\ phase = [s \in Sessions |-> "waiting"]
  /\ accepted = [s \in Sessions |-> {}]
  /\ collected = [s \in Sessions |-> 0]
  /\ paid = [s \in Sessions |-> Nobody]

Start(s, o, amount) ==
  /\ phase[s] = "waiting"
  /\ phase' = [phase EXCEPT ![s] = "running"]
  /\ accepted' = [accepted EXCEPT ![s] = {o}]
  /\ collected' = [collected EXCEPT ![s] = amount]
  /\ UNCHANGED paid

Extend(s, amount) ==
  /\ phase[s] = "running"
  /\ collected' = [collected EXCEPT ![s] = @ + amount]
  /\ UNCHANGED <<phase, accepted, paid>>

Close(s, payout) ==
  /\ phase[s] = "running"
  /\ payout \in Payouts(collected[s])
  /\ phase' = [phase EXCEPT ![s] = "closed"]
  /\ paid' = [paid EXCEPT ![s] = payout]
  /\ UNCHANGED <<accepted, collected>>

(* The amounts are bound by what the new state holds, so that TLC can evaluate it. *)
Next ==
  \E s \in Sessions :
    \/ \E o \in Offers : Start(s, o, collected'[s])
    \/ collected'[s] >= collected[s] /\ Extend(s, collected'[s] - collected[s])
    \/ Close(s, paid'[s])

Spec == Init /\ [][Next]_cvars
=============================================================================
