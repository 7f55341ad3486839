------------------------------ MODULE TutorNow ------------------------------
(***************************************************************************)
(* The whole marketplace: offers and sessions over the same tables, the    *)
(* teachers who move their own availability, presence taking them offline, *)
(* the clock, and restarts of the server.                                  *)
(***************************************************************************)
EXTENDS OfferHandlers, SessionHandlers

CONSTANT MaxNow  \* bound on the clock

ASSUME HorizonAssumption == MaxNow \in Nat

vars == <<tables, now, req, faults, stray>>

-----------------------------------------------------------------------------
(* PATCH /teachers/me *)

(* teacher.status.rules.js: only ONLINE is ever refused, and only to a teacher the     *)
(* system has locked.                                                                  *)
assertStatusChangeAllowed(current, next) ==
  next = "ONLINE" => current \notin {"OFFER_LOCKED", "IN_SESSION"}

(* updateTeacherMe up to its write: the rule is asked of the status it read. *)
BeginUpdateStatus(h, t, next) ==
  /\ t \in Patchers
  /\ assertStatusChangeAllowed(teacher[t], next)
  /\ Begin(h, [op |-> "status", teacher |-> t, next |-> next])
  /\ UNCHANGED <<tables, now, history>>

(* updateTeacherProfile: the write names no status in its WHERE clause. *)
UpdateTeacherProfile(h) ==
  /\ At(h, "status")
  /\ teacher' = [teacher EXCEPT ![req[h].teacher] = req[h].next]
  /\ Finish(h)
  /\ UNCHANGED <<tally, session, offer, rejectedBy, money, review, now, history>>

(* setTeacherOffline, for a closed laptop or a logout, and the row sweepIdleTeachers   *)
(* moves for an idle one: conditional on ONLINE.                                       *)
TakeTeacherOffline(t) ==
  /\ teacher[t] = "ONLINE"
  /\ teacher' = [teacher EXCEPT ![t] = "OFFLINE"]
  /\ UNCHANGED <<tally, session, offer, rejectedBy, money, review, req, now, history>>

-----------------------------------------------------------------------------
(* A handler answers an error: a guard of its transaction failed, or the database did, *)
(* or the video provider did.  Nothing was written.                                    *)
Fail(h) ==
  /\ req[h].op \in Rollbackable
  /\ Finish(h)
  /\ UNCHANGED <<tables, now, history>>

(* The process is restarted: the tables stay, what the requests had read is gone. *)
Restart ==
  /\ faults < MaxFaults
  /\ faults' = faults + 1
  /\ req' = [p \in Procs |-> Idle]
  /\ UNCHANGED <<tables, now, stray>>

Tick ==
  /\ now < MaxNow
  /\ now' = now + 1
  /\ UNCHANGED <<tables, req, history>>

TeacherNext ==
  \/ \E h \in Handlers, t \in Teachers, next \in {"ONLINE", "OFFLINE"} :
       BeginUpdateStatus(h, t, next)
  \/ \E h \in Handlers : UpdateTeacherProfile(h)
  \/ \E t \in Teachers : TakeTeacherOffline(t)

Init == TablesInit /\ RequestsInit

Next ==
  \/ OfferNext
  \/ SessionNext
  \/ TeacherNext
  \/ \E h \in Handlers : Fail(h)
  \/ Restart
  \/ Tick

Spec == Init /\ [][Next]_vars

(* Fairness: node-cron keeps ticking without overlap, the clock advances, and a request *)
(* that was begun ends, in its commit or in an error.  Nobody has to begin one.         *)
CronStep ==
  \/ BeginExpiry(Cron) \/ ExpireOffers(Cron) \/ RereadExpired(Cron)
  \/ \E o \in Offers : SettleExpiredOffer(Cron, o)
  \/ FindDueForAutoEnd
  \/ \E s \in Sessions : AutoEnd(s) \/ AutoEndTooLate(s)

HandlerStep(h) ==
  \/ ExpireOffers(h) \/ RereadExpired(h) \/ (\E o \in Offers : SettleExpiredOffer(h, o))
  \/ Fail(h)

Fairness == WF_vars(CronStep) /\ WF_vars(Tick) /\ \A h \in Handlers : WF_vars(HandlerStep(h))

FairSpec == Spec /\ Fairness

-----------------------------------------------------------------------------
(* Every variable holds a value of its table's or its request's shape. *)
TypeOK ==
  /\ teacher \in [Teachers -> TeacherStatus]
  /\ tally \in [Teachers -> Tally]
  /\ session \in [Sessions -> Session]
  /\ offer \in [Offers -> Offer \cup {Null}]
  /\ rejectedBy \in [Sessions -> SUBSET Teachers]
  /\ blocks \in [Sessions -> Seq([number : Nat, amount : Nat])]
  /\ review \in [Sessions -> {"none", "stars", "no_stars"}]
  /\ wallet \in [Users -> Nat]
  /\ ledger \in [Sessions -> Ledger]
  /\ topup \in [Users -> Nat]
  /\ now \in Nat
  /\ req \in [Procs -> Request]
  /\ faults \in Nat
  /\ stray \in BOOLEAN
=============================================================================
