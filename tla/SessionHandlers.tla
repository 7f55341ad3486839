-------------------------- MODULE SessionHandlers --------------------------
(***************************************************************************)
(* A running session: it is extended block by block, ended by one of its   *)
(* parties, by the cron tick or as a no-show, settled in the transaction   *)
(* that ends it, and rated.                                                *)
(***************************************************************************)
EXTENDS Requests

CONSTANTS TopUpPackages,  \* TOPUP_PACKAGES
          MaxTopUp,       \* bound on what one user tops up
          Lag             \* ticks a request may wait for a row lock

ASSUME SessionAssumption ==
  TopUpPackages \subseteq Nat \ {0} /\ MaxTopUp \in Nat /\ Lag \in Nat

Parties(s) == {Owner[s], session[s].teacher}

-----------------------------------------------------------------------------
(* POST /sessions/:id/extend *)

(* extendSessionBlock's first read: the end of the session the student saw.  A session *)
(* without one cannot be extended by this request any more.                            *)
BeginExtend(h, s) ==
  /\ session[s].status = "ACTIVE"
  /\ Begin(h, [op |-> "extend", session |-> s, endsAt |-> session[s].endsAt])
  /\ UNCHANGED <<tables, now, history>>

(* Its transaction.  One extension is EXTENSION_BLOCKS = 1 block. *)
ExtendSessionBlock(h) ==
  LET r == req[h]
      s == r.session
      amount == session[s].price
      charged == session[s].totalCharged + amount
      number == session[s].blocksUsed + 1
  IN
  /\ At(h, "extend")
  /\ charged <= BudgetCap
  /\ chargeStudent(Owner[s], s, amount)
  /\ extendSession(s, r.endsAt, r.endsAt + BlockLength, number, charged)
  /\ recordBlock(s, number, amount)
  /\ Finish(h)
  /\ UNCHANGED <<profiles, offer, rejectedBy, review, topup, now, history>>

-----------------------------------------------------------------------------
(* Ending *)

settleSession_KeepingTheFee(s, reason, actor, endedAt, percent) ==
  LET gross == session[s].totalCharged
      fee   == commission(gross, percent)
  IN IF ~session[s].video
     THEN [fee |-> fee, earning |-> 0, refund |-> gross, reason |-> "error"]
     ELSE [fee |-> fee, earning |-> gross - fee, refund |-> 0, reason |-> reason]

(* settleSession: who gets what.  `percent` is platformFeeRate's answer, which the     *)
(* teacher's seniority and the hour the session started at decide.                     *)
settleSession(s, reason, actor, endedAt, percent) ==
  LET gross == session[s].totalCharged
      fee   == commission(gross, percent)
      leftEarly == /\ actor = Owner[s]
                   /\ session[s].blocksUsed = OpeningBlocks
                   /\ endedAt - session[s].startedAt < NoShowWindow
  IN CASE ~session[s].video ->
            [fee |-> 0, earning |-> 0, refund |-> gross, reason |-> "error"]
       [] session[s].video /\ leftEarly ->
            [fee |-> 0, earning |-> 0, refund |-> gross, reason |-> reason]
       [] OTHER ->
            [fee |-> fee, earning |-> gross - fee, refund |-> 0, reason |-> reason]

(* The transaction of terminateSession.  It locks the session and asks whether it is   *)
(* still ACTIVE, not whether it is still due.                                          *)
terminateSession(s, reason, actor, endedAt) ==
  \E percent \in FeePercents :
    LET settled == settleSession(s, reason, actor, endedAt, percent) IN
    /\ assertTransition(session[s].status, "ENDED")
    /\ endSession(s, "ENDED", settled.reason, settled.fee, settled.earning)
    /\ CASE settled.earning > 0 -> creditTeacher(session[s].teacher, s, settled.earning)
         [] settled.refund > 0  -> refundSession(Owner[s], s, settled.refund)
         [] OTHER               -> UNCHANGED <<wallet, ledger>>
    /\ releaseTeacherAfterSession(session[s].teacher, 1, 0)
    /\ UNCHANGED <<offer, rejectedBy, review, blocks, topup, now, history>>

(* terminateSession and reportSessionNoShow take the instant before they wait for the  *)
(* session's lock, so it may be an earlier one than the commit's.                      *)
Instants == {i \in 0 .. now : now <= i + Lag}

(* POST /sessions/:id/end, by either party. *)
EndSession(s, actor, endedAt) ==
  /\ actor \in Parties(s)
  /\ terminateSession(s, "student_ended", actor, endedAt)
  /\ UNCHANGED req

(* POST /sessions/:id/no-show, by the student. *)
ReportNoShow(s, endedAt) ==
  LET gross == session[s].totalCharged IN
  /\ assertTransition(session[s].status, "NO_SHOW")
  /\ endedAt - session[s].startedAt <= NoShowWindow
  /\ session[s].blocksUsed = OpeningBlocks
  /\ endSession(s, "NO_SHOW", "teacher_no_show", 0, 0)
  /\ IF gross > 0 THEN refundSession(Owner[s], s, gross) ELSE UNCHANGED <<wallet, ledger>>
  /\ releaseTeacherAfterSession(session[s].teacher, 0, 1)
  /\ UNCHANGED <<offer, rejectedBy, review, blocks, topup, req, now, history>>

(* runAutoEnd's query, after the tick's sweep or in a tick whose sweep finds nothing. *)
FindDueForAutoEnd ==
  LET due == findSessionsDueForAutoEnd IN
  /\ \/ At(Cron, "findDue")
     \/ req[Cron] = Idle /\ ExpiredBefore = {} /\ due # {}
  /\ Become(Cron, IF due = {} THEN Idle ELSE [op |-> "autoEnd", sessions |-> due])
  /\ UNCHANGED <<tables, now, history>>

DropFromAutoEnd(s) ==
  IF req[Cron].sessions = {s} THEN Finish(Cron)
  ELSE Become(Cron, [req[Cron] EXCEPT !.sessions = @ \ {s}])

(* endOne for an id of the list the tick read. *)
AutoEnd(s) ==
  /\ At(Cron, "autoEnd")
  /\ s \in req[Cron].sessions
  /\ terminateSession(s, "no_extension", Null, now)
  /\ DropFromAutoEnd(s)

(* endOne when somebody else ended the session first: nothing to do. *)
AutoEndTooLate(s) ==
  /\ At(Cron, "autoEnd")
  /\ s \in req[Cron].sessions
  /\ ~assertTransition(session[s].status, "ENDED")
  /\ DropFromAutoEnd(s)
  /\ UNCHANGED <<tables, now, history>>

(* endOne failing otherwise: the error is logged, and the next tick finds the session. *)
AutoEndFails(s) ==
  /\ At(Cron, "autoEnd")
  /\ s \in req[Cron].sessions
  /\ faults < MaxFaults
  /\ faults' = faults + 1
  /\ DropFromAutoEnd(s)
  /\ UNCHANGED <<tables, now, stray>>

-----------------------------------------------------------------------------
(* POST /sessions/:id/review *)

(* submitSessionReview; stars are optional.  reviews.session_id is unique. *)
SubmitReview(s, stars) ==
  LET t == session[s].teacher IN
  /\ assertTransition(session[s].status, "RATED")
  /\ review[s] = "none"
  /\ review' = [review EXCEPT ![s] = stars]
  /\ tally' = [tally EXCEPT ![t] =
       [tally[t] EXCEPT !.ratingCount = @ + (IF stars = "stars" THEN 1 ELSE 0),
                        !.topicSessions = @ + 1]]
  /\ setSessionRated(s)
  /\ UNCHANGED <<teacher, offer, rejectedBy, money, req, now, history>>

-----------------------------------------------------------------------------
(* Video rooms and top-ups *)

(* getSessionVideoContext finding a running session without a room: the repair path. *)
BeginRepairVideo(h, s) ==
  /\ session[s].status = "ACTIVE"
  /\ ~session[s].video
  /\ Begin(h, [op |-> "room", session |-> s])
  /\ UNCHANGED <<tables, now, history>>

(* attachSessionVideo, once the provider has answered: it stores the room unless there *)
(* is one, whatever has become of the session meanwhile.                               *)
AttachSessionVideo(h) ==
  LET s == req[h].session IN
  /\ At(h, "room")
  /\ ~session[s].video
  /\ setSessionVideoRoom(s)
  /\ Finish(h)
  /\ UNCHANGED <<profiles, offer, rejectedBy, money, review, now, history>>

(* POST /wallet/topup: topUpBalance.  The route has no role check, a teacher may. *)
TopUp(u, amount) ==
  /\ topup[u] + amount <= MaxTopUp
  /\ topUpWallet(u, amount)
  /\ UNCHANGED <<profiles, session, offer, rejectedBy, blocks, review, ledger, req, now, history>>

SessionNext ==
  \/ \E h \in Handlers, s \in Sessions : BeginExtend(h, s) \/ BeginRepairVideo(h, s)
  \/ \E h \in Handlers : ExtendSessionBlock(h) \/ AttachSessionVideo(h)
  \/ \E s \in Sessions, endedAt \in Instants :
       \/ \E actor \in Users : EndSession(s, actor, endedAt)
       \/ ReportNoShow(s, endedAt)
  \/ FindDueForAutoEnd
  \/ \E s \in Sessions : AutoEnd(s) \/ AutoEndTooLate(s) \/ AutoEndFails(s)
  \/ \E s \in Sessions, stars \in {"stars", "no_stars"} : SubmitReview(s, stars)
  \/ \E u \in Users, amount \in TopUpPackages : TopUp(u, amount)
=============================================================================
