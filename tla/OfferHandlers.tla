--------------------------- MODULE OfferHandlers ---------------------------
(***************************************************************************)
(* The offer's life: a student sends it, a teacher accepts or rejects it,  *)
(* or its deadline passes and a sweep settles it.  Three pieces of code    *)
(* may settle a dead offer: the teacher's late answer, the cron tick, and  *)
(* the match list, which runs the cron's sweep before it refuses.          *)
(***************************************************************************)
EXTENDS Requests

openingPrice(t) == OpeningBlocks * Price[t]

-----------------------------------------------------------------------------
(* POST /sessions/:id/offer *)

(* sendOffer up to its transaction: every check is made on rows it does not lock. *)
BeginSendOffer(h, s, t) ==
  /\ session[s].status = "PENDING"
  /\ wallet[Owner[s]] >= openingPrice(t)
  /\ Begin(h, [op |-> "sendOffer", session |-> s, teacher |-> t, at |-> now])
  /\ UNCHANGED <<tables, now, history>>

(* The transaction of sendOffer. *)
SendOffer(h, o) ==
  LET r == req[h] IN
  /\ At(h, "sendOffer")
  /\ lockTeacherForOffer(r.teacher)
  /\ createOffer(o, r.session, r.teacher, r.at + OfferTtl)
  /\ setSessionOfferSent(r.session, r.teacher, Price[r.teacher])
  /\ incrementOffersReceived(r.teacher)
  /\ Finish(h)
  /\ UNCHANGED <<money, rejectedBy, review, now, history>>

-----------------------------------------------------------------------------
(* POST /offers/:id/accept and /reject *)

(* acceptOffer up to activateAcceptedOffer's transaction.  The deadline is read here   *)
(* and not again; the start of the session is this instant too.                        *)
BeginAccept(h, o) ==
  /\ Exists(o)
  /\ Begin(h, IF hasExpired(o) THEN [op |-> "sweepExpired", offer |-> o]
                               ELSE [op |-> "accept", offer |-> o, at |-> now])
  /\ UNCHANGED <<tables, now, history>>

(* rejectOffer up to its transaction. *)
BeginReject(h, o) ==
  /\ Exists(o)
  /\ Begin(h, [op |-> IF hasExpired(o) THEN "sweepExpired" ELSE "reject", offer |-> o])
  /\ UNCHANGED <<tables, now, history>>

(* activateAcceptedOffer.  The session is locked first, and the teacher it is for is   *)
(* whoever sessions.teacher_id names, not the teacher who answers.  The room is asked  *)
(* for after the commit, by the same handler.                                          *)
ActivateAcceptedOffer(h) ==
  LET r == req[h]
      o == r.offer
      s == offer[o].session
      amount == OpeningBlocks * session[s].price
  IN
  /\ At(h, "accept")
  /\ assertTransition(session[s].status, "ACTIVE")
  /\ markOfferResponded(o, "ACCEPTED")
  /\ setSessionActive(s, r.at, r.at + OpeningBlocks * BlockLength, OpeningBlocks, amount)
  /\ setTeacherInSession(offer[o].teacher)
  /\ chargeStudent(Owner[s], s, amount)
  /\ recordBlock(s, 1, amount)
  /\ Become(h, [op |-> "room", session |-> s])
  /\ UNCHANGED <<rejectedBy, review, topup, now, history>>

(* The transaction of rejectOffer, when the offer is still PENDING. *)
RejectOffer(h) ==
  LET o == req[h].offer
      s == offer[o].session
  IN
  /\ At(h, "reject")
  /\ markOfferResponded(o, "REJECTED")
  /\ setSessionPending(s)
  /\ appendRejectedBy(s, offer[o].teacher)
  /\ releaseTeacherLock(offer[o].teacher)
  /\ Finish(h)
  /\ UNCHANGED <<money, tally, review, now, history>>

(* sweepExpiredOffer: what a late answer does instead of answering. *)
SweepExpiredOffer(h) ==
  LET o == req[h].offer IN
  /\ At(h, "sweepExpired")
  /\ markOfferResponded(o, "EXPIRED")
  /\ setSessionPending(offer[o].session)
  /\ releaseTeacherLock(offer[o].teacher)
  /\ Finish(h)
  /\ UNCHANGED <<money, tally, rejectedBy, review, now, history>>

-----------------------------------------------------------------------------
(* jobs/offer.expiry.job.js, run by the tick and by the match list *)

(* What a process does once the sweep is over: the tick goes on to the session jobs. *)
AfterSweep(p) == Become(p, IF p = Cron THEN [op |-> "findDue"] ELSE Idle)

(* A match list is asked for a question whose session is not PENDING. *)
MatchListSweeps(p) == p \in Matchers /\ \E s \in Sessions : session[s].status # "PENDING"

(* The first statement of expirePendingOffersBefore.  A sweep that finds nothing does  *)
(* nothing, so it is not a step.                                                       *)
BeginExpiry(p) ==
  /\ p = Cron \/ MatchListSweeps(p)
  /\ req[p] = Idle
  /\ ExpiredBefore # {}
  /\ Become(p, [op |-> "expire", offers |-> ExpiredBefore])
  /\ UNCHANGED <<tables, now, history>>

(* Its second: conditional per row.  A short count sends it to read the rows again. *)
ExpireOffers(p) ==
  LET due == req[p].offers
      hit == {o \in due : Unanswered(o)}
  IN
  /\ At(p, "expire")
  /\ offer' = [o \in Offers |-> IF o \in hit THEN [offer[o] EXCEPT !.status = "EXPIRED"]
                                             ELSE offer[o]]
  /\ Become(p, IF hit = due THEN [op |-> "settle", offers |-> due]
                            ELSE [op |-> "reread", offers |-> due, own |-> hit])
  /\ UNCHANGED <<profiles, session, rejectedBy, money, review, now, history>>

(* Its third: whoever expired them, the rows that are EXPIRED now. *)
RereadExpired(p) ==
  LET swept == {o \in req[p].offers : offer[o].status = "EXPIRED"} IN
  /\ At(p, "reread")
  /\ IF swept = {} THEN AfterSweep(p)
                   ELSE Become(p, [op |-> "settle", offers |-> swept])
  /\ stray' = (stray \/ ~(swept \subseteq req[p].own))
  /\ UNCHANGED <<tables, now, faults>>

(* Going on to the next id, or out of the loop. *)
DropFromSweep(p, o) ==
  IF req[p].offers = {o} THEN AfterSweep(p)
  ELSE Become(p, [req[p] EXCEPT !.offers = @ \ {o}])

SettleExpiredOffer_KeepingTheLock(p, o) ==
  /\ At(p, "settle")
  /\ o \in req[p].offers
  /\ setSessionPending(offer[o].session)
  /\ DropFromSweep(p, o)
  /\ UNCHANGED <<profiles, offer, rejectedBy, money, review, now, history>>

(* settleExpiredOffer: a transaction per id, after the statement that expired it. *)
SettleExpiredOffer(p, o) ==
  /\ At(p, "settle")
  /\ o \in req[p].offers
  /\ setSessionPending(offer[o].session)
  /\ releaseTeacherLock(offer[o].teacher)
  /\ DropFromSweep(p, o)
  /\ UNCHANGED <<tally, offer, rejectedBy, money, review, now, history>>

(* The same transaction failing: the error is logged and the loop goes on. *)
SettleFails(p, o) ==
  /\ At(p, "settle")
  /\ o \in req[p].offers
  /\ faults < MaxFaults
  /\ faults' = faults + 1
  /\ DropFromSweep(p, o)
  /\ UNCHANGED <<tables, now, stray>>

OfferNext ==
  \/ \E h \in Handlers, s \in Sessions, t \in Teachers : BeginSendOffer(h, s, t)
  \/ \E h \in Handlers, o \in Offers : SendOffer(h, o) \/ BeginAccept(h, o) \/ BeginReject(h, o)
  \/ \E h \in Handlers : ActivateAcceptedOffer(h) \/ RejectOffer(h) \/ SweepExpiredOffer(h)
  \/ \E p \in Procs : BeginExpiry(p) \/ ExpireOffers(p) \/ RereadExpired(p)
  \/ \E p \in Procs, o \in Offers : SettleExpiredOffer(p, o) \/ SettleFails(p, o)
=============================================================================
