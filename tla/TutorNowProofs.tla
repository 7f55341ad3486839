--------------------------- MODULE TutorNowProofs ---------------------------
(***************************************************************************)
(* Theorems about TutorNow for every value of its constants: that its      *)
(* tables and requests keep their types, and the promises about a          *)
(* session's acceptance, status and money.                                 *)
(***************************************************************************)
EXTENDS Promises, TLAPS

USE DEF At, Become, Finish, Begin, Exists, Unanswered

-----------------------------------------------------------------------------
(* Arithmetic the money rests on. *)

LEMMA NatProduct == \A m, n \in Nat : m * n \in Nat
  OBVIOUS

(* The commission never exceeds what it is taken from. *)
LEMMA CommissionBounds ==
  ASSUME NEW g \in Nat, NEW r \in 0 .. 100
  PROVE  commission(g, r) \in 0 .. g
  <1>1. g * r \in 0 .. g * 100
    OBVIOUS
  <1>2. QED
    BY <1>1, Z3 DEF commission

-----------------------------------------------------------------------------
(* What a process has in hand is what its operation's record holds. *)
LEMMA InHand ==
  ASSUME TypeOK, NEW p \in Procs
  PROVE  /\ At(p, "sendOffer") => /\ req[p].session \in Sessions
                                  /\ req[p].teacher \in Teachers
                                  /\ req[p].at \in Nat
         /\ At(p, "accept") => req[p].offer \in Offers /\ req[p].at \in Nat
         /\ At(p, "reject") => req[p].offer \in Offers
         /\ At(p, "sweepExpired") => req[p].offer \in Offers
         /\ At(p, "expire") => req[p].offers \in SUBSET Offers
         /\ At(p, "reread") => req[p].offers \in SUBSET Offers /\ req[p].own \in SUBSET Offers
         /\ At(p, "settle") => /\ req[p].offers \in SUBSET Offers
                               /\ req[p] = [op |-> "settle", offers |-> req[p].offers]
         /\ At(p, "extend") => req[p].session \in Sessions /\ req[p].endsAt \in Nat
         /\ At(p, "room") => req[p].session \in Sessions
         /\ At(p, "status") => /\ req[p].teacher \in Teachers
                               /\ req[p].next \in {"ONLINE", "OFFLINE"}
         /\ At(p, "autoEnd") => /\ req[p].sessions \in SUBSET Sessions
                                /\ req[p] = [op |-> "autoEnd", sessions |-> req[p].sessions]
  <1>1. req[p] \in Request
    BY DEF TypeOK
  <1>2. QED
    BY <1>1 DEF Request, Idle

LEMMA BecomeTyped ==
  ASSUME TypeOK, NEW p \in Procs, NEW r \in Request, Become(p, r)
  PROVE  req' \in [Procs -> Request]
  BY DEF TypeOK

-----------------------------------------------------------------------------
(* What the repository functions leave in their table. *)

LEMMA RowWrite ==
  ASSUME NEW S, NEW T, NEW f \in [S -> T], NEW x, NEW row, x \in S => row \in T
  PROVE  [f EXCEPT ![x] = row] \in [S -> T]
  OBVIOUS

LEMMA SessionWrites ==
  ASSUME TypeOK, NEW s \in Sessions, NEW m \in Nat, NEW n \in Nat, NEW k \in Nat, NEW l \in Nat
  PROVE  /\ \A t \in Teachers : setSessionOfferSent(s, t, m) => session' \in [Sessions -> Session]
         /\ setSessionActive(s, m, n, k, l) => session' \in [Sessions -> Session]
         /\ setSessionVideoRoom(s) => session' \in [Sessions -> Session]
         /\ \A e : extendSession(s, e, m, n, k) => session' \in [Sessions -> Session]
         /\ \A status \in Closed, reason \in EndReasons :
              endSession(s, status, reason, m, n) => session' \in [Sessions -> Session]
         /\ setSessionRated(s) => session' \in [Sessions -> Session]
  <1>1. session \in [Sessions -> Session] /\ session[s] \in Session
    BY DEF TypeOK
  <1>2. ASSUME NEW t \in Teachers, setSessionOfferSent(s, t, m)
        PROVE  session' \in [Sessions -> Session]
    <2>1. [session[s] EXCEPT !.status = "OFFER_SENT", !.teacher = t, !.price = m] \in Session
      BY <1>1 DEF Session, SessionStatus
    <2>2. QED
      BY <1>1, <1>2, <2>1, RowWrite DEF setSessionOfferSent
  <1>3. ASSUME setSessionActive(s, m, n, k, l)
        PROVE  session' \in [Sessions -> Session]
    <2>1. [session[s] EXCEPT !.status = "ACTIVE", !.startedAt = m, !.endsAt = n,
                             !.blocksUsed = k, !.totalCharged = l] \in Session
      BY <1>1 DEF Session, SessionStatus
    <2>2. QED
      BY <1>1, <1>3, <2>1, RowWrite DEF setSessionActive
  <1>4. ASSUME setSessionVideoRoom(s)
        PROVE  session' \in [Sessions -> Session]
    <2>1. [session[s] EXCEPT !.video = TRUE] \in Session
      BY <1>1 DEF Session
    <2>2. QED
      BY <1>1, <1>4, <2>1, RowWrite DEF setSessionVideoRoom
  <1>5. ASSUME NEW e, extendSession(s, e, m, n, k)
        PROVE  session' \in [Sessions -> Session]
    <2>1. [session[s] EXCEPT !.endsAt = m, !.blocksUsed = n, !.totalCharged = k] \in Session
      BY <1>1 DEF Session
    <2>2. QED
      BY <1>1, <1>5, <2>1, RowWrite DEF extendSession
  <1>6. ASSUME NEW status \in Closed, NEW reason \in EndReasons,
               endSession(s, status, reason, m, n)
        PROVE  session' \in [Sessions -> Session]
    <2>1. [session[s] EXCEPT !.status = status, !.endReason = reason, !.fee = m,
                             !.earning = n] \in Session
      BY <1>1 DEF Session, SessionStatus, Closed
    <2>2. QED
      BY <1>1, <1>6, <2>1, RowWrite DEF endSession
  <1>7. ASSUME setSessionRated(s)
        PROVE  session' \in [Sessions -> Session]
    <2>1. [session[s] EXCEPT !.status = "RATED"] \in Session
      BY <1>1 DEF Session, SessionStatus
    <2>2. QED
      BY <1>1, <1>7, <2>1, RowWrite DEF setSessionRated
  <1>8. QED
    BY <1>2, <1>3, <1>4, <1>5, <1>6, <1>7

LEMMA PendingWrite ==
  ASSUME TypeOK, NEW s, setSessionPending(s)
  PROVE  session' \in [Sessions -> Session]
  <1>1. session \in [Sessions -> Session]
    BY DEF TypeOK
  <1>2. s \in Sessions =>
          [session[s] EXCEPT !.status = "PENDING", !.teacher = Null, !.price = 0] \in Session
    BY ZenonT(30), <1>1 DEF Session, SessionStatus
  <1>3. QED
    BY <1>1, <1>2, RowWrite DEF setSessionPending

LEMMA TeacherWrites ==
  ASSUME TypeOK, NEW t
  PROVE  /\ lockTeacherForOffer(t) => teacher' \in [Teachers -> TeacherStatus]
         /\ releaseTeacherLock(t) => teacher' \in [Teachers -> TeacherStatus]
         /\ setTeacherInSession(t) => /\ teacher' \in [Teachers -> TeacherStatus]
                                      /\ tally' \in [Teachers -> Tally]
         /\ incrementOffersReceived(t) => tally' \in [Teachers -> Tally]
         /\ \A m, n \in Nat : releaseTeacherAfterSession(t, m, n) =>
              /\ teacher' \in [Teachers -> TeacherStatus]
              /\ tally' \in [Teachers -> Tally]
  <1>1. /\ teacher \in [Teachers -> TeacherStatus]
        /\ tally \in [Teachers -> Tally]
        /\ {"ONLINE", "OFFER_LOCKED", "IN_SESSION"} \subseteq TeacherStatus
    BY DEF TypeOK, TeacherStatus
  <1>2. lockTeacherForOffer(t) => teacher' \in [Teachers -> TeacherStatus]
    BY <1>1, RowWrite DEF lockTeacherForOffer
  <1>3. releaseTeacherLock(t) => teacher' \in [Teachers -> TeacherStatus]
    BY <1>1, RowWrite DEF releaseTeacherLock
  <1>4. ASSUME setTeacherInSession(t)
        PROVE  teacher' \in [Teachers -> TeacherStatus] /\ tally' \in [Teachers -> Tally]
    <2>1. t \in Teachers =>
            [tally[t] EXCEPT !.offersAccepted = tally[t].offersAccepted + 1] \in Tally
      BY <1>1 DEF Tally
    <2>2. QED
      BY <1>1, <1>4, <2>1, RowWrite DEF setTeacherInSession
  <1>5. ASSUME incrementOffersReceived(t)
        PROVE  tally' \in [Teachers -> Tally]
    <2>1. t \in Teachers =>
            [tally[t] EXCEPT !.offersReceived = tally[t].offersReceived + 1] \in Tally
      BY <1>1 DEF Tally
    <2>2. QED
      BY <1>1, <1>5, <2>1, RowWrite DEF incrementOffersReceived
  <1>6. ASSUME NEW m \in Nat, NEW n \in Nat, releaseTeacherAfterSession(t, m, n)
        PROVE  teacher' \in [Teachers -> TeacherStatus] /\ tally' \in [Teachers -> Tally]
    <2>1. t \in Teachers => /\ tally[t] \in Tally
                            /\ tally[t].sessionsCount + m \in Nat
                            /\ tally[t].noShowCount + n \in Nat
      BY <1>1 DEF Tally
    <2>2. t \in Teachers =>
            [tally[t] EXCEPT !.sessionsCount = @ + m, !.noShowCount = @ + n] \in Tally
      BY <2>1 DEF Tally
    <2>3. teacher' \in [Teachers -> TeacherStatus]
      BY <1>1, <1>6, RowWrite DEF releaseTeacherAfterSession
    <2>4. tally' \in [Teachers -> Tally]
      BY <1>1, <1>6, <2>2, RowWrite DEF releaseTeacherAfterSession
    <2>5. QED
      BY <2>3, <2>4
  <1>7. QED
    BY <1>2, <1>3, <1>4, <1>5, <1>6

LEMMA OfferWrites ==
  ASSUME TypeOK, NEW o \in Offers
  PROVE  /\ \A s \in Sessions, t \in Teachers, n \in Nat :
              createOffer(o, s, t, n) => offer' \in [Offers -> Offer \cup {Null}]
         /\ \A status \in OfferStatus : markOfferResponded(o, status) =>
              /\ offer[o] \in Offer
              /\ offer' \in [Offers -> Offer \cup {Null}]
  <1>1. offer \in [Offers -> Offer \cup {Null}]
    BY DEF TypeOK
  <1>2. ASSUME NEW s \in Sessions, NEW t \in Teachers, NEW n \in Nat, createOffer(o, s, t, n)
        PROVE  offer' \in [Offers -> Offer \cup {Null}]
    <2>1. [status |-> "PENDING", session |-> s, teacher |-> t, expiresAt |-> n] \in Offer
      BY DEF Offer, OfferStatus
    <2>2. QED
      BY <1>1, <1>2, <2>1, RowWrite DEF createOffer
  <1>3. ASSUME NEW status \in OfferStatus, markOfferResponded(o, status)
        PROVE  offer[o] \in Offer /\ offer' \in [Offers -> Offer \cup {Null}]
    <2>1. offer[o] \in Offer
      BY <1>1, <1>3 DEF markOfferResponded
    <2>2. [offer[o] EXCEPT !.status = status] \in Offer
      BY <2>1 DEF Offer
    <2>3. QED
      BY <1>1, <1>3, <2>1, <2>2, RowWrite DEF markOfferResponded
  <1>4. QED
    BY <1>2, <1>3

LEMMA MoneyWrites ==
  ASSUME TypeOK, NEW u, NEW s \in Sessions, NEW n \in Nat
  PROVE  /\ chargeStudent(u, s, n) => wallet' \in [Users -> Nat] /\ ledger' \in [Sessions -> Ledger]
         /\ creditTeacher(u, s, n) => wallet' \in [Users -> Nat] /\ ledger' \in [Sessions -> Ledger]
         /\ refundSession(u, s, n) => wallet' \in [Users -> Nat] /\ ledger' \in [Sessions -> Ledger]
         /\ \A m \in Nat : recordBlock(s, m, n) =>
              blocks' \in [Sessions -> Seq([number : Nat, amount : Nat])]
  <1>1. /\ wallet \in [Users -> Nat]
        /\ ledger \in [Sessions -> Ledger] /\ ledger[s] \in Ledger
        /\ blocks \in [Sessions -> Seq([number : Nat, amount : Nat])]
    BY DEF TypeOK
  <1>2. /\ [ledger[s] EXCEPT !.charge = ledger[s].charge + n] \in Ledger
        /\ [ledger[s] EXCEPT !.earning = ledger[s].earning + n] \in Ledger
        /\ [ledger[s] EXCEPT !.refund = ledger[s].refund + n] \in Ledger
    BY SMTT(30), <1>1 DEF Ledger
  <1>3. u \in Users => wallet[u] + n \in Nat /\ (wallet[u] >= n => wallet[u] - n \in Nat)
    BY <1>1
  <1>4. ASSUME chargeStudent(u, s, n)
        PROVE  wallet' \in [Users -> Nat] /\ ledger' \in [Sessions -> Ledger]
    <2>1. wallet' \in [Users -> Nat]
      BY SMTT(30), <1>1, <1>3, <1>4, RowWrite DEF chargeStudent
    <2>2. ledger' \in [Sessions -> Ledger]
      BY <1>1, <1>2, <1>4, RowWrite DEF chargeStudent
    <2>3. QED
      BY <2>1, <2>2
  <1>5. ASSUME creditTeacher(u, s, n)
        PROVE  wallet' \in [Users -> Nat] /\ ledger' \in [Sessions -> Ledger]
    <2>1. wallet' \in [Users -> Nat]
      BY <1>1, <1>3, <1>5, RowWrite DEF creditTeacher
    <2>2. ledger' \in [Sessions -> Ledger]
      BY <1>1, <1>2, <1>5, RowWrite DEF creditTeacher
    <2>3. QED
      BY <2>1, <2>2
  <1>6. ASSUME refundSession(u, s, n)
        PROVE  wallet' \in [Users -> Nat] /\ ledger' \in [Sessions -> Ledger]
    <2>1. wallet' \in [Users -> Nat]
      BY <1>1, <1>3, <1>6, RowWrite DEF refundSession
    <2>2. ledger' \in [Sessions -> Ledger]
      BY <1>1, <1>2, <1>6, RowWrite DEF refundSession
    <2>3. QED
      BY <2>1, <2>2
  <1>7. ASSUME NEW m \in Nat, recordBlock(s, m, n)
        PROVE  blocks' \in [Sessions -> Seq([number : Nat, amount : Nat])]
    <2>1. Append(blocks[s], [number |-> m, amount |-> n]) \in Seq([number : Nat, amount : Nat])
      BY <1>1
    <2>2. QED
      BY <1>1, <1>7, <2>1, RowWrite DEF recordBlock
  <1>8. QED
    BY <1>4, <1>5, <1>6, <1>7

(* A transaction with more steps to go keeps what its process holds typed. *)
LEMMA RequestTypes ==
  /\ Idle \in Request
  /\ [op |-> "findDue"] \in Request
  /\ \A s \in Sessions, t \in Teachers, n \in Nat :
       [op |-> "sendOffer", session |-> s, teacher |-> t, at |-> n] \in Request
  /\ \A o \in Offers, n \in Nat : [op |-> "accept", offer |-> o, at |-> n] \in Request
  /\ \A o \in Offers, op \in {"reject", "sweepExpired"} : [op |-> op, offer |-> o] \in Request
  /\ \A os \in SUBSET Offers, op \in {"expire", "settle"} : [op |-> op, offers |-> os] \in Request
  /\ \A os, own \in SUBSET Offers : [op |-> "reread", offers |-> os, own |-> own] \in Request
  /\ \A s \in Sessions, n \in Nat : [op |-> "extend", session |-> s, endsAt |-> n] \in Request
  /\ \A s \in Sessions : [op |-> "room", session |-> s] \in Request
  /\ \A t \in Teachers, next \in {"ONLINE", "OFFLINE"} :
       [op |-> "status", teacher |-> t, next |-> next] \in Request
  /\ \A ss \in SUBSET Sessions : [op |-> "autoEnd", sessions |-> ss] \in Request
  BY DEF Request, Idle

-----------------------------------------------------------------------------
(* Every offer step keeps the types. *)
LEMMA OfferTypes ==
  ASSUME TypeOK, OfferNext
  PROVE  TypeOK'
  <1> USE DEF tables, profiles, money, history
  <1>1. ASSUME NEW h \in Handlers, NEW s \in Sessions, NEW t \in Teachers,
               BeginSendOffer(h, s, t)
        PROVE  TypeOK'
    <2>1. now \in Nat
      BY DEF TypeOK
    <2>2. req' \in [Procs -> Request]
      BY <1>1, <2>1, RequestTypes DEF BeginSendOffer, TypeOK
    <2>3. QED
      BY <1>1, <2>2 DEF BeginSendOffer, TypeOK
  <1>2. ASSUME NEW h \in Handlers, NEW o \in Offers, SendOffer(h, o)
        PROVE  TypeOK'
    <2>1. /\ req[h].session \in Sessions
          /\ req[h].teacher \in Teachers
          /\ req[h].at + OfferTtl \in Nat
          /\ Price[req[h].teacher] \in Nat
      <3>1. /\ req[h].session \in Sessions
            /\ req[h].teacher \in Teachers
            /\ req[h].at \in Nat
        BY <1>2, InHand DEF SendOffer, Procs
      <3>2. QED
        BY <3>1, MoneyAssumption, ClockAssumption
    <2>2. req' \in [Procs -> Request]
      BY <1>2, RequestTypes, BecomeTyped DEF SendOffer, Procs
    <2>3. /\ session' \in [Sessions -> Session]
          /\ teacher' \in [Teachers -> TeacherStatus]
          /\ tally' \in [Teachers -> Tally]
          /\ offer' \in [Offers -> Offer \cup {Null}]
      BY <1>2, <2>1, SessionWrites, TeacherWrites, OfferWrites DEF SendOffer
    <2>4. QED
      BY <1>2, <2>2, <2>3 DEF SendOffer, TypeOK
  <1>3. ASSUME NEW h \in Handlers, NEW o \in Offers, BeginAccept(h, o)
        PROVE  TypeOK'
    <2>1. now \in Nat
      BY DEF TypeOK
    <2>2. req' \in [Procs -> Request]
      BY <1>3, <2>1, RequestTypes DEF BeginAccept, TypeOK
    <2>3. QED
      BY <1>3, <2>2 DEF BeginAccept, TypeOK
  <1>4. ASSUME NEW h \in Handlers, NEW o \in Offers, BeginReject(h, o)
        PROVE  TypeOK'
    <2>1. req' \in [Procs -> Request]
      BY ZenonT(30), <1>4, RequestTypes DEF BeginReject, TypeOK
    <2>2. QED
      BY <1>4, <2>1 DEF BeginReject, TypeOK
  <1>5. ASSUME NEW h \in Handlers, ActivateAcceptedOffer(h)
        PROVE  TypeOK'
    <2> DEFINE o == req[h].offer
               s == offer[o].session
               amount == OpeningBlocks * session[s].price
    <2>1. o \in Offers /\ req[h].at \in Nat
      BY ZenonT(30), <1>5, InHand DEF ActivateAcceptedOffer, Procs
    <2>2. markOfferResponded(o, "ACCEPTED") /\ "ACCEPTED" \in OfferStatus
      BY ZenonT(30), <1>5 DEF ActivateAcceptedOffer, OfferStatus
    <2>3. offer' \in [Offers -> Offer \cup {Null}] /\ s \in Sessions
      BY <2>1, <2>2, OfferWrites DEF Offer
    <2>4. /\ amount \in Nat
          /\ OpeningBlocks \in Nat
          /\ req[h].at + OpeningBlocks * BlockLength \in Nat
      <3>1. session[s].price \in Nat /\ OpeningBlocks \in Nat /\ BlockLength \in Nat
        BY <2>3, ClockAssumption DEF TypeOK, Session
      <3>2. amount \in Nat /\ OpeningBlocks * BlockLength \in Nat
        BY ZenonT(30), <3>1, NatProduct
      <3>3. QED
        BY <2>1, <3>1, <3>2
    <2>5. /\ setSessionActive(s, req[h].at, req[h].at + OpeningBlocks * BlockLength,
                              OpeningBlocks, amount)
          /\ setTeacherInSession(offer[o].teacher)
          /\ chargeStudent(Owner[s], s, amount)
          /\ recordBlock(s, 1, amount)
      BY ZenonT(30), <1>5 DEF ActivateAcceptedOffer
    <2>6. session' \in [Sessions -> Session]
      BY ZenonT(30), <2>1, <2>3, <2>4, <2>5, SessionWrites
    <2>7. teacher' \in [Teachers -> TeacherStatus] /\ tally' \in [Teachers -> Tally]
      BY ZenonT(30), <2>5, TeacherWrites
    <2>8. /\ wallet' \in [Users -> Nat]
          /\ ledger' \in [Sessions -> Ledger]
          /\ blocks' \in [Sessions -> Seq([number : Nat, amount : Nat])]
      BY ZenonT(30), <2>3, <2>4, <2>5, MoneyWrites
    <2>9. req' \in [Procs -> Request]
      BY ZenonT(30), <1>5, <2>3, RequestTypes, BecomeTyped DEF ActivateAcceptedOffer, Procs
    <2>10. QED
      BY ZenonT(30), <1>5, <2>3, <2>6, <2>7, <2>8, <2>9 DEF ActivateAcceptedOffer, TypeOK
  <1>6. ASSUME NEW h \in Handlers, RejectOffer(h)
        PROVE  TypeOK'
    <2> DEFINE o == req[h].offer
    <2>1. o \in Offers
      BY <1>6, InHand DEF RejectOffer, Procs
    <2>2. /\ markOfferResponded(o, "REJECTED") /\ "REJECTED" \in OfferStatus
          /\ setSessionPending(offer[o].session)
          /\ releaseTeacherLock(offer[o].teacher)
      BY <1>6 DEF RejectOffer, OfferStatus
    <2>3. offer' \in [Offers -> Offer \cup {Null}] /\ offer[o].teacher \in Teachers
      BY <2>1, <2>2, OfferWrites DEF Offer
    <2>4. session' \in [Sessions -> Session] /\ teacher' \in [Teachers -> TeacherStatus]
      BY SMTT(30), <2>2, PendingWrite, TeacherWrites
    <2>5. rejectedBy' \in [Sessions -> SUBSET Teachers]
      BY <1>6, <2>3 DEF RejectOffer, appendRejectedBy, TypeOK
    <2>6. req' \in [Procs -> Request]
      BY <1>6, RequestTypes, BecomeTyped DEF RejectOffer, Procs
    <2>7. QED
      BY SMTT(30), <1>6, <2>3, <2>4, <2>5, <2>6 DEF RejectOffer, TypeOK
  <1>7. ASSUME NEW h \in Handlers, SweepExpiredOffer(h)
        PROVE  TypeOK'
    <2> DEFINE o == req[h].offer
    <2>1. o \in Offers
      BY <1>7, InHand DEF SweepExpiredOffer, Procs
    <2>2. /\ markOfferResponded(o, "EXPIRED") /\ "EXPIRED" \in OfferStatus
          /\ setSessionPending(offer[o].session)
          /\ releaseTeacherLock(offer[o].teacher)
      BY <1>7 DEF SweepExpiredOffer, OfferStatus
    <2>3. offer' \in [Offers -> Offer \cup {Null}]
      BY <2>1, <2>2, OfferWrites
    <2>4. session' \in [Sessions -> Session] /\ teacher' \in [Teachers -> TeacherStatus]
      BY <2>2, PendingWrite, TeacherWrites
    <2>5. req' \in [Procs -> Request]
      BY <1>7, RequestTypes, BecomeTyped DEF SweepExpiredOffer, Procs
    <2>6. QED
      BY <1>7, <2>3, <2>4, <2>5 DEF SweepExpiredOffer, TypeOK
  <1>8. ASSUME NEW p \in Procs, BeginExpiry(p)
        PROVE  TypeOK'
    <2>1. ExpiredBefore \in SUBSET Offers
      BY DEF ExpiredBefore
    <2>2. req' \in [Procs -> Request]
      BY <1>8, <2>1, RequestTypes, BecomeTyped DEF BeginExpiry
    <2>3. QED
      BY <1>8, <2>2 DEF BeginExpiry, TypeOK
  <1>9. ASSUME NEW p \in Procs, ExpireOffers(p)
        PROVE  TypeOK'
    <2> DEFINE due == req[p].offers
               hit == {o \in due : Unanswered(o)}
    <2>1. due \in SUBSET Offers /\ hit \in SUBSET Offers
      BY <1>9, InHand DEF ExpireOffers
    <2>2. req' \in [Procs -> Request]
      BY <1>9, <2>1, RequestTypes, BecomeTyped DEF ExpireOffers
    <2>3. ASSUME NEW o \in Offers, o \in hit
          PROVE  [offer[o] EXCEPT !.status = "EXPIRED"] \in Offer
      BY ZenonT(30), <2>3 DEF TypeOK, Offer, OfferStatus
    <2>4. offer' \in [Offers -> Offer \cup {Null}]
      BY <1>9, <2>3 DEF ExpireOffers, TypeOK
    <2>5. QED
      BY <1>9, <2>2, <2>4 DEF ExpireOffers, TypeOK
  <1>10. ASSUME NEW p \in Procs, RereadExpired(p)
         PROVE  TypeOK'
    <2> DEFINE swept == {o \in req[p].offers : offer[o].status = "EXPIRED"}
    <2>1. swept \in SUBSET Offers
      BY <1>10, InHand DEF RereadExpired
    <2>2. req' \in [Procs -> Request]
      BY <1>10, <2>1, RequestTypes, BecomeTyped DEF RereadExpired, AfterSweep
    <2>3. stray' \in BOOLEAN
      BY <1>10 DEF RereadExpired, TypeOK
    <2>4. QED
      BY <1>10, <2>2, <2>3 DEF RereadExpired, TypeOK
  <1>11. ASSUME NEW p \in Procs, NEW o \in Offers, At(p, "settle"), DropFromSweep(p, o)
         PROVE  req' \in [Procs -> Request]
    <2>1. /\ req[p].offers \ {o} \in SUBSET Offers
          /\ req[p] = [op |-> "settle", offers |-> req[p].offers]
      BY <1>11, InHand
    <2>2. [req[p] EXCEPT !.offers = req[p].offers \ {o}] \in Request
      <3>1. [op |-> "settle", offers |-> req[p].offers \ {o}] \in Request
        BY <2>1, RequestTypes
      <3>2. [req[p] EXCEPT !.offers = req[p].offers \ {o}]
              = [op |-> "settle", offers |-> req[p].offers \ {o}]
        BY <2>1
      <3>3. QED
        BY <3>1, <3>2
    <2>3. QED
      BY <1>11, <2>2, RequestTypes, BecomeTyped DEF DropFromSweep, AfterSweep
  <1>12. ASSUME NEW p \in Procs, NEW o \in Offers, SettleExpiredOffer(p, o)
         PROVE  TypeOK'
    <2>1. session' \in [Sessions -> Session] /\ teacher' \in [Teachers -> TeacherStatus]
      BY <1>12, PendingWrite, TeacherWrites DEF SettleExpiredOffer
    <2>2. req' \in [Procs -> Request]
      BY <1>11, <1>12 DEF SettleExpiredOffer
    <2>3. QED
      BY <1>12, <2>1, <2>2 DEF SettleExpiredOffer, TypeOK
  <1>13. ASSUME NEW p \in Procs, NEW o \in Offers, SettleFails(p, o)
         PROVE  TypeOK'
    <2>1. req' \in [Procs -> Request]
      BY <1>11, <1>13 DEF SettleFails
    <2>2. faults' \in Nat
      BY <1>13 DEF SettleFails, TypeOK
    <2>3. QED
      BY <1>13, <2>1, <2>2 DEF SettleFails, TypeOK
  <1>14. QED
    BY <1>1, <1>2, <1>3, <1>4, <1>5, <1>6, <1>7, <1>8, <1>9, <1>10, <1>12, <1>13 DEF OfferNext

(* What terminateSession hands out is what the session was charged. *)
LEMMA SettlesInFull ==
  ASSUME TypeOK, NEW s \in Sessions, NEW reason \in EndReasons, NEW actor, NEW endedAt,
         NEW percent \in FeePercents
  PROVE  LET settled == settleSession(s, reason, actor, endedAt, percent) IN
         /\ settled.fee \in Nat /\ settled.earning \in Nat /\ settled.refund \in Nat
         /\ settled.reason \in EndReasons
         /\ settled.fee + settled.earning + settled.refund = session[s].totalCharged
         /\ settled.refund > 0 => settled.fee = 0 /\ settled.earning = 0
         /\ settled.earning > 0 => settled.refund = 0
  <1> DEFINE gross == session[s].totalCharged
             fee == commission(gross, percent)
  <1>1. gross \in Nat
    BY DEF TypeOK, Session
  <1>2. percent \in 0 .. 100
    BY MoneyAssumption
  <1>3. fee \in 0 .. gross
    BY <1>1, <1>2, CommissionBounds
  <1>4. fee \in Nat /\ gross - fee \in Nat
    BY <1>1, <1>3
  <1>5. "error" \in EndReasons
    BY DEF EndReasons
  <1> HIDE DEF fee, gross
  <1>6. QED
    BY <1>1, <1>4, <1>5 DEF settleSession, fee, gross

LEMMA TerminateTypes ==
  ASSUME TypeOK, NEW s \in Sessions, NEW reason \in EndReasons, NEW actor, NEW endedAt,
         terminateSession(s, reason, actor, endedAt), req' \in [Procs -> Request]
  PROVE  TypeOK'
  <1> USE DEF tables, profiles, money, history
  <1>1. PICK percent \in FeePercents :
          LET settled == settleSession(s, reason, actor, endedAt, percent) IN
          /\ endSession(s, "ENDED", settled.reason, settled.fee, settled.earning)
          /\ CASE settled.earning > 0 -> creditTeacher(session[s].teacher, s, settled.earning)
               [] settled.refund > 0  -> refundSession(Owner[s], s, settled.refund)
               [] OTHER               -> UNCHANGED <<wallet, ledger>>
    BY DEF terminateSession
  <1> DEFINE settled == settleSession(s, reason, actor, endedAt, percent)
  <1>2. /\ settled.fee \in Nat /\ settled.earning \in Nat /\ settled.refund \in Nat
        /\ settled.reason \in EndReasons
    BY SettlesInFull
  <1> HIDE DEF settled
  <1>3. session' \in [Sessions -> Session]
    BY <1>1, <1>2, SessionWrites DEF settled, Closed
  <1>4. wallet' \in [Users -> Nat] /\ ledger' \in [Sessions -> Ledger]
    <2>1. CASE settled.earning > 0
      BY <1>1, <1>2, <2>1, MoneyWrites DEF settled
    <2>2. CASE ~(settled.earning > 0) /\ settled.refund > 0
      BY <1>1, <1>2, <2>2, MoneyWrites DEF settled
    <2>3. CASE ~(settled.earning > 0) /\ ~(settled.refund > 0)
      BY <1>1, <1>2, <2>3 DEF settled, TypeOK
    <2>4. QED
      BY <2>1, <2>2, <2>3
  <1>5. teacher' \in [Teachers -> TeacherStatus] /\ tally' \in [Teachers -> Tally]
    BY TeacherWrites DEF terminateSession
  <1>6. UNCHANGED <<offer, rejectedBy, review, blocks, topup, now, history>>
    BY DEF terminateSession
  <1>7. QED
    BY <1>3, <1>4, <1>5, <1>6 DEF TypeOK

(* Every session step keeps the types. *)
LEMMA SessionTypes ==
  ASSUME TypeOK, SessionNext
  PROVE  TypeOK'
  <1> USE DEF tables, profiles, money, history
  <1>1. ASSUME NEW h \in Handlers, NEW s \in Sessions, BeginExtend(h, s)
        PROVE  TypeOK'
    <2>1. session[s].endsAt \in Nat
      BY DEF TypeOK, Session
    <2>2. req' \in [Procs -> Request]
      BY <1>1, <2>1, RequestTypes, BecomeTyped DEF BeginExtend, Procs
    <2>3. QED
      BY <1>1, <2>2 DEF BeginExtend, TypeOK
  <1>2. ASSUME NEW h \in Handlers, NEW s \in Sessions, BeginRepairVideo(h, s)
        PROVE  TypeOK'
    <2>1. req' \in [Procs -> Request]
      BY <1>2, RequestTypes, BecomeTyped DEF BeginRepairVideo, Procs
    <2>2. QED
      BY <1>2, <2>1 DEF BeginRepairVideo, TypeOK
  <1>3. ASSUME NEW h \in Handlers, ExtendSessionBlock(h)
        PROVE  TypeOK'
    <2> DEFINE s == req[h].session
               amount == session[s].price
               charged == session[s].totalCharged + amount
               number == session[s].blocksUsed + 1
    <2>1. s \in Sessions /\ req[h].endsAt \in Nat
      BY <1>3, InHand DEF ExtendSessionBlock, Procs
    <2>2. amount \in Nat /\ charged \in Nat /\ number \in Nat
      <3>1. session[s] \in Session
        BY <2>1 DEF TypeOK
      <3>2. QED
        BY <3>1 DEF Session
    <2>3. req[h].endsAt + BlockLength \in Nat
      BY <2>1, ClockAssumption
    <2>4. /\ chargeStudent(Owner[s], s, amount)
          /\ extendSession(s, req[h].endsAt, req[h].endsAt + BlockLength, number, charged)
          /\ recordBlock(s, number, amount)
      BY <1>3 DEF ExtendSessionBlock
    <2> HIDE DEF s, amount, charged, number
    <2>5. session' \in [Sessions -> Session]
      BY <2>1, <2>2, <2>3, <2>4, SessionWrites
    <2>6. /\ wallet' \in [Users -> Nat]
          /\ ledger' \in [Sessions -> Ledger]
          /\ blocks' \in [Sessions -> Seq([number : Nat, amount : Nat])]
      BY <2>1, <2>2, <2>4, MoneyWrites
    <2>7. req' \in [Procs -> Request]
      BY <1>3, RequestTypes, BecomeTyped DEF ExtendSessionBlock, Procs
    <2>8. QED
      BY SMTT(30), <1>3, <2>5, <2>6, <2>7 DEF ExtendSessionBlock, TypeOK
  <1>4. ASSUME NEW h \in Handlers, AttachSessionVideo(h)
        PROVE  TypeOK'
    <2>1. req[h].session \in Sessions
      BY <1>4, InHand DEF AttachSessionVideo, Procs
    <2>2. session' \in [Sessions -> Session]
      BY <1>4, <2>1, SessionWrites DEF AttachSessionVideo
    <2>3. req' \in [Procs -> Request]
      BY <1>4, RequestTypes, BecomeTyped DEF AttachSessionVideo, Procs
    <2>4. QED
      BY <1>4, <2>2, <2>3 DEF AttachSessionVideo, TypeOK
  <1>5. ASSUME NEW s \in Sessions, NEW endedAt, NEW actor, EndSession(s, actor, endedAt)
        PROVE  TypeOK'
    <2>1. "student_ended" \in EndReasons
      BY DEF EndReasons
    <2>2. QED
      BY <1>5, <2>1, TerminateTypes DEF EndSession, TypeOK
  <1>6. ASSUME NEW s \in Sessions, NEW endedAt, ReportNoShow(s, endedAt)
        PROVE  TypeOK'
    <2>1. session[s].totalCharged \in Nat
      BY DEF TypeOK, Session
    <2>2. session' \in [Sessions -> Session]
      <3>1. endSession(s, "NO_SHOW", "teacher_no_show", 0, 0)
        BY <1>6 DEF ReportNoShow
      <3>2. "NO_SHOW" \in Closed /\ "teacher_no_show" \in EndReasons
        BY DEF Closed, EndReasons
      <3>3. QED
        BY <3>1, <3>2, SessionWrites
    <2>3. wallet' \in [Users -> Nat] /\ ledger' \in [Sessions -> Ledger]
      <3>1. CASE session[s].totalCharged > 0
        BY <1>6, <2>1, <3>1, MoneyWrites DEF ReportNoShow
      <3>2. CASE ~(session[s].totalCharged > 0)
        BY <1>6, <3>2 DEF ReportNoShow, TypeOK
      <3>3. QED
        BY <3>1, <3>2
    <2>4. teacher' \in [Teachers -> TeacherStatus] /\ tally' \in [Teachers -> Tally]
      BY <1>6, TeacherWrites DEF ReportNoShow
    <2>5. QED
      BY <1>6, <2>2, <2>3, <2>4 DEF ReportNoShow, TypeOK
  <1>7. CASE FindDueForAutoEnd
    <2>1. findSessionsDueForAutoEnd \in SUBSET Sessions
      BY DEF findSessionsDueForAutoEnd
    <2>2. req' \in [Procs -> Request]
      BY <1>7, <2>1, RequestTypes, BecomeTyped DEF FindDueForAutoEnd, Procs
    <2>3. QED
      BY <1>7, <2>2 DEF FindDueForAutoEnd, TypeOK
  <1>8. ASSUME NEW s \in Sessions, At(Cron, "autoEnd"), DropFromAutoEnd(s)
        PROVE  req' \in [Procs -> Request]
    <2> DEFINE rest == req[Cron].sessions \ {s}
    <2>1. rest \in SUBSET Sessions /\ req[Cron] = [op |-> "autoEnd", sessions |-> req[Cron].sessions]
      BY <1>8, InHand DEF Procs
    <2>2. [op |-> "autoEnd", sessions |-> rest] \in Request
      BY <2>1, RequestTypes
    <2>3. [req[Cron] EXCEPT !.sessions = rest] = [op |-> "autoEnd", sessions |-> rest]
      BY <2>1
    <2>4. QED
      BY <1>8, <2>2, <2>3, RequestTypes, BecomeTyped DEF DropFromAutoEnd, Procs
  <1>9. ASSUME NEW s \in Sessions, AutoEnd(s)
        PROVE  TypeOK'
    <2>1. "no_extension" \in EndReasons
      BY DEF EndReasons
    <2>2. QED
      BY <1>8, <1>9, <2>1, TerminateTypes DEF AutoEnd
  <1>10. ASSUME NEW s \in Sessions, AutoEndTooLate(s)
         PROVE  TypeOK'
    <2>1. req' \in [Procs -> Request]
      BY <1>8, <1>10 DEF AutoEndTooLate
    <2>2. QED
      BY <1>10, <2>1 DEF AutoEndTooLate, TypeOK
  <1>11. ASSUME NEW s \in Sessions, AutoEndFails(s)
         PROVE  TypeOK'
    <2>1. req' \in [Procs -> Request]
      BY <1>8, <1>11 DEF AutoEndFails
    <2>2. faults' \in Nat
      BY <1>11 DEF AutoEndFails, TypeOK
    <2>3. QED
      BY <1>11, <2>1, <2>2 DEF AutoEndFails, TypeOK
  <1>12. ASSUME NEW s \in Sessions, NEW stars \in {"stars", "no_stars"}, SubmitReview(s, stars)
         PROVE  TypeOK'
    <2> DEFINE t == session[s].teacher
               more == IF stars = "stars" THEN 1 ELSE 0
    <2>1. /\ tally \in [Teachers -> Tally]
          /\ more \in Nat
      BY DEF TypeOK
    <2> HIDE DEF more
    <2>2. t \in Teachers =>
            /\ tally[t] \in Tally
            /\ tally[t].ratingCount + more \in Nat
            /\ tally[t].topicSessions + 1 \in Nat
      BY <2>1 DEF Tally
    <2>3. t \in Teachers =>
            [tally[t] EXCEPT !.ratingCount = @ + more, !.topicSessions = @ + 1] \in Tally
      BY <2>2 DEF Tally
    <2>4. tally' = [tally EXCEPT ![t] =
                      [tally[t] EXCEPT !.ratingCount = @ + more, !.topicSessions = @ + 1]]
      BY <1>12 DEF SubmitReview, more
    <2>5. tally' \in [Teachers -> Tally]
      BY <2>1, <2>3, <2>4, RowWrite
    <2>6. session' \in [Sessions -> Session]
      BY <1>12, SessionWrites DEF SubmitReview
    <2>7. review' \in [Sessions -> {"none", "stars", "no_stars"}]
      BY <1>12 DEF SubmitReview, TypeOK
    <2>8. QED
      BY <1>12, <2>5, <2>6, <2>7 DEF SubmitReview, TypeOK
  <1>13. ASSUME NEW u \in Users, NEW amount \in TopUpPackages, TopUp(u, amount)
         PROVE  TypeOK'
    <2>1. amount \in Nat
      BY SessionAssumption
    <2>2. wallet \in [Users -> Nat] /\ topup \in [Users -> Nat] /\ u \in Users
      BY DEF TypeOK, Users
    <2>3. wallet[u] + amount \in Nat /\ topup[u] + amount \in Nat
      BY <2>1, <2>2
    <2>4. wallet' \in [Users -> Nat]
      BY <1>13, <2>2, <2>3, RowWrite DEF TopUp, topUpWallet
    <2>5. topup' \in [Users -> Nat]
      BY <1>13, <2>2, <2>3, RowWrite DEF TopUp, topUpWallet
    <2>6. QED
      BY <1>13, <2>4, <2>5 DEF TopUp, TypeOK
  <1>14. QED
    BY <1>1, <1>2, <1>3, <1>4, <1>5, <1>6, <1>7, <1>9, <1>10, <1>12, <1>13, <1>11
    DEF SessionNext

(* So does every teacher step. *)
LEMMA TeacherTypes ==
  ASSUME TypeOK, TeacherNext
  PROVE  TypeOK'
  <1> USE DEF tables, profiles, money, history
  <1>1. ASSUME NEW h \in Handlers, NEW t \in Teachers, NEW next \in {"ONLINE", "OFFLINE"},
               BeginUpdateStatus(h, t, next)
        PROVE  TypeOK'
    <2>1. req' \in [Procs -> Request]
      BY <1>1, RequestTypes, BecomeTyped DEF BeginUpdateStatus, Procs
    <2>2. QED
      BY <1>1, <2>1 DEF BeginUpdateStatus, TypeOK
  <1>2. ASSUME NEW h \in Handlers, UpdateTeacherProfile(h)
        PROVE  TypeOK'
    <2>1. req[h].next \in TeacherStatus
      BY <1>2, InHand DEF UpdateTeacherProfile, Procs, TeacherStatus
    <2>2. teacher' \in [Teachers -> TeacherStatus]
      BY <1>2, <2>1 DEF UpdateTeacherProfile, TypeOK
    <2>3. req' \in [Procs -> Request]
      BY <1>2, RequestTypes, BecomeTyped DEF UpdateTeacherProfile, Procs
    <2>4. QED
      BY <1>2, <2>2, <2>3 DEF UpdateTeacherProfile, TypeOK
  <1>3. ASSUME NEW t \in Teachers, TakeTeacherOffline(t)
        PROVE  TypeOK'
    BY <1>3 DEF TakeTeacherOffline, TypeOK, TeacherStatus
  <1>4. QED
    BY <1>1, <1>2, <1>3 DEF TeacherNext

LEMMA TypeStep ==
  ASSUME TypeOK, [Next]_vars
  PROVE  TypeOK'
  <1> USE DEF tables, profiles, money, history
  <1>1. ASSUME NEW h \in Handlers, Fail(h)
        PROVE  TypeOK'
    <2>1. req' \in [Procs -> Request]
      BY <1>1, RequestTypes, BecomeTyped DEF Fail, Procs
    <2>2. QED
      BY <1>1, <2>1 DEF Fail, TypeOK
  <1>2. CASE Restart
    BY <1>2, RequestTypes DEF Restart, TypeOK
  <1>3. CASE Tick
    BY <1>3 DEF Tick, TypeOK
  <1>4. CASE UNCHANGED vars
    BY <1>4 DEF vars, TypeOK
  <1>5. QED
    BY <1>1, <1>2, <1>3, <1>4, OfferTypes, SessionTypes, TeacherTypes DEF Next

LEMMA TypeInit == Init => TypeOK
  <1> SUFFICES ASSUME Init PROVE TypeOK
    OBVIOUS
  <1>1. /\ teacher \in [Teachers -> TeacherStatus]
        /\ tally \in [Teachers -> Tally]
    BY DEF Init, TablesInit, TeacherStatus, Tally
  <1>2. session \in [Sessions -> Session]
    BY DEF Init, TablesInit, newSession, Session, SessionStatus, EndReasons
  <1>3. /\ offer \in [Offers -> Offer \cup {Null}]
        /\ rejectedBy \in [Sessions -> SUBSET Teachers]
        /\ blocks \in [Sessions -> Seq([number : Nat, amount : Nat])]
        /\ review \in [Sessions -> {"none", "stars", "no_stars"}]
    BY DEF Init, TablesInit
  <1>4. /\ wallet \in [Users -> Nat]
        /\ ledger \in [Sessions -> Ledger]
        /\ topup \in [Users -> Nat]
        /\ now \in Nat
    BY PartiesAssumption DEF Init, TablesInit, Users, Ledger
  <1>5. req \in [Procs -> Request] /\ faults \in Nat /\ stray \in BOOLEAN
    BY RequestTypes DEF Init, RequestsInit
  <1>6. QED
    BY <1>1, <1>2, <1>3, <1>4, <1>5 DEF TypeOK

(* Every table row and every request keeps its shape, and no wallet goes below zero:   *)
(* wallets hold naturals although charges race top-ups, refunds and each other.        *)
THEOREM TypeInvariant == Spec => []TypeOK
  BY TypeInit, TypeStep, PTL DEF Spec

-----------------------------------------------------------------------------
(* A session's acceptance, status and money.  Seen from one session, every step of the *)
(* marketplace is one of four: Routine, Activates, Extends or Settles.  The theorems    *)
(* follow from that classification (lemma Steps).                                      *)

Moves(x, from, to) == session[x].status = from /\ session'[x].status = to

(* The row of session x changes neither its start, nor what it was charged, nor how it *)
(* was settled.                                                                        *)
RowRoutine(x) ==
  /\ session'[x].totalCharged = session[x].totalCharged
  /\ session'[x].fee = session[x].fee
  /\ session'[x].earning = session[x].earning
  /\ session'[x].endReason = session[x].endReason
  /\ session'[x].startedAt = session[x].startedAt
  /\ \/ session'[x].status = session[x].status
     \/ Moves(x, "PENDING", "OFFER_SENT")
     \/ Moves(x, "OFFER_SENT", "PENDING")
     \/ Moves(x, "ENDED", "RATED")

(* A step that is about the offers, the availability or the rating of x, or not about x. *)
Routine(x) ==
  /\ RowRoutine(x)
  /\ ledger'[x] = ledger[x]
  /\ blocks'[x] = blocks[x]
  /\ AcceptedFor(x)' = AcceptedFor(x)

(* n more credits are charged to session s. *)
Charges(s, n) ==
  /\ session'[s].totalCharged = session[s].totalCharged + n
  /\ session'[s].fee = session[s].fee
  /\ session'[s].earning = session[s].earning
  /\ ledger'[s].charge = ledger[s].charge + n
  /\ ledger'[s].refund = ledger[s].refund
  /\ ledger'[s].earning = ledger[s].earning

(* Session s starts at the instant its handler began, through an offer nobody had      *)
(* accepted.                                                                           *)
StartsThrough(s, o) ==
  /\ AcceptedFor(s)' = AcceptedFor(s) \cup {o}
  /\ \E h \in Handlers : At(h, "accept") /\ req[h].offer = o /\ session'[s].startedAt = req[h].at

Activates(s) ==
  /\ Moves(s, "OFFER_SENT", "ACTIVE")
  /\ \E o \in Offers : StartsThrough(s, o)
  /\ session[s].totalCharged = 0 => \E n \in Nat : Charges(s, n)

Extends(s) ==
  /\ Moves(s, "ACTIVE", "ACTIVE")
  /\ AcceptedFor(s)' = AcceptedFor(s)
  /\ session'[s].startedAt = session[s].startedAt
  /\ \E n \in Nat : Charges(s, n)

(* Session s ends, and what it was charged goes out as a fee, an earning and a refund. *)
Settles(s) ==
  /\ Moves(s, "ACTIVE", "ENDED") \/ Moves(s, "ACTIVE", "NO_SHOW")
  /\ AcceptedFor(s)' = AcceptedFor(s)
  /\ session'[s].totalCharged = session[s].totalCharged
  /\ session'[s].startedAt = session[s].startedAt
  /\ \E fee, earning, refund \in Nat :
       /\ session'[s].fee = fee
       /\ session'[s].earning = earning
       /\ ledger'[s].charge = ledger[s].charge
       /\ ledger'[s].earning = ledger[s].earning + earning
       /\ ledger'[s].refund = ledger[s].refund + refund
       /\ fee + earning + refund = session[s].totalCharged
       /\ refund > 0 => fee = 0 /\ earning = 0
       /\ session'[s].status = "NO_SHOW" => fee = 0 /\ earning = 0

-----------------------------------------------------------------------------
(* An answer that is not an acceptance, and a new offer, leave who was accepted alone. *)

Unaccepted(o) == ~Exists(o) \/ offer[o].status # "ACCEPTED"

OffersRoutine ==
  \A o \in Offers : offer'[o] = offer[o] \/ (Unaccepted(o) /\ Unaccepted(o)')

LEMMA RoutineOffers ==
  ASSUME OffersRoutine
  PROVE  \A x : AcceptedFor(x)' = AcceptedFor(x)
  <1>1. ASSUME NEW x, NEW o \in Offers
        PROVE  o \in AcceptedFor(x)' <=> o \in AcceptedFor(x)
    <2>1. CASE offer'[o] = offer[o]
      BY <2>1 DEF AcceptedFor, OffersOf
    <2>2. CASE Unaccepted(o) /\ Unaccepted(o)'
      BY <2>2 DEF Unaccepted, AcceptedFor, OffersOf
    <2>3. QED
      BY <2>1, <2>2 DEF OffersRoutine
  <1>2. \A x : AcceptedFor(x) \subseteq Offers /\ AcceptedFor(x)' \subseteq Offers
    BY DEF AcceptedFor, OffersOf
  <1>3. QED
    BY <1>1, <1>2

LEMMA Answers ==
  ASSUME TypeOK, NEW o \in Offers
  PROVE  /\ \A s, t, n : createOffer(o, s, t, n) => OffersRoutine
         /\ markOfferResponded(o, "REJECTED") => OffersRoutine
         /\ markOfferResponded(o, "EXPIRED") => OffersRoutine
  <1>1. offer \in [Offers -> Offer \cup {Null}]
    BY DEF TypeOK
  <1>2. ASSUME NEW s, NEW t, NEW n, createOffer(o, s, t, n)
        PROVE  OffersRoutine
    BY <1>1, <1>2 DEF createOffer, OffersRoutine, Unaccepted
  <1>3. ASSUME NEW status \in {"REJECTED", "EXPIRED"}, markOfferResponded(o, status)
        PROVE  OffersRoutine
    <2>1. offer[o] \in Offer
      BY <1>1, <1>3 DEF markOfferResponded
    <2>2. offer'[o] = [offer[o] EXCEPT !.status = status]
      BY <1>1, <1>3 DEF markOfferResponded
    <2>3. Unaccepted(o) /\ Unaccepted(o)'
      <3>1. offer[o].status = "PENDING"
        BY <1>3 DEF markOfferResponded
      <3>2. offer'[o].status = status
        BY <2>1, <2>2 DEF Offer
      <3>3. QED
        BY <1>3, <3>1, <3>2 DEF Unaccepted
    <2>4. \A x \in Offers : x # o => offer'[x] = offer[x]
      BY <1>1, <1>3 DEF markOfferResponded
    <2>5. QED
      BY <2>3, <2>4 DEF OffersRoutine
  <1>4. QED
    BY <1>2, <1>3

(* The writes to a session's row that are routine for every session. *)
LEMMA RoutineRows ==
  ASSUME TypeOK, NEW x \in Sessions, NEW s
  PROVE  /\ \A t, n : setSessionOfferSent(s, t, n) => RowRoutine(x)
         /\ setSessionPending(s) => RowRoutine(x)
         /\ setSessionVideoRoom(s) => RowRoutine(x)
         /\ setSessionRated(s) => RowRoutine(x)
         /\ UNCHANGED session => RowRoutine(x)
  <1>1. session \in [Sessions -> Session] /\ session[x] \in Session
    BY DEF TypeOK
  <1>2. ASSUME NEW t, NEW n, setSessionOfferSent(s, t, n)
        PROVE  RowRoutine(x)
    BY <1>1, <1>2 DEF setSessionOfferSent, RowRoutine, Moves, Session
  <1>3. ASSUME setSessionPending(s)
        PROVE  RowRoutine(x)
    BY <1>1, <1>3 DEF setSessionPending, RowRoutine, Moves, Session
  <1>4. ASSUME setSessionVideoRoom(s)
        PROVE  RowRoutine(x)
    BY <1>1, <1>4 DEF setSessionVideoRoom, RowRoutine, Moves, Session
  <1>5. ASSUME setSessionRated(s)
        PROVE  RowRoutine(x)
    BY <1>1, <1>5 DEF setSessionRated, RowRoutine, Moves, Session
  <1>6. UNCHANGED session => RowRoutine(x)
    BY DEF RowRoutine
  <1>7. QED
    BY <1>2, <1>3, <1>4, <1>5, <1>6

LEMMA RoutineStep ==
  ASSUME TypeOK, UNCHANGED <<ledger, blocks>>, OffersRoutine \/ UNCHANGED offer,
         \/ UNCHANGED session
         \/ \E s : \/ \E t, n : setSessionOfferSent(s, t, n)
                   \/ setSessionPending(s)
                   \/ setSessionVideoRoom(s)
                   \/ setSessionRated(s)
  PROVE  \A x \in Sessions : Routine(x)
  <1>1. OffersRoutine
    BY DEF OffersRoutine
  <1>2. \A x : AcceptedFor(x)' = AcceptedFor(x)
    BY <1>1, RoutineOffers
  <1>3. \A x \in Sessions : RowRoutine(x)
    BY RoutineRows
  <1>4. QED
    BY <1>2, <1>3 DEF Routine

-----------------------------------------------------------------------------
(* Every step of the marketplace, seen from the sessions. *)

RoutineForAll == \A x \in Sessions : Routine(x)

About(s) == /\ Activates(s) \/ Extends(s) \/ Settles(s)
            /\ \A x \in Sessions \ {s} : Routine(x)

(* Accepting an offer starts its session, and is nobody else's business. *)
LEMMA Activation ==
  ASSUME TypeOK, NEW h \in Handlers, ActivateAcceptedOffer(h)
  PROVE  \E s \in Sessions : About(s)
  <1>1. PICK o \in Offers : o = req[h].offer
    BY ZenonT(30), InHand DEF ActivateAcceptedOffer, Procs
  <1>2. PICK s \in Sessions : s = offer[o].session
    BY ZenonT(30), <1>1 DEF ActivateAcceptedOffer, markOfferResponded, TypeOK, Offer
  <1> DEFINE amount == OpeningBlocks * session[s].price
             startedAt == req[h].at
             endsAt == req[h].at + OpeningBlocks * BlockLength
  <1>3. /\ markOfferResponded(o, "ACCEPTED")
        /\ setSessionActive(s, startedAt, endsAt, OpeningBlocks, amount)
        /\ chargeStudent(Owner[s], s, amount)
        /\ recordBlock(s, 1, amount)
    BY ZenonT(30), <1>1, <1>2 DEF ActivateAcceptedOffer
  <1>4. offer[o] \in Offer /\ offer \in [Offers -> Offer \cup {Null}]
    BY <1>1, <1>3 DEF TypeOK, markOfferResponded
  <1>5. /\ session \in [Sessions -> Session] /\ session[s] \in Session
        /\ ledger \in [Sessions -> Ledger] /\ ledger[s] \in Ledger
        /\ blocks \in [Sessions -> Seq([number : Nat, amount : Nat])]
    BY <1>2 DEF TypeOK
  <1>6. amount \in Nat
    <2>1. session[s].price \in Nat /\ OpeningBlocks \in Nat
      BY <1>5, ClockAssumption DEF Session
    <2>2. QED
      BY <2>1, NatProduct
  <1> HIDE DEF amount, endsAt, startedAt
  <1>7. Moves(s, "OFFER_SENT", "ACTIVE")
    BY <1>3, <1>2, <1>5 DEF setSessionActive, Moves, Session
  <1>8. /\ session'[s].totalCharged = amount
        /\ session'[s].startedAt = req[h].at
        /\ session'[s].fee = session[s].fee
        /\ session'[s].earning = session[s].earning
    BY <1>3, <1>2, <1>5 DEF setSessionActive, Session, startedAt
  <1>9. /\ ledger'[s].charge = ledger[s].charge + amount
        /\ ledger'[s].refund = ledger[s].refund
        /\ ledger'[s].earning = ledger[s].earning
    BY <1>3, <1>2, <1>5 DEF chargeStudent, Ledger
  <1>10. \A x \in Offers : offer'[x] = IF x = o THEN [offer[o] EXCEPT !.status = "ACCEPTED"]
                                                ELSE offer[x]
    BY <1>3, <1>4 DEF markOfferResponded
  <1>11. offer'[o] # Null /\ offer'[o].status = "ACCEPTED" /\ offer'[o].session = s
    <2>1. offer'[o] = [offer[o] EXCEPT !.status = "ACCEPTED"]
      BY <1>1, <1>10
    <2>2. offer'[o] \in Offer /\ offer'[o].status = "ACCEPTED" /\ offer'[o].session = s
      BY <1>4, <1>2, <2>1 DEF Offer, OfferStatus
    <2>3. Null \notin Offer
      BY NullAssumption
    <2>4. QED
      BY <2>2, <2>3
  <1>12. AcceptedFor(s)' = AcceptedFor(s) \cup {o}
    <2>1. ASSUME NEW x \in Offers
          PROVE  x \in AcceptedFor(s)' <=> x \in AcceptedFor(s) \cup {o}
      <3>1. CASE x = o
        BY <1>11, <3>1 DEF AcceptedFor, OffersOf
      <3>2. CASE x # o
        BY <1>10, <3>2 DEF AcceptedFor, OffersOf
      <3>3. QED
        BY <3>1, <3>2
    <2>2. AcceptedFor(s) \subseteq Offers /\ AcceptedFor(s)' \subseteq Offers
      BY DEF AcceptedFor, OffersOf
    <2>3. QED
      BY <1>1, <2>1, <2>2
  <1>13. Activates(s)
    <2>1. At(h, "accept")
      BY ZenonT(30) DEF ActivateAcceptedOffer
    <2>2. StartsThrough(s, o)
      BY <1>1, <1>8, <1>12, <2>1 DEF StartsThrough
    <2>3. QED
      BY <1>1, <1>6, <1>7, <1>8, <1>9, <2>2 DEF Activates, Charges
  <1>14. ASSUME NEW x \in Sessions \ {s}
         PROVE  Routine(x)
    <2>1. session'[x] = session[x]
      BY <1>3, <1>5, <1>14 DEF setSessionActive
    <2>2. ledger'[x] = ledger[x] /\ blocks'[x] = blocks[x]
      BY <1>3, <1>5, <1>14 DEF chargeStudent, recordBlock
    <2>3. AcceptedFor(x)' = AcceptedFor(x)
      <3>1. ASSUME NEW y \in Offers
            PROVE  y \in AcceptedFor(x)' <=> y \in AcceptedFor(x)
        <4>1. CASE y = o
          BY <1>2, <1>11, <1>14, <4>1 DEF AcceptedFor, OffersOf
        <4>2. CASE y # o
          BY <1>10, <4>2 DEF AcceptedFor, OffersOf
        <4>3. QED
          BY <4>1, <4>2
      <3>2. AcceptedFor(x) \subseteq Offers /\ AcceptedFor(x)' \subseteq Offers
        BY DEF AcceptedFor, OffersOf
      <3>3. QED
        BY <3>1, <3>2
    <2>4. QED
      BY <2>1, <2>2, <2>3 DEF Routine, RowRoutine
  <1>15. QED
    BY ZenonT(30), <1>13, <1>14 DEF About

LEMMA Extension ==
  ASSUME TypeOK, NEW h \in Handlers, ExtendSessionBlock(h)
  PROVE  \E s \in Sessions : About(s)
  <1>1. PICK s \in Sessions : s = req[h].session
    BY InHand DEF ExtendSessionBlock, Procs
  <1> DEFINE amount == session[s].price
             endsAt == req[h].endsAt + BlockLength
             number == session[s].blocksUsed + 1
             charged == session[s].totalCharged + amount
  <1>2. /\ chargeStudent(Owner[s], s, amount)
        /\ extendSession(s, req[h].endsAt, endsAt, number, charged)
        /\ recordBlock(s, number, amount)
        /\ UNCHANGED offer
    BY <1>1 DEF ExtendSessionBlock, profiles
  <1>3. /\ session \in [Sessions -> Session] /\ session[s] \in Session
        /\ ledger \in [Sessions -> Ledger] /\ ledger[s] \in Ledger
        /\ blocks \in [Sessions -> Seq([number : Nat, amount : Nat])]
    BY DEF TypeOK
  <1>4. amount \in Nat /\ charged = session[s].totalCharged + amount
    BY <1>3 DEF Session
  <1> HIDE DEF amount, endsAt, number, charged
  <1>5. session' = [session EXCEPT ![s] =
          [session[s] EXCEPT !.endsAt = endsAt, !.blocksUsed = number, !.totalCharged = charged]]
    BY <1>2 DEF extendSession
  <1>6. /\ Moves(s, "ACTIVE", "ACTIVE")
        /\ session'[s].totalCharged = charged
        /\ session'[s].startedAt = session[s].startedAt
        /\ session'[s].fee = session[s].fee
        /\ session'[s].earning = session[s].earning
    BY <1>2, <1>3, <1>5 DEF extendSession, Moves, Session
  <1>7. /\ ledger'[s].charge = ledger[s].charge + amount
        /\ ledger'[s].refund = ledger[s].refund
        /\ ledger'[s].earning = ledger[s].earning
    BY <1>2, <1>3 DEF chargeStudent, Ledger
  <1>8. \A x : AcceptedFor(x)' = AcceptedFor(x)
    BY <1>2, RoutineOffers DEF OffersRoutine
  <1>9. Extends(s)
    BY <1>4, <1>6, <1>7, <1>8 DEF Extends, Charges
  <1>10. ASSUME NEW x \in Sessions \ {s}
         PROVE  Routine(x)
    <2>1. session'[x] = session[x]
      BY <1>3, <1>5, <1>10
    <2>2. ledger'[x] = ledger[x] /\ blocks'[x] = blocks[x]
      BY <1>2, <1>3, <1>10 DEF chargeStudent, recordBlock
    <2>3. QED
      BY <1>8, <2>1, <2>2 DEF Routine, RowRoutine
  <1>11. QED
    BY SMTT(30), <1>9, <1>10 DEF About

(* Both ways to close a session: terminateSession and reportSessionNoShow. *)
LEMMA Closing ==
  ASSUME TypeOK, NEW s \in Sessions, NEW status \in {"ENDED", "NO_SHOW"}, NEW reason,
         NEW fee \in Nat, NEW earning \in Nat, NEW refund \in Nat,
         session[s].totalCharged = fee + earning + refund,
         refund > 0 => fee = 0 /\ earning = 0,
         status = "NO_SHOW" => fee = 0 /\ earning = 0,
         endSession(s, status, reason, fee, earning),
         \/ earning > 0 /\ refund = 0 /\ \E t : creditTeacher(t, s, earning)
         \/ earning = 0 /\ refund > 0 /\ \E u : refundSession(u, s, refund)
         \/ earning = 0 /\ refund = 0 /\ UNCHANGED ledger,
         UNCHANGED <<offer, blocks>>
  PROVE  About(s)
  <1>1. /\ session \in [Sessions -> Session] /\ session[s] \in Session
        /\ ledger \in [Sessions -> Ledger] /\ ledger[s] \in Ledger
    BY DEF TypeOK
  <1>2. session' = [session EXCEPT ![s] =
          [session[s] EXCEPT !.status = status, !.endReason = reason, !.fee = fee,
                             !.earning = earning]]
    BY DEF endSession
  <1>3. /\ Moves(s, "ACTIVE", status)
        /\ session'[s].totalCharged = session[s].totalCharged
        /\ session'[s].startedAt = session[s].startedAt
        /\ session'[s].fee = fee
        /\ session'[s].earning = earning
    BY <1>1, <1>2 DEF endSession, Moves, Session
  <1> DEFINE Posted == /\ ledger'[s].charge = ledger[s].charge
                       /\ ledger'[s].earning = ledger[s].earning + earning
                       /\ ledger'[s].refund = ledger[s].refund + refund
                       /\ \A x \in Sessions \ {s} : ledger'[x] = ledger[x]
  <1>4. Posted
    <2>1. ASSUME NEW t, creditTeacher(t, s, earning), refund = 0
          PROVE  Posted
      BY <1>1, <2>1 DEF creditTeacher, Ledger
    <2>2. ASSUME NEW u, refundSession(u, s, refund), earning = 0
          PROVE  Posted
      BY <1>1, <2>2 DEF refundSession, Ledger
    <2>3. CASE earning = 0 /\ refund = 0 /\ UNCHANGED ledger
      BY <1>1, <2>3 DEF Ledger
    <2>4. QED
      BY <2>1, <2>2, <2>3
  <1>5. \A x : AcceptedFor(x)' = AcceptedFor(x)
    BY RoutineOffers DEF OffersRoutine
  <1>6. session'[s].status = status
    BY <1>3 DEF Moves
  <1>7. Settles(s)
    BY <1>3, <1>4, <1>5, <1>6 DEF Settles
  <1>8. ASSUME NEW x \in Sessions \ {s}
        PROVE  Routine(x)
    <2>1. session'[x] = session[x]
      BY <1>1, <1>2, <1>8
    <2>2. QED
      BY <1>4, <1>5, <1>8, <2>1 DEF Routine, RowRoutine
  <1>9. QED
    BY <1>7, <1>8 DEF About

LEMMA Termination ==
  ASSUME TypeOK, NEW s \in Sessions, NEW reason \in EndReasons, NEW actor, NEW endedAt,
         terminateSession(s, reason, actor, endedAt)
  PROVE  About(s)
  <1>1. PICK percent \in FeePercents :
          LET settled == settleSession(s, reason, actor, endedAt, percent) IN
          /\ endSession(s, "ENDED", settled.reason, settled.fee, settled.earning)
          /\ CASE settled.earning > 0 -> creditTeacher(session[s].teacher, s, settled.earning)
               [] settled.refund > 0  -> refundSession(Owner[s], s, settled.refund)
               [] OTHER               -> UNCHANGED <<wallet, ledger>>
    BY DEF terminateSession
  <1> DEFINE settled == settleSession(s, reason, actor, endedAt, percent)
  <1>2. /\ settled.fee \in Nat /\ settled.earning \in Nat /\ settled.refund \in Nat
        /\ settled.fee + settled.earning + settled.refund = session[s].totalCharged
        /\ settled.refund > 0 => settled.fee = 0 /\ settled.earning = 0
        /\ settled.earning > 0 => settled.refund = 0
    BY SettlesInFull
  <1>3. UNCHANGED <<offer, blocks>>
    BY DEF terminateSession
  <1> HIDE DEF settled
  <1>4. endSession(s, "ENDED", settled.reason, settled.fee, settled.earning)
    BY <1>1 DEF settled
  <1>5. \/ /\ settled.earning > 0 /\ settled.refund = 0
           /\ creditTeacher(session[s].teacher, s, settled.earning)
        \/ /\ settled.earning = 0 /\ settled.refund > 0
           /\ refundSession(Owner[s], s, settled.refund)
        \/ settled.earning = 0 /\ settled.refund = 0 /\ UNCHANGED ledger
    <2>1. CASE settled.earning > 0
      BY <1>1, <1>2, <2>1 DEF settled
    <2>2. CASE settled.earning = 0 /\ settled.refund > 0
      BY <1>1, <1>2, <2>2 DEF settled
    <2>3. CASE settled.earning = 0 /\ settled.refund = 0
      BY <1>1, <1>2, <2>3 DEF settled
    <2>4. QED
      BY <1>2, <2>1, <2>2, <2>3
  <1>6. PICK fee \in Nat, earning \in Nat, refund \in Nat :
          fee = settled.fee /\ earning = settled.earning /\ refund = settled.refund
    BY <1>2
  <1>7. session[s].totalCharged = fee + earning + refund
    BY <1>2, <1>6
  <1>8. QED
    BY <1>2, <1>3, <1>4, <1>5, <1>6, <1>7, Closing

LEMMA NoShow ==
  ASSUME TypeOK, NEW s \in Sessions, NEW endedAt, ReportNoShow(s, endedAt)
  PROVE  About(s)
  <1>1. PICK gross \in Nat : gross = session[s].totalCharged
    BY DEF TypeOK, Session
  <1>2. /\ endSession(s, "NO_SHOW", "teacher_no_show", 0, 0)
        /\ IF gross > 0 THEN refundSession(Owner[s], s, gross) ELSE UNCHANGED <<wallet, ledger>>
        /\ UNCHANGED <<offer, blocks>>
    BY <1>1 DEF ReportNoShow
  <1>3. session[s].totalCharged = 0 + 0 + gross
    BY <1>1
  <1>4. \/ 0 > 0 /\ gross = 0 /\ \E t : creditTeacher(t, s, 0)
        \/ 0 = 0 /\ gross > 0 /\ \E u : refundSession(u, s, gross)
        \/ 0 = 0 /\ gross = 0 /\ UNCHANGED ledger
    BY <1>1, <1>2
  <1>5. 0 \in Nat
    OBVIOUS
  <1>6. QED
    BY <1>2, <1>3, <1>4, <1>5, Closing

LEMMA OfferSteps ==
  ASSUME TypeOK, OfferNext
  PROVE  RoutineForAll \/ \E s \in Sessions : About(s)
  <1> USE DEF tables, profiles, money, history
  <1>1. ASSUME NEW h \in Handlers, NEW s \in Sessions, NEW t \in Teachers,
               BeginSendOffer(h, s, t)
        PROVE  RoutineForAll
    BY <1>1, RoutineStep DEF BeginSendOffer, RoutineForAll
  <1>2. ASSUME NEW h \in Handlers, NEW o \in Offers, SendOffer(h, o)
        PROVE  RoutineForAll
    <2>1. /\ OffersRoutine
          /\ \E s, t, n : setSessionOfferSent(s, t, n)
          /\ UNCHANGED <<ledger, blocks>>
      BY <1>2, Answers DEF SendOffer
    <2>2. QED
      BY <2>1, RoutineStep DEF RoutineForAll
  <1>3. ASSUME NEW h \in Handlers, NEW o \in Offers, BeginAccept(h, o)
        PROVE  RoutineForAll
    BY <1>3, RoutineStep DEF BeginAccept, RoutineForAll
  <1>4. ASSUME NEW h \in Handlers, NEW o \in Offers, BeginReject(h, o)
        PROVE  RoutineForAll
    BY <1>4, RoutineStep DEF BeginReject, RoutineForAll
  <1>5. ASSUME NEW h \in Handlers, RejectOffer(h)
        PROVE  RoutineForAll
    <2>1. req[h].offer \in Offers
      BY <1>5, InHand DEF RejectOffer, Procs
    <2>2. /\ OffersRoutine
          /\ \E s : setSessionPending(s)
          /\ UNCHANGED <<ledger, blocks>>
      BY <1>5, <2>1, Answers DEF RejectOffer
    <2>3. QED
      BY <2>2, RoutineStep DEF RoutineForAll
  <1>6. ASSUME NEW h \in Handlers, SweepExpiredOffer(h)
        PROVE  RoutineForAll
    <2>1. req[h].offer \in Offers
      BY <1>6, InHand DEF SweepExpiredOffer, Procs
    <2>2. /\ OffersRoutine
          /\ \E s : setSessionPending(s)
          /\ UNCHANGED <<ledger, blocks>>
      BY <1>6, <2>1, Answers DEF SweepExpiredOffer
    <2>3. QED
      BY <2>2, RoutineStep DEF RoutineForAll
  <1>7. ASSUME NEW p \in Procs, BeginExpiry(p)
        PROVE  RoutineForAll
    BY <1>7, RoutineStep DEF BeginExpiry, RoutineForAll
  <1>8. ASSUME NEW p \in Procs, ExpireOffers(p)
        PROVE  RoutineForAll
    <2>1. ASSUME NEW o \in Offers
          PROVE  offer'[o] = offer[o] \/ (Unaccepted(o) /\ Unaccepted(o)')
      <3>1. CASE o \in req[p].offers /\ Unanswered(o)
        <4>1. offer'[o] = [offer[o] EXCEPT !.status = "EXPIRED"]
          BY <1>8, <3>1 DEF ExpireOffers
        <4>2. offer[o] \in Offer
          BY <3>1 DEF TypeOK
        <4>3. offer'[o].status = "EXPIRED"
          BY <4>1, <4>2 DEF Offer
        <4>4. QED
          BY <3>1, <4>3 DEF Unaccepted
      <3>2. CASE ~(o \in req[p].offers /\ Unanswered(o))
        BY <1>8, <3>2 DEF ExpireOffers
      <3>3. QED
        BY <3>1, <3>2
    <2>2. OffersRoutine /\ UNCHANGED <<session, ledger, blocks>>
      BY <1>8, <2>1 DEF ExpireOffers, OffersRoutine
    <2>3. QED
      BY <2>2, RoutineStep DEF RoutineForAll
  <1>9. ASSUME NEW p \in Procs, RereadExpired(p)
        PROVE  RoutineForAll
    BY <1>9, RoutineStep DEF RereadExpired, RoutineForAll
  <1>10. ASSUME NEW p \in Procs, NEW o \in Offers, SettleExpiredOffer(p, o)
         PROVE  RoutineForAll
    <2>1. /\ \E s : setSessionPending(s)
          /\ UNCHANGED <<offer, ledger, blocks>>
      BY <1>10 DEF SettleExpiredOffer
    <2>2. QED
      BY <2>1, RoutineStep DEF RoutineForAll
  <1>11. ASSUME NEW p \in Procs, NEW o \in Offers, SettleFails(p, o)
         PROVE  RoutineForAll
    BY <1>11, RoutineStep DEF SettleFails, RoutineForAll
  <1>12. QED
    BY <1>1, <1>2, <1>3, <1>4, <1>5, <1>6, <1>7, <1>8, <1>9, <1>10, <1>11, Activation
    DEF OfferNext

LEMMA SessionSteps ==
  ASSUME TypeOK, SessionNext
  PROVE  RoutineForAll \/ \E s \in Sessions : About(s)
  <1> USE DEF tables, profiles, money, history
  <1>1. ASSUME NEW h \in Handlers, NEW s \in Sessions, BeginExtend(h, s) \/ BeginRepairVideo(h, s)
        PROVE  RoutineForAll
    BY <1>1, RoutineStep DEF BeginExtend, BeginRepairVideo, RoutineForAll
  <1>2. ASSUME NEW h \in Handlers, AttachSessionVideo(h)
        PROVE  RoutineForAll
    <2>1. /\ \E s : setSessionVideoRoom(s)
          /\ UNCHANGED <<offer, ledger, blocks>>
      BY <1>2 DEF AttachSessionVideo
    <2>2. QED
      BY <2>1, RoutineStep DEF RoutineForAll
  <1>3. ASSUME NEW s \in Sessions, NEW endedAt, NEW actor, EndSession(s, actor, endedAt)
        PROVE  About(s)
    BY <1>3, Termination DEF EndSession, EndReasons
  <1>4. CASE FindDueForAutoEnd
    BY <1>4, RoutineStep DEF FindDueForAutoEnd, RoutineForAll
  <1>5. ASSUME NEW s \in Sessions, AutoEnd(s)
        PROVE  About(s)
    BY <1>5, Termination DEF AutoEnd, EndReasons
  <1>6. ASSUME NEW s \in Sessions, AutoEndTooLate(s) \/ AutoEndFails(s)
        PROVE  RoutineForAll
    BY <1>6, RoutineStep DEF AutoEndTooLate, AutoEndFails, RoutineForAll
  <1>7. ASSUME NEW s \in Sessions, NEW stars, SubmitReview(s, stars)
        PROVE  RoutineForAll
    <2>1. setSessionRated(s) /\ UNCHANGED <<offer, ledger, blocks>>
      BY <1>7 DEF SubmitReview
    <2>2. QED
      BY <2>1, RoutineStep DEF RoutineForAll
  <1>8. ASSUME NEW u, NEW amount, TopUp(u, amount)
        PROVE  RoutineForAll
    BY <1>8, RoutineStep DEF TopUp, RoutineForAll
  <1>9. QED
    BY <1>1, <1>2, <1>3, <1>4, <1>5, <1>6, <1>7, <1>8, Extension, NoShow DEF SessionNext

LEMMA Steps ==
  ASSUME TypeOK, [Next]_vars
  PROVE  RoutineForAll \/ \E s \in Sessions : About(s)
  <1> USE DEF tables, profiles, money, history
  <1>1. CASE TeacherNext
    <2>1. UNCHANGED <<session, offer, ledger, blocks>>
      BY <1>1 DEF TeacherNext, BeginUpdateStatus, UpdateTeacherProfile, TakeTeacherOffline
    <2>2. QED
      BY <2>1, RoutineStep DEF RoutineForAll
  <1>2. CASE Restart \/ Tick \/ UNCHANGED vars \/ \E h \in Handlers : Fail(h)
    <2>1. UNCHANGED <<session, offer, ledger, blocks>>
      BY <1>2 DEF Restart, Tick, Fail, vars
    <2>2. QED
      BY <2>1, RoutineStep DEF RoutineForAll
  <1>3. QED
    BY <1>1, <1>2, OfferSteps, SessionSteps DEF Next

-----------------------------------------------------------------------------
(* Every step of the marketplace, seen from the offers and the rejections remembered. *)

Offered == UNCHANGED rejectedBy /\ \E o \in Offers : \E s, t, n : createOffer(o, s, t, n)

Replied(o) ==
  \/ /\ \E status \in {"ACCEPTED", "EXPIRED"} : markOfferResponded(o, status)
     /\ UNCHANGED rejectedBy
  \/ markOfferResponded(o, "REJECTED") /\ appendRejectedBy(offer[o].session, offer[o].teacher)

OfferMove ==
  \/ UNCHANGED <<offer, rejectedBy>>
  \/ Offered
  \/ \E o \in Offers : Replied(o)
  \/ \E p \in Procs : ExpireOffers(p)

LEMMA MovesOfOffers ==
  ASSUME TypeOK, [Next]_vars
  PROVE  OfferMove
  <1> USE DEF tables, profiles, money
  <1>1. ASSUME NEW h \in Handlers, ActivateAcceptedOffer(h)
        PROVE  OfferMove
    <2>1. PICK o \in Offers : o = req[h].offer
      BY <1>1, InHand DEF ActivateAcceptedOffer, Procs
    <2>2. markOfferResponded(o, "ACCEPTED") /\ UNCHANGED rejectedBy
      BY ZenonT(30), <1>1, <2>1 DEF ActivateAcceptedOffer
    <2>3. QED
      BY <2>2 DEF OfferMove, Replied
  <1>2. ASSUME NEW h \in Handlers, RejectOffer(h) \/ SweepExpiredOffer(h)
        PROVE  OfferMove
    <2>1. PICK o \in Offers : o = req[h].offer
      BY <1>2, InHand DEF RejectOffer, SweepExpiredOffer, Procs
    <2>2. Replied(o)
      BY <1>2, <2>1 DEF RejectOffer, SweepExpiredOffer, Replied
    <2>3. QED
      BY <2>2 DEF OfferMove
  <1>3. ASSUME NEW h \in Handlers, NEW o \in Offers, SendOffer(h, o)
        PROVE  OfferMove
    BY <1>3 DEF SendOffer, Offered, OfferMove
  <1>4. CASE OfferNext
    <2>1. ASSUME NEW h \in Handlers, NEW s, NEW t, BeginSendOffer(h, s, t)
          PROVE  UNCHANGED <<offer, rejectedBy>>
      BY <2>1 DEF BeginSendOffer
    <2>2. ASSUME NEW h \in Handlers, NEW o, BeginAccept(h, o) \/ BeginReject(h, o)
          PROVE  UNCHANGED <<offer, rejectedBy>>
      BY <2>2 DEF BeginAccept, BeginReject
    <2>3. ASSUME NEW p \in Procs, BeginExpiry(p) \/ RereadExpired(p)
          PROVE  UNCHANGED <<offer, rejectedBy>>
      BY <2>3 DEF BeginExpiry, RereadExpired
    <2>4. ASSUME NEW p \in Procs, NEW o, SettleExpiredOffer(p, o) \/ SettleFails(p, o)
          PROVE  UNCHANGED <<offer, rejectedBy>>
      BY <2>4 DEF SettleExpiredOffer, SettleFails
    <2>5. QED
      BY <1>1, <1>2, <1>3, <1>4, <2>1, <2>2, <2>3, <2>4 DEF OfferNext, OfferMove
  <1>5. CASE SessionNext
    <2>1. ASSUME NEW h \in Handlers, NEW s, BeginExtend(h, s) \/ BeginRepairVideo(h, s)
          PROVE  UNCHANGED <<offer, rejectedBy>>
      BY <2>1 DEF BeginExtend, BeginRepairVideo
    <2>2. ASSUME NEW h \in Handlers, ExtendSessionBlock(h) \/ AttachSessionVideo(h)
          PROVE  UNCHANGED <<offer, rejectedBy>>
      BY <2>2 DEF ExtendSessionBlock, AttachSessionVideo
    <2>3. ASSUME NEW s, NEW why, NEW actor, NEW at, terminateSession(s, why, actor, at)
          PROVE  UNCHANGED <<offer, rejectedBy>>
      BY <2>3 DEF terminateSession
    <2>4. ASSUME NEW s, NEW actor, NEW at, EndSession(s, actor, at) \/ AutoEnd(s)
          PROVE  UNCHANGED <<offer, rejectedBy>>
      BY <2>3, <2>4 DEF EndSession, AutoEnd
    <2>5. ASSUME NEW s, NEW at, ReportNoShow(s, at)
          PROVE  UNCHANGED <<offer, rejectedBy>>
      BY <2>5 DEF ReportNoShow
    <2>6. ASSUME FindDueForAutoEnd \/ \E s : AutoEndTooLate(s) \/ AutoEndFails(s)
          PROVE  UNCHANGED <<offer, rejectedBy>>
      BY <2>6 DEF FindDueForAutoEnd, AutoEndTooLate, AutoEndFails
    <2>7. ASSUME NEW s, NEW n, SubmitReview(s, n) \/ TopUp(s, n)
          PROVE  UNCHANGED <<offer, rejectedBy>>
      BY <2>7 DEF SubmitReview, TopUp
    <2>8. QED
      BY <1>5, <2>1, <2>2, <2>4, <2>5, <2>6, <2>7 DEF SessionNext, OfferMove
  <1>6. CASE TeacherNext \/ (\E h \in Handlers : Fail(h)) \/ Restart \/ Tick \/ UNCHANGED vars
    BY <1>6 DEF TeacherNext, BeginUpdateStatus, UpdateTeacherProfile, TakeTeacherOffline, Fail,
                Restart, Tick, vars, OfferMove
  <1>7. QED
    BY <1>4, <1>5, <1>6 DEF Next

(* The one write of an answer. *)
LEMMA AnswerWrites ==
  ASSUME TypeOK, NEW o \in Offers, NEW status \in OfferStatus, markOfferResponded(o, status)
  PROVE  /\ offer[o] \in Offer /\ offer[o].status = "PENDING" /\ offer'[o] # Null
         /\ offer'[o] = [offer[o] EXCEPT !.status = status]
         /\ offer'[o].status = status
         /\ offer'[o].session = offer[o].session
         /\ offer'[o].teacher = offer[o].teacher
         /\ offer'[o].expiresAt = offer[o].expiresAt
         /\ \A x \in Offers : x # o => offer'[x] = offer[x]
  <1>1. offer \in [Offers -> Offer \cup {Null}]
    BY DEF TypeOK
  <1>2. offer[o] \in Offer /\ offer[o].status = "PENDING"
    BY <1>1 DEF markOfferResponded
  <1>3. /\ offer'[o] = [offer[o] EXCEPT !.status = status]
        /\ \A x \in Offers : x # o => offer'[x] = offer[x]
    BY <1>1 DEF markOfferResponded
  <1>4. /\ [offer[o] EXCEPT !.status = status] \in Offer
        /\ offer'[o].status = status
        /\ offer'[o].session = offer[o].session
        /\ offer'[o].teacher = offer[o].teacher
        /\ offer'[o].expiresAt = offer[o].expiresAt
    BY <1>2, <1>3 DEF Offer
  <1>5. QED
    BY <1>2, <1>3, <1>4, NullAssumption

LEMMA SweepWrites ==
  ASSUME TypeOK, NEW p \in Procs, ExpireOffers(p), NEW o \in Offers
  PROVE  \/ offer'[o] = offer[o]
         \/ /\ offer[o] \in Offer /\ offer[o].status = "PENDING" /\ offer'[o] # Null
            /\ offer'[o] = [offer[o] EXCEPT !.status = "EXPIRED"]
            /\ offer'[o].status = "EXPIRED"
            /\ offer'[o].session = offer[o].session
            /\ offer'[o].teacher = offer[o].teacher
            /\ offer'[o].expiresAt = offer[o].expiresAt
  <1>1. CASE o \in req[p].offers /\ Unanswered(o)
    <2>1. offer[o] \in Offer /\ offer[o].status = "PENDING"
      BY <1>1 DEF TypeOK
    <2>2. offer'[o] = [offer[o] EXCEPT !.status = "EXPIRED"]
      BY <1>1 DEF ExpireOffers
    <2>3. /\ [offer[o] EXCEPT !.status = "EXPIRED"] \in Offer
          /\ offer'[o].status = "EXPIRED"
          /\ offer'[o].session = offer[o].session
          /\ offer'[o].teacher = offer[o].teacher
          /\ offer'[o].expiresAt = offer[o].expiresAt
      BY <2>1, <2>2 DEF Offer, OfferStatus
    <2>4. QED
      BY <2>1, <2>2, <2>3, NullAssumption
  <1>2. CASE ~(o \in req[p].offers /\ Unanswered(o))
    BY <1>2 DEF ExpireOffers
  <1>3. QED
    BY <1>1, <1>2

(* An offer's row is written by one answer, and only while it waits for one. *)
LEMMA OffersAreAnsweredOnce ==
  ASSUME TypeOK, [Next]_vars, NEW o \in Offers
  PROVE  AnsweredOnce(o)
  <1>1. ASSUME NEW x \in Offers, NEW s, NEW t, NEW n, createOffer(x, s, t, n)
        PROVE  AnsweredOnce(o)
    BY <1>1 DEF createOffer, AnsweredOnce, TypeOK
  <1>2. ASSUME NEW x \in Offers, NEW status \in {"ACCEPTED", "EXPIRED", "REJECTED"},
               markOfferResponded(x, status)
        PROVE  AnsweredOnce(o)
    <2>1. status \in OfferStatus \ {"PENDING"}
      BY <1>2 DEF OfferStatus
    <2>2. QED
      BY <1>2, <2>1, AnswerWrites DEF AnsweredOnce
  <1>3. ASSUME NEW p \in Procs, ExpireOffers(p)
        PROVE  AnsweredOnce(o)
    <2>1. "EXPIRED" \in OfferStatus \ {"PENDING"}
      BY DEF OfferStatus
    <2>2. QED
      BY <1>3, <2>1, SweepWrites DEF AnsweredOnce
  <1>4. UNCHANGED offer => AnsweredOnce(o)
    BY DEF AnsweredOnce
  <1>5. QED
    BY <1>1, <1>2, <1>3, <1>4, MovesOfOffers DEF OfferMove, Offered, Replied

-----------------------------------------------------------------------------
(* The promises. *)

(* A session's status moves along the table of session.state.js and in no other way,   *)
(* whatever the transactions that never consult it do; and an offer is answered once,  *)
(* its parties and its deadline as they were sent.                                     *)
THEOREM StatusMovesAlongTheTable == Spec => StatusEdges
  <1>1. ASSUME TypeOK, [Next]_vars
        PROVE  \A s \in Sessions : session'[s].status # session[s].status =>
                 assertTransition(session[s].status, session'[s].status)
    BY <1>1, Steps DEF RoutineForAll, About, Routine, RowRoutine, Activates, Extends, Settles,
                       Moves, assertTransition, Transitions
  <1>2. ASSUME TypeOK, [Next]_vars
        PROVE  \A o \in Offers : AnsweredOnce(o)
    BY <1>2, OffersAreAnsweredOnce
  <1>3. QED
    BY <1>1, <1>2, TypeInvariant, PTL DEF Spec, StatusEdges

(* A session that ever ran was accepted through exactly one offer, and an accepted     *)
(* offer belongs to a session that ran.                                                *)
THEOREM AcceptsOnce == Spec => []AcceptedOnce
  <1>1. Init => AcceptedOnce
    BY DEF Init, TablesInit, newSession, AcceptedOnce, AcceptedFor, OffersOf, Activated
  <1>2. ASSUME TypeOK, AcceptedOnce, [Next]_vars
        PROVE  AcceptedOnce'
    <2>1. ASSUME NEW s \in Sessions, Routine(s) \/ Extends(s) \/ Settles(s)
          PROVE  /\ AcceptedFor(s)' = AcceptedFor(s)
                 /\ session'[s].status \in Activated <=> session[s].status \in Activated
      BY <2>1 DEF Routine, RowRoutine, Extends, Settles, Moves, Activated
    <2>2. ASSUME NEW s \in Sessions, Activates(s)
          PROVE  /\ AcceptedFor(s) = {}
                 /\ \E o \in Offers : AcceptedFor(s)' = {o}
                 /\ session'[s].status \in Activated
      BY <1>2, <2>2 DEF Activates, StartsThrough, Moves, Activated, AcceptedOnce
    <2>3. \A s \in Sessions : Routine(s) \/ Extends(s) \/ Settles(s) \/ Activates(s)
      BY <1>2, Steps DEF RoutineForAll, About
    <2>4. ASSUME NEW s \in Sessions
          PROVE  /\ session'[s].status \in Activated <=> AcceptedFor(s)' # {}
                 /\ \A o1, o2 \in AcceptedFor(s)' : o1 = o2
      <3>1. CASE Activates(s)
        BY <2>2, <3>1
      <3>2. CASE Routine(s) \/ Extends(s) \/ Settles(s)
        BY <1>2, <2>1, <3>2 DEF AcceptedOnce
      <3>3. QED
        BY <2>3, <3>1, <3>2
    <2>5. QED
      BY <2>4 DEF AcceptedOnce
  <1>3. QED
    BY <1>1, <1>2, TypeInvariant, PTL DEF Spec

(* What a handler that is about to accept has in hand was so when it began, and stays  *)
(* so: an offer it had found, before its deadline.                                     *)
Timely ==
  \A h \in Handlers :
    At(h, "accept") => Exists(req[h].offer) /\ req[h].at < offer[req[h].offer].expiresAt

InTime == \A s \in Sessions : \A o \in AcceptedFor(s) : session[s].startedAt < offer[o].expiresAt

(* Only acceptOffer puts an acceptance into a handler's hands. *)
Considers(h) == \/ req'[h] = req[h]
                \/ req'[h].op # "accept"
                \/ \E o \in Offers : BeginAccept(h, o)

LEMMA HandsDropOne ==
  ASSUME TypeOK, NEW p \in Procs, NEW f, req[p].op # "accept",
         \/ DropFromSweep(p, f)
         \/ AfterSweep(p)
         \/ p = Cron /\ DropFromAutoEnd(f),
         NEW h \in Handlers
  PROVE  Considers(h)
  <1>1. req[p] \in Request
    BY DEF TypeOK
  <1>2. \A x : [req[p] EXCEPT !.offers = x].op # "accept" /\ [req[p] EXCEPT !.sessions = x].op # "accept"
    BY <1>1 DEF Request, Idle
  <1>3. \A r : r.op # "accept" => (req' = [req EXCEPT ![p] = r] => Considers(h))
    BY DEF TypeOK, Procs, Considers
  <1>4. Idle.op # "accept" /\ [op |-> "findDue"].op # "accept"
    BY DEF Idle
  <1>5. CASE AfterSweep(p)
    <2>1. PICK r : r = (IF p = Cron THEN [op |-> "findDue"] ELSE Idle)
      OBVIOUS
    <2>2. r.op # "accept" /\ req' = [req EXCEPT ![p] = r]
      BY <1>4, <1>5, <2>1 DEF AfterSweep
    <2>3. QED
      BY <1>3, <2>2
  <1>6. CASE req' = [req EXCEPT ![p] = [req[p] EXCEPT !.offers = @ \ {f}]]
    BY <1>2, <1>3, <1>6
  <1>7. CASE req' = [req EXCEPT ![p] = [req[p] EXCEPT !.sessions = @ \ {f}]]
    BY <1>2, <1>3, <1>7
  <1>8. CASE req' = [req EXCEPT ![p] = Idle]
    BY <1>3, <1>4, <1>8
  <1>9. QED
    BY <1>5, <1>6, <1>7, <1>8 DEF DropFromSweep, DropFromAutoEnd

LEMMA OfferHands ==
  ASSUME TypeOK, OfferNext, NEW h \in Handlers
  PROVE  Considers(h)
  <1>0. req \in [Procs -> Request] /\ h \in Procs
    BY DEF TypeOK, Procs
  <1>1. ASSUME NEW p \in Handlers, NEW s, NEW t, BeginSendOffer(p, s, t)
        PROVE  Considers(h)
    BY <1>0, <1>1 DEF BeginSendOffer, Idle, Considers
  <1>2. ASSUME NEW p \in Handlers, NEW o \in Offers, SendOffer(p, o) \/ BeginReject(p, o)
        PROVE  Considers(h)
    BY <1>0, <1>2 DEF SendOffer, BeginReject, Idle, Considers
  <1>3. ASSUME NEW p \in Handlers, NEW o \in Offers, BeginAccept(p, o)
        PROVE  Considers(h)
    <2>1. CASE p = h
      BY <1>3, <2>1 DEF Considers
    <2>2. CASE p # h
      BY <1>3, <2>2 DEF BeginAccept, TypeOK, Procs, Considers
    <2>3. QED
      BY <2>1, <2>2
  <1>4. ASSUME NEW p \in Handlers, ActivateAcceptedOffer(p)
        PROVE  Considers(h)
    <2>1. \E s : Become(p, [op |-> "room", session |-> s])
      BY ZenonT(30), <1>4 DEF ActivateAcceptedOffer
    <2>2. QED
      BY <1>0, <2>1 DEF Considers
  <1>5. ASSUME NEW p \in Handlers, RejectOffer(p) \/ SweepExpiredOffer(p)
        PROVE  Considers(h)
    BY <1>0, <1>5 DEF RejectOffer, SweepExpiredOffer, Idle, Considers
  <1>6. ASSUME NEW p \in Procs, BeginExpiry(p)
        PROVE  Considers(h)
    BY <1>0, <1>6 DEF BeginExpiry, Idle, Considers
  <1>7. ASSUME NEW p \in Procs, ExpireOffers(p)
        PROVE  Considers(h)
    <2>1. \/ \E S : Become(p, [op |-> "settle", offers |-> S])
          \/ \E S, own : Become(p, [op |-> "reread", offers |-> S, own |-> own])
      BY <1>7 DEF ExpireOffers
    <2>2. QED
      BY <1>0, <2>1 DEF Considers
  <1>8. ASSUME NEW p \in Procs, RereadExpired(p)
        PROVE  Considers(h)
    <2>1. AfterSweep(p) \/ \E S : Become(p, [op |-> "settle", offers |-> S])
      BY <1>8 DEF RereadExpired
    <2>2. req[p].op # "accept"
      BY <1>8 DEF RereadExpired
    <2>3. QED
      BY <1>0, <2>1, <2>2, HandsDropOne DEF Considers
  <1>9. ASSUME NEW p \in Procs, NEW o \in Offers, SettleExpiredOffer(p, o) \/ SettleFails(p, o)
        PROVE  Considers(h)
    BY <1>9, HandsDropOne DEF SettleExpiredOffer, SettleFails
  <1>10. QED
    BY <1>1, <1>2, <1>3, <1>4, <1>5, <1>6, <1>7, <1>8, <1>9 DEF OfferNext

LEMMA HandsOfHandlers ==
  ASSUME TypeOK, [Next]_vars, NEW h \in Handlers
  PROVE  Considers(h)
  <1>0. req \in [Procs -> Request] /\ h \in Procs
    BY DEF TypeOK, Procs
  <1>1. CASE SessionNext
    <2>1. ASSUME NEW p \in Handlers, NEW s, BeginExtend(p, s) \/ BeginRepairVideo(p, s)
          PROVE  Considers(h)
      BY <1>0, <2>1 DEF BeginExtend, BeginRepairVideo, Idle, Considers
    <2>2. ASSUME NEW p \in Handlers, ExtendSessionBlock(p) \/ AttachSessionVideo(p)
          PROVE  Considers(h)
      BY <1>0, <2>2 DEF ExtendSessionBlock, AttachSessionVideo, Idle, Considers
    <2>3. ASSUME NEW s, AutoEnd(s) \/ AutoEndTooLate(s) \/ AutoEndFails(s)
          PROVE  Considers(h)
      BY <2>3, HandsDropOne DEF AutoEnd, AutoEndTooLate, AutoEndFails, Procs
    <2>4. CASE FindDueForAutoEnd
      BY <1>0, <2>4 DEF FindDueForAutoEnd, Idle, Considers
    <2>5. ASSUME NEW s, NEW actor, NEW n,
                 EndSession(s, actor, n) \/ ReportNoShow(s, n) \/ SubmitReview(s, n) \/ TopUp(s, n)
          PROVE  Considers(h)
      BY <2>5 DEF EndSession, ReportNoShow, SubmitReview, TopUp, Considers
    <2>6. QED
      BY <1>1, <2>1, <2>2, <2>3, <2>4, <2>5 DEF SessionNext
  <1>2. CASE TeacherNext
    BY <1>0, <1>2
    DEF TeacherNext, BeginUpdateStatus, UpdateTeacherProfile, TakeTeacherOffline, Idle, Considers
  <1>3. ASSUME NEW p \in Handlers, Fail(p)
        PROVE  Considers(h)
    BY <1>0, <1>3 DEF Fail, Idle, Considers
  <1>4. CASE Restart
    BY <1>4 DEF Restart, Idle, Procs, Considers
  <1>5. CASE Tick \/ UNCHANGED vars
    BY <1>5 DEF Tick, vars, Considers
  <1>6. QED
    BY <1>1, <1>2, <1>3, <1>4, <1>5, OfferHands DEF Next

(* A session starts before the deadline of the offer it was accepted through: the      *)
(* instant and the deadline were compared when the handler began, neither changes, and *)
(* it is that instant the commit writes, however late the commit is.                   *)
LEMMA StartsInTime == Spec => []InTime
  <1>1. Init => Timely /\ InTime
    BY DEF Init, TablesInit, RequestsInit, Idle, Procs, Timely, InTime, AcceptedFor, OffersOf
  <1>2. ASSUME TypeOK, AcceptedOnce, Timely, InTime, [Next]_vars
        PROVE  Timely' /\ InTime'
    <2>1. \A o \in Offers : Exists(o) => /\ offer'[o] # Null
                                        /\ offer'[o].expiresAt = offer[o].expiresAt
      <3>1. ASSUME NEW o \in Offers, Exists(o), NEW answer \in OfferStatus,
                   offer'[o] = [offer[o] EXCEPT !.status = answer]
            PROVE  offer'[o] # Null /\ offer'[o].expiresAt = offer[o].expiresAt
        <4>1. offer[o] \in Offer
          BY <1>2, <3>1 DEF TypeOK
        <4>2. offer'[o] \in Offer /\ offer'[o].expiresAt = offer[o].expiresAt
          BY <3>1, <4>1 DEF Offer
        <4>3. QED
          BY <4>2, NullAssumption
      <3>2. QED
        BY <1>2, <3>1, OffersAreAnsweredOnce DEF AnsweredOnce
    <2>2. ASSUME NEW h \in Handlers, At(h, "accept")'
          PROVE  Exists(req[h].offer)' /\ req'[h].at < offer'[req'[h].offer].expiresAt
      <3>1. CASE req'[h] = req[h]
        <4>1. At(h, "accept") /\ req[h].offer \in Offers
          BY <1>2, <2>2, <3>1, InHand DEF Procs
        <4>2. QED
          BY <1>2, <2>1, <3>1, <4>1 DEF Timely
      <3>2. ASSUME NEW o \in Offers, BeginAccept(h, o)
            PROVE  Exists(req[h].offer)' /\ req'[h].at < offer'[req'[h].offer].expiresAt
        <4>1. req \in [Procs -> Request] /\ h \in Procs
          BY <1>2 DEF TypeOK, Procs
        <4>2. ~hasExpired(o)
          BY <2>2, <3>2, <4>1 DEF BeginAccept
        <4>3. req'[h] = [op |-> "accept", offer |-> o, at |-> now] /\ Exists(o)
          BY <3>2, <4>1, <4>2 DEF BeginAccept
        <4>4. offer[o].expiresAt \in Nat /\ now \in Nat
          BY <1>2, <4>3 DEF TypeOK, Offer
        <4>5. now < offer[o].expiresAt
          BY <4>2, <4>4 DEF hasExpired
        <4>6. QED
          BY <2>1, <4>3, <4>5
      <3>3. QED
        BY <1>2, <2>2, <3>1, <3>2, HandsOfHandlers DEF Considers
    <2>3. ASSUME NEW s \in Sessions, NEW o \in AcceptedFor(s)'
          PROVE  session'[s].startedAt < offer'[o].expiresAt
      <3>1. CASE Activates(s)
        <4>1. PICK x \in Offers : StartsThrough(s, x)
          BY <3>1 DEF Activates
        <4>2. AcceptedFor(s) = {}
          BY <1>2, <3>1 DEF Activates, Moves, Activated, AcceptedOnce
        <4>3. o = x
          BY <2>3, <4>1, <4>2 DEF StartsThrough
        <4>4. QED
          BY <1>2, <2>1, <4>1, <4>3 DEF StartsThrough, Timely
      <3>2. CASE Routine(s) \/ Extends(s) \/ Settles(s)
        <4>1. o \in AcceptedFor(s) /\ session'[s].startedAt = session[s].startedAt
          BY <2>3, <3>2 DEF Routine, RowRoutine, Extends, Settles
        <4>2. o \in Offers /\ Exists(o)
          BY <4>1 DEF AcceptedFor, OffersOf
        <4>3. QED
          BY <1>2, <2>1, <4>1, <4>2 DEF InTime
      <3>3. QED
        BY <1>2, <3>1, <3>2, Steps DEF RoutineForAll, About
    <2>4. QED
      BY <2>2, <2>3 DEF Timely, InTime
  <1>3. QED
    BY <1>1, <1>2, TypeInvariant, AcceptsOnce, PTL DEF Spec

(* The rejections of session s, offer by offer. *)
Rejections(s) == {x \in OffersOf(s) : offer[x].status = "REJECTED"}

(* The teachers a question remembers are those who rejected it: a rejection writes the *)
(* answer and the memory of it in one transaction, and nothing else writes either.     *)
LEMMA RejectionsAreRemembered == Spec => []RejectionsRemembered
  <1>1. Init => RejectionsRemembered
    BY DEF Init, TablesInit, RejectionsRemembered, OffersOf
  <1>2. ASSUME TypeOK, RejectionsRemembered, [Next]_vars, NEW s \in Sessions
        PROVE  rejectedBy'[s] = {offer'[o].teacher : o \in Rejections(s)'}
    <2>1. rejectedBy[s] = {offer[o].teacher : o \in Rejections(s)}
      BY <1>2 DEF RejectionsRemembered, Rejections
    <2>2. offer \in [Offers -> Offer \cup {Null}] /\ rejectedBy \in [Sessions -> SUBSET Teachers]
      BY <1>2 DEF TypeOK
    <2>3. ASSUME UNCHANGED rejectedBy,
                 \A x \in Offers : \/ offer'[x] = offer[x]
                                   \/ /\ ~Exists(x) \/ offer[x].status # "REJECTED"
                                      /\ offer'[x] = Null \/ offer'[x].status # "REJECTED"
          PROVE  rejectedBy'[s] = {offer'[o].teacher : o \in Rejections(s)'}
      <3>1. Rejections(s) \subseteq Offers /\ Rejections(s)' \subseteq Offers
        BY DEF Rejections, OffersOf
      <3>2. ASSUME NEW x \in Offers
            PROVE  /\ x \in Rejections(s)' <=> x \in Rejections(s)
                   /\ x \in Rejections(s) => offer'[x] = offer[x]
        BY <2>3 DEF Rejections, OffersOf
      <3>3. QED
        BY <2>1, <2>3, <3>1, <3>2
    <2>4. ASSUME NEW x \in Offers, NEW z, NEW t, NEW n, createOffer(x, z, t, n)
          PROVE  \A y \in Offers : \/ offer'[y] = offer[y]
                                    \/ /\ ~Exists(y) \/ offer[y].status # "REJECTED"
                                       /\ offer'[y] = Null \/ offer'[y].status # "REJECTED"
      BY <2>2, <2>4 DEF createOffer
    <2>5. ASSUME NEW x \in Offers, NEW status \in {"ACCEPTED", "EXPIRED"},
                 markOfferResponded(x, status)
          PROVE  \A y \in Offers : \/ offer'[y] = offer[y]
                                    \/ /\ ~Exists(y) \/ offer[y].status # "REJECTED"
                                       /\ offer'[y] = Null \/ offer'[y].status # "REJECTED"
      BY <1>2, <2>5, AnswerWrites DEF OfferStatus
    <2>6. ASSUME NEW p \in Procs, ExpireOffers(p)
          PROVE  \A y \in Offers : \/ offer'[y] = offer[y]
                                    \/ /\ ~Exists(y) \/ offer[y].status # "REJECTED"
                                       /\ offer'[y] = Null \/ offer'[y].status # "REJECTED"
      BY <1>2, <2>6, SweepWrites
    <2>7. ASSUME NEW p \in Procs, ExpireOffers(p)
          PROVE  UNCHANGED rejectedBy
      BY <2>7 DEF ExpireOffers
    <2>8. ASSUME NEW x \in Offers, markOfferResponded(x, "REJECTED"),
                 appendRejectedBy(offer[x].session, offer[x].teacher)
          PROVE  rejectedBy'[s] = {offer'[o].teacher : o \in Rejections(s)'}
      <3>1. "REJECTED" \in OfferStatus
        BY DEF OfferStatus
      <3>2. /\ offer[x] \in Offer /\ offer[x].status = "PENDING" /\ offer'[x] # Null
            /\ offer'[x].status = "REJECTED"
            /\ offer'[x].session = offer[x].session
            /\ offer'[x].teacher = offer[x].teacher
            /\ \A y \in Offers : y # x => offer'[y] = offer[y]
        BY <1>2, <2>8, <3>1, AnswerWrites
      <3>3. Rejections(s)' = IF offer[x].session = s THEN Rejections(s) \cup {x}
                                                     ELSE Rejections(s)
        <4>1. Rejections(s) \subseteq Offers /\ Rejections(s)' \subseteq Offers
          BY DEF Rejections, OffersOf
        <4>2. ASSUME NEW y \in Offers, y # x
              PROVE  y \in Rejections(s)' <=> y \in Rejections(s)
          BY <3>2, <4>2 DEF Rejections, OffersOf
        <4>3. x \in Rejections(s)' <=> offer[x].session = s
          BY <3>2 DEF Rejections, OffersOf
        <4>4. x \notin Rejections(s)
          BY <3>2 DEF Rejections, OffersOf
        <4>5. QED
          BY <4>1, <4>2, <4>3, <4>4
      <3>4. x \notin Rejections(s) /\ \A y \in Rejections(s) : y \in Offers
        BY <3>2 DEF Rejections, OffersOf
      <3>5. rejectedBy'[s] = IF offer[x].session = s THEN rejectedBy[s] \cup {offer[x].teacher}
                                                     ELSE rejectedBy[s]
        BY <2>2, <2>8, <3>2 DEF appendRejectedBy, Offer
      <3>6. QED
        BY <2>1, <3>2, <3>3, <3>4, <3>5
    <2>9. QED
      BY <1>2, <2>3, <2>4, <2>5, <2>6, <2>7, <2>8, MovesOfOffers DEF OfferMove, Offered, Replied
  <1>3. ASSUME TypeOK, RejectionsRemembered, [Next]_vars
        PROVE  RejectionsRemembered'
    BY <1>2, <1>3 DEF RejectionsRemembered, Rejections
  <1>4. QED
    BY <1>1, <1>3, TypeInvariant, PTL DEF Spec

(* Nothing about a closed session's money changes any more.                            *)
THEOREM ClosedStaysClosed == Spec => ClosedIsFinal
  <1>1. ASSUME TypeOK, [Next]_vars
        PROVE  \A s \in Sessions : session[s].status \in Closed =>
                 /\ ledger'[s] = ledger[s]
                 /\ blocks'[s] = blocks[s]
                 /\ session'[s].totalCharged = session[s].totalCharged
                 /\ session'[s].endReason = session[s].endReason
    BY <1>1, Steps DEF RoutineForAll, About, Routine, RowRoutine, Activates, Extends, Settles,
                       Moves, Closed
  <1>2. QED
    BY <1>1, TypeInvariant, PTL DEF Spec, ClosedIsFinal

-----------------------------------------------------------------------------
(* SessionReconciles says nothing of a session that never ran or is still running, so   *)
(* it is not inductive: those have no charge, no fee and no earning yet.                *)
Unsettled ==
  \A s \in Sessions :
    /\ session[s].status \notin Activated => session[s].totalCharged = 0
    /\ session[s].status \notin Closed => session[s].fee = 0

(* Together they are inductive.                                                         *)
LEMMA ReconcilesAndUnsettled == Spec => [](SessionReconciles /\ Unsettled)
  <1>1. Init => SessionReconciles /\ Unsettled
    BY DEF Init, TablesInit, newSession, SessionReconciles, Unsettled, Activated, Closed
  <1>2. ASSUME TypeOK, SessionReconciles, Unsettled, [Next]_vars
        PROVE  SessionReconciles' /\ Unsettled'
    <2> DEFINE Balanced(s) ==
          /\ ledger'[s].charge = session'[s].totalCharged
          /\ ledger'[s].earning = session'[s].earning
          /\ session'[s].status \notin Closed => ledger'[s].refund = 0 /\ ledger'[s].earning = 0
          /\ session'[s].status \in Closed =>
               ledger'[s].refund + session'[s].fee + session'[s].earning = ledger'[s].charge
          /\ ledger'[s].refund > 0 => session'[s].fee = 0 /\ session'[s].earning = 0
          /\ session'[s].status = "NO_SHOW" => ledger'[s].refund = ledger'[s].charge
          /\ session'[s].status \notin Activated => session'[s].totalCharged = 0
          /\ session'[s].status \notin Closed => session'[s].fee = 0
    <2>1. ASSUME NEW s \in Sessions
          PROVE  /\ session[s].totalCharged \in Nat
                 /\ ledger[s].refund \in Nat
      <3>1. session[s] \in Session /\ ledger[s] \in Ledger
        BY <1>2 DEF TypeOK
      <3>2. QED
        BY <3>1 DEF Session, Ledger
    <2>2. ASSUME NEW s \in Sessions, Routine(s)
          PROVE  Balanced(s)
      BY <1>2, <2>2 DEF Routine, RowRoutine, Moves, SessionReconciles, Unsettled, Activated,
                        Closed
    <2>3. ASSUME NEW s \in Sessions, Activates(s)
          PROVE  Balanced(s)
      BY <1>2, <2>1, <2>3 DEF Activates, Charges, Moves, SessionReconciles, Unsettled,
                              Activated, Closed
    <2>4. ASSUME NEW s \in Sessions, Extends(s)
          PROVE  Balanced(s)
      BY <1>2, <2>1, <2>4 DEF Extends, Charges, Moves, SessionReconciles, Unsettled,
                              Activated, Closed
    <2>5. ASSUME NEW s \in Sessions, Settles(s)
          PROVE  Balanced(s)
      <3>1. session[s].status = "ACTIVE" /\ session'[s].status \in {"ENDED", "NO_SHOW"}
        BY <2>5 DEF Settles, Moves
      <3>2. /\ ledger[s].charge = session[s].totalCharged
            /\ ledger[s].earning = 0
            /\ ledger[s].refund = 0
        BY <1>2, <3>1 DEF SessionReconciles, Closed
      <3>3. PICK fee \in Nat, earning \in Nat, refund \in Nat :
              /\ session'[s].fee = fee
              /\ session'[s].earning = earning
              /\ ledger'[s].charge = ledger[s].charge
              /\ ledger'[s].earning = ledger[s].earning + earning
              /\ ledger'[s].refund = ledger[s].refund + refund
              /\ fee + earning + refund = session[s].totalCharged
              /\ refund > 0 => fee = 0 /\ earning = 0
              /\ session'[s].status = "NO_SHOW" => fee = 0 /\ earning = 0
        BY <2>5 DEF Settles
      <3>4. session'[s].totalCharged = session[s].totalCharged
        BY <2>5 DEF Settles
      <3>5. ledger'[s].earning = earning /\ ledger'[s].refund = refund
        BY <3>2, <3>3
      <3>6. ledger'[s].charge = session'[s].totalCharged
        BY <3>2, <3>3, <3>4
      <3>7. ledger'[s].refund + session'[s].fee + session'[s].earning = ledger'[s].charge
        BY <3>2, <3>3, <3>5
      <3>8. session'[s].status = "NO_SHOW" => ledger'[s].refund = ledger'[s].charge
        BY <3>2, <3>3, <3>5
      <3>9. session'[s].status \in Closed /\ session'[s].status \in Activated
        BY <3>1 DEF Activated, Closed
      <3>10. /\ ledger'[s].earning = session'[s].earning
             /\ ledger'[s].refund > 0 => session'[s].fee = 0 /\ session'[s].earning = 0
        BY <3>3, <3>5
      <3>11. QED
        BY <3>6, <3>7, <3>8, <3>9, <3>10
    <2>6. \A s \in Sessions : Balanced(s)
      BY <1>2, <2>2, <2>3, <2>4, <2>5, Steps DEF RoutineForAll, About
    <2>7. SessionReconciles'
      BY <2>6 DEF SessionReconciles
    <2>8. Unsettled'
      BY <2>6 DEF Unsettled
    <2>9. QED
      BY <2>7, <2>8
  <1>3. QED
    BY <1>1, <1>2, TypeInvariant, PTL DEF Spec

(* The money of a session is taken while it runs and given out once, as a fee and an    *)
(* earning or as a full refund, whatever the rates, the prices and the interleaving.    *)
THEOREM SessionsReconcile == Spec => []SessionReconciles
  BY ReconcilesAndUnsettled, PTL
=============================================================================
