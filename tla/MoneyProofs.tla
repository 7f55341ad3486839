---------------------------- MODULE MoneyProofs ----------------------------
(***************************************************************************)
(* What a session takes and what becomes of it, for every price, budget    *)
(* and block length.  First the meter: MeterPaid is not inductive, because *)
(* it says nothing of a session that has not started, and Metered adds     *)
(* what such a session must bring to its start: the price of the teacher   *)
(* it names, and no block rows.  Then the escrow of module Contract, which *)
(* the marketplace implements: each kind of step of TutorNowProofs is a    *)
(* step of the escrow or leaves it alone.                                  *)
(***************************************************************************)
EXTENDS TutorNowProofs, SumTheorems, SequenceTheorems

USE DEF At, Become, Finish, Begin, Exists, Unanswered

Started(s) ==
  /\ blocks[s] # <<>>
  /\ Len(blocks[s]) = session[s].blocksUsed - OpeningBlocks + 1
  /\ \A i \in 1 .. Len(blocks[s]) : blocks[s][i] = Row(s, i)
  /\ session[s].totalCharged = session[s].blocksUsed * session[s].price
  /\ session[s].endsAt = session[s].startedAt + session[s].blocksUsed * BlockLength
  /\ session[s].totalCharged <= BudgetCap

MeteredSession(s) ==
  /\ session[s].status # "PENDING" => /\ session[s].teacher \in Teachers
                                      /\ session[s].price = Price[session[s].teacher]
  /\ session[s].status \notin Activated => blocks[s] = <<>>
  /\ session[s].status \in Activated => Started(s)

Metered == \A s \in Sessions : MeteredSession(s)

-----------------------------------------------------------------------------
(* What a step may do to the rows the meter reads. *)
RowStep ==
  \/ UNCHANGED session
  \/ \E s : \/ \E t \in Teachers : setSessionOfferSent(s, t, Price[t])
            \/ setSessionPending(s)
            \/ setSessionVideoRoom(s)
            \/ setSessionRated(s)
            \/ \E status \in Closed : \E reason, fee, earning :
                 endSession(s, status, reason, fee, earning)

LEMMA RowSteps ==
  ASSUME TypeOK, [Next]_vars
  PROVE  \/ RowStep /\ UNCHANGED blocks
         \/ \E h \in Handlers : ActivateAcceptedOffer(h) \/ ExtendSessionBlock(h)
  <1> USE DEF tables, profiles, money, history
  <1>1. CASE OfferNext
    <2>1. ASSUME NEW h \in Handlers, NEW o \in Offers, SendOffer(h, o)
          PROVE  RowStep /\ UNCHANGED blocks
      <3>1. req[h].teacher \in Teachers
        BY <2>1, InHand DEF SendOffer, Procs
      <3>2. setSessionOfferSent(req[h].session, req[h].teacher, Price[req[h].teacher])
        BY <2>1 DEF SendOffer
      <3>3. QED
        BY <2>1, <3>1, <3>2 DEF SendOffer, RowStep
    <2>2. ASSUME NEW h \in Handlers, RejectOffer(h) \/ SweepExpiredOffer(h)
          PROVE  RowStep /\ UNCHANGED blocks
      BY <2>2 DEF RejectOffer, SweepExpiredOffer, RowStep
    <2>3. ASSUME NEW p \in Procs, NEW o \in Offers, SettleExpiredOffer(p, o)
          PROVE  RowStep /\ UNCHANGED blocks
      BY <2>3 DEF SettleExpiredOffer, RowStep
    <2>4. ASSUME NEW p \in Procs, BeginExpiry(p) \/ ExpireOffers(p) \/ RereadExpired(p)
                                    \/ \E o \in Offers : SettleFails(p, o)
          PROVE  RowStep /\ UNCHANGED blocks
      BY <2>4 DEF BeginExpiry, ExpireOffers, RereadExpired, SettleFails, RowStep
    <2>5. ASSUME NEW h \in Handlers,
                 \/ \E s \in Sessions, t \in Teachers : BeginSendOffer(h, s, t)
                 \/ \E o \in Offers : BeginAccept(h, o) \/ BeginReject(h, o)
          PROVE  RowStep /\ UNCHANGED blocks
      BY <2>5 DEF BeginSendOffer, BeginAccept, BeginReject, RowStep
    <2>6. QED
      BY <1>1, <2>1, <2>2, <2>3, <2>4, <2>5 DEF OfferNext
  <1>2. CASE SessionNext
    <2>1. ASSUME NEW s \in Sessions, NEW endedAt,
                 (\E actor : EndSession(s, actor, endedAt)) \/ AutoEnd(s)
          PROVE  RowStep /\ UNCHANGED blocks
      <3>1. \E reason, actor, at : terminateSession(s, reason, actor, at)
        BY <2>1 DEF EndSession, AutoEnd
      <3>2. QED
        BY <3>1 DEF terminateSession, Closed, RowStep
    <2>2. ASSUME NEW s \in Sessions, NEW endedAt, ReportNoShow(s, endedAt)
          PROVE  RowStep /\ UNCHANGED blocks
      BY <2>2 DEF ReportNoShow, Closed, RowStep
    <2>3. ASSUME NEW s \in Sessions, NEW stars, SubmitReview(s, stars)
          PROVE  RowStep /\ UNCHANGED blocks
      BY <2>3 DEF SubmitReview, RowStep
    <2>4. ASSUME NEW h \in Handlers, AttachSessionVideo(h)
          PROVE  RowStep /\ UNCHANGED blocks
      BY <2>4 DEF AttachSessionVideo, RowStep
    <2>5. ASSUME NEW s \in Sessions,
                 \/ \E h \in Handlers : BeginExtend(h, s) \/ BeginRepairVideo(h, s)
                 \/ AutoEndTooLate(s) \/ AutoEndFails(s)
          PROVE  RowStep /\ UNCHANGED blocks
      BY <2>5 DEF BeginExtend, BeginRepairVideo, AutoEndTooLate, AutoEndFails, RowStep
    <2>6. CASE FindDueForAutoEnd \/ \E u, amount : TopUp(u, amount)
      BY <2>6 DEF FindDueForAutoEnd, TopUp, RowStep
    <2>7. QED
      BY <1>2, <2>1, <2>2, <2>3, <2>4, <2>5, <2>6 DEF SessionNext
  <1>3. CASE TeacherNext
    BY <1>3 DEF TeacherNext, BeginUpdateStatus, UpdateTeacherProfile, TakeTeacherOffline, RowStep
  <1>4. CASE Restart \/ Tick \/ UNCHANGED vars \/ \E h \in Handlers : Fail(h)
    BY <1>4 DEF Restart, Tick, Fail, vars, RowStep
  <1>5. QED
    BY <1>1, <1>2, <1>3, <1>4 DEF Next

-----------------------------------------------------------------------------
(* The steps that charge nothing keep every session metered. *)
LEMMA UnchargedRows ==
  ASSUME TypeOK, Metered, RowStep, UNCHANGED blocks
  PROVE  Metered'
  <1> SUFFICES ASSUME NEW x \in Sessions
               PROVE  MeteredSession(x)'
    BY DEF Metered
  <1>1. session \in [Sessions -> Session] /\ session[x] \in Session /\ MeteredSession(x)
    BY DEF TypeOK, Metered
  <1>2. ASSUME session'[x] = session[x]
        PROVE  MeteredSession(x)'
    BY <1>1, <1>2 DEF MeteredSession, Started, Row
  <1>3. ASSUME NEW t \in Teachers, setSessionOfferSent(x, t, Price[t])
        PROVE  MeteredSession(x)'
    <2>1. /\ session'[x].status = "OFFER_SENT"
          /\ session'[x].teacher = t
          /\ session'[x].price = Price[t]
      BY <1>1, <1>3 DEF setSessionOfferSent, Session
    <2>2. blocks[x] = <<>>
      BY <1>1, <1>3 DEF setSessionOfferSent, MeteredSession, Activated
    <2>3. QED
      BY <2>1, <2>2 DEF MeteredSession, Activated
  <1>4. ASSUME setSessionPending(x)
        PROVE  MeteredSession(x)'
    <2>1. CASE session[x].status = "OFFER_SENT"
      <3>1. session'[x].status = "PENDING"
        BY <1>1, <1>4, <2>1 DEF setSessionPending, Session
      <3>2. blocks[x] = <<>>
        BY <1>1, <2>1 DEF MeteredSession, Activated
      <3>3. QED
        BY <3>1, <3>2 DEF MeteredSession, Activated
    <2>2. QED
      BY <1>2, <1>4, <2>1 DEF setSessionPending
  <1>5. ASSUME /\ session[x].status \in {"ACTIVE", "ENDED"}
               /\ session'[x].status \in Activated
               /\ session'[x].teacher = session[x].teacher
               /\ session'[x].price = session[x].price
               /\ session'[x].startedAt = session[x].startedAt
               /\ session'[x].endsAt = session[x].endsAt
               /\ session'[x].blocksUsed = session[x].blocksUsed
               /\ session'[x].totalCharged = session[x].totalCharged
        PROVE  MeteredSession(x)'
    <2>1. session[x].status \in Activated /\ session'[x].status # "PENDING"
      BY <1>5 DEF Activated
    <2>2. Started(x) /\ session[x].teacher \in Teachers
                     /\ session[x].price = Price[session[x].teacher]
      BY <1>1, <1>5, <2>1 DEF MeteredSession
    <2>3. Started(x)'
      BY <1>5, <2>2 DEF Started, Row
    <2>4. QED
      BY <1>5, <2>1, <2>2, <2>3 DEF MeteredSession
  <1>6. ASSUME NEW status \in Closed, NEW reason, NEW fee, NEW earning,
               endSession(x, status, reason, fee, earning)
        PROVE  MeteredSession(x)'
    <2>1. session'[x] = [session[x] EXCEPT !.status = status, !.endReason = reason, !.fee = fee,
                                           !.earning = earning]
      BY <1>1, <1>6 DEF endSession
    <2>2. QED
      BY <1>1, <1>5, <1>6, <2>1 DEF endSession, Session, Closed, Activated
  <1>7. ASSUME setSessionRated(x)
        PROVE  MeteredSession(x)'
    <2>1. session'[x] = [session[x] EXCEPT !.status = "RATED"]
      BY <1>1, <1>7 DEF setSessionRated
    <2>2. QED
      BY <1>1, <1>5, <1>7, <2>1 DEF setSessionRated, Session, Activated
  <1>8. ASSUME setSessionVideoRoom(x)
        PROVE  MeteredSession(x)'
    <2>1. session'[x] = [session[x] EXCEPT !.video = TRUE]
      BY <1>1, <1>8 DEF setSessionVideoRoom
    <2>2. /\ session'[x].status = session[x].status
          /\ session'[x].teacher = session[x].teacher
          /\ session'[x].price = session[x].price
          /\ session'[x].startedAt = session[x].startedAt
          /\ session'[x].endsAt = session[x].endsAt
          /\ session'[x].blocksUsed = session[x].blocksUsed
          /\ session'[x].totalCharged = session[x].totalCharged
      BY <1>1, <2>1 DEF Session
    <2>3. QED
      BY <1>1, <2>2 DEF MeteredSession, Started, Row
  <1>9. ASSUME NEW s, s # x,
               \/ \E t \in Teachers : setSessionOfferSent(s, t, Price[t])
               \/ setSessionPending(s) \/ setSessionVideoRoom(s) \/ setSessionRated(s)
               \/ \E status, reason, fee, earning : endSession(s, status, reason, fee, earning)
        PROVE  session'[x] = session[x]
    BY ZenonT(30), <1>1, <1>9 DEF setSessionOfferSent, setSessionPending, setSessionVideoRoom,
                      setSessionRated, endSession
  <1>10. CASE UNCHANGED session
    BY <1>2, <1>10
  <1>11. CASE ~UNCHANGED session
    <2>1. PICK s : \/ \E t \in Teachers : setSessionOfferSent(s, t, Price[t])
                   \/ setSessionPending(s)
                   \/ setSessionVideoRoom(s)
                   \/ setSessionRated(s)
                   \/ \E status \in Closed : \E reason, fee, earning :
                        endSession(s, status, reason, fee, earning)
      BY <1>11 DEF RowStep
    <2>2. CASE s = x
      BY <1>3, <1>4, <1>6, <1>7, <1>8, <2>1, <2>2
    <2>3. CASE s # x
      BY <1>2, <1>9, <2>1, <2>3
    <2>4. QED
      BY <2>2, <2>3
  <1>12. QED
    BY <1>10, <1>11

(* Accepting an offer starts the meter: one row, paid for, within the budget. *)
LEMMA MeterStarts ==
  ASSUME TypeOK, Metered, NEW h \in Handlers, ActivateAcceptedOffer(h)
  PROVE  Metered'
  <1>1. PICK o \in Offers, at \in Nat : o = req[h].offer /\ at = req[h].at
    BY ZenonT(30), InHand DEF ActivateAcceptedOffer, Procs
  <1>2. PICK s \in Sessions : s = offer[o].session
    BY ZenonT(30), <1>1 DEF ActivateAcceptedOffer, markOfferResponded, TypeOK, Offer
  <1>3. /\ session \in [Sessions -> Session] /\ session[s] \in Session
        /\ blocks \in [Sessions -> Seq([number : Nat, amount : Nat])]
        /\ MeteredSession(s)
    BY DEF TypeOK, Metered
  <1>4. PICK price \in Nat : price = session[s].price
    BY <1>3 DEF Session
  <1>5. /\ setSessionActive(s, at, at + OpeningBlocks * BlockLength, OpeningBlocks,
                            OpeningBlocks * price)
        /\ recordBlock(s, 1, OpeningBlocks * price)
    BY ZenonT(30), <1>1, <1>2, <1>4 DEF ActivateAcceptedOffer
  <1>6. session[s].status = "OFFER_SENT"
    BY <1>5 DEF setSessionActive
  <1>7. session[s].teacher \in Teachers /\ price = Price[session[s].teacher] /\ blocks[s] = <<>>
    BY <1>3, <1>4, <1>6 DEF MeteredSession, Activated
  <1> DEFINE endsAt == at + OpeningBlocks * BlockLength
             amount == OpeningBlocks * price
  <1>8. amount <= BudgetCap
    BY <1>7, MoneyAssumption
  <1>9. setSessionActive(s, at, endsAt, OpeningBlocks, amount) /\ recordBlock(s, 1, amount)
    BY <1>5
  <1> HIDE DEF endsAt, amount
  <1>10. session' = [session EXCEPT ![s] =
           [session[s] EXCEPT !.status = "ACTIVE", !.startedAt = at, !.endsAt = endsAt,
                              !.blocksUsed = OpeningBlocks, !.totalCharged = amount]]
    BY <1>9 DEF setSessionActive
  <1>11. /\ session'[s].status = "ACTIVE"
         /\ session'[s].teacher = session[s].teacher
         /\ session'[s].price = price
         /\ session'[s].startedAt = at
         /\ session'[s].endsAt = endsAt
         /\ session'[s].blocksUsed = OpeningBlocks
         /\ session'[s].totalCharged = amount
    BY <1>3, <1>4, <1>10 DEF Session
  <1>12. blocks'[s] = <<[number |-> 1, amount |-> amount]>>
    BY <1>3, <1>7, <1>9 DEF recordBlock
  <1>13. Started(s)'
    <2>1. Len(blocks'[s]) = 1 /\ blocks'[s][1] = [number |-> 1, amount |-> amount]
      BY <1>12
    <2>2. Row(s, 1)' = [number |-> 1, amount |-> amount]
      BY <1>11 DEF Row, amount
    <2>3. \A i \in 1 .. Len(blocks'[s]) : i = 1
      BY <2>1
    <2>4. Len(blocks'[s]) = OpeningBlocks - OpeningBlocks + 1
      BY <2>1, ClockAssumption
    <2>5. blocks'[s] # <<>> /\ \A i \in 1 .. Len(blocks'[s]) : blocks'[s][i] = Row(s, i)'
      BY <1>12, <2>1, <2>2, <2>3
    <2>6. /\ session'[s].totalCharged = session'[s].blocksUsed * session'[s].price
          /\ session'[s].endsAt = session'[s].startedAt + session'[s].blocksUsed * BlockLength
      BY <1>11 DEF endsAt, amount
    <2>7. QED
      BY <1>8, <1>11, <2>4, <2>5, <2>6 DEF Started
  <1>14. MeteredSession(s)'
    BY <1>4, <1>7, <1>11, <1>13 DEF MeteredSession, Activated
  <1>15. ASSUME NEW x \in Sessions, x # s
         PROVE  MeteredSession(x)'
    <2>1. session'[x] = session[x] /\ blocks'[x] = blocks[x]
      BY <1>3, <1>9, <1>10, <1>15 DEF recordBlock
    <2>2. MeteredSession(x)
      BY DEF Metered
    <2>3. QED
      BY <2>1, <2>2 DEF MeteredSession, Started, Row
  <1>16. QED
    BY <1>14, <1>15 DEF Metered

(* An extension adds one row, one block and one price. *)
LEMMA MeterRuns ==
  ASSUME TypeOK, Metered, NEW h \in Handlers, ExtendSessionBlock(h)
  PROVE  Metered'
  <1>1. PICK s \in Sessions : s = req[h].session
    BY InHand DEF ExtendSessionBlock, Procs
  <1>2. /\ session \in [Sessions -> Session] /\ session[s] \in Session
        /\ blocks \in [Sessions -> Seq([number : Nat, amount : Nat])]
        /\ MeteredSession(s)
    BY DEF TypeOK, Metered
  <1>3. PICK price \in Nat, used \in Nat, total \in Nat, end \in Nat, start \in Nat :
          /\ price = session[s].price
          /\ used = session[s].blocksUsed
          /\ total = session[s].totalCharged
          /\ end = session[s].endsAt
          /\ start = session[s].startedAt
    BY <1>2 DEF Session
  <1>4. /\ total + price <= BudgetCap
        /\ extendSession(s, end, end + BlockLength, used + 1, total + price)
        /\ recordBlock(s, used + 1, price)
    BY <1>1, <1>3 DEF ExtendSessionBlock, extendSession
  <1>5. session[s].status = "ACTIVE"
    BY <1>4 DEF extendSession
  <1>6. Started(s) /\ session[s].teacher \in Teachers /\ price = Price[session[s].teacher]
    BY <1>2, <1>3, <1>5 DEF MeteredSession, Activated
  <1>7. session' = [session EXCEPT ![s] =
          [session[s] EXCEPT !.endsAt = end + BlockLength, !.blocksUsed = used + 1,
                             !.totalCharged = total + price]]
    BY <1>4 DEF extendSession
  <1>8. /\ session'[s].status = "ACTIVE"
        /\ session'[s].teacher = session[s].teacher
        /\ session'[s].price = price
        /\ session'[s].startedAt = start
        /\ session'[s].endsAt = end + BlockLength
        /\ session'[s].blocksUsed = used + 1
        /\ session'[s].totalCharged = total + price
    BY <1>2, <1>3, <1>5, <1>7 DEF Session
  <1>9. PICK rows \in Seq([number : Nat, amount : Nat]) : rows = blocks[s]
    BY <1>2
  <1>10. blocks'[s] = Append(rows, [number |-> used + 1, amount |-> price])
    BY <1>2, <1>4, <1>9 DEF recordBlock
  <1>11. Len(rows) = used - OpeningBlocks + 1
    BY <1>3, <1>6, <1>9 DEF Started
  <1>12. Len(rows) \in Nat \ {0} /\ OpeningBlocks \in Nat \ {0} /\ BlockLength \in Nat
    BY <1>6, <1>9, ClockAssumption, EmptySeq DEF Started
  <1>13. /\ Len(blocks'[s]) = Len(rows) + 1
         /\ \A i \in 1 .. Len(rows) : blocks'[s][i] = rows[i]
         /\ blocks'[s][Len(rows) + 1] = [number |-> used + 1, amount |-> price]
    BY <1>9, <1>10
  <1>14. \A i : Row(s, i)' = Row(s, i)
    BY <1>3, <1>8 DEF Row
  <1>15. Started(s)'
    <2>1. blocks'[s] # <<>>
      BY <1>12, <1>13
    <2>2. Len(blocks'[s]) = (used + 1) - OpeningBlocks + 1
      BY <1>11, <1>12, <1>13
    <2>3. ASSUME NEW i \in 1 .. Len(blocks'[s])
          PROVE  blocks'[s][i] = Row(s, i)'
      <3>1. CASE i \in 1 .. Len(rows)
        BY <1>6, <1>9, <1>13, <1>14, <3>1 DEF Started
      <3>2. CASE i = Len(rows) + 1
        <4>1. i # 1 /\ OpeningBlocks + i - 1 = used + 1
          BY <1>11, <1>12, <3>2
        <4>2. Row(s, i) = [number |-> used + 1, amount |-> price]
          BY <1>3, <4>1 DEF Row
        <4>3. QED
          BY <1>13, <1>14, <3>2, <4>2
      <3>3. QED
        BY <1>12, <1>13, <3>1, <3>2
    <2>4. total + price = (used + 1) * price
      <3>1. total = used * price
        BY <1>3, <1>6 DEF Started
      <3>2. QED
        BY <3>1
    <2>5. end + BlockLength = start + (used + 1) * BlockLength
      <3>1. end = start + used * BlockLength
        BY <1>3, <1>6 DEF Started
      <3>2. used * BlockLength \in Nat /\ (used + 1) * BlockLength = used * BlockLength + BlockLength
        BY <1>12, NatProduct
      <3>3. QED
        BY <1>12, <3>1, <3>2
    <2>6. QED
      BY <1>4, <1>8, <2>1, <2>2, <2>3, <2>4, <2>5 DEF Started
  <1>16. MeteredSession(s)'
    BY <1>6, <1>8, <1>15 DEF MeteredSession, Activated
  <1>17. ASSUME NEW x \in Sessions, x # s
         PROVE  MeteredSession(x)'
    <2>1. session'[x] = session[x] /\ blocks'[x] = blocks[x]
      BY <1>2, <1>4, <1>7, <1>17 DEF recordBlock
    <2>2. MeteredSession(x)
      BY DEF Metered
    <2>3. QED
      BY <2>1, <2>2 DEF MeteredSession, Started, Row
  <1>18. QED
    BY <1>16, <1>17 DEF Metered

(* What the rows of a metered session add up to: the opening purchase and one price per *)
(* block after it.                                                                     *)
LEMMA RowsAddUp ==
  ASSUME TypeOK, NEW s \in Sessions, Started(s)
  PROVE  session[s].totalCharged = SumFunction(Amounts(s))
  <1>1. PICK price \in Nat, used \in Nat :
          price = session[s].price /\ used = session[s].blocksUsed
    BY DEF TypeOK, Session
  <1>2. PICK n \in Nat : n = Len(blocks[s])
    <2>1. blocks[s] \in Seq([number : Nat, amount : Nat])
      BY DEF TypeOK
    <2>2. QED
      BY <2>1
  <1>3. n >= 1 /\ n = used - OpeningBlocks + 1
    <2>1. blocks[s] # <<>> /\ blocks[s] \in Seq([number : Nat, amount : Nat])
      BY DEF TypeOK, Started
    <2>2. QED
      BY <1>1, <1>2, <2>1, EmptySeq DEF Started
  <1> DEFINE f == Amounts(s)
             opening == OpeningBlocks * price
  <1>4. opening \in Int /\ price \in Int
    BY <1>1, ClockAssumption, NatProduct
  <1>5. /\ DOMAIN f = 1 .. n
        /\ \A i \in 1 .. n : f[i] = IF i = 1 THEN opening ELSE price
    <2>1. \A i \in 1 .. n : f[i] = Row(s, i).amount
      BY <1>2 DEF Amounts, Started
    <2>2. \A i \in 1 .. n : f[i] = IF i = 1 THEN opening ELSE price
      BY ZenonT(30), <1>1, <2>1 DEF Row
    <2>3. QED
      BY <1>2, <2>2 DEF Amounts
  <1>6. n \in Nat \ {0}
    BY <1>3
  <1>7. SumFunctionOnSet(f, 1 .. n) = opening + (n - 1) * price
    <2> HIDE DEF f, opening
    <2>1. QED
      BY <1>4, <1>5, <1>6, SumOfRow
  <1>8. session[s].totalCharged = used * price
    BY <1>1 DEF Started
  <1>9. used * price = opening + (n - 1) * price
    <2>1. PICK m \in Nat : m = n - 1
      BY <1>3
    <2>2. OpeningBlocks \in Nat /\ used = OpeningBlocks + m
      BY <1>3, <2>1, ClockAssumption
    <2>3. (OpeningBlocks + m) * price = OpeningBlocks * price + m * price
      BY <2>2
    <2>4. QED
      BY <2>1, <2>2, <2>3
  <1>10. QED
    BY <1>5, <1>7, <1>8, <1>9 DEF SumFunction

-----------------------------------------------------------------------------
LEMMA SessionsAreMetered == Spec => []Metered
  <1>1. Init => Metered
    BY DEF Init, TablesInit, newSession, Metered, MeteredSession, Activated
  <1>2. ASSUME TypeOK, Metered, [Next]_vars
        PROVE  Metered'
    BY <1>2, RowSteps, UnchargedRows, MeterStarts, MeterRuns
  <1>3. QED
    BY <1>1, <1>2, TypeInvariant, PTL DEF Spec

(* The charge of a session is the sum of its rows, each at the price it was offered at, *)
(* and its end is the blocks it paid for, whatever the number of extensions raced.      *)
THEOREM TheMeterIsPaid == Spec => []MeterPaid
  <1>1. TypeOK /\ Metered => MeterPaid
    BY RowsAddUp DEF Metered, MeteredSession, Started, MeterPaid
  <1>2. QED
    BY <1>1, TypeInvariant, SessionsAreMetered, PTL

-----------------------------------------------------------------------------
(* Wallets.  Every step leaves the money where it is, or moves one amount between one   *)
(* wallet and one ledger row; and it reassigns a session's teacher only while that      *)
(* session has paid nobody.                                                            *)
WalletMoves(u, n) ==
  /\ u \in Users
  /\ wallet'[u] = wallet[u] + n
  /\ \A v \in Users \ {u} : wallet'[v] = wallet[v]

LedgerMoves(s, charge, refund, earning) ==
  /\ s \in Sessions
  /\ ledger'[s].charge = ledger[s].charge + charge
  /\ ledger'[s].refund = ledger[s].refund + refund
  /\ ledger'[s].earning = ledger[s].earning + earning
  /\ \A x \in Sessions \ {s} : ledger'[x] = ledger[x]

Charged(s, n)  == WalletMoves(Owner[s], -n) /\ LedgerMoves(s, n, 0, 0) /\ UNCHANGED topup
Refunded(s, n) == WalletMoves(Owner[s], n) /\ LedgerMoves(s, 0, n, 0) /\ UNCHANGED topup
PaidOut(s, n)  == /\ session[s].teacher \in Teachers
                  /\ WalletMoves(session[s].teacher, n)
                  /\ LedgerMoves(s, 0, 0, n)
                  /\ UNCHANGED topup
ToppedUp(u, n) == /\ WalletMoves(u, n)
                  /\ topup'[u] = topup[u] + n
                  /\ \A v \in Users \ {u} : topup'[v] = topup[v]
                  /\ UNCHANGED ledger

Transfer ==
  \E n \in Nat : \/ \E s \in Sessions : Charged(s, n) \/ Refunded(s, n) \/ PaidOut(s, n)
                 \/ \E u \in Users : ToppedUp(u, n)

MoneyRests == UNCHANGED <<wallet, ledger, topup>>

SameTeacher(x) == session'[x].teacher = session[x].teacher

LEMMA Transfers ==
  ASSUME TypeOK, NEW s \in Sessions, NEW n \in Nat, UNCHANGED topup
  PROVE  /\ chargeStudent(Owner[s], s, n) => Charged(s, n)
         /\ refundSession(Owner[s], s, n) => Refunded(s, n)
         /\ session[s].teacher \in Teachers /\ creditTeacher(session[s].teacher, s, n)
              => PaidOut(s, n)
  <1>1. /\ wallet \in [Users -> Nat]
        /\ ledger \in [Sessions -> Ledger]
        /\ ledger[s].charge \in Nat /\ ledger[s].refund \in Nat /\ ledger[s].earning \in Nat
    BY DEF TypeOK, Ledger
  <1>2. Owner[s] \in Users /\ \A t \in Teachers : t \in Users
    BY PartiesAssumption DEF Users
  <1>3. \A u \in Users : wallet[u] \in Nat
    BY <1>1
  <1>4. ASSUME chargeStudent(Owner[s], s, n)
        PROVE  Charged(s, n)
    <2>1. WalletMoves(Owner[s], -n)
      BY <1>1, <1>2, <1>3, <1>4 DEF chargeStudent, WalletMoves
    <2>2. LedgerMoves(s, n, 0, 0)
      BY <1>1, <1>4 DEF chargeStudent, LedgerMoves, Ledger
    <2>3. QED
      BY <2>1, <2>2 DEF Charged
  <1>5. ASSUME refundSession(Owner[s], s, n)
        PROVE  Refunded(s, n)
    <2>1. WalletMoves(Owner[s], n)
      BY <1>1, <1>2, <1>3, <1>5 DEF refundSession, WalletMoves
    <2>2. LedgerMoves(s, 0, n, 0)
      BY <1>1, <1>5 DEF refundSession, LedgerMoves, Ledger
    <2>3. QED
      BY <2>1, <2>2 DEF Refunded
  <1>6. ASSUME session[s].teacher \in Teachers, creditTeacher(session[s].teacher, s, n)
        PROVE  PaidOut(s, n)
    <2>1. WalletMoves(session[s].teacher, n)
      BY <1>1, <1>2, <1>3, <1>6 DEF creditTeacher, WalletMoves
    <2>2. LedgerMoves(s, 0, 0, n)
      BY <1>1, <1>6 DEF creditTeacher, LedgerMoves, Ledger
    <2>3. QED
      BY <1>6, <2>1, <2>2 DEF PaidOut
  <1>7. QED
    BY <1>4, <1>5, <1>6

(* Which handlers touch the money at all. *)
LEMMA MoneyHandlers ==
  ASSUME [Next]_vars
  PROVE  \/ MoneyRests
         \/ \E h \in Handlers : ActivateAcceptedOffer(h) \/ ExtendSessionBlock(h)
         \/ \E s \in Sessions : \E reason \in EndReasons : \E actor, endedAt :
              terminateSession(s, reason, actor, endedAt)
         \/ \E s \in Sessions : \E endedAt : ReportNoShow(s, endedAt)
         \/ \E u \in Users, amount \in TopUpPackages : TopUp(u, amount)
  <1> USE DEF tables, profiles, money, history, MoneyRests
  <1>1. CASE OfferNext
    BY <1>1 DEF OfferNext, BeginSendOffer, SendOffer, BeginAccept, BeginReject, RejectOffer,
         SweepExpiredOffer, BeginExpiry, ExpireOffers, RereadExpired, SettleExpiredOffer, SettleFails
  <1>2. CASE SessionNext
    <2>1. ASSUME NEW s \in Sessions, NEW endedAt,
                 (\E actor \in Users : EndSession(s, actor, endedAt)) \/ AutoEnd(s)
          PROVE  \E reason \in EndReasons : \E actor, at : terminateSession(s, reason, actor, at)
      BY <2>1 DEF EndSession, AutoEnd, EndReasons
    <2>2. ASSUME NEW s \in Sessions,
                 \/ \E h \in Handlers : BeginExtend(h, s) \/ BeginRepairVideo(h, s)
                 \/ AutoEndTooLate(s) \/ AutoEndFails(s)
                 \/ \E stars \in {"stars", "no_stars"} : SubmitReview(s, stars)
          PROVE  MoneyRests
      BY <2>2 DEF BeginExtend, BeginRepairVideo, AutoEndTooLate, AutoEndFails, SubmitReview
    <2>3. ASSUME FindDueForAutoEnd \/ \E h \in Handlers : AttachSessionVideo(h)
          PROVE  MoneyRests
      BY <2>3 DEF FindDueForAutoEnd, AttachSessionVideo
    <2>4. QED
      BY <1>2, <2>1, <2>2, <2>3 DEF SessionNext
  <1>3. CASE TeacherNext
    BY <1>3 DEF TeacherNext, BeginUpdateStatus, UpdateTeacherProfile, TakeTeacherOffline
  <1>4. CASE Restart \/ Tick \/ UNCHANGED vars \/ \E h \in Handlers : Fail(h)
    BY <1>4 DEF Restart, Tick, Fail, vars
  <1>5. QED
    BY <1>1, <1>2, <1>3, <1>4 DEF Next

LEMMA MoneySteps ==
  ASSUME TypeOK, Metered, [Next]_vars
  PROVE  \/ /\ MoneyRests
            /\ \A x \in Sessions : SameTeacher(x) \/ session[x].status \in {"PENDING", "OFFER_SENT"}
         \/ Transfer /\ \A x \in Sessions : SameTeacher(x)
  <1>1. session \in [Sessions -> Session] /\ \A s \in Sessions : Owner[s] \in Users
    BY PartiesAssumption DEF TypeOK, Users
  <1>2. ASSUME NEW h \in Handlers, ActivateAcceptedOffer(h)
        PROVE  Transfer /\ \A x \in Sessions : SameTeacher(x)
    <2>1. PICK o \in Offers : o = req[h].offer
      BY ZenonT(30), <1>2, InHand DEF ActivateAcceptedOffer, Procs
    <2>2. PICK s \in Sessions : s = offer[o].session
      BY ZenonT(30), <1>2, <2>1 DEF ActivateAcceptedOffer, markOfferResponded, TypeOK, Offer
    <2>3. PICK n \in Nat : n = OpeningBlocks * session[s].price
      BY <1>1, ClockAssumption, NatProduct DEF Session
    <2>4. /\ \E m, e : setSessionActive(s, m, e, OpeningBlocks, n)
          /\ chargeStudent(Owner[s], s, n) /\ UNCHANGED topup
      BY ZenonT(30), <1>2, <2>1, <2>2, <2>3 DEF ActivateAcceptedOffer
    <2>5. \A x \in Sessions : SameTeacher(x)
      BY <1>1, <2>4 DEF setSessionActive, SameTeacher, Session
    <2>6. QED
      BY <2>4, <2>5, Transfers DEF Transfer
  <1>3. ASSUME NEW h \in Handlers, ExtendSessionBlock(h)
        PROVE  Transfer /\ \A x \in Sessions : SameTeacher(x)
    <2>1. PICK s \in Sessions : s = req[h].session
      BY <1>3, InHand DEF ExtendSessionBlock, Procs
    <2>2. PICK n \in Nat : n = session[s].price
      BY <1>1 DEF Session
    <2>3. /\ \E e, m, k, c : extendSession(s, e, m, k, c)
          /\ chargeStudent(Owner[s], s, n) /\ UNCHANGED topup
      BY <1>3, <2>1, <2>2 DEF ExtendSessionBlock
    <2>4. \A x \in Sessions : SameTeacher(x)
      BY <1>1, <2>3 DEF extendSession, SameTeacher, Session
    <2>5. QED
      BY <2>3, <2>4, Transfers DEF Transfer
  <1>4. ASSUME NEW s \in Sessions, NEW status, NEW reason, NEW fee, NEW earning,
               endSession(s, status, reason, fee, earning)
        PROVE  /\ \A x \in Sessions : SameTeacher(x)
               /\ session[s].teacher \in Teachers
    <2>1. session[s].status = "ACTIVE"
      BY <1>4 DEF endSession
    <2>2. session[s].teacher \in Teachers
      BY <2>1 DEF Metered, MeteredSession
    <2>3. QED
      BY <1>1, <1>4, <2>2 DEF endSession, SameTeacher, Session
  <1>5. ASSUME NEW s \in Sessions, NEW reason \in EndReasons, NEW actor, NEW endedAt,
               terminateSession(s, reason, actor, endedAt)
        PROVE  (MoneyRests \/ Transfer) /\ \A x \in Sessions : SameTeacher(x)
    <2>1. PICK percent \in FeePercents :
            LET settled == settleSession(s, reason, actor, endedAt, percent) IN
            /\ endSession(s, "ENDED", settled.reason, settled.fee, settled.earning)
            /\ CASE settled.earning > 0 ->
                      creditTeacher(session[s].teacher, s, settled.earning)
                 [] settled.refund > 0  -> refundSession(Owner[s], s, settled.refund)
                 [] OTHER               -> UNCHANGED <<wallet, ledger>>
      BY <1>5 DEF terminateSession
    <2> DEFINE settled == settleSession(s, reason, actor, endedAt, percent)
    <2>2. settled.earning \in Nat /\ settled.refund \in Nat
      BY SettlesInFull
    <2>3. UNCHANGED topup
      BY <1>5 DEF terminateSession
    <2> HIDE DEF settled
    <2>4. \/ creditTeacher(session[s].teacher, s, settled.earning)
          \/ refundSession(Owner[s], s, settled.refund)
          \/ UNCHANGED <<wallet, ledger>>
      BY <2>1 DEF settled
    <2>5. /\ \A x \in Sessions : SameTeacher(x)
          /\ session[s].teacher \in Teachers
      BY <1>4, <2>1 DEF settled
    <2>6. QED
      BY <2>2, <2>3, <2>4, <2>5, Transfers DEF Transfer, MoneyRests
  <1>6. ASSUME NEW s \in Sessions, NEW endedAt, ReportNoShow(s, endedAt)
        PROVE  (MoneyRests \/ Transfer) /\ \A x \in Sessions : SameTeacher(x)
    <2>1. PICK n \in Nat : n = session[s].totalCharged
      BY <1>1 DEF Session
    <2>2. /\ refundSession(Owner[s], s, n) \/ UNCHANGED <<wallet, ledger>>
          /\ UNCHANGED topup
          /\ endSession(s, "NO_SHOW", "teacher_no_show", 0, 0)
      BY <1>6, <2>1 DEF ReportNoShow
    <2>3. \A x \in Sessions : SameTeacher(x)
      BY <1>4, <2>2
    <2>4. QED
      BY <2>1, <2>2, <2>3, Transfers DEF Transfer, MoneyRests
  <1>7. ASSUME NEW u \in Users, NEW n \in TopUpPackages, TopUp(u, n)
        PROVE  Transfer /\ \A x \in Sessions : SameTeacher(x)
    <2>1. /\ wallet \in [Users -> Nat] /\ topup \in [Users -> Nat]
          /\ n \in Nat
      BY SessionAssumption DEF TypeOK
    <2>2. topUpWallet(u, n) /\ UNCHANGED <<ledger, session>>
      BY <1>7 DEF TopUp
    <2>3. ToppedUp(u, n)
      BY <2>1, <2>2 DEF topUpWallet, ToppedUp, WalletMoves
    <2>4. QED
      BY <2>1, <2>2, <2>3 DEF Transfer, SameTeacher
  <1>8. ASSUME RowStep
        PROVE  \A x \in Sessions :
                 SameTeacher(x) \/ session[x].status \in {"PENDING", "OFFER_SENT"}
    <2> SUFFICES ASSUME NEW x \in Sessions, session[x].status \notin {"PENDING", "OFFER_SENT"}
                 PROVE  SameTeacher(x)
      OBVIOUS
    <2>1. CASE UNCHANGED session
      BY <2>1 DEF SameTeacher
    <2>2. ASSUME NEW s, \/ \E t \in Teachers : setSessionOfferSent(s, t, Price[t])
                        \/ setSessionPending(s)
          PROVE  session'[x] = session[x]
      BY ZenonT(30), <1>1, <2>2 DEF setSessionOfferSent, setSessionPending
    <2>3. ASSUME NEW s, setSessionVideoRoom(s) \/ setSessionRated(s)
          PROVE  SameTeacher(x)
      BY <1>1, <2>3 DEF setSessionVideoRoom, setSessionRated, SameTeacher, Session
    <2>4. ASSUME NEW s, NEW status, NEW reason, NEW fee, NEW earning,
                 endSession(s, status, reason, fee, earning)
          PROVE  SameTeacher(x)
      BY <1>1, <2>4 DEF endSession, SameTeacher, Session
    <2>5. QED
      BY <1>8, <2>1, <2>2, <2>3, <2>4 DEF RowStep, SameTeacher
  <1>9. QED
    BY <1>2, <1>3, <1>5, <1>6, <1>7, <1>8, MoneyHandlers, RowSteps

(* What moving an amount on the row of session s does to the sums over the ledger. *)
LEMMA LedgerSums ==
  ASSUME TypeOK, NEW S \in SUBSET Sessions, NEW s \in Sessions,
         NEW c \in Nat, NEW r \in Nat, NEW e \in Nat, LedgerMoves(s, c, r, e)
  PROVE  /\ SumFunctionOnSet(Net', S) = SumFunctionOnSet(Net, S) + (IF s \in S THEN r - c ELSE 0)
         /\ SumFunctionOnSet(Earned', S)
              = SumFunctionOnSet(Earned, S) + (IF s \in S THEN e ELSE 0)
  <1>1. IsFiniteSet(S)
    BY RowsAssumption, FS_Subset
  <1>2. \A x \in Sessions : ledger[x].charge \in Nat /\ ledger[x].refund \in Nat
                             /\ ledger[x].earning \in Nat
    BY DEF TypeOK, Ledger
  <1>3. \A x \in S : Net[x] \in Int /\ Earned[x] \in Int
    BY <1>2 DEF Net, Earned
  <1>4. \A x \in S \ {s} : Net'[x] = Net[x] /\ Earned'[x] = Earned[x]
    BY DEF LedgerMoves, Net, Earned
  <1>5. PICK d \in Int : d = r - c
    OBVIOUS
  <1>6. Net'[s] = Net[s] + d /\ Earned'[s] = Earned[s] + e
    BY <1>2, <1>5 DEF LedgerMoves, Net, Earned
  <1>7. SumFunctionOnSet(Net', S) = SumFunctionOnSet(Net, S) + (IF s \in S THEN d ELSE 0)
    BY <1>1, <1>3, <1>4, <1>6, SumShifts
  <1>8. SumFunctionOnSet(Earned', S) = SumFunctionOnSet(Earned, S) + (IF s \in S THEN e ELSE 0)
    BY <1>1, <1>3, <1>4, <1>6, SumShifts
  <1>9. QED
    BY <1>5, <1>7, <1>8

LEMMA LedgerSumTypes ==
  ASSUME TypeOK, NEW S \in SUBSET Sessions
  PROVE  SumFunctionOnSet(Net, S) \in Int /\ SumFunctionOnSet(Earned, S) \in Int
  <1>1. IsFiniteSet(S)
    BY RowsAssumption, FS_Subset
  <1>2. \A x \in S : Net[x] \in Int /\ Earned[x] \in Int
    BY DEF TypeOK, Ledger, Net, Earned
  <1>3. QED
    BY <1>1, <1>2, SumType

(* A transfer keeps every wallet what its ledger says. *)
LEMMA TransferReconciles ==
  ASSUME TypeOK, WalletsAreLedgers, Transfer, \A x \in Sessions : SameTeacher(x)
  PROVE  WalletsAreLedgers'
  <1>1. \A u : Owned(u) \in SUBSET Sessions /\ Owned(u)' = Owned(u)
    BY DEF Owned
  <1>2. \A t : Taught(t) \in SUBSET Sessions /\ Taught(t)' = Taught(t)
    BY DEF Taught, SameTeacher
  <1>3. /\ \A u \in Users : wallet[u] \in Nat /\ topup[u] \in Nat
        /\ \A u \in Students : u \in Users /\ u \notin Teachers
        /\ \A t \in Teachers : t \in Users
        /\ \A s \in Sessions : Owner[s] \in Students
    BY PartiesAssumption DEF TypeOK, Users
  <1>4. /\ \A u : SumFunctionOnSet(Net, Owned(u)) \in Int
        /\ \A t : SumFunctionOnSet(Earned, Taught(t)) \in Int
    BY <1>1, <1>2, LedgerSumTypes
  <1>5. ASSUME NEW n \in Nat, NEW s \in Sessions, Charged(s, n) \/ Refunded(s, n) \/ PaidOut(s, n)
        PROVE  WalletsAreLedgers'
    <2>1. PICK c \in Nat, r \in Nat, e \in Nat, u \in Users :
            /\ LedgerMoves(s, c, r, e)
            /\ UNCHANGED topup
            /\ \/ u = Owner[s] /\ WalletMoves(u, r - c) /\ e = 0
               \/ u = session[s].teacher /\ u \in Teachers /\ WalletMoves(u, e) /\ r - c = 0
      <3>1. 0 - n = -n /\ n - 0 = n /\ 0 - 0 = 0
        OBVIOUS
      <3>2. 0 \in Nat
        OBVIOUS
      <3>3. QED
        BY <1>3, <1>5, <3>1, <3>2 DEF Charged, Refunded, PaidOut, WalletMoves
    <2>2. ASSUME NEW v \in Students
          PROVE  wallet'[v] = topup'[v] + SumFunctionOnSet(Net', Owned(v))
      <3>1. SumFunctionOnSet(Net', Owned(v))
              = SumFunctionOnSet(Net, Owned(v)) + (IF s \in Owned(v) THEN r - c ELSE 0)
        BY <1>1, <2>1, LedgerSums
      <3>2. wallet[v] = topup[v] + SumFunctionOnSet(Net, Owned(v))
        BY DEF WalletsAreLedgers
      <3>3. s \in Owned(v) <=> Owner[s] = v
        BY DEF Owned
      <3>4. wallet'[v] = wallet[v] + (IF Owner[s] = v THEN r - c ELSE 0)
        BY <1>3, <2>1 DEF WalletMoves
      <3>5. QED
        BY <1>3, <1>4, <2>1, <3>1, <3>2, <3>3, <3>4
    <2>3. ASSUME NEW v \in Teachers
          PROVE  wallet'[v] = topup'[v] + SumFunctionOnSet(Earned', Taught(v))
      <3>1. SumFunctionOnSet(Earned', Taught(v))
              = SumFunctionOnSet(Earned, Taught(v)) + (IF s \in Taught(v) THEN e ELSE 0)
        BY <1>2, <2>1, LedgerSums
      <3>2. wallet[v] = topup[v] + SumFunctionOnSet(Earned, Taught(v))
        BY DEF WalletsAreLedgers
      <3>3. s \in Taught(v) <=> session[s].teacher = v
        BY DEF Taught
      <3>4. wallet'[v] = wallet[v] + (IF session[s].teacher = v THEN e ELSE 0)
        BY <1>3, <2>1 DEF WalletMoves
      <3>5. QED
        BY <1>3, <1>4, <2>1, <3>1, <3>2, <3>3, <3>4
    <2>4. QED
      BY <1>1, <1>2, <2>2, <2>3 DEF WalletsAreLedgers
  <1>6. ASSUME NEW n \in Nat, NEW u \in Users, ToppedUp(u, n)
        PROVE  WalletsAreLedgers'
    <2>1. Net' = Net /\ Earned' = Earned
      BY <1>6 DEF ToppedUp, Net, Earned
    <2>2. ASSUME NEW v \in Users
          PROVE  wallet'[v] - wallet[v] = topup'[v] - topup[v]
                 /\ wallet'[v] \in Int /\ topup'[v] \in Int
      <3>1. \/ wallet'[v] = wallet[v] + n /\ topup'[v] = topup[v] + n
            \/ wallet'[v] = wallet[v] /\ topup'[v] = topup[v]
        BY <1>6 DEF ToppedUp, WalletMoves
      <3>2. QED
        BY <1>3, <3>1
    <2>3. ASSUME NEW v \in Students
          PROVE  wallet'[v] = topup'[v] + SumFunctionOnSet(Net, Owned(v))
      <3>1. wallet[v] = topup[v] + SumFunctionOnSet(Net, Owned(v))
        BY DEF WalletsAreLedgers
      <3>2. /\ wallet'[v] - wallet[v] = topup'[v] - topup[v]
            /\ wallet'[v] \in Int /\ topup'[v] \in Int /\ wallet[v] \in Int /\ topup[v] \in Int
        BY <1>3, <2>2
      <3>3. SumFunctionOnSet(Net, Owned(v)) \in Int
        BY <1>4
      <3>4. QED
        BY <3>1, <3>2, <3>3
    <2>4. ASSUME NEW v \in Teachers
          PROVE  wallet'[v] = topup'[v] + SumFunctionOnSet(Earned, Taught(v))
      <3>1. wallet[v] = topup[v] + SumFunctionOnSet(Earned, Taught(v))
        BY DEF WalletsAreLedgers
      <3>2. /\ wallet'[v] - wallet[v] = topup'[v] - topup[v]
            /\ wallet'[v] \in Int /\ topup'[v] \in Int /\ wallet[v] \in Int /\ topup[v] \in Int
        BY <1>3, <2>2
      <3>3. SumFunctionOnSet(Earned, Taught(v)) \in Int
        BY <1>4
      <3>4. QED
        BY <3>1, <3>2, <3>3
    <2>5. QED
      BY <1>1, <1>2, <2>1, <2>3, <2>4 DEF WalletsAreLedgers
  <1>7. QED
    BY <1>5, <1>6 DEF Transfer

(* So does a step that leaves the money alone: a session whose teacher changes has not  *)
(* paid anybody.                                                                       *)
LEMMA RestReconciles ==
  ASSUME TypeOK, SessionReconciles, WalletsAreLedgers, MoneyRests,
         \A x \in Sessions : SameTeacher(x) \/ session[x].status \in {"PENDING", "OFFER_SENT"}
  PROVE  WalletsAreLedgers'
  <1>1. wallet' = wallet /\ topup' = topup /\ Net' = Net /\ Earned' = Earned
    BY DEF MoneyRests, Net, Earned
  <1>2. ASSUME NEW t \in Teachers
        PROVE  SumFunctionOnSet(Earned, Taught(t)') = SumFunctionOnSet(Earned, Taught(t))
    <2>1. IsFiniteSet(Taught(t)) /\ IsFiniteSet(Taught(t)')
      BY RowsAssumption, FS_Subset DEF Taught
    <2>2. \A x \in Sessions : Earned[x] \in Int
      BY DEF TypeOK, Ledger, Earned
    <2>3. ASSUME NEW x \in Sessions, ~SameTeacher(x)
          PROVE  Earned[x] = 0
      BY <2>3 DEF SessionReconciles, Closed, Earned
    <2>4. \A x \in Taught(t) \cup Taught(t)' : Earned[x] \in Int
      BY <2>2 DEF Taught
    <2>5. \A x \in (Taught(t) \ Taught(t)') \cup (Taught(t)' \ Taught(t)) : Earned[x] = 0
      BY <2>3 DEF Taught, SameTeacher
    <2>6. QED
      BY <2>1, <2>4, <2>5, SumOfOverlapping
  <1>3. \A u : Owned(u)' = Owned(u)
    BY DEF Owned
  <1>4. QED
    BY <1>1, <1>2, <1>3 DEF WalletsAreLedgers

(* Every wallet is its ledger: what its owner topped up, and for a student less the     *)
(* charges of their sessions plus the refunds, for a teacher plus what the sessions     *)
(* they taught paid.  The balance and                                                  *)
(* the ledger row of each movement are written together (applyWalletDelta), and the    *)
(* teacher a session names does not change once it may have paid them.                 *)
LEMMA WalletsAreTheirLedgers == Spec => []WalletsAreLedgers
  <1>1. ASSUME Init
        PROVE  WalletsAreLedgers
    <2>1. \A x \in Sessions : Net[x] = 0 /\ Earned[x] = 0
      BY <1>1 DEF Init, TablesInit, Net, Earned
    <2>2. \A S \in SUBSET Sessions : SumFunctionOnSet(Net, S) = 0 /\ SumFunctionOnSet(Earned, S) = 0
      <3> SUFFICES ASSUME NEW S \in SUBSET Sessions
                   PROVE  SumFunctionOnSet(Net, S) = 0 /\ SumFunctionOnSet(Earned, S) = 0
        OBVIOUS
      <3>1. IsFiniteSet(S) /\ IsFiniteSet({}) /\ {} \subseteq S
        BY RowsAssumption, FS_Subset, FS_EmptySet
      <3>2. /\ \A x \in {} : Net[x] \in Int /\ Earned[x] \in Int
            /\ \A x \in S \ {} : Net[x] = 0 /\ Earned[x] = 0
        BY <2>1
      <3>3. QED
        BY <3>1, <3>2, SumIgnoresZeros, SumOfNone
    <2>3. \A u : Owned(u) \in SUBSET Sessions /\ Taught(u) \in SUBSET Sessions
      BY DEF Owned, Taught
    <2>4. \A u \in Users : wallet[u] = topup[u] /\ topup[u] \in Nat
      BY <1>1, PartiesAssumption DEF Init, TablesInit, Users
    <2>5. QED
      BY <2>2, <2>3, <2>4 DEF WalletsAreLedgers, Users
  <1>2. ASSUME TypeOK, Metered, SessionReconciles, WalletsAreLedgers, [Next]_vars
        PROVE  WalletsAreLedgers'
    BY <1>2, MoneySteps, TransferReconciles, RestReconciles
  <1>3. QED
    BY <1>1, <1>2, TypeInvariant, SessionsAreMetered, SessionsReconcile, PTL DEF Spec

(* What the platform holds of each session, read off the ledger.                       *)
Held == [s \in Sessions |-> ledger[s].charge - ledger[s].refund - ledger[s].earning]

Conserved ==
  SumFunctionOnSet(wallet, Users) + SumFunctionOnSet(Held, Sessions)
    = SumFunctionOnSet(topup, Users)

LEMMA HeldIsKept ==
  ASSUME TypeOK, SessionReconciles
  PROVE  /\ \A s \in Sessions : Held[s] \in Int /\ Kept[s] = Held[s]
         /\ SumFunctionOnSet(Kept, Sessions) = SumFunctionOnSet(Held, Sessions)
  <1>1. ASSUME NEW s \in Sessions
        PROVE  Held[s] \in Int /\ Kept[s] = Held[s]
    <2>1. /\ ledger[s].charge \in Nat /\ ledger[s].refund \in Nat /\ ledger[s].earning \in Nat
          /\ session[s].fee \in Nat /\ session[s].earning \in Nat
          /\ session[s].totalCharged \in Nat
      BY DEF TypeOK, Ledger, Session
    <2>2. CASE session[s].status \in Closed
      BY <2>1, <2>2 DEF SessionReconciles, Held, Kept
    <2>3. CASE session[s].status \notin Closed
      BY <2>1, <2>3 DEF SessionReconciles, Held, Kept
    <2>4. QED
      BY <2>2, <2>3
  <1>2. QED
    BY <1>1, RowsAssumption, SumEquals

(* A wallet that moves by n moves the credits of all users by n. *)
LEMMA WalletSum ==
  ASSUME TypeOK, NEW u, NEW n \in Int, WalletMoves(u, n)
  PROVE  SumFunctionOnSet(wallet', Users) = SumFunctionOnSet(wallet, Users) + n
  <1>1. u \in Users /\ wallet'[u] = wallet[u] + n
    BY DEF WalletMoves
  <1>2. \A v \in Users : wallet[v] \in Int
    BY DEF TypeOK
  <1>3. \A v \in Users \ {u} : wallet'[v] = wallet[v]
    BY DEF WalletMoves
  <1>4. SumFunctionOnSet(wallet', Users)
          = SumFunctionOnSet(wallet, Users) + (IF u \in Users THEN n ELSE 0)
    BY <1>1, <1>2, <1>3, RowsAssumption, SumShifts
  <1>5. QED
    BY <1>1, <1>4

LEMMA HeldSum ==
  ASSUME TypeOK, NEW s \in Sessions, NEW c \in Nat, NEW r \in Nat, NEW e \in Nat,
         LedgerMoves(s, c, r, e)
  PROVE  SumFunctionOnSet(Held', Sessions) = SumFunctionOnSet(Held, Sessions) + (c - r - e)
  <1>1. \A x \in Sessions : ledger[x].charge \in Nat /\ ledger[x].refund \in Nat
                             /\ ledger[x].earning \in Nat
    BY DEF TypeOK, Ledger
  <1>2. \A x \in Sessions : Held[x] \in Int
    BY <1>1 DEF Held
  <1>3. \A x \in Sessions \ {s} : Held'[x] = Held[x]
    BY DEF LedgerMoves, Held
  <1>4. PICK d \in Int : d = c - r - e
    OBVIOUS
  <1>5. Held'[s] = Held[s] + d
    BY <1>1, <1>4 DEF LedgerMoves, Held
  <1>6. IsFiniteSet(Sessions)
    BY RowsAssumption
  <1>7. SumFunctionOnSet(Held', Sessions)
          = SumFunctionOnSet(Held, Sessions) + (IF s \in Sessions THEN d ELSE 0)
    BY <1>2, <1>3, <1>5, <1>6, SumShifts
  <1>8. QED
    BY <1>4, <1>7

LEMMA ConservedStep ==
  ASSUME TypeOK, Conserved, MoneyRests \/ Transfer
  PROVE  Conserved'
  <1>1. /\ SumFunctionOnSet(wallet, Users) \in Int
        /\ SumFunctionOnSet(Held, Sessions) \in Int
        /\ SumFunctionOnSet(topup, Users) \in Int
    <2>1. \A u \in Users : wallet[u] \in Int /\ topup[u] \in Int
      BY DEF TypeOK
    <2>2. \A s \in Sessions : Held[s] \in Int
      BY DEF TypeOK, Ledger, Held
    <2>3. QED
      BY <2>1, <2>2, RowsAssumption, SumType
  <1>2. CASE MoneyRests
    BY <1>2 DEF MoneyRests, Conserved, Held
  <1>3. ASSUME NEW n \in Nat, NEW s \in Sessions, Charged(s, n) \/ Refunded(s, n) \/ PaidOut(s, n)
        PROVE  Conserved'
    <2>1. PICK c \in Nat, r \in Nat, e \in Nat, d \in Int :
            /\ LedgerMoves(s, c, r, e)
            /\ UNCHANGED topup
            /\ d = c - r - e
            /\ \E u : WalletMoves(u, -d)
      <3>1. /\ 0 \in Nat /\ n \in Int /\ -n \in Int
            /\ n - 0 - 0 = n /\ 0 - n - 0 = -n /\ 0 - 0 - n = -n /\ -(-n) = n
        OBVIOUS
      <3>2. CASE Charged(s, n)
        BY <3>1, <3>2 DEF Charged
      <3>3. CASE Refunded(s, n)
        BY <3>1, <3>3 DEF Refunded
      <3>4. CASE PaidOut(s, n)
        BY <3>1, <3>4 DEF PaidOut
      <3>5. QED
        BY <1>3, <3>2, <3>3, <3>4
    <2>2. SumFunctionOnSet(Held', Sessions) = SumFunctionOnSet(Held, Sessions) + (c - r - e)
      BY <2>1, HeldSum
    <2>3. PICK m \in Int : m = -d
      OBVIOUS
    <2>4. SumFunctionOnSet(wallet', Users) = SumFunctionOnSet(wallet, Users) + m
      BY <2>1, <2>3, WalletSum
    <2>5. topup' = topup
      BY <2>1
    <2>6. QED
      BY <1>1, <2>1, <2>2, <2>3, <2>4, <2>5 DEF Conserved
  <1>4. ASSUME NEW n \in Nat, NEW u \in Users, ToppedUp(u, n)
        PROVE  Conserved'
    <2>1. Held' = Held
      BY <1>4 DEF ToppedUp, Held
    <2>2. n \in Int
      OBVIOUS
    <2>3. SumFunctionOnSet(wallet', Users) = SumFunctionOnSet(wallet, Users) + n
      BY <1>4, <2>2, WalletSum DEF ToppedUp
    <2>4. SumFunctionOnSet(topup', Users) = SumFunctionOnSet(topup, Users) + n
      <3>1. \A v \in Users : topup[v] \in Int
        BY DEF TypeOK
      <3>2. /\ \A v \in Users \ {u} : topup'[v] = topup[v]
            /\ topup'[u] = topup[u] + n
        BY <1>4 DEF ToppedUp
      <3>3. SumFunctionOnSet(topup', Users)
              = SumFunctionOnSet(topup, Users) + (IF u \in Users THEN n ELSE 0)
        BY <2>2, <3>1, <3>2, RowsAssumption, SumShifts
      <3>4. QED
        BY <3>3
    <2>5. QED
      BY <1>1, <2>1, <2>2, <2>3, <2>4 DEF Conserved
  <1>5. QED
    BY <1>2, <1>3, <1>4 DEF Transfer

(* No credit is made or lost by any interleaving of handlers, sweeps, ticks, failures   *)
(* and restarts: all that students and teachers topped up (topUpBalance asks for no     *)
(* role) is in a wallet, with a running session, or a fee of a closed one.              *)
THEOREM CreditsAreConserved == Spec => []NoCreditIsLost
  <1>1. ASSUME Init
        PROVE  Conserved
    <2>1. \A u \in Users : wallet[u] = topup[u] /\ topup[u] \in Int
      BY <1>1, PartiesAssumption DEF Init, TablesInit
    <2>2. \A s \in Sessions : Held[s] = 0
      BY <1>1 DEF Init, TablesInit, Held
    <2>3. SumFunctionOnSet(Held, Sessions) = 0
      <3>1. IsFiniteSet({}) /\ {} \subseteq Sessions /\ \A s \in {} : Held[s] \in Int
        BY FS_EmptySet
      <3>2. \A s \in Sessions \ {} : Held[s] = 0
        BY <2>2
      <3>3. QED
        BY <3>1, <3>2, RowsAssumption, SumIgnoresZeros, SumOfNone
    <2>4. SumFunctionOnSet(wallet, Users) = SumFunctionOnSet(topup, Users)
      BY <2>1, RowsAssumption, SumEquals
    <2>5. SumFunctionOnSet(topup, Users) \in Int
      BY <2>1, RowsAssumption, SumType
    <2>6. QED
      BY <2>3, <2>4, <2>5 DEF Conserved
  <1>2. ASSUME TypeOK, Metered, Conserved, [Next]_vars
        PROVE  Conserved'
    BY <1>2, MoneySteps, ConservedStep
  <1>3. TypeOK /\ SessionReconciles /\ Conserved => NoCreditIsLost
    BY HeldIsKept DEF Conserved, NoCreditIsLost
  <1>4. QED
    BY <1>1, <1>2, <1>3, TypeInvariant, SessionsAreMetered, SessionsReconcile, PTL DEF Spec

-----------------------------------------------------------------------------

(* What the escrow knows of a session is unchanged. *)
Unmoved(s) ==
  /\ phase'[s] = phase[s]
  /\ accepted'[s] = accepted[s]
  /\ collected'[s] = collected[s]
  /\ paid'[s] = paid[s]

OnlyMoves(s) == \A x \in Sessions \ {s} : Unmoved(x)

(* The invariants the refinement rests on. *)
Sound == TypeOK /\ AcceptedOnce /\ SessionReconciles /\ Unsettled

LEMMA RoutineUnmoved ==
  ASSUME NEW s \in Sessions, Routine(s)
  PROVE  Unmoved(s)
  BY DEF Routine, RowRoutine, Moves, Unmoved, phase, accepted, collected, paid

LEMMA Domains ==
  /\ phase = [s \in Sessions |-> phase[s]] /\ phase' = [s \in Sessions |-> phase'[s]]
  /\ accepted = [s \in Sessions |-> accepted[s]] /\ accepted' = [s \in Sessions |-> accepted'[s]]
  /\ collected = [s \in Sessions |-> collected[s]]
  /\ collected' = [s \in Sessions |-> collected'[s]]
  /\ paid = [s \in Sessions |-> paid[s]] /\ paid' = [s \in Sessions |-> paid'[s]]
  BY DEF phase, accepted, collected, paid

(* A routine step of every session is a stutter of the escrow. *)
LEMMA Stutters ==
  ASSUME \A x \in Sessions : Unmoved(x)
  PROVE  UNCHANGED Escrow!cvars
  BY Domains DEF Unmoved, Escrow!cvars

(* The escrow's state, when no session but s has moved. *)
LEMMA Others ==
  ASSUME NEW s \in Sessions, OnlyMoves(s)
  PROVE  /\ phase' = [phase EXCEPT ![s] = phase'[s]]
         /\ accepted' = [accepted EXCEPT ![s] = accepted'[s]]
         /\ collected' = [collected EXCEPT ![s] = collected'[s]]
         /\ paid' = [paid EXCEPT ![s] = paid'[s]]
         /\ phase'[s] = phase[s] => phase' = phase
         /\ accepted'[s] = accepted[s] => accepted' = accepted
         /\ collected'[s] = collected[s] => collected' = collected
         /\ paid'[s] = paid[s] => paid' = paid
  BY Domains DEF OnlyMoves, Unmoved

-----------------------------------------------------------------------------
LEMMA ActivatesStarts ==
  ASSUME NEW s \in Sessions, Sound, Activates(s), OnlyMoves(s)
  PROVE  Escrow!Next
  <1>1. AcceptedFor(s) = {} /\ session[s].totalCharged = 0
    BY DEF Sound, Activates, Moves, AcceptedOnce, Unsettled, Activated
  <1>2. PICK o \in Offers : accepted'[s] = {o}
    BY <1>1 DEF Activates, StartsThrough, accepted
  <1>3. phase[s] = "waiting" /\ phase'[s] = "running"
    BY DEF Activates, Moves, phase
  <1>4. paid'[s] = paid[s]
    BY <1>1 DEF Activates, Charges, paid
  <1>5. Escrow!Start(s, o, collected'[s])
    BY <1>2, <1>3, <1>4, Others DEF Escrow!Start
  <1>6. QED
    BY <1>5 DEF Escrow!Next

LEMMA ExtendsExtends ==
  ASSUME NEW s \in Sessions, Sound, Extends(s), OnlyMoves(s)
  PROVE  Escrow!Next
  <1>1. phase[s] = "running" /\ phase'[s] = phase[s]
    BY DEF Extends, Moves, phase
  <1>2. accepted'[s] = accepted[s] /\ paid'[s] = paid[s]
    BY DEF Extends, Charges, accepted, paid
  <1>3. PICK n \in Nat : collected'[s] = collected[s] + n
    BY DEF Extends, Charges, collected
  <1>4. collected[s] \in Nat
    BY DEF Sound, TypeOK, Ledger, collected
  <1>5. collected' = [collected EXCEPT ![s] = collected[s] + (collected'[s] - collected[s])]
    BY <1>3, <1>4, Others
  <1>6. Escrow!Extend(s, collected'[s] - collected[s])
    BY <1>1, <1>2, <1>5, Others DEF Escrow!Extend
  <1>7. collected'[s] >= collected[s]
    BY <1>3, <1>4
  <1>8. QED
    BY <1>6, <1>7 DEF Escrow!Next

LEMMA SettlesCloses ==
  ASSUME NEW s \in Sessions, Sound, Settles(s), OnlyMoves(s)
  PROVE  Escrow!Next
  <1>1. phase[s] = "running" /\ phase'[s] = "closed"
    BY DEF Settles, Moves, phase
  <1>2. /\ ledger[s].charge = session[s].totalCharged
        /\ ledger[s].earning = 0 /\ ledger[s].refund = 0
    <2>1. session[s].status \notin Closed
      BY DEF Settles, Moves, Closed
    <2>2. QED
      BY <2>1 DEF Sound, SessionReconciles
  <1>3. PICK fee \in Nat, earning \in Nat, refund \in Nat :
          /\ session'[s].fee = fee
          /\ ledger'[s].charge = ledger[s].charge
          /\ ledger'[s].earning = ledger[s].earning + earning
          /\ ledger'[s].refund = ledger[s].refund + refund
          /\ fee + earning + refund = session[s].totalCharged
          /\ refund > 0 => fee = 0 /\ earning = 0
    BY DEF Settles
  <1>4. accepted'[s] = accepted[s] /\ collected'[s] = collected[s]
    BY <1>3 DEF Settles, accepted, collected
  <1>5. paid'[s] = [fee |-> fee, earning |-> earning, refund |-> refund]
    BY <1>2, <1>3 DEF paid
  <1>6. collected[s] = fee + earning + refund
    BY <1>2, <1>3 DEF collected
  <1>7. paid'[s] \in Escrow!Payouts(collected[s])
    <2>1. CASE refund > 0
      BY <1>3, <1>5, <1>6, <2>1 DEF Escrow!Payouts
    <2>2. CASE refund = 0
      <3>1. earning \in 0 .. collected[s] /\ fee = collected[s] - earning
        BY <1>6, <2>2
      <3>2. QED
        BY <1>5, <2>2, <3>1 DEF Escrow!Payouts
    <2>3. QED
      BY <2>1, <2>2
  <1>8. Escrow!Close(s, paid'[s])
    BY <1>1, <1>4, <1>7, Others DEF Escrow!Close
  <1>9. QED
    BY <1>8 DEF Escrow!Next

-----------------------------------------------------------------------------
(* Every step of the marketplace is a step of the escrow or leaves it alone. *)
LEMMA EscrowStep ==
  ASSUME Sound, [Next]_vars
  PROVE  [Escrow!Next]_(Escrow!cvars)
  <1>1. RoutineForAll \/ \E s \in Sessions : About(s)
    BY Steps DEF Sound
  <1>2. CASE RoutineForAll
    BY <1>2, RoutineUnmoved, Stutters DEF RoutineForAll
  <1>3. ASSUME NEW s \in Sessions, About(s)
        PROVE  Escrow!Next
    <2>1. OnlyMoves(s)
      BY <1>3, RoutineUnmoved DEF About, OnlyMoves
    <2>2. QED
      BY <1>3, <2>1, ActivatesStarts, ExtendsExtends, SettlesCloses DEF About
  <1>4. QED
    BY <1>1, <1>2, <1>3

(* The marketplace implements the escrow: a session is opened once by one accepted     *)
(* offer, collects while it runs, and is closed once, giving out what it holds.        *)
THEOREM ImplementsTheContract == Spec => KeepsTheContract
  <1>1. ASSUME Init
        PROVE  Escrow!Init
    <2>1. /\ session = [s \in Sessions |-> newSession]
          /\ ledger = [s \in Sessions |-> [charge |-> 0, refund |-> 0, earning |-> 0]]
          /\ \A s \in Sessions : AcceptedFor(s) = {}
      <3>1. \A o \in Offers : ~Exists(o)
        BY <1>1 DEF Init, TablesInit, Exists
      <3>2. QED
        BY <1>1, <3>1 DEF Init, TablesInit, Exists, AcceptedFor, OffersOf
    <2>2. phase = [s \in Sessions |-> "waiting"]
      BY <2>1 DEF phase, newSession
    <2>3. accepted = [s \in Sessions |-> {}]
      BY <2>1 DEF accepted
    <2>4. collected = [s \in Sessions |-> 0]
      BY <2>1 DEF collected
    <2>5. paid = [s \in Sessions |-> Escrow!Nobody]
      BY <2>1 DEF paid, newSession, Escrow!Nobody
    <2>6. QED
      BY <2>2, <2>3, <2>4, <2>5 DEF Escrow!Init
  <1>2. Spec => []Sound
    BY TypeInvariant, AcceptsOnce, ReconcilesAndUnsettled, PTL DEF Sound
  <1>3. QED
    BY <1>1, <1>2, EscrowStep, PTL DEF Spec, KeepsTheContract, Escrow!Spec
=============================================================================
