------------------------------ MODULE Promises ------------------------------
(***************************************************************************)
(* What the marketplace promises, stated over its tables.                  *)
(***************************************************************************)
EXTENDS TutorNow, Functions

Activated == {"ACTIVE", "ENDED", "RATED", "NO_SHOW"}
Closed    == {"ENDED", "RATED", "NO_SHOW"}

OffersOf(s)   == {o \in Offers : Exists(o) /\ offer[o].session = s}
OffersTo(t)   == {o \in Offers : Exists(o) /\ offer[o].teacher = t}
AcceptedFor(s) == {o \in OffersOf(s) : offer[o].status = "ACCEPTED"}

(* An offer is open while it can be answered, and while the sweep that expired it has  *)
(* still to settle it.                                                                 *)
BeingSettled(o) ==
  \E p \in Procs : \/ req[p].op = "settle" /\ o \in req[p].offers
                   \/ req[p].op = "reread" /\ o \in req[p].own
(* Every sweep settled the offers it expired, and only those. *)
Undisturbed == faults = 0 /\ ~stray

Open(o) == Unanswered(o) \/ (Exists(o) /\ BeingSettled(o))

-----------------------------------------------------------------------------
(* A session that ever ran was accepted through exactly one offer, and an accepted     *)
(* offer belongs to a session that ran: two tabs, a late accept and a sweep racing the *)
(* answer never activate a session twice or leave an accepted offer behind             *)
(* (activateAcceptedOffer, markOfferResponded).                                        *)
AcceptedOnce ==
  \A s \in Sessions :
    /\ session[s].status \in Activated <=> AcceptedFor(s) # {}
    /\ \A o1, o2 \in AcceptedFor(s) : o1 = o2

(* A step that writes an offer's row gives it its one answer. *)
AnsweredOnce(o) ==
  Exists(o) /\ offer'[o] # offer[o] =>
    /\ offer[o].status = "PENDING"
    /\ \E answer \in OfferStatus \ {"PENDING"} :
         offer'[o] = [offer[o] EXCEPT !.status = answer]

(* A session's status moves along the table of session.state.js and in no other way,   *)
(* although sendOffer, rejectOffer and the sweeps never consult that table; and an     *)
(* offer is answered once, its deadline and its two parties fixed when it was sent,    *)
(* whoever comes to answer, sweep or settle it afterwards.                             *)
StatusEdges ==
  [][/\ \A s \in Sessions : session'[s].status # session[s].status =>
          assertTransition(session[s].status, session'[s].status)
     /\ \A o \in Offers : AnsweredOnce(o)]_vars

(* A session awaiting an answer has exactly one open offer, to the teacher it names;   *)
(* a session waiting to be sent has none.                                              *)
OneOpenOffer == Undisturbed =>
  \A s \in Sessions :
    LET open == {o \in OffersOf(s) : Open(o)} IN
    /\ session[s].status = "OFFER_SENT" =>
         Cardinality(open) = 1 /\ \A o \in open : offer[o].teacher = session[s].teacher
    /\ session[s].status # "OFFER_SENT" => open = {}

(* A teacher is locked exactly while one open offer is out to them.                    *)
LockBacked == Undisturbed =>
  \A t \in Teachers \ Patchers :
    Cardinality({o \in OffersTo(t) : Open(o)}) = IF teacher[t] = "OFFER_LOCKED" THEN 1 ELSE 0

(* A teacher is in session exactly while one session they accepted is running: never   *)
(* in two, never left IN_SESSION by an ending, never released under a running one.     *)
InSessionBacked == ~stray =>
  \A t \in Teachers \ Patchers :
    Cardinality({s \in Sessions : session[s].status = "ACTIVE" /\ session[s].teacher = t})
      = IF teacher[t] = "IN_SESSION" THEN 1 ELSE 0

(* The teacher a session names, whom it will pay, is the teacher who accepted it; and   *)
(* the session runs from an instant before the offer's deadline, although the deadline *)
(* is read outside the transaction that accepts and the commit may come after it.      *)
PaysWhoAccepted ==
  \A s \in Sessions : \A o \in AcceptedFor(s) :
    /\ ~stray => offer[o].teacher = session[s].teacher
    /\ session[s].startedAt < offer[o].expiresAt

-----------------------------------------------------------------------------
(* The row block i of session s must be: the opening purchase is one row, numbered 1,  *)
(* and each extension is a row more.                                                   *)
Row(s, i) == IF i = 1 THEN [number |-> 1, amount |-> OpeningBlocks * session[s].price]
                      ELSE [number |-> OpeningBlocks + i - 1, amount |-> session[s].price]

Amounts(s) == [i \in 1 .. Len(blocks[s]) |-> blocks[s][i].amount]

(* The meter: every block the student was charged for is a row of its own at the price *)
(* of the offer, the charge is what those rows add up to and within the budget, and    *)
(* the session's end is paid for to the tick.  Two tabs extending the same block buy   *)
(* one block.                                                                          *)
MeterPaid ==
  \A s \in Sessions : session[s].status \in Activated =>
    /\ session[s].totalCharged = SumFunction(Amounts(s))
    /\ Len(blocks[s]) = session[s].blocksUsed - OpeningBlocks + 1
    /\ \A i \in 1 .. Len(blocks[s]) : blocks[s][i] = Row(s, i)
    /\ session[s].totalCharged = session[s].blocksUsed * session[s].price
    /\ session[s].endsAt = session[s].startedAt + session[s].blocksUsed * BlockLength
    /\ session[s].totalCharged <= BudgetCap

(* The money of a session: it is taken while the session runs, and given out once, as  *)
(* a fee and an earning or as a full refund.                                           *)
SessionReconciles ==
  \A s \in Sessions :
    /\ ledger[s].charge = session[s].totalCharged
    /\ ledger[s].earning = session[s].earning
    /\ session[s].status \notin Closed => ledger[s].refund = 0 /\ ledger[s].earning = 0
    /\ session[s].status \in Closed =>
         ledger[s].refund + session[s].fee + session[s].earning = ledger[s].charge
    /\ ledger[s].refund > 0 => session[s].fee = 0 /\ session[s].earning = 0
    /\ session[s].status = "NO_SHOW" => ledger[s].refund = ledger[s].charge

(* Every wallet is its ledger: what the user topped up, a teacher's with what the       *)
(* sessions they taught paid, a student's with what their sessions gave back, minus    *)
(* what they were charged.                                                             *)
Taught(t) == {s \in Sessions : session[s].teacher = t}
Owned(u)  == {s \in Sessions : Owner[s] = u}
Net       == [s \in Sessions |-> ledger[s].refund - ledger[s].charge]
Earned    == [s \in Sessions |-> ledger[s].earning]

WalletsAreLedgers ==
  /\ \A u \in Students : wallet[u] = topup[u] + SumFunctionOnSet(Net, Owned(u))
  /\ \A t \in Teachers : wallet[t] = topup[t] + SumFunctionOnSet(Earned, Taught(t))

(* No credit is made or lost: what the users topped up is in their wallets, with the   *)
(* running sessions that collect it, or with the platform as the fees of closed ones.  *)
Kept == [s \in Sessions |-> IF session[s].status \in Closed THEN session[s].fee
                                                            ELSE session[s].totalCharged]

NoCreditIsLost ==
  SumFunctionOnSet(wallet, Users) + SumFunctionOnSet(Kept, Sessions)
    = SumFunctionOnSet(topup, Users)

(* Nothing about a closed session's money changes any more, whoever was still about to *)
(* extend it, end it or report it.                                                     *)
ClosedIsFinal ==
  [][\A s \in Sessions : session[s].status \in Closed =>
       /\ ledger'[s] = ledger[s]
       /\ blocks'[s] = blocks[s]
       /\ session'[s].totalCharged = session[s].totalCharged
       /\ session'[s].endReason = session[s].endReason]_vars

(* A question remembers the teachers who rejected it. *)
RejectionsRemembered ==
  \A s \in Sessions :
    rejectedBy[s] = {offer[o].teacher : o \in {x \in OffersOf(s) : offer[x].status = "REJECTED"}}

(* The ratings a teacher's average is over are the reviews of the teacher's lessons    *)
(* that carry stars.                                                                   *)
RatingsMatch ==
  \A t \in Teachers :
    tally[t].ratingCount =
      Cardinality({s \in Sessions : session[s].teacher = t /\ review[s] = "stars"})

(* The counters the ranking and the profile read are the rows they count; and the      *)
(* teachers the match list leaves out of a question are those who rejected it, not     *)
(* those who let its offer expire.                                                     *)
CountersMatch ==
  /\ RejectionsRemembered
  /\ RatingsMatch
  /\ ~stray => \A t \in Teachers :
       LET mine(statuses) == {s \in Sessions : session[s].teacher = t
                                               /\ session[s].status \in statuses}
       IN
       /\ tally[t].offersReceived = Cardinality(OffersTo(t))
       /\ tally[t].offersAccepted = Cardinality(mine(Activated))
       /\ tally[t].sessionsCount = Cardinality(mine({"ENDED", "RATED"}))
       /\ tally[t].noShowCount = Cardinality(mine({"NO_SHOW"}))
       /\ tally[t].topicSessions = Cardinality(mine({"RATED"}))

-----------------------------------------------------------------------------
(* The marketplace implements the escrow of module Contract: whatever handlers, sweeps *)
(* and ticks interleave, a session is opened once, by one accepted offer; money is     *)
(* taken only while it runs; and one step closes it and gives out all of it, never to  *)
(* the teacher and back to the student both.  The money is read off the ledger rows,   *)
(* the phase off the session's.                                                        *)
phase == [s \in Sessions |-> IF session[s].status \in {"PENDING", "OFFER_SENT"} THEN "waiting"
                             ELSE IF session[s].status = "ACTIVE" THEN "running"
                             ELSE "closed"]
accepted  == [s \in Sessions |-> AcceptedFor(s)]
collected == [s \in Sessions |-> ledger[s].charge]
paid      == [s \in Sessions |-> [fee |-> session[s].fee, earning |-> ledger[s].earning,
                                  refund |-> ledger[s].refund]]

Escrow == INSTANCE Contract
            WITH phase <- phase, accepted <- accepted, collected <- collected, paid <- paid

KeepsTheContract == Escrow!Spec

(* Until a sweep strays, the marketplace keeps the desks of module Desk for the         *)
(* teachers nobody patches: whatever handlers, sweeps, ticks, failures and restarts     *)
(* interleave, the teacher column and the session rows move together, one session at a  *)
(* time, and no session sits at a desk that is free or two at one that is not.  The     *)
(* desk is read off the teacher's status, who sits there off the sessions.              *)
Regulars == Teachers \ Patchers
With(t, status) == {s \in Sessions : session[s].status = status /\ session[s].teacher = t}

desk   == [t \in Regulars |-> IF teacher[t] = "OFFER_LOCKED" THEN "asked"
                              ELSE IF teacher[t] = "IN_SESSION" THEN "serving"
                              ELSE "free"]
asked  == [t \in Regulars |-> With(t, "OFFER_SENT")]
served == [t \in Regulars |-> With(t, "ACTIVE")]

Desks == INSTANCE Desk
           WITH Teachers <- Regulars, desk <- desk, asked <- asked, served <- served

KeepsTheDesks == Desks!Init /\ [][stray' \/ [Desks!Next]_(Desks!dvars)]_vars

-----------------------------------------------------------------------------
(* Liveness.  The tick and the clock go on; so does a handler, if only to its error.   *)

DueInTime(i) == i < MaxNow

(* A session whose offer dies gets its student back to PENDING, or its teacher in      *)
(* time, whoever's sweep it takes; only a settlement that failed can leave it waiting  *)
(* (offer.expiry.job.js).                                                              *)
OffersResolve ==
  \A s \in Sessions :
    (session[s].status = "OFFER_SENT" /\ \A o \in OffersOf(s) : DueInTime(offer[o].expiresAt))
      ~> (session[s].status # "OFFER_SENT" \/ faults > 0)

(* A lock on a teacher does not outlive the offers it was taken for.                   *)
LocksRelease ==
  \A t \in Teachers :
    (teacher[t] = "OFFER_LOCKED" /\ \A o \in OffersTo(t) : DueInTime(offer[o].expiresAt))
      ~> (teacher[t] # "OFFER_LOCKED" \/ faults > 0)

(* A running session ends once nobody extends it, even when the server restarts in the *)
(* middle of the sweep that was ending it (session.autoEnd.job.js).                    *)
SessionsEnd ==
  \A s \in Sessions :
    (session[s].status = "ACTIVE") ~> (\/ session[s].status \in Closed
                                       \/ ~DueInTime(session[s].endsAt + Grace))

-----------------------------------------------------------------------------
(* What comments of the code say, and the code does not do.                            *)

(* session.offer.service.js: "a teacher has at most one PENDING offer".                *)
AtMostOnePendingOffer ==
  \A t \in Teachers : Cardinality({o \in OffersTo(t) : Unanswered(o)}) <= 1

(* offer.expiry.job.js: two sweeps "leave the same end state as one, and a second      *)
(* instance would be harmless": no sweep sends a session back to PENDING while an      *)
(* offer of it can still be answered.                                                  *)
SweepsAreHarmless ==
  [][\A s \in Sessions :
       session[s].status = "OFFER_SENT" /\ session'[s].status = "PENDING" =>
         \A o \in OffersOf(s) : offer'[o].status # "PENDING" \/ hasExpired(o)]_vars

(* offer.expiry.job.js, of a settlement that failed: the "read path recovers it the    *)
(* next time anybody answers that offer".                                              *)
Abandoned(o) == /\ Exists(o) /\ offer[o].status = "EXPIRED" /\ ~BeingSettled(o)
                /\ session[offer[o].session].status = "OFFER_SENT"
                /\ OffersOf(offer[o].session) = {o}
Answered(o)  == \E h \in Handlers : At(h, "sweepExpired") /\ req[h].offer = o

AnswersRecover ==
  \A o \in Offers : (Abandoned(o) /\ Answered(o)) ~> ~Abandoned(o)

(* session.autoEnd.job.js: the sweep ends a session past its end and grace, and re-reads *)
(* it under the lock because "the student may have extended".                            *)
AutoEndIsDue ==
  [][\A s \in Sessions :
       session[s].status = "ACTIVE" /\ session'[s].endReason = "no_extension" =>
         session[s].endsAt + Grace <= now]_vars
=============================================================================
