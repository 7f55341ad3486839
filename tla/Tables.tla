------------------------------- MODULE Tables -------------------------------
(***************************************************************************)
(* The Postgres tables TutorNow's marketplace lives in, and the repository *)
(* functions that read and move them (server/src/repositories).            *)
(*                                                                         *)
(* Every write of the code is either unconditional or an `updateMany`      *)
(* whose WHERE clause is the guard.  A repository function is an operator  *)
(* here: the WHERE clause is a conjunct when the caller rolls back on      *)
(* count 0, and an IF when the caller carries on.  A transaction is the    *)
(* conjunction of the functions it calls: each one starts by locking the   *)
(* row its decision rests on and holds that lock until it commits, so it   *)
(* takes effect in one step.  What is read before the transaction goes     *)
(* stale in `req` (module Requests).                                       *)
(***************************************************************************)
EXTENDS Integers, FiniteSets, Sequences

CONSTANTS
  Students, Teachers,   \* users by role
  Sessions,             \* one session per question, created PENDING with it
  Offers,               \* the pool offer rows are inserted from
  Null,                 \* SQL NULL, where a column holds a user or an offer its row
  Owner,                \* [Sessions -> Students], sessions.student_id
  Price,                \* [Teachers -> Nat], teacher_profiles.price_per_block
  BudgetCap,            \* sessions.budget_cap, DEFAULT_BUDGET_CAP
  InitialBalance,       \* [Users -> Nat], credits topped up before the run
  OpeningBlocks,        \* OPENING_BLOCKS
  BlockLength,          \* BLOCK_MINUTES, in ticks of the clock
  OfferTtl,             \* OFFER_TTL_SECONDS, in ticks
  Grace,                \* GRACE_SECONDS, in ticks
  NoShowWindow,         \* NO_SHOW_WINDOW_SEC, in ticks
  FeePercents           \* the commission rates platformFeeRate may return

Users == Students \cup Teachers

ASSUME PartiesAssumption ==
  /\ Students \cap Teachers = {}
  /\ Null \notin Users
  /\ Owner \in [Sessions -> Students]
  /\ InitialBalance \in [Users -> Nat]

(* Tables have finitely many rows. *)
ASSUME RowsAssumption == IsFiniteSet(Users) /\ IsFiniteSet(Sessions)

ASSUME MoneyAssumption ==
  /\ Price \in [Teachers -> Nat \ {0}]
  /\ BudgetCap \in Nat
  /\ \A t \in Teachers : OpeningBlocks * Price[t] <= BudgetCap
  /\ FeePercents \subseteq 0 .. 100

ASSUME ClockAssumption ==
  /\ OpeningBlocks \in Nat \ {0}
  /\ BlockLength \in Nat \ {0}
  /\ {OfferTtl, Grace, NoShowWindow} \subseteq Nat

VARIABLES
  teacher,      \* teacher_profiles.status
  tally,        \* teacher_profiles' and teacher_topic_stats' counters
  session,      \* sessions
  offer,        \* offers; Null is a row not inserted yet
  rejectedBy,   \* questions.rejected_by, by the question's session
  blocks,       \* session_blocks, a sequence of rows per session
  review,       \* reviews: the row of a session, if any
  wallet,       \* wallets.balance
  ledger,       \* wallet_transactions of a session, summed by type
  topup,        \* wallet_transactions of type TOPUP, summed by user
  now           \* the wall clock

tables == <<teacher, tally, session, offer, rejectedBy, blocks, review,
            wallet, ledger, topup>>
profiles == <<teacher, tally>>
money    == <<wallet, ledger, topup, blocks>>

TeacherStatus == {"OFFLINE", "ONLINE", "OFFER_LOCKED", "IN_SESSION"}
SessionStatus == {"PENDING", "OFFER_SENT", "ACTIVE", "ENDED", "RATED", "NO_SHOW"}
OfferStatus   == {"PENDING", "ACCEPTED", "REJECTED", "EXPIRED"}
EndReasons    == {"none", "student_ended", "no_extension", "error", "teacher_no_show"}

Session == [status : SessionStatus, teacher : Teachers \cup {Null}, price : Nat,
            startedAt : Nat, endsAt : Nat, blocksUsed : Nat, totalCharged : Nat,
            video : BOOLEAN, fee : Nat, earning : Nat, endReason : EndReasons]
Offer   == [status : OfferStatus, session : Sessions, teacher : Teachers, expiresAt : Nat]
Tally   == [offersReceived : Nat, offersAccepted : Nat, sessionsCount : Nat,
            noShowCount : Nat, ratingCount : Nat, topicSessions : Nat]
Ledger  == [charge : Nat, refund : Nat, earning : Nat]

ASSUME NullAssumption == Null \notin Offer

(* The edges of services/session.state.js; every key of the table that has one. *)
Transitions ==
  {<<"PENDING", "OFFER_SENT">>, <<"OFFER_SENT", "ACTIVE">>, <<"OFFER_SENT", "PENDING">>,
   <<"ACTIVE", "ENDED">>, <<"ACTIVE", "NO_SHOW">>, <<"ENDED", "RATED">>}

assertTransition(from, to) == <<from, to>> \in Transitions

(* What a new question leaves in the tables: a PENDING session and no more. *)
newSession == [status |-> "PENDING", teacher |-> Null, price |-> 0, startedAt |-> 0,
               endsAt |-> 0, blocksUsed |-> 0, totalCharged |-> 0, video |-> FALSE,
               fee |-> 0, earning |-> 0, endReason |-> "none"]

TablesInit ==
  /\ teacher = [t \in Teachers |-> "ONLINE"]
  /\ tally = [t \in Teachers |->
       [offersReceived |-> 0, offersAccepted |-> 0, sessionsCount |-> 0,
        noShowCount |-> 0, ratingCount |-> 0, topicSessions |-> 0]]
  /\ session = [s \in Sessions |-> newSession]
  /\ offer = [o \in Offers |-> Null]
  /\ rejectedBy = [s \in Sessions |-> {}]
  /\ blocks = [s \in Sessions |-> <<>>]
  /\ review = [s \in Sessions |-> "none"]
  /\ wallet = InitialBalance
  /\ ledger = [s \in Sessions |-> [charge |-> 0, refund |-> 0, earning |-> 0]]
  /\ topup = InitialBalance
  /\ now = 0

-----------------------------------------------------------------------------
(* Reads. *)

Exists(o)       == offer[o] # Null
Unanswered(o)   == Exists(o) /\ offer[o].status = "PENDING"

(* offer.respond.service.js hasExpired: the deadline itself is too late. *)
hasExpired(o)   == offer[o].expiresAt <= now

ExpiredBefore_OnTheTick == {o \in Offers : Unanswered(o) /\ offer[o].expiresAt + 1 = now}

(* The rows expirePendingOffersBefore(now) finds: strictly past the deadline. *)
ExpiredBefore   == {o \in Offers : Unanswered(o) /\ offer[o].expiresAt < now}

findSessionsDueForAutoEnd_OnTheTick ==
  {s \in Sessions : session[s].status = "ACTIVE" /\ session[s].endsAt + Grace = now}

findSessionsDueForAutoEnd ==
  {s \in Sessions : session[s].status = "ACTIVE" /\ session[s].endsAt + Grace <= now}

-----------------------------------------------------------------------------
(* repositories/session.repository.js and offer.repository.js. *)

lockTeacherForOffer_Unconditional(t) ==
  teacher' = [teacher EXCEPT ![t] = "OFFER_LOCKED"]

lockTeacherForOffer_Busy(t) ==
  /\ teacher[t] \in {"ONLINE", "IN_SESSION"}
  /\ teacher' = [teacher EXCEPT ![t] = "OFFER_LOCKED"]

lockTeacherForOffer(t) ==
  /\ teacher[t] = "ONLINE"
  /\ teacher' = [teacher EXCEPT ![t] = "OFFER_LOCKED"]

releaseTeacherLock(t) ==
  teacher' = IF teacher[t] = "OFFER_LOCKED" THEN [teacher EXCEPT ![t] = "ONLINE"]
                                            ELSE teacher

setTeacherInSession(t) ==
  /\ teacher[t] = "OFFER_LOCKED"
  /\ teacher' = [teacher EXCEPT ![t] = "IN_SESSION"]
  /\ tally' = [tally EXCEPT ![t].offersAccepted = @ + 1]

releaseTeacherAfterSession_Swapped(t, noShow, ended) ==
  /\ teacher' = IF teacher[t] = "IN_SESSION" THEN [teacher EXCEPT ![t] = "ONLINE"]
                                             ELSE teacher
  /\ tally' = [tally EXCEPT ![t] =
       [tally[t] EXCEPT !.sessionsCount = @ + ended, !.noShowCount = @ + noShow]]

(* The counters move even when the teacher was not IN_SESSION any more. *)
releaseTeacherAfterSession(t, ended, noShow) ==
  /\ teacher' = IF teacher[t] = "IN_SESSION" THEN [teacher EXCEPT ![t] = "ONLINE"]
                                             ELSE teacher
  /\ tally' = [tally EXCEPT ![t] =
       [tally[t] EXCEPT !.sessionsCount = @ + ended, !.noShowCount = @ + noShow]]

incrementOffersReceived(t) ==
  tally' = [tally EXCEPT ![t].offersReceived = @ + 1]

createOffer(o, s, t, expiresAt) ==
  /\ ~Exists(o)
  /\ offer' = [offer EXCEPT ![o] =
       [status |-> "PENDING", session |-> s, teacher |-> t, expiresAt |-> expiresAt]]

markOfferResponded_Unconditional(o, status) ==
  offer' = [offer EXCEPT ![o].status = status]

markOfferResponded(o, status) ==
  /\ Unanswered(o)
  /\ offer' = [offer EXCEPT ![o].status = status]

appendRejectedBy(s, t) ==
  rejectedBy' = [rejectedBy EXCEPT ![s] = @ \cup {t}]

setSessionOfferSent_Unconditional(s, t, price) ==
  session' = [session EXCEPT ![s] =
       [@ EXCEPT !.status = "OFFER_SENT", !.teacher = t, !.price = price]]

setSessionOfferSent_Resend(s, t, price) ==
  /\ session[s].status \in {"PENDING", "OFFER_SENT"}
  /\ session' = [session EXCEPT ![s] =
       [@ EXCEPT !.status = "OFFER_SENT", !.teacher = t, !.price = price]]

setSessionOfferSent(s, t, price) ==
  /\ session[s].status = "PENDING"
  /\ session' = [session EXCEPT ![s] =
       [@ EXCEPT !.status = "OFFER_SENT", !.teacher = t, !.price = price]]

setSessionPending_Unconditional(s) ==
  session' = [session EXCEPT ![s] =
       [@ EXCEPT !.status = "PENDING", !.teacher = Null, !.price = 0]]

setSessionPending(s) ==
  session' = IF session[s].status = "OFFER_SENT"
             THEN [session EXCEPT ![s] =
                    [@ EXCEPT !.status = "PENDING", !.teacher = Null, !.price = 0]]
             ELSE session

setSessionActive(s, startedAt, endsAt, blocksUsed, charged) ==
  /\ session[s].status = "OFFER_SENT"
  /\ session' = [session EXCEPT ![s] =
       [@ EXCEPT !.status = "ACTIVE", !.startedAt = startedAt, !.endsAt = endsAt,
                 !.blocksUsed = blocksUsed, !.totalCharged = charged]]

setSessionVideoRoom(s) ==
  session' = [session EXCEPT ![s].video = TRUE]

extendSession_Unexpected(s, expectedEndsAt, endsAt, blocksUsed, charged) ==
  /\ session[s].status = "ACTIVE"
  /\ session' = [session EXCEPT ![s] =
       [@ EXCEPT !.endsAt = endsAt, !.blocksUsed = blocksUsed, !.totalCharged = charged]]

extendSession_Reviving(s, expectedEndsAt, endsAt, blocksUsed, charged) ==
  /\ session[s].endsAt = expectedEndsAt
  /\ session' = [session EXCEPT ![s] =
       [@ EXCEPT !.endsAt = endsAt, !.blocksUsed = blocksUsed, !.totalCharged = charged]]

extendSession(s, expectedEndsAt, endsAt, blocksUsed, charged) ==
  /\ session[s].status = "ACTIVE"
  /\ session[s].endsAt = expectedEndsAt
  /\ session' = [session EXCEPT ![s] =
       [@ EXCEPT !.endsAt = endsAt, !.blocksUsed = blocksUsed, !.totalCharged = charged]]

endSession_Forgetting(s, status, reason, fee, earning) ==
  /\ session[s].status = "ACTIVE"
  /\ session' = [session EXCEPT ![s] =
       [@ EXCEPT !.status = status, !.endReason = reason, !.fee = fee, !.earning = earning,
                 !.teacher = Null]]

endSession(s, status, reason, fee, earning) ==
  /\ session[s].status = "ACTIVE"
  /\ session' = [session EXCEPT ![s] =
       [@ EXCEPT !.status = status, !.endReason = reason, !.fee = fee, !.earning = earning]]

setSessionRated(s) ==
  /\ session[s].status = "ENDED"
  /\ session' = [session EXCEPT ![s].status = "RATED"]

recordBlock(s, number, amount) ==
  blocks' = [blocks EXCEPT ![s] = Append(@, [number |-> number, amount |-> amount])]

-----------------------------------------------------------------------------
(* services/wallet.service.js: applyWalletDelta for each type of ledger row.    *)
(* lockWalletBalance makes the balance read and the increment one step.         *)

chargeStudent_Unchecked(u, s, amount) ==
  /\ amount > 0
  /\ wallet' = [wallet EXCEPT ![u] = @ - amount]
  /\ ledger' = [ledger EXCEPT ![s].charge = @ + amount]

chargeStudent(u, s, amount) ==
  /\ amount > 0
  /\ wallet[u] >= amount
  /\ wallet' = [wallet EXCEPT ![u] = @ - amount]
  /\ ledger' = [ledger EXCEPT ![s].charge = @ + amount]

creditTeacher(u, s, amount) ==
  /\ wallet' = [wallet EXCEPT ![u] = @ + amount]
  /\ ledger' = [ledger EXCEPT ![s].earning = @ + amount]

refundSession(u, s, amount) ==
  /\ wallet' = [wallet EXCEPT ![u] = @ + amount]
  /\ ledger' = [ledger EXCEPT ![s].refund = @ + amount]

topUpWallet(u, amount) ==
  /\ wallet' = [wallet EXCEPT ![u] = @ + amount]
  /\ topup' = [topup EXCEPT ![u] = @ + amount]

(* Math.round(gross * rate): half a credit rounds up. *)
commission(gross, percent) == (gross * percent + 50) \div 100
=============================================================================
