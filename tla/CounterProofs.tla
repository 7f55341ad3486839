--------------------------- MODULE CounterProofs ---------------------------
(***************************************************************************)
(* The counters of a teacher's profile are the rows they count, for every  *)
(* number of sessions and offers: each transaction that adds a row to a    *)
(* count raises the counter of the same teacher by one.  For an acceptance *)
(* the teacher whose counter moves is the offer's and the row is counted   *)
(* under the session's; that they are the same is LockProofs' invariant.   *)
(* Then everything scripts/reconcile.mjs asks, from the three modules of   *)
(* proofs together.                                                        *)
(***************************************************************************)
EXTENDS LockProofs, MoneyProofs, Reconcile

USE DEF At, Become, Finish, Begin, Exists, Unanswered

Counts(S, n) == IsFiniteSet(S) /\ n = Cardinality(S)

Mine(t, statuses) ==
  {s \in Sessions : session[s].teacher = t /\ session[s].status \in statuses}

Finished == {"ENDED", "RATED"}

Counted(t) ==
  /\ Counts(OffersTo(t), tally[t].offersReceived)
  /\ Counts(Mine(t, Activated), tally[t].offersAccepted)
  /\ Counts(Mine(t, Finished), tally[t].sessionsCount)
  /\ Counts(Mine(t, {"NO_SHOW"}), tally[t].noShowCount)
  /\ Counts(Mine(t, {"RATED"}), tally[t].topicSessions)

Counters == ~stray => \A t \in Teachers : Counted(t)

LEMMA CountsOneMore ==
  ASSUME NEW S, NEW n, NEW x, Counts(S, n), x \notin S
  PROVE  Counts(S \cup {x}, n + 1)
  BY FS_AddElement DEF Counts

-----------------------------------------------------------------------------
(* A row that moves between the statuses before activation, or not at all. *)
Alike(s) ==
  \/ session'[s].status = session[s].status /\ session'[s].teacher = session[s].teacher
  \/ session'[s].status \notin Activated /\ session[s].status \notin Activated

AddressesSame ==
  \A o \in Offers : /\ offer'[o] # Null <=> Exists(o)
                    /\ Exists(o) => offer'[o].teacher = offer[o].teacher

LEMMA SameOffers ==
  ASSUME AddressesSame
  PROVE  \A t : OffersTo(t)' = OffersTo(t)
  BY DEF AddressesSame, OffersTo

LEMMA AlikeSets ==
  ASSUME NEW t, NEW statuses, statuses \subseteq Activated, \A s \in Sessions : Alike(s)
  PROVE  Mine(t, statuses)' = Mine(t, statuses)
  BY DEF Alike, Mine

(* A step that activates, closes or rates nothing and inserts no offer. *)
LEMMA CountersStay ==
  ASSUME Counters, AddressesSame, \A s \in Sessions : Alike(s), UNCHANGED tally,
         ~stray' => ~stray
  PROVE  Counters'
  <1>1. ASSUME ~stray', NEW t \in Teachers
        PROVE  Counted(t)'
    <2>1. Counted(t)
      BY <1>1 DEF Counters
    <2>2. OffersTo(t)' = OffersTo(t)
      BY SameOffers
    <2>3. /\ Activated \subseteq Activated /\ Finished \subseteq Activated
          /\ {"NO_SHOW"} \subseteq Activated /\ {"RATED"} \subseteq Activated
      BY DEF Activated, Finished
    <2>4. /\ Mine(t, Activated)' = Mine(t, Activated)
          /\ Mine(t, Finished)' = Mine(t, Finished)
          /\ Mine(t, {"NO_SHOW"})' = Mine(t, {"NO_SHOW"})
          /\ Mine(t, {"RATED"})' = Mine(t, {"RATED"})
      BY <2>3, AlikeSets
    <2>5. QED
      BY <2>1, <2>2, <2>4 DEF Counted, Counts
  <1>2. QED
    BY <1>1 DEF Counters

(* The status of session s moves and its teacher stays; every other row is alike. *)
RowMoves(s, from, to) ==
  /\ session[s].status = from /\ session'[s].status = to
  /\ session'[s].teacher = session[s].teacher
  /\ \A x \in Sessions : x # s => Alike(x)

LEMMA MovedSets ==
  ASSUME NEW s \in Sessions, NEW from, NEW to, RowMoves(s, from, to), NEW t, NEW statuses,
         statuses \subseteq Activated, from \in statuses => to \in statuses
  PROVE  Mine(t, statuses)' =
           IF from \notin statuses /\ to \in statuses /\ session[s].teacher = t
           THEN Mine(t, statuses) \cup {s} ELSE Mine(t, statuses)
  <1>1. ASSUME NEW x \in Sessions, x # s
        PROVE  x \in Mine(t, statuses)' <=> x \in Mine(t, statuses)
    BY <1>1 DEF RowMoves, Alike, Mine
  <1>2. /\ s \in Mine(t, statuses)' <=> (session[s].teacher = t /\ to \in statuses)
        /\ s \in Mine(t, statuses) <=> (session[s].teacher = t /\ from \in statuses)
    BY DEF RowMoves, Mine
  <1>3. Mine(t, statuses) \subseteq Sessions /\ Mine(t, statuses)' \subseteq Sessions
    BY DEF Mine
  <1>4. QED
    BY <1>1, <1>2, <1>3

(* One count of the teacher of s: it moves with the counter or stays with it. *)
LEMMA OneCount ==
  ASSUME NEW s \in Sessions, NEW from, NEW to, RowMoves(s, from, to), NEW t, NEW statuses,
         statuses \subseteq Activated, from \in statuses => to \in statuses,
         NEW n \in Nat, NEW m, Counts(Mine(t, statuses), n),
         m = IF from \notin statuses /\ to \in statuses /\ session[s].teacher = t
             THEN n + 1 ELSE n
  PROVE  Counts(Mine(t, statuses)', m)
  <1>1. CASE from \notin statuses /\ to \in statuses /\ session[s].teacher = t
    <2>1. s \notin Mine(t, statuses)
      BY <1>1 DEF RowMoves, Mine
    <2>2. Counts(Mine(t, statuses) \cup {s}, n + 1)
      BY <2>1, CountsOneMore
    <2>3. Mine(t, statuses)' = Mine(t, statuses) \cup {s} /\ m = n + 1
      BY <1>1, MovedSets
    <2>4. QED
      BY <2>2, <2>3
  <1>2. CASE ~(from \notin statuses /\ to \in statuses /\ session[s].teacher = t)
    <2>1. Mine(t, statuses)' = Mine(t, statuses) /\ m = n
      BY <1>2, MovedSets
    <2>2. QED
      BY <2>1
  <1>3. QED
    BY <1>1, <1>2

(* What the step from one status to the other adds to a counter of teacher t. *)
Added(s, t, from, to, statuses) ==
  IF from \notin statuses /\ to \in statuses /\ session[s].teacher = t THEN 1 ELSE 0

LEMMA CountersMove ==
  ASSUME TypeOK, Counters, NEW s \in Sessions, NEW from, NEW to, RowMoves(s, from, to),
         <<from, to>> \in {<<"OFFER_SENT", "ACTIVE">>, <<"ACTIVE", "ENDED">>,
                           <<"ACTIVE", "NO_SHOW">>, <<"ENDED", "RATED">>},
         AddressesSame, ~stray' => ~stray,
         \A t \in Teachers :
           /\ tally'[t].offersReceived = tally[t].offersReceived
           /\ tally'[t].offersAccepted = tally[t].offersAccepted + Added(s, t, from, to, Activated)
           /\ tally'[t].sessionsCount = tally[t].sessionsCount + Added(s, t, from, to, Finished)
           /\ tally'[t].noShowCount = tally[t].noShowCount + Added(s, t, from, to, {"NO_SHOW"})
           /\ tally'[t].topicSessions = tally[t].topicSessions + Added(s, t, from, to, {"RATED"})
  PROVE  Counters'
  <1>1. ASSUME ~stray', NEW t \in Teachers
        PROVE  Counted(t)'
    <2>1. Counted(t)
      BY <1>1 DEF Counters
    <2>2. OffersTo(t)' = OffersTo(t)
      BY SameOffers
    <2>3. /\ tally[t].offersReceived \in Nat /\ tally[t].offersAccepted \in Nat
          /\ tally[t].sessionsCount \in Nat /\ tally[t].noShowCount \in Nat
          /\ tally[t].topicSessions \in Nat
      BY DEF TypeOK, Tally
    <2>4. ASSUME NEW statuses \in {Activated, Finished, {"NO_SHOW"}, {"RATED"}}, NEW n \in Nat,
                 Counts(Mine(t, statuses), n)
          PROVE  Counts(Mine(t, statuses)', n + Added(s, t, from, to, statuses))
      <3>1. statuses \subseteq Activated /\ (from \in statuses => to \in statuses)
        BY <2>4 DEF Activated, Finished
      <3>2. n + Added(s, t, from, to, statuses) =
              IF from \notin statuses /\ to \in statuses /\ session[s].teacher = t
              THEN n + 1 ELSE n
        BY DEF Added
      <3>3. QED
        BY <2>4, <3>1, <3>2, OneCount
    <2>5. Counts(OffersTo(t)', tally'[t].offersReceived)
      BY <2>1, <2>2 DEF Counted
    <2>6. Counts(Mine(t, Activated)', tally'[t].offersAccepted)
      BY <2>1, <2>3, <2>4 DEF Counted
    <2>7. Counts(Mine(t, Finished)', tally'[t].sessionsCount)
      BY <2>1, <2>3, <2>4 DEF Counted
    <2>8. Counts(Mine(t, {"NO_SHOW"})', tally'[t].noShowCount)
      BY <2>1, <2>3, <2>4 DEF Counted
    <2>9. Counts(Mine(t, {"RATED"})', tally'[t].topicSessions)
      BY <2>1, <2>3, <2>4 DEF Counted
    <2>10. QED
      BY <2>5, <2>6, <2>7, <2>8, <2>9 DEF Counted, Counts
  <1>2. QED
    BY <1>1 DEF Counters

-----------------------------------------------------------------------------
(* The transactions that count.                                                         *)

LEMMA CountsAnOffer ==
  ASSUME TypeOK, Counters, NEW o \in Offers, NEW s, NEW t \in Teachers, NEW at \in Nat, NEW price,
         s \in Sessions, createOffer(o, s, t, at), setSessionOfferSent(s, t, price),
         incrementOffersReceived(t), ~stray' => ~stray
  PROVE  Counters'
  <1>1. /\ session \in [Sessions -> Session] /\ session[s] \in Session
        /\ tally \in [Teachers -> Tally]
        /\ offer \in [Offers -> Offer \cup {Null}]
    BY DEF TypeOK
  <1>2. \A x \in Sessions : Alike(x)
    BY <1>1 DEF setSessionOfferSent, Alike, Activated, Session
  <1>3. /\ ~Exists(o) /\ offer'[o].teacher = t /\ offer'[o] # Null
        /\ \A x \in Offers : x # o => offer'[x] = offer[x]
    <2>1. /\ offer'[o] = [status |-> "PENDING", session |-> s, teacher |-> t, expiresAt |-> at]
          /\ \A x \in Offers : x # o => offer'[x] = offer[x]
      BY <1>1 DEF createOffer
    <2>2. offer'[o] \in Offer
      BY <2>1 DEF Offer, OfferStatus
    <2>3. QED
      BY <2>1, <2>2, NullAssumption DEF createOffer
  <1>4. ASSUME NEW x \in Teachers
        PROVE  OffersTo(x)' = IF x = t THEN OffersTo(x) \cup {o} ELSE OffersTo(x)
    <2>1. \A y \in Offers : y \in OffersTo(x)' <=> y \in OffersTo(x) \/ (y = o /\ x = t)
      BY <1>3 DEF OffersTo
    <2>2. OffersTo(x) \subseteq Offers /\ OffersTo(x)' \subseteq Offers
      BY DEF OffersTo
    <2>3. QED
      BY <2>1, <2>2
  <1>5. ASSUME NEW x \in Teachers
        PROVE  /\ tally'[x].offersReceived = tally[x].offersReceived + (IF x = t THEN 1 ELSE 0)
               /\ tally'[x].offersAccepted = tally[x].offersAccepted
               /\ tally'[x].sessionsCount = tally[x].sessionsCount
               /\ tally'[x].noShowCount = tally[x].noShowCount
               /\ tally'[x].topicSessions = tally[x].topicSessions
    <2>1. tally[x] \in Tally /\ tally[x].offersReceived \in Nat
      BY <1>1 DEF Tally
    <2>2. CASE x = t
      <3>1. tally'[x] = [tally[x] EXCEPT !.offersReceived = tally[x].offersReceived + 1]
        BY <1>1, <2>2 DEF incrementOffersReceived
      <3>2. QED
        BY <2>1, <2>2, <3>1 DEF Tally
    <2>3. CASE x # t
      <3>1. tally'[x] = tally[x]
        BY <1>1, <2>3 DEF incrementOffersReceived
      <3>2. QED
        BY <2>1, <2>3, <3>1
    <2>4. QED
      BY <2>2, <2>3
  <1>6. ASSUME ~stray', NEW x \in Teachers
        PROVE  Counted(x)'
    <2>1. Counted(x)
      BY <1>6 DEF Counters
    <2>2. tally[x].offersReceived \in Nat
      BY <1>1 DEF Tally
    <2>3. Counts(OffersTo(x)', tally'[x].offersReceived)
      <3>1. CASE x = t
        <4>1. o \notin OffersTo(x)
          BY <1>3 DEF OffersTo
        <4>2. Counts(OffersTo(x) \cup {o}, tally[x].offersReceived + 1)
          BY <2>1, <4>1, CountsOneMore DEF Counted
        <4>3. QED
          BY <1>4, <1>5, <3>1, <4>2
      <3>2. CASE x # t
        BY <1>4, <1>5, <2>1, <2>2, <3>2 DEF Counted
      <3>3. QED
        BY <3>1, <3>2
    <2>4. /\ Activated \subseteq Activated /\ Finished \subseteq Activated
          /\ {"NO_SHOW"} \subseteq Activated /\ {"RATED"} \subseteq Activated
      BY DEF Activated, Finished
    <2>5. /\ Mine(x, Activated)' = Mine(x, Activated)
          /\ Mine(x, Finished)' = Mine(x, Finished)
          /\ Mine(x, {"NO_SHOW"})' = Mine(x, {"NO_SHOW"})
          /\ Mine(x, {"RATED"})' = Mine(x, {"RATED"})
      BY <1>2, <2>4, AlikeSets
    <2>6. QED
      BY <1>5, <2>1, <2>3, <2>5 DEF Counted, Counts
  <1>7. QED
    BY <1>6 DEF Counters

LEMMA CountsAnAcceptance ==
  ASSUME TypeOK, Counters, Locks, AcceptedOnce, Holding, NEW h \in Handlers,
         ActivateAcceptedOffer(h)
  PROVE  Counters'
  <1>1. PICK o \in Offers : o = req[h].offer
    BY InHand DEF ActivateAcceptedOffer, Procs
  <1>2. PICK s, t : s = offer[o].session /\ t = offer[o].teacher
    OBVIOUS
  <1>3. /\ markOfferResponded(o, "ACCEPTED") /\ UNCHANGED history
        /\ setTeacherInSession(t)
    BY ZenonT(30), <1>1, <1>2 DEF ActivateAcceptedOffer
  <1>4. \E at, ends, used, charged : setSessionActive(s, at, ends, used, charged)
    BY ZenonT(30), <1>1, <1>2 DEF ActivateAcceptedOffer
  <1>5. /\ session \in [Sessions -> Session] /\ tally \in [Teachers -> Tally]
        /\ offer \in [Offers -> Offer \cup {Null}] /\ offer[o] \in Offer
        /\ s \in Sessions /\ t \in Teachers /\ session[s] \in Session
    BY <1>2, <1>3 DEF TypeOK, markOfferResponded, Offer
  <1>6. AddressesSame
    <2>1. [offer[o] EXCEPT !.status = "ACCEPTED"] \in Offer
      BY <1>5 DEF Offer, OfferStatus
    <2>2. \A x \in Offers : offer'[x] = IF x = o THEN [offer[o] EXCEPT !.status = "ACCEPTED"]
                                                 ELSE offer[x]
      BY <1>3, <1>5 DEF markOfferResponded
    <2>3. offer'[o] # Null /\ Exists(o) /\ offer'[o].teacher = offer[o].teacher
      BY <1>5, <2>1, <2>2, NullAssumption DEF Offer
    <2>4. QED
      BY <2>2, <2>3 DEF AddressesSame
  <1>7. RowMoves(s, "OFFER_SENT", "ACTIVE")
    BY <1>4, <1>5 DEF setSessionActive, RowMoves, Alike, Session
  <1>8. ASSUME ~stray
        PROVE  session[s].teacher = t
    BY <1>2, <1>3, <1>8 DEF Locks, LocksHeld, OpenOffers, Open, markOfferResponded
  <1>9. ASSUME ~stray, NEW x \in Teachers
        PROVE  /\ tally'[x].offersReceived = tally[x].offersReceived
               /\ tally'[x].offersAccepted =
                    tally[x].offersAccepted + Added(s, x, "OFFER_SENT", "ACTIVE", Activated)
               /\ tally'[x].sessionsCount =
                    tally[x].sessionsCount + Added(s, x, "OFFER_SENT", "ACTIVE", Finished)
               /\ tally'[x].noShowCount =
                    tally[x].noShowCount + Added(s, x, "OFFER_SENT", "ACTIVE", {"NO_SHOW"})
               /\ tally'[x].topicSessions =
                    tally[x].topicSessions + Added(s, x, "OFFER_SENT", "ACTIVE", {"RATED"})
    <2>1. tally[x] \in Tally /\ tally[x].offersAccepted \in Nat /\ tally[x].sessionsCount \in Nat
          /\ tally[x].noShowCount \in Nat /\ tally[x].topicSessions \in Nat
      BY <1>5 DEF Tally
    <2>2. /\ Added(s, x, "OFFER_SENT", "ACTIVE", Activated) = IF x = t THEN 1 ELSE 0
          /\ Added(s, x, "OFFER_SENT", "ACTIVE", Finished) = 0
          /\ Added(s, x, "OFFER_SENT", "ACTIVE", {"NO_SHOW"}) = 0
          /\ Added(s, x, "OFFER_SENT", "ACTIVE", {"RATED"}) = 0
      BY <1>8, <1>9 DEF Added, Activated, Finished
    <2>3. CASE x = t
      <3>1. tally'[x] = [tally[x] EXCEPT !.offersAccepted = tally[x].offersAccepted + 1]
        BY <1>3, <1>5, <2>3 DEF setTeacherInSession
      <3>2. /\ tally'[x].offersReceived = tally[x].offersReceived
            /\ tally'[x].offersAccepted = tally[x].offersAccepted + 1
            /\ tally'[x].sessionsCount = tally[x].sessionsCount
            /\ tally'[x].noShowCount = tally[x].noShowCount
            /\ tally'[x].topicSessions = tally[x].topicSessions
        BY <2>1, <3>1 DEF Tally
      <3>3. QED
        BY <2>1, <2>2, <2>3, <3>2
    <2>4. CASE x # t
      <3>1. tally'[x] = tally[x]
        BY <1>3, <1>5, <2>4 DEF setTeacherInSession
      <3>2. QED
        BY <2>1, <2>2, <2>4, <3>1
    <2>5. QED
      BY <2>3, <2>4
  <1>10. CASE stray
    BY <1>3, <1>10 DEF Counters, history
  <1>11. CASE ~stray
    <2>1. <<"OFFER_SENT", "ACTIVE">> \in {<<"OFFER_SENT", "ACTIVE">>, <<"ACTIVE", "ENDED">>,
                                         <<"ACTIVE", "NO_SHOW">>, <<"ENDED", "RATED">>}
      OBVIOUS
    <2>2. QED
      BY <1>5, <1>6, <1>7, <1>9, <1>11, <2>1, CountersMove
  <1>12. QED
    BY <1>10, <1>11

LEMMA CountsAnEnding ==
  ASSUME TypeOK, Counters, NEW s \in Sessions, NEW reason, NEW fee, NEW earning,
         NEW status \in {"ENDED", "NO_SHOW"}, NEW ended, NEW noShow,
         ended = IF status = "ENDED" THEN 1 ELSE 0,
         noShow = IF status = "NO_SHOW" THEN 1 ELSE 0,
         endSession(s, status, reason, fee, earning),
         releaseTeacherAfterSession(session[s].teacher, ended, noShow),
         UNCHANGED offer, ~stray' => ~stray
  PROVE  Counters'
  <1>1. /\ session \in [Sessions -> Session] /\ tally \in [Teachers -> Tally]
        /\ session[s] \in Session
    BY DEF TypeOK
  <1>2. AddressesSame
    BY DEF AddressesSame
  <1>3. session' = [session EXCEPT ![s] = [session[s] EXCEPT !.status = status,
                      !.endReason = reason, !.fee = fee, !.earning = earning]]
    BY DEF endSession
  <1>4. RowMoves(s, "ACTIVE", status)
    BY <1>1, <1>3 DEF endSession, RowMoves, Alike, Session
  <1>5. ASSUME NEW x \in Teachers
        PROVE  /\ tally'[x].offersReceived = tally[x].offersReceived
               /\ tally'[x].offersAccepted =
                    tally[x].offersAccepted + Added(s, x, "ACTIVE", status, Activated)
               /\ tally'[x].sessionsCount =
                    tally[x].sessionsCount + Added(s, x, "ACTIVE", status, Finished)
               /\ tally'[x].noShowCount =
                    tally[x].noShowCount + Added(s, x, "ACTIVE", status, {"NO_SHOW"})
               /\ tally'[x].topicSessions =
                    tally[x].topicSessions + Added(s, x, "ACTIVE", status, {"RATED"})
    <2>1. tally[x] \in Tally /\ tally[x].offersAccepted \in Nat /\ tally[x].sessionsCount \in Nat
          /\ tally[x].noShowCount \in Nat /\ tally[x].topicSessions \in Nat
      BY <1>1 DEF Tally
    <2>2. /\ Added(s, x, "ACTIVE", status, Activated) = 0
          /\ Added(s, x, "ACTIVE", status, Finished) = IF x = session[s].teacher THEN ended ELSE 0
          /\ Added(s, x, "ACTIVE", status, {"NO_SHOW"})
               = IF x = session[s].teacher THEN noShow ELSE 0
          /\ Added(s, x, "ACTIVE", status, {"RATED"}) = 0
      BY DEF Added, Activated, Finished
    <2>3. CASE x = session[s].teacher
      <3>1. tally'[x] = [tally[x] EXCEPT !.sessionsCount = tally[x].sessionsCount + ended,
                                         !.noShowCount = tally[x].noShowCount + noShow]
        BY <1>1, <2>3 DEF releaseTeacherAfterSession
      <3>2. /\ tally'[x].offersReceived = tally[x].offersReceived
            /\ tally'[x].offersAccepted = tally[x].offersAccepted
            /\ tally'[x].sessionsCount = tally[x].sessionsCount + ended
            /\ tally'[x].noShowCount = tally[x].noShowCount + noShow
            /\ tally'[x].topicSessions = tally[x].topicSessions
        BY <2>1, <3>1 DEF Tally
      <3>3. QED
        BY <2>1, <2>2, <2>3, <3>2
    <2>4. CASE x # session[s].teacher
      <3>1. tally'[x] = tally[x]
        BY <1>1, <2>4 DEF releaseTeacherAfterSession
      <3>2. QED
        BY <2>1, <2>2, <2>4, <3>1
    <2>5. QED
      BY <2>3, <2>4
  <1>6. <<"ACTIVE", status>> \in {<<"OFFER_SENT", "ACTIVE">>, <<"ACTIVE", "ENDED">>,
                                 <<"ACTIVE", "NO_SHOW">>, <<"ENDED", "RATED">>}
    OBVIOUS
  <1>7. QED
    BY <1>2, <1>4, <1>5, <1>6, CountersMove

LEMMA CountsAReview ==
  ASSUME TypeOK, Counters, NEW s \in Sessions, NEW stars, SubmitReview(s, stars)
  PROVE  Counters'
  <1>1. /\ session \in [Sessions -> Session] /\ tally \in [Teachers -> Tally]
        /\ session[s] \in Session
    BY DEF TypeOK
  <1>2. AddressesSame /\ (~stray' => ~stray) /\ setSessionRated(s)
    BY DEF AddressesSame, SubmitReview, history
  <1>3. RowMoves(s, "ENDED", "RATED")
    BY <1>1, <1>2 DEF setSessionRated, RowMoves, Alike, Session
  <1>4. PICK rated \in Nat : rated = IF stars = "stars" THEN 1 ELSE 0
    OBVIOUS
  <1>5. tally' = [tally EXCEPT ![session[s].teacher] =
          [tally[session[s].teacher] EXCEPT !.ratingCount = @ + rated, !.topicSessions = @ + 1]]
    BY <1>4 DEF SubmitReview
  <1>6. ASSUME NEW x \in Teachers
        PROVE  /\ tally'[x].offersReceived = tally[x].offersReceived
               /\ tally'[x].offersAccepted =
                    tally[x].offersAccepted + Added(s, x, "ENDED", "RATED", Activated)
               /\ tally'[x].sessionsCount =
                    tally[x].sessionsCount + Added(s, x, "ENDED", "RATED", Finished)
               /\ tally'[x].noShowCount =
                    tally[x].noShowCount + Added(s, x, "ENDED", "RATED", {"NO_SHOW"})
               /\ tally'[x].topicSessions =
                    tally[x].topicSessions + Added(s, x, "ENDED", "RATED", {"RATED"})
    <2>1. tally[x] \in Tally /\ tally[x].offersAccepted \in Nat /\ tally[x].sessionsCount \in Nat
          /\ tally[x].noShowCount \in Nat /\ tally[x].topicSessions \in Nat
      BY <1>1 DEF Tally
    <2>2. /\ Added(s, x, "ENDED", "RATED", Activated) = 0
          /\ Added(s, x, "ENDED", "RATED", Finished) = 0
          /\ Added(s, x, "ENDED", "RATED", {"NO_SHOW"}) = 0
          /\ Added(s, x, "ENDED", "RATED", {"RATED"}) = IF x = session[s].teacher THEN 1 ELSE 0
      BY DEF Added, Activated, Finished
    <2>3. CASE x = session[s].teacher
      <3>1. tally'[x] = [tally[x] EXCEPT !.ratingCount = tally[x].ratingCount + rated,
                                         !.topicSessions = tally[x].topicSessions + 1]
        BY <1>1, <1>5, <2>3
      <3>2. /\ tally'[x].offersReceived = tally[x].offersReceived
            /\ tally'[x].offersAccepted = tally[x].offersAccepted
            /\ tally'[x].sessionsCount = tally[x].sessionsCount
            /\ tally'[x].noShowCount = tally[x].noShowCount
            /\ tally'[x].topicSessions = tally[x].topicSessions + 1
        BY <2>1, <3>1 DEF Tally
      <3>3. QED
        BY <2>1, <2>2, <2>3, <3>2
    <2>4. CASE x # session[s].teacher
      <3>1. tally'[x] = tally[x]
        BY <1>1, <1>5, <2>4
      <3>2. QED
        BY <2>1, <2>2, <2>4, <3>1
    <2>5. QED
      BY <2>3, <2>4
  <1>7. QED
    BY <1>2, <1>3, <1>6, CountersMove

-----------------------------------------------------------------------------
(* The transactions that count nothing.                                                 *)

Uncounted ==
  /\ UNCHANGED tally
  /\ ~stray' => ~stray
  /\ AddressesSame
  /\ \/ UNCHANGED session
     \/ \E s : \/ setSessionPending(s)
               \/ setSessionVideoRoom(s)
               \/ \E e, ends, used, charged : extendSession(s, e, ends, used, charged)

LEMMA UncountedStay ==
  ASSUME TypeOK, Counters, Uncounted
  PROVE  Counters'
  <1>1. session \in [Sessions -> Session]
    BY DEF TypeOK
  <1>2. ASSUME NEW x \in Sessions
        PROVE  Alike(x)
    <2>1. session[x] \in Session
      BY <1>1
    <2>2. ASSUME NEW s, setSessionPending(s)
          PROVE  Alike(x)
      BY <1>1, <2>1, <2>2 DEF setSessionPending, Alike, Activated, Session
    <2>3. ASSUME NEW s, setSessionVideoRoom(s)
          PROVE  Alike(x)
      BY <1>1, <2>1, <2>3 DEF setSessionVideoRoom, Alike, Session
    <2>4. ASSUME NEW s, NEW e, NEW ends, NEW used, NEW charged,
                 extendSession(s, e, ends, used, charged)
          PROVE  Alike(x)
      BY <1>1, <2>1, <2>4 DEF extendSession, Alike, Session
    <2>5. QED
      BY <2>2, <2>3, <2>4 DEF Uncounted, Alike
  <1>3. QED
    BY <1>2, CountersStay DEF Uncounted

LEMMA SameAddresses ==
  ASSUME TypeOK
  PROVE  /\ UNCHANGED offer => AddressesSame
         /\ \A o \in Offers, status \in OfferStatus : markOfferResponded(o, status) => AddressesSame
  <1>1. UNCHANGED offer => AddressesSame
    BY DEF AddressesSame
  <1>2. ASSUME NEW o \in Offers, NEW status \in OfferStatus, markOfferResponded(o, status)
        PROVE  AddressesSame
    <2>1. offer[o] \in Offer /\ offer \in [Offers -> Offer \cup {Null}]
      BY <1>2 DEF TypeOK, markOfferResponded
    <2>2. [offer[o] EXCEPT !.status = status] \in Offer
      BY <2>1 DEF Offer
    <2>3. \A x \in Offers : offer'[x] = IF x = o THEN [offer[o] EXCEPT !.status = status]
                                                 ELSE offer[x]
      BY <1>2, <2>1 DEF markOfferResponded
    <2>4. offer'[o] # Null /\ Exists(o) /\ offer'[o].teacher = offer[o].teacher
      BY <2>1, <2>2, <2>3, NullAssumption DEF Offer
    <2>5. QED
      BY <2>3, <2>4 DEF AddressesSame
  <1>3. QED
    BY <1>1, <1>2

LEMMA CounterSteps ==
  ASSUME TypeOK, Holding, Locks, AcceptedOnce, Counters, [Next]_vars
  PROVE  Counters'
  <1> USE DEF tables, profiles, money, history
  <1>1. CASE OfferNext
    <2>1. ASSUME NEW h \in Handlers, NEW o \in Offers, SendOffer(h, o)
          PROVE  Counters'
      <3>1. PICK s \in Sessions, t \in Teachers, n \in Nat :
              s = req[h].session /\ t = req[h].teacher /\ n = req[h].at
        BY <2>1, InHand DEF SendOffer, Procs
      <3>2. n + OfferTtl \in Nat
        BY ClockAssumption
      <3>3. /\ createOffer(o, s, t, n + OfferTtl) /\ setSessionOfferSent(s, t, Price[t])
            /\ incrementOffersReceived(t) /\ UNCHANGED history
        BY <2>1, <3>1 DEF SendOffer
      <3>4. QED
        BY <3>2, <3>3, CountsAnOffer
    <2>2. ASSUME NEW h \in Handlers, RejectOffer(h) \/ SweepExpiredOffer(h)
          PROVE  Uncounted
      <3>1. req[h].offer \in Offers
        BY <2>2, InHand DEF RejectOffer, SweepExpiredOffer, Procs
      <3>2. /\ \E status \in OfferStatus : markOfferResponded(req[h].offer, status)
            /\ \E s : setSessionPending(s)
            /\ UNCHANGED <<tally, history>>
        BY <2>2 DEF RejectOffer, SweepExpiredOffer, OfferStatus
      <3>3. QED
        BY <3>1, <3>2, SameAddresses DEF Uncounted
    <2>3. ASSUME NEW p \in Procs, ExpireOffers(p)
          PROVE  Uncounted
      <3>1. AddressesSame
        BY <2>3, ExpiryHolds DEF AddressesSame
      <3>2. QED
        BY <2>3, <3>1 DEF ExpireOffers, Uncounted
    <2>4. ASSUME NEW p \in Procs, NEW o \in Offers, SettleExpiredOffer(p, o)
          PROVE  Uncounted
      BY <2>4, SameAddresses DEF SettleExpiredOffer, Uncounted
    <2>5. ASSUME NEW p \in Procs,
                 \/ BeginExpiry(p) \/ RereadExpired(p) \/ \E o \in Offers : SettleFails(p, o)
          PROVE  Uncounted
      <3>1. UNCHANGED <<tally, session, offer>>
        BY <2>5 DEF BeginExpiry, RereadExpired, SettleFails
      <3>2. ~stray' => ~stray
        BY Zenon, <2>5 DEF BeginExpiry, RereadExpired, SettleFails
      <3>3. QED
        BY <3>1, <3>2, SameAddresses DEF Uncounted
    <2>6. ASSUME NEW h \in Handlers,
                 \/ \E s \in Sessions, t \in Teachers : BeginSendOffer(h, s, t)
                 \/ \E o \in Offers : BeginAccept(h, o) \/ BeginReject(h, o)
          PROVE  Uncounted
      BY <2>6, SameAddresses DEF BeginSendOffer, BeginAccept, BeginReject, Uncounted
    <2>7. QED
      BY <1>1, <2>1, <2>2, <2>3, <2>4, <2>5, <2>6, CountsAnAcceptance, UncountedStay DEF OfferNext
  <1>2. CASE SessionNext
    <2>1. ASSUME NEW s \in Sessions, NEW reason, NEW actor, NEW at,
                 terminateSession(s, reason, actor, at)
          PROVE  Counters'
      <3>1. /\ \E why, fee, earning : endSession(s, "ENDED", why, fee, earning)
            /\ releaseTeacherAfterSession(session[s].teacher, 1, 0)
            /\ UNCHANGED <<offer, history>>
        BY <2>1 DEF terminateSession
      <3>2. QED
        BY <3>1, CountsAnEnding
    <2>2. ASSUME NEW s \in Sessions, NEW at,
                 (\E actor : EndSession(s, actor, at)) \/ AutoEnd(s)
          PROVE  Counters'
      BY <2>1, <2>2 DEF EndSession, AutoEnd
    <2>3. ASSUME NEW s \in Sessions, NEW at, ReportNoShow(s, at)
          PROVE  Counters'
      <3>1. /\ endSession(s, "NO_SHOW", "teacher_no_show", 0, 0)
            /\ releaseTeacherAfterSession(session[s].teacher, 0, 1)
            /\ UNCHANGED <<offer, history>>
        BY <2>3 DEF ReportNoShow
      <3>2. QED
        BY <3>1, CountsAnEnding
    <2>4. ASSUME NEW s \in Sessions, NEW stars, SubmitReview(s, stars)
          PROVE  Counters'
      BY <2>4, CountsAReview
    <2>5. ASSUME NEW h \in Handlers, ExtendSessionBlock(h) \/ AttachSessionVideo(h)
          PROVE  Uncounted
      BY <2>5, SameAddresses DEF ExtendSessionBlock, AttachSessionVideo, Uncounted
    <2>6. ASSUME NEW s \in Sessions,
                 \/ \E h \in Handlers : BeginExtend(h, s) \/ BeginRepairVideo(h, s)
                 \/ AutoEndTooLate(s) \/ AutoEndFails(s)
          PROVE  Uncounted
      BY <2>6, SameAddresses DEF BeginExtend, BeginRepairVideo, AutoEndTooLate, AutoEndFails,
                                 Uncounted
    <2>7. ASSUME FindDueForAutoEnd \/ \E u, amount : TopUp(u, amount)
          PROVE  Uncounted
      BY <2>7, SameAddresses DEF FindDueForAutoEnd, TopUp, Uncounted
    <2>8. QED
      BY <1>2, <2>2, <2>3, <2>4, <2>5, <2>6, <2>7, UncountedStay DEF SessionNext
  <1>3. CASE TeacherNext
    <2>1. Uncounted
      BY <1>3, SameAddresses DEF TeacherNext, BeginUpdateStatus, UpdateTeacherProfile,
                                 TakeTeacherOffline, Uncounted
    <2>2. QED
      BY <2>1, UncountedStay
  <1>4. CASE Restart \/ Tick \/ UNCHANGED vars \/ \E h \in Handlers : Fail(h)
    <2>1. Uncounted
      BY <1>4, SameAddresses DEF Restart, Tick, Fail, vars, Uncounted
    <2>2. QED
      BY <2>1, UncountedStay
  <1>5. QED
    BY <1>1, <1>2, <1>3, <1>4 DEF Next

-----------------------------------------------------------------------------
(* The reviews that carry stars.  A lesson that has one is RATED, so that its row names *)
(* its teacher for good.                                                                *)
Starred(t) == {s \in Sessions : session[s].teacher = t /\ review[s] = "stars"}

Ratings ==
  /\ \A s \in Sessions : review[s] # "none" => session[s].status = "RATED"
  /\ \A t \in Teachers : Counts(Starred(t), tally[t].ratingCount)

SameRatings == \A t \in Teachers : tally'[t].ratingCount = tally[t].ratingCount

SameRated ==
  \A s \in Sessions : session[s].status = "RATED" =>
    session'[s].status = "RATED" /\ session'[s].teacher = session[s].teacher

Unrating == UNCHANGED review /\ SameRatings /\ SameRated

LEMMA RatingsStay ==
  ASSUME Ratings, Unrating
  PROVE  Ratings'
  <1>1. ASSUME NEW t \in Teachers
        PROVE  Starred(t)' = Starred(t)
    <2>1. ASSUME NEW s \in Sessions, review[s] = "stars"
          PROVE  session'[s].teacher = session[s].teacher
      BY <2>1 DEF Ratings, Unrating, SameRated
    <2>2. QED
      BY <2>1 DEF Unrating, Starred
  <1>2. \A s \in Sessions : review'[s] # "none" => session'[s].status = "RATED"
    BY DEF Ratings, Unrating, SameRated
  <1>3. QED
    BY <1>1, <1>2 DEF Ratings, Unrating, SameRatings, Counts

(* A review: one more row, one more in the count, if it has stars.                      *)
LEMMA RatingsGrow ==
  ASSUME TypeOK, Ratings, NEW s \in Sessions, NEW stars, SubmitReview(s, stars)
  PROVE  Ratings'
  <1>1. /\ session \in [Sessions -> Session] /\ tally \in [Teachers -> Tally]
        /\ session[s] \in Session /\ DOMAIN review = Sessions
    BY DEF TypeOK
  <1>2. /\ review' = [review EXCEPT ![s] = stars] /\ review[s] = "none"
        /\ setSessionRated(s)
    BY DEF SubmitReview
  <1>3. session'[s].status = "RATED" /\ \A x \in Sessions : session'[x].teacher = session[x].teacher
    BY <1>1, <1>2 DEF setSessionRated, Session
  <1>4. \A x \in Sessions : x # s => session'[x] = session[x] /\ review'[x] = review[x]
    BY <1>1, <1>2 DEF setSessionRated
  <1>5. PICK more \in Nat : more = IF stars = "stars" THEN 1 ELSE 0
    OBVIOUS
  <1>6. tally' = [tally EXCEPT ![session[s].teacher] =
          [tally[session[s].teacher] EXCEPT !.ratingCount = @ + more, !.topicSessions = @ + 1]]
    BY <1>5 DEF SubmitReview
  <1>7. ASSUME NEW t \in Teachers
        PROVE  Counts(Starred(t)', tally'[t].ratingCount)
    <2>1. tally[t] \in Tally /\ tally[t].ratingCount \in Nat /\ Counts(Starred(t), tally[t].ratingCount)
      BY <1>1 DEF Ratings, Tally
    <2>2. review'[s] = stars /\ s \notin Starred(t)
      BY <1>1, <1>2 DEF Starred
    <2>3. Starred(t)' = IF t = session[s].teacher /\ stars = "stars" THEN Starred(t) \cup {s}
                                                                     ELSE Starred(t)
      <3>1. \A x \in Sessions : x # s => (x \in Starred(t)' <=> x \in Starred(t))
        BY <1>4 DEF Starred
      <3>2. s \in Starred(t)' <=> t = session[s].teacher /\ stars = "stars"
        BY <1>3, <2>2 DEF Starred
      <3>3. Starred(t)' \subseteq Sessions /\ Starred(t) \subseteq Sessions
        BY DEF Starred
      <3>4. QED
        BY <2>2, <3>1, <3>2, <3>3
    <2>4. CASE t = session[s].teacher
      <3>1. tally'[t] = [tally[t] EXCEPT !.ratingCount = tally[t].ratingCount + more,
                                         !.topicSessions = tally[t].topicSessions + 1]
        BY <1>1, <1>6, <2>4
      <3>2. tally'[t].ratingCount = tally[t].ratingCount + more
        BY <2>1, <3>1 DEF Tally
      <3>3. CASE stars = "stars"
        BY <1>5, <2>1, <2>2, <2>3, <2>4, <3>2, <3>3, CountsOneMore
      <3>4. CASE stars # "stars"
        BY <1>5, <2>1, <2>3, <3>2, <3>4
      <3>5. QED
        BY <3>3, <3>4
    <2>5. CASE t # session[s].teacher
      <3>1. tally'[t] = tally[t]
        BY <1>1, <1>6, <2>5
      <3>2. QED
        BY <2>1, <2>3, <2>5, <3>1
    <2>6. QED
      BY <2>4, <2>5
  <1>8. \A x \in Sessions : review'[x] # "none" => session'[x].status = "RATED"
    BY <1>3, <1>4 DEF Ratings
  <1>9. QED
    BY <1>7, <1>8 DEF Ratings

(* No other write to a session or to the counters concerns them.                        *)
LEMMA UnratedRows ==
  ASSUME TypeOK
  PROVE  /\ UNCHANGED session => SameRated
         /\ \A s, t, n : setSessionOfferSent(s, t, n) => SameRated
         /\ \A s : setSessionPending(s) => SameRated
         /\ \A s, at, ends, used, n : setSessionActive(s, at, ends, used, n) => SameRated
         /\ \A s, e, ends, used, n : extendSession(s, e, ends, used, n) => SameRated
         /\ \A s, status, reason, fee, n : endSession(s, status, reason, fee, n) => SameRated
         /\ \A s : setSessionVideoRoom(s) => SameRated
  <1>1. /\ session \in [Sessions -> Session]
        /\ \A x \in Sessions : session[x] \in Session
    BY DEF TypeOK
  <1> USE <1>1 DEF SameRated, Session
  <1>2. \A s, t, n : setSessionOfferSent(s, t, n) => SameRated
    BY DEF setSessionOfferSent
  <1>3. \A s : setSessionPending(s) => SameRated
    BY DEF setSessionPending
  <1>4. \A s, at, ends, used, n : setSessionActive(s, at, ends, used, n) => SameRated
    BY DEF setSessionActive
  <1>5. \A s, e, ends, used, n : extendSession(s, e, ends, used, n) => SameRated
    BY DEF extendSession
  <1>6. \A s, status, reason, fee, n : endSession(s, status, reason, fee, n) => SameRated
    BY DEF endSession
  <1>7. \A s : setSessionVideoRoom(s) => SameRated
    BY DEF setSessionVideoRoom
  <1>8. QED
    BY <1>2, <1>3, <1>4, <1>5, <1>6, <1>7

LEMMA UnratedCounts ==
  ASSUME TypeOK
  PROVE  /\ UNCHANGED tally => SameRatings
         /\ \A t : incrementOffersReceived(t) => SameRatings
         /\ \A t : setTeacherInSession(t) => SameRatings
         /\ \A t, ended, noShow : releaseTeacherAfterSession(t, ended, noShow) => SameRatings
  <1>1. /\ tally \in [Teachers -> Tally]
        /\ \A x \in Teachers : tally[x] \in Tally
    BY DEF TypeOK
  <1>2. \A t : incrementOffersReceived(t) => SameRatings
    BY <1>1 DEF incrementOffersReceived, SameRatings, Tally
  <1>3. \A t : setTeacherInSession(t) => SameRatings
    BY <1>1 DEF setTeacherInSession, SameRatings, Tally
  <1>4. \A t, ended, noShow : releaseTeacherAfterSession(t, ended, noShow) => SameRatings
    BY <1>1 DEF releaseTeacherAfterSession, SameRatings, Tally
  <1>5. QED
    BY <1>2, <1>3, <1>4 DEF SameRatings

LEMMA RatingSteps ==
  ASSUME TypeOK, Holding, Ratings, [Next]_vars
  PROVE  Ratings'
  <1> USE DEF tables, profiles, history
  <1>1. ASSUME OfferNext
        PROVE  Unrating
    <2>1. ASSUME NEW h \in Handlers, NEW o \in Offers, SendOffer(h, o)
          PROVE  Unrating
      <3>1. req[h].session \in Sessions
        BY <2>1, InHand DEF SendOffer, Procs
      <3>2. QED
        BY <2>1, <3>1, UnratedRows, UnratedCounts DEF SendOffer, Unrating
    <2>2. ASSUME NEW h \in Handlers, ActivateAcceptedOffer(h)
          PROVE  Unrating
      BY <2>2, UnratedRows, UnratedCounts DEF ActivateAcceptedOffer, Unrating
    <2>3. ASSUME NEW h \in Handlers, RejectOffer(h) \/ SweepExpiredOffer(h)
          PROVE  Unrating
      BY <2>3, UnratedRows, UnratedCounts DEF RejectOffer, SweepExpiredOffer, Unrating
    <2>4. ASSUME NEW p \in Procs, NEW o \in Offers, SettleExpiredOffer(p, o)
          PROVE  Unrating
      BY <2>4, UnratedRows, UnratedCounts DEF SettleExpiredOffer, Unrating
    <2>5. ASSUME UNCHANGED <<session, tally, review>>
          PROVE  Unrating
      BY <2>5, UnratedRows, UnratedCounts DEF Unrating
    <2>6. ASSUME NEW p \in Procs,
                 \/ BeginExpiry(p) \/ ExpireOffers(p) \/ RereadExpired(p)
                 \/ \E o \in Offers : SettleFails(p, o)
          PROVE  Unrating
      BY <2>5, <2>6 DEF BeginExpiry, ExpireOffers, RereadExpired, SettleFails
    <2>7. ASSUME NEW h \in Handlers,
                 \/ \E s \in Sessions, t \in Teachers : BeginSendOffer(h, s, t)
                 \/ \E o \in Offers : BeginAccept(h, o) \/ BeginReject(h, o)
          PROVE  Unrating
      BY <2>5, <2>7 DEF BeginSendOffer, BeginAccept, BeginReject
    <2>8. QED
      BY <1>1, <2>1, <2>2, <2>3, <2>4, <2>6, <2>7 DEF OfferNext
  <1>2. ASSUME SessionNext, \A s \in Sessions : \A stars : ~SubmitReview(s, stars)
        PROVE  Unrating
    <2>1. ASSUME NEW s \in Sessions, NEW reason, NEW actor, NEW at,
                 terminateSession(s, reason, actor, at)
          PROVE  Unrating
      <3>1. /\ \E why, fee, earning : endSession(s, "ENDED", why, fee, earning)
            /\ \E t : releaseTeacherAfterSession(t, 1, 0)
            /\ UNCHANGED review
        BY <2>1 DEF terminateSession
      <3>2. QED
        BY <3>1, UnratedRows, UnratedCounts DEF Unrating
    <2>2. ASSUME NEW s \in Sessions, NEW at,
                 (\E actor : EndSession(s, actor, at)) \/ AutoEnd(s)
          PROVE  Unrating
      BY <2>1, <2>2 DEF EndSession, AutoEnd
    <2>3. ASSUME NEW s \in Sessions, NEW at, ReportNoShow(s, at)
          PROVE  Unrating
      BY <2>3, UnratedRows, UnratedCounts DEF ReportNoShow, Unrating
    <2>4. ASSUME NEW h \in Handlers, ExtendSessionBlock(h) \/ AttachSessionVideo(h)
          PROVE  Unrating
      BY <2>4, UnratedRows, UnratedCounts DEF ExtendSessionBlock, AttachSessionVideo, Unrating
    <2>5. ASSUME NEW s \in Sessions,
                 \/ \E h \in Handlers : BeginExtend(h, s) \/ BeginRepairVideo(h, s)
                 \/ AutoEndTooLate(s) \/ AutoEndFails(s)
          PROVE  Unrating
      BY <2>5, UnratedRows, UnratedCounts DEF BeginExtend, BeginRepairVideo, AutoEndTooLate,
                                              AutoEndFails, Unrating
    <2>6. ASSUME FindDueForAutoEnd \/ \E u, amount : TopUp(u, amount)
          PROVE  Unrating
      BY <2>6, UnratedRows, UnratedCounts DEF FindDueForAutoEnd, TopUp, Unrating
    <2>7. QED
      BY <1>2, <2>2, <2>3, <2>4, <2>5, <2>6 DEF SessionNext
  <1>3. ASSUME TeacherNext
        PROVE  Unrating
    BY <1>3, UnratedRows, UnratedCounts DEF TeacherNext, BeginUpdateStatus, UpdateTeacherProfile,
                                            TakeTeacherOffline, Unrating
  <1>4. ASSUME Restart \/ Tick \/ UNCHANGED vars \/ \E h \in Handlers : Fail(h)
        PROVE  Unrating
    BY <1>4, UnratedRows, UnratedCounts DEF Restart, Tick, Fail, vars, Unrating
  <1>5. QED
    BY <1>1, <1>2, <1>3, <1>4, RatingsStay, RatingsGrow DEF Next

LEMMA RatingsAreCounted == Spec => [](Ratings /\ RatingsMatch)
  <1>1. Init => Ratings
    <2>1. ASSUME Init, NEW t \in Teachers
          PROVE  Counts(Starred(t), tally[t].ratingCount)
      <3>1. Starred(t) = {} /\ tally[t].ratingCount = 0
        BY <2>1 DEF Init, TablesInit, Starred
      <3>2. QED
        BY <3>1, FS_EmptySet DEF Counts
    <2>2. QED
      BY <2>1 DEF Init, TablesInit, Ratings
  <1>2. TypeOK /\ Holding /\ Ratings /\ [Next]_vars => Ratings'
    BY RatingSteps
  <1>3. Ratings => RatingsMatch
    BY DEF Ratings, Counts, Starred, RatingsMatch
  <1>4. QED
    BY <1>1, <1>2, <1>3, LocksInvariant, PTL DEF Spec

-----------------------------------------------------------------------------
(* The counters the ranking and the profile read are the rows they count, as long as no *)
(* sweep took over an offer it had not expired.                                         *)
THEOREM CountersAreTheRows == Spec => []CountersMatch
  <1>1. Init => Counters
    <2>1. ASSUME Init, NEW t \in Teachers
          PROVE  Counted(t)
      <3>1. /\ OffersTo(t) = {}
            /\ Mine(t, Activated) = {} /\ Mine(t, Finished) = {}
            /\ Mine(t, {"NO_SHOW"}) = {} /\ Mine(t, {"RATED"}) = {}
        BY <2>1 DEF Init, TablesInit, newSession, OffersTo, Mine, Activated, Finished
      <3>2. /\ tally[t].offersReceived = 0 /\ tally[t].offersAccepted = 0
            /\ tally[t].sessionsCount = 0 /\ tally[t].noShowCount = 0
            /\ tally[t].topicSessions = 0
        BY <2>1 DEF Init, TablesInit
      <3>3. QED
        BY <3>1, <3>2, FS_EmptySet DEF Counted, Counts
    <2>2. QED
      BY <2>1 DEF Counters
  <1>2. TypeOK /\ Holding /\ Locks /\ AcceptedOnce /\ Counters /\ [Next]_vars => Counters'
    BY CounterSteps
  <1>3. Counters /\ RejectionsRemembered /\ RatingsMatch => CountersMatch
    BY DEF Counters, Counted, Counts, Mine, Finished, CountersMatch
  <1>4. QED
    BY <1>1, <1>2, <1>3, LocksInvariant, AcceptsOnce, RejectionsAreRemembered, RatingsAreCounted,
       PTL DEF Spec

-----------------------------------------------------------------------------
(* What reconcile.mjs asks.                                                             *)

(* Before a session starts nothing is charged and there are no blocks; after, MeterPaid *)
(* has their sum.                                                                       *)
LEMMA ChargesAreRight ==
  ASSUME TypeOK, Metered, MeterPaid, Unsettled
  PROVE  wrongCharges = {}
  <1>1. ASSUME NEW s \in Sessions, session[s].status \notin Activated
        PROVE  session[s].totalCharged = SumFunction(Amounts(s))
    <2>1. blocks[s] = <<>> /\ session[s].totalCharged = 0
      BY <1>1 DEF Metered, MeteredSession, Unsettled
    <2>2. DOMAIN Amounts(s) = {}
      BY <2>1 DEF Amounts
    <2>3. SumFunction(Amounts(s)) = SumFunctionOnSet(Amounts(s), {})
      BY <2>2 DEF SumFunction
    <2>4. QED
      BY <2>1, <2>3, SumOfNone
  <1>2. QED
    BY <1>1 DEF MeterPaid, wrongCharges

LEMMA SplitsAndLedgersAreRight ==
  ASSUME TypeOK, SessionReconciles
  PROVE  wrongSplits = {} /\ wrongLedgers = {}
  <1>1. ASSUME NEW s \in Sessions
        PROVE  s \notin wrongSplits /\ s \notin wrongLedgers
    <2>1. session[s] \in Session /\ ledger[s] \in Ledger
      BY DEF TypeOK
    <2>2. /\ session[s].fee \in Nat /\ session[s].earning \in Nat
          /\ session[s].totalCharged \in Nat
          /\ ledger[s].refund \in Nat /\ ledger[s].charge \in Nat
      BY <2>1 DEF Session, Ledger
    <2>3. /\ ledger[s].charge = session[s].totalCharged
          /\ ledger[s].earning = session[s].earning
          /\ session[s].status \in Closed =>
               ledger[s].refund + session[s].fee + session[s].earning = ledger[s].charge
          /\ ledger[s].refund > 0 => session[s].fee = 0 /\ session[s].earning = 0
          /\ session[s].status = "NO_SHOW" => ledger[s].refund = ledger[s].charge
      BY DEF SessionReconciles
    <2>4. s \notin wrongSplits
      BY <2>2, <2>3 DEF wrongSplits, NoSplit, Over, Closed
    <2>5. s \notin wrongLedgers
      BY <2>2, <2>3 DEF wrongLedgers, NoSplit, Over, Closed
    <2>6. QED
      BY <2>4, <2>5
  <1>2. QED
    BY <1>1 DEF wrongSplits, wrongLedgers

LEMMA WalletsAreRight ==
  ASSUME WalletsAreLedgers
  PROVE  wrongWallets = {}
  BY PartiesAssumption DEF WalletsAreLedgers, wrongWallets, ledgerOf, Users

(* Whenever reconcile.mjs asks one of its queries, also while the marketplace runs, it  *)
(* gets no row, and no credit is made or lost: for every instance, every interleaving,  *)
(* failure and restart.  Only the teachers' query needs that no sweep strayed.          *)
THEOREM TheBooksBalance == Spec => []BooksBalance
  <1>1. Seated => leftInSession = {}
    BY DEF Seated, Runs, leftInSession, With
  <1>2. TypeOK /\ Metered /\ MeterPaid /\ SessionReconciles /\ Unsettled /\ WalletsAreLedgers
          /\ NoCreditIsLost /\ (~stray => Seated) => BooksBalance
    BY <1>1, ChargesAreRight, SplitsAndLedgersAreRight, WalletsAreRight DEF BooksBalance
  <1>3. QED
    BY <1>2, TypeInvariant, SessionsAreMetered, TheMeterIsPaid, ReconcilesAndUnsettled,
       WalletsAreTheirLedgers, CreditsAreConserved, NobodyIsLeftInSession, PTL
=============================================================================
