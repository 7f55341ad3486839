----------------------------- MODULE LockProofs -----------------------------
(***************************************************************************)
(* Offers, locks and sessions in step, for every number of students,       *)
(* teachers, handlers and sweeps.  Holding says who has still to settle an *)
(* offer it expired; Locks ties every open offer to the session that waits *)
(* for it and the teacher it locks, and every running session to a teacher *)
(* IN_SESSION.  Both are inductive as long as no sweep strays; the         *)
(* promises follow from them.                                              *)
(***************************************************************************)
EXTENDS TutorNowProofs, FiniteSetTheorems

USE DEF At, Become, Finish, Begin, Exists, Unanswered

(* Process p expired offer o and has still to settle it. *)
Holds(p, o) == \/ At(p, "settle") /\ o \in req[p].offers
               \/ At(p, "reread") /\ o \in req[p].own

Holding ==
  /\ \A p \in Procs, o \in Offers : Holds(p, o) => Exists(o) /\ offer[o].status = "EXPIRED"
  /\ \A p \in Procs, o \in Offers :
       (At(p, "expire") \/ At(p, "reread")) /\ o \in req[p].offers => Exists(o)
  /\ \A p \in Procs : At(p, "reread") => req[p].own \subseteq req[p].offers
  /\ \A p \in Procs : At(p, "status") => req[p].teacher \in Patchers
  /\ ~stray => \A p, q \in Procs, o \in Offers : Holds(p, o) /\ Holds(q, o) => p = q

LEMMA SettledByHolders == \A o : BeingSettled(o) <=> \E p \in Procs : Holds(p, o)
  BY DEF BeingSettled, Holds

-----------------------------------------------------------------------------
(* What is in hand after a step that neither expires nor re-reads: of the offers a      *)
(* process held, no more than before.                                                   *)

Eased(p) ==
  \/ req'[p] = req[p]
  \/ req'[p].op \notin {"expire", "settle", "reread", "status"}
  \/ At(p, "expire")' /\ \A o \in Offers : o \in req'[p].offers => Exists(o)
  \/ /\ At(p, "settle") /\ At(p, "settle")'
     /\ req'[p].offers \subseteq req[p].offers
  \/ At(p, "status")' /\ req'[p].teacher \in Patchers

KeepsExpired ==
  \A o \in Offers : Exists(o) => /\ offer'[o] # Null
                                 /\ offer[o].status = "EXPIRED" => offer'[o] = offer[o]

LEMMA EasedHolds ==
  ASSUME NEW p \in Procs, NEW o \in Offers, Eased(p), Holds(p, o)'
  PROVE  Holds(p, o)
  BY DEF Eased, Holds

LEMMA HoldingEases ==
  ASSUME Holding, \A p \in Procs : Eased(p), KeepsExpired, ~stray' => ~stray
  PROVE  Holding'
  <1>1. \A p \in Procs, o \in Offers : Holds(p, o)' => Holds(p, o)
    BY EasedHolds
  <1>2. ASSUME NEW p \in Procs, NEW o \in Offers, Holds(p, o)'
        PROVE  offer'[o] # Null /\ offer'[o].status = "EXPIRED"
    BY <1>1, <1>2 DEF Holding, KeepsExpired
  <1>3. ASSUME NEW p \in Procs, At(p, "reread")'
        PROVE  req'[p].own \subseteq req'[p].offers
    BY <1>3 DEF Holding, Eased
  <1>4. ASSUME NEW p \in Procs, At(p, "status")'
        PROVE  req'[p].teacher \in Patchers
    BY <1>4 DEF Holding, Eased
  <1>5. ASSUME ~stray', NEW p \in Procs, NEW q \in Procs, NEW o \in Offers,
               Holds(p, o)', Holds(q, o)'
        PROVE  p = q
    BY <1>1, <1>5 DEF Holding
  <1>6. ASSUME NEW p \in Procs, NEW o \in Offers, At(p, "expire")' \/ At(p, "reread")',
               o \in req'[p].offers
        PROVE  offer'[o] # Null
    BY <1>6 DEF Holding, Eased, KeepsExpired
  <1>7. QED
    BY <1>2, <1>3, <1>4, <1>5, <1>6 DEF Holding

(* What a process that finishes or begins holds. *)
LEMMA HandsOn ==
  ASSUME TypeOK, NEW p \in Procs, NEW r, Become(p, r),
         \/ r.op \notin {"expire", "settle", "reread", "status"}
         \/ r.op = "expire" /\ \A o \in Offers : o \in r.offers => Exists(o)
         \/ r.op = "status" /\ r.teacher \in Patchers
         \/ r.op = "settle" /\ At(p, "settle") /\ r.offers \subseteq req[p].offers
  PROVE  \A q \in Procs : Eased(q)
  <1>1. req \in [Procs -> Request]
    BY DEF TypeOK
  <1>2. req'[p] = r /\ \A q \in Procs : q # p => req'[q] = req[q]
    BY <1>1
  <1>3. Eased(p)
    BY <1>2 DEF Eased
  <1>4. QED
    BY <1>2, <1>3 DEF Eased

LEMMA KeptRows ==
  ASSUME TypeOK
  PROVE  /\ UNCHANGED offer => KeepsExpired
         /\ \A o, s, t, n : createOffer(o, s, t, n) => KeepsExpired
         /\ \A o \in Offers, status \in OfferStatus : markOfferResponded(o, status) => KeepsExpired
  <1>1. offer \in [Offers -> Offer \cup {Null}] /\ Null \notin Offer
    BY NullAssumption DEF TypeOK
  <1>2. UNCHANGED offer => KeepsExpired
    BY DEF KeepsExpired
  <1>3. ASSUME NEW o, NEW s, NEW t, NEW n, createOffer(o, s, t, n)
        PROVE  KeepsExpired
    <2>1. \A x \in Offers : Exists(x) => offer'[x] = offer[x]
      BY <1>1, <1>3 DEF createOffer
    <2>2. QED
      BY <2>1 DEF KeepsExpired
  <1>4. ASSUME NEW o \in Offers, NEW status \in OfferStatus, markOfferResponded(o, status)
        PROVE  KeepsExpired
    <2>1. offer[o] \in Offer /\ offer[o].status = "PENDING"
      BY <1>1, <1>4 DEF markOfferResponded
    <2>2. [offer[o] EXCEPT !.status = status] \in Offer
      BY <2>1 DEF Offer
    <2>3. \A x \in Offers : offer'[x] = IF x = o THEN [offer[o] EXCEPT !.status = status]
                                                 ELSE offer[x]
      BY <1>1, <1>4 DEF markOfferResponded
    <2>4. offer'[o] # Null
      BY <1>1, <2>2, <2>3
    <2>5. QED
      BY <2>1, <2>3, <2>4 DEF KeepsExpired
  <1>5. QED
    BY <1>2, <1>3, <1>4

LEMMA Drops ==
  ASSUME TypeOK, NEW p \in Procs, NEW o, At(p, "settle"), DropFromSweep(p, o)
  PROVE  \A q \in Procs : Eased(q)
  <1>1. CASE req[p].offers = {o}
    BY <1>1, HandsOn DEF DropFromSweep, AfterSweep, Idle
  <1>2. CASE req[p].offers # {o}
    <2>1. req[p] = [op |-> "settle", offers |-> req[p].offers]
      BY InHand
    <2>2. PICK r : r = [req[p] EXCEPT !.offers = req[p].offers \ {o}]
      OBVIOUS
    <2>3. r.op = "settle" /\ r.offers = req[p].offers \ {o}
      BY <2>1, <2>2
    <2>4. Become(p, r)
      BY <1>2, <2>2 DEF DropFromSweep
    <2>5. QED
      BY <2>3, <2>4, HandsOn
  <1>3. QED
    BY <1>1, <1>2

(* Of the offers it settles, a process lets go of the one it is at. *)
LEMMA Dropped ==
  ASSUME TypeOK, NEW p \in Procs, NEW o \in Offers, At(p, "settle"), DropFromSweep(p, o)
  PROVE  /\ ~Holds(p, o)'
         /\ \A q \in Procs, x \in Offers : q # p \/ x # o => (Holds(q, x)' <=> Holds(q, x))
  <1>1. req \in [Procs -> Request]
    BY DEF TypeOK
  <1>2. \A x : Holds(p, x) <=> x \in req[p].offers
    BY DEF Holds
  <1>3. /\ \A q \in Procs : q # p => req'[q] = req[q]
        /\ \A x \in Offers : Holds(p, x)' <=> x \in req[p].offers /\ x # o
    <2>1. CASE req[p].offers = {o}
      <3>1. Become(p, IF p = Cron THEN [op |-> "findDue"] ELSE [op |-> "idle"])
        BY <2>1 DEF DropFromSweep, AfterSweep, Idle
      <3>2. /\ req'[p].op \in {"findDue", "idle"}
            /\ \A q \in Procs : q # p => req'[q] = req[q]
        BY <1>1, <3>1
      <3>3. QED
        BY <2>1, <3>2 DEF Holds
    <2>2. CASE req[p].offers # {o}
      <3>1. req[p] = [op |-> "settle", offers |-> req[p].offers]
        BY InHand
      <3>2. PICK r : r = [req[p] EXCEPT !.offers = req[p].offers \ {o}]
        OBVIOUS
      <3>3. r.op = "settle" /\ r.offers = req[p].offers \ {o}
        BY <3>1, <3>2
      <3>4. Become(p, r)
        BY <2>2, <3>2 DEF DropFromSweep
      <3>5. req'[p] = r /\ \A q \in Procs : q # p => req'[q] = req[q]
        BY <1>1, <3>4
      <3>6. QED
        BY <3>3, <3>5 DEF Holds
    <2>3. QED
      BY <2>1, <2>2
  <1>4. QED
    BY <1>2, <1>3 DEF Holds

LEMMA EasedOpens ==
  ASSUME \A p \in Procs : Eased(p), UNCHANGED offer
  PROVE  \A o \in Offers : Open(o)' => Open(o)
  <1>1. ASSUME NEW o \in Offers, BeingSettled(o)'
        PROVE  BeingSettled(o)
    <2>1. PICK p \in Procs : Holds(p, o)'
      BY <1>1 DEF BeingSettled, Holds
    <2>2. Holds(p, o)
      BY <2>1, EasedHolds
    <2>3. QED
      BY <2>2 DEF BeingSettled, Holds
  <1>2. QED
    BY <1>1 DEF Open

(* The sweep's update: what it expired is its own, and nobody else held it. *)
LEMMA ExpiryHolds ==
  ASSUME TypeOK, Holding, NEW p \in Procs, ExpireOffers(p)
  PROVE  /\ Holding'
         /\ \A o \in Offers : Open(o)' <=> Open(o)
         /\ \A o \in Offers : Exists(o) =>
              /\ offer'[o].session = offer[o].session
              /\ offer'[o].teacher = offer[o].teacher
              /\ offer'[o].status = "ACCEPTED" <=> offer[o].status = "ACCEPTED"
         /\ \A o \in Offers : offer'[o] # Null <=> Exists(o)
  <1>1. PICK due, hit : /\ due = req[p].offers
                        /\ hit = {o \in due : Unanswered(o)}
    OBVIOUS
  <1>2. due \in SUBSET Offers /\ hit \subseteq due
    BY <1>1, InHand DEF ExpireOffers
  <1>3. /\ offer \in [Offers -> Offer \cup {Null}]
        /\ req \in [Procs -> Request]
        /\ Null \notin Offer
    BY NullAssumption DEF TypeOK
  <1>4. \A o \in Offers : offer'[o] = IF o \in hit THEN [offer[o] EXCEPT !.status = "EXPIRED"]
                                                   ELSE offer[o]
    BY <1>1 DEF ExpireOffers
  <1>5. ASSUME NEW o \in Offers, o \in hit
        PROVE  /\ Unanswered(o)
               /\ offer'[o] # Null
               /\ offer'[o].status = "EXPIRED"
               /\ offer'[o].session = offer[o].session
               /\ offer'[o].teacher = offer[o].teacher
    <2>1. Unanswered(o) /\ offer[o] \in Offer
      BY <1>1, <1>3, <1>5
    <2>2. offer'[o] = [offer[o] EXCEPT !.status = "EXPIRED"]
      BY <1>4, <1>5
    <2>3. [offer[o] EXCEPT !.status = "EXPIRED"] \in Offer
      BY <2>1 DEF Offer, OfferStatus
    <2>4. offer'[o] \in Offer /\ offer'[o] # Null
      BY <1>3, <2>2, <2>3
    <2>5. QED
      BY <2>1, <2>2, <2>4 DEF Offer
  <1>6. /\ \A q \in Procs : q # p => req'[q] = req[q]
        /\ \A o \in Offers : Holds(p, o)' <=> o \in hit
        /\ At(p, "reread")' => req'[p].own \subseteq req'[p].offers /\ req'[p].offers = due
        /\ ~At(p, "status")' /\ ~At(p, "expire")'
    <2>1. CASE hit = due
      <3>1. Become(p, [op |-> "settle", offers |-> due])
        BY <1>1, <2>1 DEF ExpireOffers
      <3>2. req'[p] = [op |-> "settle", offers |-> due] /\ \A q \in Procs : q # p => req'[q] = req[q]
        BY <1>3, <3>1
      <3>3. QED
        BY <2>1, <3>2 DEF Holds
    <2>2. CASE hit # due
      <3>1. Become(p, [op |-> "reread", offers |-> due, own |-> hit])
        BY <1>1, <2>2 DEF ExpireOffers
      <3>2. /\ req'[p] = [op |-> "reread", offers |-> due, own |-> hit]
            /\ \A q \in Procs : q # p => req'[q] = req[q]
        BY <1>3, <3>1
      <3>3. QED
        BY <1>2, <3>2 DEF Holds
    <2>3. QED
      BY <2>1, <2>2
  <1>7. \A q \in Procs, o \in Offers : q # p => (Holds(q, o)' <=> Holds(q, o))
    BY <1>6 DEF Holds
  <1>8. \A o \in Offers : ~Holds(p, o)
    BY DEF ExpireOffers, Holds
  <1>9. ASSUME NEW q \in Procs, NEW o \in Offers, Holds(q, o)
        PROVE  o \notin hit
    BY <1>5, <1>9 DEF Holding
  <1>10. Holding'
    <2>1. ASSUME NEW q \in Procs, NEW o \in Offers, Holds(q, o)'
          PROVE  offer'[o] # Null /\ offer'[o].status = "EXPIRED"
      <3>1. CASE q = p
        BY <1>5, <1>6, <2>1, <3>1
      <3>2. CASE q # p
        BY <1>4, <1>7, <1>9, <2>1, <3>2 DEF Holding
      <3>3. QED
        BY <3>1, <3>2
    <2>2. \A q \in Procs : At(q, "reread")' => req'[q].own \subseteq req'[q].offers
      BY <1>6 DEF Holding
    <2>3. \A q \in Procs : At(q, "status")' => req'[q].teacher \in Patchers
      BY <1>6 DEF Holding
    <2>4. ASSUME ~stray', NEW q \in Procs, NEW r \in Procs, NEW o \in Offers,
                 Holds(q, o)', Holds(r, o)'
          PROVE  q = r
      <3>1. ~stray
        BY <2>4 DEF ExpireOffers, history
      <3>2. QED
        BY <1>6, <1>7, <1>9, <2>4, <3>1 DEF Holding
    <2>5. \A o \in Offers : Exists(o) => offer'[o] # Null
      BY <1>4, <1>5
    <2>6. \A o \in Offers : o \in due => Exists(o)
      BY <1>1 DEF Holding, ExpireOffers
    <2>7. \A q \in Procs, o \in Offers :
            (At(q, "expire")' \/ At(q, "reread")') /\ o \in req'[q].offers => offer'[o] # Null
      BY <1>6, <2>5, <2>6 DEF Holding
    <2>8. QED
      BY <2>1, <2>2, <2>3, <2>4, <2>7 DEF Holding
  <1>11. ASSUME NEW o \in Offers
         PROVE  Open(o)' <=> Open(o)
    <2>1. CASE o \in hit
      <3>1. Open(o)
        BY <1>5, <2>1 DEF Open
      <3>2. BeingSettled(o)'
        BY <1>6, <2>1 DEF BeingSettled, Holds
      <3>3. QED
        BY <1>5, <2>1, <3>1, <3>2 DEF Open
    <2>2. CASE o \notin hit
      <3>1. offer'[o] = offer[o]
        BY <1>4, <2>2
      <3>2. (\E q \in Procs : Holds(q, o)') <=> \E q \in Procs : Holds(q, o)
        BY <1>6, <1>7, <1>8, <2>2
      <3>3. BeingSettled(o)' <=> BeingSettled(o)
        BY <3>2 DEF BeingSettled, Holds
      <3>4. QED
        BY <3>1, <3>3 DEF Open
    <2>3. QED
      BY <2>1, <2>2
  <1>12. \A o \in Offers : Exists(o) =>
           /\ offer'[o].session = offer[o].session
           /\ offer'[o].teacher = offer[o].teacher
           /\ offer'[o].status = "ACCEPTED" <=> offer[o].status = "ACCEPTED"
    BY <1>4, <1>5
  <1>13. \A o \in Offers : offer'[o] # Null <=> Exists(o)
    BY <1>4, <1>5
  <1>14. QED
    BY <1>10, <1>11, <1>12, <1>13

(* The sweep's re-read: as long as no sweep strays it goes on with what it expired.     *)
LEMMA RereadHolds ==
  ASSUME TypeOK, Holding, NEW p \in Procs, RereadExpired(p)
  PROVE  /\ Holding'
         /\ ~stray' => ~stray /\ \A o \in Offers : Open(o)' <=> Open(o)
  <1>1. PICK swept, own : /\ swept = {o \in req[p].offers : offer[o].status = "EXPIRED"}
                          /\ own = req[p].own
    OBVIOUS
  <1>2. swept \in SUBSET Offers /\ own \in SUBSET Offers /\ own \subseteq req[p].offers
    BY <1>1, InHand DEF RereadExpired, Holding
  <1>3. req \in [Procs -> Request] /\ UNCHANGED offer
    BY DEF TypeOK, RereadExpired, tables
  <1>4. stray' = (stray \/ ~(swept \subseteq own))
    BY <1>1 DEF RereadExpired
  <1>5. \A o \in Offers : Holds(p, o) <=> o \in own
    BY <1>1 DEF RereadExpired, Holds
  <1>6. own \subseteq swept
    BY <1>1, <1>2, <1>5 DEF Holding
  <1>7. /\ \A q \in Procs : q # p => req'[q] = req[q]
        /\ req'[p].op \notin {"expire", "reread", "status"}
        /\ \A o \in Offers : Holds(p, o)' <=> o \in swept
    <2>1. CASE swept = {}
      <3>1. Become(p, IF p = Cron THEN [op |-> "findDue"] ELSE [op |-> "idle"])
        BY <1>1, <2>1 DEF RereadExpired, AfterSweep, Idle
      <3>2. /\ req'[p].op \in {"findDue", "idle"}
            /\ \A q \in Procs : q # p => req'[q] = req[q]
        BY <1>3, <3>1
      <3>3. QED
        BY <2>1, <3>2 DEF Holds
    <2>2. CASE swept # {}
      <3>1. Become(p, [op |-> "settle", offers |-> swept])
        BY <1>1, <2>2 DEF RereadExpired
      <3>2. /\ req'[p] = [op |-> "settle", offers |-> swept]
            /\ \A q \in Procs : q # p => req'[q] = req[q]
        BY <1>3, <3>1
      <3>3. QED
        BY <3>2 DEF Holds
    <2>3. QED
      BY <2>1, <2>2
  <1>8. \A q \in Procs, o \in Offers : q # p => (Holds(q, o)' <=> Holds(q, o))
    BY <1>7 DEF Holds
  <1>9. ASSUME ~stray'
        PROVE  ~stray /\ \A q \in Procs, o \in Offers : Holds(q, o)' <=> Holds(q, o)
    <2>1. ~stray /\ swept = own
      BY <1>4, <1>6, <1>9
    <2>2. QED
      BY <1>5, <1>7, <1>8, <2>1
  <1>10. Holding'
    <2>1. ASSUME NEW q \in Procs, NEW o \in Offers, Holds(q, o)'
          PROVE  offer'[o] # Null /\ offer'[o].status = "EXPIRED"
      <3>1. CASE q = p
        <4>1. o \in swept /\ offer[o].status = "EXPIRED" /\ o \in req[p].offers
          BY <1>1, <1>7, <2>1, <3>1
        <4>2. offer[o] # Null
          BY <4>1 DEF Holding, RereadExpired
        <4>3. QED
          BY <1>3, <4>1, <4>2
      <3>2. CASE q # p
        BY <1>3, <1>8, <2>1, <3>2 DEF Holding
      <3>3. QED
        BY <3>1, <3>2
    <2>2. \A q \in Procs : At(q, "reread")' => req'[q].own \subseteq req'[q].offers
      BY <1>7 DEF Holding
    <2>3. \A q \in Procs : At(q, "status")' => req'[q].teacher \in Patchers
      BY <1>7 DEF Holding
    <2>4. ~stray' => \A q, r \in Procs, o \in Offers : Holds(q, o)' /\ Holds(r, o)' => q = r
      BY <1>9 DEF Holding
    <2>5. \A q \in Procs, o \in Offers :
            (At(q, "expire")' \/ At(q, "reread")') /\ o \in req'[q].offers => offer'[o] # Null
      BY <1>3, <1>7 DEF Holding
    <2>6. QED
      BY <2>1, <2>2, <2>3, <2>4, <2>5 DEF Holding
  <1>11. ASSUME ~stray', NEW o \in Offers
         PROVE  Open(o)' <=> Open(o)
    <2>1. (\E q \in Procs : Holds(q, o)') <=> \E q \in Procs : Holds(q, o)
      BY <1>9, <1>11
    <2>2. BeingSettled(o)' <=> BeingSettled(o)
      BY <2>1 DEF BeingSettled, Holds
    <2>3. QED
      BY <1>3, <2>2 DEF Open
  <1>12. QED
    BY <1>9, <1>10, <1>11

-----------------------------------------------------------------------------
(* Offers, locks and sessions.                                                          *)

(* An open offer is awaited by its session and has locked its teacher... *)
OpenOffers ==
  \A o \in Offers : Open(o) =>
    /\ session[offer[o].session].status = "OFFER_SENT"
    /\ session[offer[o].session].teacher = offer[o].teacher
    /\ offer[o].teacher \notin Patchers => teacher[offer[o].teacher] = "OFFER_LOCKED"

(* ... and is the only one of both. *)
OpenOnce ==
  \A o1, o2 \in Offers : Open(o1) /\ Open(o2) =>
    /\ offer[o1].session = offer[o2].session => o1 = o2
    /\ offer[o1].teacher = offer[o2].teacher /\ offer[o1].teacher \notin Patchers => o1 = o2

PaidTeachers ==
  \A o \in Offers : Exists(o) /\ offer[o].status = "ACCEPTED" =>
    session[offer[o].session].teacher = offer[o].teacher

Runs(s, t) == session[s].status = "ACTIVE" /\ session[s].teacher = t

RunningTeachers ==
  \A t \in Teachers \ Patchers :
    /\ \A s \in Sessions : Runs(s, t) => teacher[t] = "IN_SESSION"
    /\ \A s1, s2 \in Sessions : Runs(s1, t) /\ Runs(s2, t) => s1 = s2
    /\ teacher[t] = "IN_SESSION" => \E s \in Sessions : Runs(s, t)

(* Without faults nothing waits for an offer that is gone. *)
Backed ==
  faults = 0 =>
    /\ \A s \in Sessions : session[s].status = "OFFER_SENT" =>
         \E o \in Offers : Open(o) /\ offer[o].session = s
    /\ \A t \in Teachers \ Patchers : teacher[t] = "OFFER_LOCKED" =>
         \E o \in Offers : Open(o) /\ offer[o].teacher = t

LocksHeld == OpenOffers /\ OpenOnce /\ PaidTeachers /\ RunningTeachers /\ Backed

Locks == ~stray => LocksHeld

LEMMA OfferRows ==
  ASSUME TypeOK, NEW o \in Offers, Open(o)
  PROVE  offer[o] \in Offer /\ offer[o].session \in Sessions /\ offer[o].teacher \in Teachers
  BY DEF TypeOK, Open, Offer

(* A step that leaves the offers, the locks and the running sessions as they were. *)
OpensStay ==
  \A o \in Offers :
    /\ Open(o)' => Open(o)
    /\ faults' = 0 => (Open(o) => Open(o)')
RowsStay ==
  \A o \in Offers :
    /\ offer'[o] # Null <=> Exists(o)
    /\ Exists(o) => /\ offer'[o].session = offer[o].session
                    /\ offer'[o].teacher = offer[o].teacher
                    /\ offer'[o].status = "ACCEPTED" <=> offer[o].status = "ACCEPTED"
TeachersStay ==
  /\ \A t \in Teachers \ Patchers :
       teacher'[t] = teacher[t] \/ (teacher[t] = "ONLINE" /\ teacher'[t] = "OFFLINE")
  /\ \A t \in Teachers : teacher'[t] = "IN_SESSION" => teacher[t] = "IN_SESSION"
SessionsStay ==
  \A s \in Sessions :
    /\ session'[s].teacher = session[s].teacher
    /\ \/ session'[s].status = session[s].status
       \/ session[s].status = "ENDED" /\ session'[s].status = "RATED"

LEMMA LocksStay ==
  ASSUME TypeOK, LocksHeld, OpensStay, RowsStay, TeachersStay, SessionsStay,
         faults' = 0 => faults = 0
  PROVE  LocksHeld'
  <1>1. \A o \in Offers : Open(o)' => /\ Open(o) /\ Exists(o)
                                      /\ offer[o].session \in Sessions
                                      /\ offer[o].teacher \in Teachers
    BY OfferRows DEF OpensStay, Open
  <1>2. OpenOffers'
    BY <1>1 DEF LocksHeld, OpenOffers, RowsStay, TeachersStay, SessionsStay
  <1>3. OpenOnce'
    BY <1>1 DEF LocksHeld, OpenOnce, RowsStay
  <1>4. PaidTeachers'
    <2>1. \A o \in Offers : Exists(o) => offer[o].session \in Sessions
      BY DEF TypeOK, Offer
    <2>2. QED
      BY <2>1 DEF LocksHeld, PaidTeachers, RowsStay, SessionsStay
  <1>5. RunningTeachers'
    <2>1. \A s \in Sessions, t \in Teachers : Runs(s, t)' <=> Runs(s, t)
      BY DEF SessionsStay, Runs
    <2>2. QED
      BY <2>1 DEF LocksHeld, RunningTeachers, TeachersStay
  <1>6. Backed'
    <2>1. ASSUME faults' = 0
          PROVE  \A o \in Offers : Open(o) => /\ Open(o)'
                                              /\ offer'[o].session = offer[o].session
                                              /\ offer'[o].teacher = offer[o].teacher
      BY <2>1 DEF OpensStay, RowsStay, Open
    <2>2. ASSUME faults' = 0, NEW s \in Sessions, session'[s].status = "OFFER_SENT"
          PROVE  \E o \in Offers : Open(o)' /\ offer'[o].session = s
      <3>1. session[s].status = "OFFER_SENT"
        BY <2>2 DEF SessionsStay
      <3>2. QED
        BY <2>1, <2>2, <3>1 DEF LocksHeld, Backed
    <2>3. ASSUME faults' = 0, NEW t \in Teachers \ Patchers, teacher'[t] = "OFFER_LOCKED"
          PROVE  \E o \in Offers : Open(o)' /\ offer'[o].teacher = t
      <3>1. teacher[t] = "OFFER_LOCKED"
        BY <2>3 DEF TeachersStay
      <3>2. QED
        BY <2>1, <2>3, <3>1 DEF LocksHeld, Backed
    <2>4. QED
      BY <2>2, <2>3 DEF Backed
  <1>7. QED
    BY <1>2, <1>3, <1>4, <1>5, <1>6 DEF LocksHeld

(* The offers other than o are as open as they were, and their rows the same. *)
OthersStay(o) ==
  \A x \in Offers : x # o => offer'[x] = offer[x] /\ (Open(x)' <=> Open(x))

(* A rejection, a late answer and a settlement: offer o is gone, its session is PENDING *)
(* again and its teacher unlocked.                                                      *)
LEMMA LocksWithdraw ==
  ASSUME TypeOK, LocksHeld, AcceptedOnce, NEW o \in Offers, Open(o), ~Open(o)', OthersStay(o),
         offer'[o].status # "ACCEPTED",
         setSessionPending(offer[o].session), releaseTeacherLock(offer[o].teacher),
         UNCHANGED faults
  PROVE  LocksHeld'
  <1>1. PICK s \in Sessions, t \in Teachers : s = offer[o].session /\ t = offer[o].teacher
    BY OfferRows
  <1>2. /\ session \in [Sessions -> Session] /\ session[s] \in Session
        /\ teacher \in [Teachers -> TeacherStatus]
    BY DEF TypeOK
  <1>3. /\ session[s].status = "OFFER_SENT" /\ session[s].teacher = t
        /\ t \notin Patchers => teacher[t] = "OFFER_LOCKED"
    BY <1>1 DEF LocksHeld, OpenOffers
  <1>4. session'[s].status = "PENDING" /\ \A x \in Sessions : x # s => session'[x] = session[x]
    BY <1>1, <1>2, <1>3 DEF setSessionPending, Session
  <1>5. /\ t \notin Patchers => teacher'[t] = "ONLINE"
        /\ \A x \in Teachers : x # t => teacher'[x] = teacher[x]
    BY <1>1, <1>2, <1>3 DEF releaseTeacherLock
  <1>6. ASSUME NEW x \in Offers, Open(x)'
        PROVE  /\ x # o /\ offer'[x] = offer[x] /\ Open(x)
               /\ offer[x].session \in Sessions /\ offer[x].teacher \in Teachers
               /\ offer[x].session # s
               /\ offer[x].teacher = t => t \in Patchers
    <2>1. x # o /\ offer'[x] = offer[x] /\ Open(x)
      BY <1>6 DEF OthersStay
    <2>2. QED
      BY <1>1, <2>1, OfferRows DEF LocksHeld, OpenOnce
  <1>7. OpenOffers'
    BY <1>4, <1>5, <1>6 DEF LocksHeld, OpenOffers
  <1>8. OpenOnce'
    BY <1>6 DEF LocksHeld, OpenOnce
  <1>9. PaidTeachers'
    <2>1. ASSUME NEW x \in Offers, offer'[x] # Null, offer'[x].status = "ACCEPTED"
          PROVE  session'[offer'[x].session].teacher = offer'[x].teacher
      <3>1. x # o /\ offer'[x] = offer[x]
        BY <2>1 DEF OthersStay
      <3>2. Exists(x) /\ offer[x].status = "ACCEPTED" /\ offer[x].session \in Sessions
        BY <2>1, <3>1 DEF TypeOK, Offer
      <3>3. offer[x].session # s
        BY <1>3, <3>2 DEF AcceptedOnce, AcceptedFor, OffersOf, Activated
      <3>4. QED
        BY <1>4, <3>1, <3>2, <3>3 DEF LocksHeld, PaidTeachers
    <2>2. QED
      BY <2>1 DEF PaidTeachers
  <1>10. RunningTeachers'
    <2>1. \A x \in Sessions, y \in Teachers : Runs(x, y)' <=> Runs(x, y)
      BY <1>3, <1>4 DEF Runs
    <2>2. \A y \in Teachers \ Patchers : teacher'[y] = "IN_SESSION" <=> teacher[y] = "IN_SESSION"
      BY <1>3, <1>5
    <2>3. QED
      BY <2>1, <2>2 DEF LocksHeld, RunningTeachers
  <1>11. Backed'
    <2>1. ASSUME faults' = 0, NEW x \in Sessions, session'[x].status = "OFFER_SENT"
          PROVE  \E y \in Offers : Open(y)' /\ offer'[y].session = x
      <3>1. x # s /\ session[x].status = "OFFER_SENT"
        BY <1>4, <2>1
      <3>2. PICK y \in Offers : Open(y) /\ offer[y].session = x
        BY <2>1, <3>1 DEF LocksHeld, Backed
      <3>3. QED
        BY <1>1, <3>1, <3>2 DEF OthersStay
    <2>2. ASSUME faults' = 0, NEW x \in Teachers \ Patchers, teacher'[x] = "OFFER_LOCKED"
          PROVE  \E y \in Offers : Open(y)' /\ offer'[y].teacher = x
      <3>1. x # t /\ teacher[x] = "OFFER_LOCKED"
        BY <1>5, <2>2
      <3>2. PICK y \in Offers : Open(y) /\ offer[y].teacher = x
        BY <2>2, <3>1 DEF LocksHeld, Backed
      <3>3. QED
        BY <1>1, <3>1, <3>2 DEF OthersStay
    <2>3. QED
      BY <2>1, <2>2 DEF Backed
  <1>12. QED
    BY <1>7, <1>8, <1>9, <1>10, <1>11 DEF LocksHeld

(* A new offer: its session was PENDING, its teacher ONLINE, so no other offer had either. *)
LEMMA LocksSend ==
  ASSUME TypeOK, LocksHeld, AcceptedOnce, NEW o \in Offers, NEW s \in Sessions, NEW t \in Teachers,
         NEW price, ~Exists(o), Open(o)', OthersStay(o),
         offer'[o].status = "PENDING", offer'[o].session = s, offer'[o].teacher = t,
         setSessionOfferSent(s, t, price), lockTeacherForOffer(t), UNCHANGED faults
  PROVE  LocksHeld'
  <1>1. /\ session \in [Sessions -> Session] /\ session[s] \in Session
        /\ teacher \in [Teachers -> TeacherStatus]
    BY DEF TypeOK
  <1>2. session[s].status = "PENDING" /\ teacher[t] = "ONLINE"
    BY DEF setSessionOfferSent, lockTeacherForOffer
  <1>3. /\ session'[s].status = "OFFER_SENT" /\ session'[s].teacher = t
        /\ \A x \in Sessions : x # s => session'[x] = session[x]
    BY <1>1 DEF setSessionOfferSent, Session
  <1>4. teacher'[t] = "OFFER_LOCKED" /\ \A x \in Teachers : x # t => teacher'[x] = teacher[x]
    BY <1>1 DEF lockTeacherForOffer
  <1>5. ASSUME NEW x \in Offers, Open(x)', x # o
        PROVE  /\ offer'[x] = offer[x] /\ Open(x)
               /\ offer[x].session \in Sessions /\ offer[x].teacher \in Teachers
               /\ offer[x].session # s
               /\ offer[x].teacher = t => t \in Patchers
    <2>1. offer'[x] = offer[x] /\ Open(x)
      BY <1>5 DEF OthersStay
    <2>2. QED
      BY <1>2, <2>1, OfferRows DEF LocksHeld, OpenOffers
  <1>6. OpenOffers'
    BY <1>3, <1>4, <1>5 DEF LocksHeld, OpenOffers
  <1>7. OpenOnce'
    BY <1>5 DEF LocksHeld, OpenOnce
  <1>8. PaidTeachers'
    <2>1. ASSUME NEW x \in Offers, offer'[x] # Null, offer'[x].status = "ACCEPTED"
          PROVE  session'[offer'[x].session].teacher = offer'[x].teacher
      <3>1. x # o /\ offer'[x] = offer[x]
        BY <2>1 DEF OthersStay
      <3>2. Exists(x) /\ offer[x].status = "ACCEPTED" /\ offer[x].session \in Sessions
        BY <2>1, <3>1 DEF TypeOK, Offer
      <3>3. offer[x].session # s
        BY <1>2, <3>2 DEF AcceptedOnce, AcceptedFor, OffersOf, Activated
      <3>4. QED
        BY <1>3, <3>1, <3>2, <3>3 DEF LocksHeld, PaidTeachers
    <2>2. QED
      BY <2>1 DEF PaidTeachers
  <1>9. RunningTeachers'
    <2>1. \A x \in Sessions, y \in Teachers : Runs(x, y)' <=> Runs(x, y)
      BY <1>2, <1>3 DEF Runs
    <2>2. \A y \in Teachers : teacher'[y] = "IN_SESSION" <=> teacher[y] = "IN_SESSION"
      BY <1>2, <1>4
    <2>3. QED
      BY <2>1, <2>2 DEF LocksHeld, RunningTeachers
  <1>10. Backed'
    <2>1. ASSUME faults' = 0, NEW x \in Sessions, session'[x].status = "OFFER_SENT"
          PROVE  \E y \in Offers : Open(y)' /\ offer'[y].session = x
      <3>1. CASE x = s
        BY <3>1
      <3>2. CASE x # s
        <4>1. PICK y \in Offers : Open(y) /\ offer[y].session = x
          BY <1>3, <2>1, <3>2 DEF LocksHeld, Backed
        <4>2. y # o
          BY <4>1 DEF Open
        <4>3. QED
          BY <4>1, <4>2 DEF OthersStay
      <3>3. QED
        BY <3>1, <3>2
    <2>2. ASSUME faults' = 0, NEW x \in Teachers \ Patchers, teacher'[x] = "OFFER_LOCKED"
          PROVE  \E y \in Offers : Open(y)' /\ offer'[y].teacher = x
      <3>1. CASE x = t
        BY <3>1
      <3>2. CASE x # t
        <4>1. PICK y \in Offers : Open(y) /\ offer[y].teacher = x
          BY <1>4, <2>2, <3>2 DEF LocksHeld, Backed
        <4>2. y # o
          BY <4>1 DEF Open
        <4>3. QED
          BY <4>1, <4>2 DEF OthersStay
      <3>3. QED
        BY <3>1, <3>2
    <2>3. QED
      BY <2>1, <2>2 DEF Backed
  <1>11. QED
    BY <1>6, <1>7, <1>8, <1>9, <1>10 DEF LocksHeld

(* An acceptance: the teacher it moves IN_SESSION is the one the offer had locked, and  *)
(* the one the session names.                                                           *)
LEMMA LocksActivate ==
  ASSUME TypeOK, LocksHeld, NEW o \in Offers, NEW s \in Sessions, NEW t \in Teachers,
         s = offer[o].session, t = offer[o].teacher, Open(o), ~Open(o)', OthersStay(o),
         offer'[o].session = s, offer'[o].teacher = t,
         session'[s].status = "ACTIVE", session'[s].teacher = session[s].teacher,
         \A x \in Sessions : x # s => session'[x] = session[x],
         setTeacherInSession(t), UNCHANGED faults
  PROVE  LocksHeld'
  <1>1. teacher \in [Teachers -> TeacherStatus]
    BY DEF TypeOK
  <1>2. session[s].status = "OFFER_SENT" /\ session[s].teacher = t /\ teacher[t] = "OFFER_LOCKED"
    BY DEF LocksHeld, OpenOffers, setTeacherInSession
  <1>3. teacher'[t] = "IN_SESSION" /\ \A x \in Teachers : x # t => teacher'[x] = teacher[x]
    BY <1>1 DEF setTeacherInSession
  <1>4. ASSUME NEW x \in Offers, Open(x)'
        PROVE  /\ x # o /\ offer'[x] = offer[x] /\ Open(x)
               /\ offer[x].session \in Sessions /\ offer[x].teacher \in Teachers
               /\ offer[x].session # s
               /\ offer[x].teacher = t => t \in Patchers
    <2>1. x # o /\ offer'[x] = offer[x] /\ Open(x)
      BY <1>4 DEF OthersStay
    <2>2. QED
      BY <2>1, OfferRows DEF LocksHeld, OpenOnce
  <1>5. OpenOffers'
    BY <1>3, <1>4 DEF LocksHeld, OpenOffers
  <1>6. OpenOnce'
    BY <1>4 DEF LocksHeld, OpenOnce
  <1>7. PaidTeachers'
    <2>1. ASSUME NEW x \in Offers, offer'[x] # Null, offer'[x].status = "ACCEPTED"
          PROVE  session'[offer'[x].session].teacher = offer'[x].teacher
      <3>1. CASE x = o
        BY <1>2, <3>1
      <3>2. CASE x # o
        <4>1. offer'[x] = offer[x]
          BY <3>2 DEF OthersStay
        <4>2. offer[x].session \in Sessions
          BY <2>1, <4>1 DEF TypeOK, Offer
        <4>3. session'[offer[x].session].teacher = session[offer[x].session].teacher
          BY <4>2
        <4>4. QED
          BY <2>1, <4>1, <4>3 DEF LocksHeld, PaidTeachers
      <3>3. QED
        BY <3>1, <3>2
    <2>2. QED
      BY <2>1 DEF PaidTeachers
  <1>8. RunningTeachers'
    <2>1. \A x \in Sessions, y \in Teachers : Runs(x, y)' <=> (Runs(x, y) \/ (x = s /\ y = t))
      BY <1>2 DEF Runs
    <2>2. t \notin Patchers => \A x \in Sessions : ~Runs(x, t)
      BY <1>2 DEF LocksHeld, RunningTeachers
    <2>3. QED
      BY <1>3, <2>1, <2>2 DEF LocksHeld, RunningTeachers
  <1>9. Backed'
    <2>1. ASSUME faults' = 0, NEW x \in Sessions, session'[x].status = "OFFER_SENT"
          PROVE  \E y \in Offers : Open(y)' /\ offer'[y].session = x
      <3>1. x # s /\ session[x].status = "OFFER_SENT"
        BY <2>1
      <3>2. PICK y \in Offers : Open(y) /\ offer[y].session = x
        BY <2>1, <3>1 DEF LocksHeld, Backed
      <3>3. QED
        BY <3>1, <3>2 DEF OthersStay
    <2>2. ASSUME faults' = 0, NEW x \in Teachers \ Patchers, teacher'[x] = "OFFER_LOCKED"
          PROVE  \E y \in Offers : Open(y)' /\ offer'[y].teacher = x
      <3>1. x # t /\ teacher[x] = "OFFER_LOCKED"
        BY <1>3, <2>2
      <3>2. PICK y \in Offers : Open(y) /\ offer[y].teacher = x
        BY <2>2, <3>1 DEF LocksHeld, Backed
      <3>3. QED
        BY <3>1, <3>2 DEF OthersStay
    <2>3. QED
      BY <2>1, <2>2 DEF Backed
  <1>10. QED
    BY <1>5, <1>6, <1>7, <1>8, <1>9 DEF LocksHeld

(* An ending: the teacher it releases ran no other session. *)
LEMMA LocksClose ==
  ASSUME TypeOK, LocksHeld, NEW s \in Sessions, NEW status \in Closed, NEW reason, NEW fee,
         NEW earning, NEW m, NEW n,
         endSession(s, status, reason, fee, earning),
         releaseTeacherAfterSession(session[s].teacher, m, n),
         UNCHANGED offer, UNCHANGED faults, \A o \in Offers : Open(o)' <=> Open(o)
  PROVE  LocksHeld'
  <1>1. /\ session \in [Sessions -> Session] /\ session[s] \in Session
        /\ teacher \in [Teachers -> TeacherStatus]
    BY DEF TypeOK
  <1>2. session'[s] = [session[s] EXCEPT !.status = status, !.endReason = reason, !.fee = fee,
                                         !.earning = earning]
    BY <1>1 DEF endSession
  <1>3. /\ session[s].status = "ACTIVE" /\ session'[s].status = status
        /\ session'[s].teacher = session[s].teacher
        /\ \A x \in Sessions : x # s => session'[x] = session[x]
    BY <1>1, <1>2 DEF endSession, Session
  <1>4. \A x \in Teachers :
          teacher'[x] = IF x = session[s].teacher /\ teacher[x] = "IN_SESSION" THEN "ONLINE"
                                                                              ELSE teacher[x]
    BY <1>1 DEF releaseTeacherAfterSession
  <1>5. \A x \in Offers : Open(x)' => /\ offer'[x] = offer[x] /\ Open(x)
                                      /\ offer[x].session \in Sessions
                                      /\ offer[x].teacher \in Teachers
    BY OfferRows
  <1>6. OpenOffers'
    BY <1>3, <1>4, <1>5 DEF LocksHeld, OpenOffers
  <1>7. OpenOnce'
    BY <1>5 DEF LocksHeld, OpenOnce
  <1>8. PaidTeachers'
    <2>1. \A x \in Offers : Exists(x) => offer[x].session \in Sessions
      BY DEF TypeOK, Offer
    <2>2. \A x \in Sessions : session'[x].teacher = session[x].teacher
      BY <1>3
    <2>3. QED
      BY <2>1, <2>2 DEF LocksHeld, PaidTeachers
  <1>9. RunningTeachers'
    <2>1. \A x \in Sessions, y \in Teachers : Runs(x, y)' <=> (Runs(x, y) /\ x # s)
      BY <1>3 DEF Runs, Closed
    <2>2. Runs(s, session[s].teacher)
      BY <1>3 DEF Runs
    <2>3. ASSUME NEW t \in Teachers \ Patchers
          PROVE  /\ \A x \in Sessions : Runs(x, t)' => teacher'[t] = "IN_SESSION"
                 /\ \A x1, x2 \in Sessions : Runs(x1, t)' /\ Runs(x2, t)' => x1 = x2
                 /\ teacher'[t] = "IN_SESSION" => \E x \in Sessions : Runs(x, t)'
      <3>1. CASE t = session[s].teacher
        <4>1. \A x \in Sessions : ~Runs(x, t)'
          BY <2>1, <2>2, <2>3, <3>1 DEF LocksHeld, RunningTeachers
        <4>2. teacher'[t] # "IN_SESSION"
          BY <1>4, <3>1
        <4>3. QED
          BY <4>1, <4>2
      <3>2. CASE t # session[s].teacher
        <4>1. \A x \in Sessions : Runs(x, t)' <=> Runs(x, t)
          BY <2>1, <3>2 DEF Runs
        <4>2. teacher'[t] = teacher[t]
          BY <1>4, <3>2
        <4>3. QED
          BY <2>3, <4>1, <4>2 DEF LocksHeld, RunningTeachers
      <3>3. QED
        BY <3>1, <3>2
    <2>4. QED
      BY <2>3 DEF RunningTeachers
  <1>10. Backed'
    <2>1. \A x \in Sessions : session'[x].status = "OFFER_SENT" => session[x].status = "OFFER_SENT"
      BY <1>3 DEF Closed
    <2>2. \A x \in Teachers : teacher'[x] = "OFFER_LOCKED" => teacher[x] = "OFFER_LOCKED"
      BY <1>4
    <2>3. QED
      BY <2>1, <2>2 DEF LocksHeld, Backed
  <1>11. QED
    BY <1>6, <1>7, <1>8, <1>9, <1>10 DEF LocksHeld

-----------------------------------------------------------------------------
(* Every step keeps both invariants.                                                    *)

(* No process comes to hold an offer or lets go of one. *)
HandsSame == \A p \in Procs, o \in Offers : Holds(p, o)' <=> Holds(p, o)

LEMMA HandsFree ==
  ASSUME TypeOK, NEW p \in Procs, NEW r, Become(p, r),
         req[p].op \notin {"settle", "reread"},
         \/ r.op \notin {"expire", "settle", "reread", "status"}
         \/ r.op = "status" /\ r.teacher \in Patchers
         \/ r.op = "expire" /\ \A o \in Offers : o \in r.offers => Exists(o)
  PROVE  HandsSame /\ \A q \in Procs : Eased(q)
  <1>1. req \in [Procs -> Request]
    BY DEF TypeOK
  <1>2. req'[p] = r /\ \A q \in Procs : q # p => req'[q] = req[q]
    BY <1>1
  <1>3. HandsSame
    BY <1>2 DEF HandsSame, Holds
  <1>4. QED
    BY <1>3, HandsOn

LEMMA HandsUnchanged ==
  ASSUME UNCHANGED req
  PROVE  HandsSame /\ \A q \in Procs : Eased(q)
  BY DEF HandsSame, Holds, Eased

LEMMA SameOpens ==
  ASSUME HandsSame
  PROVE  /\ UNCHANGED offer => \A o \in Offers : Open(o)' <=> Open(o)
         /\ \A o \in Offers : offer'[o] = offer[o] => (Open(o)' <=> Open(o))
  <1>1. \A o \in Offers : BeingSettled(o)' <=> BeingSettled(o)
    BY DEF HandsSame, BeingSettled, Holds
  <1>2. QED
    BY <1>1 DEF Open

(* A step that touches neither the offers nor what is held of them. *)
LEMMA QuietStep ==
  ASSUME TypeOK, Holding, Locks, HandsSame, \A q \in Procs : Eased(q),
         UNCHANGED <<offer, history>>, TeachersStay, SessionsStay
  PROVE  Holding' /\ Locks'
  <1>1. Holding'
    BY HoldingEases, KeptRows DEF history
  <1>2. OpensStay /\ RowsStay
    BY SameOpens DEF OpensStay, RowsStay
  <1>3. QED
    BY <1>1, <1>2, LocksStay DEF Locks, history

(* A fault: a process may have lost what it held. *)
LEMMA FaultyStep ==
  ASSUME TypeOK, Holding, Locks, \A q \in Procs : Eased(q), UNCHANGED <<offer, stray>>,
         faults' = faults + 1, TeachersStay, SessionsStay
  PROVE  Holding' /\ Locks'
  <1>1. Holding'
    BY HoldingEases, KeptRows
  <1>2. faults' # 0
    BY DEF TypeOK
  <1>3. OpensStay /\ RowsStay
    BY <1>2, EasedOpens DEF OpensStay, RowsStay
  <1>4. QED
    BY <1>1, <1>2, <1>3, LocksStay DEF Locks

(* The handler's transactions that answer an offer nobody has answered. *)
LEMMA AnswersClose ==
  ASSUME TypeOK, Holding, HandsSame, NEW o \in Offers, NEW status \in OfferStatus,
         status # "PENDING", markOfferResponded(o, status)
  PROVE  /\ Open(o) /\ ~Open(o)' /\ OthersStay(o)
         /\ offer'[o].status = status
         /\ offer'[o].session = offer[o].session
         /\ offer'[o].teacher = offer[o].teacher
  <1>1. /\ offer \in [Offers -> Offer \cup {Null}]
        /\ offer[o] \in Offer /\ offer[o].status = "PENDING"
    BY DEF TypeOK, markOfferResponded
  <1>2. \A x \in Offers : offer'[x] = IF x = o THEN [offer[o] EXCEPT !.status = status]
                                               ELSE offer[x]
    BY <1>1 DEF markOfferResponded
  <1>3. /\ offer'[o].status = status
        /\ offer'[o].session = offer[o].session
        /\ offer'[o].teacher = offer[o].teacher
    BY <1>1, <1>2 DEF Offer
  <1>4. \A p \in Procs : ~Holds(p, o)
    BY <1>1 DEF Holding
  <1>5. ~BeingSettled(o)'
    BY <1>4 DEF HandsSame, BeingSettled, Holds
  <1>6. Open(o) /\ ~Open(o)'
    BY <1>3, <1>5 DEF Open, markOfferResponded
  <1>7. OthersStay(o)
    BY <1>2, SameOpens DEF OthersStay
  <1>8. QED
    BY <1>3, <1>6, <1>7

LEMMA OfferLocks ==
  ASSUME TypeOK, Holding, Locks, AcceptedOnce, OfferNext
  PROVE  Holding' /\ Locks'
  <1> USE DEF tables, profiles, money, history
  <1>1. ASSUME NEW h \in Handlers,
               \/ \E s \in Sessions, t \in Teachers : BeginSendOffer(h, s, t)
               \/ \E o \in Offers : BeginAccept(h, o) \/ BeginReject(h, o)
        PROVE  Holding' /\ Locks'
    <2>1. req[h].op = "idle" /\ h \in Procs
      BY <1>1 DEF BeginSendOffer, BeginAccept, BeginReject, Idle, Procs
    <2>2. HandsSame /\ \A q \in Procs : Eased(q)
      <3>1. ASSUME NEW s, NEW t, BeginSendOffer(h, s, t)
            PROVE  HandsSame /\ \A q \in Procs : Eased(q)
        <4>1. Become(h, [op |-> "sendOffer", session |-> s, teacher |-> t, at |-> now])
          BY <3>1 DEF BeginSendOffer
        <4>2. QED
          BY <2>1, <4>1, HandsFree
      <3>2. ASSUME NEW o, BeginAccept(h, o)
            PROVE  HandsSame /\ \A q \in Procs : Eased(q)
        <4>1. \/ Become(h, [op |-> "sweepExpired", offer |-> o])
              \/ Become(h, [op |-> "accept", offer |-> o, at |-> now])
          BY <3>2 DEF BeginAccept
        <4>2. QED
          BY <2>1, <4>1, HandsFree
      <3>3. ASSUME NEW o, BeginReject(h, o)
            PROVE  HandsSame /\ \A q \in Procs : Eased(q)
        <4>1. \/ Become(h, [op |-> "sweepExpired", offer |-> o])
              \/ Become(h, [op |-> "reject", offer |-> o])
          BY <3>3 DEF BeginReject
        <4>2. QED
          BY <2>1, <4>1, HandsFree
      <3>4. QED
        BY <1>1, <3>1, <3>2, <3>3
    <2>3. UNCHANGED <<offer, session, teacher, history>>
      BY <1>1 DEF BeginSendOffer, BeginAccept, BeginReject
    <2>4. QED
      BY <2>2, <2>3, QuietStep DEF TeachersStay, SessionsStay
  <1>2. ASSUME NEW h \in Handlers, NEW o \in Offers, SendOffer(h, o)
        PROVE  Holding' /\ Locks'
    <2>1. PICK s \in Sessions, t \in Teachers, at \in {req[h].at + OfferTtl} :
               s = req[h].session /\ t = req[h].teacher
      BY <1>2, InHand DEF SendOffer, Procs
    <2>2. /\ lockTeacherForOffer(t) /\ createOffer(o, s, t, at)
          /\ setSessionOfferSent(s, t, Price[t]) /\ UNCHANGED history
      BY <1>2, <2>1 DEF SendOffer
    <2>3. HandsSame /\ \A q \in Procs : Eased(q)
      BY <1>2, HandsFree DEF SendOffer, Idle, Procs
    <2>4. Holding'
      BY <2>2, <2>3, HoldingEases, KeptRows
    <2>5. /\ ~Exists(o)
          /\ offer'[o] = [status |-> "PENDING", session |-> s, teacher |-> t, expiresAt |-> at]
          /\ \A x \in Offers : x # o => offer'[x] = offer[x]
      BY <2>2 DEF createOffer, TypeOK
    <2>6. Open(o)'
      <3>1. offer' \in [Offers -> Offer \cup {Null}]
        BY <1>2, OfferTypes DEF OfferNext, TypeOK
      <3>2. offer'[o] # Null
        <4>1. at \in Nat
          <5>1. req[h].at \in Nat
            BY <1>2, InHand DEF SendOffer, Procs
          <5>2. QED
            BY <2>1, <5>1, ClockAssumption
        <4>2. offer'[o] \in Offer
          BY <2>5, <4>1 DEF Offer, OfferStatus
        <4>3. QED
          BY <4>2, NullAssumption
      <3>3. QED
        BY <2>5, <3>2 DEF Open
    <2>7. OthersStay(o)
      BY <2>3, <2>5, SameOpens DEF OthersStay
    <2>8. ASSUME ~stray'
          PROVE  LocksHeld'
      <3>1. LocksHeld
        BY <2>2, <2>8 DEF Locks
      <3>2. /\ offer'[o].status = "PENDING"
            /\ offer'[o].session = s
            /\ offer'[o].teacher = t
            /\ UNCHANGED faults
        BY <2>2, <2>5
      <3>3. QED
        BY <2>2, <2>5, <2>6, <2>7, <3>1, <3>2, LocksSend
    <2>9. QED
      BY <2>4, <2>8 DEF Locks
  <1>3. ASSUME NEW h \in Handlers, ActivateAcceptedOffer(h)
        PROVE  Holding' /\ Locks'
    <2>1. PICK o \in Offers : o = req[h].offer
      BY <1>3, InHand DEF ActivateAcceptedOffer, Procs
    <2>2. PICK s, t : s = offer[o].session /\ t = offer[o].teacher
      OBVIOUS
    <2>3. markOfferResponded(o, "ACCEPTED") /\ UNCHANGED history
      BY ZenonT(30), <1>3, <2>1 DEF ActivateAcceptedOffer
    <2>4. \E at, ends, used, charged : setSessionActive(s, at, ends, used, charged)
      BY ZenonT(30), <1>3, <2>1, <2>2 DEF ActivateAcceptedOffer
    <2>5. setTeacherInSession(t) /\ Become(h, [op |-> "room", session |-> s])
      BY ZenonT(30), <1>3, <2>1, <2>2 DEF ActivateAcceptedOffer
    <2>6. HandsSame /\ \A q \in Procs : Eased(q)
      <3>1. req[h].op = "accept"
        BY <1>3 DEF ActivateAcceptedOffer
      <3>2. QED
        BY <2>5, <3>1, HandsFree DEF Procs
    <2>7. Holding'
      BY <2>3, <2>6, HoldingEases, KeptRows DEF OfferStatus
    <2>8. ASSUME ~stray'
          PROVE  LocksHeld'
      <3>1. LocksHeld
        BY <2>3, <2>8 DEF Locks
      <3>2. /\ Open(o) /\ ~Open(o)' /\ OthersStay(o)
            /\ offer'[o].session = s /\ offer'[o].teacher = t
        BY <2>2, <2>3, <2>6, AnswersClose DEF OfferStatus
      <3>3. s \in Sessions /\ t \in Teachers
        BY <2>2, <3>2, OfferRows
      <3>4. /\ session'[s].status = "ACTIVE" /\ session'[s].teacher = session[s].teacher
            /\ \A x \in Sessions : x # s => session'[x] = session[x]
        <4>1. session \in [Sessions -> Session] /\ session[s] \in Session
          BY <3>3 DEF TypeOK
        <4>2. QED
          BY <2>4, <3>3, <4>1 DEF setSessionActive, Session
      <3>5. QED
        BY <2>2, <2>3, <2>5, <3>1, <3>2, <3>3, <3>4, LocksActivate
    <2>9. QED
      BY <2>7, <2>8 DEF Locks
  <1>4. ASSUME NEW h \in Handlers, RejectOffer(h) \/ SweepExpiredOffer(h)
        PROVE  Holding' /\ Locks'
    <2>1. PICK o \in Offers : o = req[h].offer
      BY <1>4, InHand DEF RejectOffer, SweepExpiredOffer, Procs
    <2>2. PICK status \in {"REJECTED", "EXPIRED"} : markOfferResponded(o, status)
      BY <1>4, <2>1 DEF RejectOffer, SweepExpiredOffer
    <2>3. /\ setSessionPending(offer[o].session)
          /\ releaseTeacherLock(offer[o].teacher)
          /\ Become(h, Idle)
          /\ UNCHANGED history
          /\ req[h].op \in {"reject", "sweepExpired"}
      BY <1>4, <2>1 DEF RejectOffer, SweepExpiredOffer
    <2>4. HandsSame /\ \A q \in Procs : Eased(q)
      BY <2>3, HandsFree DEF Procs, Idle
    <2>5. Holding'
      BY <2>2, <2>3, <2>4, HoldingEases, KeptRows DEF OfferStatus
    <2>6. ASSUME ~stray'
          PROVE  LocksHeld'
      <3>1. LocksHeld
        BY <2>3, <2>6 DEF Locks
      <3>2. Open(o) /\ ~Open(o)' /\ OthersStay(o) /\ offer'[o].status # "ACCEPTED"
        BY <2>2, <2>4, AnswersClose DEF OfferStatus
      <3>3. QED
        BY <2>3, <3>1, <3>2, LocksWithdraw
    <2>7. QED
      BY <2>5, <2>6 DEF Locks
  <1>5. ASSUME NEW p \in Procs, BeginExpiry(p)
        PROVE  Holding' /\ Locks'
    <2>1. HandsSame /\ \A q \in Procs : Eased(q)
      BY <1>5, HandsFree DEF BeginExpiry, ExpiredBefore, Idle
    <2>2. UNCHANGED <<offer, session, teacher, history>>
      BY <1>5 DEF BeginExpiry
    <2>3. QED
      BY <2>1, <2>2, QuietStep DEF TeachersStay, SessionsStay
  <1>6. ASSUME NEW p \in Procs, ExpireOffers(p)
        PROVE  Holding' /\ Locks'
    <2>1. Holding' /\ OpensStay /\ RowsStay
      BY <1>6, ExpiryHolds DEF OpensStay, RowsStay
    <2>2. TeachersStay /\ SessionsStay /\ UNCHANGED history
      BY <1>6 DEF ExpireOffers, TeachersStay, SessionsStay
    <2>3. QED
      BY <2>1, <2>2, LocksStay DEF Locks
  <1>7. ASSUME NEW p \in Procs, RereadExpired(p)
        PROVE  Holding' /\ Locks'
    <2>1. TeachersStay /\ SessionsStay /\ RowsStay /\ UNCHANGED faults
      BY <1>7 DEF RereadExpired, TeachersStay, SessionsStay, RowsStay
    <2>2. Holding' /\ (~stray' => ~stray /\ OpensStay)
      BY <1>7, RereadHolds DEF OpensStay
    <2>3. QED
      BY <2>1, <2>2, LocksStay DEF Locks
  <1>8. ASSUME NEW p \in Procs, NEW o \in Offers, SettleExpiredOffer(p, o)
        PROVE  Holding' /\ Locks'
    <2>1. /\ At(p, "settle") /\ o \in req[p].offers
          /\ setSessionPending(offer[o].session)
          /\ releaseTeacherLock(offer[o].teacher)
          /\ DropFromSweep(p, o)
          /\ UNCHANGED offer /\ UNCHANGED history
      BY <1>8 DEF SettleExpiredOffer
    <2>2. \A q \in Procs : Eased(q)
      BY <2>1, Drops
    <2>3. Holding'
      BY <2>1, <2>2, HoldingEases, KeptRows
    <2>4. /\ ~Holds(p, o)'
          /\ \A q \in Procs, x \in Offers : q # p \/ x # o => (Holds(q, x)' <=> Holds(q, x))
      BY <2>1, Dropped
    <2>5. ASSUME ~stray'
          PROVE  LocksHeld'
      <3>1. LocksHeld
        BY <2>1, <2>5 DEF Locks
      <3>2. Holds(p, o)
        BY <2>1 DEF Holds
      <3>3. Exists(o) /\ offer[o].status = "EXPIRED"
        BY <3>2 DEF Holding
      <3>4. Open(o)
        BY <3>2, <3>3 DEF Open, BeingSettled, Holds
      <3>5. \A q \in Procs : ~Holds(q, o)'
        BY <2>1, <2>4, <2>5, <3>2 DEF Holding
      <3>6. ~Open(o)'
        BY <2>1, <3>3, <3>5 DEF Open, BeingSettled, Holds
      <3>7. ASSUME NEW x \in Offers, x # o
            PROVE  offer'[x] = offer[x] /\ (Open(x)' <=> Open(x))
        <4>1. \A q \in Procs : Holds(q, x)' <=> Holds(q, x)
          BY <2>4, <3>7
        <4>2. BeingSettled(x)' <=> BeingSettled(x)
          BY <4>1 DEF BeingSettled, Holds
        <4>3. QED
          BY <2>1, <4>2 DEF Open
      <3>8. QED
        BY <2>1, <3>1, <3>3, <3>4, <3>6, <3>7, LocksWithdraw DEF OthersStay
    <2>6. QED
      BY <2>3, <2>5 DEF Locks
  <1>9. ASSUME NEW p \in Procs, NEW o \in Offers, SettleFails(p, o)
        PROVE  Holding' /\ Locks'
    <2>1. /\ At(p, "settle") /\ DropFromSweep(p, o) /\ UNCHANGED tables /\ UNCHANGED stray
          /\ faults' = faults + 1 /\ faults \in Nat
      BY <1>9 DEF SettleFails, TypeOK
    <2>2. \A q \in Procs : Eased(q)
      BY <2>1, Drops
    <2>3. Holding'
      BY <2>1, <2>2, HoldingEases, KeptRows
    <2>4. \A x \in Offers : Open(x)' => Open(x)
      BY <2>1, <2>2, EasedOpens
    <2>5. faults' # 0
      BY <2>1
    <2>6. OpensStay /\ RowsStay /\ TeachersStay /\ SessionsStay
      BY <2>1, <2>4, <2>5 DEF OpensStay, RowsStay, TeachersStay, SessionsStay
    <2>7. QED
      BY <2>1, <2>3, <2>5, <2>6, LocksStay DEF Locks
  <1>10. QED
    BY <1>1, <1>2, <1>3, <1>4, <1>5, <1>6, <1>7, <1>8, <1>9 DEF OfferNext

LEMMA DropsFromAutoEnd ==
  ASSUME TypeOK, NEW s, At(Cron, "autoEnd"), DropFromAutoEnd(s)
  PROVE  HandsSame /\ \A q \in Procs : Eased(q)
  <1>1. CASE req[Cron].sessions = {s}
    BY <1>1, HandsFree DEF DropFromAutoEnd, Idle, Procs
  <1>2. CASE req[Cron].sessions # {s}
    <2>1. req[Cron] = [op |-> "autoEnd", sessions |-> req[Cron].sessions]
      BY InHand DEF Procs
    <2>2. PICK r : r = [req[Cron] EXCEPT !.sessions = req[Cron].sessions \ {s}]
      OBVIOUS
    <2>3. r.op = "autoEnd"
      BY <2>1, <2>2
    <2>4. Become(Cron, r)
      BY <1>2, <2>2 DEF DropFromAutoEnd
    <2>5. QED
      BY <2>3, <2>4, HandsFree DEF Procs
  <1>3. QED
    BY <1>1, <1>2

(* The two ways to close a session, seen from the locks. *)
LEMMA ClosingLocks ==
  ASSUME TypeOK, Holding, Locks, NEW s \in Sessions, NEW status \in Closed, NEW reason, NEW fee,
         NEW earning, NEW m, NEW n,
         endSession(s, status, reason, fee, earning),
         releaseTeacherAfterSession(session[s].teacher, m, n),
         UNCHANGED <<offer, history>>, HandsSame, \A q \in Procs : Eased(q)
  PROVE  Holding' /\ Locks'
  <1>1. Holding'
    BY HoldingEases, KeptRows DEF history
  <1>2. \A o \in Offers : Open(o)' <=> Open(o)
    BY SameOpens
  <1>3. ASSUME ~stray'
        PROVE  LocksHeld'
    BY <1>2, <1>3, LocksClose DEF Locks, history
  <1>4. QED
    BY <1>1, <1>3 DEF Locks

LEMMA SessionLocks ==
  ASSUME TypeOK, Holding, Locks, SessionNext
  PROVE  Holding' /\ Locks'
  <1> USE DEF tables, profiles, money, history
  <1>1. ASSUME NEW h \in Handlers, NEW s \in Sessions, BeginExtend(h, s) \/ BeginRepairVideo(h, s)
        PROVE  Holding' /\ Locks'
    <2>1. req[h].op = "idle" /\ h \in Procs /\ UNCHANGED <<offer, session, teacher, history>>
      BY <1>1 DEF BeginExtend, BeginRepairVideo, Idle, Procs
    <2>2. \/ Become(h, [op |-> "extend", session |-> s, endsAt |-> session[s].endsAt])
          \/ Become(h, [op |-> "room", session |-> s])
      BY <1>1 DEF BeginExtend, BeginRepairVideo
    <2>3. HandsSame /\ \A q \in Procs : Eased(q)
      BY <2>1, <2>2, HandsFree
    <2>4. QED
      BY <2>1, <2>3, QuietStep DEF TeachersStay, SessionsStay
  <1>2. ASSUME NEW h \in Handlers, ExtendSessionBlock(h)
        PROVE  Holding' /\ Locks'
    <2>1. /\ At(h, "extend") /\ Finish(h) /\ UNCHANGED <<offer, teacher, history>>
          /\ \E s, e, ends, used, charged : extendSession(s, e, ends, used, charged)
      BY <1>2 DEF ExtendSessionBlock
    <2>2. HandsSame /\ \A q \in Procs : Eased(q)
      BY <2>1, HandsFree DEF Idle, Procs
    <2>3. SessionsStay
      BY <2>1 DEF extendSession, SessionsStay, TypeOK, Session
    <2>4. QED
      BY <2>1, <2>2, <2>3, QuietStep DEF TeachersStay
  <1>3. ASSUME NEW h \in Handlers, AttachSessionVideo(h)
        PROVE  Holding' /\ Locks'
    <2>1. /\ At(h, "room") /\ Finish(h) /\ UNCHANGED <<offer, teacher, history>>
          /\ \E s : setSessionVideoRoom(s)
      BY <1>3 DEF AttachSessionVideo
    <2>2. HandsSame /\ \A q \in Procs : Eased(q)
      BY <2>1, HandsFree DEF Idle, Procs
    <2>3. SessionsStay
      BY <2>1 DEF setSessionVideoRoom, SessionsStay, TypeOK, Session
    <2>4. QED
      BY <2>1, <2>2, <2>3, QuietStep DEF TeachersStay
  <1>4. ASSUME NEW s \in Sessions, NEW reason, NEW actor, NEW at,
               terminateSession(s, reason, actor, at), HandsSame, \A q \in Procs : Eased(q)
        PROVE  Holding' /\ Locks'
    <2>1. /\ \E why, fee, earning : endSession(s, "ENDED", why, fee, earning)
          /\ releaseTeacherAfterSession(session[s].teacher, 1, 0)
          /\ UNCHANGED <<offer, history>>
      BY <1>4 DEF terminateSession
    <2>2. QED
      BY <1>4, <2>1, ClosingLocks DEF Closed
  <1>5. ASSUME NEW s \in Sessions, NEW at, NEW actor, EndSession(s, actor, at)
        PROVE  Holding' /\ Locks'
    BY <1>4, <1>5, HandsUnchanged DEF EndSession
  <1>6. ASSUME NEW s \in Sessions, AutoEnd(s)
        PROVE  Holding' /\ Locks'
    BY <1>4, <1>6, DropsFromAutoEnd DEF AutoEnd
  <1>7. ASSUME NEW s \in Sessions, NEW at, ReportNoShow(s, at)
        PROVE  Holding' /\ Locks'
    <2>1. /\ endSession(s, "NO_SHOW", "teacher_no_show", 0, 0)
          /\ releaseTeacherAfterSession(session[s].teacher, 0, 1)
          /\ UNCHANGED <<offer, history, req>>
      BY <1>7 DEF ReportNoShow
    <2>2. QED
      BY <2>1, ClosingLocks, HandsUnchanged DEF Closed
  <1>8. ASSUME FindDueForAutoEnd
        PROVE  Holding' /\ Locks'
    <2>1. UNCHANGED <<offer, session, teacher, history>> /\ req[Cron].op \in {"idle", "findDue"}
      BY <1>8 DEF FindDueForAutoEnd, Idle
    <2>2. \/ Become(Cron, [op |-> "idle"])
          \/ Become(Cron, [op |-> "autoEnd", sessions |-> findSessionsDueForAutoEnd])
      BY <1>8 DEF FindDueForAutoEnd, Idle
    <2>3. HandsSame /\ \A q \in Procs : Eased(q)
      BY <2>1, <2>2, HandsFree DEF Procs
    <2>4. QED
      BY <2>1, <2>3, QuietStep DEF TeachersStay, SessionsStay
  <1>9. ASSUME NEW s \in Sessions, AutoEndTooLate(s)
        PROVE  Holding' /\ Locks'
    <2>1. HandsSame /\ \A q \in Procs : Eased(q)
      BY <1>9, DropsFromAutoEnd DEF AutoEndTooLate
    <2>2. UNCHANGED <<offer, session, teacher, history>>
      BY <1>9 DEF AutoEndTooLate
    <2>3. QED
      BY <2>1, <2>2, QuietStep DEF TeachersStay, SessionsStay
  <1>10. ASSUME NEW s \in Sessions, AutoEndFails(s)
         PROVE  Holding' /\ Locks'
    <2>1. HandsSame /\ \A q \in Procs : Eased(q)
      BY <1>10, DropsFromAutoEnd DEF AutoEndFails
    <2>2. UNCHANGED <<offer, session, teacher, stray>> /\ faults' = faults + 1 /\ faults \in Nat
      BY <1>10 DEF AutoEndFails, TypeOK
    <2>3. QED
      BY <2>1, <2>2, FaultyStep DEF TeachersStay, SessionsStay
  <1>11. ASSUME NEW s \in Sessions, NEW stars, SubmitReview(s, stars)
         PROVE  Holding' /\ Locks'
    <2>1. setSessionRated(s) /\ UNCHANGED <<offer, teacher, req, history>>
      BY <1>11 DEF SubmitReview
    <2>2. SessionsStay
      BY <2>1 DEF setSessionRated, SessionsStay, TypeOK, Session
    <2>3. QED
      BY <2>1, <2>2, HandsUnchanged, QuietStep DEF TeachersStay
  <1>12. ASSUME NEW u, NEW amount, TopUp(u, amount)
         PROVE  Holding' /\ Locks'
    <2>1. UNCHANGED <<offer, session, teacher, req, history>>
      BY <1>12 DEF TopUp
    <2>2. QED
      BY <2>1, HandsUnchanged, QuietStep DEF TeachersStay, SessionsStay
  <1>13. QED
    BY <1>1, <1>2, <1>3, <1>5, <1>6, <1>7, <1>8, <1>9, <1>10, <1>11, <1>12 DEF SessionNext

LEMMA LockSteps ==
  ASSUME TypeOK, Holding, Locks, AcceptedOnce, [Next]_vars
  PROVE  Holding' /\ Locks'
  <1> USE DEF tables, profiles, money, history
  <1>1. ASSUME NEW h \in Handlers, NEW t \in Teachers, NEW next, BeginUpdateStatus(h, t, next)
        PROVE  Holding' /\ Locks'
    <2>1. /\ UNCHANGED <<offer, session, teacher, history>> /\ req[h].op = "idle"
          /\ Become(h, [op |-> "status", teacher |-> t, next |-> next]) /\ t \in Patchers
      BY <1>1 DEF BeginUpdateStatus, Idle
    <2>2. HandsSame /\ \A q \in Procs : Eased(q)
      BY <2>1, HandsFree DEF Procs
    <2>3. QED
      BY <2>1, <2>2, QuietStep DEF TeachersStay, SessionsStay
  <1>2. ASSUME NEW h \in Handlers, UpdateTeacherProfile(h)
        PROVE  Holding' /\ Locks'
    <2>1. /\ UNCHANGED <<offer, session, history>> /\ At(h, "status") /\ Finish(h)
          /\ teacher' = [teacher EXCEPT ![req[h].teacher] = req[h].next]
      BY <1>2 DEF UpdateTeacherProfile
    <2>2. req[h].teacher \in Patchers /\ req[h].next \in {"ONLINE", "OFFLINE"}
      BY <2>1, InHand DEF Holding, Procs
    <2>3. HandsSame /\ \A q \in Procs : Eased(q)
      BY <2>1, HandsFree DEF Idle, Procs
    <2>4. TeachersStay
      BY <2>1, <2>2 DEF TeachersStay, TypeOK
    <2>5. QED
      BY <2>1, <2>3, <2>4, QuietStep DEF SessionsStay
  <1>3. ASSUME NEW t \in Teachers, TakeTeacherOffline(t)
        PROVE  Holding' /\ Locks'
    <2>1. UNCHANGED <<offer, session, req, history>> /\ TeachersStay
      BY <1>3 DEF TakeTeacherOffline, TeachersStay, TypeOK
    <2>2. QED
      BY <2>1, HandsUnchanged, QuietStep DEF SessionsStay
  <1>4. ASSUME NEW h \in Handlers, Fail(h)
        PROVE  Holding' /\ Locks'
    <2>1. /\ UNCHANGED <<offer, session, teacher, history>> /\ Finish(h)
          /\ req[h].op \notin {"settle", "reread"}
      BY <1>4 DEF Fail, Rollbackable
    <2>2. HandsSame /\ \A q \in Procs : Eased(q)
      BY <2>1, HandsFree DEF Idle, Procs
    <2>3. QED
      BY <2>1, <2>2, QuietStep DEF TeachersStay, SessionsStay
  <1>5. ASSUME Restart
        PROVE  Holding' /\ Locks'
    <2>1. /\ UNCHANGED <<offer, session, teacher, stray>>
          /\ faults' = faults + 1 /\ faults \in Nat
          /\ \A p \in Procs : req'[p] = Idle
      BY <1>5 DEF Restart, TypeOK
    <2>2. \A p \in Procs : Eased(p)
      BY <2>1 DEF Eased, Idle
    <2>3. QED
      BY <2>1, <2>2, FaultyStep DEF TeachersStay, SessionsStay
  <1>6. CASE Tick \/ UNCHANGED vars
    <2>1. UNCHANGED <<offer, session, teacher, req, history>>
      BY <1>6 DEF Tick, vars
    <2>2. QED
      BY <2>1, HandsUnchanged, QuietStep DEF TeachersStay, SessionsStay
  <1>7. QED
    BY <1>1, <1>2, <1>3, <1>4, <1>5, <1>6, OfferLocks, SessionLocks DEF Next, TeacherNext

-----------------------------------------------------------------------------
(* The promises.                                                                        *)

LEMMA LocksInvariant == Spec => [](TypeOK /\ Holding /\ Locks)
  <1>1. Init => Holding /\ Locks
    <2>1. ASSUME Init
          PROVE  Holding /\ Locks
      <3>1. /\ \A p \in Procs : req[p] = [op |-> "idle"]
            /\ \A o \in Offers : ~Exists(o)
            /\ \A s \in Sessions : session[s].status = "PENDING"
            /\ \A t \in Teachers : teacher[t] = "ONLINE"
        BY <2>1 DEF Init, TablesInit, RequestsInit, Idle, newSession
      <3>2. \A o \in Offers : ~Open(o)
        BY <3>1 DEF Open
      <3>3. Holding
        BY <3>1 DEF Holding, Holds
      <3>4. LocksHeld
        BY <3>1, <3>2 DEF LocksHeld, OpenOffers, OpenOnce, PaidTeachers, RunningTeachers, Backed,
                          Runs
      <3>5. QED
        BY <3>3, <3>4 DEF Locks
    <2>2. QED
      BY <2>1
  <1>2. TypeOK /\ Holding /\ Locks /\ AcceptedOnce /\ [Next]_vars => Holding' /\ Locks'
    BY LockSteps
  <1>3. QED
    BY <1>1, <1>2, TypeInvariant, AcceptsOnce, PTL DEF Spec

(* The teacher a session names, whom it will pay, is the teacher who accepted it, as    *)
(* long as no sweep took over an offer it had not expired; and the session starts       *)
(* before that offer's deadline, come what may.                                         *)
THEOREM PaysTheTeacherWhoAccepted == Spec => []PaysWhoAccepted
  <1>1. TypeOK /\ Holding /\ Locks /\ InTime => PaysWhoAccepted
    BY DEF Locks, LocksHeld, PaidTeachers, InTime, PaysWhoAccepted, AcceptedFor, OffersOf
  <1>2. QED
    BY <1>1, LocksInvariant, StartsInTime, PTL

LEMMA OneElement ==
  ASSUME NEW S, NEW x \in S, \A y \in S : y = x
  PROVE  Cardinality(S) = 1
  <1>1. S = {x}
    OBVIOUS
  <1>2. QED
    BY <1>1, FS_Singleton

LEMMA NoElement ==
  ASSUME NEW S, \A x \in S : FALSE
  PROVE  Cardinality(S) = 0
  <1>1. S = {}
    OBVIOUS
  <1>2. QED
    BY <1>1, FS_EmptySet

(* A session that awaits an answer has exactly one open offer, to the teacher it names; *)
(* any other session has none.                                                          *)
THEOREM OneOfferIsOpen == Spec => []OneOpenOffer
  <1>1. ASSUME TypeOK, Locks, Undisturbed, NEW s \in Sessions
        PROVE  LET open == {o \in OffersOf(s) : Open(o)} IN
               /\ session[s].status = "OFFER_SENT" =>
                    Cardinality(open) = 1 /\ \A o \in open : offer[o].teacher = session[s].teacher
               /\ session[s].status # "OFFER_SENT" => open = {}
    <2> DEFINE open == {o \in OffersOf(s) : Open(o)}
    <2>1. LocksHeld /\ faults = 0
      BY <1>1 DEF Locks, Undisturbed
    <2>2. \A o \in open : /\ o \in Offers /\ Open(o) /\ offer[o].session = s
                          /\ session[s].status = "OFFER_SENT"
                          /\ offer[o].teacher = session[s].teacher
      BY <2>1 DEF OffersOf, LocksHeld, OpenOffers
    <2>3. \A x, y \in open : x = y
      BY <2>1, <2>2 DEF LocksHeld, OpenOnce
    <2>4. ASSUME session[s].status = "OFFER_SENT"
          PROVE  Cardinality(open) = 1
      <3>1. PICK o \in Offers : Open(o) /\ offer[o].session = s
        BY <2>1, <2>4 DEF LocksHeld, Backed
      <3>2. o \in open
        BY <3>1 DEF OffersOf, Open
      <3>3. QED
        BY <2>3, <3>2, OneElement
    <2>5. QED
      BY <2>2, <2>4
  <1>2. TypeOK /\ Holding /\ Locks => OneOpenOffer
    BY <1>1 DEF OneOpenOffer
  <1>3. QED
    BY <1>2, LocksInvariant, PTL

(* A teacher is locked exactly while one open offer is out to them.                     *)
THEOREM LocksAreBacked == Spec => []LockBacked
  <1>1. ASSUME TypeOK, Locks, Undisturbed, NEW t \in Teachers \ Patchers
        PROVE  Cardinality({o \in OffersTo(t) : Open(o)})
                 = IF teacher[t] = "OFFER_LOCKED" THEN 1 ELSE 0
    <2> DEFINE open == {o \in OffersTo(t) : Open(o)}
    <2>1. LocksHeld /\ faults = 0
      BY <1>1 DEF Locks, Undisturbed
    <2>2. \A o \in open : /\ o \in Offers /\ Open(o) /\ offer[o].teacher = t
                          /\ teacher[t] = "OFFER_LOCKED"
      BY <1>1, <2>1 DEF OffersTo, LocksHeld, OpenOffers
    <2>3. \A x, y \in open : x = y
      BY <1>1, <2>1, <2>2 DEF LocksHeld, OpenOnce
    <2>4. CASE teacher[t] = "OFFER_LOCKED"
      <3>1. PICK o \in Offers : Open(o) /\ offer[o].teacher = t
        BY <1>1, <2>1, <2>4 DEF LocksHeld, Backed
      <3>2. o \in open
        BY <3>1 DEF OffersTo, Open
      <3>3. Cardinality(open) = 1
        BY <2>3, <3>2, OneElement
      <3>4. QED
        BY <2>4, <3>3
    <2>5. CASE teacher[t] # "OFFER_LOCKED"
      <3>1. Cardinality(open) = 0
        BY <2>2, <2>5, NoElement
      <3>2. QED
        BY <2>5, <3>1
    <2>6. QED
      BY <2>4, <2>5
  <1>2. TypeOK /\ Holding /\ Locks => LockBacked
    BY <1>1 DEF LockBacked
  <1>3. QED
    BY <1>2, LocksInvariant, PTL

(* A teacher is in session exactly while one session they accepted is running.          *)
THEOREM InSessionsAreBacked == Spec => []InSessionBacked
  <1>1. ASSUME Locks, ~stray, NEW t \in Teachers \ Patchers
        PROVE  Cardinality({s \in Sessions : session[s].status = "ACTIVE"
                                              /\ session[s].teacher = t})
                 = IF teacher[t] = "IN_SESSION" THEN 1 ELSE 0
    <2> DEFINE running == {s \in Sessions : session[s].status = "ACTIVE"
                                            /\ session[s].teacher = t}
    <2>1. /\ \A s \in running : s \in Sessions /\ Runs(s, t)
          /\ \A s \in Sessions : Runs(s, t) => s \in running
      BY DEF Runs
    <2>2. /\ \A s \in Sessions : Runs(s, t) => teacher[t] = "IN_SESSION"
          /\ \A s1, s2 \in Sessions : Runs(s1, t) /\ Runs(s2, t) => s1 = s2
          /\ teacher[t] = "IN_SESSION" => \E s \in Sessions : Runs(s, t)
      BY <1>1 DEF Locks, LocksHeld, RunningTeachers
    <2> HIDE DEF running
    <2>3. CASE teacher[t] = "IN_SESSION"
      <3>1. PICK s \in running : TRUE
        BY <2>1, <2>2, <2>3
      <3>2. Cardinality(running) = 1
        BY <2>1, <2>2, <3>1, OneElement
      <3>3. QED
        BY <2>3, <3>2 DEF running
    <2>4. CASE teacher[t] # "IN_SESSION"
      <3>1. Cardinality(running) = 0
        BY <2>1, <2>2, <2>4, NoElement
      <3>2. QED
        BY <2>4, <3>1 DEF running
    <2>5. QED
      BY <2>3, <2>4
  <1>2. TypeOK /\ Holding /\ Locks => InSessionBacked
    BY <1>1 DEF InSessionBacked
  <1>3. QED
    BY <1>2, LocksInvariant, PTL

(* What the comment "a teacher has at most one PENDING offer" (session.offer.service.js) *)
(* is true of: the teachers who do not edit their own status, until a sweep strays.     *)
THEOREM OneOfferIsPending ==
  Spec => [](~stray => \A t \in Teachers \ Patchers :
                         Cardinality({o \in OffersTo(t) : Unanswered(o)}) <= 1)
  <1>1. ASSUME Locks, ~stray, NEW t \in Teachers \ Patchers
        PROVE  Cardinality({o \in OffersTo(t) : Unanswered(o)}) <= 1
    <2> DEFINE pending == {o \in OffersTo(t) : Unanswered(o)}
    <2>1. \A x, y \in pending : x = y
      BY <1>1 DEF Locks, LocksHeld, OpenOnce, OffersTo, Open
    <2> HIDE DEF pending
    <2>2. ASSUME NEW o \in pending
          PROVE  Cardinality(pending) = 1
      BY <2>1, OneElement
    <2>3. Cardinality(pending) = 0 \/ Cardinality(pending) = 1
      BY <2>2, FS_EmptySet
    <2>4. Cardinality(pending) <= 1
      BY <2>3
    <2>5. QED
      BY <2>4 DEF pending
  <1>2. Locks => (~stray => \A t \in Teachers \ Patchers :
                              Cardinality({o \in OffersTo(t) : Unanswered(o)}) <= 1)
    BY <1>1
  <1>3. QED
    BY <1>2, LocksInvariant, PTL

(* What the comment that a second sweep "would be harmless" (offer.expiry.job.js) is    *)
(* true of: a session goes back to PENDING under an offer that can still be answered    *)
(* only once a sweep has strayed or a settlement was lost.                              *)
THEOREM SweepsHarmOnlyAstray ==
  Spec => [][\A s \in Sessions :
               session[s].status = "OFFER_SENT" /\ session'[s].status = "PENDING" /\ Undisturbed' =>
                 \A o \in Offers : offer'[o] # Null /\ offer'[o].session = s =>
                                     offer'[o].status # "PENDING"]_vars
  <1>1. ASSUME OneOpenOffer', Undisturbed', NEW s \in Sessions, session'[s].status = "PENDING",
               NEW o \in Offers, offer'[o] # Null, offer'[o].session = s
        PROVE  offer'[o].status # "PENDING"
    <2>1. {x \in OffersOf(s) : Open(x)}' = {}
      BY <1>1 DEF OneOpenOffer
    <2>2. ~Open(o)'
      BY <1>1, <2>1 DEF OffersOf
    <2>3. QED
      BY <1>1, <2>2 DEF Open
  <1>2. OneOpenOffer' =>
          [\A s \in Sessions :
             session[s].status = "OFFER_SENT" /\ session'[s].status = "PENDING" /\ Undisturbed' =>
               \A o \in Offers : offer'[o] # Null /\ offer'[o].session = s =>
                                   offer'[o].status # "PENDING"]_vars
    BY <1>1
  <1>3. QED
    BY <1>2, OneOfferIsOpen, PTL

-----------------------------------------------------------------------------
(* The desks.  Every step either leaves teachers and sessions where they are, or is one *)
(* of four moves of one session and one teacher.                                        *)
Sends(s, t) == (\E price : setSessionOfferSent(s, t, price)) /\ lockTeacherForOffer(t)

Withdraws(o) ==
  Open(o) /\ setSessionPending(offer[o].session) /\ releaseTeacherLock(offer[o].teacher)

Accepts(o) ==
  /\ Open(o)
  /\ \E at, ends, used, charged : setSessionActive(offer[o].session, at, ends, used, charged)
  /\ setTeacherInSession(offer[o].teacher)

Closes(s) ==
  /\ \E status \in Closed : \E why, fee, earning : endSession(s, status, why, fee, earning)
  /\ \E m, n : releaseTeacherAfterSession(session[s].teacher, m, n)

Move ==
  \/ TeachersStay /\ SessionsStay
  \/ \E s \in Sessions, t \in Teachers : Sends(s, t)
  \/ \E o \in Offers : Withdraws(o) \/ Accepts(o)
  \/ \E s \in Sessions : Closes(s)

LEMMA OfferMoves ==
  ASSUME TypeOK, Holding, OfferNext
  PROVE  Move /\ (stray => stray')
  <1> USE DEF history
  <1>1. ASSUME UNCHANGED <<session, teacher>>
        PROVE  Move
    BY <1>1 DEF Move, TeachersStay, SessionsStay
  <1>2. ASSUME NEW h \in Handlers,
               \/ \E s \in Sessions, t \in Teachers : BeginSendOffer(h, s, t)
               \/ \E o \in Offers : BeginAccept(h, o) \/ BeginReject(h, o)
        PROVE  UNCHANGED <<session, teacher, stray>>
    BY <1>2 DEF BeginSendOffer, BeginAccept, BeginReject, tables
  <1>3. ASSUME NEW h \in Handlers, NEW o \in Offers, SendOffer(h, o)
        PROVE  Move /\ UNCHANGED stray
    <2>1. PICK s \in Sessions, t \in Teachers : s = req[h].session /\ t = req[h].teacher
      BY <1>3, InHand DEF SendOffer, Procs
    <2>2. Sends(s, t) /\ UNCHANGED stray
      BY <1>3, <2>1 DEF SendOffer, Sends
    <2>3. QED
      BY <2>2 DEF Move
  <1>4. ASSUME NEW h \in Handlers, ActivateAcceptedOffer(h)
        PROVE  Move /\ UNCHANGED stray
    <2>1. PICK o \in Offers : o = req[h].offer
      BY <1>4, InHand DEF ActivateAcceptedOffer, Procs
    <2>2. Unanswered(o) /\ setTeacherInSession(offer[o].teacher) /\ UNCHANGED stray
      BY ZenonT(30), <1>4, <2>1 DEF ActivateAcceptedOffer, markOfferResponded
    <2>3. \E at, ends, used, charged :
            setSessionActive(offer[o].session, at, ends, used, charged)
      BY ZenonT(30), <1>4, <2>1 DEF ActivateAcceptedOffer
    <2>4. Accepts(o)
      BY <2>2, <2>3 DEF Accepts, Open
    <2>5. QED
      BY <2>2, <2>4 DEF Move
  <1>5. ASSUME NEW h \in Handlers, RejectOffer(h) \/ SweepExpiredOffer(h)
        PROVE  Move /\ UNCHANGED stray
    <2>1. PICK o \in Offers : o = req[h].offer
      BY <1>5, InHand DEF RejectOffer, SweepExpiredOffer, Procs
    <2>2. /\ Unanswered(o) /\ setSessionPending(offer[o].session)
          /\ releaseTeacherLock(offer[o].teacher) /\ UNCHANGED stray
      BY <1>5, <2>1 DEF RejectOffer, SweepExpiredOffer, markOfferResponded
    <2>3. Withdraws(o)
      BY <2>2 DEF Withdraws, Open
    <2>4. QED
      BY <2>2, <2>3 DEF Move
  <1>6. ASSUME NEW p \in Procs, BeginExpiry(p) \/ ExpireOffers(p)
        PROVE  UNCHANGED <<session, teacher, stray>>
    BY <1>6 DEF BeginExpiry, ExpireOffers, tables, profiles
  <1>7. ASSUME NEW p \in Procs, RereadExpired(p)
        PROVE  UNCHANGED <<session, teacher>> /\ (stray => stray')
    BY <1>7 DEF RereadExpired, tables
  <1>8. ASSUME NEW p \in Procs, NEW o \in Offers, SettleExpiredOffer(p, o)
        PROVE  Move /\ UNCHANGED stray
    <2>1. /\ Holds(p, o) /\ setSessionPending(offer[o].session)
          /\ releaseTeacherLock(offer[o].teacher) /\ UNCHANGED stray
      BY <1>8 DEF SettleExpiredOffer, Holds
    <2>2. Open(o)
      BY <2>1 DEF Holding, Open, BeingSettled, Holds
    <2>3. QED
      BY <2>1, <2>2 DEF Withdraws, Move
  <1>9. ASSUME NEW p \in Procs, NEW o \in Offers, SettleFails(p, o)
        PROVE  UNCHANGED <<session, teacher, stray>>
    BY <1>9 DEF SettleFails, tables
  <1>10. QED
    BY <1>1, <1>2, <1>3, <1>4, <1>5, <1>6, <1>7, <1>8, <1>9 DEF OfferNext

LEMMA SessionMoves ==
  ASSUME TypeOK, SessionNext
  PROVE  Move /\ UNCHANGED stray
  <1> USE DEF history, profiles
  <1>1. ASSUME UNCHANGED <<session, teacher>>
        PROVE  Move
    BY <1>1 DEF Move, TeachersStay, SessionsStay
  <1>2. ASSUME NEW h \in Handlers, NEW s \in Sessions, BeginExtend(h, s) \/ BeginRepairVideo(h, s)
        PROVE  UNCHANGED <<session, teacher, stray>>
    BY <1>2 DEF BeginExtend, BeginRepairVideo, tables
  <1>3. ASSUME NEW h \in Handlers, ExtendSessionBlock(h) \/ AttachSessionVideo(h)
        PROVE  TeachersStay /\ SessionsStay /\ UNCHANGED stray
    <2>1. UNCHANGED <<teacher, stray>>
      BY <1>3 DEF ExtendSessionBlock, AttachSessionVideo
    <2>2. \/ \E s, e, ends, used, charged : extendSession(s, e, ends, used, charged)
          \/ \E s : setSessionVideoRoom(s)
      BY <1>3 DEF ExtendSessionBlock, AttachSessionVideo
    <2>3. SessionsStay
      <3>1. CASE \E s, e, ends, used, charged : extendSession(s, e, ends, used, charged)
        BY <3>1 DEF extendSession, SessionsStay, TypeOK, Session
      <3>2. CASE \E s : setSessionVideoRoom(s)
        BY <3>2 DEF setSessionVideoRoom, SessionsStay, TypeOK, Session
      <3>3. QED
        BY <2>2, <3>1, <3>2
    <2>4. QED
      BY <2>1, <2>3 DEF TeachersStay
  <1>4. ASSUME NEW s \in Sessions, NEW reason, NEW actor, NEW at,
               terminateSession(s, reason, actor, at)
        PROVE  Closes(s) /\ UNCHANGED stray
    BY <1>4 DEF terminateSession, Closes, Closed
  <1>5. ASSUME NEW s \in Sessions, NEW at, NEW actor, EndSession(s, actor, at) \/ AutoEnd(s)
        PROVE  Closes(s) /\ UNCHANGED stray
    BY <1>4, <1>5 DEF EndSession, AutoEnd
  <1>6. ASSUME NEW s \in Sessions, NEW at, ReportNoShow(s, at)
        PROVE  Closes(s) /\ UNCHANGED stray
    BY <1>6 DEF ReportNoShow, Closes, Closed
  <1>7. ASSUME FindDueForAutoEnd \/ \E s \in Sessions : AutoEndTooLate(s) \/ AutoEndFails(s)
        PROVE  UNCHANGED <<session, teacher, stray>>
    BY <1>7 DEF FindDueForAutoEnd, AutoEndTooLate, AutoEndFails, tables
  <1>8. ASSUME NEW s \in Sessions, NEW stars, SubmitReview(s, stars)
        PROVE  TeachersStay /\ SessionsStay /\ UNCHANGED stray
    <2>1. setSessionRated(s) /\ UNCHANGED <<teacher, stray>>
      BY <1>8 DEF SubmitReview
    <2>2. SessionsStay
      BY <2>1 DEF setSessionRated, SessionsStay, TypeOK, Session
    <2>3. QED
      BY <2>1, <2>2 DEF TeachersStay
  <1>9. ASSUME NEW u, NEW amount, TopUp(u, amount)
        PROVE  UNCHANGED <<session, teacher, stray>>
    BY <1>9 DEF TopUp
  <1>10. QED
    BY <1>1, <1>2, <1>3, <1>5, <1>6, <1>7, <1>8, <1>9 DEF SessionNext, Move

LEMMA TableMoves ==
  ASSUME TypeOK, Holding, [Next]_vars
  PROVE  Move /\ (stray => stray')
  <1> USE DEF history
  <1>1. ASSUME NEW h \in Handlers, NEW t \in Teachers, NEW next, BeginUpdateStatus(h, t, next)
        PROVE  UNCHANGED <<session, teacher, stray>>
    BY <1>1 DEF BeginUpdateStatus, tables
  <1>2. ASSUME NEW h \in Handlers, UpdateTeacherProfile(h)
        PROVE  TeachersStay /\ SessionsStay /\ UNCHANGED stray
    <2>1. /\ UNCHANGED <<session, stray>> /\ At(h, "status")
          /\ teacher' = [teacher EXCEPT ![req[h].teacher] = req[h].next]
      BY <1>2 DEF UpdateTeacherProfile
    <2>2. req[h].teacher \in Patchers /\ req[h].next \in {"ONLINE", "OFFLINE"}
      BY <2>1, InHand DEF Holding, Procs
    <2>3. QED
      BY <2>1, <2>2 DEF TeachersStay, SessionsStay, TypeOK
  <1>3. ASSUME NEW t \in Teachers, TakeTeacherOffline(t)
        PROVE  TeachersStay /\ SessionsStay /\ UNCHANGED stray
    BY <1>3 DEF TakeTeacherOffline, TeachersStay, SessionsStay, TypeOK
  <1>4. ASSUME (\E h \in Handlers : Fail(h)) \/ Restart \/ Tick \/ UNCHANGED vars
        PROVE  UNCHANGED <<session, teacher, stray>>
    BY <1>4 DEF Fail, Restart, Tick, vars, tables
  <1>5. ASSUME UNCHANGED <<session, teacher>>
        PROVE  Move
    BY <1>5 DEF Move, TeachersStay, SessionsStay
  <1>6. QED
    BY <1>1, <1>2, <1>3, <1>4, <1>5, OfferMoves, SessionMoves DEF Next, TeacherNext, Move

(* Between two steps a locked teacher is awaited by one session, as one IN_SESSION runs *)
(* one; a teacher who is neither is named by none.  A lost settlement leaves the session *)
(* and the lock behind together, so this holds whatever faults there were.              *)
Waits(s, t) == session[s].status = "OFFER_SENT" /\ session[s].teacher = t

AwaitedTeachers ==
  \A t \in Regulars :
    /\ \A s \in Sessions : Waits(s, t) => teacher[t] = "OFFER_LOCKED"
    /\ \A s1, s2 \in Sessions : Waits(s1, t) /\ Waits(s2, t) => s1 = s2
    /\ teacher[t] = "OFFER_LOCKED" => \E s \in Sessions : Waits(s, t)

Awaited == ~stray => AwaitedTeachers

(* What a step may do to the desk of a regular teacher t. *)
SameDesk(t) ==
  /\ teacher[t] = "OFFER_LOCKED" <=> teacher'[t] = "OFFER_LOCKED"
  /\ teacher[t] = "IN_SESSION" <=> teacher'[t] = "IN_SESSION"
  /\ \A x \in Sessions : (Waits(x, t)' <=> Waits(x, t)) /\ (Runs(x, t)' <=> Runs(x, t))

AskedBy(t, s) ==
  /\ teacher[t] \notin {"OFFER_LOCKED", "IN_SESSION"} /\ teacher'[t] = "OFFER_LOCKED"
  /\ \A u \in Regulars : ~Waits(s, u) /\ ~Runs(s, u)
  /\ \A x \in Sessions : (Waits(x, t)' <=> x = s) /\ ~Runs(x, t) /\ ~Runs(x, t)'

ServesNow(t) ==
  /\ teacher[t] = "OFFER_LOCKED" /\ teacher'[t] = "IN_SESSION"
  /\ \A x \in Sessions : ~Waits(x, t)' /\ (Runs(x, t)' <=> Waits(x, t))

LeftAlone(t) ==
  /\ teacher[t] \in {"OFFER_LOCKED", "IN_SESSION"}
  /\ teacher'[t] \notin {"OFFER_LOCKED", "IN_SESSION"}
  /\ \A x \in Sessions : ~Waits(x, t)' /\ ~Runs(x, t)'

OneDesk ==
  \E t \in Regulars :
    /\ \A u \in Regulars \ {t} : SameDesk(u)
    /\ (\E s \in Sessions : AskedBy(t, s)) \/ ServesNow(t) \/ LeftAlone(t)

DeskMove == (\A t \in Regulars : SameDesk(t)) \/ OneDesk

(* An offer sent: its session sat nowhere, its teacher's desk was free. *)
LEMMA SendsAsks ==
  ASSUME TypeOK, RunningTeachers, AwaitedTeachers, NEW s \in Sessions, NEW t \in Teachers,
         Sends(s, t)
  PROVE  DeskMove
  <1>1. /\ session \in [Sessions -> Session] /\ session[s] \in Session
        /\ teacher \in [Teachers -> TeacherStatus]
    BY DEF TypeOK
  <1>2. session[s].status = "PENDING" /\ teacher[t] = "ONLINE"
    BY DEF Sends, setSessionOfferSent, lockTeacherForOffer
  <1>3. /\ session'[s].status = "OFFER_SENT" /\ session'[s].teacher = t
        /\ \A x \in Sessions : x # s => session'[x] = session[x]
    BY <1>1 DEF Sends, setSessionOfferSent, Session
  <1>4. teacher'[t] = "OFFER_LOCKED" /\ \A u \in Teachers : u # t => teacher'[u] = teacher[u]
    BY <1>1 DEF Sends, lockTeacherForOffer
  <1>5. \A u \in Regulars \ {t} : SameDesk(u)
    BY <1>2, <1>3, <1>4 DEF SameDesk, Waits, Runs, Regulars
  <1>6. CASE t \in Regulars
    <2>1. AskedBy(t, s)
      BY <1>2, <1>3, <1>4, <1>6 DEF AskedBy, Waits, Runs, Regulars, RunningTeachers,
                                    AwaitedTeachers
    <2>2. QED
      BY <1>5, <1>6, <2>1 DEF DeskMove, OneDesk
  <1>7. QED
    BY <1>5, <1>6 DEF DeskMove

(* An offer rejected, swept or settled: session and teacher part in the same step. *)
LEMMA WithdrawsLeaves ==
  ASSUME TypeOK, OpenOffers, RunningTeachers, AwaitedTeachers, NEW o \in Offers, Withdraws(o)
  PROVE  DeskMove
  <1>1. PICK s \in Sessions, t \in Teachers : s = offer[o].session /\ t = offer[o].teacher
    BY OfferRows DEF Withdraws
  <1>2. /\ session \in [Sessions -> Session] /\ session[s] \in Session
        /\ teacher \in [Teachers -> TeacherStatus]
    BY DEF TypeOK
  <1>3. /\ session[s].status = "OFFER_SENT" /\ session[s].teacher = t
        /\ t \notin Patchers => teacher[t] = "OFFER_LOCKED"
    BY <1>1 DEF OpenOffers, Withdraws
  <1>4. session'[s].status = "PENDING" /\ \A x \in Sessions : x # s => session'[x] = session[x]
    BY <1>1, <1>2, <1>3 DEF Withdraws, setSessionPending, Session
  <1>5. /\ t \notin Patchers => teacher'[t] = "ONLINE"
        /\ \A x \in Teachers : x # t => teacher'[x] = teacher[x]
    BY <1>1, <1>2, <1>3 DEF Withdraws, releaseTeacherLock
  <1>6. \A u \in Regulars \ {t} : SameDesk(u)
    BY <1>3, <1>4, <1>5 DEF SameDesk, Waits, Runs, Regulars
  <1>7. CASE t \in Regulars
    <2>1. LeftAlone(t)
      BY <1>3, <1>4, <1>5, <1>7 DEF LeftAlone, Waits, Runs, Regulars, RunningTeachers,
                                    AwaitedTeachers
    <2>2. QED
      BY <1>6, <1>7, <2>1 DEF DeskMove, OneDesk
  <1>8. QED
    BY <1>6, <1>7 DEF DeskMove

(* An offer accepted: the session that asked is the one that is served. *)
LEMMA AcceptsServes ==
  ASSUME TypeOK, OpenOffers, RunningTeachers, AwaitedTeachers, NEW o \in Offers, Accepts(o)
  PROVE  DeskMove
  <1>1. PICK s \in Sessions, t \in Teachers : s = offer[o].session /\ t = offer[o].teacher
    BY OfferRows DEF Accepts
  <1>2. /\ session \in [Sessions -> Session] /\ session[s] \in Session
        /\ teacher \in [Teachers -> TeacherStatus]
    BY DEF TypeOK
  <1>3. session[s].status = "OFFER_SENT" /\ session[s].teacher = t /\ teacher[t] = "OFFER_LOCKED"
    BY <1>1 DEF OpenOffers, Accepts, setTeacherInSession
  <1>4. /\ session'[s].status = "ACTIVE" /\ session'[s].teacher = t
        /\ \A x \in Sessions : x # s => session'[x] = session[x]
    BY <1>1, <1>2, <1>3 DEF Accepts, setSessionActive, Session
  <1>5. teacher'[t] = "IN_SESSION" /\ \A x \in Teachers : x # t => teacher'[x] = teacher[x]
    BY <1>1, <1>2 DEF Accepts, setTeacherInSession
  <1>6. \A u \in Regulars \ {t} : SameDesk(u)
    BY <1>3, <1>4, <1>5 DEF SameDesk, Waits, Runs, Regulars
  <1>7. CASE t \in Regulars
    <2>1. ServesNow(t)
      BY <1>3, <1>4, <1>5, <1>7 DEF ServesNow, Waits, Runs, Regulars, RunningTeachers,
                                    AwaitedTeachers
    <2>2. QED
      BY <1>6, <1>7, <2>1 DEF DeskMove, OneDesk
  <1>8. QED
    BY <1>6, <1>7 DEF DeskMove

(* A session ended, by whomever: its teacher is free. *)
LEMMA ClosesLeaves ==
  ASSUME TypeOK, RunningTeachers, AwaitedTeachers, NEW s \in Sessions, Closes(s)
  PROVE  DeskMove
  <1>1. /\ session \in [Sessions -> Session] /\ session[s] \in Session
        /\ teacher \in [Teachers -> TeacherStatus]
    BY DEF TypeOK
  <1>2. PICK status \in Closed : \E why, fee, earning : endSession(s, status, why, fee, earning)
    BY DEF Closes
  <1>3. /\ session[s].status = "ACTIVE" /\ session'[s].status \in Closed
        /\ session'[s].teacher = session[s].teacher
        /\ \A x \in Sessions : x # s => session'[x] = session[x]
    BY <1>1, <1>2 DEF endSession, Session
  <1>4. \A x \in Teachers :
          teacher'[x] = IF x = session[s].teacher /\ teacher[x] = "IN_SESSION" THEN "ONLINE"
                                                                              ELSE teacher[x]
    BY <1>1 DEF Closes, releaseTeacherAfterSession
  <1>5. \A u \in Regulars \ {session[s].teacher} : SameDesk(u)
    BY <1>3, <1>4 DEF SameDesk, Waits, Runs, Regulars, Closed
  <1>6. CASE session[s].teacher \in Regulars
    <2>1. PICK t \in Regulars : t = session[s].teacher
      BY <1>6
    <2>2. LeftAlone(t)
      BY <1>3, <1>4, <2>1 DEF LeftAlone, Waits, Runs, Regulars, RunningTeachers, AwaitedTeachers,
                              Closed
    <2>3. QED
      BY <1>5, <2>1, <2>2 DEF DeskMove, OneDesk
  <1>7. QED
    BY <1>5, <1>6 DEF DeskMove

LEMMA MovesOfDesks ==
  ASSUME TypeOK, LocksHeld, AwaitedTeachers, Move
  PROVE  DeskMove
  <1>1. ASSUME TeachersStay, SessionsStay
        PROVE  DeskMove
    <2>1. \A t \in Regulars : SameDesk(t)
      BY <1>1 DEF TeachersStay, SessionsStay, SameDesk, Waits, Runs, Regulars
    <2>2. QED
      BY <2>1 DEF DeskMove
  <1>2. QED
    BY <1>1, SendsAsks, WithdrawsLeaves, AcceptsServes, ClosesLeaves DEF Move, LocksHeld

LEMMA AwaitedStays ==
  ASSUME AwaitedTeachers, DeskMove
  PROVE  AwaitedTeachers'
  <1>1. ASSUME NEW t \in Regulars, SameDesk(t)
        PROVE  /\ \A s \in Sessions : Waits(s, t)' => teacher'[t] = "OFFER_LOCKED"
               /\ \A s1, s2 \in Sessions : Waits(s1, t)' /\ Waits(s2, t)' => s1 = s2
               /\ teacher'[t] = "OFFER_LOCKED" => \E s \in Sessions : Waits(s, t)'
    BY <1>1 DEF AwaitedTeachers, SameDesk
  <1>2. ASSUME NEW t \in Regulars,
               (\E s \in Sessions : AskedBy(t, s)) \/ ServesNow(t) \/ LeftAlone(t)
        PROVE  /\ \A s \in Sessions : Waits(s, t)' => teacher'[t] = "OFFER_LOCKED"
               /\ \A s1, s2 \in Sessions : Waits(s1, t)' /\ Waits(s2, t)' => s1 = s2
               /\ teacher'[t] = "OFFER_LOCKED" => \E s \in Sessions : Waits(s, t)'
    BY <1>2 DEF AskedBy, ServesNow, LeftAlone
  <1>3. \A t \in Regulars :
          SameDesk(t) \/ (\E s \in Sessions : AskedBy(t, s)) \/ ServesNow(t) \/ LeftAlone(t)
    BY DEF DeskMove, OneDesk
  <1>4. Regulars' = Regulars
    BY DEF Regulars
  <1>5. QED
    BY <1>1, <1>2, <1>3, <1>4 DEF AwaitedTeachers

(* The same, in the terms of module Desk. *)
Still(t) == desk'[t] = desk[t] /\ asked'[t] = asked[t] /\ served'[t] = served[t]

LEMMA DeskDomains ==
  /\ desk = [t \in Regulars |-> desk[t]] /\ desk' = [t \in Regulars |-> desk'[t]]
  /\ asked = [t \in Regulars |-> asked[t]] /\ asked' = [t \in Regulars |-> asked'[t]]
  /\ served = [t \in Regulars |-> served[t]] /\ served' = [t \in Regulars |-> served'[t]]
  BY DEF desk, asked, served, Regulars

LEMMA DesksRead ==
  ASSUME NEW t \in Regulars
  PROVE  /\ desk[t] = "asked" <=> teacher[t] = "OFFER_LOCKED"
         /\ desk[t] = "serving" <=> teacher[t] = "IN_SESSION"
         /\ desk[t] \in {"free", "asked", "serving"}
         /\ asked[t] = {s \in Sessions : Waits(s, t)}
         /\ served[t] = {s \in Sessions : Runs(s, t)}
         /\ desk'[t] = "asked" <=> teacher'[t] = "OFFER_LOCKED"
         /\ desk'[t] = "serving" <=> teacher'[t] = "IN_SESSION"
         /\ desk'[t] \in {"free", "asked", "serving"}
         /\ asked'[t] = {s \in Sessions : Waits(s, t)'}
         /\ served'[t] = {s \in Sessions : Runs(s, t)'}
  BY DEF desk, asked, served, With, Waits, Runs, Regulars

LEMMA SameIsStill ==
  ASSUME NEW t \in Regulars, SameDesk(t)
  PROVE  Still(t)
  <1>1. desk'[t] = desk[t]
    BY DesksRead DEF SameDesk
  <1>2. asked'[t] = asked[t] /\ served'[t] = served[t]
    BY DesksRead DEF SameDesk
  <1>3. QED
    BY <1>1, <1>2 DEF Still

LEMMA OtherDesks ==
  ASSUME NEW t \in Regulars, \A u \in Regulars \ {t} : Still(u)
  PROVE  /\ desk' = [desk EXCEPT ![t] = desk'[t]]
         /\ asked' = [asked EXCEPT ![t] = asked'[t]]
         /\ served' = [served EXCEPT ![t] = served'[t]]
         /\ served'[t] = served[t] => served' = served
  BY DeskDomains DEF Still

LEMMA DeskStep ==
  ASSUME AwaitedTeachers, RunningTeachers, DeskMove
  PROVE  [Desks!Next]_(Desks!dvars)
  <1>1. CASE \A t \in Regulars : SameDesk(t)
    <2>1. \A t \in Regulars : Still(t)
      BY <1>1, SameIsStill
    <2>2. UNCHANGED <<desk, asked, served>>
      BY <2>1, DeskDomains DEF Still
    <2>3. QED
      BY <2>2 DEF Desks!dvars
  <1>2. ASSUME NEW t \in Regulars, \A u \in Regulars \ {t} : SameDesk(u),
               (\E s \in Sessions : AskedBy(t, s)) \/ ServesNow(t) \/ LeftAlone(t)
        PROVE  Desks!Next
    <2>1. \A u \in Regulars \ {t} : Still(u)
      BY <1>2, SameIsStill
    <2>2. ASSUME NEW s \in Sessions, AskedBy(t, s)
          PROVE  Desks!Ask(t, s)
      <3>1. desk[t] = "free" /\ desk'[t] = "asked"
        BY <2>2, DesksRead DEF AskedBy
      <3>2. \A u \in Regulars : s \notin asked[u] \cup served[u]
        BY <2>2, DesksRead DEF AskedBy
      <3>3. asked'[t] = {s}
        BY <2>2, DesksRead DEF AskedBy
      <3>4. served'[t] = served[t]
        BY <2>2, DesksRead DEF AskedBy
      <3>5. QED
        BY <2>1, <3>1, <3>2, <3>3, <3>4, OtherDesks DEF Desks!Ask
    <2>3. ASSUME ServesNow(t)
          PROVE  Desks!Serve(t)
      <3>1. desk[t] = "asked" /\ desk'[t] = "serving"
        BY <2>3, DesksRead DEF ServesNow
      <3>2. asked'[t] = {}
        BY <2>3, DesksRead DEF ServesNow
      <3>3. served'[t] = asked[t]
        BY <2>3, DesksRead DEF ServesNow
      <3>4. QED
        BY <2>1, <3>1, <3>2, <3>3, OtherDesks DEF Desks!Serve
    <2>4. ASSUME LeftAlone(t)
          PROVE  Desks!Leave(t)
      <3>1. desk[t] # "free" /\ desk'[t] = "free"
        BY <2>4, DesksRead DEF LeftAlone
      <3>2. asked'[t] = {} /\ served'[t] = {}
        BY <2>4, DesksRead DEF LeftAlone
      <3>3. QED
        BY <2>1, <3>1, <3>2, OtherDesks DEF Desks!Leave
    <2>5. QED
      BY <1>2, <2>2, <2>3, <2>4 DEF Desks!Next
  <1>3. QED
    BY <1>1, <1>2 DEF DeskMove, OneDesk

LEMMA AwaitedInvariant == Spec => [](TypeOK /\ Holding /\ Locks /\ Awaited)
  <1>1. ASSUME Init
        PROVE  Awaited
    BY <1>1 DEF Init, TablesInit, newSession, Awaited, AwaitedTeachers, Waits, Regulars
  <1>2. ASSUME TypeOK, Holding, Locks, Awaited, [Next]_vars
        PROVE  Awaited'
    <2>1. Move /\ (stray => stray')
      BY <1>2, TableMoves
    <2>2. ASSUME ~stray'
          PROVE  AwaitedTeachers'
      BY <1>2, <2>1, <2>2, MovesOfDesks, AwaitedStays DEF Locks, Awaited
    <2>3. QED
      BY <2>2 DEF Awaited
  <1>3. QED
    BY <1>1, <1>2, LocksInvariant, PTL DEF Spec

(* No teacher is left IN_SESSION with no session running, one who edits their own       *)
(* status included: the transaction that ends the last session frees its teacher.       *)
Seated == \A t \in Teachers : teacher[t] = "IN_SESSION" => \E s \in Sessions : Runs(s, t)

LEMMA SeatedStays ==
  ASSUME TypeOK, OpenOffers, Seated, Move
  PROVE  Seated'
  <1>1. /\ session \in [Sessions -> Session]
        /\ teacher \in [Teachers -> TeacherStatus]
    BY DEF TypeOK
  <1>2. ASSUME TeachersStay, SessionsStay
        PROVE  Seated'
    BY <1>2 DEF TeachersStay, SessionsStay, Seated, Runs
  <1>3. ASSUME NEW s \in Sessions, NEW t \in Teachers, Sends(s, t)
        PROVE  Seated'
    <2>1. /\ session[s].status = "PENDING"
          /\ \A x \in Sessions : x # s => session'[x] = session[x]
          /\ \A u \in Teachers : teacher'[u] = "IN_SESSION" => teacher[u] = "IN_SESSION"
      BY <1>1, <1>3 DEF Sends, setSessionOfferSent, lockTeacherForOffer
    <2>2. QED
      BY <2>1 DEF Seated, Runs
  <1>4. ASSUME NEW o \in Offers, Withdraws(o)
        PROVE  Seated'
    <2>1. PICK s \in Sessions, t \in Teachers : s = offer[o].session /\ t = offer[o].teacher
      BY <1>4, OfferRows DEF Withdraws
    <2>2. /\ session[s].status = "OFFER_SENT"
          /\ \A x \in Sessions : x # s => session'[x] = session[x]
          /\ \A u \in Teachers : teacher'[u] = "IN_SESSION" => teacher[u] = "IN_SESSION"
      BY <1>1, <1>4, <2>1 DEF Withdraws, OpenOffers, setSessionPending, releaseTeacherLock
    <2>3. QED
      BY <2>2 DEF Seated, Runs
  <1>5. ASSUME NEW o \in Offers, Accepts(o)
        PROVE  Seated'
    <2>1. PICK s \in Sessions, t \in Teachers : s = offer[o].session /\ t = offer[o].teacher
      BY <1>5, OfferRows DEF Accepts
    <2>2. session[s].status = "OFFER_SENT" /\ session[s].teacher = t
      BY <1>5, <2>1 DEF Accepts, OpenOffers
    <2>3. /\ session'[s].status = "ACTIVE" /\ session'[s].teacher = t
          /\ \A x \in Sessions : x # s => session'[x] = session[x]
          /\ \A u \in Teachers : u # t => teacher'[u] = teacher[u]
      BY <1>1, <1>5, <2>1, <2>2 DEF Accepts, setSessionActive, setTeacherInSession, Session
    <2>4. QED
      BY <2>2, <2>3 DEF Seated, Runs
  <1>6. ASSUME NEW s \in Sessions, Closes(s)
        PROVE  Seated'
    <2>1. PICK status \in Closed : \E why, fee, earning : endSession(s, status, why, fee, earning)
      BY <1>6 DEF Closes
    <2>2. \A x \in Sessions : x # s => session'[x] = session[x]
      BY <1>1, <2>1 DEF endSession
    <2>3. /\ session[s].teacher \in Teachers => teacher'[session[s].teacher] # "IN_SESSION"
          /\ \A u \in Teachers : teacher'[u] = "IN_SESSION" => teacher[u] = "IN_SESSION"
      BY <1>1, <1>6 DEF Closes, releaseTeacherAfterSession
    <2>4. QED
      BY <2>2, <2>3 DEF Seated, Runs
  <1>7. QED
    BY <1>2, <1>3, <1>4, <1>5, <1>6 DEF Move

LEMMA NobodyIsLeftInSession == Spec => [](~stray => Seated)
  <1>1. Init => (~stray => Seated)
    BY DEF Init, TablesInit, Seated
  <1>2. ASSUME TypeOK, Holding, Locks, ~stray => Seated, [Next]_vars
        PROVE  (~stray => Seated)'
    BY <1>2, TableMoves, SeatedStays DEF Locks, LocksHeld
  <1>3. QED
    BY <1>1, <1>2, LocksInvariant, PTL DEF Spec

(* The marketplace keeps the desks: until a sweep strays, every step gives a free       *)
(* teacher to one session, lets them serve the session that asked, frees them together  *)
(* with that session, or leaves them alone.                                             *)
THEOREM ImplementsTheDesks == Spec => KeepsTheDesks
  <1>1. ASSUME Init
        PROVE  Desks!Init
    <2>1. /\ \A t \in Teachers : teacher[t] = "ONLINE"
          /\ \A s \in Sessions : session[s].status = "PENDING"
      BY <1>1 DEF Init, TablesInit, newSession
    <2>2. desk = [t \in Regulars |-> "free"]
      BY <2>1 DEF desk, Regulars
    <2>3. \A t \in Regulars : With(t, "OFFER_SENT") = {} /\ With(t, "ACTIVE") = {}
      BY <2>1 DEF With
    <2>4. asked = [t \in Regulars |-> {}] /\ served = [t \in Regulars |-> {}]
      BY <2>3 DEF asked, served
    <2>5. QED
      BY <2>2, <2>4 DEF Desks!Init
  <1>2. ASSUME TypeOK, Holding, Locks, Awaited, [Next]_vars
        PROVE  stray' \/ [Desks!Next]_(Desks!dvars)
    <2>1. Move /\ (stray => stray')
      BY <1>2, TableMoves
    <2>2. ASSUME ~stray'
          PROVE  [Desks!Next]_(Desks!dvars)
      <3>1. LocksHeld /\ AwaitedTeachers
        BY <1>2, <2>1, <2>2 DEF Locks, Awaited
      <3>2. DeskMove
        BY <1>2, <2>1, <3>1, MovesOfDesks
      <3>3. QED
        BY <3>1, <3>2, DeskStep DEF LocksHeld
    <2>3. QED
      BY <2>2
  <1>3. TypeOK /\ Holding /\ Locks /\ Awaited /\ [Next]_vars
          => [stray' \/ [Desks!Next]_(Desks!dvars)]_vars
    BY <1>2
  <1>4. QED
    BY <1>1, <1>3, AwaitedInvariant, PTL DEF Spec, KeepsTheDesks
=============================================================================
