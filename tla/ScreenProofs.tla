---------------------------- MODULE ScreenProofs ----------------------------
(***************************************************************************)
(* What the client's screens promise, for any number of calls in flight,    *)
(* expiries, faults, blocks, offers, loads and moves.  The session          *)
(* screen's calls: one rotation at a time, a replay only of what no handler *)
(* saw, and "unauthorized" only after one.  Then the list of teachers, the  *)
(* availability control and the offer's modal, each with its invariant; at  *)
(* the end, that the client's behaviours are behaviours of each of them.    *)
(***************************************************************************)
EXTENDS Browser, FiniteSetTheorems, SequenceTheorems, TLAPS

Kinds  == {"none", "load", "reread", "extend", "end", "logout"}
Tokens == {"none", "fresh", "stale"}
Rows   == [status : {"NONE", "PENDING", "ACTIVE", "ENDED"}, blocks : Int]

Answers == [is : {"none", "ok", "refused", "expired", "lost"}, row : Rows]

Calls == [st : {"idle", "sent", "answered", "waiting"}, kind : Kinds, token : Tokens,
          fresh : BOOLEAN, retried : BOOLEAN, answer : Answers]

Shapes ==
  /\ request \in [Requests -> Calls]
  /\ accessToken \in Tokens
  /\ server \in Rows
  /\ unserved \in Int
  /\ rotations \in {0, 1}

(* A press of Extend that a handler may still come to see. *)
MayBeServed(c) ==
  /\ c.kind = "extend"
  /\ c.st \in {"sent", "waiting"} \/ (c.st = "answered" /\ isRecoverable(c))

Pending == {r \in Requests : MayBeServed(request[r])}

(* A replay left with a good token. *)
ReplayedWell(c) ==
  /\ c.st = "waiting" => c.retried
  /\ (c.retried /\ (c.st = "sent" \/ (c.st = "answered" /\ c.answer.is = "expired"))) => c.fresh

USE PageAssumption

-----------------------------------------------------------------------------
(* What becomes of one call in a step of the page. *)

(* The token it travels with ages. *)
Ages(c, d) == \E t \in Tokens : d = [c EXCEPT !.token = t]

(* It is answered, or its answer lost; it is over; it is a new one. *)
IsAnswered(c, d) ==
  /\ c.st \in {"sent", "answered"}
  /\ \E a \in Answers : /\ d = Answered(c, a)
                        /\ c.st = "answered" => a.is = "lost"
IsOver(d)     == d = Idle
IsNew(d)      == \E kind \in Kinds \ {"extend"} : \E t \in Tokens :
                    d = Outgoing([Idle EXCEPT !.kind = kind], t)
IsAPress(d)   == \E t \in Tokens : d = Outgoing([Idle EXCEPT !.kind = "extend"], t)

(* It waits for the rotation; it is sent again with the token of it. *)
Waits(c, d) == /\ c.st = "answered" /\ isRecoverable(c)
               /\ d = [c EXCEPT !.st = "waiting", !.retried = TRUE, !.answer = Idle.answer]
Resent(c, d) == c.st = "waiting" /\ d = Outgoing(c, "fresh")

Moved(c, d) == Ages(c, d) \/ IsAnswered(c, d) \/ IsOver(d) \/ IsNew(d) \/ Waits(c, d) \/ Resent(c, d)

LEMMA IdleIsACall == Idle \in Calls /\ Idle.st = "idle" /\ Idle.kind = "none" /\ Idle.answer.is = "none"
  BY DEF Idle, Calls, Kinds, Tokens, Answers, Answer, NoRow, Rows

LEMMA NewIsACall ==
  ASSUME NEW kind \in Kinds, NEW t \in Tokens
  PROVE  LET d == Outgoing([Idle EXCEPT !.kind = kind], t)
         IN  d \in Calls /\ d.st = "sent" /\ d.kind = kind /\ ~d.retried
  BY IdleIsACall DEF Outgoing, Calls, Idle, Tokens, Kinds

LEMMA MovesAreCalls ==
  ASSUME NEW c \in Calls, NEW d, Moved(c, d)
  PROVE  /\ d \in Calls
         /\ ReplayedWell(c) => ReplayedWell(d)
         /\ MayBeServed(d) => MayBeServed(c)
<1>1. CASE Ages(c, d)
  BY <1>1 DEF Ages, Calls, ReplayedWell, MayBeServed, isRecoverable
<1>2. CASE IsAnswered(c, d)
  <2>1. PICK a \in Answers : d = Answered(c, a) /\ (c.st = "answered" => a.is = "lost")
    BY <1>2 DEF IsAnswered
  <2>2. /\ d \in Calls /\ d.st = "answered" /\ d.answer = a /\ d.retried = c.retried
        /\ d.fresh = (c.fresh /\ a.is = "expired") /\ d.kind = c.kind
    BY <2>1 DEF Answered, Calls, Tokens
  <2> QED BY <1>2, <2>1, <2>2 DEF IsAnswered, ReplayedWell, MayBeServed, isRecoverable
<1>3. CASE IsOver(d)
  BY <1>3, IdleIsACall DEF IsOver, ReplayedWell, MayBeServed
<1>4. CASE IsNew(d)
  BY <1>4, NewIsACall DEF IsNew, ReplayedWell, MayBeServed
<1>5. CASE Waits(c, d)
  <2>1. d \in Calls /\ d.st = "waiting" /\ d.retried /\ d.kind = c.kind
    BY <1>5, IdleIsACall DEF Waits, Calls
  <2> QED BY <1>5, <2>1 DEF Waits, ReplayedWell, MayBeServed
<1>6. CASE Resent(c, d)
  <2>1. d \in Calls /\ d.st = "sent" /\ d.fresh /\ d.kind = c.kind
    BY <1>6, IdleIsACall DEF Resent, Outgoing, Calls, Tokens
  <2> QED BY <1>6, <2>1 DEF Resent, ReplayedWell, MayBeServed
<1> QED BY <1>1, <1>2, <1>3, <1>4, <1>5, <1>6 DEF Moved

LEMMA PressesAreCalls ==
  ASSUME NEW d, IsAPress(d)
  PROVE  d \in Calls /\ ReplayedWell(d)
  BY NewIsACall DEF IsAPress, ReplayedWell, Kinds

-----------------------------------------------------------------------------
(* A step of the page: nobody pressed Extend; somebody did; a press was served. *)
Calm == /\ request' = [r \in Requests |-> request'[r]]
        /\ \A r \in Requests : Moved(request[r], request'[r])
        /\ unserved' = unserved

Presses == \E r \in Requests : \E d : /\ IsAPress(d)
                                     /\ request' = [request EXCEPT ![r] = d]
                                     /\ unserved' = unserved + 1

Serves == \E r \in Requests : \E d : /\ MayBeServed(request[r]) /\ ~MayBeServed(d)
                                    /\ Moved(request[r], d)
                                    /\ request' = [request EXCEPT ![r] = d]
                                    /\ unserved' = unserved - 1

LEMMA Untouched ==
  ASSUME Shapes, UNCHANGED <<request, unserved>>
  PROVE  Calm
<1>1. \A r \in Requests : request[r] = [request[r] EXCEPT !.token = request[r].token]
                          /\ request[r].token \in Tokens
  BY DEF Shapes, Calls
<1> QED BY <1>1 DEF Calm, Moved, Ages, Shapes

LEMMA OneCallMoves ==
  ASSUME Shapes, NEW r \in Requests, NEW d, Moved(request[r], d),
         request' = [request EXCEPT ![r] = d], unserved' = unserved
  PROVE  Calm
<1>1. ASSUME NEW x \in Requests  PROVE Moved(request[x], request'[x])
  <2>1. CASE x = r
    BY <2>1 DEF Shapes
  <2>2. CASE x # r
    <3>1. request'[x] = request[x]
      BY <2>2 DEF Shapes
    <3>2. request[x] = [request[x] EXCEPT !.token = request[x].token] /\ request[x].token \in Tokens
      BY DEF Shapes, Calls
    <3> QED BY <3>1, <3>2 DEF Moved, Ages
  <2> QED BY <2>1, <2>2
<1> QED BY <1>1 DEF Calm, Shapes

LEMMA ReloadIsCalm ==
  ASSUME Shapes, reload, unserved' = unserved
  PROVE  Calm
<1>1. PICK r \in Requests : request' = [request EXCEPT ![r] = Outgoing([Idle EXCEPT !.kind = "load"], accessToken)]
  BY DEF reload, Slots, Call
<1>2. IsNew(Outgoing([Idle EXCEPT !.kind = "load"], accessToken))
  BY DEF IsNew, Kinds, Shapes
<1> QED BY <1>1, <1>2, OneCallMoves DEF Moved

LEMMA LoginIsCalm ==
  ASSUME Shapes, LoadLogin, unserved' = unserved
  PROVE  Calm
  BY DEF LoadLogin, Calm, Moved, IsOver

LEMMA Steps ==
  ASSUME Shapes, [Next]_vars
  PROVE  Calm \/ Presses \/ Serves
<1> USE DEF pageVars, PageAlone, roomVars, serverVars, viewVars, countVars
<1>1. CASE \/ TtlPasses \/ AcceptOffer \/ OfferEnds \/ OtherTabExtends \/ SessionEnds
           \/ WarnOfTheBlock \/ JoinRoom \/ JoinFails \/ CountdownEnds \/ Dismiss \/ SocketDrops
           \/ (CookieDies \/ Reconnect \/ HandshakeRefused) /\ PageAlone
           \/ UNCHANGED vars
  <2>1. UNCHANGED <<request, unserved>>
    BY <1>1 DEF TtlPasses, AcceptOffer, OfferEnds, OtherTabExtends, SessionEnds, WarnOfTheBlock,
                JoinRoom, JoinFails, CountdownEnds, Dismiss, SocketDrops, CookieDies, Reconnect,
                HandshakeRefused, vars
  <2> QED BY <2>1, Untouched
<1>2. CASE Hear
  <2>1. reload \/ UNCHANGED request
    BY <1>2 DEF Hear
  <2>2. unserved' = unserved
    BY <1>2 DEF Hear
  <2> QED BY <2>1, <2>2, ReloadIsCalm, Untouched
<1>3. CASE ComeBack \/ Connected
  <2>1. (reload \/ UNCHANGED request) /\ unserved' = unserved
    BY <1>3 DEF ComeBack, Connected
  <2> QED BY <2>1, ReloadIsCalm, Untouched
<1>4. CASE LogOut
  <2>1. PICK r \in Requests : request' = [request EXCEPT ![r] = Outgoing([Idle EXCEPT !.kind = "logout"], accessToken)]
    BY <1>4 DEF LogOut, Slots, Call
  <2>2. IsNew(Outgoing([Idle EXCEPT !.kind = "logout"], accessToken)) /\ unserved' = unserved
    BY <1>4 DEF IsNew, Kinds, Shapes, LogOut
  <2> QED BY <2>1, <2>2, OneCallMoves DEF Moved
<1>5. CASE \E kind \in {"extend", "end"} : Press(kind)
  <2>1. PICK kind \in {"extend", "end"} : Press(kind)
    BY <1>5
  <2> DEFINE d == Outgoing([Idle EXCEPT !.kind = kind], accessToken)
  <2>2. PICK r \in Requests : request' = [request EXCEPT ![r] = d]
    BY <2>1 DEF Press, Slots, Call
  <2>3. CASE kind = "extend"
    <3>1. IsAPress(d) /\ unserved' = unserved + 1
      BY <2>1, <2>3 DEF Press, IsAPress, Shapes
    <3> QED BY <2>2, <3>1 DEF Presses
  <2>4. CASE kind = "end"
    <3>1. IsNew(d) /\ unserved' = unserved
      BY <2>1, <2>4 DEF Press, IsNew, Shapes, Kinds
    <3> HIDE DEF d
    <3> QED BY <2>2, <3>1, OneCallMoves DEF Moved
  <2> QED BY <2>1, <2>3, <2>4
<1>6. CASE \E r \in Requests : Handle(r)
  <2>1. PICK r \in Requests : Handle(r)
    BY <1>6
  <2>2. server' \in Rows
    <3>1. server \in Rows
      BY DEF Shapes
    <3>2. Extend(server) \in Rows /\ [server EXCEPT !.status = "ENDED"] \in Rows
      BY <3>1 DEF Extend, Rows
    <3> QED BY <2>1, <3>1, <3>2 DEF Handle
  <2>3. PICK a \in Answers : /\ request' = [request EXCEPT ![r] = Answered(request[r], a)]
                            /\ a.is \in {"ok", "refused"}
    <3>1. /\ Answer("ok", server') \in Answers /\ Answer("ok", server').is = "ok"
          /\ Answer("refused", NoRow) \in Answers /\ Answer("refused", NoRow).is = "refused"
      BY <2>2 DEF Answers, Answer, NoRow, Rows
    <3>2. \/ request' = [request EXCEPT ![r] = Answered(request[r], Answer("ok", server'))]
          \/ request' = [request EXCEPT ![r] = Answered(request[r], Answer("refused", NoRow))]
      BY <2>1 DEF Handle
    <3> QED BY <3>1, <3>2
  <2>4. Moved(request[r], Answered(request[r], a))
    BY <2>1 DEF Handle, Moved, IsAnswered
  <2>5. CASE request[r].kind = "extend" /\ CanExtend
    <3>1. MayBeServed(request[r]) /\ unserved' = unserved - 1
      BY <2>1, <2>5 DEF Handle, MayBeServed
    <3>2. request[r] \in Calls
      BY DEF Shapes
    <3>3. ~MayBeServed(Answered(request[r], a))
      BY <2>3, <3>2 DEF MayBeServed, Answered, Calls, isRecoverable
    <3> QED BY <2>3, <2>4, <3>1, <3>3 DEF Serves
  <2>6. CASE ~(request[r].kind = "extend" /\ CanExtend)
    <3>1. unserved' = unserved
      BY <2>1, <2>6 DEF Handle
    <3> QED BY <2>3, <2>4, <3>1, OneCallMoves
  <2> QED BY <2>5, <2>6
<1>7. CASE \E r \in Requests : Settle(r)
  <2>1. PICK r \in Requests : Settle(r)
    BY <1>7
  <2>2. PICK d : request' = [request EXCEPT ![r] = d] /\ (IsOver(d) \/ IsNew(d))
    <3>1. CASE request' = [request EXCEPT ![r] = Idle]
      BY <3>1 DEF IsOver
    <3>2. CASE request' # [request EXCEPT ![r] = Idle]
      <4>1. PICK kind \in {"load", "reread"} :
              request' = [request EXCEPT ![r] = Outgoing([Idle EXCEPT !.kind = kind], accessToken)]
        BY <2>1, <3>2 DEF Settle, SettleLoad, SettlePress, Call
      <4> QED BY <4>1 DEF IsNew, Kinds, Shapes
    <3> QED BY <3>1, <3>2
  <2>3. unserved' = unserved
    BY <2>1 DEF Settle
  <2> QED BY <2>2, <2>3, OneCallMoves DEF Moved
<1>8. CASE \E r \in Requests : SettleLogout(r)
  BY <1>8, LoginIsCalm DEF SettleLogout
<1>9. CASE \E r \in Requests : (Unauthorized(r) \/ Lose(r)) /\ PageAlone
  <2>1. PICK r \in Requests : Unauthorized(r) \/ Lose(r)
    BY <1>9
  <2>2. PICK is \in {"expired", "lost"} :
          /\ request' = [request EXCEPT ![r] = Answered(request[r], Answer(is, NoRow))]
          /\ request[r].st = "answered" => is = "lost"
          /\ request[r].st \in {"sent", "answered"}
    BY <2>1 DEF Unauthorized, Lose
  <2>3. Answer(is, NoRow) \in Answers /\ Answer(is, NoRow).is = is
    BY DEF Answer, Answers, NoRow, Rows
  <2>4. Moved(request[r], Answered(request[r], Answer(is, NoRow)))
    BY <2>2, <2>3 DEF Moved, IsAnswered
  <2>5. unserved' = unserved
    BY <1>9
  <2> QED BY <2>2, <2>4, <2>5, OneCallMoves
<1>10. CASE \E r \in Requests : Recover(r) /\ PageAlone
  <2>1. PICK r \in Requests : Recover(r) /\ unserved' = unserved
    BY <1>10
  <2> DEFINE d == [request[r] EXCEPT !.st = "waiting", !.retried = TRUE, !.answer = Idle.answer]
  <2>2. request' = [request EXCEPT ![r] = d]
    BY <2>1 DEF Recover, Shapes
  <2>3. Waits(request[r], d)
    BY <2>1 DEF Recover, Waits
  <2> HIDE DEF d
  <2> QED BY <2>1, <2>2, <2>3, OneCallMoves DEF Moved
<1>11. CASE TokensExpire /\ PageAlone
  <2>1. ASSUME NEW r \in Requests  PROVE Moved(request[r], request'[r])
    <3>1. PICK t \in Tokens : request'[r] = [request[r] EXCEPT !.token = t]
      BY <1>11 DEF TokensExpire, Shapes, Calls, Tokens
    <3> QED BY <3>1 DEF Moved, Ages
  <2> QED BY <1>11, <2>1 DEF TokensExpire, Calm
<1>12. CASE RotationEnds
  <2>1. unserved' = unserved
    BY <1>12 DEF RotationEnds
  <2>2. CASE RotationGranted
    <3>1. ASSUME NEW r \in Requests  PROVE Moved(request[r], request'[r])
      <4>1. CASE request[r].st = "waiting"
        BY <2>2, <4>1 DEF RotationGranted, Awaiting, Moved, Resent
      <4>2. CASE request[r].st # "waiting"
        <5>1. request'[r] = [request[r] EXCEPT !.token = request[r].token] /\ request[r].token \in Tokens
          BY <2>2, <4>2 DEF RotationGranted, Awaiting, Shapes, Calls
        <5> QED BY <5>1 DEF Moved, Ages
      <4> QED BY <4>1, <4>2
    <3> QED BY <2>1, <2>2, <3>1 DEF RotationGranted, Calm
  <2>3. CASE RotationFailed
    BY <2>1, <2>3, LoginIsCalm, Untouched DEF RotationFailed
  <2> QED BY <1>12, <2>2, <2>3 DEF RotationEnds
<1> QED BY <1>1, <1>2, <1>3, <1>4, <1>5, <1>6, <1>7, <1>8, <1>9, <1>10, <1>11, <1>12 DEF Next

(* What a step does beside the calls. *)
LEMMA OthersKeep ==
  ASSUME Shapes, [Next]_vars
  PROVE  accessToken' \in Tokens /\ server' \in Rows /\ rotations' \in {0, 1}
<1> USE DEF pageVars, PageAlone, roomVars, serverVars, viewVars, countVars
<1>1. accessToken' \in Tokens
  BY DEF Shapes, Tokens, Next, TtlPasses, AcceptOffer, OfferEnds, OtherTabExtends, SessionEnds,
         WarnOfTheBlock, JoinRoom, JoinFails, Hear, CountdownEnds, ComeBack, Dismiss, LogOut, Press, Handle,
         Settle, SettleLogout, Unauthorized, Lose, Recover, TokensExpire, CookieDies, Reconnect,
         HandshakeRefused, SocketDrops, Connected, HandshakeAccepted, RotationEnds, RotationGranted,
         RotationFailed, LoadLogin, vars
<1>2. server' \in Rows
  <2>1. server \in Rows
    BY DEF Shapes
  <2>2. /\ Extend(server) \in Rows /\ [server EXCEPT !.status = "ENDED"] \in Rows
        /\ [status |-> "ACTIVE", blocks |-> 1] \in Rows
    BY <2>1 DEF Extend, Rows
  <2> QED
    BY <2>1, <2>2
    DEF Next, TtlPasses, AcceptOffer, OfferEnds, OtherTabExtends, SessionEnds,
        WarnOfTheBlock, JoinRoom, JoinFails, Hear, CountdownEnds, ComeBack, Dismiss, LogOut, Press, Handle,
        Settle, SettleLogout, SocketDrops, Connected, RotationEnds, vars
<1>3. \/ rotations' \in {rotations, refresh(rotations), 0}
      \/ rotations > 0 /\ rotations' = rotations - 1
  BY DEF Next, TtlPasses, AcceptOffer, OfferEnds, OtherTabExtends, SessionEnds,
         WarnOfTheBlock, JoinRoom, JoinFails, Hear, CountdownEnds, ComeBack, Dismiss, LogOut, Press, Handle,
         Settle, SettleLogout, Unauthorized, Lose, Recover, TokensExpire, CookieDies, Reconnect,
         HandshakeRefused, SocketDrops, Connected, HandshakeAccepted, RotationEnds, RotationGranted,
         RotationFailed, LoadLogin, vars
<1>4. rotations' \in {0, 1}
  BY <1>3 DEF Shapes, refresh
<1> QED BY <1>1, <1>2, <1>4

-----------------------------------------------------------------------------
(* A press that can still be served has not been. *)
Owed == unserved >= Cardinality(Pending)

Inv == /\ Shapes
       /\ \A r \in Requests : ReplayedWell(request[r])
       /\ Owed

LEMMA PendingIsFinite ==
  IsFiniteSet(Pending) /\ Cardinality(Pending) \in Nat
<1>1. Pending \subseteq Requests
  BY DEF Pending
<1> QED BY <1>1, FS_Subset, FS_CardinalityType

LEMMA CalmKeeps ==
  ASSUME Inv, Calm
  PROVE  /\ request' \in [Requests -> Calls] /\ unserved' \in Int /\ Owed'
         /\ \A r \in Requests : ReplayedWell(request[r])'
<1>1. ASSUME NEW r \in Requests
      PROVE  /\ request'[r] \in Calls /\ ReplayedWell(request'[r])
             /\ MayBeServed(request'[r]) => MayBeServed(request[r])
  BY MovesAreCalls DEF Inv, Shapes, Calm
<1>2. Pending' \subseteq Pending
  BY <1>1 DEF Pending
<1>3. Cardinality(Pending') <= Cardinality(Pending) /\ Cardinality(Pending') \in Nat
  BY <1>2, PendingIsFinite, FS_Subset, FS_CardinalityType
<1>4. Owed'
  BY <1>3, PendingIsFinite DEF Inv, Shapes, Owed, Calm
<1> QED BY <1>1, <1>4 DEF Calm, Inv, Shapes

LEMMA PressesKeep ==
  ASSUME Inv, Presses
  PROVE  /\ request' \in [Requests -> Calls] /\ unserved' \in Int /\ Owed'
         /\ \A r \in Requests : ReplayedWell(request[r])'
<1>1. PICK r \in Requests : \E d : IsAPress(d) /\ request' = [request EXCEPT ![r] = d] /\ unserved' = unserved + 1
  BY DEF Presses
<1>2. PICK d : IsAPress(d) /\ request' = [request EXCEPT ![r] = d] /\ unserved' = unserved + 1
  BY <1>1
<1>3. d \in Calls /\ ReplayedWell(d)
  BY <1>2, PressesAreCalls
<1>4. /\ request' \in [Requests -> Calls] /\ request'[r] = d
      /\ \A x \in Requests \ {r} : request'[x] = request[x]
  BY <1>2, <1>3 DEF Inv, Shapes
<1>5. Pending' \subseteq Pending \cup {r}
  BY <1>4 DEF Pending
<1>6. Cardinality(Pending') <= Cardinality(Pending) + 1 /\ Cardinality(Pending') \in Nat
  <2> DEFINE more == Pending \cup {r}
  <2>1. IsFiniteSet(more) /\ Cardinality(more) \in {Cardinality(Pending), Cardinality(Pending) + 1}
    BY PendingIsFinite, FS_AddElement
  <2>2. Cardinality(Pending') <= Cardinality(more) /\ IsFiniteSet(Pending')
    BY <1>5, <2>1, FS_Subset
  <2> HIDE DEF more
  <2>3. Cardinality(Pending') \in Nat
    BY <2>2, FS_CardinalityType
  <2> QED BY <2>1, <2>2, <2>3, PendingIsFinite
<1>7. Owed' /\ unserved' \in Int
  BY <1>2, <1>6, PendingIsFinite DEF Inv, Shapes, Owed
<1>8. \A x \in Requests : ReplayedWell(request[x])'
  BY <1>3, <1>4 DEF Inv
<1> QED BY <1>4, <1>7, <1>8

LEMMA ServesKeep ==
  ASSUME Inv, Serves
  PROVE  /\ request' \in [Requests -> Calls] /\ unserved' \in Int /\ Owed'
         /\ \A r \in Requests : ReplayedWell(request[r])'
<1>1. PICK r \in Requests : \E d : /\ MayBeServed(request[r]) /\ ~MayBeServed(d) /\ Moved(request[r], d)
                                  /\ request' = [request EXCEPT ![r] = d] /\ unserved' = unserved - 1
  BY DEF Serves
<1>2. PICK d : /\ MayBeServed(request[r]) /\ ~MayBeServed(d) /\ Moved(request[r], d)
               /\ request' = [request EXCEPT ![r] = d] /\ unserved' = unserved - 1
  BY <1>1
<1>3. d \in Calls /\ ReplayedWell(d)
  BY <1>2, MovesAreCalls DEF Inv, Shapes
<1>4. /\ request' \in [Requests -> Calls] /\ request'[r] = d
      /\ \A x \in Requests \ {r} : request'[x] = request[x]
  BY <1>2, <1>3 DEF Inv, Shapes
<1>5. Pending' \subseteq Pending \ {r} /\ r \in Pending
  BY <1>2, <1>4 DEF Pending
<1>6. Cardinality(Pending') <= Cardinality(Pending) - 1 /\ Cardinality(Pending') \in Nat
  <2>1. IsFiniteSet(Pending \ {r}) /\ Cardinality(Pending \ {r}) = Cardinality(Pending) - 1
    BY <1>5, PendingIsFinite, FS_RemoveElement
  <2>2. Cardinality(Pending') <= Cardinality(Pending \ {r}) /\ IsFiniteSet(Pending')
    BY <1>5, <2>1, FS_Subset
  <2> QED BY <2>1, <2>2, FS_CardinalityType
<1>7. Owed' /\ unserved' \in Int
  BY <1>2, <1>6, PendingIsFinite DEF Inv, Shapes, Owed
<1>8. \A x \in Requests : ReplayedWell(request[x])'
  BY <1>3, <1>4 DEF Inv
<1> QED BY <1>4, <1>7, <1>8

LEMMA InitHolds == Init => Inv
<1> SUFFICES ASSUME Init  PROVE Inv
  OBVIOUS
<1>1. Shapes
  <2>1. request \in [Requests -> Calls]
    BY IdleIsACall DEF Init, PageInit
  <2>2. server \in Rows
    BY DEF Init, Rows
  <2> QED BY <2>1, <2>2 DEF Init, PageInit, Shapes, Tokens
<1>2. \A r \in Requests : request[r] = Idle
  BY DEF Init, PageInit
<1>3. \A r \in Requests : ReplayedWell(request[r]) /\ ~MayBeServed(request[r])
  BY <1>2, IdleIsACall DEF ReplayedWell, MayBeServed
<1>4. Pending = {}
  BY <1>3 DEF Pending
<1>5. Owed
  BY <1>4, FS_EmptySet DEF Owed, Init
<1> QED BY <1>1, <1>3, <1>5 DEF Inv

LEMMA Invariance == Spec => []Inv
<1>1. Inv /\ [Next]_vars => Inv'
  <2> SUFFICES ASSUME Inv, [Next]_vars  PROVE Inv'
    OBVIOUS
  <2>1. Calm \/ Presses \/ Serves
    BY Steps DEF Inv
  <2>2. /\ request' \in [Requests -> Calls] /\ unserved' \in Int /\ Owed'
        /\ \A r \in Requests : ReplayedWell(request[r])'
    BY <2>1, CalmKeeps, PressesKeep, ServesKeep
  <2>3. Shapes'
    BY <2>2, OthersKeep DEF Inv, Shapes
  <2> QED BY <2>2, <2>3 DEF Inv
<1> QED BY <1>1, InitHolds, PTL DEF Spec

-----------------------------------------------------------------------------
(* However many calls and a handshake meet a 401, the cookie is rotated once. *)
THEOREM OneRotationAtATime == Spec => []OneRotation
<1>1. Inv => OneRotation
  BY DEF Inv, Shapes, OneRotation
<1> QED BY <1>1, Invariance, PTL

(* What the interceptor replays, no handler has seen. *)
THEOREM OneBlockPerPress == Spec => []OnePressOneBlock
<1>1. Inv => OnePressOneBlock
  BY PendingIsFinite DEF Inv, Shapes, Owed, OnePressOneBlock
<1> QED BY <1>1, Invariance, PTL

(* "Unauthorized" reaches a screen of a page that stays only for a call whose
   replay left with a good token. *)
THEOREM UnauthorizedOnlyTwice == Spec => UnauthorizedTwice
<1>1. Inv /\ [Next]_vars =>
        [\A r \in Requests :
           /\ request[r].st = "answered"
           /\ request[r].answer.is = "expired"
           /\ request'[r].st \in {"idle", "sent"}
           /\ accessToken' # "none"
           => request[r].retried /\ request[r].fresh]_vars
  <2> SUFFICES ASSUME Inv, [Next]_vars, NEW r \in Requests,
                      request[r].st = "answered", request[r].answer.is = "expired",
                      request'[r].st \in {"idle", "sent"}, accessToken' # "none"
               PROVE  request[r].retried /\ request[r].fresh
    OBVIOUS
  <2>1. CASE request[r].retried
    BY <2>1 DEF Inv, ReplayedWell
  <2>2. CASE ~request[r].retried
    <3>1. isRecoverable(request[r])
      BY <2>2 DEF isRecoverable
    <3>2. request[r] \in Calls /\ request'[r] # request[r]
      BY DEF Inv, Shapes
    <3>3. ASSUME NEW x \in Requests, NEW d, request' = [request EXCEPT ![x] = d]
          PROVE  x = r /\ d = request'[r]
      BY <3>2, <3>3 DEF Inv, Shapes
    <3>4. ~reload
      BY <3>3 DEF reload, Slots, Call
    <3>5. ~LoadLogin
      BY DEF LoadLogin
    <3>6. ~(LogOut \/ \E kind \in {"extend", "end"} : Press(kind))
      BY <3>3 DEF LogOut, Press, Slots, Call
    <3>7. ~ \E x \in Requests : Handle(x) \/ Unauthorized(x)
      BY <3>3 DEF Handle, Unauthorized
    <3>8. ASSUME NEW x \in Requests  PROVE ~Settle(x) /\ ~SettleLogout(x)
      <4>1. ASSUME Settle(x)  PROVE \E d : request' = [request EXCEPT ![x] = d]
        <5>1. CASE SettleLoad(x)
          BY <5>1 DEF SettleLoad
        <5>2. CASE SettlePress(x)
          <6>1. \/ request' = [request EXCEPT ![x] = Idle]
                \/ \E kind \in {"load", "reread"} : request' = Call(request, x, kind)
            BY <5>2 DEF SettlePress
          <6> QED BY <6>1 DEF Call
        <5> QED BY <4>1, <5>1, <5>2 DEF Settle
      <4>2. ASSUME Settle(x)  PROVE FALSE
        BY <3>1, <3>3, <4>1, <4>2 DEF Settle
      <4> QED BY <3>5, <4>2 DEF SettleLogout
    <3>9. ~ \E x \in Requests : Lose(x) \/ Recover(x)
      <4>1. ASSUME NEW x \in Requests, Lose(x)  PROVE FALSE
        <5>1. request'[x].st = "answered" /\ \E d : request' = [request EXCEPT ![x] = d]
          BY <4>1 DEF Lose, Answered, Inv, Shapes, Calls
        <5> QED BY <3>3, <5>1
      <4>2. ASSUME NEW x \in Requests, Recover(x)  PROVE FALSE
        <5>1. request'[x].st = "waiting" /\ \A y \in Requests \ {x} : request'[y] = request[y]
          BY <4>2 DEF Recover, Inv, Shapes, Calls
        <5> QED BY <3>2, <5>1
      <4> QED BY <4>1, <4>2
    <3>10. ~ (TokensExpire \/ RotationEnds)
      BY <3>2, <3>5 DEF TokensExpire, RotationEnds, RotationGranted, RotationFailed, Awaiting, Calls
    <3>11. ~ (Hear \/ ComeBack \/ Connected \/ JoinRoom \/ JoinFails)
      BY <3>2, <3>4 DEF Hear, ComeBack, Connected, JoinRoom, JoinFails, pageVars
    <3>12. ~ (\/ TtlPasses \/ AcceptOffer \/ OfferEnds \/ OtherTabExtends \/ SessionEnds
              \/ WarnOfTheBlock \/ CountdownEnds \/ Dismiss \/ SocketDrops
              \/ CookieDies \/ Reconnect \/ HandshakeRefused \/ UNCHANGED vars)
      <4>1. \/ TtlPasses \/ AcceptOffer \/ OfferEnds \/ OtherTabExtends \/ SessionEnds
            \/ WarnOfTheBlock \/ CountdownEnds \/ Dismiss \/ UNCHANGED vars
            => UNCHANGED request
        BY DEF TtlPasses, AcceptOffer, OfferEnds, OtherTabExtends, SessionEnds, WarnOfTheBlock,
               CountdownEnds, Dismiss, pageVars, vars
      <4>2. SocketDrops \/ CookieDies \/ Reconnect \/ HandshakeRefused => UNCHANGED request
        BY DEF SocketDrops, CookieDies, Reconnect, HandshakeRefused
      <4> QED BY <3>2, <4>1, <4>2
    <3> QED
      BY <3>6, <3>7, <3>8, <3>9, <3>10, <3>11, <3>12 DEF Next
  <2> QED BY <2>1, <2>2
<1> QED BY <1>1, Invariance, PTL DEF Spec, UnauthorizedTwice

-----------------------------------------------------------------------------
(* The list of teachers.                                                    *)

LoadTables == [Loads -> {NoLoad} \cup [by : {"effect", "hand"}, band : Bands]]

ListShapes ==
  /\ load \in LoadTables
  /\ sends \subseteq [press : Nat, band : Bands, at : {"sent", "made", "taken", "refused"}]
  /\ priceBand \in Bands
  /\ listMoved \in Nat

(* A call that is waited for holds the latch of a screen that is still there, *)
(* and has made the offer only if that is what it will answer.              *)
OneSend ==
  /\ sends = {} \/ \E s \in sends : sends = {s}
  /\ sends # {} => sendingRef /\ ~left
  /\ \A s \in sends : s.press \in made => s.at = "made"
  /\ OneOfferAtATime

(* A load that is not for the URL's band was started by hand, or remembered. *)
ForTheUrl ==
  /\ overtaken \/ \A l \in InFlight : load[l].band = priceBand
  /\ InFlight = {} => matches = priceBand \/ matchesError \/ overtaken
  /\ InFlight = {} => ~matchesLoading

ListInv == ListShapes /\ OneSend /\ ForTheUrl

LEMMA LoadsAreStarted ==
  ASSUME ListAssumption, ListShapes, NEW all, NEW by \in {"effect", "hand"}, NEW band \in Bands,
         all \in LoadTables,
         LoadMatches(all, by, band)
  PROVE  /\ load' \in LoadTables
         /\ InFlight' # {}
         /\ \A l \in InFlight' : load'[l].band = band \/ (all[l] # NoLoad /\ load'[l] = all[l])
<1>1. PICK l \in Loads : load' = [all EXCEPT ![l] = [by |-> by, band |-> band]]
  BY DEF LoadMatches, Free
<1>2. load'[l] = [by |-> by, band |-> band]
  BY <1>1 DEF LoadTables
<1>3. load'[l] # NoLoad
  BY <1>2 DEF NoLoad
<1>4. \A k \in Loads \ {l} : load'[k] = all[k]
  BY <1>1 DEF LoadTables
<1>5. load' \in LoadTables
  BY <1>1 DEF LoadTables
<1> QED BY <1>2, <1>3, <1>4, <1>5 DEF InFlight

LEMMA ListStarts == ASSUME ListAssumption, ListInit  PROVE ListInv
<1>1. ListShapes
  BY DEF ListInit, ListShapes, LoadTables, NoLoad
<1>2. OneSend
  BY DEF ListInit, OneSend, OneOfferAtATime
<1>3. InFlight # {} /\ \A l \in InFlight : load[l].band = priceBand
  <2>1. PICK l \in Loads : load = [k \in Loads |-> IF k = l THEN [by |-> "effect", band |-> priceBand]
                                                            ELSE NoLoad]
    BY DEF ListInit
  <2>2. load[l] = [by |-> "effect", band |-> priceBand] /\ \A k \in Loads \ {l} : load[k] = NoLoad
    BY <2>1
  <2>3. load[l] # NoLoad
    BY <2>2 DEF NoLoad
  <2> QED BY <2>2, <2>3 DEF InFlight
<1> QED BY <1>1, <1>2, <1>3 DEF ListInv, ForTheUrl

LEMMA ListGoesOn == ASSUME ListAssumption, ListInv, [ListNext]_listVars  PROVE ListInv'
<1> USE DEF ListInv
<1>1. CASE UNCHANGED listVars
  BY <1>1 DEF listVars, loadVars, chooseVars, offerVars, ListShapes, OneSend, OneOfferAtATime,
              ForTheUrl, InFlight
<1>2. ASSUME NEW band \in Bands, MoveUrl(band), UNCHANGED <<chooseVars, offerVars>>, listMoved' \in Nat
      PROVE  ListInv'
  <2> DEFINE stays == [l \in Loads |-> IF kept(l) THEN load[l] ELSE NoLoad]
  <2>1. stays \in LoadTables
    BY DEF ListShapes, LoadTables, NoLoad
  <2>2. LoadMatches(stays, "effect", band) /\ priceBand' = band /\ UNCHANGED matches
    BY <1>2 DEF MoveUrl
  <2>3. /\ load' \in LoadTables /\ InFlight' # {}
        /\ \A l \in InFlight' : load'[l].band = band \/ (stays[l] # NoLoad /\ load'[l] = stays[l])
    BY <2>1, <2>2, LoadsAreStarted
  <2>4. ListShapes' /\ OneSend'
    BY <1>2, <2>2, <2>3 DEF ListShapes, OneSend, OneOfferAtATime, chooseVars, offerVars
  <2>5. ASSUME NEW l \in InFlight', load'[l].band # band  PROVE overtaken'
    <3>1. stays[l] # NoLoad /\ l \in Loads
      BY <2>3, <2>5 DEF InFlight
    <3>2. load[l] # NoLoad /\ load[l].by # "effect"
      BY <3>1 DEF kept
    <3>3. load[l].by = "hand"
      BY <3>1, <3>2 DEF ListShapes, LoadTables
    <3> QED BY <1>2, <3>1, <3>2, <3>3 DEF MoveUrl, InFlight
  <2>6. ForTheUrl'
    BY <2>2, <2>3, <2>5 DEF ForTheUrl
  <2> QED BY <2>4, <2>6
<1>3. ASSUME NEW band \in Bands, changeBand(band) \/ GoBack(band)  PROVE ListInv'
  BY <1>2, <1>3 DEF changeBand, GoBack, MoveUrl, ListMove, ListShapes
<1>4. ASSUME NEW band \in Bands, LoadMatches(load, "hand", band),
             overtaken \/ band # priceBand => overtaken', UNCHANGED <<priceBand, matches>>
      PROVE  load' \in LoadTables /\ ForTheUrl'
  <2>1. /\ load' \in LoadTables /\ InFlight' # {}
        /\ \A l \in InFlight' : load'[l].band = band \/ (load[l] # NoLoad /\ load'[l] = load[l])
    BY <1>4, LoadsAreStarted DEF ListShapes
  <2>2. ASSUME NEW l \in InFlight', ~overtaken'  PROVE load'[l].band = priceBand
    <3>1. l \in Loads /\ band = priceBand /\ ~overtaken
      BY <1>4, <2>2 DEF InFlight
    <3> QED BY <2>1, <2>2, <3>1 DEF ForTheUrl, InFlight
  <2> QED BY <1>4, <2>1, <2>2 DEF ForTheUrl
<1>5. CASE LookAgain
  <2>1. LoadMatches(load, "hand", priceBand) /\ UNCHANGED <<priceBand, matches, overtaken, chooseVars, offerVars>>
    BY <1>5 DEF LookAgain
  <2>2. load' \in LoadTables /\ ForTheUrl'
    BY <1>4, <2>1 DEF ListShapes
  <2>3. listMoved' \in Nat
    BY <1>5 DEF LookAgain, ListMove, ListShapes
  <2> QED BY <2>1, <2>2, <2>3 DEF ListShapes, OneSend, OneOfferAtATime, chooseVars, offerVars
<1>6. ASSUME NEW l \in Loads, LoadAnswers(l)  PROVE ListInv'
  <2>1. /\ load[l] # NoLoad
        /\ load' = [load EXCEPT ![l] = NoLoad]
        /\ matches' = load[l].band \/ matchesError'
        /\ ~matchesLoading'
        /\ UNCHANGED <<priceBand, overtaken, chooseVars, offerVars, listMoved>>
    BY <1>6 DEF LoadAnswers
  <2>2. load' \in LoadTables
    BY <2>1 DEF ListShapes, LoadTables, NoLoad
  <2>3. \A k \in InFlight' : k \in InFlight /\ load'[k] = load[k]
    BY <2>1 DEF ListShapes, InFlight
  <2>4. l \in InFlight
    BY <2>1 DEF InFlight
  <2>5. ForTheUrl'
    BY <2>1, <2>3, <2>4 DEF ForTheUrl
  <2> QED BY <2>1, <2>2, <2>5 DEF ListShapes, OneSend, OneOfferAtATime, chooseVars, offerVars
<1>7. CASE onChoose
  <2>1. sends = {} /\ made = {} /\ ~left
    BY <1>7 DEF onChoose, isSending, ListMove, OneSend, OneOfferAtATime
  <2>2. /\ sends' = {[press |-> listMoved', band |-> priceBand, at |-> "sent"]} /\ sendingRef'
        /\ listMoved' \in Nat
        /\ UNCHANGED <<loadVars, left, made>>
    BY <1>7, <2>1 DEF onChoose, ListMove, ListShapes, offerVars
  <2>3. ForTheUrl'
    BY <2>2 DEF ForTheUrl, InFlight, loadVars
  <2> QED BY <2>1, <2>2, <2>3 DEF ListShapes, OneSend, OneOfferAtATime, loadVars
<1>8. CASE DrawCards \/ OffersElsewhere \/ \E answer \in {"made", "taken", "refused"} : ServeAdrift(answer)
  <2>1. UNCHANGED <<loadVars, sendingRef, sends, left, made, listMoved>>
    BY <1>8 DEF DrawCards, OffersElsewhere, ServeAdrift, chooseVars, offerVars
  <2> QED BY <2>1 DEF loadVars, ListShapes, OneSend, OneOfferAtATime, ForTheUrl, InFlight
<1>9. ASSUME NEW send \in sends
      PROVE  /\ sends = {send} /\ sendingRef /\ ~left
             /\ send \in [press : Nat, band : Bands, at : {"sent", "made", "taken", "refused"}]
             /\ made \subseteq {send.press}
  BY <1>9 DEF OneSend, OneOfferAtATime, ListShapes
<1>10. ASSUME NEW send \in sends, NEW answer \in {"made", "taken", "refused"}, ServeSend(send, answer)
       PROVE  ListInv'
  <2> DEFINE next == [send EXCEPT !.at = answer]
  <2>1. /\ next \in [press : Nat, band : Bands, at : {"sent", "made", "taken", "refused"}]
        /\ next.press = send.press /\ next.at = answer
    BY <1>9
  <2>2. /\ sends' = {next} /\ UNCHANGED <<loadVars, sendingRef, left, listMoved>>
        /\ made' = IF answer = "made" THEN made \cup {send.press} ELSE made
        /\ send.press \notin made
    BY <1>9, <1>10 DEF ServeSend, OneSend
  <2> HIDE DEF next
  <2>3. ForTheUrl'
    BY <2>2 DEF ForTheUrl, InFlight, loadVars
  <2>4. OneSend'
    BY <1>9, <2>1, <2>2 DEF OneSend, OneOfferAtATime
  <2> QED BY <2>1, <2>2, <2>3, <2>4 DEF ListShapes, loadVars
<1>11. ASSUME NEW send \in sends, OfferIsOut(send)  PROVE ListInv'
  <2>1. sends' = {} /\ left' /\ UNCHANGED <<loadVars, made, listMoved>>
    BY <1>9, <1>11 DEF OfferIsOut, offerVars
  <2>2. ForTheUrl'
    BY <2>1 DEF ForTheUrl, InFlight, loadVars
  <2>3. OneSend'
    BY <1>9, <2>1 DEF OneSend, OneOfferAtATime
  <2> QED BY <2>1, <2>2, <2>3 DEF ListShapes, loadVars
<1>12. ASSUME NEW send \in sends, OfferFails(send)  PROVE ListInv'
  <2>1. /\ sends' = {} /\ send.band \in Bands
        /\ UNCHANGED <<priceBand, matches, made, listMoved>>
    BY <1>9, <1>12 DEF OfferFails, Reopen, offerVars
  <2>2. \/ UNCHANGED <<load, matchesError, matchesLoading, overtaken>>
        \/ /\ LoadMatches(load, "hand", send.band)
           /\ (overtaken \/ send.band # priceBand => overtaken')
    BY <1>12 DEF OfferFails, SameList
  <2>3. load' \in LoadTables /\ ForTheUrl'
    <3>1. CASE UNCHANGED <<load, matchesError, matchesLoading, overtaken>>
      BY <2>1, <3>1 DEF ForTheUrl, InFlight, ListShapes
    <3> QED BY <1>4, <2>1, <2>2, <3>1
  <2>4. made = {}
    BY <1>9, <1>12 DEF OfferFails, OneSend
  <2> QED BY <2>1, <2>3, <2>4 DEF ListShapes, OneSend, OneOfferAtATime
<1>13. ASSUME NEW send \in sends, AnswerLost(send)  PROVE ListInv'
  <2>1. sends' = {} /\ made' = {} /\ UNCHANGED <<loadVars, listMoved>>
    BY <1>9, <1>13 DEF AnswerLost, Reopen
  <2>2. ForTheUrl'
    BY <2>1 DEF ForTheUrl, InFlight, loadVars
  <2> QED BY <2>1, <2>2 DEF ListShapes, OneSend, OneOfferAtATime, loadVars
<1> QED
  BY <1>1, <1>3, <1>5, <1>6, <1>7, <1>8, <1>10, <1>11, <1>12, <1>13 DEF ListNext

(* However fast cards are pressed, whatever the server does with each call   *)
(* and whichever answers are lost, the page has at most one offer made for  *)
(* its question whose answer it had or still waits for, and it stays only   *)
(* while it waits (onChoose's latch): for any bands, loads and presses.     *)
THEOREM OneOfferFromTheList == ListSpec => []OneOfferAtATime
<1>1. ListInv => OneOfferAtATime
  BY DEF ListInv, OneSend
<1> QED BY <1>1, ListStarts, ListGoesOn, ListAssumption, PTL DEF ListSpec

(* Once every load has answered, the spinner is gone and the list is the    *)
(* URL's, up to errors and loads started by hand (loadMatches).             *)
THEOREM TheListIsTheUrls == ListSpec => []ListIsForTheUrl
<1>1. ListInv => ListIsForTheUrl
  BY DEF ListInv, ForTheUrl, ListIsForTheUrl
<1> QED BY <1>1, ListStarts, ListGoesOn, ListAssumption, PTL DEF ListSpec
-----------------------------------------------------------------------------
(* The availability control.                                                *)

RowStatuses == {"ONLINE", "OFFLINE", "OFFER_LOCKED", "IN_SESSION"}

Stages == [at : {"none", "sent", "done", "failed"}, status : RowStatuses \cup {"unread"}]

PillShapes ==
  /\ row \in RowStatuses
  /\ feed \in Seq(RowStatuses)
  /\ patch \in Stages
  /\ read \in Stages
  /\ patch.at # "none" => patch.status # "unread"

\* The last news on its way is the row's status.
Coming == feed # <<>> /\ feed[Len(feed)] = row

(* The tab is right, or is about to hear what is right, or missed it; so is *)
(* each answer that no news has made old.                                   *)
ToldInTheEnd ==
  /\ pill \in {"unread", row} \/ behind \/ feed # <<>>
  /\ feed # <<>> => Coming \/ behind

CallsAreCurrent ==
  /\ patch.at = "done" /\ "patch" \notin old => patch.status = row \/ Coming
  /\ read.at = "done" /\ "read" \notin old => read.status = row \/ Coming

PillInv == PillShapes /\ ToldInTheEnd /\ CallsAreCurrent

LEMMA PillStarts == ASSUME PillInit  PROVE PillInv
BY DEF PillInit, PillInv, PillShapes, ToldInTheEnd, CallsAreCurrent, RowStatuses, Stages, None, Sent

(* A status that is told is on its way; what nobody tells makes old every   *)
(* answer that says otherwise.                                              *)
LEMMA Told ==
  ASSUME PillShapes, row' \in RowStatuses, attached, emitTeacherStatus(row')
  PROVE  feed' \in Seq(RowStatuses) /\ Coming'
BY DEF PillShapes, emitTeacherStatus, Coming

LEMMA Untold ==
  ASSUME NEW status, NotHeard(status)
  PROVE  /\ behind'
         /\ patch.at = "done" /\ "patch" \notin old' => patch.status = status
         /\ read.at = "done" /\ "read" \notin old' => read.status = status
BY DEF NotHeard, Contrary

LEMMA TailOfFeed ==
  ASSUME feed \in Seq(RowStatuses), feed # <<>>, feed' = Tail(feed), UNCHANGED row
  PROVE  /\ feed' \in Seq(RowStatuses) /\ Head(feed) \in RowStatuses
         /\ feed' # <<>> => (Coming' <=> Coming)
         /\ feed' = <<>> => (Coming <=> Head(feed) = row)
<1>1. /\ Head(feed) = feed[1] /\ Head(feed) \in RowStatuses
      /\ Tail(feed) \in Seq(RowStatuses) /\ Len(Tail(feed)) = Len(feed) - 1
      /\ \A i \in 1 .. Len(feed) - 1 : Tail(feed)[i] = feed[i + 1]
  BY HeadTailProperties
<1>2. Len(feed) \in Nat /\ Len(feed) >= 1
  BY EmptySeq
<1>3. feed' = <<>> <=> Len(feed) = 1
  <2>1. Len(feed') = Len(feed) - 1
    BY <1>1
  <2>2. ASSUME feed' = <<>>  PROVE Len(feed') = 0
    BY <2>2, EmptySeq, Zenon
  <2>3. ASSUME feed' # <<>>  PROVE Len(feed') # 0
    BY <1>1, <2>3, EmptySeq
  <2> QED BY <1>2, <2>1, <2>2, <2>3
<1>4. CASE feed' = <<>>
  BY <1>1, <1>3, <1>4 DEF Coming
<1>5. CASE feed' # <<>>
  <2>1. feed'[Len(feed')] = feed[Len(feed)]
    BY <1>1, <1>2, <1>3, <1>5
  <2> QED BY <1>1, <1>5, <2>1 DEF Coming
<1> QED BY <1>4, <1>5

LEMMA PillGoesOn == ASSUME PillInv, [PillNext]_pillVars  PROVE PillInv'
<1> USE DEF PillInv
<1>1. CASE UNCHANGED pillVars
  BY <1>1 DEF pillVars, calls, news, pillCount, PillShapes, ToldInTheEnd, CallsAreCurrent, Coming
<1>2. CASE StatusMoves
  <2>1. row' \in RowStatuses /\ emitTeacherStatus(row') /\ UNCHANGED <<attached, pill, calls>>
    BY <1>2 DEF StatusMoves, OfferLocks, LockEnds, GoesAway, OtherTabToggles, Announced, RowStatuses
  <2>2. CASE attached
    BY <2>1, <2>2, Told DEF calls, PillShapes, ToldInTheEnd, CallsAreCurrent, Coming
  <2>3. CASE ~attached
    <3>1. feed' = feed /\ NotHeard(row')
      BY <2>1, <2>3 DEF emitTeacherStatus
    <3> QED BY <2>1, <3>1, Untold DEF calls, PillShapes, ToldInTheEnd, CallsAreCurrent
  <2> QED BY <2>2, <2>3
<1>3. CASE SessionReleases
  <2>1. row' = "ONLINE" /\ NotHeard("ONLINE") /\ UNCHANGED <<feed, pill, calls>>
    BY <1>3 DEF SessionReleases
  <2> QED BY <2>1, Untold DEF calls, PillShapes, ToldInTheEnd, CallsAreCurrent, RowStatuses
<1>4. CASE Attach
  BY <1>4 DEF Attach, calls, news, pillCount, PillShapes, ToldInTheEnd, CallsAreCurrent, Coming
<1>5. CASE Detach
  <2>1. feed' = <<>> /\ UNCHANGED <<row, pill, calls>>
    BY <1>5 DEF Detach
  <2>2. CASE feed = <<>>
    BY <1>5, <2>1, <2>2 DEF Detach, Heard, news, calls, PillShapes, ToldInTheEnd, CallsAreCurrent, Coming
  <2>3. CASE feed # <<>>
    <3>1. NotHeard(row)
      BY <1>5, <2>3 DEF Detach
    <3> QED BY <2>1, <3>1, Untold DEF calls, PillShapes, ToldInTheEnd, CallsAreCurrent
  <2> QED BY <2>2, <2>3
<1>6. CASE HearStatus
  <2>1. /\ feed # <<>> /\ feed' = Tail(feed)
        /\ UNCHANGED <<row, patch, read, behind>>
        /\ pill' = IF pill = "unread" THEN pill ELSE Head(feed)
    BY <1>6 DEF HearStatus, calls
  <2>2. /\ patch.at = "done" /\ "patch" \notin old' => patch.status = Head(feed)
        /\ read.at = "done" /\ "read" \notin old' => read.status = Head(feed)
        /\ behind => old \subseteq old'
    BY <1>6 DEF HearStatus, Contrary
  <2>3. /\ feed' \in Seq(RowStatuses) /\ Head(feed) \in RowStatuses
        /\ feed' # <<>> => (Coming' <=> Coming)
        /\ feed' = <<>> => (Coming <=> Head(feed) = row)
    BY <2>1, TailOfFeed DEF PillShapes
  <2>4. PillShapes' /\ ToldInTheEnd'
    BY <2>1, <2>3 DEF PillShapes, ToldInTheEnd
  <2>5. CallsAreCurrent'
    <3>1. CASE Coming
      BY <2>1, <2>2, <2>3, <3>1 DEF CallsAreCurrent
    <3>2. CASE ~Coming
      BY <2>1, <2>2, <3>2 DEF CallsAreCurrent, ToldInTheEnd
    <3> QED BY <3>1, <3>2
  <2> QED BY <2>4, <2>5
<1>7. ASSUME NEW status \in {"ONLINE", "OFFLINE"}, Toggle(status)  PROVE PillInv'
  <2>1. patch' = Sent(status) /\ UNCHANGED <<row, feed, pill, read, old, behind>>
    BY <1>7 DEF Toggle, news
  <2> QED BY <1>7, <2>1 DEF Sent, Stages, RowStatuses, PillShapes, ToldInTheEnd, CallsAreCurrent, Coming
<1>8. CASE PatchMe
  <2>1. CASE /\ patch.at = "sent" /\ patch' = [patch EXCEPT !.at = "failed"]
             /\ UNCHANGED <<row, feed, news, pill, read>>
    BY <2>1 DEF news, Stages, PillShapes, ToldInTheEnd, CallsAreCurrent, Coming
  <2>2. CASE /\ patch.at = "sent" /\ patch' = [patch EXCEPT !.at = "done"]
             /\ row' = patch.status /\ emitTeacherStatus(row') /\ UNCHANGED <<pill, read>>
             /\ patch.status # "unread"
    <3>1. /\ patch' \in Stages /\ patch'.status = row' /\ row' \in RowStatuses
      BY <2>2 DEF PillShapes, Stages, RowStatuses
    <3>2. CASE attached
      BY <2>2, <3>1, <3>2, Told DEF PillShapes, ToldInTheEnd, CallsAreCurrent, Coming, RowStatuses
    <3>3. CASE ~attached
      <4>1. feed' = feed /\ NotHeard(row')
        BY <2>2, <3>3 DEF emitTeacherStatus
      <4> QED BY <2>2, <3>1, <4>1, Untold DEF PillShapes, ToldInTheEnd, CallsAreCurrent, RowStatuses
    <3> QED BY <3>2, <3>3
  <2> QED BY <1>8, <2>1, <2>2 DEF PatchMe, news, PillShapes
<1>9. CASE PatchArrives
  <2>1. patch' = None /\ UNCHANGED <<row, feed, read>> /\ old' = old \ {"patch"}
    BY <1>9 DEF PatchArrives
  <2>3. behind => behind'
    BY <1>9 DEF PatchArrives
  <2>2. pill' = pill \/ (pill' = patch.status /\ patch.at = "done" /\ ("patch" \in old => behind'))
    BY <1>9 DEF PatchArrives
  <2> QED BY <2>1, <2>2, <2>3 DEF None, Stages, RowStatuses, PillShapes, ToldInTheEnd, CallsAreCurrent, Coming
<1>10. CASE Navigate
  BY <1>10 DEF Navigate, Sent, Stages, RowStatuses, PillShapes, ToldInTheEnd, CallsAreCurrent, Coming
<1>11. CASE GetMe
  BY <1>11 DEF GetMe, news, Stages, PillShapes, ToldInTheEnd, CallsAreCurrent, Coming
<1>12. CASE ReadArrives
  <2>1. /\ read.at = "done" /\ read' = None /\ UNCHANGED <<row, feed, patch>> /\ pill' = read.status
        /\ (behind' <=> ("read" \in old \/ (behind /\ feed # <<>>)))
        /\ ("patch" \notin old' => "patch" \notin old)
    BY <1>12 DEF ReadArrives
  <2> QED BY <2>1 DEF None, Stages, RowStatuses, PillShapes, ToldInTheEnd, CallsAreCurrent, Coming
<1>13. CASE LoseCall
  <2>1. /\ UNCHANGED <<row, feed, pill, behind>>
        /\ \/ /\ patch.at # "none" /\ patch' = [patch EXCEPT !.at = "failed"] /\ read' = read
              /\ old' = old \ {"patch"}
           \/ /\ read' = None /\ patch' = patch
              /\ old' = old \ {"read"}
    BY <1>13 DEF LoseCall
  <2> QED BY <2>1 DEF None, Stages, PillShapes, ToldInTheEnd, CallsAreCurrent, Coming
<1> QED
  BY <1>1, <1>2, <1>3, <1>4, <1>5, <1>6, <1>7, <1>8, <1>9, <1>10, <1>11, <1>12, <1>13 DEF PillNext

(* The header shows the row's status once everything has come through, for  *)
(* any number of moves and lost calls (TeacherStatusToggle.jsx).            *)
THEOREM TheHeaderIsCurrent == PillSpec => []HeaderIsCurrent
<1>1. PillInv => HeaderIsCurrent
  BY DEF PillInv, ToldInTheEnd, HeaderIsCurrent
<1> QED BY <1>1, PillStarts, PillGoesOn, PTL DEF PillSpec

-----------------------------------------------------------------------------
(* The offer's modal.                                                       *)

Frames == [event : {"offer:new", "offer:expired"}, offer : Offers]

ModalShapes ==
  /\ standing \in [Offers -> {"unsent", "open", "over"}]
  /\ wire \in Seq(Frames)
  /\ announcing \subseteq Offers
  /\ replays \subseteq Offers \cup {"asked"}
  /\ shown \in Offers \cup {NoOffer}
  /\ answers \subseteq [offer : Offers, kind : {"accept", "reject"}, at : {"sent", "back"}]

OnWire(event, o) == \E i \in 1 .. Len(wire) : wire[i] = [event |-> event, offer |-> o]

(* Only what is over is announced as expired.                               *)
ExpiredAreOver == \A o \in Offers : OnWire("offer:expired", o) => standing[o] = "over"

UnderWay(o) == o \in announcing \/ o \in replays \/ "asked" \in replays

(* An offer that stands is shown, or the tab is to be told of it.           *)
ShownOrToCome ==
  link => \A o \in Offers \ closed :
            Stands(o) => shown = o \/ UnderWay(o) \/ OnWire("offer:new", o)

ModalInv == ModalShapes /\ ExpiredAreOver /\ ShownOrToCome

LEMMA ModalStarts == ASSUME ModalAssumption, ModalInit  PROVE ModalInv
BY DEF ModalInit, ModalInv, ModalShapes, ExpiredAreOver, ShownOrToCome, OnWire

LEMMA Delivered ==
  ASSUME wire \in Seq(Frames), NEW event \in {"offer:new", "offer:expired"}, NEW o \in Offers,
         Deliver(event, o)
  PROVE  /\ wire' \in Seq(Frames)
         /\ link => OnWire(event, o)'
         /\ \A e, x : OnWire(e, x) => OnWire(e, x)'
         /\ \A e, x : OnWire(e, x)' => OnWire(e, x) \/ (e = event /\ x = o)
<1>1. CASE ~link
  BY <1>1 DEF Deliver, OnWire
<1>2. CASE link
  <2>1. wire' = Append(wire, [event |-> event, offer |-> o]) /\ [event |-> event, offer |-> o] \in Frames
    BY <1>2 DEF Deliver, Frames
  <2>2. /\ wire' \in Seq(Frames) /\ Len(wire') = Len(wire) + 1 /\ Len(wire) \in Nat
        /\ wire'[Len(wire) + 1] = [event |-> event, offer |-> o]
        /\ \A i \in 1 .. Len(wire) : wire'[i] = wire[i]
    BY <2>1
  <2>3. \A e, x : OnWire(e, x) => OnWire(e, x)'
    BY <2>2 DEF OnWire
  <2>4. OnWire(event, o)'
    BY <2>2 DEF OnWire
  <2>5. ASSUME NEW e, NEW x, OnWire(e, x)'  PROVE OnWire(e, x) \/ (e = event /\ x = o)
    <3>1. PICK i \in 1 .. Len(wire') : wire'[i] = [event |-> e, offer |-> x]
      BY <2>5 DEF OnWire
    <3>2. CASE i = Len(wire) + 1
      BY <2>2, <3>1, <3>2
    <3>3. CASE i \in 1 .. Len(wire)
      BY <2>2, <3>1, <3>3 DEF OnWire
    <3> QED BY <2>2, <3>2, <3>3
  <2> QED BY <2>2, <2>3, <2>4, <2>5
<1> QED BY <1>1, <1>2

LEMMA HeadOfWire ==
  ASSUME wire \in Seq(Frames), wire # <<>>, wire' = Tail(wire)
  PROVE  /\ wire' \in Seq(Frames)
         /\ Head(wire) \in Frames
         /\ OnWire(Head(wire).event, Head(wire).offer)
         /\ \A e, x : OnWire(e, x) => OnWire(e, x)' \/ Head(wire) = [event |-> e, offer |-> x]
         /\ \A e, x : OnWire(e, x)' => OnWire(e, x)
<1>1. /\ Head(wire) = wire[1] /\ Head(wire) \in Frames
      /\ wire' \in Seq(Frames) /\ Len(wire') = Len(wire) - 1
      /\ \A i \in 1 .. Len(wire) - 1 : wire'[i] = wire[i + 1]
  BY HeadTailProperties
<1>2. Len(wire) \in Nat /\ Len(wire) >= 1
  BY EmptySeq
<1>3. Head(wire) = [event |-> Head(wire).event, offer |-> Head(wire).offer]
  BY <1>1 DEF Frames
<1>4. OnWire(Head(wire).event, Head(wire).offer)
  BY <1>1, <1>2, <1>3 DEF OnWire
<1>5. ASSUME NEW e, NEW x, OnWire(e, x)
      PROVE  OnWire(e, x)' \/ Head(wire) = [event |-> e, offer |-> x]
  <2>1. PICK i \in 1 .. Len(wire) : wire[i] = [event |-> e, offer |-> x]
    BY <1>5 DEF OnWire
  <2>2. CASE i = 1
    BY <1>1, <2>1, <2>2
  <2>3. CASE i # 1
    <3>1. i - 1 \in 1 .. Len(wire') /\ wire'[i - 1] = wire[i]
      BY <1>1, <1>2, <2>3
    <3> QED BY <2>1, <3>1 DEF OnWire
  <2> QED BY <2>2, <2>3
<1>6. ASSUME NEW e, NEW x, OnWire(e, x)'  PROVE OnWire(e, x)
  <2>1. PICK i \in 1 .. Len(wire') : wire'[i] = [event |-> e, offer |-> x]
    BY <1>6 DEF OnWire
  <2>2. i + 1 \in 1 .. Len(wire) /\ wire[i + 1] = wire'[i]
    BY <1>1, <1>2
  <2> QED BY <2>1, <2>2 DEF OnWire
<1> QED BY <1>1, <1>4, <1>5, <1>6

(* Offers that get settled, or due, or stay: the rest is as it was.         *)
LEMMA OffersSettle ==
  ASSUME ModalInv, standing' \in [Offers -> {"unsent", "open", "over"}],
         \A o \in Offers : standing'[o] \in {standing[o], "over"}, due \subseteq due',
         UNCHANGED <<wire, link, announcing, replays, shown, closed>>
  PROVE  /\ ExpiredAreOver' /\ ShownOrToCome'
         /\ answers' \subseteq [offer : Offers, kind : {"accept", "reject"}, at : {"sent", "back"}]
              => ModalInv'
BY DEF ModalInv, ModalShapes, ExpiredAreOver, ShownOrToCome, OnWire, UnderWay, Stands

LEMMA ModalGoesOn == ASSUME ModalAssumption, ModalInv, [ModalNext]_modalVars  PROVE ModalInv'
<1> DEFINE Answerings == [offer : Offers, kind : {"accept", "reject"}, at : {"sent", "back"}]
<1> USE DEF ModalInv
<1>1. CASE UNCHANGED modalVars
  BY <1>1, OffersSettle DEF modalVars, offerRows, deliveries, modalView, modalCount, ModalShapes
<1>2. ASSUME NEW o \in Offers, SendOffer(o)  PROVE ModalInv'
  <2>1. /\ standing[o] = "unsent" /\ standing' = [standing EXCEPT ![o] = "open"]
        /\ announcing' = announcing \cup {o}
        /\ UNCHANGED <<due, wire, link, replays, shown, closed, answers>>
    BY <1>2 DEF SendOffer, modalView
  <2>2. ModalShapes' /\ \A x \in Offers \ {o} : standing'[x] = standing[x]
    BY <2>1 DEF ModalShapes
  <2>3. ExpiredAreOver'
    BY <2>1, <2>2 DEF ExpiredAreOver, OnWire
  <2>4. ShownOrToCome'
    BY <2>1, <2>2 DEF ShownOrToCome, OnWire, UnderWay, Stands
  <2> QED BY <2>2, <2>3, <2>4
<1>3. ASSUME NEW o \in Offers, AnnounceOffer(o)  PROVE ModalInv'
  <2>1. /\ announcing' = announcing \ {o} /\ Deliver("offer:new", o)
        /\ UNCHANGED <<standing, due, link, replays, shown, closed, answers>>
    BY <1>3 DEF AnnounceOffer, offerRows, modalView
  <2>2. /\ wire' \in Seq(Frames) /\ (link => OnWire("offer:new", o)')
        /\ \A e, x : OnWire(e, x) => OnWire(e, x)'
        /\ \A e, x : OnWire(e, x)' => OnWire(e, x) \/ (e = "offer:new" /\ x = o)
    BY <2>1, Delivered DEF ModalShapes
  <2>3. ExpiredAreOver'
    BY <2>1, <2>2 DEF ExpiredAreOver
  <2>4. ShownOrToCome'
    BY <2>1, <2>2 DEF ShownOrToCome, UnderWay, Stands
  <2> QED BY <2>1, <2>2, <2>3, <2>4 DEF ModalShapes
<1>4. ASSUME NEW o \in Offers, OfferIsDue(o)  PROVE ModalInv'
  BY <1>4, OffersSettle DEF OfferIsDue, deliveries, modalView, ModalShapes
<1>5. ASSUME NEW o \in Offers, settleExpiredOffer(o)  PROVE ModalInv'
  <2>1. /\ standing' = [standing EXCEPT ![o] = "over"] /\ Deliver("offer:expired", o)
        /\ UNCHANGED <<due, link, announcing, replays, shown, closed, answers>>
    BY <1>5 DEF settleExpiredOffer, Settled, deliveries, modalView
  <2>2. /\ wire' \in Seq(Frames)
        /\ \A e, x : OnWire(e, x) => OnWire(e, x)'
        /\ \A e, x : OnWire(e, x)' => OnWire(e, x) \/ (e = "offer:expired" /\ x = o)
    BY <2>1, Delivered DEF ModalShapes
  <2>3. /\ standing' \in [Offers -> {"unsent", "open", "over"}] /\ standing'[o] = "over"
        /\ \A x \in Offers : standing'[x] \in {standing[x], "over"}
    BY <2>1 DEF ModalShapes
  <2>4. ExpiredAreOver'
    BY <2>2, <2>3 DEF ExpiredAreOver
  <2>5. ShownOrToCome'
    BY <2>1, <2>2, <2>3 DEF ShownOrToCome, UnderWay, Stands
  <2> QED BY <2>1, <2>2, <2>3, <2>4, <2>5 DEF ModalShapes
<1>6. ASSUME NEW o \in Offers, Settled(o)
      PROVE  /\ standing' \in [Offers -> {"unsent", "open", "over"}]
             /\ \A x \in Offers : standing'[x] \in {standing[x], "over"}
  BY <1>6 DEF Settled, ModalShapes
<1>7. ASSUME NEW o \in Offers, AnswerFromElsewhere(o)  PROVE ModalInv'
  <2>1. Settled(o) /\ UNCHANGED <<due, wire, link, announcing, replays, shown, closed, answers>>
    BY <1>7 DEF AnswerFromElsewhere, Accepts, Rejects, deliveries, modalView
  <2> QED BY <1>6, <2>1, OffersSettle DEF ModalShapes
<1>8. CASE SessionIsOver \/ PatchAvailability
  <2>1. UNCHANGED <<standing, due, wire, link, announcing, replays, shown, closed, answers>>
    BY <1>8 DEF SessionIsOver, PatchAvailability, deliveries, modalView
  <2> QED BY <2>1, OffersSettle DEF ModalShapes
<1>9. CASE TabConnects \/ OtherTabConnects
  <2>1. replays' = replays \cup {"asked"}
        /\ UNCHANGED <<standing, due, wire, announcing, shown, closed, answers>>
    BY <1>9 DEF TabConnects, OtherTabConnects, offerRows, modalView
  <2> QED BY <2>1 DEF ModalShapes, ExpiredAreOver, ShownOrToCome, OnWire, UnderWay
<1>10. CASE LinkDrops
  BY <1>10 DEF LinkDrops, offerRows, deliveries, modalView, ModalShapes, ExpiredAreOver, ShownOrToCome, OnWire
<1>11. CASE findOfferSessionForTeacher
  <2>1. UNCHANGED <<standing, due, wire, link, announcing, shown, answers>>
    BY <1>11 DEF findOfferSessionForTeacher, offerRows
  <2>2. CASE OpenOffers = {} /\ replays' = replays \ {"asked"} /\ UNCHANGED closed
    BY <2>1, <2>2 DEF OpenOffers, ModalShapes, ExpiredAreOver, ShownOrToCome, OnWire, Stands
  <2>3. ASSUME NEW o \in OpenOffers, replays' = (replays \ {"asked"}) \cup {o},
               closed' = closed \cup (OpenOffers \ {o})
        PROVE  ModalInv'
    BY <2>1, <2>3 DEF OpenOffers, ModalShapes, ExpiredAreOver, ShownOrToCome, OnWire, UnderWay, Stands
  <2> QED BY <1>11, <2>2, <2>3 DEF findOfferSessionForTeacher
<1>12. ASSUME NEW o \in Offers, ReplayOffer(o)  PROVE ModalInv'
  <2>1. /\ replays' = replays \ {o}
        /\ IF Stands(o) THEN Deliver("offer:new", o) ELSE wire' = wire
        /\ UNCHANGED <<standing, due, link, announcing, shown, closed, answers>>
    BY <1>12 DEF ReplayOffer, offerRows, modalView
  <2>2. /\ wire' \in Seq(Frames) /\ (Stands(o) /\ link => OnWire("offer:new", o)')
        /\ \A e, x : OnWire(e, x) => OnWire(e, x)'
        /\ \A e, x : OnWire(e, x)' => OnWire(e, x) \/ e = "offer:new"
    <3>1. CASE Stands(o)
      BY <2>1, <3>1, Delivered DEF ModalShapes
    <3>2. CASE ~Stands(o)
      BY <2>1, <3>2 DEF ModalShapes, OnWire
    <3> QED BY <3>1, <3>2
  <2>3. ExpiredAreOver'
    BY <2>1, <2>2 DEF ExpiredAreOver
  <2>4. ShownOrToCome'
    BY <2>1, <2>2, ModalAssumption DEF ShownOrToCome, UnderWay, Stands
  <2> QED BY <2>1, <2>2, <2>3, <2>4 DEF ModalShapes
<1>13. CASE HearOfferFrame
  <2>1. wire # <<>> /\ wire' = Tail(wire)
        /\ UNCHANGED <<standing, due, link, announcing, replays, answers>>
    BY <1>13 DEF HearOfferFrame, offerRows, deliveries
  <2>2. /\ wire' \in Seq(Frames) /\ Head(wire) \in Frames
        /\ OnWire(Head(wire).event, Head(wire).offer)
        /\ \A e, x : OnWire(e, x) => OnWire(e, x)' \/ Head(wire) = [event |-> e, offer |-> x]
        /\ \A e, x : OnWire(e, x)' => OnWire(e, x)
    BY <2>1, HeadOfWire DEF ModalShapes
  <2>3. ExpiredAreOver'
    BY <2>1, <2>2 DEF ExpiredAreOver
  <2>4. CASE Head(wire).event = "offer:new" /\ HearOffer(Head(wire).offer)
    <3> DEFINE o == Head(wire).offer
    <3>1. o \in Offers
      BY <2>2 DEF Frames
    <3>2. /\ shown' = IF shown = NoOffer THEN o ELSE shown
          /\ closed' = IF shown \in {NoOffer, o} THEN closed \ {o} ELSE closed \cup {o}
      BY <2>4 DEF HearOffer
    <3>3. ASSUME NEW x \in Offers \ closed', Stands(x), link
          PROVE  shown' = x \/ UnderWay(x) \/ OnWire("offer:new", x)'
      <4>1. CASE x = o
        BY <3>2, <3>3, <4>1
      <4>2. CASE x # o
        <5>1. shown = x \/ UnderWay(x) \/ OnWire("offer:new", x)
          BY <3>2, <3>3, <4>2 DEF ShownOrToCome
        <5>2. shown = x => shown' = x
          BY <3>2, <3>3, ModalAssumption
        <5> QED BY <2>2, <4>2, <5>1, <5>2
      <4> QED BY <4>1, <4>2
    <3>4. ShownOrToCome'
      BY <2>1, <3>3 DEF ShownOrToCome, UnderWay, Stands
    <3> QED BY <2>1, <2>2, <2>3, <3>1, <3>2, <3>4 DEF ModalShapes
  <2>5. CASE Head(wire).event = "offer:expired" /\ HearExpired(Head(wire).offer)
    <3> DEFINE o == Head(wire).offer
    <3>1. o \in Offers /\ ~Stands(o)
      BY <2>2, <2>5 DEF Frames, ExpiredAreOver, Stands
    <3>2. shown' = (IF shown = o THEN NoOffer ELSE shown) /\ UNCHANGED closed
      BY <2>5 DEF HearExpired, clearOffer, isShown
    <3>3. ASSUME NEW x \in Offers \ closed, Stands(x), link
          PROVE  shown' = x \/ UnderWay(x) \/ OnWire("offer:new", x)'
      <4>1. shown = x \/ UnderWay(x) \/ OnWire("offer:new", x)
        BY <3>3 DEF ShownOrToCome
      <4>2. Head(wire) # [event |-> "offer:new", offer |-> x]
        BY <2>5
      <4> QED BY <2>2, <3>1, <3>2, <3>3, <4>1, <4>2
    <3>4. ShownOrToCome'
      BY <2>1, <3>2, <3>3 DEF ShownOrToCome, UnderWay, Stands
    <3> QED BY <2>1, <2>2, <2>3, <3>2, <3>4 DEF ModalShapes
  <2> QED BY <1>13, <2>4, <2>5 DEF HearOfferFrame
<1>14. CASE onExpire
  <2>1. shown \in due /\ shown' = NoOffer
        /\ UNCHANGED <<standing, due, wire, link, announcing, replays, closed, answers>>
    BY <1>14 DEF onExpire, clearOffer, offerRows, deliveries
  <2> QED BY <2>1 DEF ModalShapes, ExpiredAreOver, ShownOrToCome, OnWire, UnderWay, Stands
<1>15. ASSUME NEW kind \in {"accept", "reject"}, PressAnswer(kind)  PROVE ModalInv'
  <2>1. /\ shown # NoOffer /\ answers' = answers \cup {[offer |-> shown, kind |-> kind, at |-> "sent"]}
        /\ UNCHANGED <<standing, due, wire, link, announcing, replays, shown, closed>>
    BY <1>15 DEF PressAnswer, offerRows, deliveries
  <2>2. answers' \subseteq Answerings
    BY <2>1 DEF ModalShapes
  <2> QED BY <2>1, <2>2, OffersSettle DEF ModalShapes
<1>16. ASSUME NEW c \in answers, HandleAnswer(c) \/ LoseAnswer(c)  PROVE ModalInv'
  <2>1. /\ Settled(c.offer) \/ UNCHANGED standing
        /\ answers' = (answers \ {c}) \cup {[c EXCEPT !.at = "back"]}
        /\ UNCHANGED <<due, wire, link, announcing, replays, shown, closed>>
    BY <1>16 DEF HandleAnswer, LoseAnswer, sweepExpiredOffer, Accepts, Rejects, NothingComesOf,
         offerRows, deliveries, modalView
  <2>2. c.offer \in Offers /\ answers' \subseteq Answerings
    BY <2>1 DEF ModalShapes
  <2>3. /\ standing' \in [Offers -> {"unsent", "open", "over"}]
        /\ \A x \in Offers : standing'[x] \in {standing[x], "over"}
    BY <1>6, <2>1, <2>2 DEF ModalShapes
  <2> QED BY <2>1, <2>2, <2>3, OffersSettle
<1>17. ASSUME NEW c \in answers, AnswerArrives(c)  PROVE ModalInv'
  <2>1. /\ answers' = answers \ {c} /\ shown' = NoOffer
        /\ closed' = IF Stands(shown) THEN closed \cup {shown} ELSE closed
        /\ UNCHANGED <<standing, due, wire, link, announcing, replays>>
    BY <1>17 DEF AnswerArrives, clearOffer, offerRows, deliveries
  <2>2. ShownOrToCome'
    BY <2>1 DEF ShownOrToCome, OnWire, UnderWay, Stands
  <2> QED BY <2>1, <2>2 DEF ModalShapes, ExpiredAreOver, OnWire
<1> QED
  BY <1>1, <1>2, <1>3, <1>4, <1>5, <1>7, <1>8, <1>9, <1>10, <1>11, <1>12, <1>13, <1>14, <1>15,
     <1>16, <1>17 DEF ModalNext

(* Whatever frames were lost, late or dropped, an offer that stands is in   *)
(* front of its teacher once everything has come through, for any offers    *)
(* and any number of moves (OfferHost.jsx, replayOpenOffer).                *)
THEOREM TheOfferReachesItsTeacher == ModalSpec => []OfferReachesItsTeacher
<1>1. ModalInv => OfferReachesItsTeacher
  BY EmptySeq DEF ModalInv, ModalShapes, ShownOrToCome, OnWire, UnderWay, OfferReachesItsTeacher, ModalAtRest
<1> QED BY <1>1, ModalStarts, ModalGoesOn, ModalAssumption, PTL DEF ModalSpec

-----------------------------------------------------------------------------
(* Every behaviour of the client is one of each of its screens, moving or   *)
(* at rest: what is proved of a screen by itself holds in the client.       *)
THEOREM EachScreenIsItself == BrowserSpec => Spec /\ ModalSpec /\ PillSpec /\ ListSpec
<1>1. BrowserInit => Init /\ ModalInit /\ PillInit /\ ListInit
  BY DEF BrowserInit
<1>2. [BrowserNext]_browserVars
        => [Next]_vars /\ [ModalNext]_modalVars /\ [PillNext]_pillVars /\ [ListNext]_listVars
  BY DEF BrowserNext, browserVars
<1> QED BY <1>1, <1>2, PTL DEF BrowserSpec, Spec, ModalSpec, PillSpec, ListSpec
=============================================================================
