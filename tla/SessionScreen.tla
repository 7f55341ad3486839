---------------------------- MODULE SessionScreen ----------------------------
(***************************************************************************)
(* The student's session screen (pages/student/Session.jsx, components/     *)
(* session/SessionRoom.jsx, hooks/useSessionState.js) on top of the page,   *)
(* against one session of the server: waiting for the teacher's answer, the *)
(* room with its refetches and frames, the buttons, and the way out.        *)
(*                                                                          *)
(* The server's side is what the screen can tell apart: the offer, the      *)
(* session's status and blocks, the session room, and the frames on the     *)
(* socket, delivered in order and lost with the connection.  The handlers   *)
(* behind it are the modules of the server; here each is one step.          *)
(***************************************************************************)
EXTENDS Page, Sequences, Integers

CONSTANTS
    MaxBlocks,    \* what the budget cap leaves room for
    MaxMoves      \* presses, tab switches, dropped sockets, other tabs' presses

VARIABLES
    offer,     \* "PENDING", "LATE" (still PENDING, past expires_at), "ACCEPTED", "OVER"
    server,    \* the session's row: status and blocks
    joining,   \* a session:join of this socket is being answered
    inRoom,    \* this socket is in the session's room
    frames,    \* on the socket, oldest first
    view,      \* "awaiting", "room", "over", "left"
    session,   \* what the room shows, or NoRow
    seeded,    \* was the room mounted with the row already read
    warning, ended, blank,
    busy,      \* the button whose call is awaited
    unserved,  \* presses of Extend no block has been charged for
    unread,    \* a refetch has failed
    moves

serverVars == <<offer, server>>
roomVars   == <<joining, inRoom, frames>>
viewVars   == <<view, session, seeded, warning, ended, blank, busy, unread>>
countVars  == <<unserved, moves>>
vars == <<pageVars, serverVars, roomVars, viewVars, countVars>>

Frame(event, blocks) == [event |-> event, blocks |-> blocks]

LoggedIn == accessToken # "none"

\* Emits to the session's room, and to the user's own.
toRoom(frame) == IF inRoom THEN Append(frames, frame) ELSE frames
toUser(frame) == IF socket = "up" THEN Append(frames, frame) ELSE frames

\* reload(): a GET in a free slot.
reload == \E r \in Slots : /\ r = CHOOSE s \in Slots : TRUE
                           /\ request' = Call(request, r, "load")

\* The people and the connection act while the screen is up.
Move ==
    /\ LoggedIn
    /\ view # "left"
    /\ moves < MaxMoves
    /\ moves' = moves + 1

PageAlone == UNCHANGED <<serverVars, roomVars, viewVars, countVars>>

-----------------------------------------------------------------------------
\* A screen that read a pending offer, or one that read the running session
\* and mounts the room with it.
Init ==
    /\ PageInit
    /\ inRoom = FALSE
    /\ frames = <<>>
    /\ \/ /\ view = "awaiting"
          /\ offer = "PENDING"
          /\ server = [status |-> "PENDING", blocks |-> 0]
          /\ session = NoRow
          /\ seeded = FALSE /\ joining = FALSE
       \/ /\ view = "room"
          /\ offer = "ACCEPTED"
          /\ server = [status |-> "ACTIVE", blocks |-> 1]
          /\ session = server
          /\ seeded = TRUE /\ joining = TRUE
    /\ warning = FALSE /\ ended = FALSE /\ blank = FALSE /\ unread = FALSE
    /\ busy = "none"
    /\ unserved = 0
    /\ moves = 0

-----------------------------------------------------------------------------
(* What happens on the server.                                              *)

TtlPasses ==
    /\ offer = "PENDING"
    /\ offer' = "LATE"
    /\ UNCHANGED <<pageVars, server, roomVars, viewVars, countVars>>

\* The teacher accepts inside the TTL; the session is charged and starts.
AcceptOffer ==
    /\ offer = "PENDING"
    /\ offer' = "ACCEPTED"
    /\ server' = [status |-> "ACTIVE", blocks |-> 1]
    /\ frames' = toUser(Frame("offer:accepted", 0))
    /\ UNCHANGED <<pageVars, joining, inRoom, viewVars, countVars>>

\* Declined, or settled by the expiry job: one frame for both.
OfferEnds ==
    /\ offer \in {"PENDING", "LATE"}
    /\ offer' = "OVER"
    /\ frames' = toUser(Frame("offer:rejected", 0))
    /\ UNCHANGED <<pageVars, server, joining, inRoom, viewVars, countVars>>

Extend(row) == [row EXCEPT !.blocks = @ + 1]
Running == server.status = "ACTIVE"
CanExtend == Running /\ server.blocks < MaxBlocks

\* The student's other tab buys a block.
OtherTabExtends ==
    /\ Move
    /\ CanExtend
    /\ server' = Extend(server)
    /\ frames' = toRoom(Frame("session:extended", server.blocks + 1))
    /\ UNCHANGED <<pageVars, offer, joining, inRoom, viewVars, unserved>>

\* The teacher ends it, or the auto-end sweep does.
SessionEnds ==
    /\ Running
    /\ server' = [server EXCEPT !.status = "ENDED"]
    /\ frames' = toRoom(Frame("session:ended", 0))
    /\ UNCHANGED <<pageVars, offer, joining, inRoom, viewVars, countVars>>

WarnOfTheBlock ==
    /\ Move
    /\ Running
    /\ inRoom
    /\ frames' = toRoom(Frame("session:block_warning", 0))
    /\ UNCHANGED <<pageVars, serverVars, joining, inRoom, viewVars, unserved>>

\* session:join answers: the participant is in the room, whatever the status.
JoinRoom ==
    /\ joining
    /\ socket = "up"
    /\ joining' = FALSE
    /\ inRoom' = TRUE
    /\ UNCHANGED <<pageVars, serverVars, frames, viewVars, countVars>>

\* session:join throws: a line in the log, and nothing goes back to the page.
JoinFails ==
    /\ joining
    /\ socket = "up"
    /\ faults < MaxFaults /\ faults' = faults + 1
    /\ joining' = FALSE
    /\ UNCHANGED <<accessToken, request, rotations, cookie, socket, presented,
                   refreshingToken, expiries, serverVars, inRoom, frames,
                   viewVars, countVars>>

\* An authenticated call reaches its handler and is answered.
Handle(r) ==
    LET kind == request[r].kind
        done == \/ kind \in {"load", "reread", "logout"}
                \/ kind = "extend" /\ CanExtend
                \/ kind = "end" /\ Running
        answer == IF done THEN Answer("ok", server') ELSE Answer("refused", NoRow)
    IN  /\ request[r].st = "sent"
        /\ request[r].token = "fresh"
        /\ server' = CASE kind = "extend" /\ done -> Extend(server)
                       [] kind = "end" /\ done    -> [server EXCEPT !.status = "ENDED"]
                       [] OTHER                   -> server
        /\ frames' = CASE kind = "extend" /\ done ->
                              toRoom(Frame("session:extended", server.blocks + 1))
                       [] kind = "end" /\ done -> toRoom(Frame("session:ended", 0))
                       [] OTHER -> frames
        /\ unserved' = IF kind = "extend" /\ done THEN unserved - 1 ELSE unserved
        /\ request' = [request EXCEPT ![r] = Answered(@, answer)]
        /\ UNCHANGED <<accessToken, rotations, cookie, socket, presented,
                       refreshingToken, expiries, faults, offer, joining,
                       inRoom, viewVars, moves>>

-----------------------------------------------------------------------------
(* The screen hears.                                                        *)

Rereads_OnArrival(event) == event = "offer:accepted"

\* Frames that make the room fetch the row.
Rereads(event) == event \in {"offer:accepted", "session:ended"}

\* offer:accepted mounts the room, and wins over a countdown that reached zero.
HearAccepted ==
    /\ view \in {"awaiting", "over"}
    /\ view' = "room"
    /\ joining' = TRUE
    /\ UNCHANGED <<session, seeded, warning, ended, blank, busy, unread>>

HearRejected ==
    /\ view = "awaiting"
    /\ view' = "over"
    /\ UNCHANGED <<joining, session, seeded, warning, ended, blank, busy, unread>>

HearWarning ==
    /\ view = "room"
    /\ warning' = TRUE
    /\ UNCHANGED <<joining, view, session, seeded, ended, blank, busy, unread>>

\* extendPatch: the frame's numbers over whatever row the room holds.
Patched(blocks) == IF session = NoRow THEN session ELSE [session EXCEPT !.blocks = blocks]

HearExtended(blocks) ==
    /\ view = "room"
    /\ warning' = FALSE
    /\ session' = Patched(blocks)
    /\ UNCHANGED <<joining, view, seeded, ended, blank, busy, unread>>

HearEnded ==
    /\ view = "room"
    /\ warning' = FALSE
    /\ ended' = TRUE
    /\ UNCHANGED <<joining, view, session, seeded, blank, busy, unread>>

\* A screen with no listener for the frame drops it.
Listens(event) ==
    CASE event = "offer:accepted" -> view \in {"awaiting", "over"}
      [] event = "offer:rejected" -> view = "awaiting"
      [] OTHER                    -> view = "room"

Hear ==
    /\ frames # <<>>
    /\ LoggedIn
    /\ frames' = Tail(frames)
    /\ LET event == Head(frames).event IN
       IF Listens(event)
       THEN /\ CASE event = "offer:accepted"        -> HearAccepted
                 [] event = "offer:rejected"        -> HearRejected
                 [] event = "session:block_warning" -> HearWarning
                 [] event = "session:extended"      -> HearExtended(Head(frames).blocks)
                 [] event = "session:ended"         -> HearEnded
            /\ IF Rereads(event) THEN reload ELSE UNCHANGED request
       ELSE UNCHANGED <<request, joining, viewVars>>
    /\ UNCHANGED <<accessToken, rotations, cookie, socket, presented,
                   refreshingToken, expiries, faults, serverVars, inRoom, countVars>>

\* The countdown reaches zero, whoever answered the offer before.
CountdownEnds ==
    /\ LoggedIn
    /\ view = "awaiting"
    /\ offer # "PENDING"
    /\ view' = "over"
    /\ UNCHANGED <<pageVars, serverVars, roomVars, session, seeded, warning, ended,
                   blank, busy, unread, countVars>>

-----------------------------------------------------------------------------
(* The screen's calls come back.                                            *)

\* A row that is no longer ACTIVE has a destination, and the room unmounts.
ShowRow(row) ==
    /\ session' = row
    /\ blank' = FALSE
    /\ view' = IF row.status = "ACTIVE" THEN view ELSE "left"
    /\ UNCHANGED unread

\* `reload` closed over the row of the first render, so a screen mounted
\* without one reports every failure.
KeepRow ==
    /\ blank' = (blank \/ ~seeded)
    /\ unread' = TRUE
    /\ UNCHANGED <<session, view>>

SettleLoad(r) ==
    /\ request[r].kind \in {"load", "reread"}
    /\ IF view # "room" THEN UNCHANGED <<session, blank, view, unread>>
       ELSE IF request[r].answer.is = "ok" THEN ShowRow(request[r].answer.row)
       ELSE KeepRow
    /\ busy' = IF request[r].kind = "reread" THEN "none" ELSE busy
    /\ request' = [request EXCEPT ![r] = Idle]
    /\ UNCHANGED warning

\* onExtend applies the answer; onEnd rereads; a refusal rereads before it
\* speaks, and the button waits for that.
SettlePress(r) ==
    /\ request[r].kind \in {"extend", "end"}
    /\ LET ok == request[r].answer.is = "ok" IN
       /\ busy' = IF ok THEN "none" ELSE busy
       /\ request' = IF ok /\ request[r].kind = "extend"
                     THEN [request EXCEPT ![r] = Idle]
                     ELSE Call(request, r, IF ok THEN "load" ELSE "reread")
       /\ IF ok /\ request[r].kind = "extend" /\ view = "room"
          THEN /\ session' = Patched(request[r].answer.row.blocks)
               /\ warning' = FALSE
          ELSE UNCHANGED <<session, warning>>
    /\ UNCHANGED <<view, blank, unread>>

Settle(r) ==
    /\ request[r].st = "answered"
    /\ ~isRecoverable(request[r])
    /\ SettleLoad(r) \/ SettlePress(r)
    /\ UNCHANGED <<accessToken, rotations, cookie, socket, presented, refreshingToken,
                   expiries, faults, serverVars, roomVars, seeded, ended, countVars>>

\* Whatever /auth/logout answers, the page goes.
SettleLogout(r) ==
    /\ request[r].st = "answered"
    /\ ~isRecoverable(request[r])
    /\ request[r].kind = "logout"
    /\ LoadLogin
    /\ joining' = FALSE /\ inRoom' = FALSE /\ frames' = <<>>
    /\ UNCHANGED <<faults, serverVars, viewVars, countVars>>

-----------------------------------------------------------------------------
(* The person, the tab and the connection.                                  *)

Press(kind) ==
    /\ Move
    /\ view = "room" /\ session # NoRow /\ ~blank
    /\ busy # kind
    /\ kind = "extend" => warning
    /\ \E r \in Slots : /\ r = CHOOSE s \in Slots : TRUE
                        /\ request' = Call(request, r, kind)
    /\ busy' = kind
    /\ unserved' = IF kind = "extend" THEN unserved + 1 ELSE unserved
    /\ UNCHANGED <<accessToken, rotations, cookie, socket, presented, refreshingToken,
                   expiries, faults, serverVars, roomVars, view, session, seeded,
                   warning, ended, blank, unread>>

LogOut ==
    /\ Move
    /\ \A r \in Requests : request[r].kind # "logout"
    /\ \E r \in Slots : /\ r = CHOOSE s \in Slots : TRUE
                        /\ request' = Call(request, r, "logout")
    /\ UNCHANGED <<accessToken, rotations, cookie, socket, presented, refreshingToken,
                   expiries, faults, serverVars, roomVars, viewVars, unserved>>

\* The tab comes back to the foreground, or the error's retry is pressed.
ComeBack ==
    /\ Move
    /\ view = "room"
    /\ reload
    /\ UNCHANGED <<accessToken, rotations, cookie, socket, presented, refreshingToken,
                   expiries, faults, serverVars, roomVars, viewVars, unserved>>

Dismiss ==
    /\ warning
    /\ warning' = FALSE
    /\ UNCHANGED <<pageVars, serverVars, roomVars, view, session, seeded, ended,
                   blank, busy, unread, countVars>>

\* The connection drops: no room, and what was on the wire is gone.
SocketDrops ==
    /\ Move
    /\ socket = "up"
    /\ socket' = "down"
    /\ joining' = FALSE
    /\ inRoom' = FALSE
    /\ frames' = <<>>
    /\ UNCHANGED <<accessToken, request, rotations, cookie, presented,
                   refreshingToken, expiries, faults, serverVars, viewVars,
                   unserved>>

\* onConnect: the new socket joins again and the row is read again.
Connected ==
    /\ HandshakeAccepted
    /\ IF view = "room" THEN joining' = TRUE /\ reload ELSE UNCHANGED <<joining, request>>
    /\ UNCHANGED <<serverVars, inRoom, frames, viewVars, countVars>>

RotationEnds ==
    /\ RotationGranted \/ RotationFailed
    /\ IF accessToken' = "none"
       THEN joining' = FALSE /\ inRoom' = FALSE /\ frames' = <<>>
       ELSE UNCHANGED roomVars
    /\ UNCHANGED <<serverVars, viewVars, countVars>>

Next ==
    \/ TtlPasses \/ AcceptOffer \/ OfferEnds
    \/ OtherTabExtends \/ SessionEnds \/ WarnOfTheBlock \/ JoinRoom \/ JoinFails
    \/ Hear \/ CountdownEnds
    \/ ComeBack \/ Dismiss \/ LogOut
    \/ \E kind \in {"extend", "end"} : Press(kind)
    \/ \E r \in Requests : \/ Handle(r) \/ Settle(r) \/ SettleLogout(r)
                           \/ (Unauthorized(r) \/ Lose(r) \/ Recover(r)) /\ PageAlone
    \/ (TokensExpire \/ CookieDies \/ Reconnect \/ HandshakeRefused) /\ PageAlone
    \/ SocketDrops \/ Connected \/ RotationEnds

Spec == Init /\ [][Next]_vars

\* Calls are answered or time out, frames and handshakes arrive, Socket.IO
\* reconnects.  Nobody has to press anything, and nothing has to expire.
Fairness ==
    /\ WF_vars(Hear)
    /\ WF_vars(JoinRoom \/ JoinFails)
    /\ WF_vars(Connected)
    /\ WF_vars(RotationEnds)
    /\ WF_vars((Reconnect \/ HandshakeRefused) /\ PageAlone)
    /\ \A r \in Requests :
          /\ WF_vars(Handle(r) \/ (Unauthorized(r) /\ PageAlone))
          /\ WF_vars(Settle(r) \/ SettleLogout(r) \/ (Recover(r) /\ PageAlone))

FairSpec == Spec /\ Fairness

-----------------------------------------------------------------------------
(* The page is well formed, the socket is in the room only while it is up,  *)
(* and a page that has gone has left nothing behind.                        *)
TypeOK ==
    /\ PageTypeOK
    /\ inRoom \/ joining \/ frames # <<>> => socket = "up"
    /\ server.blocks \in 0 .. MaxBlocks
    /\ view = "awaiting" => session = NoRow

(* A caller is told "unauthorized" while the page stays logged in only      *)
(* after its replay, too, left with a good token and saw it expire.         *)
UnauthorizedTwice ==
    [][\A r \in Requests :
          /\ request[r].st = "answered"
          /\ request[r].answer.is = "expired"
          /\ request'[r].st \in {"idle", "sent"}
          /\ accessToken' # "none"
          => request[r].retried /\ request[r].fresh]_vars

(* One press of Extend buys at most one block, whatever the interceptor     *)
(* replays: a call is sent again only if no handler saw it.                 *)
OnePressOneBlock == unserved >= 0

(* Every call a screen makes comes back to it, or the page goes.            *)
RequestsSettle == \A r \in Requests : []<>(request[r].st = "idle")

(* A room that heard session:ended is left, even with the token expired,    *)
(* unless the refetch itself failed.                                        *)
EndFrameLeadsAway == ended ~> (view = "left" \/ ~LoggedIn \/ unread)

(* A room whose socket is gone gets back into the session's room, through   *)
(* a refused handshake if need be, unless the network, the cookie or the    *)
(* server's answer to the join failed.                                      *)
RoomIsRejoined ==
    (view = "room" /\ LoggedIn /\ ~inRoom)
        ~> (inRoom \/ view = "left" \/ ~LoggedIn \/ faults > 0)

(* "Accept wins over a local expiry": once nothing is on its way to the     *)
(* screen any more, it does not say that an accepted offer is over.         *)
AcceptedIsNotOver ==
    ~ (LoggedIn /\ view = "over" /\ offer = "ACCEPTED" /\ socket = "up" /\ frames = <<>>)

=============================================================================
