-------------------------------- MODULE Page --------------------------------
(***************************************************************************)
(* One page of the client from its load to the next one: the axios          *)
(* instance and its 401 interceptor (src/client/src/api/client.js), the     *)
(* access token of the auth store (stores/authStore.js) and the socket      *)
(* (lib/socket.js).  A page is logged in until it has no access token:      *)
(* logging out and a failed rotation both clear it and load /login, and     *)
(* nothing of the page is left.                                             *)
(*                                                                          *)
(* JavaScript runs one continuation at a time, so the settling of the       *)
(* shared refresh and the resumption of everybody who awaits it are one     *)
(* step; the server's answer and its arrival are two, and answers arrive in *)
(* any order.                                                               *)
(***************************************************************************)
EXTENDS Naturals, FiniteSets

CONSTANTS
    Requests,     \* slots for calls in flight: the bound on parallel calls
    MaxExpiries,  \* how often the access token ages out
    MaxFaults     \* calls the network loses, and refresh cookies that die

ASSUME PageAssumption ==
    /\ IsFiniteSet(Requests)
    /\ {MaxExpiries, MaxFaults} \subseteq Nat

VARIABLES
    accessToken,      \* "fresh", "stale" (its fifteen minutes are over), "none"
    request,          \* the call in each slot
    rotations,        \* calls to POST /auth/refresh in flight
    cookie,           \* does the server still honour the refresh cookie
    socket,           \* "up", "down", "handshake", "refused"
    presented,        \* the token a handshake in flight carries
    refreshingToken,  \* a refused handshake has asked for a rotation
    expiries, faults

pageVars == <<accessToken, request, rotations, cookie, socket, presented,
              refreshingToken, expiries, faults>>

NoRow == [status |-> "NONE", blocks |-> 0]

Answer(is, row) == [is |-> is, row |-> row]

\* "idle", "sent", "answered" and, while it awaits the rotation, "waiting".
\* fresh: did the token it last left with still count then.
Idle == [st |-> "idle", kind |-> "none", token |-> "none", fresh |-> FALSE,
         retried |-> FALSE, answer |-> Answer("none", NoRow)]

Slots == {r \in Requests : request[r].st = "idle"}

-----------------------------------------------------------------------------
(* The request interceptor: the current token, whatever the call carried    *)
(* before.                                                                  *)

Outgoing_KeepingItsHeader(q, token) ==
    [q EXCEPT !.st = "sent", !.answer = Idle.answer,
              !.token = IF q.retried THEN "stale" ELSE token,
              !.fresh = ~q.retried /\ token = "fresh"]

Outgoing(q, token) ==
    [q EXCEPT !.st = "sent", !.answer = Idle.answer,
              !.token = token, !.fresh = (token = "fresh")]

Answered(q, answer) ==
    [q EXCEPT !.st = "answered", !.token = "none", !.answer = answer,
              !.fresh = @ /\ answer.is = "expired"]

\* A screen's call, in the slot r.
Call(f, r, kind) ==
    [f EXCEPT ![r] = Outgoing([Idle EXCEPT !.kind = kind], accessToken)]

(* The response interceptor: TOKEN_EXPIRED, and not already retried.        *)

isRecoverable_OnAnyFailure(q) ==
    q.answer.is \in {"expired", "lost"} /\ ~q.retried

isRecoverable(q) == q.answer.is = "expired" /\ ~q.retried

\* authStore.refresh: whoever asks while a rotation is in flight shares it.
refresh_PerCaller(inFlight) == inFlight + 1

refresh(inFlight) == IF inFlight > 0 THEN inFlight ELSE 1

\* Who goes on when the shared promise settles: all who await it.
Awaiting_TheFirst(f) ==
    LET waiting == {r \in Requests : f[r].st = "waiting"}
    IN  IF waiting = {} THEN {} ELSE {CHOOSE r \in waiting : TRUE}

Awaiting(f) == {r \in Requests : f[r].st = "waiting"}

-----------------------------------------------------------------------------
PageInit ==
    /\ accessToken \in {"fresh", "stale"}
    /\ request = [r \in Requests |-> Idle]
    /\ rotations = 0
    /\ cookie = TRUE
    /\ socket = "up"
    /\ presented = "none"
    /\ refreshingToken = FALSE
    /\ expiries = 0
    /\ faults = 0

\* `set(ANONYMOUS)` and a full page load: every call, timer and socket goes.
LoadLogin ==
    /\ accessToken' = "none"
    /\ request' = [r \in Requests |-> Idle]
    /\ rotations' = 0
    /\ socket' = "down"
    /\ presented' = "none"
    /\ refreshingToken' = FALSE
    /\ UNCHANGED <<cookie, expiries>>

\* The fifteen minutes of every token issued so far are over.
TokensExpire ==
    /\ expiries < MaxExpiries
    /\ accessToken = "fresh"
    /\ expiries' = expiries + 1
    /\ accessToken' = "stale"
    /\ request' = [r \in Requests |->
                      [request[r] EXCEPT !.token = IF @ = "fresh" THEN "stale" ELSE @]]
    /\ presented' = IF socket = "handshake" THEN "stale" ELSE presented
    /\ UNCHANGED <<rotations, cookie, socket, refreshingToken, faults>>

\* The server's authenticate refuses the call before any handler runs.
Unauthorized(r) ==
    /\ request[r].st = "sent"
    /\ request[r].token = "stale"
    /\ request' = [request EXCEPT ![r] = Answered(@, Answer("expired", NoRow))]
    /\ UNCHANGED <<accessToken, rotations, cookie, socket, presented,
                   refreshingToken, expiries, faults>>

\* A call or its answer is lost, or the fifteen-second timeout wins.
Lose(r) ==
    /\ faults < MaxFaults
    /\ \/ request[r].st = "sent"
       \/ request[r].st = "answered" /\ request[r].answer.is # "lost"
    /\ request' = [request EXCEPT ![r] = Answered(@, Answer("lost", NoRow))]
    /\ faults' = faults + 1
    /\ UNCHANGED <<accessToken, rotations, cookie, socket, presented,
                   refreshingToken, expiries>>

\* The 401 seam: mark the call, ask for the shared rotation and await it.
Recover(r) ==
    /\ request[r].st = "answered"
    /\ isRecoverable(request[r])
    /\ request' = [request EXCEPT ![r].st = "waiting", ![r].retried = TRUE,
                                  ![r].answer = Idle.answer]
    /\ rotations' = refresh(rotations)
    /\ UNCHANGED <<accessToken, cookie, socket, presented, refreshingToken,
                   expiries, faults>>

refreshingAfter_TheFirst(flag) == flag

\* The `finally` of onConnectError.
refreshingAfter(flag) == FALSE

\* The rotation succeeds.  The store's new token reaches syncConnection, which
\* connects a socket that is not, and every waiting call is sent again.
RotationGranted ==
    /\ rotations > 0
    /\ cookie
    /\ rotations' = rotations - 1
    /\ accessToken' = "fresh"
    /\ request' = [r \in Requests |->
                      IF r \in Awaiting(request) THEN Outgoing(request[r], "fresh")
                                                 ELSE request[r]]
    /\ refreshingToken' = refreshingAfter(refreshingToken)
    /\ IF socket \in {"down", "refused"}
       THEN socket' = "handshake" /\ presented' = "fresh"
       ELSE UNCHANGED <<socket, presented>>
    /\ UNCHANGED <<cookie, expiries, faults>>

\* The rotation fails.  A waiting call runs onAuthLost and the page goes; the
\* socket alone just stays down.
RotationFailed ==
    /\ rotations > 0
    /\ \/ ~cookie /\ UNCHANGED faults
       \/ faults < MaxFaults /\ faults' = faults + 1
    /\ IF Awaiting(request) # {}
       THEN LoadLogin
       ELSE /\ rotations' = rotations - 1
            /\ refreshingToken' = refreshingAfter(refreshingToken)
            /\ UNCHANGED <<accessToken, request, cookie, socket, presented, expiries>>

\* The account is blocked, or the cookie's seven days are over.
CookieDies ==
    /\ faults < MaxFaults
    /\ cookie
    /\ cookie' = FALSE
    /\ faults' = faults + 1
    /\ UNCHANGED <<accessToken, request, rotations, socket, presented,
                   refreshingToken, expiries>>

\* Socket.IO's own reconnection; the auth callback reads the store's token.
Reconnect ==
    /\ socket = "down"
    /\ accessToken # "none"
    /\ socket' = "handshake"
    /\ presented' = accessToken
    /\ UNCHANGED <<accessToken, request, rotations, cookie, refreshingToken,
                   expiries, faults>>

\* A refused handshake is not retried by Socket.IO: onConnectError asks for a
\* rotation, once at a time.
HandshakeRefused ==
    /\ socket = "handshake"
    /\ presented = "stale"
    /\ socket' = "refused"
    /\ refreshingToken' = TRUE
    /\ rotations' = IF refreshingToken THEN rotations ELSE refresh(rotations)
    /\ presented' = "none"
    /\ UNCHANGED <<accessToken, request, cookie, expiries, faults>>

HandshakeAccepted ==
    /\ socket = "handshake"
    /\ presented = "fresh"
    /\ socket' = "up"
    /\ presented' = "none"
    /\ UNCHANGED <<accessToken, rotations, cookie, refreshingToken, expiries,
                   faults>>

PageTypeOK ==
    /\ accessToken \in {"fresh", "stale", "none"}
    /\ \A r \in Requests :
          /\ request[r].st \in {"idle", "sent", "answered", "waiting"}
          /\ request[r].st = "waiting" => request[r].retried
    /\ rotations \in Nat
    /\ socket \in {"up", "down", "handshake", "refused"}
    /\ (presented = "none") = (socket # "handshake")
    /\ {cookie, refreshingToken} \subseteq BOOLEAN
    /\ (accessToken = "none") => (rotations = 0 /\ Slots = Requests)

-----------------------------------------------------------------------------
(* Five calls that meet a 401 at once cost one rotation of the cookie:      *)
(* there is never a second call to /auth/refresh beside the first.          *)
OneRotation == rotations <= 1

=============================================================================
