----------------------------- MODULE OfferModal -----------------------------
(***************************************************************************)
(* The incoming offer's modal in one tab of one teacher (OfferHost.jsx,     *)
(* IncomingOfferModal.jsx, OfferCountdown.jsx), against the offers it       *)
(* stands for: the frame that raises it, the replay on every handshake, the *)
(* buttons, and everything that closes it.                                  *)
(*                                                                          *)
(* HTTP answers and frames travel apart and overtake each other; frames     *)
(* keep their order and are lost with the connection.  The races between    *)
(* the handlers are those of module TutorNow: here a handler is one step,   *)
(* but for what an announcement or a replay reads after it.                 *)
(***************************************************************************)
EXTENDS Naturals, Sequences

CONSTANTS
    Offers,       \* the offers students make to this teacher
    NoOffer,
    ModalMoves,   \* what the teacher does, and how often the connection drops
    ModalFaults   \* calls that the network loses

ASSUME ModalAssumption ==
    /\ NoOffer \notin Offers /\ "asked" \notin Offers
    /\ {ModalMoves, ModalFaults} \subseteq Nat

VARIABLES
    mine,        \* teacher_profiles.status
    standing,    \* each offer: "unsent", "open", "over"
    due,         \* the offers whose expires_at has passed
    wire,        \* the frames about offers on their way to the tab, in order
    link,        \* is the tab's socket connected
    announcing,  \* committed offers whose announceOffer is still reading
    replays,     \* replayOpenOffer calls: "asked", or the offer they found
    shown,       \* OfferHost's offer
    pressed,     \* the modal's `pending`
    answers,     \* accepts and rejects that have not come back to the tab
    closed,      \* history: offers dropped, passed over, or closed while they stood
    modalMoved, modalFailed

offerRows  == <<mine, standing, due>>
deliveries == <<announcing, replays>>
modalView  == <<shown, pressed, closed>>
modalCount == <<modalMoved, modalFailed>>
modalVars  == <<offerRows, wire, link, deliveries, modalView, answers, modalCount>>

ModalMove == modalMoved < ModalMoves /\ modalMoved' = modalMoved + 1

Stands(o) == o \in Offers /\ standing[o] = "open" /\ o \notin due

ModalInit ==
    /\ mine = "ONLINE"
    /\ standing = [o \in Offers |-> "unsent"] /\ due = {}
    /\ wire = <<>> /\ link = FALSE
    /\ announcing = {} /\ replays = {}
    /\ shown = NoOffer /\ pressed = FALSE /\ closed = {}
    /\ answers = {}
    /\ modalMoved = 0 /\ modalFailed = 0

-----------------------------------------------------------------------------
(* The server: students, the sweep, the teacher's other tabs.               *)

\* emitToUser: a frame to a tab that is not connected is gone.
Deliver(event, o) ==
    wire' = IF link THEN Append(wire, [event |-> event, offer |-> o]) ELSE wire

Settled(o) == standing' = [standing EXCEPT ![o] = "over"]

\* releaseTeacherLock
Release == mine' = IF mine = "OFFER_LOCKED" THEN "ONLINE" ELSE mine

SendOffer(o) ==
    /\ standing[o] = "unsent"
    /\ mine = "ONLINE"
    /\ mine' = "OFFER_LOCKED"
    /\ standing' = [standing EXCEPT ![o] = "open"]
    /\ announcing' = announcing \cup {o}
    /\ UNCHANGED <<due, wire, link, replays, modalView, answers, modalCount>>

\* announceOffer's end: two reads after the commit, then offer:new.
AnnounceOffer(o) ==
    /\ o \in announcing
    /\ announcing' = announcing \ {o}
    /\ Deliver("offer:new", o)
    /\ UNCHANGED <<offerRows, link, replays, modalView, answers, modalCount>>

OfferIsDue(o) ==
    /\ standing[o] = "open" /\ o \notin due
    /\ due' = due \cup {o}
    /\ UNCHANGED <<mine, standing, wire, link, deliveries, modalView, answers, modalCount>>

settleExpiredOffer(o) ==
    /\ standing[o] = "open" /\ o \in due
    /\ Settled(o)
    /\ Release
    /\ Deliver("offer:expired", o)
    /\ UNCHANGED <<due, link, deliveries, modalView, answers, modalCount>>

\* acceptOffer: an offer past its time is swept; one in time is taken, or
\* refused for the student's balance or a teacher who is not locked.
Accepts(o) ==
    /\ Stands(o)
    /\ mine = "OFFER_LOCKED"
    /\ mine' = "IN_SESSION"
    /\ Settled(o)

sweepExpiredOffer(o) ==
    /\ standing[o] = "open" /\ o \in due
    /\ Release
    /\ Settled(o)

Rejects(o) ==
    /\ Stands(o)
    /\ Release
    /\ Settled(o)

NothingComesOf(o, kind) ==
    /\ kind = "accept" \/ standing[o] # "open"
    /\ standing[o] # "open" \/ o \notin due
    /\ UNCHANGED <<mine, standing>>

AnswerFromElsewhere(o) ==
    /\ ModalMove
    /\ Accepts(o) \/ Rejects(o)
    /\ UNCHANGED <<due, wire, link, deliveries, modalView, answers, modalFailed>>

SessionIsOver ==
    /\ mine = "IN_SESSION"
    /\ mine' = "ONLINE"
    /\ UNCHANGED <<standing, due, wire, link, deliveries, modalView, answers, modalCount>>

\* updateTeacherMe, from the header of any tab: OFFLINE passes whatever the
\* teacher is doing, ONLINE is refused to a teacher the system holds.
PatchAvailability ==
    /\ ModalMove
    /\ \/ mine' = "OFFLINE"
       \/ mine \notin {"OFFER_LOCKED", "IN_SESSION"} /\ mine' = "ONLINE"
    /\ UNCHANGED <<standing, due, wire, link, deliveries, modalView, answers, modalFailed>>

-----------------------------------------------------------------------------
(* replayOpenOffer, on every handshake of the teacher's tabs.               *)

TabConnects ==
    /\ ~link
    /\ link' = TRUE
    /\ replays' = replays \cup {"asked"}
    /\ UNCHANGED <<offerRows, wire, announcing, modalView, answers, modalCount>>

OtherTabConnects ==
    /\ ModalMove
    /\ replays' = replays \cup {"asked"}
    /\ UNCHANGED <<offerRows, wire, link, announcing, modalView, answers, modalFailed>>

OpenOffers == {o \in Offers : standing[o] = "open"}

\* findFirst: a second open offer is passed over.
findOfferSessionForTeacher ==
    /\ "asked" \in replays
    /\ \/ \E o \in OpenOffers : /\ replays' = (replays \ {"asked"}) \cup {o}
                              /\ closed' = closed \cup (OpenOffers \ {o})
       \/ /\ OpenOffers = {}
          /\ replays' = replays \ {"asked"}
          /\ UNCHANGED closed
    /\ UNCHANGED <<offerRows, wire, link, announcing, shown, pressed, answers, modalCount>>

\* getSessionView reads the offer again, and the clock.
ReplayOffer(o) ==
    /\ o \in replays
    /\ replays' = replays \ {o}
    /\ IF Stands(o) THEN Deliver("offer:new", o) ELSE UNCHANGED wire
    /\ UNCHANGED <<offerRows, link, announcing, modalView, answers, modalCount>>

LinkDrops ==
    /\ ModalMove
    /\ link
    /\ link' = FALSE
    /\ wire' = <<>>
    /\ UNCHANGED <<offerRows, deliveries, modalView, answers, modalFailed>>

-----------------------------------------------------------------------------
(* OfferHost.jsx and IncomingOfferModal.jsx                                 *)

clearOffer == shown' = NoOffer /\ pressed' = FALSE

\* The same offer is a replay; another one is dropped, with a console error.
HearOffer(o) ==
    /\ IF shown = NoOffer THEN shown' = o /\ pressed' = FALSE
                          ELSE UNCHANGED <<shown, pressed>>
    /\ closed' = IF shown \in {NoOffer, o} THEN closed \ {o} ELSE closed \cup {o}

isShown_Whichever(o) == TRUE

isShown(o) == shown = o

HearExpired(o) ==
    /\ IF isShown(o) THEN clearOffer ELSE UNCHANGED <<shown, pressed>>
    /\ UNCHANGED closed

HearOfferFrame ==
    /\ wire # <<>>
    /\ wire' = Tail(wire)
    /\ LET frame == Head(wire) IN
       \/ frame.event = "offer:new" /\ HearOffer(frame.offer)
       \/ frame.event = "offer:expired" /\ HearExpired(frame.offer)
    /\ UNCHANGED <<offerRows, link, deliveries, answers, modalCount>>

\* The countdown at zero: no request, and the modal closes.
onExpire ==
    /\ shown \in due
    /\ clearOffer
    /\ UNCHANGED <<offerRows, wire, link, deliveries, closed, answers, modalCount>>

PressAnswer(kind) ==
    /\ ModalMove
    /\ shown # NoOffer /\ ~pressed
    /\ pressed' = TRUE
    /\ answers' = answers \cup {[offer |-> shown, kind |-> kind, at |-> "sent"]}
    /\ UNCHANGED <<offerRows, wire, link, deliveries, shown, closed, modalFailed>>

HandleAnswer(c) ==
    /\ c \in answers /\ c.at = "sent"
    /\ \/ sweepExpiredOffer(c.offer)
       \/ c.kind = "accept" /\ Accepts(c.offer)
       \/ c.kind = "reject" /\ Rejects(c.offer)
       \/ NothingComesOf(c.offer, c.kind)
    /\ answers' = (answers \ {c}) \cup {[c EXCEPT !.at = "back"]}
    /\ UNCHANGED <<due, wire, link, deliveries, modalView, modalCount>>

LoseAnswer(c) ==
    /\ modalFailed < ModalFaults /\ modalFailed' = modalFailed + 1
    /\ c \in answers /\ c.at = "sent"
    /\ answers' = (answers \ {c}) \cup {[c EXCEPT !.at = "back"]}
    /\ UNCHANGED <<offerRows, wire, link, deliveries, modalView, modalMoved>>

\* Whatever came back, onClose: clearOffer looks at no id.
AnswerArrives(c) ==
    /\ c \in answers /\ c.at = "back"
    /\ answers' = answers \ {c}
    /\ clearOffer
    /\ closed' = IF Stands(shown) THEN closed \cup {shown} ELSE closed
    /\ UNCHANGED <<offerRows, wire, link, deliveries, modalCount>>

-----------------------------------------------------------------------------
ModalNext ==
    \/ \E o \in Offers : \/ SendOffer(o) \/ AnnounceOffer(o) \/ OfferIsDue(o)
                         \/ settleExpiredOffer(o) \/ AnswerFromElsewhere(o)
                         \/ ReplayOffer(o)
    \/ SessionIsOver \/ PatchAvailability
    \/ TabConnects \/ OtherTabConnects \/ LinkDrops \/ findOfferSessionForTeacher
    \/ HearOfferFrame \/ onExpire
    \/ \E kind \in {"accept", "reject"} : PressAnswer(kind)
    \/ \E c \in answers : HandleAnswer(c) \/ LoseAnswer(c) \/ AnswerArrives(c)

ModalSpec == ModalInit /\ [][ModalNext]_modalVars

-----------------------------------------------------------------------------
\* Connected, and nothing is under way between the tab and the server.
ModalAtRest ==
    /\ link /\ wire = <<>>
    /\ announcing = {} /\ replays = {} /\ answers = {}

(* An offer that can be answered is in front of its teacher once everything *)
(* has come through, whatever went down with the connection and whichever   *)
(* frame came late (OfferHost.jsx, replayOpenOffer): unless this tab closed *)
(* it itself, or another offer stood in its place.                          *)
OfferReachesItsTeacher ==
    ModalAtRest => \A o \in Offers \ closed : Stands(o) => shown = o
=============================================================================
