----------------------------- MODULE StatusPill -----------------------------
(***************************************************************************)
(* The availability control in the header of one teacher's tab              *)
(* (TeacherStatusToggle.jsx), against the status it shows: the read on      *)
(* every navigation, the PATCH of a press, and the teacher:status frames.   *)
(*                                                                          *)
(* What moves the status is module TutorNow's; here each move is one step,  *)
(* with its announcement.  HTTP answers and frames overtake each other;     *)
(* frames keep their order and are lost with the connection.                *)
(***************************************************************************)
EXTENDS Naturals, Sequences

CONSTANTS
    PillMoves,    \* offers, presses here and in other tabs, navigations, dropped
                  \* connections, the idle sweep
    PillFaults    \* calls that the network loses

ASSUME PillAssumption == {PillMoves, PillFaults} \subseteq Nat

VARIABLES
    row,      \* teacher_profiles.status
    feed,     \* the statuses on their way to the tab, in order
    attached, \* is the tab's socket connected
    pill,     \* record.status, "unread" before the first read
    patch,    \* PATCH /teachers/me in flight
    read,     \* GET /teachers/me in flight, the last navigation's
    old,      \* history: the calls answered before the tab's last news
    behind,   \* history: news the tab missed, and no later read has made good
    pillMoved, pillFailed

calls     == <<patch, read>>
news      == <<old, behind>>
pillCount == <<pillMoved, pillFailed>>
pillVars  == <<row, feed, attached, pill, calls, news, pillCount>>

None == [at |-> "none", status |-> "unread"]
Sent(status) == [at |-> "sent", status |-> status]

PillMove  == pillMoved < PillMoves /\ pillMoved' = pillMoved + 1
PillFault == pillFailed < PillFaults /\ pillFailed' = pillFailed + 1

PillInit ==
    /\ row \in {"ONLINE", "OFFLINE"}
    /\ feed = <<>> /\ attached = FALSE
    /\ pill = "unread" /\ patch = None /\ read = Sent("unread")
    /\ old = {} /\ behind = FALSE
    /\ pillMoved = 0 /\ pillFailed = 0

-----------------------------------------------------------------------------
\* The answers on their way back that say something else than `status`.
Contrary(status) ==
    {k \in {"patch", "read"} : LET call == IF k = "patch" THEN patch ELSE read
                               IN  call.at = "done" /\ call.status # status}

Heard == UNCHANGED news

NotHeard(status) == behind' = TRUE /\ old' = old \cup Contrary(status)

\* emitTeacherStatus, to everybody connected.
emitTeacherStatus(status) ==
    IF attached THEN feed' = Append(feed, status) /\ Heard
                ELSE feed' = feed /\ NotHeard(status)

\* The statuses that something other than this tab writes, and announces.
OfferLocks == row = "ONLINE" /\ row' = "OFFER_LOCKED" /\ PillMove
LockEnds  == row = "OFFER_LOCKED" /\ row' \in {"ONLINE", "IN_SESSION"} /\ UNCHANGED pillMoved
GoesAway   == row = "ONLINE" /\ row' = "OFFLINE" /\ PillMove

SystemOwned == {"OFFER_LOCKED", "IN_SESSION"}

\* assertStatusChangeAllowed: only ONLINE is ever refused.
Allowed(status) == status = "ONLINE" => row \notin SystemOwned

\* The PATCH of the teacher's other tab.
OtherTabToggles == PillMove /\ \E status \in {"ONLINE", "OFFLINE"} : Allowed(status) /\ row' = status

Announced_Not == feed' = feed /\ Heard

Announced == emitTeacherStatus(row')

StatusMoves ==
    /\ OfferLocks \/ LockEnds \/ GoesAway \/ OtherTabToggles
    /\ Announced
    /\ UNCHANGED <<attached, pill, calls, pillFailed>>

\* releaseTeacherAfterSession: the end of a session announces no status.
SessionReleases ==
    /\ row = "IN_SESSION"
    /\ row' = "ONLINE"
    /\ NotHeard("ONLINE")
    /\ UNCHANGED <<feed, attached, pill, calls, pillCount>>

Attach ==
    /\ ~attached
    /\ attached' = TRUE
    /\ UNCHANGED <<row, feed, pill, calls, news, pillCount>>

\* Nothing reads the record again when the socket is back.
Detach ==
    /\ PillMove
    /\ attached
    /\ attached' = FALSE
    /\ feed' = <<>>
    /\ IF feed = <<>> THEN Heard ELSE NotHeard(row)
    /\ UNCHANGED <<row, pill, calls, pillFailed>>

-----------------------------------------------------------------------------
(* TeacherStatusToggle.jsx                                                  *)

\* The frame is merged into the record the tab has.
HearStatus ==
    /\ feed # <<>>
    /\ feed' = Tail(feed)
    /\ LET status == Head(feed) IN
       /\ pill' = IF pill = "unread" THEN pill ELSE status
       /\ old' = IF behind THEN old \cup Contrary(status) ELSE Contrary(status)
    /\ UNCHANGED <<row, attached, calls, behind, pillCount>>

Toggle(status) ==
    /\ PillMove
    /\ patch = None
    /\ pill = (IF status = "ONLINE" THEN "OFFLINE" ELSE "ONLINE")
    /\ patch' = Sent(status)
    /\ UNCHANGED <<row, feed, attached, pill, read, news, pillFailed>>

\* updateTeacherMe, and patchMe's announcement: also of a status that did not
\* move.
PatchMe ==
    /\ patch.at = "sent"
    /\ IF Allowed(patch.status)
       THEN /\ patch' = [patch EXCEPT !.at = "done"]
            /\ row' = patch.status
            /\ emitTeacherStatus(row')
       ELSE /\ patch' = [patch EXCEPT !.at = "failed"]
            /\ UNCHANGED <<row, feed, news>>
    /\ UNCHANGED <<attached, pill, read, pillCount>>

\* setRecord(updated): the answer over whatever a frame said meanwhile.
PatchArrives ==
    /\ patch' = None
    /\ \/ /\ patch.at = "done"
          /\ pill' = patch.status
          /\ behind' = (behind \/ "patch" \in old)
       \/ /\ patch.at = "failed"
          /\ UNCHANGED <<pill, behind>>
    /\ old' = old \ {"patch"}
    /\ UNCHANGED <<row, feed, attached, read, pillCount>>

\* A navigation: the former read is cancelled.
Navigate ==
    /\ PillMove
    /\ read' = Sent("unread")
    /\ old' = old \ {"read"}
    /\ UNCHANGED <<row, feed, attached, pill, patch, behind, pillFailed>>

GetMe ==
    /\ read.at = "sent"
    /\ read' = [at |-> "done", status |-> row]
    /\ UNCHANGED <<row, feed, attached, pill, patch, news, pillCount>>

ReadArrives ==
    /\ read.at = "done"
    /\ read' = None
    /\ pill' = read.status
    /\ behind' = ("read" \in old \/ (behind /\ feed # <<>>))
    /\ old' = old \ {"read"}
    /\ UNCHANGED <<row, feed, attached, patch, pillCount>>

\* A call that the network loses, on either way.
LoseCall ==
    /\ PillFault
    /\ \/ /\ patch.at \in {"sent", "done"}
          /\ patch' = [patch EXCEPT !.at = "failed"]
          /\ old' = old \ {"patch"}
          /\ UNCHANGED read
       \/ /\ read # None
          /\ read' = None
          /\ old' = old \ {"read"}
          /\ UNCHANGED patch
    /\ UNCHANGED <<row, feed, attached, pill, behind, pillMoved>>

-----------------------------------------------------------------------------
PillNext ==
    \/ StatusMoves \/ SessionReleases
    \/ Attach \/ Detach \/ HearStatus
    \/ \E status \in {"ONLINE", "OFFLINE"} : Toggle(status)
    \/ PatchMe \/ PatchArrives
    \/ Navigate \/ GetMe \/ ReadArrives
    \/ LoseCall

PillSpec == PillInit /\ [][PillNext]_pillVars

-----------------------------------------------------------------------------
(* Once everything has come through, the header shows the status the row    *)
(* has, whichever of frames and answers came first, unless nobody told the  *)
(* tab or an answer older than the news it had came after that news.        *)
HeaderIsCurrent ==
    (attached /\ feed = <<>> /\ patch = None /\ read = None)
        => pill \in {"unread", row} \/ behind
=============================================================================
