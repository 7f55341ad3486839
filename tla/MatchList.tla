----------------------------- MODULE MatchList -----------------------------
(***************************************************************************)
(* The student's list of teachers (pages/student/ChooseTeacher.jsx): the    *)
(* list is loaded for the price band in the URL, again whenever the band    *)
(* changes, and by hand; a press on a card sends the offer and leaves.      *)
(* The server is the answer it gives to each offer; which card was pressed  *)
(* makes no difference to the page.  What a card says of its teacher's      *)
(* status is not here: a frame moves it and the next load replaces it.      *)
(***************************************************************************)
EXTENDS Naturals, FiniteSets

CONSTANTS
    Bands,       \* the price bands the URL may have
    Loads,       \* how many loads may be in flight
    NoList,
    ListMoves    \* what the student does

ASSUME ListAssumption == NoList \notin Bands /\ ListMoves \in Nat

VARIABLES
    priceBand,     \* in the URL
    load,          \* each load: its band, who started it
    matches,       \* the band the shown list was matched for, or NoList
    matchesError, matchesLoading,
    sendingRef,    \* the latch, written at once
    pendingChoice, \* the state, seen by the cards once they are drawn again
    drawn,         \* what the cards were last drawn with
    sends,         \* the calls of POST /sessions/:id/offer that the page waits for
    left,          \* the screen has gone
    adrift,        \* how many it no longer waits for, and the server may yet take
    offerOut,      \* the session is not PENDING: an offer is out, or was accepted
    made,          \* history: the presses whose offer was made, less those whose
                   \* answer never reached the page
    overtaken,     \* history: a load by hand was not for the URL's band
    listMoved

loadVars   == <<priceBand, load, matches, matchesError, matchesLoading, overtaken>>
chooseVars == <<sendingRef, pendingChoice, drawn, sends, left>>
offerVars  == <<adrift, offerOut, made>>
listVars   == <<loadVars, chooseVars, offerVars, listMoved>>

NoLoad == [by |-> "nobody", band |-> NoList]

InFlight == {l \in Loads : load[l] # NoLoad}

ListMove == listMoved < ListMoves /\ listMoved' = listMoved + 1 /\ ~left

-----------------------------------------------------------------------------
(* loadMatches                                                              *)

\* The loads that stay when the URL moves: the cleanup of the effect reaches
\* only the one the effect started.
kept_All(l) == TRUE

kept(l) == load[l].by # "effect"

\* `all` are the loads that stay; it is all the same which free slot takes the
\* new one.
Free(all) == {l \in Loads : all[l] = NoLoad}

LoadMatches(all, by, band) ==
    /\ \E l \in Free(all) : /\ l = CHOOSE k \in Free(all) : TRUE
                            /\ load' = [all EXCEPT ![l] = [by |-> by, band |-> band]]
    /\ matchesLoading' = TRUE
    /\ matchesError' = FALSE

ListInit ==
    /\ priceBand \in Bands
    /\ \E l \in Loads : load = [k \in Loads |-> IF k = l THEN [by |-> "effect", band |-> priceBand]
                                                         ELSE NoLoad]
    /\ matches = NoList /\ matchesError = FALSE /\ matchesLoading = TRUE
    /\ sendingRef = FALSE /\ pendingChoice = FALSE /\ drawn = FALSE
    /\ sends = {} /\ left = FALSE
    /\ adrift = 0 /\ offerOut \in BOOLEAN /\ made = {}
    /\ overtaken = FALSE
    /\ listMoved = 0

MoveUrl(band) ==
    /\ band # priceBand
    /\ priceBand' = band
    /\ LoadMatches([l \in Loads |-> IF kept(l) THEN load[l] ELSE NoLoad], "effect", band)
    /\ overtaken' = (overtaken \/ \E l \in InFlight : load[l].by = "hand")
    /\ UNCHANGED <<matches, chooseVars, offerVars>>

\* The control is disabled while a list loads or an offer is sent; the
\* browser's back is not.
changeBand(band) ==
    /\ ListMove
    /\ ~matchesLoading /\ ~pendingChoice
    /\ MoveUrl(band)

GoBack(band) ==
    /\ ListMove
    /\ MoveUrl(band)

\* The empty state's button and the retry are not disabled by a load.
LookAgain ==
    /\ ListMove
    /\ ~pendingChoice \/ matchesError
    /\ LoadMatches(load, "hand", priceBand)
    /\ UNCHANGED <<priceBand, matches, overtaken, chooseVars, offerVars>>

LoadAnswers(l) ==
    /\ load[l] # NoLoad
    /\ load' = [load EXCEPT ![l] = NoLoad]
    /\ \/ matches' = load[l].band /\ UNCHANGED matchesError
       \/ matchesError' = TRUE /\ UNCHANGED matches
    /\ matchesLoading' = FALSE
    /\ UNCHANGED <<priceBand, overtaken, chooseVars, offerVars, listMoved>>

-----------------------------------------------------------------------------
(* onChoose                                                                 *)

isSending_AsDrawn == drawn

isSending == sendingRef

\* A press on a card whose button is not drawn disabled.
onChoose ==
    /\ ListMove
    /\ matches # NoList /\ ~drawn
    /\ ~isSending
    /\ sendingRef' = TRUE
    /\ pendingChoice' = TRUE
    /\ sends' = sends \cup {[press |-> listMoved', band |-> priceBand, at |-> "sent"]}
    /\ UNCHANGED <<loadVars, drawn, left, offerVars>>

DrawCards ==
    /\ drawn # pendingChoice
    /\ drawn' = pendingChoice
    /\ UNCHANGED <<loadVars, sendingRef, pendingChoice, sends, left, offerVars, listMoved>>

\* sendOffer: a session that is not PENDING has been taken to a teacher; it
\* may refuse for the teacher, for the money, or fail.
sendOffer(answer) ==
    \/ answer = "made" /\ ~offerOut /\ offerOut' = TRUE
    \/ answer = "taken" /\ offerOut /\ UNCHANGED offerOut
    \/ answer = "refused" /\ UNCHANGED offerOut

ServeSend(send, answer) ==
    /\ send.at = "sent"
    /\ sendOffer(answer)
    /\ sends' = (sends \ {send}) \cup {[send EXCEPT !.at = answer]}
    /\ made' = IF answer = "made" THEN made \cup {send.press} ELSE made
    /\ UNCHANGED <<loadVars, sendingRef, pendingChoice, drawn, left, adrift, listMoved>>

ServeAdrift(answer) ==
    /\ adrift > 0
    /\ adrift' = adrift - 1
    /\ sendOffer(answer)
    /\ UNCHANGED <<loadVars, chooseVars, made, listMoved>>

\* The offer is declined or expires; another tab of the student's sends one.
OffersElsewhere ==
    /\ offerOut' = ~offerOut
    /\ UNCHANGED <<loadVars, chooseVars, adrift, made, listMoved>>

OfferIsOut(send) ==
    /\ send.at = "made"
    /\ sends' = sends \ {send}
    /\ left' = TRUE
    /\ UNCHANGED <<loadVars, sendingRef, pendingChoice, drawn, offerVars, listMoved>>

\* Every failure opens the latch, whatever the server has done.
Reopen(send) ==
    /\ sends' = sends \ {send}
    /\ sendingRef' = FALSE
    /\ pendingChoice' = FALSE

SameList == UNCHANGED <<load, matchesError, matchesLoading, overtaken>>

\* onSendFailed: away, when an offer is out; another list, when the teacher or
\* the money has gone, for the band of the press; else a message.
OfferFails(send) ==
    /\ Reopen(send)
    /\ \/ send.at = "taken" /\ left' = TRUE /\ SameList
       \/ send.at = "refused" /\ left' = left /\ SameList
       \/ /\ send.at = "refused" /\ left' = left
          /\ LoadMatches(load, "hand", send.band)
          /\ overtaken' = (overtaken \/ send.band # priceBand)
    /\ UNCHANGED <<drawn, priceBand, matches, offerVars, listMoved>>

\* The network, the client's timeout, or an error of the server's after its
\* commit: a message, and the cards are back.
AnswerLost(send) ==
    /\ Reopen(send)
    /\ adrift' = IF send.at = "sent" THEN adrift + 1 ELSE adrift
    /\ made' = made \ {send.press}
    /\ UNCHANGED <<loadVars, drawn, left, offerOut, listMoved>>

ListNext ==
    \/ \E band \in Bands : changeBand(band) \/ GoBack(band)
    \/ LookAgain
    \/ \E l \in Loads : LoadAnswers(l)
    \/ onChoose \/ DrawCards
    \/ \E answer \in {"made", "taken", "refused"} :
          (\E send \in sends : ServeSend(send, answer)) \/ ServeAdrift(answer)
    \/ OffersElsewhere
    \/ \E send \in sends : OfferIsOut(send) \/ OfferFails(send) \/ AnswerLost(send)

ListSpec == ListInit /\ [][ListNext]_listVars

-----------------------------------------------------------------------------
(* However fast cards are pressed, and whatever becomes of the offers, the   *)
(* page has one offer made for its question and, until it leaves for it, is  *)
(* still waiting for that answer: a press that made an offer beside it had   *)
(* its answer lost (onChoose's latch; the buttons are drawn disabled a tick  *)
(* too late, and the server's own check lets a second offer through once the *)
(* first has died).                                                          *)
OneOfferAtATime ==
    /\ \A p, q \in made : p = q
    /\ \A p \in made : left \/ \E send \in sends : send.press = p

(* Once every load has answered, the screen is not waiting, and its list is *)
(* the one for the URL's band, in whatever order loads were started, given  *)
(* up and answered (loadMatches' `cancelled`): unless the last word is an   *)
(* error, or a load started by hand was for another.                        *)
ListIsForTheUrl ==
    InFlight = {} => ~matchesLoading /\ (matches = priceBand \/ matchesError \/ overtaken)
=============================================================================
