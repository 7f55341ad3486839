------------------------------ MODULE Browser ------------------------------
(***************************************************************************)
(* The screens of the client that keep something of their own: a student's  *)
(* list of teachers and session screen, and in a teacher's tab the offer's  *)
(* modal and the header.  Nothing passes between them but the server, which *)
(* each of the four modules has as far as that screen can tell: a behaviour *)
(* is a behaviour of one of them, with the others at rest.                  *)
(***************************************************************************)
EXTENDS SessionScreen, OfferModal, StatusPill, MatchList

VARIABLE screen

browserVars == <<screen, vars, modalVars, pillVars, listVars>>

\* The three modules that are at rest start in one way.
SessionRests == view = "room" /\ accessToken = "fresh"
HeaderRests  == row = "ONLINE"
ListRests    == /\ priceBand = CHOOSE band \in Bands : TRUE
                /\ load[CHOOSE l \in Loads : TRUE] # NoLoad
                /\ ~offerOut

BrowserInit ==
    /\ Init /\ ModalInit /\ PillInit /\ ListInit
    /\ screen \in {"session", "modal", "header", "list"}
    /\ screen # "session" => SessionRests
    /\ screen # "header" => HeaderRests
    /\ screen # "list" => ListRests

BrowserNext ==
    /\ UNCHANGED screen
    /\ \/ screen = "session" /\ Next /\ UNCHANGED <<modalVars, pillVars, listVars>>
       \/ screen = "modal" /\ ModalNext /\ UNCHANGED <<vars, pillVars, listVars>>
       \/ screen = "header" /\ PillNext /\ UNCHANGED <<vars, modalVars, listVars>>
       \/ screen = "list" /\ ListNext /\ UNCHANGED <<vars, modalVars, pillVars>>

\* What is assumed of the session screen leaves out the behaviours of the
\* others in which that screen would have had to move: of those nothing but
\* safety is asked.
BrowserSpec == BrowserInit /\ [][BrowserNext]_browserVars /\ Fairness
=============================================================================
