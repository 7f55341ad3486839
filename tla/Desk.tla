-------------------------------- MODULE Desk --------------------------------
(***************************************************************************)
(* What a teacher's time is to the students who ask for it: a desk with    *)
(* one chair.  A free desk is asked for by one session; the session it     *)
(* serves is the one that asked; and it is free again only together with   *)
(* the session that held it.  TutorNow implements this as long as no sweep *)
(* strays (Promises!KeepsTheDesks).                                        *)
(***************************************************************************)
CONSTANTS Teachers, Sessions

VARIABLES
  desk,    \* of each teacher: "free", "asked" or "serving"
  asked,   \* the sessions that wait for the teacher's answer
  served   \* the sessions that run with the teacher

dvars == <<desk, asked, served>>

Init ==
  /\ desk = [t \in Teachers |-> "free"]
  /\ asked = [t \in Teachers |-> {}]
  /\ served = [t \in Teachers |-> {}]

Ask(t, s) ==
  /\ desk[t] = "free"
  /\ \A u \in Teachers : s \notin asked[u] \cup served[u]
  /\ desk' = [desk EXCEPT ![t] = "asked"]
  /\ asked' = [asked EXCEPT ![t] = {s}]
  /\ UNCHANGED served

Serve(t) ==
  /\ desk[t] = "asked"
  /\ desk' = [desk EXCEPT ![t] = "serving"]
  /\ asked' = [asked EXCEPT ![t] = {}]
  /\ served' = [served EXCEPT ![t] = asked[t]]

(* The question goes back to waiting, or the session is over. *)
Leave(t) ==
  /\ desk[t] # "free"
  /\ desk' = [desk EXCEPT ![t] = "free"]
  /\ asked' = [asked EXCEPT ![t] = {}]
  /\ served' = [served EXCEPT ![t] = {}]

Next ==
  \E t \in Teachers : (\E s \in Sessions : Ask(t, s)) \/ Serve(t) \/ Leave(t)

Spec == Init /\ [][Next]_dvars
=============================================================================
