------------------------------ MODULE Matching ------------------------------
(***************************************************************************)
(* GET /questions/:id/matches: the list of teachers for a question that    *)
(* module Intake committed, and the shared promise behind the platform     *)
(* averages that every list is ranked with.                                *)
(*                                                                         *)
(* `look[m]` is one request.  The ranking is a pure function of what the     *)
(* request holds: any order of the pool is allowed.                         *)
(***************************************************************************)
EXTENDS Intake

CONSTANTS
  Lookers,    \* the requests for a match list
  Fits        \* [Leaves -> SUBSET Teachers], who teaches a leaf or its siblings

Stages == {"new", "sweep", "reload", "pool", "averages", "served", "closed", "failed"}

ASSUME MatchingAssumption ==
  /\ Fits \in [Leaves -> SUBSET Teachers]
  /\ Null \notin Lookers
  /\ Stages \cap Lookers = {}

VARIABLES
  look,       \* where each GET /questions/:id/matches is
  cache,      \* matching.averages.service.js: the looker whose entry it holds
  entry,      \* each looker's own aggregate, if it started one
  fresh,      \* the entries whose expiresAt is still ahead
  evicted     \* history: the entries the eviction of another one threw away

averages == <<cache, entry, fresh, evicted>>
matching == <<look, averages>>

NotLooking == [at |-> "new", question |-> Null, topic |-> Null, rejected |-> {}, list |-> {},
               known |-> {}]

MatchingInit ==
  /\ look = [m \in Lookers |-> NotLooking]
  /\ cache = Null
  /\ entry = [m \in Lookers |-> "none"]
  /\ fresh = {} /\ evicted = {}

-----------------------------------------------------------------------------
(* matching.service.js: requireMatchableSession *)

findQuestionForMatching(q, at) ==
  [at |-> at, question |-> q, topic |-> question[q].topic, rejected |-> rejectedBy[q],
   list |-> {}, known |-> rejectedBy[q]]

Look(m, q) ==
  /\ Request
  /\ look[m].at = "new"
  /\ question[q] # Null
  /\ look' = [look EXCEPT ![m] =
       findQuestionForMatching(q, IF status[q] = "PENDING" THEN "pool" ELSE "sweep")]
  /\ UNCHANGED <<rows, memory, mishaps, overruled, ahead, averages>>

(* The session is not PENDING: the sweep runs now, on every offer that has
   expired by this instant, and not only on this question's. *)
SweepExpiredOffers(m, expired) ==
  /\ look[m].at = "sweep"
  /\ expired \subseteq {q \in Questions : status[q] = "OFFER_SENT"}
  /\ status' = [q \in Questions |-> IF q \in expired THEN "PENDING" ELSE status[q]]
  /\ look' = [look EXCEPT ![m].at = "reload"]
  /\ UNCHANGED <<question, rejectedBy, bound, memory, bounds, overruled, ahead, averages>>

matchable_TheFirstRow(m) ==
  [look[m] EXCEPT !.at = "pool", !.known = rejectedBy[look[m].question]]

(* The row as it is after the sweep, not as it was before. *)
matchable(m) == findQuestionForMatching(look[m].question, "pool")

Reload(m) ==
  /\ look[m].at = "reload"
  /\ look' = [look EXCEPT ![m] = IF status[look[m].question] = "PENDING" THEN matchable(m)
                                 ELSE [look[m] EXCEPT !.at = "closed"]]
  /\ UNCHANGED <<intake, averages>>

-----------------------------------------------------------------------------
(* matching.candidates.service.js: the ceiling from the wallet, one query. *)

buildTopicFilter(topic) == IF topic \in Leaves THEN Fits[topic] ELSE Teachers

(* `reachable` is who is ONLINE, high enough and under the price ceiling when
   the query runs; nobody is, too, when the wallet clears no price at all. *)
findCandidates(m, reachable) ==
  (reachable \cap buildTopicFilter(look[m].topic)) \ look[m].rejected

ResolveCandidatePool(m, reachable) ==
  /\ look[m].at = "pool"
  /\ look' = [look EXCEPT ![m] =
       [@ EXCEPT !.list = findCandidates(m, reachable), !.topic = Null, !.rejected = {},
                 !.at = IF findCandidates(m, reachable) = {} THEN "served" ELSE "averages"]]
  /\ UNCHANGED <<intake, averages>>

-----------------------------------------------------------------------------
(* matching.averages.service.js *)

cached_OnceResolved == cache # Null /\ cache \in fresh /\ entry[cache] = "ok"

(* The cache holds the promise: it is a hit while it is still pending. *)
cached == cache # Null /\ cache \in fresh

(* A hit awaits the entry that is there; a miss starts its own. *)
GetPlatformAverages(m) ==
  /\ look[m].at = "averages"
  /\ look' = [look EXCEPT ![m].at = IF cached THEN cache ELSE m]
  /\ IF cached THEN UNCHANGED <<cache, entry, fresh>>
     ELSE /\ cache' = m
          /\ entry' = [entry EXCEPT ![m] = "pending"]
          /\ fresh' = fresh \cup {m}
  /\ UNCHANGED <<intake, evicted>>

AggregateReturns(m, outcome) ==
  /\ entry[m] = "pending"
  /\ entry' = [entry EXCEPT ![m] = outcome]
  /\ UNCHANGED <<intake, look, cache, fresh, evicted>>

mayEvict_Any(m) == TRUE

(* Only its own entry: a later refresh is not undone by an older failure. *)
mayEvict(m) == cache = m

(* The promise settled; the request that started it resumes first, and a
   rejection takes its entry out of the cache. *)
OwnerResumes(m) ==
  /\ look[m].at = m
  /\ entry[m] \in {"ok", "failed"}
  /\ look' = [look EXCEPT ![m].at = IF entry[m] = "ok" THEN "served" ELSE "failed"]
  /\ IF entry[m] = "failed" /\ mayEvict(m)
     THEN /\ cache' = Null
          /\ evicted' = evicted \cup ({cache} \ {m, Null})
     ELSE UNCHANGED <<cache, evicted>>
  /\ UNCHANGED <<intake, entry, fresh>>

WaiterResumes(m) ==
  /\ look[m].at \in Lookers \ {m}
  /\ entry[look[m].at] \in {"ok", "failed"}
  /\ look[look[m].at].at # look[m].at
  /\ look' = [look EXCEPT ![m].at = IF entry[@] = "ok" THEN "served" ELSE "failed"]
  /\ UNCHANGED <<intake, averages>>

(* PLATFORM_AVERAGES_CACHE_MS after an entry was made. *)
WindowPasses(m) ==
  /\ m \in fresh
  /\ fresh' = fresh \ {m}
  /\ UNCHANGED <<intake, look, cache, entry, evicted>>

ServeLook(m) ==
  \/ \E expired \in SUBSET Questions : SweepExpiredOffers(m, expired)
  \/ Reload(m)
  \/ \E reachable \in SUBSET Teachers : ResolveCandidatePool(m, reachable)
  \/ GetPlatformAverages(m)
  \/ \E outcome \in {"ok", "failed"} : AggregateReturns(m, outcome)
  \/ OwnerResumes(m)
  \/ WaiterResumes(m)

-----------------------------------------------------------------------------
vars == <<intake, matching>>

(* A restart takes the lists and the cache with it. *)
Restart ==
  /\ IntakeRestart
  /\ look' = [m \in Lookers |-> IF look[m].at \in {"new", "served", "closed", "failed"}
                                THEN look[m] ELSE [look[m] EXCEPT !.at = "failed"]]
  /\ cache' = Null
  /\ entry' = [m \in Lookers |-> "none"]
  /\ fresh' = {}
  /\ UNCHANGED evicted

Next ==
  \/ IntakeStep /\ UNCHANGED matching
  \/ \E m \in Lookers :
       \/ \E q \in Questions : Look(m, q)
       \/ ServeLook(m)
       \/ WindowPasses(m)
  \/ Restart

(* The event loop goes on while there is something to do: every request is a
   bounded number of steps, so none of them is left behind for ever.  The
   vendor's answer and the next offer are nobody's duty. *)
Work ==
  \/ (\E q \in Questions : Serve(q)) /\ UNCHANGED matching
  \/ \E m \in Lookers : ServeLook(m)

Init == IntakeInit /\ MatchingInit

Spec == Init /\ [][Next]_vars /\ WF_vars(Work)

-----------------------------------------------------------------------------
TypeOK ==
  /\ IntakeTypeOK
  /\ \A m \in Lookers :
       /\ look[m].at \in Stages \cup Lookers
       /\ look[m].list \subseteq Teachers
  /\ cache \in {Null} \cup Lookers
  /\ entry \in [Lookers -> {"none", "pending", "ok", "failed"}]
  /\ fresh \subseteq Lookers

(* Concurrent cold callers share one query: no second aggregate runs while
   an unexpired one is out. *)
OneAggregate == Cardinality({m \in fresh : entry[m] = "pending"}) <= 1

(* A rejected promise is not served to later callers: once the request that
   started it has resumed, its entry is out of the cache; and its eviction
   never takes the entry of a later refresh with it. *)
FailuresAreEvicted ==
  /\ cache # Null /\ entry[cache] = "failed" => look[cache].at = cache
  /\ evicted = {}

(* A list knows every rejection committed before the question was seen
   PENDING: a teacher who said no to it is not offered it again.  Hazard: the
   row read before the sweep is older than the session it is judged by. *)
ListKnowsItsRejections ==
  \A m \in Lookers : look[m].list \cap look[m].known = {}

(* Nothing waits for ever: neither on a vendor that never answers, since
   classification must not block, nor on an aggregate that failed.  Again and
   again there is no question and no list in flight. *)
EveryRequestAnswers ==
  []<>(/\ \A q \in Questions : post[q].at \notin InFlight
       /\ \A m \in Lookers : look[m].at \in {"new", "served", "closed", "failed"})
=============================================================================
