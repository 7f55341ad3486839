------------------------------ MODULE Requests ------------------------------
(***************************************************************************)
(* The server's concurrency: one Node process, in which HTTP handlers and  *)
(* the cron tick interleave at every `await`.  `req[p]` is what process p  *)
(* has read and not yet acted on: the row it looked at before opening its  *)
(* transaction, the ids a sweep collected, the room it is waiting for.     *)
(* It is memory, so a restart of the process loses it.                     *)
(***************************************************************************)
EXTENDS Tables

CONSTANTS
  Handlers,     \* slots for HTTP requests being served at the same time
  Cron,         \* the background tick (jobs/index.js)
  Matchers,     \* the handlers that may serve a match list, which sweeps too
  Patchers,     \* the teachers who edit their own status during the run
  MaxFaults     \* bound on failed settlements and restarts

ASSUME ProcessAssumption ==
  /\ Cron \notin Handlers
  /\ Matchers \subseteq Handlers
  /\ Patchers \subseteq Teachers
  /\ MaxFaults \in Nat

VARIABLES
  req,          \* what each process has in hand
  faults,       \* how many faults there have been
  stray         \* history: some sweep took over an offer it had not expired itself

Procs == Handlers \cup {Cron}

Idle == [op |-> "idle"]

Request ==
  {Idle}
    \cup [op : {"sendOffer"}, session : Sessions, teacher : Teachers, at : Nat]
    \cup [op : {"accept"}, offer : Offers, at : Nat]
    \cup [op : {"reject", "sweepExpired"}, offer : Offers]
    \cup [op : {"expire", "settle"}, offers : SUBSET Offers]
    \cup [op : {"reread"}, offers : SUBSET Offers, own : SUBSET Offers]
    \cup [op : {"extend"}, session : Sessions, endsAt : Nat]
    \cup [op : {"room"}, session : Sessions]
    \cup [op : {"status"}, teacher : Teachers, next : {"ONLINE", "OFFLINE"}]
    \cup [op : {"findDue"}]
    \cup [op : {"autoEnd"}, sessions : SUBSET Sessions]

(* Operations that answer an error and have written nothing when they fail. *)
Rollbackable == {"sendOffer", "accept", "reject", "sweepExpired", "extend", "room", "status"}

RequestsInit == req = [p \in Procs |-> Idle] /\ faults = 0 /\ stray = FALSE

history == <<faults, stray>>

At(p, op)     == req[p].op = op
Become(p, r)  == req' = [req EXCEPT ![p] = r]
Finish(p)     == Become(p, Idle)
Begin(h, r)   == h \in Handlers /\ req[h] = Idle /\ Become(h, r)
=============================================================================
