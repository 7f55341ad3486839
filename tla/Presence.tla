------------------------------ MODULE Presence ------------------------------
(***************************************************************************)
(* Whether a teacher is there: the sockets of their tabs, the disconnect   *)
(* timers, last_seen_at behind its debounce, and the idle sweep.           *)
(*                                                                         *)
(* The marketplace (module TutorNow) knows presence as one action that     *)
(* takes an ONLINE teacher OFFLINE.  This module is about when that        *)
(* happens.  Offers and sessions are the moves they make on the status.    *)
(* A database round trip is short against a tick of this clock, so a write *)
(* that was issued commits or fails before the clock moves on; everything  *)
(* else of the same instant may come before it.                            *)
(***************************************************************************)
EXTENDS Integers

CONSTANTS
  Teachers,
  Tabs,        \* the sockets one teacher may have open
  Away,        \* AUTO_AWAY_MINUTES, in ticks
  WarnAfter,   \* AUTO_AWAY_WARNING_MINUTES
  Grace,       \* PRESENCE_DISCONNECT_GRACE_SECONDS
  MaxNow,      \* bound on the clock
  MaxMoves,    \* bound on what teachers, browsers and offers do
  MaxFaults    \* bound on failed writes and restarts

ASSUME PresenceAssumption ==
  /\ {Away, WarnAfter, Grace, MaxNow, MaxMoves, MaxFaults} \subseteq Nat
  /\ WarnAfter <= Away

VARIABLES
  status,      \* teacher_profiles.status
  lastSeen,    \* teacher_profiles.last_seen_at
  open,        \* the connected sockets in each teacher's room
  lastWritten, \* presence.debounce.js: lastWrittenAt
  touches,     \* touchLastSeenAt calls on their way to the database
  timers,      \* the setTimeouts of scheduleOfflineIfLastSocket
  leaving,     \* takeTeacherOffline calls on their way to the database
  warned,      \* presence.autoAway.job.js: the beat each teacher was warned about
  cron,        \* where the tick's presence job is
  now,
  moves,       \* how many moves teachers, browsers and offers have made
  faults,      \* how many faults there have been
  seen,        \* history: when the teacher last did something
  gone,        \* history: when the teacher's last socket went
  spared,      \* history: those whose departure found an offer or a session, or a fault
  prompts      \* history: the warnings sent, as <<teacher, beat>>, and the repeated ones

rows    == <<status, lastSeen>>
memory  == <<lastWritten, touches, timers, leaving, warned>>
ghosts  == <<seen, gone, spared, prompts>>
vars    == <<rows, memory, open, cron, now, moves, faults, ghosts>>

Never == -1
Idle  == [stage |-> "idle"]

WriteInterval == Away \div 2

Init ==
  /\ status = [t \in Teachers |-> "OFFLINE"]
  /\ lastSeen = [t \in Teachers |-> Never]
  /\ open = [t \in Teachers |-> {}]
  /\ lastWritten = [t \in Teachers |-> Never]
  /\ touches = {} /\ timers = {} /\ leaving = {}
  /\ warned = [t \in Teachers |-> Never]
  /\ cron = Idle
  /\ now = 0 /\ moves = 0 /\ faults = 0
  /\ seen = [t \in Teachers |-> Never]
  /\ gone = [t \in Teachers |-> Never]
  /\ spared = {}
  /\ prompts = [sent |-> {}, again |-> {}]

-----------------------------------------------------------------------------
(* presence.debounce.js and presence.service.js *)

claimLastSeenWrite(t, force) ==
  force \/ lastWritten[t] = Never \/ now - lastWritten[t] >= WriteInterval

(* recordTeacherActivity up to its write: the claim stands whatever becomes of it. *)
recordTeacherActivity(t, force) ==
  /\ seen' = [seen EXCEPT ![t] = now]
  /\ IF claimLastSeenWrite(t, force)
     THEN /\ lastWritten' = [lastWritten EXCEPT ![t] = now]
          /\ touches' = touches \cup {[teacher |-> t, at |-> now]}
     ELSE UNCHANGED <<lastWritten, touches>>

TouchLastSeenAt(w) ==
  /\ w \in touches
  /\ touches' = touches \ {w}
  /\ lastSeen' = [lastSeen EXCEPT ![w.teacher] = w.at]
  /\ UNCHANGED <<status, lastWritten, timers, leaving, warned, open, cron, now, faults, moves, ghosts>>

TouchFails(w) ==
  /\ w \in touches
  /\ faults < MaxFaults
  /\ faults' = faults + 1
  /\ touches' = touches \ {w}
  /\ UNCHANGED <<rows, lastWritten, timers, leaving, warned, open, cron, now, moves, ghosts>>

TakeTeacherOffline(t) ==
  /\ t \in leaving
  /\ leaving' = leaving \ {t}
  /\ status' = IF status[t] = "ONLINE" THEN [status EXCEPT ![t] = "OFFLINE"] ELSE status
  /\ spared' = IF status[t] \in {"OFFER_LOCKED", "IN_SESSION"} THEN spared \cup {t} ELSE spared
  /\ UNCHANGED <<lastSeen, lastWritten, touches, timers, warned, open, cron, now, faults, moves,
                 seen, gone, prompts>>

(* The error is swallowed: the idle sweep is the backstop. *)
TakeOfflineFails(t) ==
  /\ t \in leaving
  /\ faults < MaxFaults
  /\ faults' = faults + 1
  /\ leaving' = leaving \ {t}
  /\ spared' = spared \cup {t}
  /\ UNCHANGED <<rows, lastWritten, touches, timers, warned, open, cron, now, moves, seen, gone, prompts>>

-----------------------------------------------------------------------------
(* sockets/handlers.presence.js *)

(* A handshake: the socket joins its teacher's room, and connecting is activity. *)
Connect(t, tab) ==
  /\ tab \notin open[t]
  /\ open' = [open EXCEPT ![t] = @ \cup {tab}]
  /\ recordTeacherActivity(t, TRUE)
  /\ gone' = [gone EXCEPT ![t] = Never]
  /\ spared' = spared \ {t}
  /\ UNCHANGED <<rows, timers, leaving, warned, cron, now, faults, prompts>>

(* teacher:heartbeat, which a tab sends only if its teacher has done something. *)
Heartbeat(t) ==
  /\ open[t] # {}
  /\ recordTeacherActivity(t, FALSE)
  /\ UNCHANGED <<rows, open, timers, leaving, warned, cron, now, faults, gone, spared, prompts>>

graceEnds == now + Grace

Disconnect(t, tab) ==
  /\ tab \in open[t]
  /\ open' = [open EXCEPT ![t] = @ \ {tab}]
  /\ timers' = timers \cup {[teacher |-> t, due |-> graceEnds]}
  /\ gone' = IF open[t] = {tab} THEN [gone EXCEPT ![t] = now] ELSE gone
  /\ spared' = IF open[t] = {tab} THEN spared \ {t} ELSE spared
  /\ UNCHANGED <<rows, lastWritten, touches, leaving, warned, cron, now, faults, seen, prompts>>

(* What a timer asks: is a socket left in this teacher's room? *)
StillConnected_LastSeen(t) == open[t] # {} \/ lastSeen[t] >= now - Grace

StillConnected(t) == open[t] # {}

(* The timer of a disconnect: it looks for sockets, and then issues the write. *)
TimerFires(timer) ==
  /\ timer \in timers
  /\ timer.due <= now
  /\ timers' = timers \ {timer}
  /\ leaving' = IF StillConnected(timer.teacher) THEN leaving
                                                ELSE leaving \cup {timer.teacher}
  /\ UNCHANGED <<rows, lastWritten, touches, warned, open, cron, now, faults, moves, ghosts>>

-----------------------------------------------------------------------------
(* What moves the status: the account, the toggle, offers and sessions.    *)

(* Logging in and logging out both take the teacher offline, after the response. *)
LoginOrLogout(t) ==
  /\ leaving' = leaving \cup {t}
  /\ UNCHANGED <<rows, lastWritten, touches, timers, warned, open, cron, now, faults, ghosts>>

(* publishTeacherStatus: the announcement, and the activity it counts as. *)
publishTeacherStatus(t) == recordTeacherActivity(t, TRUE)

(* PATCH /teachers/me.  Its check and its write are one step here; the race
   between them belongs to module TutorNow. *)
PatchStatus(t, next) ==
  /\ status[t] \in {"ONLINE", "OFFLINE"}
  /\ status' = [status EXCEPT ![t] = next]
  /\ publishTeacherStatus(t)
  /\ gone' = [gone EXCEPT ![t] = Never]
  /\ UNCHANGED <<lastSeen, timers, leaving, warned, open, cron, now, faults, spared, prompts>>

(* An offer reaches the teacher: they did nothing yet. *)
LockForOffer(t) ==
  /\ status[t] = "ONLINE"
  /\ status' = [status EXCEPT ![t] = "OFFER_LOCKED"]
  /\ UNCHANGED <<lastSeen, memory, open, cron, now, faults, ghosts>>

(* They reject it, or answer too late: released, and it counts as activity. *)
AnswerReleases(t) ==
  /\ status[t] = "OFFER_LOCKED"
  /\ status' = [status EXCEPT ![t] = "ONLINE"]
  /\ publishTeacherStatus(t)
  /\ UNCHANGED <<lastSeen, timers, leaving, warned, open, cron, now, faults, gone, spared, prompts>>

(* The offer expires, or the session they taught ends: the row goes back to
   ONLINE and nothing is recorded about the teacher. *)
ReleasedByTheSystem(t) ==
  /\ status[t] \in {"OFFER_LOCKED", "IN_SESSION"}
  /\ status' = [status EXCEPT ![t] = "ONLINE"]
  /\ UNCHANGED <<lastSeen, memory, open, cron, now, faults, ghosts>>

StartSession(t) ==
  /\ status[t] = "OFFER_LOCKED"
  /\ status' = [status EXCEPT ![t] = "IN_SESSION"]
  /\ publishTeacherStatus(t)
  /\ UNCHANGED <<lastSeen, timers, leaving, warned, open, cron, now, faults, gone, spared, prompts>>

-----------------------------------------------------------------------------
(* jobs/presence.autoAway.job.js: warn, then sweep.  Every stage is a      *)
(* database round trip.                                                    *)

prune(memo) == [t \in Teachers |-> IF memo[t] <= now - Away THEN Never ELSE memo[t]]

findTeachersDueForAwayWarning ==
  {t \in Teachers : /\ status[t] = "ONLINE"
                    /\ lastSeen[t] > now - Away
                    /\ lastSeen[t] <= now - WarnAfter
                    /\ lastSeen[t] # Never}

FindDue ==
  /\ cron = Idle
  /\ warned' = prune(warned)
  /\ cron' = [stage |-> "due",
              beats |-> {<<t, lastSeen[t]>> : t \in findTeachersDueForAwayWarning}]
  /\ UNCHANGED <<rows, lastWritten, touches, timers, leaving, open, now, faults, moves, ghosts>>

notYetWarned_Forgetful(beats) == beats

notYetWarned(beats) == {b \in beats : warned[b[1]] # b[2]}

WarnIdleTeachers ==
  /\ cron.stage = "due"
  /\ LET fresh == notYetWarned(cron.beats)
     IN  /\ warned' = [t \in Teachers |-> IF \E b \in fresh : b[1] = t
                                          THEN (CHOOSE b \in fresh : b[1] = t)[2]
                                          ELSE warned[t]]
         /\ prompts' = [sent  |-> prompts.sent \cup fresh,
                        again |-> prompts.again \cup (fresh \cap prompts.sent)]
  /\ cron' = [stage |-> "warned"]
  /\ UNCHANGED <<rows, lastWritten, touches, timers, leaving, open, now, faults, moves, seen, gone, spared>>

idleAt_OnceWarned(t, instant) ==
  status[t] = "ONLINE" /\ lastSeen[t] < instant /\ warned[t] = lastSeen[t]

idleAt(t, instant) ==
  /\ status[t] = "ONLINE"
  /\ lastSeen[t] # Never
  /\ lastSeen[t] < instant

SweepFind ==
  /\ cron.stage = "warned"
  /\ LET ids == {t \in Teachers : idleAt(t, now - Away)}
     IN  cron' = IF ids = {} THEN Idle
                 ELSE [stage |-> "found", ids |-> ids, instant |-> now - Away]
  /\ UNCHANGED <<rows, memory, open, now, faults, moves, ghosts>>

stillIdle_ById(t, instant) == status[t] = "ONLINE"

(* The update repeats the condition of the read. *)
stillIdle(t, instant) == idleAt(t, instant)

(* When the count falls short the ids are read again, for the announcement
   alone: that read changes nothing here. *)
SweepUpdate ==
  /\ cron.stage = "found"
  /\ status' = [t \in Teachers |->
                  IF t \in cron.ids /\ stillIdle(t, cron.instant) THEN "OFFLINE" ELSE status[t]]
  /\ cron' = Idle
  /\ UNCHANGED <<lastSeen, memory, open, now, faults, moves, ghosts>>

(* A failed warning query goes on to the sweep; a failed sweep ends the job. *)
JobStageFails ==
  /\ cron.stage \in {"due", "warned", "found"}
  /\ faults < MaxFaults
  /\ faults' = faults + 1
  /\ cron' = IF cron.stage = "due" THEN [stage |-> "warned"] ELSE Idle
  /\ UNCHANGED <<rows, memory, open, now, moves, ghosts>>

-----------------------------------------------------------------------------
(* The process dies: its memory, its timers and its sockets go with it. *)
Restart ==
  /\ faults < MaxFaults
  /\ faults' = faults + 1
  /\ open' = [t \in Teachers |-> {}]
  /\ lastWritten' = [t \in Teachers |-> Never]
  /\ warned' = [t \in Teachers |-> Never]
  /\ touches' = {} /\ timers' = {} /\ leaving' = {}
  /\ cron' = Idle
  /\ spared' = Teachers
  /\ prompts' = [sent |-> {}, again |-> prompts.again]
  /\ UNCHANGED <<rows, now, moves, seen, gone>>

Tick ==
  /\ now < MaxNow
  /\ touches = {} /\ leaving = {}
  /\ \A timer \in timers : timer.due > now
  /\ now' = now + 1
  /\ UNCHANGED <<rows, memory, open, cron, faults, moves, ghosts>>

Job == FindDue \/ WarnIdleTeachers \/ SweepFind \/ SweepUpdate

Writes ==
  \/ \E w \in touches : TouchLastSeenAt(w)
  \/ \E t \in leaving : TakeTeacherOffline(t)
  \/ \E timer \in timers : TimerFires(timer)

Faults ==
  \/ \E w \in touches : TouchFails(w)
  \/ \E t \in leaving : TakeOfflineFails(t)
  \/ JobStageFails
  \/ Restart

Browser(t) ==
  \/ \E tab \in Tabs : Connect(t, tab) \/ Disconnect(t, tab)
  \/ Heartbeat(t)
  \/ LoginOrLogout(t)
  \/ \E next \in {"ONLINE", "OFFLINE"} : PatchStatus(t, next)

Marketplace(t) ==
  LockForOffer(t) \/ AnswerReleases(t) \/ ReleasedByTheSystem(t) \/ StartSession(t)

(* A move a person makes, or an offer. *)
Move(t) ==
  /\ moves < MaxMoves
  /\ moves' = moves + 1
  /\ Browser(t) \/ Marketplace(t)

Next ==
  \/ \E t \in Teachers : Move(t)
  \/ Writes
  \/ Faults
  \/ Job
  \/ Tick

Spec == Init /\ [][Next]_vars

(* The clock passes, writes finish, timers fire, and the cron runs again. *)
FairSpec == Spec /\ WF_vars(Tick) /\ WF_vars(Writes) /\ WF_vars(Job)

-----------------------------------------------------------------------------
TypeOK ==
  /\ status \in [Teachers -> {"OFFLINE", "ONLINE", "OFFER_LOCKED", "IN_SESSION"}]
  /\ lastSeen \in [Teachers -> {Never} \cup 0..now]
  /\ open \in [Teachers -> SUBSET Tabs]
  /\ lastWritten \in [Teachers -> {Never} \cup 0..now]
  /\ touches \subseteq [teacher : Teachers, at : 0..now]
  /\ timers \subseteq [teacher : Teachers, due : 0..(now + Grace)]
  /\ leaving \subseteq Teachers

(* The idle sweep moves a teacher only if they did nothing for longer than
   the window less the debounce interval: presence.debounce.js promises that
   the column is never further behind than that.  A teacher whose own write is
   still on its way, and a run in which a write failed, are outside it.
   Hazard: the sweep's read, a beat in between, and its update. *)
SweepTakesTheIdle ==
  [][\A t \in Teachers :
       (cron.stage = "found" /\ status[t] = "ONLINE" /\ status'[t] = "OFFLINE"
         /\ t \notin leaving /\ moves' = moves /\ faults = 0
         /\ \A w \in touches : w.teacher # t)
       => now - seen[t] > Away - WriteInterval]_vars

(* One prompt per quiet stretch: a teacher is not asked again about a beat
   they were asked about, unless the process restarted in between. *)
WarnedOncePerBeat == prompts.again = {}

(* A teacher whose last socket went is not listed past the grace period,
   unless the system held them (an offer, a session) or a fault intervened. *)
DepartureNoticed ==
  \A t \in Teachers :
    (status[t] = "ONLINE" /\ gone[t] # Never /\ t \notin spared) => now <= gone[t] + Grace

(* A teacher who went quiet while listed is taken away in the end, across
   lost timers and restarts: the sweep is the backstop the comments name. *)
IdleIsTakenAway ==
  \A t \in Teachers, beat \in 0..(MaxNow - Away - 1) :
    (status[t] = "ONLINE" /\ lastSeen[t] = beat)
      ~> (status[t] # "ONLINE" \/ lastSeen[t] # beat)
=============================================================================
