# TutorNow in TLA+

A verification project for the TutorNow marketplace: a student asks a question,
sends an offer to one of the matched teachers, the teacher accepts, the session is
charged block by block, and when it ends the money is paid out or refunded. The
modules model the server under `server/src`, its tables, and the parts of the browser
client under `client/src` that keep state of their own; TLC checks them on small
instances and TLAPS proves the central promises for every instance.

Source paths below are relative to the repository's root.

## 1. The system

One Express process serves HTTP requests and Socket.IO connections, runs a cron tick
(`server/src/jobs/index.js`), and keeps everything that lasts in Postgres through
Prisma. A browser client polls it and listens to its events. There is no queue and
no distributed protocol: what makes the system hard is that handlers and the tick
interleave at every `await`, that reads taken before a transaction are stale inside
it, and that the protection against this is spread over conditional `updateMany`
writes (a `where` that names the expected status, and a look at `count`) and
`SELECT ... FOR UPDATE`.

### Inventory

| Component | State | Operations | What is hard | What makes it correct |
|---|---|---|---|---|
| Offers (`session.offer.service`, `offer.respond.service`, `session.activate.service`, `offer.expiry.job`) | `offers`, `sessions.status/teacher_id/price_per_block`, `teacher_profiles.status`, `questions.rejected_by` | send, accept, reject, late answer, sweep, settle each swept offer | three pieces of code settle a dead offer; checks before the transaction; a sweep of two statements, then one transaction per id | one accepted offer per session that ran; one open offer per waiting session; a lock on a teacher is backed by an offer; every dead offer gives back its student and teacher |
| Running sessions (`session.meter.service`, `session.end.service`, `session.review.service`, `session.autoEnd.job`, `session.state`) | `sessions`, `session_blocks`, `reviews`, the teacher's counters | extend, end, auto-end, no-show, review | two tabs extending one block; end, auto-end, no-show and extension at once; settlement depends on a room that arrives late | what is charged is what the blocks add up to; paid out once, in full; a closed session stays closed; it ends |
| Wallets (`wallet.service`, `wallet.topup.service`) | `wallets.balance`, `wallet_transactions` | charge, earning, refund, top-up | balance and ledger move together under a row lock | a wallet is its ledger and never negative |
| Teacher availability (`teacher.me.service`, `teacher.status.rules`, `presence.service`, `teacher.presence.repository`) | `teacher_profiles.status`, `last_seen_at` | PATCH of one's own status, offline on disconnect and logout, idle sweep | the status is written by five components, one of them unconditionally | ONLINE exactly when free |
| Presence and sockets (`sockets/*`, `presence.debounce`, `presence.autoAway.job`, `session.blockWarning.job`) | socket rooms, disconnect timers, in-memory warning sets | connect, disconnect grace timer, heartbeat, announce | timer against reconnect; announcements sent after the write they report | a connected teacher is not taken away; each warning once |
| Questions and classification (`question.intake.service`, `question.classify.service`, `classification.service`) | `questions`, `question_attachments` | intake, model call with timeout and fallback, student's override | a timer racing a late answer; check before an unguarded write | an offer is for the classification the student saw |
| Matching (`matching.*`) | a cached promise of averages | filter, score, list; sweeps before it refuses | cache shared by concurrent requests | never offers a teacher who refused or is busy |
| Video provider (`video.daily.service`, `session.video.service`) | rooms at the provider, `sessions.video_*` | create a room after activation, repair on read | an answer after the session closed, or none | a session without a room is refunded |
| Contract (nothing in the code; what the offers and sessions add up to) | per session: waiting, running, closed; money in, money out | open, collect, close | no handler sees the whole of it | one acceptance opens it, one settlement gives out exactly what it holds |
| The page (`client/src/api/client.js`, `stores/authStore.js`, `lib/socket.js`) | access token, calls in flight, shared refresh promise, socket | call, 401, rotate, replay, reconnect, log out | several requests and a refused handshake meet an expired token at once | one rotation; a replay only of what no handler saw; every call comes back |
| Session screen (`pages/student/Session.jsx`, `SessionRoom.jsx`, `useSessionState.js`) | what is shown, the row last read, the button that waits | hear a frame, read the row, press Extend or End | frames lost with the socket race answers that arrive in any order | leaves when the session ended; gets back into its room; says what is so |
| Offer modal (`components/offer/*`) | the offer shown, the button pressed | a frame raises it, every handshake replays it; accept, reject, run out | frames lost with the socket, replays and answers in any order | an offer that can be answered is shown, on its way, or known to be lost |
| Availability pill (`TeacherStatusToggle.jsx`) | the status shown, a PATCH and a GET in flight | press, read at every navigation, hear `teacher:status` | three writers of one value, none of them ordered | shows what is so once it has been told |
| List of teachers (`pages/student/ChooseTeacher.jsx`) | the list and the band it is for, loads in flight, a latch | load, change the band, choose a card | cards drawn with an older state than the latch; answers to an older band | one offer at a time; the list is for the URL's band |
| Teacher's forms (`pages/teacher/Profile.jsx`, `Onboarding.jsx`) | a record and a draft each, the stepper's marker in `localStorage` | edit, save, step, leave, resume | two pages with a copy each of one record; an answer that renews the copy and not the draft | sends only what its teacher typed; a step is passed by a save |
| Wallet page (`pages/student/Wallet.jsx`) | balance, a page of the ledger, their errors | read, top up, turn the page, retry, hear `wallet:updated` | two writers of one balance, reads by effect and by hand | shows the latest balance that reached it, and the page asked for |
| Home pages, views, history, notifications, topics, public profiles, HTTP shell | none | reads, fire-and-forget mails, validation | little | |

Interaction: offers, sessions, wallets and availability share the tables and meet
inside transactions; the jobs and the match list call the offers' repository
functions; presence and sockets are told of changes after the commit and write only
`teacher_profiles.status`; the client sees all of it through views.

The hazards, each at its line, with the properties that cover it, are in
`PROJECT.json` under `hazards`; one without a property says there why.

## 2. The modules

    Tables              the tables; the repository functions as operators
      Requests          what a handler or the tick has read and not yet acted on
        OfferHandlers   offers: send, accept, reject, expire
        SessionHandlers sessions: extend, end, no-show, review, room, top-up
          TutorNow      both together, availability, clock, restarts; Spec, FairSpec, TypeOK
            Promises    the properties; the refinements of Contract and Desk
              Reconcile         the queries of scripts/reconcile.mjs
                MCTutorNow      values for TLC
              TutorNowProofs    TypeInvariant; the theorems about sessions
                MoneyProofs     blocks, wallets, credits; TutorNow implements Contract
                LockProofs      offers, locks, who is paid; TutorNow implements Desk
                  CounterProofs the counters; with MoneyProofs, Reconcile
    Contract            a session as an escrow
    Desk                a teacher's time as a desk with one chair
    SumTheorems         sums over finite sets, for MoneyProofs and CounterProofs
    Intake              a question from its photographs to its offer
      Matching          the match list and the cached averages
        MCMatching      values for TLC
        AskingProofs    theorems about both
    Page                token, interceptor, rotation, socket of one browser page
      SessionScreen     the student's session screen on that page
    OfferModal          the offer's modal in a teacher's tab
    StatusPill          the availability control in a teacher's header
    MatchList           the student's list of teachers
      Browser           SessionScreen, OfferModal, StatusPill, MatchList: one at a time
        ScreenProofs    theorems about the four screens
    Presence            sockets, timers, last_seen_at, the idle sweep
    TeacherForms        the profile form and the onboarding stepper over one record
    WalletPage          the student's wallet
      OpenTabs          Presence, TeacherForms, WalletPage: one at a time
        TabProofs       theorems about the three

**Tables.** One variable per table, as a function from key to row: `session`,
`offer`, `wallet`, `blocks`, `review`, `teacher` (the status column) and `tally` (the
counters); `ledger` is the sum of `wallet_transactions` by session and type, `topup`
the sum of the TOPUP rows by user. A repository function keeps its name. An
`updateMany` whose caller rolls back on `count === 0` is a guard (`markOfferResponded`
in an accept); one whose caller carries on is an `IF` (`setSessionPending`,
`releaseTeacherLock`, `releaseTeacherAfterSession`, whose counters move even when the
status does not).

**Requests.** `req[p]` is what process `p` has in hand across an `await`: the row it
looked at before its transaction, the ids a sweep collected, the room it waits for.
A request is one step up to its transaction (`BeginSendOffer`, `BeginAccept`, ...)
and one step for the transaction. A transaction is one step because each one first
locks the row its decision rests on, or decides by conditional writes only, and
rolls back as a whole; Postgres runs at READ COMMITTED, where a conditional write
re-evaluates its `where` after waiting for the row. The places where the code is
*not* protected that way are separate steps: the two statements of
`expirePendingOffersBefore` and its re-read, the settlement of each swept offer, the
status PATCH between its read and its write, the extension between its first read of
`ends_at` and its transaction.

`EndSession`, `ReportNoShow`, `SubmitReview` and `TopUp` are a single step: what
they do before their transaction reads nothing a later decision depends on, except
the instant `endedAt`, which is taken before the wait for the session's lock. It is
therefore any instant up to `Lag` ticks old (`Instants`).

**OfferHandlers, SessionHandlers, TutorNow.** One action per handler or job stage;
`PROJECT.json` "map" gives the lines of each. `Fail(h)` is any error answer: a guard
that failed, the database, the video provider. Nothing is written then. `SettleFails`
and `AutoEndFails` are the two places where the code catches an error and continues
with the next id. `Restart` empties `req` and keeps the tables.

**Contract.** What a session is to the two who pay and are paid: `Start` by one
acceptance, `Extend`, and `Close` with a payout of exactly what was collected, to
the teacher and the platform or back to the student. `Promises!Escrow` instantiates it
with expressions of `TutorNow` (`INSTANCE ... WITH`: the phase from the status, the
money from the ledger), and `KeepsTheContract` is its specification, checked by the
run `Meter` and proved in `MoneyProofs`.

**Desk.** What a teacher's time is to the students who ask for it: a free desk is asked
for by one session, the session it serves is the one that asked, and it is freed together
with that session. `Promises!Desks` reads the desk off the `status` column and who sits
there off the `sessions` rows, so that `KeepsTheDesks` says of two tables, written
by the handlers and by both jobs, that they move together. It is stated for the `Regulars`, the
teachers who do not edit their own status, and as `stray' \/ [Desks!Next]_(...)`: from
the step in which a sweep strays (finding 2) nothing is asked any more.

**Reconcile.** The five queries of `scripts/reconcile.mjs`, each as the set of rows it
would return, over the rows of `Tables`: `wrongWallets`, `wrongCharges`, `wrongSplits`,
`wrongLedgers`, `leftInSession`. The script is meant for a database at rest;
`BooksBalance` asks all five at every instant, with the conservation of credits
(`NoCreditIsLost`) that no query of the script states. The fifth is asked until a sweep
strays: once one has sent a session back to PENDING under a live offer, a second teacher
can be asked for it, and the column of one of the two outlives the session.

**Presence.** The marketplace knows presence as one action that takes an ONLINE
teacher OFFLINE; this module is about when. Each teacher's open sockets, the grace
timer of each disconnect, the debounced `last_seen_at`, the writes that were issued and
have not committed, the warning memory and the stages of the cron job are variables;
offers and sessions are the moves they make on the status. The job's re-read for its
announcement changes nothing and is not a step.

**Intake, Matching.** `post[q]` is the POST of one question from the check of its
photographs through its transaction, the model call, the race against the deadline and
the write of the classification; `patch[q]` is the student's override between its
check and its write; the offer is one step. `look[m]` is one GET of a match list: the
first read, the sweep, the second read, the pool, the averages. `cache` holds a
promise, as the code does: the request that started the aggregate resumes first when
it settles, and evicts it when it failed.

**Page, SessionScreen.** JavaScript runs one continuation at a time, so a step is one
continuation: the settling of the shared refresh resumes everybody who awaits it. Calls
leave with the token they carried, are answered by the server in one step and
arrive in another, in any order. The screen adds the server as far as it can tell it
apart (the offer, one session row, the session's room) and the frames on the socket, in
order and lost with the connection.

**OfferModal, StatusPill, MatchList.** Each has the server as far as its screen can tell
it apart: the teacher's status and the offers' rows with the handlers in one step
(their races are `TutorNow`'s), but the reads an announcement or a replay makes
after the commit are steps of their own. A call is sent, answered and landed in three
steps, frames arrive in order, a dropped socket loses them. The pill's status is moved by
offers, sessions, the idle sweep and the PATCH of the teacher's other tab as well.

`MatchList` keeps what the cards were last drawn with apart from the state, since a press
reads the former and the latch the latter; `Loads` bounds the loads in flight. An offer is
sent, taken or refused by the server, and its answer lands or is lost, in steps of their
own. The server makes one only for a session that is PENDING (`offerOut`, which the life of
an offer and the student's other tabs also move). A lost answer (`AnswerLost`) reopens the
latch whatever the server has done or will do: a call not yet taken stays with the server
(`adrift`). Which card is pressed makes no difference and is left out, as is its online
dot: a frame moves it, and the next load replaces it.

**TeacherForms.** `profile` is the row both pages edit; `form` and `answers` are each
page's copy. A body is a function from the fields it names, as `changedFields` builds it, or
the one field of a step. The status is left out: of a status switch only its answer
matters, because it renews the record. A call whose page has gone, or gave up, may
still arrive (`adrift`).

**WalletPage.** A balance is told apart by the number of ledger rows it sums, which is
enough to say which of two is older. A POST that the tab has given up on and that the
server takes later is to this tab a top-up of another one.

**Browser, OpenTabs.** Nothing passes between these components but the server, so a
behaviour is a behaviour of one of them with the others at rest; the composition says
which one (`screen`, `about`). `EachScreenIsItself` and `EachTabIsItself` are the
theorems that make this sound: the composition implies each component's own
specification.

**Data left out.** Time is in ticks; block length, offer lifetime, grace and the
no-show window are constants. Users, sessions, offers, questions and photographs are
model values. A teacher's
price does not change during a behaviour, so the model does not show what a price
change between the match list and the offer does. The commission rate is any member
of `FeePercents`: which one applies depends on seniority and hour
(`server/src/utils/commission.js`), `commission` itself is the code's rounding.
Rooms are a Boolean, stars are present or absent (they are optional in the review).
Emitted events, mails and logs are left out of the server's modules.

**History variables.** `faults` counts settlements that failed, auto-ends that failed
and restarts, and is bounded by `MaxFaults`. `stray` records that some sweep took
over an offer it had not expired itself, the defect of finding 2 below. Properties
which that defect breaks are stated under `~stray`, those which an unsettled dead offer
breaks under `faults = 0` (`Undisturbed` is both), so that they still say everything
about the other behaviours; the theorems about sessions and money need neither.
`Presence` remembers when a teacher last did something, when their last socket went,
and whose departure found an offer, a session or a fault; `Intake` which questions got
the fallback (`overruled`) and which requests were past their check when the
offer went out (`ahead`); `Matching` what an eviction took that was not its own;
`SessionScreen` counts the presses no block was charged for (`unserved`). The other
screens remember what they could not have known or had taken from them, so that their
properties can say everything else: the presses whose offer was made and whose answer was
not lost (`made`), the offers dropped or passed over by the modal
(`closed`), the calls answered before the pill's last news (`old`) and the news it missed
(`behind`), a list or a balance that an older answer replaced (`overtaken`), a page of the
ledger begun by hand (`strayed`), rows no frame tells of (`untold`), the fields a teacher
touched (`typed`) or an answer moved under the draft (`moved`), and a complete
record the stepper found without its marker (`unmarked`).

**Patchers.** A teacher who edits their own status breaks `LockBacked` and
`KeepsTheDesks` in the way of finding 1; those two are stated for the teachers who
do not. All other properties are checked with teachers who do (run `Races`).

## 3. What the runs check

Properties of the marketplace are in `Promises` (`TypeOK` in `TutorNow`, `BooksBalance` in
`Reconcile`), the others in the module of their component, each with a comment. Some
say two things that one reader of the tables relies on together: `StatusEdges` also
that an offer is answered once, from PENDING, with its parties and deadline as sent;
`PaysWhoAccepted` also that the session starts before that offer's deadline;
`CountersMatch` also that the ratings a teacher's average is over are the reviews with stars,
and that a question remembers exactly the teachers who rejected it.

| Run | Instance | Shows |
|---|---|---|
| `Races` | 1 session, 2 teachers, 2 offers, 2 handlers, both sweeping through match lists and both teachers patching, 1 fault; 2 ticks, offers live for 1 | `AcceptedOnce`, `OneOpenOffer`, `PaysWhoAccepted`, `StatusEdges` |
| `Contention` | 2 sessions of one student who can pay for both, 1 teacher, 2 offers, 2 handlers, both may serve match lists, 1 fault; 2 ticks, offers live for 1; no extensions, no top-ups | `LockBacked`, `CountersMatch`, `KeepsTheDesks` |
| `Meter` | 1 session, 2 handlers, cap 40 at 10 a block, wallets of 30 that the student and the teacher may each top up by 20, rates 0 and 15, lag 1; 5 ticks | `TypeOK`, `MeterPaid`, `SessionReconciles`, `BooksBalance`, `ClosedIsFinal`, `KeepsTheContract` |
| `Liveness` | 1 session, 2 offers, 1 handler that may serve match lists, 1 fault; 4 ticks; `FairSpec` | `OffersResolve`, `LocksRelease`, `SessionsEnd` |
| `Presence` | module `OpenTabs`, `TabsSpec`. Presence: 1 teacher with 2 tabs, idle limit 4, warning at 3, grace 1; 6 ticks, 5 moves, 1 fault. Forms: 1 leaf topic and 1 whole subject, 1 level, 2 prices, 2 moves, 1 fault. Wallet: 2 moves, 2 faults | `WarnedOncePerBeat`, `DepartureNoticed`, `SweepTakesTheIdle`, `IdleIsTakenAway`; `OnlyTypedIsSent`, `StepsAreEarned`; `WalletIsCurrent` |
| `Asking` | 2 questions, 1 photograph both may claim, 1 leaf, 1 teacher, 2 match lists, 1 fault | `ImagesStayHome`, `LateAnswersAreDropped`, `RetopicsOnlyInFlight`, `ListKnowsItsRejections`, `OneAggregate`, `FailuresAreEvicted`, `EveryRequestAnswers` |
| `Screen` | module `Browser`, `BrowserSpec`. Session screen: 2 calls in flight, 1 expiry of the access token, 1 lost call, failed join or dead cookie, 3 blocks, 2 moves. Modal: 2 offers, 2 moves, 1 lost call. Pill: 3 moves, 1 lost call. List: 2 bands, 3 loads, 3 moves | `OneRotation`, `UnauthorizedTwice`, `OnePressOneBlock`, `RequestsSettle`, `EndFrameLeadsAway`, `RoomIsRejoined`; `OfferReachesItsTeacher`; `HeaderIsCurrent`; `OneOfferAtATime`, `ListIsForTheUrl` |
| `TwoOffers`, `Overlap`, `Abandoned`, `LateExtension`, `Awaiting` | as small as the behaviour allows | findings 1 to 5 |

**Bounds.** `MaxNow` bounds the clock, `MaxFaults` the faults, `MaxTopUp` what one
user tops up, `Lag` the wait for a lock; `Offers` is the pool new rows come from;
`MaxMoves`, `MaxRequests`, `MaxExpiries`, `ModalMoves`, `PillMoves`, `ListMoves`,
`FormMoves` and `WalletMoves` bound what people and browsers begin, and the constants
that end in `Faults` the calls lost.
Two handlers are what every race here needs: the tick is a third process. In `Races`
the clock passes the deadline of the first offer while a second one can still be
sent and live (sent at 1, dead at 2). In `Contention` both sessions can go through
the one teacher, one after the other, and a wallet of 60 pays both openings of 20; the one
fault is a settlement that fails, an ending that fails or a restart. Its cap of 20 allows
no extension, and it has no package to top up with (the set is empty wherever `MaxTopUp`
would leave no room): both move money only, and none of its three properties is about
money. In `Meter` the opening block of 2 at a price of 10 leaves 10 in the wallet, one
extension; a top-up brings three within reach, of which the cap of 40 allows two, so each
limit is met, before and after a top-up. The teacher may top up too, as the route asks
for no role. The session can be extended, over-run its grace and be auto-ended within 5
ticks. `Meter` has one session; that the books balance over any number of them, which
share wallets, rests on `TheBooksBalance` and `CreditsAreConserved` (section 5), since two
sessions that extend and two people who top up are more states than a run can visit. In `Liveness` properties about a
deadline are asked of deadlines before `MaxNow` (`DueInTime`), since the model's clock
stops there; the offer sent at the start expires, the second one too, and the session
begun last still ends. In `Presence` the clock runs past the idle limit after a
beat at the first instants, and five moves are two tabs opened, both closed and one
more. In `Asking` two questions and two lists are the pairs that compete for a
photograph and for the cache. In `Screen` two slots are the two calls that meet one
rotation, with the handshake as a third party; the modal's two offers are the one that
stands and the one that finds it standing; three loads are two of the effect and one
by hand, and three moves are a press whose answer is lost, another, and a second press of
the same tick. In `Presence` two form moves and one fault are an edit, a switch or a page left,
and the call that is lost between them; two wallet moves are money that moves and a
press, a page or a dropped socket against it.

Safety runs over `MCTutorNow` use symmetry over handlers, teachers, sessions and
offers, which are interchangeable there (all constants are the same for each). The runs
with a temporal property and `Abandoned` use none. `CHECK_DEADLOCK FALSE` is set
throughout: once the clock has reached `MaxNow`, all offers are used and the sessions
are closed, or all moves are made, nothing more can happen.

**Fairness.** `TutorNow!FairSpec` assumes that node-cron keeps ticking, without overlap
(`server/src/jobs/index.js` schedules with `noOverlap`): `WF(CronStep)`; that time passes:
`WF(Tick)`; and that a request that was begun ends, in its commit or in an error:
`WF(HandlerStep(h))`. Fairness never makes a commit happen rather than an error, never
makes anybody begin a request, and never makes a handler's transaction win a race.
For the two properties about offers a failed settlement is an excuse (`faults > 0`),
since finding 3 is that nothing repairs it; `SessionsEnd` needs no such excuse, the
next tick's query finds the session again. `Presence!FairSpec`: the clock, the
writes and timers of the process, the cron job. `Matching!Spec`: the event loop goes on
with what it has (`Work`); the vendor's answer is nobody's duty, since the deadline
stands in for it. `SessionScreen!FairSpec`: frames and answers arrive or time out
(axios has a timeout), Socket.IO reconnects and a handshake is answered; nobody has to
press anything and no token has to expire. `Browser!BrowserSpec` and `OpenTabs!TabsSpec`
assume the session screen's and presence's fairness and nothing of the others: of those
only safety is asked, and the assumption only leaves behaviours out in which the screen
that is fair would have to move while it rests.

## 4. Where the code and its comments disagree

Each is a run in which TLC finds the quoted statement violated; `PROJECT.json`
"findings" quotes the lines.

1. **`TwoOffers`.** A teacher with an open offer may set OFFLINE and then ONLINE
   (`teacher.status.rules.js` refuses neither), and a second student's offer then
   locks them again: two PENDING offers, one teacher.
2. **`Overlap`.** A sweep whose update matches fewer rows than its query re-reads every
   row of its list that is EXPIRED now, including those another sweep expired and
   settled. Its second settlement names the session and the teacher and not the
   offer, so it can send a session back to PENDING under its next, live offer.
3. **`Abandoned`.** When settling a swept offer fails, the comment says a late answer
   recovers it. The late answer's sweep matches PENDING rows only; the offer is
   EXPIRED by then, nothing finds it again, and the session stays at OFFER_SENT.
4. **`LateExtension`.** The tick ends a session from the list it read, after
   re-checking under the lock that it is ACTIVE and not that it is still due: an
   extension that was charged in between is ended with `no_extension`.
5. **`Awaiting`.** The awaiting screen hears of an acceptance by one frame only, and
   nothing replays it. If the socket is down at that moment the countdown resolves the
   screen, which says that the offer is over while the session runs and is charged.

Seen while reading, not the subject of a run:

- Accepting reads the deadline before its transaction only. `offer.repository.js`
  (lines 150-156) speaks of an assertion under the lock, and none of the assertions
  there is about the deadline. An accept may commit after the deadline; it still
  activates the session at most once (`AcceptedOnce`), from an instant before it
  (`PaysWhoAccepted`).
- A room that arrives after its session was closed and refunded for want of one is
  stored all the same (`AttachSessionVideo` has no guard on the status).
- The no-show window ends at `<=` and the early-leaving window at `<`
  (`session.end.service.js`): at exactly its length the student may report a no-show
  and may no longer leave for free.
- The student's override of a classification checks that the session is PENDING and
  then writes without that condition, and the classification's own write
  (`question.repository.js`, lines 147-153) is unconditional: a late one replaces an
  override, or the topic of a question whose offer is out.
- `presence.service.js` (lines 107-108) calls availability "a tab that is open and a
  teacher who said yes". A teacher whose last socket goes while they are OFFER_LOCKED is
  left alone, and the expiry of the offer puts them ONLINE with no tab, until the idle
  sweep. A teacher who reconnects between the socket count and the write is OFFLINE
  with a tab open.
- Two disconnects schedule two checks "whose answer is the same"
  (`handlers.presence.js`, lines 85-86); the first timer may take the teacher offline
  inside the second disconnect's grace.
- A client that gives up on its POST of a question after the axios timeout and tries
  again posts a second question, or is told that its photographs cannot be attached.
- `reload` of `useSessionState` closes over the row of the first render: a room that was
  mounted without one is blanked by a failed refetch, against the comment at 116-118.
- A rotation that fails for want of a network logs the person out, as one whose
  cookie is rejected (`client.js`, line 138); a 401 that arrives after the shared rotation
  has settled starts another one.
- The end of a session frees its teacher (`releaseTeacherAfterSession`) and announces no
  `teacher:status`, which `events.js` (lines 149-150) and `Dashboard.jsx` (line 114) speak of:
  the pill says so at the next navigation.
- `OfferHost.jsx` (lines 51-63) drops an offer that finds another one on the screen, with
  the message that the atomic lock did not hold. A decline whose answer is slow, or
  was made in another tab, does the same; and the answer of the first offer, when it
  comes, closes the modal of the next (`clearOffer` names no offer). With two open offers
  (finding 1) the replay finds one of them (`findFirst`).
- An answer to the pill's PATCH or GET that is older than the last frame overwrites it,
  and a reconnect rereads nothing.
- In `ChooseTeacher.jsx` a load begun by hand is never cancelled, and the reload after a
  failed offer is for the band of its press.
- In the same file every failure of the POST of an offer reopens the cards, also the
  network error or the client's timeout (`client.js`, lines 34 and 99) that hides an offer
  the server has made. What then keeps a second one from being sent is the server's check
  alone (SESSION_NOT_ACTIVE, which takes the student to the awaiting screen), and only
  while the first is open.
- In `Profile.jsx` the answer to the status switch renews the record under a draft that
  was not touched: what another tab saved in between becomes a change of this one, and
  the next Save puts the old value back, against "Only what actually changed". Its blocker
  is `dirty && !saving`, and `saving` is shared with the switch, so leaving during a status
  call discards edits without a question.
- `Onboarding.jsx` sends its topics unfiltered: a seeded teacher whose record has whole
  subjects is refused at the first step, and nothing on the screen can repair it
  (`Profile.jsx`, lines 111-124, filters them for this reason). Without its marker it
  resumes a record with topics at the summary, where its comment speaks of one step.
- `Wallet.jsx` (lines 31-32) says of the answer and the frame that "whichever lands last
  is still right". Each carries a number of its own age: a top-up's frame from another tab
  may be newer than the answer that lands after it. Charges and refunds announce
  nothing. A ledger read begun by hand is never cancelled.

## 5. What is proved

Eight modules hold the theorems; TLAPS checks every leaf. Those about the marketplace
hold for any sets of
students, teachers, sessions, offers and handlers, any prices, caps, windows and rates,
any number of faults, with and without `stray` unless the property says otherwise, and
for any bound on the clock, from the named assumptions on the constants in `Tables`,
`Requests`, `SessionHandlers` and `TutorNow` (`PartiesAssumption`, `MoneyAssumption`,
`ClockAssumption`, `NullAssumption`, `ProcessAssumption`, `SessionAssumption`,
`HorizonAssumption`, `RowsAssumption`). `NullAssumption` says that no offer row is the null
value; `MoneyAssumption` has every rate between 0 and 100 percent; `RowsAssumption` that
a table has finitely many users and sessions, without which the sums over them mean
nothing.

- **`TypeInvariant`**: `Spec => []TypeOK`. `TypeOK` is inductive as it stands. What is
  not obvious in it is that wallets stay in `Nat` (a charge is guarded by the balance)
  and that a settlement's fee, earning and refund do (`CommissionBounds`: a commission
  of at most 100 percent, rounded half up, is at most the gross; `SettlesInFull`). Each
  repository function has its typing lemma (`SessionWrites`, `OfferWrites`,
  `TeacherWrites`, `MoneyWrites`), and `InHand` reads the fields of a request off its
  `op`.
- **`StatusMovesAlongTheTable`** (`StatusEdges`), **`AcceptsOnce`** (`AcceptedOnce`),
  **`ClosedStaysClosed`** (`ClosedIsFinal`), **`SessionsReconcile`**
  (`SessionReconciles`). Seen from one session, every step of the marketplace is
  `Routine`, `Activates`, `Extends` or `Settles`: lemma `Steps`, the bulk of the work,
  by one lemma per kind of action. The theorems then look at those four kinds only.
  That an offer is answered once (`OffersAreAnsweredOnce`) is read off the actions, as
  each answer is a conditional write. `AcceptedOnce` is inductive given `TypeOK`. `SessionReconciles` is not: that an
  activation charges *from zero* and a settlement pays out *on top of nothing* needs
  `Unsettled`, that before a session is activated, and while it runs, nothing has been
  charged, paid or refunded beyond what it should. `ClosedIsFinal` and `StatusEdges`
  are read off the classification with `TypeOK`.
- **`ImplementsTheContract`** (`KeepsTheContract`): initial states map to initial
  states, and each of the four kinds of step is a step of the escrow or a stutter; a
  settlement needs `Unsettled` to be a `Close` of exactly what was collected.
- **`TheMeterIsPaid`** (`MeterPaid`): the charge is the sum of the session's rows, which
  follows from an invariant over the rows (`Metered`): each row is the
  next one, priced at the session's own price, and their number, the charge and the
  clock determine one another.
- **`CreditsAreConserved`** (`NoCreditIsLost`), on lemma `WalletsAreTheirLedgers`: each
  wallet is the sum of its ledger rows, because `applyWalletDelta` writes the balance and
  the row together and because a session's teacher no longer changes once it may have
  paid them (`Unsettled` again: nothing is earned before a session is over); all wallets
  and all that sessions hold are then what was topped up. Both are sums over sets of any
  finite size; anybody, student or teacher, may top up. `SumTheorems` has what they need: a sum is determined by its terms, takes
  out one term, moves by what one term moves, splits over disjoint sets and adds
  termwise. The library's induction theorems take an operator as a parameter; the facts
  are proved by a minimal counterexample instead, a least cardinality at which a sum is
  not what it should be.
- **`PaysTheTeacherWhoAccepted`**, **`OneOfferIsOpen`**, **`LocksAreBacked`**,
  **`InSessionsAreBacked`**: what is true of the tables holds because of what the
  requests still have in hand. `Holding` ties every accepted or open offer to its
  session and teacher, and every request to the row it looked at; `Locks` says whose
  lock each OFFER_LOCKED teacher carries, the offers a sweep has marked and not yet
  settled included. Both are conjunctions of named parts and are preserved action by
  action. The deadline half of the first (`StartsInTime`) has an invariant over the
  requests (`Timely`): an acceptance still in hand began before the deadline of the offer it
  names, neither changes while it waits, and it is the instant it began at that the commit
  writes.
- **`ImplementsTheDesks`** (`KeepsTheDesks`): every step either strays or moves one desk,
  on the invariant that a session that waits is at the desk of exactly the teacher its open
  offer asks (`Awaited`), which `Holding` and `Locks` give. For the teachers who do patch,
  `NobodyIsLeftInSession` has its own invariant (`Seated`), as nothing about locks is true
  of them.
- **`OneOfferIsPending`**, **`SweepsHarmOnlyAstray`**: what remains true of the comments
  that findings 1 and 2 refute. A teacher who does not edit their own status has at most
  one PENDING offer until a sweep strays; and no session goes back to PENDING under an
  offer that can still be answered except in or after a step in which a sweep strays,
  or once a fault has left an offer unsettled.
- **`CountersAreTheRows`** (`CountersMatch`): each counter is the cardinality of a set
  of rows; the set gains one element exactly where the counter moves (`Counters`, with
  the finite-set theorems). `RatingsAreCounted` does the same for the reviews with stars,
  whose rows name their teacher for good (`Ratings`), and `RejectionsAreRemembered` is the
  part about `rejected_by`.
- **`TheBooksBalance`** (`BooksBalance`): the five queries of `reconcile.mjs` return no row
  in any reachable state, from the theorems above: the first from
  `WalletsAreTheirLedgers`, the second from `TheMeterIsPaid`, the third and the fourth
  from `SessionsReconcile`, the fifth from `NobodyIsLeftInSession`.

`AskingProofs` (from `NamesAssumption`, `IntakeAssumption`, `MatchingAssumption`) has
one invariant per half. `QuestionInv` ties each POST to the photographs it found and the
question it made, and an answer of the model to the deadline it beat: from it follow
`ImagesStay`, `AttachmentsStay`, `LateAnswersDrop` and `RetopicsAreInFlight`. `ListInv` ties the
cached promise to the request that started the aggregate, since what keeps a failed
promise out of the cache is that its owner is still to evict it: `OneQuery`, `FailuresGo`,
`ListsAreInformed`.

`ScreenProofs` (from `PageAssumption`, `ModalAssumption`, `ListAssumption`; any numbers of
calls, offers, bands, moves and loads) proves seven properties by one invariant per screen: a
rotation in flight is the one everybody awaits (`OneRotationAtATime`,
`UnauthorizedOnlyTwice`); each block charged was pressed (`OneBlockPerPress`); a send the
page waits for holds the latch and is the only one, so that of the presses whose answers
were not lost at most one made an offer, and a load that is not cancelled is for the URL's band
(`OneOfferFromTheList`, `TheListIsTheUrls`); the news still on its way ends with what is
so, and a call not yet outdated carries it (`TheHeaderIsCurrent`); an open offer is shown,
announced, replayed or on the wire, in an order that ends with it
(`TheOfferReachesItsTeacher`).

`TabProofs` (from `PresenceAssumption`) does the same for the other three: a departure
is watched by its timer or by the write that became of it (`DeparturesAreWatched`), and the column is as young as the last committed beat
(`BeatsMoveForward`, `WarningsAreRemembered`, `ColumnIsUpToDate`); a draft differs from its
record only where it was typed in or moved (`EditsAreTheirs`); a step is passed only by a
save (`Earned`); no balance on its way is ahead of the ledger, and what landed last is
accounted for (`NoneAhead`, `Accounted`, `LastLanded`, `Listed`).

These theorems are about each component's own specification (`Spec`, `ModalSpec`, `FormSpec`,
...); the runs check the compositions, and `EachScreenIsItself` and
`EachTabIsItself` carry the one to the other.

**Only model-checked.** Liveness (`OffersResolve`, `LocksRelease`, `SessionsEnd`,
`IdleIsTakenAway`, `EveryRequestAnswers`, `RequestsSettle`, `EndFrameLeadsAway`,
`RoomIsRejoined`), which rests on fairness, and so on ENABLED, that the prover cannot
reach. Every other property of a passing run is a theorem.

## 6. Each property and a bug that breaks it

Every property of a passing run has a mutant in `PROJECT.json`: a changed definition
under which TLC finds it violated. The changes are plausible edits of the code: a
conditional write made unconditional (`markOfferResponded`, `setSessionPending`,
`setSessionOfferSent`, `lockTeacherForOffer`), the `ends_at` or the status dropped
from an extension's `where`, the balance check dropped, a commission kept on a
refunded session, two counter arguments swapped, the lock forgotten when an offer is
settled, a sweep that only finds what died on the very tick, a warning memory that
forgets, a sweep's update without the condition of its read, an eviction that takes
whatever is cached, an ending that forgets its teacher, a lock that takes a busy one, a match
list that keeps its first row, an interceptor that
replays every failure, a rotation per caller, an expired frame that closes whichever
modal is open, an announcement forgotten, a latch that reads the drawn state, an effect
whose cleanup cancels nothing, a save that renews the record and not the draft, a
stepper that advances whatever the answer, a top-up that does not reread the first page
of the ledger when the tab is there already. The changed forms stand beside the
originals, with the original's name and a suffix.

## 7. Not modelled

- Notifications and mails are sent after the commit, and nothing reads their outcome.
- Topics, public profiles, price suggestions, the session's view and its history, the
  teacher's earnings and the home pages read once and render what they read. The
  student's home page shows the wallet's balance with two of its three writers.
- Validation, rate limiting, logging and HTTP shapes have no bearing on the promises,
  but for the refusal of topics in `TeacherForms`. Registration, hashing and the
  signing of tokens are pure.
- The ranking of a match list is a pure function with weights; the model allows any order.
- On the client: the question form and its photographs before the POST, the online dot
  of a card, the header's onboarding notice, and what a screen draws.
- The seed is data. The scripts under `scripts` are drills, benchmarks and a
  reconciliation against a running server. The five queries of `reconcile.mjs` are modelled
  in `Reconcile`; its baseline and the difference to it, and the other scripts, exercise
  what the modules describe.
- The coverage of the source is therefore that of its state: most of the remaining
  lines are markup, styles, prose, queries that only read, seeds and drills.

## 8. The plan

Done, in the order of importance: the marketplace with its jobs and its money, presence,
questions and matching, the page, the escrow it implements, the client's screens that keep
state, and the proofs of all their safety properties.

What would be next, each smaller than what is there:

1. `sessionView`'s effective offer status and the teacher's dashboard, which draws from
   `teacher:status` and from its own read: the pill's invariants should carry over.
2. The question form: a POST that times out and is tried again, with the photographs
   already claimed (`Intake` has the server's half).
3. The pages that turn (history, earnings, reviews): `MatchList`'s cancelled loads
   without its latch.
4. The score of a match as a function over bounded inputs, against its description.
5. `Presence` as an implementation of what the marketplace assumes of it: one action that
   takes an ONLINE teacher OFFLINE.
