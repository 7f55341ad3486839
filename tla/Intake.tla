------------------------------- MODULE Intake -------------------------------
(***************************************************************************)
(* How a question enters: its photographs, the transaction that commits it *)
(* with its PENDING session, the model that classifies it under a          *)
(* deadline, and the student who overrules the model.                      *)
(*                                                                         *)
(* `post[q]` is the POST /questions that creates question q: every value   *)
(* of `at` is an await of createAndClassifyQuestion.  The offer that goes  *)
(* out on the question is the marketplace's (module TutorNow); here it is  *)
(* the two moves it makes on the session's status.                         *)
(***************************************************************************)
EXTENDS Integers, FiniteSets

CONSTANTS
  Questions, Images,
  Leaves,         \* the subtopics of the seeded taxonomy
  Unclassified,   \* UNCLASSIFIED_TOPIC_ID, the sentinel topic
  Null,           \* SQL NULL
  Teachers,       \* those an offer may go to
  MaxRequests,    \* bound on the requests that students make
  MaxIntakeFaults \* bound on failed calls and restarts

ASSUME IntakeAssumption ==
  /\ {MaxRequests, MaxIntakeFaults} \subseteq Nat
  /\ Unclassified \notin Leaves
  /\ Null \notin Leaves \cup Questions \cup {Unclassified}

\* A name is not one of the values the columns and the race hold beside names.
ASSUME NamesAssumption ==
  /\ "absent" \notin Questions
  /\ {"unusable", "timeout"} \cap Leaves = {}
  /\ Null \notin {"absent", "PENDING", "OFFER_SENT", "unusable", "timeout"}
  /\ Null \notin [topic : Leaves \cup {Unclassified, Null}, ok : BOOLEAN]

VARIABLES
  question,   \* questions: topic and classification_ok; Null is no row
  status,     \* sessions.status of the question's session
  rejectedBy, \* questions.rejected_by
  bound,      \* question_attachments.question_id; "absent" is no row
  post,       \* where each POST /questions is
  race,       \* callWithTimeout: what its race settled with, Null while it runs
  call,       \* the model call itself, which outlives the race
  patch,      \* PATCH /questions/:id/classification between its check and its write
  requests,   \* how many requests students have made
  mishaps,    \* how many faults there have been
  overruled,  \* history: the deadline passed before the model answered
  ahead       \* history: requests were already past their check when the offer was sent

rows    == <<question, status, rejectedBy, bound>>
memory  == <<post, race, call, patch>>
bounds  == <<requests, mishaps>>
intake  == <<rows, memory, bounds, overruled, ahead>>

Asked == [at |-> "new", images |-> {}, shown |-> {}, answer |-> Null]

InFlight == {"checked", "committed", "asking", "writing"}

IntakeInit ==
  /\ question = [q \in Questions |-> Null]
  /\ status = [q \in Questions |-> Null]
  /\ rejectedBy = [q \in Questions |-> {}]
  /\ bound = [i \in Images |-> "absent"]
  /\ post = [q \in Questions |-> Asked]
  /\ race = [q \in Questions |-> Null]
  /\ call = [q \in Questions |-> "none"]
  /\ patch = [q \in Questions |-> Null]
  /\ requests = 0 /\ mishaps = 0
  /\ overruled = {} /\ ahead = {}

Request == requests < MaxRequests /\ requests' = requests + 1
Fault   == mishaps < MaxIntakeFaults /\ mishaps' = mishaps + 1

-----------------------------------------------------------------------------
(* POST /questions/attachments: the row exists once Cloudinary has the file. *)
createQuestionAttachment(i) ==
  /\ bound[i] = "absent"
  /\ bound' = [bound EXCEPT ![i] = Null]
  /\ UNCHANGED <<question, status, rejectedBy, memory, bounds, overruled, ahead>>

findBindableAttachmentIds(images) == {i \in images : bound[i] = Null}

(* assertAttachmentsAreBindable, before anything is written. *)
CheckAttachments(q, images) ==
  /\ Request
  /\ post[q].at = "new"
  /\ post' = [post EXCEPT ![q] =
       [@ EXCEPT !.at = IF findBindableAttachmentIds(images) = images THEN "checked" ELSE "refused",
                 !.images = images]]
  /\ UNCHANGED <<rows, race, call, patch, mishaps, overruled, ahead>>

bindable_Unconditional(images) == images

(* The update's own WHERE, narrower than the check that ran before. *)
bindable(images) == findBindableAttachmentIds(images)

imagesForTheModel_OfTheRequest(q, mine) == post[q].images

(* Read from the rows just bound, not from the request. *)
imagesForTheModel(q, mine) == mine

(* One transaction: the question, its PENDING session, and the attachments
   that are still unbound. *)
createQuestionWithSession(q) ==
  /\ post[q].at = "checked"
  /\ question' = [question EXCEPT ![q] = [topic |-> Null, ok |-> FALSE]]
  /\ status' = [status EXCEPT ![q] = "PENDING"]
  /\ LET mine == bindable(post[q].images)
     IN  /\ bound' = [i \in Images |-> IF i \in mine THEN q ELSE bound[i]]
         /\ post' = [post EXCEPT ![q] =
              [@ EXCEPT !.at = "committed", !.images = imagesForTheModel(q, mine)]]
  /\ UNCHANGED <<rejectedBy, race, call, patch, bounds, overruled, ahead>>

-----------------------------------------------------------------------------
(* classification.service.js *)

Answer(topic, ok) == [topic |-> topic, ok |-> ok]

fallbackClassification_Null == Null

fallbackClassification == Answer(Unclassified, FALSE)

(* The taxonomy is read and the images fetched, those that come in time;
   then the model is asked. *)
AskTheModel(q, fetched) ==
  /\ post[q].at = "committed"
  /\ post' = [post EXCEPT ![q] = [@ EXCEPT !.at = "asking", !.shown = fetched]]
  /\ call' = [call EXCEPT ![q] = "running"]
  /\ UNCHANGED <<rows, race, patch, bounds, overruled, ahead>>

(* No key, no prompt, or no taxonomy: the fallback, without asking. *)
CannotAsk(q) ==
  /\ post[q].at = "committed"
  /\ post' = [post EXCEPT ![q] = [@ EXCEPT !.at = "writing", !.answer = fallbackClassification]]
  /\ UNCHANGED <<rows, race, call, patch, bounds, overruled, ahead>>

settle_Last(q, outcome) == outcome

(* A promise settles once. *)
settle(q, outcome) == IF race[q] = Null THEN outcome ELSE race[q]

(* The vendor answers, or throws: a leaf of the taxonomy with enough
   confidence, or "unusable" (an error, a bad shape, unknown ids). *)
ModelAnswers(q, outcome) ==
  /\ call[q] = "running"
  /\ call' = [call EXCEPT ![q] = "over"]
  /\ race' = [race EXCEPT ![q] = IF post[q].at = "asking" THEN settle(q, outcome) ELSE @]
  /\ UNCHANGED <<rows, post, patch, bounds, overruled, ahead>>

deadline_OfTheVendor(q) == call[q] = "over"

(* The timer of the race: it fires whatever the vendor does. *)
deadline(q) == post[q].at = "asking"

DeadlinePasses(q) ==
  /\ post[q].at = "asking"
  /\ deadline(q)
  /\ race[q] = Null
  /\ race' = [race EXCEPT ![q] = "timeout"]
  /\ overruled' = overruled \cup {q}
  /\ UNCHANGED <<rows, post, call, patch, bounds, ahead>>

ReadAnswer(q) ==
  /\ post[q].at = "asking"
  /\ race[q] # Null
  /\ post' = [post EXCEPT ![q] =
       [@ EXCEPT !.at = "writing",
                 !.answer = IF race[q] \in Leaves THEN Answer(race[q], TRUE)
                                                  ELSE fallbackClassification]]
  /\ race' = [race EXCEPT ![q] = Null]
  /\ UNCHANGED <<rows, call, patch, bounds, overruled, ahead>>

(* updateQuestionClassification has no condition but the id. *)
WriteClassification(q) ==
  /\ post[q].at = "writing"
  /\ question' = [question EXCEPT ![q] = post[q].answer]
  /\ post' = [post EXCEPT ![q] = [@ EXCEPT !.at = "answered", !.answer = Null]]
  /\ UNCHANGED <<status, rejectedBy, bound, race, call, patch, bounds, overruled, ahead>>

(* A database call of the handler fails: the caller gets a 500, and what is
   committed stays. *)
PostFails(q) ==
  /\ post[q].at \in {"checked", "writing"}
  /\ Fault
  /\ post' = [post EXCEPT ![q] = [@ EXCEPT !.at = "failed"]]
  /\ UNCHANGED <<rows, race, call, patch, requests, overruled, ahead>>

-----------------------------------------------------------------------------
(* question.classify.service.js *)

sessionIsPending_NotChecked(q) == TRUE

sessionIsPending(q) == status[q] = "PENDING"

(* The session is PENDING and the pair is in the taxonomy, both read before
   the write. *)
CheckOverride(q, leaf) ==
  /\ Request
  /\ question[q] # Null
  /\ sessionIsPending(q)
  /\ patch[q] = Null
  /\ patch' = [patch EXCEPT ![q] = leaf]
  /\ UNCHANGED <<rows, post, race, call, mishaps, overruled, ahead>>

WriteOverride(q) ==
  /\ patch[q] # Null
  /\ question' = [question EXCEPT ![q] = [@ EXCEPT !.topic = patch[q]]]
  /\ patch' = [patch EXCEPT ![q] = Null]
  /\ UNCHANGED <<status, rejectedBy, bound, post, race, call, bounds, overruled, ahead>>

-----------------------------------------------------------------------------
(* The moves an offer makes on the question and its session. *)
SendOffer(q) ==
  /\ Request
  /\ status[q] = "PENDING"
  /\ status' = [status EXCEPT ![q] = "OFFER_SENT"]
  /\ ahead' = IF patch[q] # Null \/ post[q].at \in InFlight THEN ahead \cup {q} ELSE ahead \ {q}
  /\ UNCHANGED <<question, rejectedBy, bound, memory, mishaps, overruled>>

(* Rejected, in one transaction; or expired, which rejects nobody. *)
OfferFails(q, rejecting) ==
  /\ status[q] = "OFFER_SENT"
  /\ status' = [status EXCEPT ![q] = "PENDING"]
  /\ rejectedBy' = [rejectedBy EXCEPT ![q] = @ \cup rejecting]
  /\ UNCHANGED <<question, bound, memory, bounds, overruled, ahead>>

(* The process dies: every request and every call in flight dies with it. *)
IntakeRestart ==
  /\ Fault
  /\ post' = [q \in Questions |->
                IF post[q].at \in InFlight THEN [post[q] EXCEPT !.at = "lost"] ELSE post[q]]
  /\ call' = [q \in Questions |-> "none"]
  /\ race' = [q \in Questions |-> Null]
  /\ patch' = [q \in Questions |-> Null]
  /\ UNCHANGED <<rows, requests, overruled, ahead>>

(* What the server does by itself once it has been asked. *)
Serve(q) ==
  \/ createQuestionWithSession(q)
  \/ \E fetched \in SUBSET post[q].images : AskTheModel(q, fetched)
  \/ CannotAsk(q)
  \/ DeadlinePasses(q)
  \/ ReadAnswer(q)
  \/ WriteClassification(q)

(* Every step but the restart, which takes the match lists with it. *)
IntakeStep ==
  \/ \E i \in Images : createQuestionAttachment(i)
  \/ \E q \in Questions :
       \/ \E images \in SUBSET Images : CheckAttachments(q, images)
       \/ Serve(q)
       \/ \E outcome \in Leaves \cup {"unusable"} : ModelAnswers(q, outcome)
       \/ PostFails(q)
       \/ \E leaf \in Leaves : CheckOverride(q, leaf)
       \/ WriteOverride(q)
       \/ SendOffer(q)
       \/ \E rejecting \in {{}} \cup {{t} : t \in Teachers} : OfferFails(q, rejecting)

-----------------------------------------------------------------------------
IntakeTypeOK ==
  /\ \A q \in Questions :
       /\ question[q] \in {Null} \cup [topic : Leaves \cup {Unclassified, Null}, ok : BOOLEAN]
       /\ status[q] \in {Null, "PENDING", "OFFER_SENT"}
       /\ (question[q] = Null) = (status[q] = Null)
       /\ post[q].at \in InFlight \cup {"new", "refused", "answered", "failed", "lost"}
       /\ post[q].shown \subseteq post[q].images
       /\ patch[q] \in {Null} \cup Leaves
       /\ rejectedBy[q] \subseteq Teachers
  /\ bound \in [Images -> {"absent", Null} \cup Questions]

(* The model is shown only photographs that belong to the question it is
   classifying.  Hazard: two questions posted with the same attachment both
   pass the check, and the second one binds nothing. *)
ImagesStayHome ==
  \A q \in Questions : post[q].shown \subseteq {i \in Images : bound[i] = q}

(* A photograph that belongs to a question never moves to another one. *)
AttachmentsBindOnce ==
  [][\A i \in Images : bound[i] \in Questions => bound'[i] = bound[i]]_intake

(* An answer that arrives after the deadline is never written over the
   fallback the student was already given. *)
LateAnswersAreDropped ==
  \A q \in overruled : question[q] # Null => ~question[q].ok

(* Once an offer is out, its teacher "has read a brief; re-topicing underneath
   them is a different feature": what may still move the topic is a request
   that was past its check before the offer was sent, and nothing later. *)
RetopicsOnlyInFlight ==
  [][\A q \in Questions :
       (status[q] = "OFFER_SENT" /\ status'[q] = "OFFER_SENT" /\ question'[q] # question[q])
         => q \in ahead]_intake
=============================================================================
