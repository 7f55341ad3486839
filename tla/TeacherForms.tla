---------------------------- MODULE TeacherForms ----------------------------
(***************************************************************************)
(* The two screens on which one teacher edits one record, each in a tab of   *)
(* the same browser: the profile form, which saves once (Profile.jsx), and   *)
(* the onboarding stepper, which saves per step (Onboarding.jsx).  Each      *)
(* keeps a copy of the record from the server's last answer to it, and       *)
(* neither hears of what the other one saves.                                *)
(***************************************************************************)
EXTENDS Naturals, Sequences

CONSTANTS
    Leaves, Subjects,   \* subtopics, and whole subjects, which the seed wrote into some records
    Levels, Prices,     \* TEACHING_LEVELS, and what the slider offers
    FormMoves,          \* edits, status switches, pages left
    FormFaults          \* calls lost, localStorage refused

ASSUME FormAssumption ==
    /\ Leaves \cap Subjects = {}
    /\ Levels # {} /\ Prices # {}
    /\ {FormMoves, FormFaults} \subseteq Nat

VARIABLES
    profile,              \* the columns of teacher_profiles and the rows of teacher_topics
    form,                 \* Profile.jsx: record and draft
    saving,               \* its call in flight
    typed,                \* history: fields the teacher touched since the draft was last seeded
    moved,                \* history: fields an answer to the status switch changed under the draft
    step, answers,        \* Onboarding.jsx: step (STEPS done) and draft
    stepping,             \* its call in flight
    marker,               \* localStorage, tutor.onboarding.<teacher>
    saved,                \* history: fields that some save has written
    unmarked,             \* history: the stepper found a complete record and no marker
    adrift,               \* bodies whose page has gone or given up, and which may yet arrive
    formMoved, formFailed

profileForm == <<form, saving, typed, moved>>
stepper     == <<step, answers, stepping, marker, unmarked>>
columns     == <<profile, saved, adrift>>
formCount   == <<formMoved, formFailed>>
formVars    == <<profileForm, stepper, columns, formCount>>

FormMove  == formMoved < FormMoves /\ formMoved' = formMoved + 1
FormFault == formFailed < FormFaults /\ formFailed' = formFailed + 1

STEPS        == <<"topicIds", "levelMax", "pricePerBlock">>
SUMMARY_STEP == Len(STEPS)
Fields       == {"bio", "topicIds", "levelMax", "pricePerBlock"}

-----------------------------------------------------------------------------
(* The server                                                               *)

\* A body is a function from the fields it names; a GET, and a PATCH of the
\* status, name none of them.
NoFields == [field \in {} |-> 0]

\* teacher.me.schema.js and assertLeafTopics.
Refused(body) ==
    "topicIds" \in DOMAIN body /\ (body.topicIds = {} \/ ~(body.topicIds \subseteq Leaves))

updateTeacherProfile(body) ==
    profile' = [field \in Fields |-> IF field \in DOMAIN body THEN body[field] ELSE profile[field]]

Saves(body) == updateTeacherProfile(body) /\ saved' = saved \cup DOMAIN body

onboardingComplete(row) == row.topicIds # {}

-----------------------------------------------------------------------------
(* A page's call: at most one at a time, since `saving` disables everything. *)

NoForm == [record |-> NoFields, draft |-> NoFields]
Quiet  == [op |-> "none", at |-> "none", body |-> NoFields, row |-> NoFields]
Begun(op, body) == [op |-> op, at |-> "sent", body |-> body, row |-> NoFields]
Came(call, op)  == call.op = op /\ call.at = "done"
Failed(call, op) == call.op = op /\ call.at = "failed"

\* updateTeacherMe and getTeacherMe; the status may be refused too, in the
\* two states the engine owns.
Served(call) ==
    \/ /\ ~Refused(call.body)
       /\ Saves(call.body)
       /\ call' = [call EXCEPT !.at = "done", !.row = profile']
    \/ /\ Refused(call.body) \/ call.op = "status"
       /\ call' = [call EXCEPT !.at = "failed"]
       /\ UNCHANGED <<profile, saved>>

\* What the server may still be given of a call its page no longer waits for.
Forsaken(call) ==
    adrift' = adrift \cup (IF call.at = "sent" /\ call.body # NoFields THEN {call.body} ELSE {})

\* Lost on either way, or given up on at the client's timeout.
Lost(call) ==
    /\ call.at \in {"sent", "done"}
    /\ call' = [call EXCEPT !.at = "failed"]
    /\ Forsaken(call) \/ adrift' = adrift

Lands(body) ==
    /\ body \in adrift
    /\ adrift' = adrift \ {body}
    /\ IF Refused(body) THEN UNCHANGED <<profile, saved>> ELSE Saves(body)
    /\ UNCHANGED <<profileForm, stepper, formCount>>

Serve ==
    /\ \/ saving.at = "sent" /\ Served(saving) /\ UNCHANGED stepping
       \/ stepping.at = "sent" /\ Served(stepping) /\ UNCHANGED saving
    /\ UNCHANGED <<form, typed, moved, step, answers, marker, unmarked, adrift, formCount>>

Lose_Call ==
    /\ FormFault
    /\ \/ Lost(saving) /\ UNCHANGED stepping
       \/ Lost(stepping) /\ UNCHANGED saving
    /\ UNCHANGED <<profile, saved, form, typed, moved, step, answers, marker, unmarked, formMoved>>

-----------------------------------------------------------------------------
(* Profile.jsx                                                              *)

normalizeBio(text) == IF text = "" THEN "null" ELSE IF text = "typed " THEN "typed" ELSE text

draftFrom(record) == [record EXCEPT !.bio = IF record.bio = "null" THEN "" ELSE record.bio]

\* Only what actually changed, and of the topics only the leaves.
Changed(field) ==
    IF field = "bio" THEN normalizeBio(form.draft.bio) # form.record.bio
                     ELSE form.draft[field] # form.record[field]

Sends(field) ==
    CASE field = "bio"      -> normalizeBio(form.draft.bio)
      [] field = "topicIds" -> form.draft.topicIds \cap Leaves
      [] OTHER              -> form.draft[field]

changedFields == [field \in {f \in Fields : Changed(f)} |-> Sends(field)]

\* What a control can make of a field's value.
Choices(field, value) ==
    CASE field = "bio"      -> {"", "typed "}
      [] field = "topicIds" -> {value \cup {leaf} : leaf \in Leaves} \cup {value \ {leaf} : leaf \in Leaves}
      [] field = "levelMax" -> Levels
      [] OTHER              -> Prices

Shown == form # NoForm /\ saving = Quiet

\* The record is what the server said, and the draft is it again.
Seed(row) ==
    /\ form' = [record |-> row, draft |-> draftFrom(row)]
    /\ typed' = {} /\ moved' = {}

LoadForm ==
    /\ \/ Came(saving, "load") /\ Seed(saving.row) /\ saving' = Quiet
       \/ Failed(saving, "load") /\ saving' = Begun("load", NoFields) /\ UNCHANGED <<form, typed, moved>>
    /\ UNCHANGED <<stepper, columns, formCount>>

setField(field) ==
    /\ FormMove
    /\ Shown
    /\ \E value \in Choices(field, form.draft[field]) \ {form.draft[field]} :
          form' = [form EXCEPT !.draft[field] = value]
    /\ typed' = typed \cup {field}
    /\ UNCHANGED <<saving, moved, stepper, columns, formFailed>>

submit ==
    /\ Shown
    /\ LET patch == changedFields IN
       /\ DOMAIN patch # {}
       /\ "topicIds" \in DOMAIN patch => patch.topicIds # {}
       /\ saving' = Begun("save", patch)
    /\ UNCHANGED <<form, typed, moved, stepper, columns, formCount>>

\* The draft is seeded again by a save that succeeded, and by no other call.
Reseeds_RecordOnly(row) == form' = [form EXCEPT !.record = row] /\ typed' = {} /\ moved' = {}

Reseeds(row) == Seed(row)

SaveReturns ==
    /\ \/ Came(saving, "save") /\ Reseeds(saving.row)
       \/ Failed(saving, "save") /\ UNCHANGED <<form, typed, moved>>
    /\ saving' = Quiet
    /\ UNCHANGED <<stepper, columns, formCount>>

discard ==
    /\ Shown
    /\ DOMAIN changedFields # {}
    /\ Seed(form.record)
    /\ UNCHANGED <<saving, stepper, columns, formCount>>

setStatus ==
    /\ FormMove
    /\ Shown
    /\ saving' = Begun("status", NoFields)
    /\ UNCHANGED <<form, typed, moved, stepper, columns, formFailed>>

\* Only the record: the draft holds the unsaved edits.
StatusReturns ==
    /\ \/ /\ Came(saving, "status")
          /\ form' = [form EXCEPT !.record = saving.row]
          /\ moved' = moved \cup {field \in Fields : saving.row[field] # form.record[field]}
       \/ Failed(saving, "status") /\ UNCHANGED <<form, moved>>
    /\ saving' = Quiet
    /\ UNCHANGED <<typed, stepper, columns, formCount>>

\* Left, confirmed if asked, and opened again.
LeaveForm ==
    /\ FormMove
    /\ form' = NoForm /\ typed' = {} /\ moved' = {}
    /\ Forsaken(saving)
    /\ saving' = Begun("load", NoFields)
    /\ UNCHANGED <<stepper, profile, saved, formFailed>>

-----------------------------------------------------------------------------
(* Onboarding.jsx                                                           *)

\* Which step to open on: of a complete record the first one this browser
\* has not saved, and the summary if it does not know.
startStepFor(row) ==
    IF ~onboardingComplete(row) THEN 0
    ELSE IF marker = 0 \/ marker >= SUMMARY_STEP THEN SUMMARY_STEP ELSE marker

\* Never regresses; a storage that refuses is ignored.
writeProgress(steps) ==
    \/ marker' = (IF steps > marker THEN steps ELSE marker) /\ UNCHANGED formFailed
    \/ FormFault /\ UNCHANGED marker

Answering == stepping = Quiet /\ answers # NoFields

LoadStepper ==
    /\ \/ /\ Came(stepping, "load")
          /\ answers' = stepping.row
          /\ step' = startStepFor(stepping.row)
          /\ unmarked' = (unmarked \/ (onboardingComplete(stepping.row) /\ marker = 0))
          /\ stepping' = Quiet
       \/ /\ Failed(stepping, "load")
          /\ stepping' = Begun("load", NoFields)
          /\ UNCHANGED <<step, answers, unmarked>>
    /\ UNCHANGED <<marker, profileForm, columns, formCount>>

Pick(field) ==
    /\ FormMove
    /\ Answering
    /\ step < SUMMARY_STEP /\ field = STEPS[step + 1]
    /\ \E value \in Choices(field, answers[field]) \ {answers[field]} :
          answers' = [answers EXCEPT ![field] = value]
    /\ UNCHANGED <<step, stepping, marker, unmarked, profileForm, columns, formFailed>>

\* Sent even when the value is unchanged.
goNext ==
    /\ Answering
    /\ step < SUMMARY_STEP
    /\ step = 0 => answers.topicIds # {}
    /\ stepping' = Begun("save", [field \in {STEPS[step + 1]} |-> answers[field]])
    /\ UNCHANGED <<step, answers, marker, unmarked, profileForm, columns, formCount>>

\* A rejection never advances the stepper.
StepFails_Anyway == step' = step + 1 /\ writeProgress(step + 1)

StepFails == UNCHANGED <<step, marker, formFailed>>

SaveStepReturns ==
    /\ \/ Came(stepping, "save") /\ step' = step + 1 /\ writeProgress(step + 1)
       \/ Failed(stepping, "save") /\ StepFails
    /\ stepping' = Quiet
    /\ UNCHANGED <<answers, unmarked, profileForm, columns, formMoved>>

goToStep(index) ==
    /\ Answering
    /\ index < step
    /\ step' = index
    /\ UNCHANGED <<answers, stepping, marker, unmarked, profileForm, columns, formCount>>

goOnline ==
    /\ FormMove
    /\ Answering
    /\ step = SUMMARY_STEP
    /\ stepping' = Begun("status", NoFields)
    /\ UNCHANGED <<step, answers, marker, unmarked, profileForm, columns, formFailed>>

OpenStepper ==
    /\ step' = 0
    /\ answers' = NoFields
    /\ stepping' = Begun("load", NoFields)

\* Away to the dashboard, and some day back.
GoOnlineReturns ==
    /\ \/ Came(stepping, "status") /\ OpenStepper
       \/ Failed(stepping, "status") /\ stepping' = Quiet /\ UNCHANGED <<step, answers>>
    /\ UNCHANGED <<marker, unmarked, profileForm, columns, formCount>>

\* The tab is closed at any moment, and opened again.
CloseStepper ==
    /\ FormMove
    /\ Forsaken(stepping)
    /\ OpenStepper
    /\ UNCHANGED <<marker, unmarked, profileForm, profile, saved, formFailed>>

-----------------------------------------------------------------------------
\* What registration wrote, with the topics of a new, a seeded or a finished
\* teacher.
FormInit ==
    /\ \E topics \in SUBSET (Leaves \cup Subjects) :
          profile = [bio |-> "null", topicIds |-> topics,
                     levelMax |-> CHOOSE level \in Levels : TRUE,
                     pricePerBlock |-> CHOOSE price \in Prices : TRUE]
    /\ form = NoForm /\ saving = Begun("load", NoFields) /\ typed = {} /\ moved = {}
    /\ step = 0 /\ answers = NoFields /\ stepping = Begun("load", NoFields)
    /\ marker = 0 /\ unmarked = FALSE
    /\ saved = {} /\ adrift = {}
    /\ formMoved = 0 /\ formFailed = 0

FormNext ==
    \/ Serve \/ Lose_Call
    \/ \E body \in adrift : Lands(body)
    \/ LoadForm \/ submit \/ SaveReturns \/ discard \/ setStatus \/ StatusReturns \/ LeaveForm
    \/ \E field \in Fields : setField(field) \/ Pick(field)
    \/ LoadStepper \/ goNext \/ SaveStepReturns \/ goOnline \/ GoOnlineReturns \/ CloseStepper
    \/ \E index \in 0 .. SUMMARY_STEP : goToStep(index)

FormSpec == FormInit /\ [][FormNext]_formVars

-----------------------------------------------------------------------------
(* A save of the profile form carries no value but what the teacher typed   *)
(* on it ("Only what actually changed"), so that it never puts back what    *)
(* another tab has replaced.  The exception is real: the answer to the      *)
(* status switch renews the record under a draft it leaves alone, and what  *)
(* the other tab saved then looks like an edit of this one.                 *)
OnlyTypedIsSent ==
    saving.op = "save" => DOMAIN saving.body \subseteq typed \cup moved

(* The stepper stands beyond a step only if the server was given that       *)
(* step's answer, whatever was lost, closed or refused in between -- unless *)
(* it once found a complete record and nothing in this browser's storage.   *)
StepsAreEarned ==
    unmarked \/ \A i \in 1 .. SUMMARY_STEP : i <= step => STEPS[i] \in saved
=============================================================================
