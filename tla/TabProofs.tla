----------------------------- MODULE TabProofs -----------------------------
(***************************************************************************)
(* What an open tab keeps, for any number of teachers, edits, calls, moves *)
(* and faults: the teacher's two forms, the student's wallet, presence.    *)
(* Each part has the invariant that its property needs; the last theorem   *)
(* says that a behaviour of the tabs is one of each part.                  *)
(***************************************************************************)
EXTENDS OpenTabs, SequenceTheorems, TLAPS

-----------------------------------------------------------------------------
(* The forms.                                                              *)

(* A teacher's row, as every answer carries it, and a draft of one. *)
IsRow(r)   == DOMAIN r = Fields /\ r.bio \in {"null", "typed"}
IsDraft(d) == DOMAIN d = Fields /\ d.bio \in {"", "typed", "typed "}
IsBody(b)  == /\ b = [field \in DOMAIN b |-> b[field]] /\ DOMAIN b \subseteq Fields
              /\ "bio" \in DOMAIN b => b.bio \in {"null", "typed"}

IsCall(c) ==
  /\ c = [op |-> c.op, at |-> c.at, body |-> c.body, row |-> c.row]
  /\ IsBody(c.body)
  /\ c.at = "done" => IsRow(c.row)

FormIsAForm == /\ form = [record |-> form.record, draft |-> form.draft]
               /\ IsRow(form.record) /\ IsDraft(form.draft)

(* What is given for an edit is one, or came with the status switch; and a   *)
(* call to save names nothing else.                                          *)
EditsAreTheirs ==
  /\ form # NoForm => \A f \in Fields : Changed(f) => f \in typed \cup moved
  /\ saving.op = "save" => DOMAIN saving.body \subseteq typed \cup moved

(* What every part of the two pages and the server has in hand. *)
Sane ==
  /\ IsRow(profile)
  /\ IsCall(saving) /\ IsCall(stepping)
  /\ answers # NoFields => IsRow(answers)
  /\ \A b \in adrift : IsBody(b)
  /\ form # NoForm => FormIsAForm
  /\ saving.op \in {"save", "status"} => form # NoForm
  /\ step \in 0 .. SUMMARY_STEP /\ marker \in 0 .. SUMMARY_STEP
  /\ stepping.op = "save" => step < SUMMARY_STEP

LEMMA TheSteps ==
  /\ SUMMARY_STEP = 3
  /\ \A i \in 1 .. 3 : STEPS[i] \in Fields \ {"bio"}
  BY DEF STEPS, SUMMARY_STEP, Fields

LEMMA QuietIsACall == IsCall(Quiet) /\ Quiet.op = "none" /\ IsBody(NoFields)
<1>1. DOMAIN NoFields = {}
  BY DEF NoFields
<1>2. NoFields = [field \in DOMAIN NoFields |-> NoFields[field]]
  BY DEF NoFields
<1>3. IsBody(NoFields)
  BY <1>1, <1>2 DEF IsBody
<1>4. /\ Quiet = [op |-> Quiet.op, at |-> Quiet.at, body |-> Quiet.body, row |-> Quiet.row]
      /\ Quiet.op = "none" /\ Quiet.at = "none" /\ Quiet.body = NoFields
  BY DEF Quiet
<1>5. IsBody(Quiet.body) /\ Quiet.at # "done"
  BY <1>3, <1>4
<1> QED BY <1>3, <1>4, <1>5 DEF IsCall

LEMMA BegunIsACall ==
  ASSUME NEW op, NEW body, IsBody(body)
  PROVE  IsCall(Begun(op, body)) /\ Begun(op, body).op = op /\ Begun(op, body).body = body
                                 /\ Begun(op, body).at = "sent"
<1> DEFINE c == Begun(op, body)
<1>1. c = [op |-> op, at |-> "sent", body |-> body, row |-> NoFields]
  BY DEF Begun
<1> HIDE DEF c
<1>2. IsCall(c) /\ c.op = op /\ c.body = body /\ c.at = "sent"
  BY <1>1 DEF IsCall
<1> QED BY <1>2 DEF c

LEMMA SavesARow ==
  ASSUME IsRow(profile), NEW body, IsBody(body), Saves(body)
  PROVE  IsRow(profile')
  BY DEF IsRow, IsBody, Saves, updateTeacherProfile, Fields

LEMMA ServedIsACall ==
  ASSUME IsRow(profile), NEW c, NEW d, IsCall(c),
         \/ ~Refused(c.body) /\ Saves(c.body) /\ d = [c EXCEPT !.at = "done", !.row = profile']
         \/ d = [c EXCEPT !.at = "failed"] /\ UNCHANGED <<profile, saved>>
  PROVE  /\ IsCall(d) /\ d.op = c.op /\ d.body = c.body
         /\ IsRow(profile')
         /\ d.at = "done" => saved' = saved \cup DOMAIN c.body
         /\ saved \subseteq saved'
  <1>1. CASE Saves(c.body) /\ d = [c EXCEPT !.at = "done", !.row = profile']
    <2>1. IsRow(profile')
      BY <1>1, SavesARow DEF IsCall
    <2>2. d = [op |-> c.op, at |-> "done", body |-> c.body, row |-> profile']
      BY <1>1 DEF IsCall
    <2> QED BY <1>1, <2>1, <2>2 DEF IsCall, Saves
  <1>2. CASE d = [c EXCEPT !.at = "failed"] /\ UNCHANGED <<profile, saved>>
    <2>1. d = [op |-> c.op, at |-> "failed", body |-> c.body, row |-> c.row]
      BY <1>2 DEF IsCall
    <2> QED BY <1>2, <2>1 DEF IsCall
  <1> QED BY <1>1, <1>2

LEMMA LostIsACall ==
  ASSUME NEW c, NEW d, IsCall(c), d = [c EXCEPT !.at = "failed"]
  PROVE  IsCall(d) /\ d.op = c.op /\ d.body = c.body /\ d.at = "failed"
  <1>1. d = [op |-> c.op, at |-> "failed", body |-> c.body, row |-> c.row]
    BY DEF IsCall
  <1> QED BY <1>1 DEF IsCall

LEMMA ForsakenAreBodies ==
  ASSUME NEW c, IsCall(c), \A b \in adrift : IsBody(b), Forsaken(c)
  PROVE  (\A b \in adrift : IsBody(b))'
  BY DEF Forsaken, IsCall, IsBody

(* A draft seeded from a row has nothing changed. *)
LEMMA SeedsAForm ==
  ASSUME NEW row, IsRow(row), Seed(row)
  PROVE  (FormIsAForm /\ \A f \in Fields : ~Changed(f))' /\ form' # NoForm
  <1>1. form' = [record |-> row, draft |-> draftFrom(row)]
    BY DEF Seed
  <1>2. IsDraft(draftFrom(row)) /\ \A f \in Fields \ {"bio"} : draftFrom(row)[f] = row[f]
    BY DEF IsDraft, IsRow, draftFrom, Fields
  <1>3. normalizeBio(draftFrom(row).bio) = row.bio
    BY DEF IsRow, draftFrom, normalizeBio, Fields
  <1>4. FormIsAForm'
    BY <1>1, <1>2 DEF FormIsAForm, IsDraft, IsRow
  <1>5. (\A f \in Fields : ~Changed(f))'
    BY <1>1, <1>2, <1>3 DEF Changed, Fields
  <1>6. form' # NoForm
    BY <1>1 DEF NoForm, NoFields, IsRow, Fields
  <1> QED BY <1>4, <1>5, <1>6

(* The body of a save names the fields that are changed. *)
LEMMA ChangesAreABody ==
  ASSUME FormIsAForm
  PROVE  IsBody(changedFields) /\ DOMAIN changedFields = {f \in Fields : Changed(f)}
  <1>1. normalizeBio(form.draft.bio) \in {"null", "typed"}
    BY DEF FormIsAForm, IsDraft, normalizeBio
  <1>2. "bio" \in DOMAIN changedFields => changedFields["bio"] \in {"null", "typed"}
    BY <1>1 DEF changedFields, Sends
  <1> QED BY <1>2 DEF changedFields, IsBody

-----------------------------------------------------------------------------
LEMMA SaneStarts == FormInit => Sane
<1> SUFFICES ASSUME FormInit PROVE Sane
  OBVIOUS
<1>1. IsCall(saving) /\ IsCall(stepping) /\ saving.op = "load"
  BY QuietIsACall, BegunIsACall DEF FormInit
<1>2. IsRow(profile)
  BY DEF FormInit, IsRow, Fields
<1>3. stepping.op = "load"
  BY BegunIsACall, QuietIsACall DEF FormInit
<1> QED BY <1>1, <1>2, <1>3, TheSteps DEF FormInit, Sane

(* Another draft of the same record, or another record under the same draft. *)
LEMMA FormStaysAForm ==
  ASSUME FormIsAForm,
         \/ \E draft : IsDraft(draft) /\ form' = [form EXCEPT !.draft = draft]
         \/ \E row : IsRow(row) /\ form' = [form EXCEPT !.record = row]
  PROVE  FormIsAForm'
  BY DEF FormIsAForm

LEMMA SetsADraft ==
  ASSUME FormIsAForm, NEW field \in Fields, NEW value,
         value \in Choices(field, form.draft[field]),
         form' = [form EXCEPT !.draft[field] = value]
  PROVE  /\ FormIsAForm' /\ form'.record = form.record
         /\ \A f \in Fields \ {field} : form'.draft[f] = form.draft[f]
<1> DEFINE draft == [form.draft EXCEPT ![field] = value]
<1>1. form' = [form EXCEPT !.draft = draft]
  OBVIOUS
<1>2. IsDraft(draft)
  BY DEF IsDraft, Choices, FormIsAForm, Fields
<1> HIDE DEF draft
<1>3. form' = [record |-> form.record, draft |-> draft]
  BY <1>1 DEF FormIsAForm
<1>4. FormIsAForm'
  BY <1>2, <1>3 DEF FormIsAForm
<1>5. \A f \in Fields \ {field} : draft[f] = form.draft[f]
  BY DEF draft, FormIsAForm, IsDraft
<1> QED BY <1>3, <1>4, <1>5

(* The profile form's own moves. *)
LEMMA SaneInTheForm ==
  ASSUME Sane,
         LoadForm \/ submit \/ SaveReturns \/ discard \/ setStatus \/ StatusReturns \/ LeaveForm
           \/ \E field \in Fields : setField(field)
  PROVE  Sane'
<1> USE DEF stepper, columns, formCount
<1>1. CASE LoadForm
  <2>1. CASE Came(saving, "load") /\ Seed(saving.row) /\ saving' = Quiet
    BY <1>1, <2>1, SeedsAForm, QuietIsACall DEF LoadForm, Sane, Came, IsCall
  <2>2. CASE saving' = Begun("load", NoFields) /\ UNCHANGED <<form, typed, moved>>
    BY <1>1, <2>2, BegunIsACall, QuietIsACall DEF LoadForm, Sane, FormIsAForm
  <2> QED BY <1>1, <2>1, <2>2 DEF LoadForm
<1>2. CASE submit
  <2>1. form # NoForm /\ FormIsAForm
    BY <1>2 DEF submit, Shown, Sane
  <2>2. IsCall(saving')
    BY <1>2, <2>1, ChangesAreABody, BegunIsACall DEF submit
  <2> QED BY <1>2, <2>1, <2>2 DEF submit, Sane, FormIsAForm
<1>3. CASE SaveReturns
  <2>1. CASE Came(saving, "save") /\ Reseeds(saving.row)
    BY <1>3, <2>1, SeedsAForm, QuietIsACall DEF SaveReturns, Reseeds, Sane, Came, IsCall
  <2>2. CASE UNCHANGED <<form, typed, moved>>
    BY <1>3, <2>2, QuietIsACall DEF SaveReturns, Sane, FormIsAForm
  <2> QED BY <1>3, <2>1, <2>2 DEF SaveReturns
<1>4. CASE discard
  <2>1. Seed(form.record) /\ IsRow(form.record) /\ UNCHANGED saving
    BY <1>4 DEF discard, Shown, Sane, FormIsAForm
  <2> QED BY <1>4, <2>1, SeedsAForm DEF discard, Sane
<1>5. CASE setStatus
  BY <1>5, BegunIsACall, QuietIsACall DEF setStatus, Shown, Sane, FormIsAForm
<1>6. CASE StatusReturns
  <2>1. CASE Came(saving, "status") /\ form' = [form EXCEPT !.record = saving.row]
    <3>1. FormIsAForm /\ IsRow(saving.row)
      BY <2>1 DEF Came, Sane, IsCall
    <3>2. FormIsAForm'
      BY <2>1, <3>1 DEF FormIsAForm
    <3> QED BY <1>6, <3>2, QuietIsACall DEF StatusReturns, Sane
  <2>2. CASE UNCHANGED form
    BY <1>6, <2>2, QuietIsACall DEF StatusReturns, Sane, FormIsAForm
  <2> QED BY <1>6, <2>1, <2>2 DEF StatusReturns
<1>7. CASE LeaveForm
  BY <1>7, BegunIsACall, QuietIsACall, ForsakenAreBodies DEF LeaveForm, Sane
<1>8. ASSUME NEW field \in Fields, setField(field) PROVE Sane'
  <2>1. form # NoForm /\ FormIsAForm /\ UNCHANGED saving /\ saving = Quiet
    BY <1>8 DEF setField, Shown, Sane
  <2>2. FormIsAForm'
    BY <1>8, <2>1, SetsADraft DEF setField
  <2> QED BY <1>8, <2>1, <2>2, QuietIsACall DEF setField, Sane
<1> QED BY <1>1, <1>2, <1>3, <1>4, <1>5, <1>6, <1>7, <1>8

(* The stepper's own moves. *)
LEMMA SaneInTheStepper ==
  ASSUME Sane,
         \/ LoadStepper \/ goNext \/ SaveStepReturns \/ goOnline \/ GoOnlineReturns \/ CloseStepper
         \/ \E field \in Fields : Pick(field)
         \/ \E index \in 0 .. SUMMARY_STEP : goToStep(index)
  PROVE  Sane'
<1> USE DEF profileForm, columns, formCount
<1> DEFINE Held == /\ IsCall(stepping)
                   /\ \A b \in adrift : IsBody(b)
                   /\ answers # NoFields => IsRow(answers)
                   /\ step \in 0 .. 3 /\ marker \in 0 .. 3
                   /\ stepping.op = "save" => step < 3
<1>1. Held
  BY TheSteps DEF Sane
<1>2. UNCHANGED <<form, saving, profile>> /\ Held'
  <2>1. CASE LoadStepper
    <3>1. CASE Came(stepping, "load") /\ answers' = stepping.row /\ step' = startStepFor(stepping.row)
               /\ stepping' = Quiet
      <4>1. step' \in 0 .. 3
        BY <1>1, <3>1, TheSteps DEF startStepFor
      <4> QED BY <1>1, <2>1, <3>1, <4>1, QuietIsACall DEF LoadStepper, Came, IsCall
    <3>2. CASE stepping' = Begun("load", NoFields) /\ UNCHANGED <<step, answers>>
      BY <1>1, <2>1, <3>2, QuietIsACall, BegunIsACall DEF LoadStepper
    <3> QED BY <2>1, <3>1, <3>2 DEF LoadStepper
  <2>2. CASE goNext
    <3>1. step \in 0 .. 2 /\ IsRow(answers)
      BY <1>1, <2>2, TheSteps DEF goNext, Answering
    <3>2. STEPS[step + 1] \in Fields \ {"bio"}
      BY <3>1, TheSteps
    <3>3. IsBody([field \in {STEPS[step + 1]} |-> answers[field]])
      BY <3>2 DEF IsBody
    <3> QED BY <1>1, <2>2, <3>1, <3>3, BegunIsACall DEF goNext
  <2>3. CASE SaveStepReturns
    <3>1. CASE Came(stepping, "save") /\ step' = step + 1 /\ writeProgress(step + 1)
      <4>1. step' \in 0 .. 3 /\ marker' \in 0 .. 3
        BY <1>1, <3>1 DEF Came, writeProgress
      <4> QED BY <1>1, <2>3, <4>1, QuietIsACall DEF SaveStepReturns
    <3>2. CASE StepFails
      BY <1>1, <2>3, <3>2, QuietIsACall DEF SaveStepReturns, StepFails
    <3> QED BY <2>3, <3>1, <3>2 DEF SaveStepReturns
  <2>4. CASE goOnline
    BY <1>1, <2>4, QuietIsACall, BegunIsACall DEF goOnline
  <2>5. CASE GoOnlineReturns
    BY <1>1, <2>5, QuietIsACall, BegunIsACall DEF GoOnlineReturns, OpenStepper
  <2>6. CASE CloseStepper
    <3>1. (\A b \in adrift : IsBody(b))'
      BY <1>1, <2>6, ForsakenAreBodies DEF CloseStepper
    <3> QED BY <1>1, <2>6, <3>1, QuietIsACall, BegunIsACall DEF CloseStepper, OpenStepper
  <2>7. ASSUME NEW field \in Fields, Pick(field)
        PROVE  UNCHANGED <<form, saving, profile>> /\ Held'
    <3>1. step \in 0 .. 2 /\ IsRow(answers) /\ field = STEPS[step + 1]
      BY <1>1, <2>7, TheSteps DEF Pick, Answering
    <3>2. field # "bio"
      BY <3>1, TheSteps
    <3>3. PICK value : answers' = [answers EXCEPT ![field] = value]
      BY <2>7 DEF Pick
    <3>4. IsRow(answers')
      BY <3>1, <3>2, <3>3 DEF IsRow, Fields
    <3>5. UNCHANGED <<form, saving, profile, stepping, step, marker, adrift>>
      BY <2>7 DEF Pick
    <3> QED BY <1>1, <3>4, <3>5
  <2>8. ASSUME NEW index \in 0 .. SUMMARY_STEP, goToStep(index)
        PROVE  UNCHANGED <<form, saving, profile>> /\ Held'
    BY <1>1, <2>8, TheSteps, QuietIsACall DEF goToStep, Answering
  <2> QED BY <2>1, <2>2, <2>3, <2>4, <2>5, <2>6, <2>7, <2>8
<1> QED BY <1>2, TheSteps DEF Sane, FormIsAForm

LEMMA SaneGoesOn == Sane /\ [FormNext]_formVars => Sane'
<1> SUFFICES ASSUME Sane, [FormNext]_formVars PROVE Sane'
  OBVIOUS
<1> USE DEF profileForm, stepper, columns, formCount
<1>1. CASE UNCHANGED formVars
  BY <1>1 DEF Sane, FormIsAForm, formVars
<1>2. CASE Serve
  <2>1. CASE saving.at = "sent" /\ Served(saving) /\ UNCHANGED stepping
    <3>1. IsCall(saving') /\ saving'.op = saving.op /\ IsRow(profile')
      BY <2>1, ServedIsACall DEF Served, Sane
    <3> QED BY <1>2, <2>1, <3>1 DEF Serve, Sane, FormIsAForm
  <2>2. CASE stepping.at = "sent" /\ Served(stepping) /\ UNCHANGED saving
    <3>1. IsCall(stepping') /\ stepping'.op = stepping.op /\ IsRow(profile')
      BY <2>2, ServedIsACall DEF Served, Sane
    <3> QED BY <1>2, <2>2, <3>1 DEF Serve, Sane, FormIsAForm
  <2> QED BY <1>2, <2>1, <2>2 DEF Serve
<1>3. CASE Lose_Call
  <2>1. CASE Lost(saving) /\ UNCHANGED stepping
    <3>1. IsCall(saving') /\ saving'.op = saving.op /\ (\A b \in adrift : IsBody(b))'
      BY <2>1, LostIsACall, ForsakenAreBodies DEF Lost, Sane
    <3> QED BY <1>3, <2>1, <3>1 DEF Lose_Call, Sane, FormIsAForm
  <2>2. CASE Lost(stepping) /\ UNCHANGED saving
    <3>1. IsCall(stepping') /\ stepping'.op = stepping.op /\ (\A b \in adrift : IsBody(b))'
      BY <2>2, LostIsACall, ForsakenAreBodies DEF Lost, Sane
    <3> QED BY <1>3, <2>2, <3>1 DEF Lose_Call, Sane, FormIsAForm
  <2> QED BY <1>3, <2>1, <2>2 DEF Lose_Call
<1>4. ASSUME NEW body \in adrift, Lands(body) PROVE Sane'
  <2>1. IsRow(profile') /\ (\A b \in adrift : IsBody(b))'
    BY <1>4, SavesARow DEF Lands, Sane
  <2> QED BY <1>4, <2>1 DEF Lands, Sane, FormIsAForm
<1> QED BY <1>1, <1>2, <1>3, <1>4, SaneInTheForm, SaneInTheStepper DEF FormNext

-----------------------------------------------------------------------------
LEMMA EditsStart == FormInit => EditsAreTheirs
<1> SUFFICES ASSUME FormInit PROVE EditsAreTheirs
  OBVIOUS
<1>1. form = NoForm /\ saving.op = "load"
  BY BegunIsACall, QuietIsACall DEF FormInit
<1> QED BY <1>1 DEF EditsAreTheirs

LEMMA EditsGoOn == Sane /\ EditsAreTheirs /\ [FormNext]_formVars => EditsAreTheirs'
<1> SUFFICES ASSUME Sane, EditsAreTheirs, [FormNext]_formVars PROVE EditsAreTheirs'
  OBVIOUS
<1> USE DEF profileForm, stepper, columns, formCount
<1>1. CASE UNCHANGED <<form, typed, moved, saving.op, saving.body>>
  BY <1>1 DEF EditsAreTheirs, Changed
<1>2. CASE Serve \/ Lose_Call
  <2>1. UNCHANGED <<form, typed, moved>> /\ saving'.op = saving.op /\ saving'.body = saving.body
    BY <1>2, ServedIsACall, LostIsACall DEF Serve, Served, Lose_Call, Lost, Sane
  <2> QED BY <1>1, <2>1
<1>3. ASSUME \E row : IsRow(row) /\ Seed(row), saving'.op # "save"
      PROVE  EditsAreTheirs'
  BY <1>3, SeedsAForm DEF EditsAreTheirs
<1>4. CASE LoadForm
  <2>1. CASE Came(saving, "load") /\ Seed(saving.row) /\ saving' = Quiet
    BY <1>3, <2>1, QuietIsACall DEF Came, Sane, IsCall
  <2>2. CASE saving' = Begun("load", NoFields) /\ UNCHANGED <<form, typed, moved>>
    BY <2>2, BegunIsACall, QuietIsACall DEF EditsAreTheirs, Changed
  <2> QED BY <1>4, <2>1, <2>2 DEF LoadForm
<1>5. CASE submit
  <2>1. form # NoForm /\ FormIsAForm
    BY <1>5 DEF submit, Shown, Sane
  <2>2. saving'.body = changedFields /\ UNCHANGED <<form, typed, moved>>
    BY <1>5, <2>1, ChangesAreABody, BegunIsACall DEF submit
  <2>3. DOMAIN saving'.body \subseteq typed' \cup moved'
    BY <2>1, <2>2, ChangesAreABody DEF EditsAreTheirs
  <2> QED BY <2>2, <2>3 DEF EditsAreTheirs, Changed
<1>6. CASE SaveReturns
  <2>1. CASE Came(saving, "save") /\ Reseeds(saving.row)
    BY <1>3, <1>6, <2>1, QuietIsACall DEF SaveReturns, Reseeds, Came, Sane, IsCall
  <2>2. CASE UNCHANGED <<form, typed, moved>>
    BY <1>6, <2>2, QuietIsACall DEF SaveReturns, EditsAreTheirs, Changed
  <2> QED BY <1>6, <2>1, <2>2 DEF SaveReturns
<1>7. CASE discard
  BY <1>3, <1>7, QuietIsACall DEF discard, Shown, Sane, FormIsAForm
<1>8. CASE setStatus
  BY <1>8, BegunIsACall, QuietIsACall DEF setStatus, EditsAreTheirs, Changed
<1>9. CASE StatusReturns
  <2>1. CASE Came(saving, "status") /\ form' = [form EXCEPT !.record = saving.row]
    <3>1. form # NoForm /\ FormIsAForm /\ IsRow(saving.row) /\ typed' = typed
          /\ moved' = moved \cup {f \in Fields : saving.row[f] # form.record[f]}
      BY <1>9, <2>1, QuietIsACall DEF StatusReturns, Came, Failed, Sane, IsCall
    <3>2. form'.record = saving.row /\ form'.draft = form.draft
      BY <2>1, <3>1 DEF FormIsAForm
    <3>3. ASSUME NEW f \in Fields, Changed(f)' PROVE f \in typed' \cup moved'
      <4>1. CASE saving.row[f] # form.record[f]
        BY <3>1, <4>1
      <4>2. CASE saving.row[f] = form.record[f]
        BY <3>1, <3>2, <3>3, <4>2 DEF Changed, EditsAreTheirs
      <4> QED BY <4>1, <4>2
    <3> QED BY <1>9, <3>3, QuietIsACall DEF StatusReturns, EditsAreTheirs
  <2>2. CASE UNCHANGED <<form, moved>>
    BY <1>9, <2>2, QuietIsACall DEF StatusReturns, EditsAreTheirs, Changed
  <2> QED BY <1>9, <2>1, <2>2 DEF StatusReturns
<1>10. CASE LeaveForm
  BY <1>10, BegunIsACall, QuietIsACall DEF LeaveForm, EditsAreTheirs
<1>11. ASSUME NEW field \in Fields, setField(field) PROVE EditsAreTheirs'
  <2>1. /\ form # NoForm /\ FormIsAForm /\ saving' = Quiet
        /\ typed' = typed \cup {field} /\ moved' = moved
    BY <1>11 DEF setField, Shown, Sane
  <2>2. form'.record = form.record /\ \A f \in Fields \ {field} : form'.draft[f] = form.draft[f]
    BY <1>11, <2>1, SetsADraft DEF setField
  <2>3. ASSUME NEW f \in Fields, Changed(f)' PROVE f \in typed' \cup moved'
    <3>1. CASE f = field
      BY <2>1, <3>1
    <3>2. CASE f # field
      <4>1. Changed(f)
        BY <2>2, <2>3, <3>2 DEF Changed, Fields
      <4> QED BY <2>1, <4>1 DEF EditsAreTheirs
    <3> QED BY <3>1, <3>2
  <2> QED BY <2>1, <2>3, QuietIsACall DEF EditsAreTheirs
<1>12. ASSUME \/ UNCHANGED formVars
              \/ \E body \in adrift : Lands(body)
              \/ LoadStepper \/ goNext \/ SaveStepReturns \/ goOnline \/ GoOnlineReturns \/ CloseStepper
              \/ \E field \in Fields : Pick(field)
              \/ \E index \in 0 .. SUMMARY_STEP : goToStep(index)
       PROVE  EditsAreTheirs'
  <2>1. UNCHANGED <<form, typed, moved, saving>>
    BY <1>12 DEF formVars, Lands, LoadStepper, goNext, SaveStepReturns, goOnline, GoOnlineReturns,
                 CloseStepper, Pick, goToStep
  <2> QED BY <1>1, <2>1
<1> QED
  BY <1>2, <1>4, <1>5, <1>6, <1>7, <1>8, <1>9, <1>10, <1>11, <1>12 DEF FormNext

(* A save of the profile form carries no value but what the teacher typed on   *)
(* it, or what another tab saved and a status switch's answer brought, for any *)
(* number of edits, calls and faults (Profile.jsx, changedFields).             *)
THEOREM OnlyTheTypedIsSent == FormSpec => []OnlyTypedIsSent
<1>1. EditsAreTheirs => OnlyTypedIsSent
  BY DEF EditsAreTheirs, OnlyTypedIsSent
<1> QED BY <1>1, SaneStarts, SaneGoesOn, EditsStart, EditsGoOn, PTL DEF FormSpec

-----------------------------------------------------------------------------
(* A call to save is of the step the stepper stands on, and an answer to it  *)
(* says that the step is saved; so is every step behind, or marked.          *)
Earned ==
  /\ stepping.op = "save" => /\ DOMAIN stepping.body = {STEPS[step + 1]}
                             /\ stepping.at = "done" => STEPS[step + 1] \in saved
  /\ unmarked \/ \A i \in 1 .. SUMMARY_STEP : (i <= step \/ i <= marker) => STEPS[i] \in saved

LEMMA EarnedStarts == FormInit => Earned
<1> SUFFICES ASSUME FormInit PROVE Earned
  OBVIOUS
<1>1. stepping.op = "load" /\ step = 0 /\ marker = 0
  BY BegunIsACall, QuietIsACall DEF FormInit
<1> QED BY <1>1, TheSteps DEF Earned

LEMMA EarnedGoesOn == Sane /\ Earned /\ [FormNext]_formVars => Earned'
<1> SUFFICES ASSUME Sane, Earned, [FormNext]_formVars PROVE Earned'
  OBVIOUS
<1> USE DEF profileForm, stepper, columns, formCount
<1>1. ASSUME saved \subseteq saved', UNCHANGED <<step, marker, unmarked>>,
             stepping'.op = stepping.op, stepping'.body = stepping.body,
             stepping'.at = "done" => stepping.at = "done" \/ DOMAIN stepping.body \subseteq saved'
      PROVE  Earned'
  BY <1>1 DEF Earned
<1>2. ASSUME stepping'.op # "save", saved' = saved, UNCHANGED unmarked,
             step' = step \/ step' = 0 \/ step' = marker, marker' = marker
      PROVE  Earned'
  <2>1. step \in 0 .. 3 /\ marker \in 0 .. 3
    BY TheSteps DEF Sane
  <2> QED BY <1>2, <2>1, TheSteps DEF Earned
<1>3. CASE Serve
  <2>1. CASE saving.at = "sent" /\ Served(saving) /\ UNCHANGED stepping
    BY <1>1, <1>3, <2>1, ServedIsACall DEF Serve, Served, Sane
  <2>2. CASE stepping.at = "sent" /\ Served(stepping) /\ UNCHANGED saving
    BY <1>1, <1>3, <2>2, ServedIsACall DEF Serve, Served, Sane
  <2> QED BY <1>3, <2>1, <2>2 DEF Serve
<1>4. CASE Lose_Call
  BY <1>1, <1>4, LostIsACall DEF Lose_Call, Lost, Sane
<1>5. ASSUME NEW body \in adrift, Lands(body) PROVE Earned'
  BY <1>1, <1>5 DEF Lands, Saves
<1>6. CASE LoadStepper
  <2>1. CASE Came(stepping, "load") /\ step' = startStepFor(stepping.row) /\ stepping' = Quiet
             /\ unmarked' = (unmarked \/ (onboardingComplete(stepping.row) /\ marker = 0))
    <3>1. marker \in 0 .. 3 /\ saved' = saved /\ marker' = marker
      BY <1>6, TheSteps DEF LoadStepper, Sane
    <3>2. (onboardingComplete(stepping.row) /\ marker = 0) \/ step' = 0 \/ step' = marker
      BY <2>1, <3>1, TheSteps DEF startStepFor
    <3>3. /\ unmarked \/ (onboardingComplete(stepping.row) /\ marker = 0) => unmarked'
      BY <2>1, Zenon
    <3> QED BY <2>1, <3>1, <3>2, <3>3, QuietIsACall, TheSteps DEF Earned
  <2>2. CASE stepping' = Begun("load", NoFields) /\ UNCHANGED <<step, answers, unmarked>>
    BY <1>2, <1>6, <2>2, BegunIsACall, QuietIsACall DEF LoadStepper
  <2> QED BY <1>6, <2>1, <2>2 DEF LoadStepper
<1>7. CASE goNext
  <2>1. /\ stepping'.body = [field \in {STEPS[step + 1]} |-> answers[field]]
        /\ stepping'.at = "sent" /\ UNCHANGED <<step, marker, unmarked, saved>>
    <3>1. step \in 0 .. 2 /\ IsRow(answers)
      BY <1>7, TheSteps DEF goNext, Answering, Sane
    <3>2. IsBody([field \in {STEPS[step + 1]} |-> answers[field]])
      BY <3>1, TheSteps DEF IsBody
    <3> QED BY <1>7, <3>2, BegunIsACall DEF goNext
  <2> QED BY <2>1 DEF Earned
<1>8. CASE SaveStepReturns
  <2>1. stepping'.op # "save" /\ UNCHANGED <<saved, unmarked>>
    BY <1>8, QuietIsACall DEF SaveStepReturns
  <2>2. CASE Came(stepping, "save") /\ step' = step + 1 /\ writeProgress(step + 1)
    <3>1. step \in 0 .. 2 /\ marker \in 0 .. 3 /\ STEPS[step + 1] \in saved
      BY <2>2, TheSteps DEF Came, Sane, Earned
    <3>2. marker' \in {marker, step + 1}
      BY <2>2 DEF writeProgress
    <3>3. unmarked \/ \A i \in 1 .. 3 : (i <= step + 1 \/ i <= marker) => STEPS[i] \in saved
      BY <3>1, TheSteps DEF Earned
    <3> QED BY <2>1, <2>2, <3>1, <3>2, <3>3, TheSteps DEF Earned
  <2>3. CASE StepFails
    BY <1>2, <2>1, <2>3 DEF StepFails
  <2> QED BY <1>8, <2>2, <2>3 DEF SaveStepReturns
<1>9. ASSUME NEW index \in 0 .. SUMMARY_STEP, goToStep(index) PROVE Earned'
  <2>1. index < step /\ step' = index /\ UNCHANGED <<stepping, saved, unmarked, marker>> /\ stepping = Quiet
    BY <1>9 DEF goToStep, Answering
  <2>2. step \in 0 .. 3 /\ index \in 0 .. 3
    BY TheSteps DEF Sane
  <2> QED BY <2>1, <2>2, QuietIsACall, TheSteps DEF Earned
<1>10. CASE goOnline \/ GoOnlineReturns \/ CloseStepper \/ \E field \in Fields : Pick(field)
  <2>1. /\ stepping'.op # "save" /\ UNCHANGED <<saved, unmarked, marker>>
        /\ step' = step \/ step' = 0
    BY <1>10, BegunIsACall, QuietIsACall DEF goOnline, GoOnlineReturns, CloseStepper, OpenStepper, Pick, Answering
  <2> QED BY <1>2, <2>1
<1>11. ASSUME \/ UNCHANGED formVars
              \/ LoadForm \/ submit \/ SaveReturns \/ discard \/ setStatus \/ StatusReturns \/ LeaveForm
              \/ \E field \in Fields : setField(field)
       PROVE  Earned'
  <2>1. UNCHANGED <<stepping, saved, step, marker, unmarked>>
    BY <1>11 DEF formVars, LoadForm, submit, SaveReturns, discard, setStatus, StatusReturns, LeaveForm, setField
  <2> QED BY <1>1, <2>1
<1> QED BY <1>3, <1>4, <1>5, <1>6, <1>7, <1>8, <1>9, <1>10, <1>11 DEF FormNext

(* The stepper stands beyond a step only if the server has that step's answer, *)
(* for any number of calls lost, tabs closed and storage refused, unless it    *)
(* found a complete record and no marker (Onboarding.jsx, goNext).             *)
THEOREM TheStepsAreEarned == FormSpec => []StepsAreEarned
<1>1. Sane /\ Earned => StepsAreEarned
  BY DEF Earned, StepsAreEarned
<1> QED BY <1>1, SaneStarts, SaneGoesOn, EarnedStarts, EarnedGoesOn, PTL DEF FormSpec

-----------------------------------------------------------------------------
(* The wallet.                                                             *)

WalletCalls == [at : {"none", "sent", "taken", "done", "failed"}, page : Nat, rows : Nat]

WalletShapes ==
  /\ entries \in Nat /\ purse \in Nat /\ heard \in Nat /\ highlight \in Nat /\ turned \in Nat
  /\ updates \in Seq(Nat) /\ committed \subseteq Nat
  /\ reading \in WalletCalls /\ buying \in WalletCalls
  /\ paging \in WalletCalls /\ retrying \in WalletCalls

(* Nothing is ahead of the ledger. *)
NoneAhead ==
  /\ entries >= 1 /\ purse <= entries /\ heard <= entries /\ highlight <= entries
  /\ \A row \in committed : row <= entries
  /\ \A i \in DOMAIN updates : updates[i] <= entries
  /\ reading.rows <= entries /\ buying.rows <= entries

(* Every row has reached the tab, will, or never does. *)
Accounted ==
  \A row \in 2 .. entries :
    row <= heard \/ row \in committed \/ row \in untold \/ \E i \in DOMAIN updates : updates[i] = row

LastLanded == purse # 0 /\ ~overtaken => purse = heard

Listed ==
  /\ paging.at \in {"sent", "done"} => paging.page = turned
  /\ paging.at = "done" /\ turned = FIRST_PAGE => paging.rows >= highlight
  /\ (ledger # NoPage /\ ~ledgerError /\ paging = NoCall /\ retrying = NoCall) /\ ~strayed
       => /\ ledger.page = turned
          /\ turned = FIRST_PAGE => ledger.rows >= highlight

WalletInv == WalletShapes /\ NoneAhead /\ Accounted /\ LastLanded /\ Listed

LEMMA CallsMove ==
  ASSUME NEW c \in WalletCalls, entries \in Nat
  PROVE  /\ Read(c) \in WalletCalls /\ Read(c).at = "done" /\ Read(c).page = c.page /\ Read(c).rows = entries
         /\ Fallen(c) \in WalletCalls /\ Fallen(c).at = "failed" /\ Fallen(c).rows = c.rows
  BY DEF WalletCalls, Read, Fallen

LEMMA CallsBegin ==
  /\ NoCall \in WalletCalls /\ NoCall.at = "none" /\ NoCall.rows = 0
  /\ \A page \in Nat : /\ Asked(page) \in WalletCalls /\ Asked(page).at = "sent"
                       /\ Asked(page).page = page /\ Asked(page).rows = 0
  BY DEF WalletCalls, NoCall, Asked

LEMMA WalletStarts == WalletInit => WalletInv
<1> SUFFICES ASSUME WalletInit PROVE WalletInv
  OBVIOUS
<1>1. WalletShapes
  <2>1. updates \in Seq(Nat) /\ committed \subseteq Nat
    BY EmptySeq DEF WalletInit
  <2>2. /\ reading \in WalletCalls /\ buying \in WalletCalls
        /\ paging \in WalletCalls /\ retrying \in WalletCalls
    BY CallsBegin DEF WalletInit, FIRST_PAGE
  <2>3. entries \in Nat /\ purse \in Nat /\ heard \in Nat /\ highlight \in Nat /\ turned \in Nat
    BY DEF WalletInit, FIRST_PAGE
  <2> QED BY <2>1, <2>2, <2>3 DEF WalletShapes
<1>2. NoneAhead
  BY CallsBegin DEF WalletInit, NoneAhead, FIRST_PAGE
<1>3. Accounted /\ LastLanded
  BY DEF WalletInit, Accounted, LastLanded
<1>4. Listed
  BY CallsBegin DEF WalletInit, Listed, FIRST_PAGE
<1> QED
  BY <1>1, <1>2, <1>3, <1>4 DEF WalletInv

(* What a step leaves alone keeps what is said of it. *)
LEMMA WalletStays ==
  ASSUME WalletInv
  PROVE  /\ UNCHANGED <<turned, ledger, ledgerError, paging, retrying, highlight, strayed>> => Listed'
         /\ UNCHANGED <<purse, heard, overtaken>> => LastLanded'
         /\ UNCHANGED <<entries, heard, committed, untold, updates>> => Accounted'
         /\ UNCHANGED <<entries, purse, heard, highlight, committed, updates>>
              /\ reading'.rows <= entries /\ buying'.rows <= entries => NoneAhead'
         /\ UNCHANGED <<entries, purse, heard, highlight, turned, overtaken, updates, committed>>
              /\ reading' \in WalletCalls /\ buying' \in WalletCalls
              /\ paging' \in WalletCalls /\ retrying' \in WalletCalls => WalletShapes'
<1>1. WalletShapes /\ NoneAhead /\ Accounted /\ LastLanded /\ Listed
  BY DEF WalletInv
<1>2. UNCHANGED <<turned, ledger, ledgerError, paging, retrying, highlight, strayed>> => Listed'
  BY <1>1 DEF Listed
<1>3. UNCHANGED <<purse, heard, overtaken>> => LastLanded'
  BY <1>1 DEF LastLanded
<1>4. UNCHANGED <<entries, heard, committed, untold, updates>> => Accounted'
  BY <1>1 DEF Accounted
<1>5. UNCHANGED <<entries, purse, heard, highlight, committed, updates>>
        /\ reading'.rows <= entries /\ buying'.rows <= entries => NoneAhead'
  BY <1>1 DEF NoneAhead
<1>6. UNCHANGED <<entries, purse, heard, highlight, turned, overtaken, updates, committed>>
        /\ reading' \in WalletCalls /\ buying' \in WalletCalls
        /\ paging' \in WalletCalls /\ retrying' \in WalletCalls => WalletShapes'
  BY <1>1 DEF WalletShapes
<1> QED BY <1>2, <1>3, <1>4, <1>5, <1>6

(* One more row, of which the tab is to be told or never is. *)
LEMMA LedgerGrows ==
  ASSUME WalletInv, entries' = entries + 1,
         UNCHANGED <<updates, purse, reading, heard, overtaken, turned, ledger, ledgerError, paging, retrying,
                     highlight, strayed>>,
         \/ untold' = untold \cup {entries + 1} /\ committed' = committed
         \/ committed' = committed \cup {entries + 1} /\ untold' = untold,
         buying' \in WalletCalls, buying'.rows <= entries + 1
  PROVE  WalletInv'
<1>1. WalletShapes /\ NoneAhead /\ Accounted
  BY DEF WalletInv
<1>2. WalletShapes'
  <2>1. entries' \in Nat /\ committed' \subseteq Nat
    <3>1. entries \in Nat /\ entries + 1 \in Nat /\ committed \subseteq Nat
      BY <1>1 DEF WalletShapes
    <3> QED BY <3>1
  <2>2. /\ purse' \in Nat /\ heard' \in Nat /\ highlight' \in Nat /\ turned' \in Nat
        /\ updates' \in Seq(Nat)
        /\ reading' \in WalletCalls /\ paging' \in WalletCalls /\ retrying' \in WalletCalls
    BY <1>1 DEF WalletShapes
  <2> QED BY <2>1, <2>2 DEF WalletShapes
<1>3. NoneAhead'
  <2>1. /\ entries \in Nat /\ purse \in Nat /\ heard \in Nat /\ highlight \in Nat /\ reading.rows \in Nat
        /\ committed \subseteq Nat
    BY <1>1 DEF WalletShapes, WalletCalls
  <2>2. \A i \in DOMAIN updates : updates[i] \in Nat
    <3>1. updates \in Seq(Nat)
      BY <1>1 DEF WalletShapes
    <3> QED BY <3>1, LenProperties
  <2>3. /\ entries' >= 1 /\ purse' <= entries' /\ heard' <= entries' /\ highlight' <= entries'
        /\ reading'.rows <= entries' /\ buying'.rows <= entries'
    BY <1>1, <2>1 DEF NoneAhead
  <2>4. ASSUME NEW row \in committed' PROVE row <= entries'
    <3>1. CASE row \in committed
      <4>1. row \in Nat /\ row <= entries
        BY <1>1, <2>1, <3>1 DEF NoneAhead
      <4> QED BY <2>1, <4>1
    <3>2. CASE row = entries + 1
      BY <2>1, <3>2
    <3> QED BY <3>1, <3>2
  <2>5. \A i \in DOMAIN updates' : updates'[i] <= entries'
    <3>1. \A i \in DOMAIN updates : updates[i] <= entries
      BY <1>1 DEF NoneAhead
    <3> QED BY <2>1, <2>2, <3>1
  <2> QED BY <2>3, <2>4, <2>5 DEF NoneAhead
<1>4. Accounted'
  <2>1. entries \in Nat
    BY <1>1 DEF WalletShapes
  <2> QED BY <1>1, <2>1 DEF Accounted
<1> QED BY <1>2, <1>3, <1>4, WalletStays DEF WalletInv

(* A balance reaches the tab and is shown, or merged into nothing. *)
LEMMA BalanceLands ==
  ASSUME WalletInv, NEW row \in Nat, row <= entries, Tells(row), UNCHANGED <<entries, committed, untold>>,
         purse' = row \/ purse' = 0,
         \A r \in Nat : (\E i \in DOMAIN updates : updates[i] = r)
                           => r = row \/ \E i \in DOMAIN updates' : updates'[i] = r
  PROVE  /\ Accounted' /\ LastLanded'
         /\ heard' \in Nat /\ heard' <= entries /\ purse' \in Nat /\ purse' <= entries
<1>1. entries \in Nat /\ heard \in Nat /\ heard <= entries /\ Accounted
  BY DEF WalletInv, WalletShapes, NoneAhead
<1>2. heard' \in Nat /\ heard' <= entries /\ heard' >= heard /\ heard' >= row
  BY <1>1 DEF Tells
<1>3. purse' \in Nat /\ purse' <= entries
  BY <1>1
<1>4. Accounted'
  BY <1>1, <1>2 DEF Accounted
<1>5. ~overtaken' => heard' = row
  <2>1. CASE row < heard
    <3>1. overtaken' = TRUE
      BY <1>1, <2>1 DEF Tells
    <3> QED BY <3>1
  <2>2. CASE ~(row < heard)
    BY <1>1, <2>2 DEF Tells
  <2> QED BY <2>1, <2>2
<1>6. LastLanded'
  BY <1>5 DEF LastLanded
<1> QED BY <1>2, <1>3, <1>4, <1>5, <1>6

LEMMA WalletGoesOn == WalletInv /\ [WalletNext]_walletVars => WalletInv'
<1> SUFFICES ASSUME WalletInv, [WalletNext]_walletVars PROVE WalletInv'
  OBVIOUS
<1> USE DEF balances, listing, atServer, walletCount
<1>1. /\ entries \in Nat /\ heard \in Nat /\ turned \in Nat /\ highlight \in Nat /\ highlight <= entries
      /\ purse \in Nat /\ purse <= entries /\ heard <= entries /\ entries >= 1
  BY DEF WalletInv, WalletShapes, NoneAhead
<1>2. /\ reading \in WalletCalls /\ buying \in WalletCalls /\ paging \in WalletCalls /\ retrying \in WalletCalls
      /\ reading.rows <= entries /\ buying.rows <= entries /\ reading.rows \in Nat /\ buying.rows \in Nat
  BY DEF WalletInv, WalletShapes, NoneAhead, WalletCalls
<1>3. /\ updates \in Seq(Nat) /\ committed \subseteq Nat
      /\ \A row \in committed : row <= entries
      /\ \A i \in DOMAIN updates : updates[i] <= entries
  BY DEF WalletInv, WalletShapes, NoneAhead
<1>4. Accounted /\ Listed
  BY DEF WalletInv
<1>5. CASE UNCHANGED walletVars
  BY <1>2, <1>5, WalletStays DEF walletVars, WalletInv
<1>6. CASE SessionPays \/ AnotherTabTopsUp
  <2>1. buying'.rows <= entries + 1 /\ buying' \in WalletCalls
    BY <1>1, <1>2, <1>6 DEF SessionPays, AnotherTabTopsUp
  <2> QED BY <1>6, <2>1, LedgerGrows DEF SessionPays, AnotherTabTopsUp, CreditWallet
<1>7. CASE TopUpCommits
  <2>1. buying' = [buying EXCEPT !.at = "taken", !.rows = entries + 1]
    BY <1>7 DEF TopUpCommits, CreditWallet
  <2>2. entries + 1 \in Nat
    BY <1>1
  <2>3. buying' \in WalletCalls /\ buying'.rows = entries + 1
    BY <1>2, <2>1, <2>2 DEF WalletCalls
  <2>4. buying'.rows <= entries + 1
    BY <2>2, <2>3
  <2> QED BY <1>7, <2>3, <2>4, LedgerGrows DEF TopUpCommits, CreditWallet
<1>8. ASSUME NEW row \in committed, TopUpAnswers(row) PROVE WalletInv'
  <2>1. /\ committed' = committed \ {row} /\ emitWalletUpdated(row)
        /\ UNCHANGED <<entries, purse, reading, heard, overtaken, listing>>
    BY <1>8 DEF TopUpAnswers
  <2>2. buying' \in WalletCalls /\ buying'.rows = buying.rows
    BY <1>2, <1>8 DEF TopUpAnswers, WalletCalls
  <2>3. row \in Nat /\ row <= entries
    BY <1>3
  <2>4. /\ updates' \in Seq(Nat)
        /\ \A i \in DOMAIN updates' : updates'[i] <= entries
        /\ \A i \in DOMAIN updates : i \in DOMAIN updates' /\ updates'[i] = updates[i]
        /\ row \in untold' \/ \E i \in DOMAIN updates' : updates'[i] = row
        /\ untold \subseteq untold'
    <3>1. CASE updates' = Append(updates, row) /\ untold' = untold
      <4>1. /\ updates' \in Seq(Nat) /\ Len(updates') = Len(updates) + 1 /\ updates'[Len(updates) + 1] = row
            /\ \A i \in 1 .. Len(updates) : updates'[i] = updates[i]
        BY <1>3, <2>3, <3>1, AppendProperties
      <4>2. DOMAIN updates = 1 .. Len(updates) /\ DOMAIN updates' = 1 .. (Len(updates) + 1) /\ Len(updates) \in Nat
        BY <1>3, <4>1, LenProperties
      <4> QED BY <1>3, <2>3, <3>1, <4>1, <4>2
    <3>2. CASE untold' = untold \cup {row} /\ updates' = updates
      BY <1>3, <3>2
    <3> QED BY <2>1, <3>1, <3>2 DEF emitWalletUpdated
  <2>5. Accounted'
    BY <1>4, <2>1, <2>4 DEF Accounted
  <2>6. WalletShapes'
    BY <1>1, <1>2, <1>3, <2>1, <2>2, <2>4 DEF WalletShapes
  <2>7. NoneAhead'
    BY <1>1, <1>2, <1>3, <2>1, <2>2, <2>4 DEF NoneAhead
  <2> QED BY <2>1, <2>5, <2>6, <2>7, WalletStays DEF WalletInv
<1>9. CASE WalletReads \/ WalletCallLost
  <2>1. /\ UNCHANGED <<entries, committed, updates, untold, purse, heard, overtaken, turned, ledger,
                       ledgerError, highlight, strayed>>
        /\ reading' \in {reading, Read(reading), Fallen(reading)}
        /\ buying' \in {buying, Fallen(buying)}
        /\ \/ paging' = paging
           \/ paging.at = "sent" /\ paging' = Read(paging)
           \/ paging' = Fallen(paging)
        /\ retrying' \in {retrying, Read(retrying), Fallen(retrying)}
    BY <1>9 DEF WalletReads, WalletCallLost
  <2>2. /\ reading' \in WalletCalls /\ buying' \in WalletCalls
        /\ paging' \in WalletCalls /\ retrying' \in WalletCalls
        /\ reading'.rows <= entries /\ buying'.rows <= entries
    BY <1>1, <1>2, <2>1, CallsMove
  <2>3. /\ paging'.at \in {"sent", "done"} => paging'.page = turned
        /\ paging'.at = "done" /\ turned = FIRST_PAGE => paging'.rows >= highlight
    BY <1>1, <1>2, <1>4, <2>1, CallsMove DEF Listed
  <2>4. (paging' = NoCall => paging = NoCall) /\ (retrying' = NoCall => retrying = NoCall)
    BY <1>1, <1>2, <2>1, CallsMove, CallsBegin
  <2>5. Listed'
    BY <1>4, <2>1, <2>3, <2>4 DEF Listed
  <2> QED BY <2>1, <2>2, <2>5, WalletStays DEF WalletInv
<1>10. CASE WalletLink
  <2>1. /\ \/ updates' = <<>> /\ untold' = untold \cup {updates[i] : i \in DOMAIN updates}
           \/ UNCHANGED <<updates, untold>>
        /\ UNCHANGED <<entries, committed, balances, listing>>
    BY <1>10 DEF WalletLink
  <2>2. updates' \in Seq(Nat) /\ \A i \in DOMAIN updates' : updates'[i] <= entries
    <3>1. DOMAIN <<>> = {} /\ <<>> \in Seq(Nat)
      BY EmptySeq
    <3> QED BY <1>3, <2>1, <3>1
  <2>3. Accounted'
    BY <1>4, <2>1 DEF Accounted
  <2>4. WalletShapes'
    BY <1>1, <1>2, <1>3, <2>1, <2>2 DEF WalletShapes
  <2>5. NoneAhead'
    BY <1>1, <1>2, <1>3, <2>1, <2>2 DEF NoneAhead
  <2> QED BY <2>1, <2>3, <2>4, <2>5, WalletStays DEF WalletInv
<1>11. CASE ReadReturns
  <2>1. UNCHANGED <<entries, committed, updates, untold, buying, listing>> /\ reading' = NoCall
    BY <1>11 DEF ReadReturns
  <2>2. CASE reading.at = "done" /\ purse' = reading.rows /\ Tells(reading.rows)
    <3>1. /\ Accounted' /\ LastLanded'
          /\ heard' \in Nat /\ heard' <= entries /\ purse' \in Nat /\ purse' <= entries
      BY <1>2, <2>1, <2>2, BalanceLands
    <3>2. WalletShapes'
      BY <1>1, <1>2, <1>3, <2>1, <3>1, CallsBegin DEF WalletShapes
    <3>3. NoneAhead'
      BY <1>1, <1>2, <1>3, <2>1, <3>1, CallsBegin DEF NoneAhead
    <3> QED BY <2>1, <3>1, <3>2, <3>3, WalletStays DEF WalletInv
  <2>3. CASE UNCHANGED <<purse, heard, overtaken>>
    BY <1>1, <1>2, <2>1, <2>3, CallsBegin, WalletStays DEF WalletInv
  <2> QED BY <1>11, <2>2, <2>3 DEF ReadReturns
<1>12. CASE LoadAgain
  <2>1. UNCHANGED <<entries, committed, updates, untold, purse, heard, overtaken, buying, listing>> /\ reading' = Asked(0)
    BY <1>12 DEF LoadAgain
  <2> QED BY <1>1, <1>2, <2>1, CallsBegin, WalletStays DEF WalletInv
<1>13. CASE HearUpdated
  <2>1. /\ UNCHANGED <<entries, committed, untold, reading, buying, listing>>
        /\ updates # <<>> /\ updates' = Tail(updates) /\ Tells(Head(updates))
        /\ purse' \in {0, Head(updates)}
    BY <1>13 DEF HearUpdated, Merged
  <2>2. /\ updates' \in Seq(Nat)
        /\ Head(updates) = updates[1] /\ Len(updates) \in Nat \ {0}
        /\ DOMAIN updates = 1 .. Len(updates) /\ DOMAIN updates' = 1 .. (Len(updates) - 1)
        /\ \A i \in DOMAIN updates' : updates'[i] = updates[i + 1]
    BY <1>3, <2>1, EmptySeq, HeadTailProperties, LenProperties
  <2>3. Head(updates) \in Nat /\ Head(updates) <= entries
    BY <1>3, <2>2
  <2>4. ASSUME NEW i \in DOMAIN updates' PROVE updates'[i] <= entries
    <3>1. i + 1 \in DOMAIN updates
      BY <2>2
    <3> QED BY <1>3, <2>2, <3>1
  <2>5. ASSUME NEW r \in Nat, NEW i \in DOMAIN updates, updates[i] = r
        PROVE  r = Head(updates) \/ \E j \in DOMAIN updates' : updates'[j] = r
    <3>1. CASE i = 1
      BY <2>2, <2>5, <3>1
    <3>2. CASE i # 1
      <4>1. i - 1 \in DOMAIN updates' /\ updates'[i - 1] = r
        BY <2>2, <2>5, <3>2
      <4> QED BY <4>1
    <3> QED BY <3>1, <3>2
  <2>6. /\ Accounted' /\ LastLanded'
        /\ heard' \in Nat /\ heard' <= entries /\ purse' \in Nat /\ purse' <= entries
    <3>1. purse' = Head(updates) \/ purse' = 0
      BY <2>1
    <3> HIDE DEF Accounted
    <3> QED BY <2>1, <2>3, <2>5, <3>1, BalanceLands
  <2>7. WalletShapes'
    BY <1>1, <1>2, <1>3, <2>1, <2>2, <2>6 DEF WalletShapes
  <2>8. NoneAhead'
    BY <1>1, <1>2, <1>3, <2>1, <2>4, <2>6 DEF NoneAhead
  <2> QED BY <2>1, <2>6, <2>7, <2>8, WalletStays DEF WalletInv
<1>14. CASE handleTopUp
  <2>1. UNCHANGED <<entries, committed, updates, untold, purse, heard, overtaken, reading, listing>> /\ buying' = Asked(0)
    BY <1>14 DEF handleTopUp
  <2> QED BY <1>1, <1>2, <2>1, CallsBegin, WalletStays DEF WalletInv
<1>15. CASE TopUpReturns
  <2>1. UNCHANGED <<entries, committed, updates, untold, reading, ledger, retrying, strayed>> /\ buying' = NoCall
    BY <1>15 DEF TopUpReturns
  <2>2. CASE /\ buying.at = "done" /\ purse' = buying.rows /\ Tells(buying.rows)
             /\ highlight' = buying.rows /\ ReadsAgain(FIRST_PAGE)
    <3>1. /\ Accounted' /\ LastLanded'
          /\ heard' \in Nat /\ heard' <= entries /\ purse' \in Nat /\ purse' <= entries
      BY <1>2, <2>1, <2>2, BalanceLands
    <3>2. turned' = 1 /\ paging' = Asked(1)
      BY <2>2 DEF ReadsAgain, SetQuery, FIRST_PAGE
    <3>3. WalletShapes'
      BY <1>1, <1>2, <1>3, <2>1, <2>2, <3>1, <3>2, CallsBegin DEF WalletShapes
    <3>4. NoneAhead'
      BY <1>1, <1>2, <1>3, <2>1, <2>2, <3>1, CallsBegin DEF NoneAhead
    <3>5. Listed'
      BY <3>2, CallsBegin DEF Listed
    <3> QED BY <3>1, <3>3, <3>4, <3>5 DEF WalletInv
  <2>3. CASE UNCHANGED <<purse, heard, overtaken, highlight, turned, paging, ledgerError>>
    BY <1>1, <1>2, <2>1, <2>3, CallsBegin, WalletStays DEF WalletInv
  <2> QED BY <1>15, <2>2, <2>3 DEF TopUpReturns
<1>16. ASSUME NEW page \in {1, 2}, onPageChange(page) PROVE WalletInv'
  <2>1. /\ UNCHANGED <<entries, committed, updates, untold, balances, ledger, retrying, highlight, strayed>>
        /\ turned' = page /\ paging' = Asked(page)
    BY <1>16 DEF onPageChange, SetQuery
  <2>2. WalletShapes'
    BY <1>1, <1>2, <1>3, <2>1, CallsBegin DEF WalletShapes
  <2>3. Listed'
    BY <2>1, CallsBegin DEF Listed
  <2> QED BY <1>2, <2>1, <2>2, <2>3, WalletStays DEF WalletInv
<1>17. CASE PageReturns \/ RetryPage \/ RetryReturns
  <2>1. /\ UNCHANGED <<entries, committed, updates, untold, balances, turned, highlight>>
        /\ paging' \in WalletCalls /\ retrying' \in WalletCalls
    BY <1>1, <1>2, <1>17, CallsBegin DEF PageReturns, RetryPage, RetryReturns
  <2>2. Listed'
    <3>1. CASE PageReturns
      BY <1>4, <3>1, CallsBegin DEF PageReturns, Shows, Listed
    <3>2. CASE RetryPage
      BY <1>1, <1>4, <3>2, CallsBegin DEF RetryPage, Listed
    <3>3. CASE RetryReturns
      BY <1>4, <3>3, CallsBegin DEF RetryReturns, Shows, Listed
    <3> QED BY <1>17, <3>1, <3>2, <3>3
  <2> QED BY <1>2, <2>1, <2>2, WalletStays DEF WalletInv
<1> QED
  BY <1>5, <1>6, <1>7, <1>8, <1>9, <1>10, <1>11, <1>12, <1>13, <1>14, <1>15, <1>16, <1>17 DEF WalletNext

(* Once everything has come through, the balance is the last one and the list  *)
(* is of the page shown with this tab's new row on it, up to the exceptions the *)
(* property names, for any number of top-ups, charges, frames and lost calls    *)
(* (Wallet.jsx, handleTopUp, loadLedger).                                       *)
THEOREM TheWalletIsCurrent == WalletSpec => []WalletIsCurrent
<1>1. WalletInv => BalanceIsCurrent
  <2> SUFFICES ASSUME WalletInv, purse # 0, committed = {}, updates = <<>>, ~overtaken, purse # entries
               PROVE  \E row \in untold : row > purse
    BY DEF BalanceIsCurrent
  <2>1. purse \in Nat /\ entries \in Nat /\ purse < entries /\ purse = heard
    BY DEF WalletInv, WalletShapes, NoneAhead, LastLanded
  <2>2. entries \in 2 .. entries /\ ~(entries <= heard)
    BY <2>1
  <2>3. DOMAIN updates = {}
    OBVIOUS
  <2>4. entries \in untold
    BY <2>2, <2>3 DEF WalletInv, Accounted
  <2> QED BY <2>1, <2>4
<1>2. WalletInv => NewRowIsListed
  BY DEF WalletInv, Listed, NewRowIsListed
<1> QED BY <1>1, <1>2, WalletStarts, WalletGoesOn, PTL DEF WalletSpec, WalletIsCurrent

-----------------------------------------------------------------------------
(* Presence.                                                               *)

Statuses == {"OFFLINE", "ONLINE", "OFFER_LOCKED", "IN_SESSION"}
Beats    == {Never} \cup Nat

PresenceShapes ==
  /\ status \in [Teachers -> Statuses]
  /\ lastSeen \in [Teachers -> Beats] /\ lastWritten \in [Teachers -> Beats]
  /\ seen \in [Teachers -> Beats] /\ gone \in [Teachers -> Beats] /\ warned \in [Teachers -> Beats]
  /\ open \in [Teachers -> SUBSET Tabs]
  /\ touches \subseteq [teacher : Teachers, at : Nat]
  /\ timers \subseteq [teacher : Teachers, due : Nat]
  /\ leaving \subseteq Teachers
  /\ now \in Nat /\ moves \in Nat /\ faults \in Nat
  /\ cron.stage = "due" => cron.beats \subseteq Teachers \X Beats

USE PresenceAssumption

LEMMA ShapesStart == Init => PresenceShapes
  BY DEF Init, PresenceShapes, Statuses, Beats, Never, Idle

LEMMA BeatsPrune ==
  ASSUME warned \in [Teachers -> Beats]
  PROVE  prune(warned) \in [Teachers -> Beats]
  BY DEF prune, Beats

LEMMA ActivityShapes ==
  ASSUME PresenceShapes, NEW t \in Teachers, NEW force \in BOOLEAN, recordTeacherActivity(t, force)
  PROVE  /\ seen' \in [Teachers -> Beats] /\ lastWritten' \in [Teachers -> Beats]
         /\ touches' \subseteq [teacher : Teachers, at : Nat]
<1>1. /\ now \in Beats /\ now \in Nat
      /\ seen \in [Teachers -> Beats] /\ lastWritten \in [Teachers -> Beats]
      /\ touches \subseteq [teacher : Teachers, at : Nat]
  BY DEF PresenceShapes, Beats
<1> QED BY <1>1 DEF recordTeacherActivity

LEMMA ShapesGoOn == PresenceShapes /\ [Next]_vars => PresenceShapes'
<1> SUFFICES ASSUME PresenceShapes, [Next]_vars PROVE PresenceShapes'
  OBVIOUS
<1> USE DEF rows, memory, ghosts
<1>1. CASE UNCHANGED vars
  BY <1>1 DEF vars, PresenceShapes
<1>2. ASSUME NEW t \in Teachers, Move(t) PROVE PresenceShapes'
  <2>1. moves' \in Nat
    BY <1>2 DEF Move, PresenceShapes
  <2>2. ASSUME NEW tab \in Tabs, Connect(t, tab) PROVE PresenceShapes'
    BY <2>1, <2>2, ActivityShapes DEF Connect, PresenceShapes, Beats
  <2>3. ASSUME NEW tab \in Tabs, Disconnect(t, tab) PROVE PresenceShapes'
    <3>1. /\ now \in Beats
          /\ timers' \subseteq [teacher : Teachers, due : Nat]
      BY <2>3 DEF Disconnect, graceEnds, PresenceShapes, Beats
    <3>2. open' \in [Teachers -> SUBSET Tabs] /\ gone' \in [Teachers -> Beats]
      BY <2>3, <3>1 DEF Disconnect, PresenceShapes
    <3> QED BY <2>1, <2>3, <3>1, <3>2 DEF Disconnect, PresenceShapes
  <2>4. CASE Heartbeat(t)
    BY <2>1, <2>4, ActivityShapes DEF Heartbeat, PresenceShapes
  <2>5. CASE LoginOrLogout(t)
    BY <2>1, <2>5 DEF LoginOrLogout, PresenceShapes
  <2>6. ASSUME NEW next \in {"ONLINE", "OFFLINE"}, PatchStatus(t, next) PROVE PresenceShapes'
    <3>1. status' \in [Teachers -> Statuses] /\ gone' \in [Teachers -> Beats]
      BY <2>6 DEF PatchStatus, PresenceShapes, Statuses, Beats
    <3> QED BY <2>1, <2>6, <3>1, ActivityShapes DEF PatchStatus, publishTeacherStatus, PresenceShapes
  <2>7. CASE Marketplace(t)
    <3>1. status' \in [Teachers -> Statuses]
      BY <2>7 DEF Marketplace, LockForOffer, AnswerReleases, ReleasedByTheSystem, StartSession,
                  PresenceShapes, Statuses
    <3>2. CASE LockForOffer(t) \/ ReleasedByTheSystem(t)
      BY <2>1, <3>1, <3>2 DEF LockForOffer, ReleasedByTheSystem, PresenceShapes
    <3>3. CASE AnswerReleases(t) \/ StartSession(t)
      BY <2>1, <3>1, <3>3, ActivityShapes DEF AnswerReleases, StartSession, publishTeacherStatus, PresenceShapes
    <3> QED BY <2>7, <3>2, <3>3 DEF Marketplace
  <2> QED BY <1>2, <2>2, <2>3, <2>4, <2>5, <2>6, <2>7 DEF Move, Browser
<1>3. CASE Writes
  <2>1. ASSUME NEW w \in touches, TouchLastSeenAt(w) PROVE PresenceShapes'
    <3>1. w.teacher \in Teachers /\ w.at \in Beats
      BY DEF PresenceShapes, Beats
    <3>2. lastSeen' \in [Teachers -> Beats] /\ touches' \subseteq touches
      BY <2>1, <3>1 DEF TouchLastSeenAt, PresenceShapes
    <3> QED BY <2>1, <3>2 DEF TouchLastSeenAt, PresenceShapes
  <2>2. ASSUME NEW t \in leaving, TakeTeacherOffline(t) PROVE PresenceShapes'
    <3>1. status' \in [Teachers -> Statuses] /\ leaving' \subseteq Teachers
      BY <2>2 DEF TakeTeacherOffline, PresenceShapes, Statuses
    <3> QED BY <2>2, <3>1 DEF TakeTeacherOffline, PresenceShapes
  <2>3. ASSUME NEW timer \in timers, TimerFires(timer) PROVE PresenceShapes'
    <3>1. timer.teacher \in Teachers
      BY DEF PresenceShapes
    <3>2. leaving' \subseteq Teachers /\ timers' \subseteq timers
      BY <2>3, <3>1 DEF TimerFires, PresenceShapes
    <3> QED BY <2>3, <3>2 DEF TimerFires, PresenceShapes
  <2> QED BY <1>3, <2>1, <2>2, <2>3 DEF Writes
<1>4. CASE Faults
  <2>1. faults' = faults + 1 /\ faults + 1 \in Nat
    BY <1>4 DEF Faults, TouchFails, TakeOfflineFails, JobStageFails, Restart, PresenceShapes
  <2>2. CASE (\E w \in touches : TouchFails(w)) \/ (\E t \in leaving : TakeOfflineFails(t)) \/ JobStageFails
    <3>1. /\ touches' \subseteq touches /\ leaving' \subseteq leaving
          /\ UNCHANGED <<rows, lastWritten, seen, gone, warned, open, timers, now, moves>>
          /\ cron' = cron \/ cron'.stage # "due"
      BY <2>2 DEF TouchFails, TakeOfflineFails, JobStageFails, Idle
    <3> QED BY <2>1, <3>1 DEF PresenceShapes
  <2>3. CASE Restart
    BY <2>1, <2>3 DEF Restart, PresenceShapes, Beats, Idle
  <2> QED BY <1>4, <2>2, <2>3 DEF Faults
<1>5. CASE Job
  <2>1. CASE FindDue
    <3>1. cron'.beats \subseteq Teachers \X Beats
      BY <2>1 DEF FindDue, findTeachersDueForAwayWarning, PresenceShapes
    <3> QED BY <2>1, <3>1, BeatsPrune DEF FindDue, PresenceShapes
  <2>2. CASE WarnIdleTeachers
    <3> DEFINE fresh == notYetWarned(cron.beats)
    <3>1. cron.beats \subseteq Teachers \X Beats /\ fresh \subseteq cron.beats
      BY <2>2 DEF WarnIdleTeachers, PresenceShapes, notYetWarned
    <3>2. ASSUME NEW t \in Teachers, \E b \in fresh : b[1] = t
          PROVE  (CHOOSE b \in fresh : b[1] = t)[2] \in Beats
      BY <3>1, <3>2
    <3>3. warned' = [t \in Teachers |-> IF \E b \in fresh : b[1] = t
                                        THEN (CHOOSE b \in fresh : b[1] = t)[2]
                                        ELSE warned[t]]
      BY <2>2 DEF WarnIdleTeachers
    <3>4. warned' \in [Teachers -> Beats]
      BY <3>2, <3>3 DEF PresenceShapes
    <3>5. cron'.stage # "due"
      BY <2>2 DEF WarnIdleTeachers
    <3> QED BY <2>2, <3>4, <3>5 DEF WarnIdleTeachers, PresenceShapes
  <2>3. CASE SweepFind
    BY <2>3 DEF SweepFind, PresenceShapes, Idle
  <2>4. CASE SweepUpdate
    <3>1. status' \in [Teachers -> Statuses]
      BY <2>4 DEF SweepUpdate, PresenceShapes, Statuses
    <3> QED BY <2>4, <3>1 DEF SweepUpdate, PresenceShapes, Idle
  <2> QED BY <1>5, <2>1, <2>2, <2>3, <2>4 DEF Job
<1>6. CASE Tick
  BY <1>6 DEF Tick, PresenceShapes
<1> QED BY <1>1, <1>2, <1>3, <1>4, <1>5, <1>6 DEF Next

(* A teacher who has gone and is still listed: the clock is within the grace,  *)
(* and the timer of that departure, or the write it became, is on its way.     *)
Departing(t) ==
  /\ gone[t] # Never => open[t] = {}
  /\ (status[t] # "OFFLINE" /\ gone[t] # Never /\ t \notin spared)
       => /\ now <= gone[t] + Grace
          /\ t \in leaving \/ [teacher |-> t, due |-> gone[t] + Grace] \in timers

DeparturesAreWatched == \A t \in Teachers : Departing(t)

LEMMA DeparturesStart == Init => DeparturesAreWatched
  BY DEF Init, DeparturesAreWatched, Departing

(* A step that takes nothing back from a teacher. *)
LEMMA StillDeparting ==
  ASSUME NEW t \in Teachers, Departing(t),
         \/ gone'[t] = gone[t] /\ open'[t] = open[t]
         \/ gone'[t] = Never,
         status'[t] # "OFFLINE" => status[t] # "OFFLINE" \/ gone'[t] = Never,
         t \in spared => t \in spared' \/ gone'[t] = Never,
         leaving \subseteq leaving', timers \subseteq timers', now' = now
  PROVE  Departing(t)'
  BY DEF Departing

LEMMA DeparturesGoOn == PresenceShapes /\ DeparturesAreWatched /\ [Next]_vars => DeparturesAreWatched'
<1> SUFFICES ASSUME PresenceShapes, DeparturesAreWatched, [Next]_vars, NEW t \in Teachers PROVE Departing(t)'
  BY DEF DeparturesAreWatched
<1> USE DEF rows, memory, ghosts
<1>1. Departing(t)
  BY DEF DeparturesAreWatched
<1>2. /\ status \in [Teachers -> Statuses] /\ gone \in [Teachers -> Beats]
      /\ open \in [Teachers -> SUBSET Tabs] /\ now \in Nat /\ Grace \in Nat
  BY DEF PresenceShapes
<1>3. CASE UNCHANGED vars
  BY <1>1, <1>3, StillDeparting DEF vars
<1>4. ASSUME NEW x \in Teachers, Move(x) PROVE Departing(t)'
  <2>1. ASSUME NEW tab \in Tabs, Connect(x, tab) PROVE Departing(t)'
    BY <1>1, <1>2, <2>1, StillDeparting DEF Connect
  <2>2. ASSUME NEW tab \in Tabs, Disconnect(x, tab) PROVE Departing(t)'
    <3>1. /\ open' = [open EXCEPT ![x] = @ \ {tab}]
          /\ timers' = timers \cup {[teacher |-> x, due |-> now + Grace]}
          /\ UNCHANGED <<status, leaving, now>>
      BY <2>2 DEF Disconnect, graceEnds
    <3>2. CASE x = t /\ open[t] = {tab}
      <4>1. gone'[t] = now /\ open'[t] = {} /\ [teacher |-> t, due |-> now + Grace] \in timers'
        BY <1>2, <2>2, <3>1, <3>2 DEF Disconnect
      <4> QED BY <1>2, <3>1, <4>1 DEF Departing
    <3>3. CASE x = t /\ open[t] # {tab}
      <4>1. gone' = gone /\ spared' = spared /\ open[t] # {}
        BY <2>2, <3>3 DEF Disconnect
      <4> QED BY <1>1, <4>1 DEF Departing
    <3>4. CASE x # t
      <4>1. gone'[t] = gone[t] /\ open'[t] = open[t] /\ (t \in spared => t \in spared')
        BY <1>2, <2>2, <3>4 DEF Disconnect
      <4> QED BY <1>1, <3>1, <4>1, StillDeparting
    <3> QED BY <3>2, <3>3, <3>4
  <2>3. CASE Heartbeat(x) \/ LoginOrLogout(x)
    BY <1>1, <2>3, StillDeparting DEF Heartbeat, LoginOrLogout
  <2>4. ASSUME NEW next \in {"ONLINE", "OFFLINE"}, PatchStatus(x, next) PROVE Departing(t)'
    BY <1>1, <1>2, <2>4, StillDeparting DEF PatchStatus
  <2>5. CASE Marketplace(x)
    <3>1. /\ UNCHANGED <<gone, open, spared, leaving, timers, now>>
          /\ status'[t] # "OFFLINE" => status[t] # "OFFLINE"
      BY <1>2, <2>5 DEF Marketplace, LockForOffer, AnswerReleases, ReleasedByTheSystem, StartSession
    <3> QED BY <1>1, <3>1, StillDeparting
  <2> QED BY <1>4, <2>1, <2>2, <2>3, <2>4, <2>5 DEF Move, Browser
<1>5. CASE Writes
  <2>1. ASSUME NEW w \in touches, TouchLastSeenAt(w) PROVE Departing(t)'
    BY <1>1, <2>1, StillDeparting DEF TouchLastSeenAt
  <2>2. ASSUME NEW x \in leaving, TakeTeacherOffline(x) PROVE Departing(t)'
    <3>1. UNCHANGED <<gone, open, timers, now>>
      BY <2>2 DEF TakeTeacherOffline
    <3>2. CASE x = t
      <4>1. status'[t] = "OFFLINE" \/ t \in spared'
        BY <1>2, <2>2, <3>2 DEF TakeTeacherOffline, Statuses
      <4> QED BY <1>1, <3>1, <4>1 DEF Departing
    <3>3. CASE x # t
      <4>1. status'[t] = status[t] /\ (t \in leaving => t \in leaving') /\ (t \in spared => t \in spared')
        BY <1>2, <2>2, <3>3 DEF TakeTeacherOffline
      <4> QED BY <1>1, <3>1, <4>1 DEF Departing
    <3> QED BY <3>2, <3>3
  <2>3. ASSUME NEW timer \in timers, TimerFires(timer) PROVE Departing(t)'
    <3>1. UNCHANGED <<gone, open, status, spared, now>> /\ leaving \subseteq leaving' /\ timers' = timers \ {timer}
      BY <2>3 DEF TimerFires
    <3>2. CASE timer = [teacher |-> t, due |-> gone[t] + Grace]
      <4>1. timer.teacher = t
        BY <3>2
      <4>2. gone[t] # Never => t \in leaving'
        BY <1>1, <2>3, <4>1 DEF TimerFires, StillConnected, Departing
      <4> QED BY <1>1, <3>1, <4>2 DEF Departing
    <3>3. CASE timer # [teacher |-> t, due |-> gone[t] + Grace]
      BY <1>1, <3>1, <3>3 DEF Departing
    <3> QED BY <3>2, <3>3
  <2> QED BY <1>5, <2>1, <2>2, <2>3 DEF Writes
<1>6. CASE Faults
  <2>1. CASE (\E w \in touches : TouchFails(w)) \/ JobStageFails
    BY <1>1, <2>1, StillDeparting DEF TouchFails, JobStageFails
  <2>2. ASSUME NEW x \in leaving, TakeOfflineFails(x) PROVE Departing(t)'
    <3>1. UNCHANGED <<gone, open, status, timers, now>> /\ leaving' = leaving \ {x} /\ spared' = spared \cup {x}
      BY <2>2 DEF TakeOfflineFails
    <3> QED BY <1>1, <3>1 DEF Departing
  <2>3. CASE Restart
    BY <2>3 DEF Restart, Departing
  <2> QED BY <1>6, <2>1, <2>2, <2>3 DEF Faults
<1>7. CASE Job
  <2>1. /\ UNCHANGED <<gone, open, spared, leaving, timers, now>>
        /\ status'[t] # "OFFLINE" => status[t] # "OFFLINE"
    BY <1>2, <1>7 DEF Job, FindDue, WarnIdleTeachers, SweepFind, SweepUpdate
  <2> QED BY <1>1, <2>1, StillDeparting
<1>8. CASE Tick
  <2>1. UNCHANGED <<gone, open, status, timers, leaving, spared>> /\ leaving = {} /\ now' = now + 1
        /\ \A timer \in timers : timer.due > now
    BY <1>8 DEF Tick
  <2>2. ASSUME status[t] # "OFFLINE", gone[t] # Never, t \notin spared
        PROVE  now + 1 <= gone[t] + Grace
    <3> DEFINE timer == [teacher |-> t, due |-> gone[t] + Grace]
    <3>1. timer \in timers
      BY <1>1, <2>1, <2>2 DEF Departing
    <3>2. timer.due = gone[t] + Grace
      OBVIOUS
    <3>3. gone[t] + Grace > now
      BY <2>1, <3>1, <3>2
    <3>4. gone[t] \in Nat
      BY <1>2, <2>2 DEF Beats
    <3> QED BY <1>2, <3>3, <3>4
  <2> QED BY <1>1, <2>1, <2>2 DEF Departing
<1> QED BY <1>3, <1>4, <1>5, <1>6, <1>7, <1>8 DEF Next

(* A teacher whose last socket went is not listed past the grace period, for   *)
(* any number of tabs, timers, offers and reconnections, unless something held *)
(* them or failed (sockets/handlers.presence.js).                              *)
THEOREM TheDepartureIsNoticed == Spec => []DepartureNoticed
<1>1. DeparturesAreWatched => DepartureNoticed
  BY DEF DeparturesAreWatched, Departing, DepartureNoticed
<1> QED BY <1>1, ShapesStart, ShapesGoOn, DeparturesStart, DeparturesGoOn, PTL DEF Spec

(* Beats move forward: a write on its way is of this very instant. *)
BeatsMoveForward ==
  /\ \A w \in touches : w.at = now
  /\ \A t \in Teachers : lastSeen[t] <= now

(* A beat that was warned about is remembered while it is the last one, or it  *)
(* has passed the window; and so the job finds none of those again.            *)
WarningsAreRemembered ==
  /\ prompts = [sent |-> prompts.sent, again |-> {}]
  /\ prompts.sent \subseteq Teachers \X Nat
  /\ \A p \in prompts.sent :
        /\ p[2] <= lastSeen[p[1]]
        /\ p[2] = lastSeen[p[1]] => warned[p[1]] = p[2] \/ p[2] <= now - Away
  /\ cron.stage = "due" =>
        /\ cron.beats \subseteq Teachers \X Nat
        /\ \A b, c \in cron.beats : b[1] = c[1] => b = c
        /\ \A b \in cron.beats :
              /\ b[2] <= lastSeen[b[1]]
              /\ \A p \in prompts.sent : p[1] = b[1] => /\ p[2] <= b[2]
                                                        /\ p[2] = b[2] => warned[b[1]] = b[2]

LEMMA BeatsStart == Init => BeatsMoveForward /\ WarningsAreRemembered
  BY DEF Init, BeatsMoveForward, WarningsAreRemembered, Idle, Never

LEMMA ActivityIsNow ==
  ASSUME NEW t \in Teachers, NEW force \in BOOLEAN, recordTeacherActivity(t, force), \A w \in touches : w.at = now
  PROVE  \A w \in touches' : w.at = now
  BY DEF recordTeacherActivity

LEMMA BeatsGoOn == PresenceShapes /\ BeatsMoveForward /\ [Next]_vars => BeatsMoveForward'
<1> SUFFICES ASSUME PresenceShapes, BeatsMoveForward, [Next]_vars PROVE BeatsMoveForward'
  OBVIOUS
<1> USE DEF rows, memory, ghosts
<1>1. CASE touches' \subseteq touches /\ UNCHANGED <<lastSeen, now>>
  BY <1>1 DEF BeatsMoveForward
<1>2. ASSUME NEW t \in Teachers, Move(t) PROVE BeatsMoveForward'
  <2>1. UNCHANGED <<lastSeen, now>>
    BY <1>2 DEF Move, Browser, Marketplace, Connect, Disconnect, Heartbeat, LoginOrLogout, PatchStatus,
                LockForOffer, AnswerReleases, ReleasedByTheSystem, StartSession
  <2>2. touches' \subseteq touches \/ \E force \in BOOLEAN : recordTeacherActivity(t, force)
    BY <1>2 DEF Move, Browser, Marketplace, Connect, Disconnect, Heartbeat, LoginOrLogout, PatchStatus,
                LockForOffer, AnswerReleases, ReleasedByTheSystem, StartSession, publishTeacherStatus
  <2> QED BY <1>1, <2>1, <2>2, ActivityIsNow DEF BeatsMoveForward
<1>3. CASE Writes
  <2>1. ASSUME NEW w \in touches, TouchLastSeenAt(w) PROVE BeatsMoveForward'
    <3>1. w.at = now /\ w.teacher \in Teachers /\ lastSeen \in [Teachers -> Beats] /\ now \in Nat
      BY DEF BeatsMoveForward, PresenceShapes
    <3>2. lastSeen' = [lastSeen EXCEPT ![w.teacher] = now] /\ now' = now /\ touches' \subseteq touches
      BY <2>1, <3>1 DEF TouchLastSeenAt
    <3> QED BY <3>1, <3>2 DEF BeatsMoveForward
  <2>2. CASE (\E t \in leaving : TakeTeacherOffline(t)) \/ (\E timer \in timers : TimerFires(timer))
    BY <1>1, <2>2 DEF TakeTeacherOffline, TimerFires
  <2> QED BY <1>3, <2>1, <2>2 DEF Writes
<1>4. CASE Faults \/ Job \/ UNCHANGED vars
  <2>1. touches' \subseteq touches /\ UNCHANGED <<lastSeen, now>>
    BY <1>4 DEF Faults, TouchFails, TakeOfflineFails, JobStageFails, Restart, Job, FindDue,
                WarnIdleTeachers, SweepFind, SweepUpdate, vars
  <2> QED BY <1>1, <2>1
<1>5. CASE Tick
  <2>1. touches' = {} /\ lastSeen' = lastSeen /\ now' = now + 1
    BY <1>5 DEF Tick
  <2>2. lastSeen \in [Teachers -> Beats] /\ now \in Nat
    BY DEF PresenceShapes
  <2> QED BY <2>1, <2>2 DEF BeatsMoveForward, Beats, Never
<1> QED BY <1>2, <1>3, <1>4, <1>5 DEF Next

(* A step that neither warns nor forgets. *)
LEMMA StillRemembered ==
  ASSUME PresenceShapes, WarningsAreRemembered, UNCHANGED <<warned, prompts, lastSeen>>,
         cron' = cron \/ cron'.stage # "due", now' = now \/ now' = now + 1
  PROVE  WarningsAreRemembered'
<1>1. now \in Nat /\ now' \in Nat /\ now <= now' /\ Away \in Nat
  BY DEF PresenceShapes
<1>2. \A p \in prompts.sent : p[2] \in Nat /\ (p[2] <= now - Away => p[2] <= now' - Away)
  BY <1>1 DEF WarningsAreRemembered
<1> QED BY <1>2 DEF WarningsAreRemembered

LEMMA WarningsGoOn ==
  PresenceShapes /\ BeatsMoveForward /\ WarningsAreRemembered /\ [Next]_vars => WarningsAreRemembered'
<1> SUFFICES ASSUME PresenceShapes, BeatsMoveForward, WarningsAreRemembered, [Next]_vars
             PROVE  WarningsAreRemembered'
  OBVIOUS
<1> USE DEF rows, memory, ghosts
<1>1. /\ lastSeen \in [Teachers -> Beats] /\ warned \in [Teachers -> Beats]
      /\ now \in Nat /\ Away \in Nat /\ prompts.again = {}
  <2>1. prompts = [sent |-> prompts.sent, again |-> {}]
    BY DEF WarningsAreRemembered
  <2>2. prompts.again = {}
    BY <2>1
  <2> QED BY <2>2 DEF PresenceShapes
<1>2. CASE UNCHANGED <<warned, prompts, lastSeen>> /\ (cron' = cron \/ cron'.stage # "due")
           /\ (now' = now \/ now' = now + 1)
  BY <1>2, StillRemembered
<1>3. ASSUME NEW t \in Teachers, Move(t) PROVE WarningsAreRemembered'
  <2>1. UNCHANGED <<warned, prompts, lastSeen, cron, now>>
    BY <1>3 DEF Move, Browser, Marketplace, Connect, Disconnect, Heartbeat, LoginOrLogout, PatchStatus,
                LockForOffer, AnswerReleases, ReleasedByTheSystem, StartSession
  <2> QED BY <1>2, <2>1
<1>4. CASE Writes
  <2>1. ASSUME NEW w \in touches, TouchLastSeenAt(w) PROVE WarningsAreRemembered'
    <3>1. w.at = now /\ w.teacher \in Teachers
      BY DEF BeatsMoveForward, PresenceShapes
    <3>2. lastSeen' = [lastSeen EXCEPT ![w.teacher] = now] /\ UNCHANGED <<now, warned, prompts, cron>>
      BY <2>1, <3>1 DEF TouchLastSeenAt
    <3>3. \A t \in Teachers : lastSeen[t] <= lastSeen'[t] /\ (lastSeen'[t] = lastSeen[t] \/ lastSeen'[t] = now)
                              /\ lastSeen[t] \in Int
      BY <1>1, <3>1, <3>2 DEF BeatsMoveForward, Beats, Never
    <3>4. ASSUME NEW p \in prompts.sent
          PROVE  /\ p[2] <= lastSeen'[p[1]]
                 /\ p[2] = lastSeen'[p[1]] => warned[p[1]] = p[2] \/ p[2] <= now - Away
      <4>1. p[1] \in Teachers /\ p[2] \in Nat /\ p[2] <= lastSeen[p[1]] /\ lastSeen[p[1]] <= now
        BY DEF WarningsAreRemembered, BeatsMoveForward
      <4>2. p[2] = lastSeen'[p[1]] => p[2] = lastSeen[p[1]]
        BY <1>1, <3>3, <4>1
      <4> QED BY <1>1, <3>3, <4>1, <4>2 DEF WarningsAreRemembered
    <3>5. ASSUME cron.stage = "due", NEW b \in cron.beats PROVE b[2] <= lastSeen'[b[1]]
      <4>1. b[1] \in Teachers /\ b[2] \in Nat /\ b[2] <= lastSeen[b[1]]
        BY <3>5 DEF WarningsAreRemembered
      <4> QED BY <1>1, <3>2, <3>3, <4>1 DEF Beats, Never
    <3> QED BY <3>2, <3>4, <3>5 DEF WarningsAreRemembered
  <2>2. CASE (\E t \in leaving : TakeTeacherOffline(t)) \/ (\E timer \in timers : TimerFires(timer))
    BY <1>2, <2>2 DEF TakeTeacherOffline, TimerFires
  <2> QED BY <1>4, <2>1, <2>2 DEF Writes
<1>5. CASE Faults
  <2>1. CASE (\E w \in touches : TouchFails(w)) \/ (\E t \in leaving : TakeOfflineFails(t)) \/ JobStageFails
    BY <1>2, <2>1 DEF TouchFails, TakeOfflineFails, JobStageFails, Idle
  <2>2. CASE Restart
    <3>1. prompts' = [sent |-> {}, again |-> {}] /\ cron'.stage # "due"
      BY <1>1, <2>2 DEF Restart, Idle
    <3>2. prompts'.sent = {}
      BY <3>1
    <3> QED BY <3>1, <3>2 DEF WarningsAreRemembered
  <2> QED BY <1>5, <2>1, <2>2 DEF Faults
<1>6. CASE FindDue
  <2>1. /\ warned' = [t \in Teachers |-> IF warned[t] <= now - Away THEN Never ELSE warned[t]]
        /\ cron'.beats = {<<t, lastSeen[t]>> : t \in findTeachersDueForAwayWarning}
        /\ UNCHANGED <<lastSeen, now, prompts>>
    BY <1>6 DEF FindDue, prune
  <2>2. ASSUME NEW p \in prompts.sent
        PROVE  /\ p \in Teachers \X Nat
               /\ p[2] <= lastSeen[p[1]]
               /\ p[2] = lastSeen[p[1]] => warned'[p[1]] = p[2] \/ p[2] <= now - Away
    <3>1. /\ p \in Teachers \X Nat /\ p[2] <= lastSeen[p[1]]
          /\ p[2] = lastSeen[p[1]] => warned[p[1]] = p[2] \/ p[2] <= now - Away
      BY DEF WarningsAreRemembered
    <3> QED BY <1>1, <2>1, <3>1
  <2>3. ASSUME NEW t \in findTeachersDueForAwayWarning
        PROVE  t \in Teachers /\ lastSeen[t] \in Nat /\ ~(lastSeen[t] <= now - Away)
    BY <1>1 DEF findTeachersDueForAwayWarning, Beats, Never
  <2>4. ASSUME NEW b \in cron'.beats
        PROVE  /\ b \in Teachers \X Nat /\ b[2] = lastSeen[b[1]]
               /\ \A p \in prompts.sent : p[1] = b[1] => /\ p[2] <= b[2]
                                                         /\ p[2] = b[2] => warned'[b[1]] = b[2]
    <3>1. PICK t \in findTeachersDueForAwayWarning : b = <<t, lastSeen[t]>>
      BY <2>1
    <3> QED BY <2>2, <2>3, <3>1
  <2>5. cron'.beats \subseteq Teachers \X Nat /\ \A b, c \in cron'.beats : b[1] = c[1] => b = c
    BY <2>1, <2>4
  <2>6. ASSUME NEW b \in cron'.beats PROVE b[2] <= lastSeen[b[1]]
    BY <2>4
  <2> QED BY <2>1, <2>2, <2>4, <2>5, <2>6 DEF WarningsAreRemembered
<1>7. CASE WarnIdleTeachers
  <2> DEFINE fresh == {b \in cron.beats : warned[b[1]] # b[2]}
  <2>1. /\ cron.stage = "due" /\ cron'.stage # "due" /\ UNCHANGED <<lastSeen, now>>
        /\ warned' = [t \in Teachers |-> IF \E b \in fresh : b[1] = t
                                         THEN (CHOOSE b \in fresh : b[1] = t)[2]
                                         ELSE warned[t]]
        /\ prompts' = [sent |-> prompts.sent \cup fresh,
                       again |-> prompts.again \cup (fresh \cap prompts.sent)]
    BY <1>7 DEF WarnIdleTeachers, notYetWarned
  <2>2. /\ fresh \subseteq Teachers \X Nat
        /\ \A b, c \in fresh : b[1] = c[1] => b = c
        /\ \A b \in fresh : b[2] <= lastSeen[b[1]]
        /\ \A b \in fresh, p \in prompts.sent : p[1] = b[1] => p[2] <= b[2] /\ p[2] # b[2]
    BY <2>1 DEF WarningsAreRemembered
  <2>3. fresh \cap prompts.sent = {}
    BY <2>2
  <2>4. ASSUME NEW b \in fresh PROVE warned'[b[1]] = b[2]
    <3>1. (CHOOSE c \in fresh : c[1] = b[1]) = b
      BY <2>2
    <3>2. b[1] \in Teachers
      BY <2>2
    <3> HIDE DEF fresh
    <3> QED BY <2>1, <3>1, <3>2
  <2> HIDE DEF fresh
  <2>5. ASSUME NEW p \in prompts.sent \cup fresh
        PROVE  /\ p \in Teachers \X Nat /\ p[2] <= lastSeen[p[1]]
               /\ p[2] = lastSeen[p[1]] => warned'[p[1]] = p[2] \/ p[2] <= now - Away
    <3>1. CASE p \in fresh
      BY <2>2, <2>4, <3>1
    <3>2. CASE p \in prompts.sent
      <4>1. /\ p \in Teachers \X Nat /\ p[2] <= lastSeen[p[1]]
            /\ p[2] = lastSeen[p[1]] => warned[p[1]] = p[2] \/ p[2] <= now - Away
        BY <3>2 DEF WarningsAreRemembered
      <4>2. ASSUME p[2] = lastSeen[p[1]], NEW b \in fresh, b[1] = p[1] PROVE FALSE
        <5>1. b[2] \in Nat /\ b[2] <= lastSeen[p[1]] /\ p[2] <= b[2] /\ p[2] # b[2] /\ p[2] \in Nat
          BY <2>2, <3>2, <4>1, <4>2
        <5> QED BY <4>2, <5>1
      <4>3. p[2] = lastSeen[p[1]] => warned'[p[1]] = warned[p[1]]
        BY <2>1, <4>1, <4>2
      <4> QED BY <4>1, <4>3
    <3> QED BY <3>1, <3>2
  <2>6. prompts' = [sent |-> prompts.sent \cup fresh, again |-> {}]
    BY <1>1, <2>1, <2>3
  <2>7. prompts'.sent = prompts.sent \cup fresh
    BY <2>6
  <2> QED BY <2>1, <2>5, <2>6, <2>7 DEF WarningsAreRemembered
<1>8. CASE SweepFind \/ SweepUpdate \/ Tick \/ UNCHANGED vars
  BY <1>2, <1>8 DEF SweepFind, SweepUpdate, Tick, vars, Idle
<1> QED BY <1>3, <1>4, <1>5, <1>6, <1>7, <1>8 DEF Next, Job

(* A teacher is warned once of one quiet stretch, however the job's stages,    *)
(* the beats, the clock and failed stages interleave                           *)
(* (jobs/presence.autoAway.job.js, warnedBeats).                               *)
THEOREM EachBeatIsWarnedOnce == Spec => []WarnedOncePerBeat
<1>1. WarningsAreRemembered => WarnedOncePerBeat
  BY DEF WarningsAreRemembered, WarnedOncePerBeat
<1> QED
  BY <1>1, ShapesStart, ShapesGoOn, BeatsStart, BeatsGoOn, WarningsGoOn, PTL DEF Spec

(* While nothing has failed, the column is what the debounce last wrote, or    *)
(* that write is on its way, and the teacher's last act is within its interval. *)
UpToDate(t) ==
  /\ seen[t] # Never => lastWritten[t] # Never /\ seen[t] <= lastWritten[t] + WriteInterval
  /\ lastSeen[t] = lastWritten[t] \/ [teacher |-> t, at |-> lastWritten[t]] \in touches
  /\ \A w \in touches : w.teacher = t => w.at = lastWritten[t]

ColumnIsUpToDate ==
  /\ faults = 0 => \A t \in Teachers : UpToDate(t)
  /\ cron.stage = "found" => cron.instant <= now - Away /\ cron.instant \in Int

LEMMA ColumnStarts == Init => ColumnIsUpToDate
  BY DEF Init, ColumnIsUpToDate, UpToDate, Idle

LEMMA Interval == WriteInterval \in Nat
  BY DEF WriteInterval

LEMMA ActivityIsWritten ==
  ASSUME PresenceShapes, BeatsMoveForward, NEW t \in Teachers, UpToDate(t),
         NEW x \in Teachers, NEW force \in BOOLEAN, recordTeacherActivity(x, force), lastSeen' = lastSeen
  PROVE  UpToDate(t)'
<1>1. /\ seen \in [Teachers -> Beats] /\ lastWritten \in [Teachers -> Beats] /\ lastSeen \in [Teachers -> Beats]
      /\ now \in Nat /\ touches \subseteq [teacher : Teachers, at : Nat]
      /\ \A w \in touches : w.at = now
  BY DEF PresenceShapes, BeatsMoveForward
<1>2. seen' = [seen EXCEPT ![x] = now]
  BY DEF recordTeacherActivity
<1>3. CASE claimLastSeenWrite(x, force)
  <2>1. /\ lastWritten' = [lastWritten EXCEPT ![x] = now]
        /\ touches' = touches \cup {[teacher |-> x, at |-> now]}
    BY <1>3 DEF recordTeacherActivity
  <2>2. CASE x = t
    <3>1. seen'[t] = now /\ lastWritten'[t] = now /\ now # Never /\ now <= now + WriteInterval
      BY <1>1, <1>2, <2>1, <2>2, Interval DEF Never
    <3>2. [teacher |-> t, at |-> now] \in touches' /\ \A w \in touches' : w.at = now
      BY <1>1, <2>1, <2>2
    <3> QED BY <3>1, <3>2 DEF UpToDate
  <2>3. CASE x # t
    <3>1. seen'[t] = seen[t] /\ lastWritten'[t] = lastWritten[t]
      BY <1>1, <1>2, <2>1, <2>3
    <3>2. touches \subseteq touches' /\ \A w \in touches' : w.teacher = t => w \in touches
      BY <2>1, <2>3
    <3> QED BY <3>1, <3>2 DEF UpToDate
  <2> QED BY <2>2, <2>3
<1>4. CASE ~claimLastSeenWrite(x, force)
  <2>1. UNCHANGED <<lastWritten, touches>>
    BY <1>4 DEF recordTeacherActivity
  <2>2. CASE x = t
    <3>1. lastWritten[t] # Never /\ now - lastWritten[t] < WriteInterval
      BY <1>1, <1>4, <2>2, Interval DEF claimLastSeenWrite, Beats, Never
    <3>2. seen'[t] = now /\ now <= lastWritten[t] + WriteInterval
      BY <1>1, <1>2, <2>2, <3>1, Interval DEF Beats, Never
    <3> QED BY <2>1, <3>1, <3>2 DEF UpToDate
  <2>3. CASE x # t
    <3>1. seen'[t] = seen[t]
      BY <1>1, <1>2, <2>3
    <3> QED BY <2>1, <3>1 DEF UpToDate
  <2> QED BY <2>2, <2>3
<1> QED BY <1>3, <1>4

LEMMA ColumnGoesOn ==
  PresenceShapes /\ BeatsMoveForward /\ ColumnIsUpToDate /\ [Next]_vars => ColumnIsUpToDate'
<1> SUFFICES ASSUME PresenceShapes, BeatsMoveForward, ColumnIsUpToDate, [Next]_vars PROVE ColumnIsUpToDate'
  OBVIOUS
<1> USE DEF rows, memory, ghosts
<1>1. CASE UNCHANGED <<seen, lastWritten, lastSeen, touches, faults, cron, now>>
  BY <1>1 DEF ColumnIsUpToDate, UpToDate
<1>2. ASSUME NEW x \in Teachers, Move(x) PROVE ColumnIsUpToDate'
  <2>1. UNCHANGED <<lastSeen, faults, cron, now>>
    BY <1>2 DEF Move, Browser, Marketplace, Connect, Disconnect, Heartbeat, LoginOrLogout, PatchStatus,
                LockForOffer, AnswerReleases, ReleasedByTheSystem, StartSession
  <2>2. \/ UNCHANGED <<seen, lastWritten, touches>>
        \/ \E force \in BOOLEAN : recordTeacherActivity(x, force)
    BY <1>2 DEF Move, Browser, Marketplace, Connect, Disconnect, Heartbeat, LoginOrLogout, PatchStatus,
                LockForOffer, AnswerReleases, ReleasedByTheSystem, StartSession, publishTeacherStatus
  <2>3. CASE \E force \in BOOLEAN : recordTeacherActivity(x, force)
    <3>1. faults' = 0 => \A t \in Teachers : UpToDate(t)'
      BY <2>1, <2>3, ActivityIsWritten DEF ColumnIsUpToDate
    <3> QED BY <2>1, <3>1 DEF ColumnIsUpToDate
  <2> QED BY <1>1, <2>1, <2>2, <2>3
<1>3. CASE Writes
  <2>1. ASSUME NEW w \in touches, TouchLastSeenAt(w) PROVE ColumnIsUpToDate'
    <3>1. /\ UNCHANGED <<seen, lastWritten, faults, cron, now>> /\ touches' = touches \ {w}
          /\ lastSeen' = [lastSeen EXCEPT ![w.teacher] = w.at]
      BY <2>1 DEF TouchLastSeenAt
    <3>2. w.teacher \in Teachers /\ lastSeen \in [Teachers -> Beats] /\ w = [teacher |-> w.teacher, at |-> w.at]
      BY DEF PresenceShapes
    <3>3. ASSUME faults = 0, NEW t \in Teachers PROVE UpToDate(t)'
      <4>1. UpToDate(t)
        BY <3>3 DEF ColumnIsUpToDate
      <4>2. CASE w.teacher = t
        <5>1. lastSeen'[t] = lastWritten[t]
          BY <3>1, <3>2, <4>1, <4>2 DEF UpToDate
        <5> QED BY <3>1, <4>1, <5>1 DEF UpToDate
      <4>3. CASE w.teacher # t
        <5>1. lastSeen'[t] = lastSeen[t] /\ w # [teacher |-> t, at |-> lastWritten[t]]
          BY <3>1, <3>2, <4>3
        <5> QED BY <3>1, <4>1, <5>1 DEF UpToDate
      <4> QED BY <4>2, <4>3
    <3> QED BY <3>1, <3>3 DEF ColumnIsUpToDate
  <2>2. CASE (\E t \in leaving : TakeTeacherOffline(t)) \/ (\E timer \in timers : TimerFires(timer))
    BY <1>1, <2>2 DEF TakeTeacherOffline, TimerFires
  <2> QED BY <1>3, <2>1, <2>2 DEF Writes
<1>4. CASE Faults
  <2>1. faults' # 0
    <3>1. faults' = faults + 1 /\ faults \in Nat
      BY <1>4 DEF Faults, TouchFails, TakeOfflineFails, JobStageFails, Restart, PresenceShapes
    <3> QED BY <3>1
  <2>2. now' = now /\ (cron' = cron \/ cron'.stage # "found")
    BY <1>4 DEF Faults, TouchFails, TakeOfflineFails, JobStageFails, Restart, Idle
  <2> QED BY <2>1, <2>2 DEF ColumnIsUpToDate
<1>5. CASE Job
  <2>1. /\ UNCHANGED <<seen, lastWritten, lastSeen, touches, faults, now>>
        /\ cron'.stage = "found" => cron'.instant = now - Away
    BY <1>5 DEF Job, FindDue, WarnIdleTeachers, SweepFind, SweepUpdate, Idle
  <2>2. now \in Nat /\ Away \in Nat
    BY DEF PresenceShapes
  <2> QED BY <2>1, <2>2 DEF ColumnIsUpToDate, UpToDate
<1>6. CASE Tick
  <2>1. UNCHANGED <<seen, lastWritten, lastSeen, touches, faults, cron>> /\ now' = now + 1
    BY <1>6 DEF Tick
  <2>2. now \in Nat /\ Away \in Nat
    BY DEF PresenceShapes
  <2> QED BY <2>1, <2>2 DEF ColumnIsUpToDate, UpToDate
<1> QED BY <1>1, <1>2, <1>3, <1>4, <1>5, <1>6 DEF Next, vars

(* The sweep takes only those who did nothing for the window less the          *)
(* interval of the debounce, for any interleaving of beats, writes and the     *)
(* sweep's two queries, while no write has failed (findIdleOnlineTeachers,     *)
(* sweepIdleTeachersOffline, presence.debounce.js).                            *)
THEOREM TheSweepTakesTheIdle == Spec => SweepTakesTheIdle
<1> DEFINE Takes(t) == /\ cron.stage = "found" /\ status[t] = "ONLINE" /\ status'[t] = "OFFLINE"
                       /\ t \notin leaving /\ moves' = moves /\ faults = 0
                       /\ \A w \in touches : w.teacher # t
<1>1. ASSUME PresenceShapes, BeatsMoveForward, ColumnIsUpToDate, [Next]_vars, NEW t \in Teachers, Takes(t)
      PROVE  now - seen[t] > Away - WriteInterval
  <2> USE DEF rows, memory, ghosts
  <2>1. /\ status \in [Teachers -> Statuses] /\ lastSeen \in [Teachers -> Beats]
        /\ lastWritten \in [Teachers -> Beats] /\ seen \in [Teachers -> Beats]
        /\ now \in Nat /\ moves \in Nat /\ Away \in Nat /\ leaving \subseteq Teachers
    BY <1>1 DEF PresenceShapes
  <2>2. SweepUpdate
    <3>1. ASSUME NEW x \in Teachers, Move(x) PROVE FALSE
      BY <1>1, <2>1, <3>1 DEF Move
    <3>2. ~Writes
      BY <1>1, <2>1 DEF Writes, TouchLastSeenAt, TakeTeacherOffline, TimerFires
    <3>3. ~(Faults \/ FindDue \/ WarnIdleTeachers \/ SweepFind \/ Tick \/ UNCHANGED vars)
      BY <1>1 DEF Faults, TouchFails, TakeOfflineFails, JobStageFails, Restart, FindDue, WarnIdleTeachers,
                  SweepFind, Tick, vars
    <3> QED BY <1>1, <3>1, <3>2, <3>3 DEF Next, Job
  <2>3. lastSeen[t] # Never /\ lastSeen[t] < cron.instant
    BY <1>1, <2>1, <2>2 DEF SweepUpdate, stillIdle, idleAt
  <2>4. cron.instant <= now - Away /\ cron.instant \in Int
    BY <1>1 DEF ColumnIsUpToDate
  <2>5. lastSeen[t] = lastWritten[t] /\ (seen[t] # Never => seen[t] <= lastWritten[t] + WriteInterval)
    <3>1. UpToDate(t)
      BY <1>1 DEF ColumnIsUpToDate
    <3>2. [teacher |-> t, at |-> lastWritten[t]] \notin touches
      BY <1>1
    <3> QED BY <3>1, <3>2 DEF UpToDate
  <2> QED BY <2>1, <2>3, <2>4, <2>5, Interval DEF Beats, Never
<1>2. PresenceShapes /\ BeatsMoveForward /\ ColumnIsUpToDate /\ [Next]_vars
        => \A t \in Teachers :
             (cron.stage = "found" /\ status[t] = "ONLINE" /\ status'[t] = "OFFLINE"
               /\ t \notin leaving /\ moves' = moves /\ faults = 0
               /\ \A w \in touches : w.teacher # t)
             => now - seen[t] > Away - WriteInterval
  BY <1>1
<1> QED
  BY <1>2, ShapesStart, ShapesGoOn, BeatsStart, BeatsGoOn, ColumnStarts, ColumnGoesOn, PTL
     DEF Spec, SweepTakesTheIdle

-----------------------------------------------------------------------------
(* Every behaviour of the tabs is one of each part, moving or at rest: what is *)
(* proved of a part by itself holds in the whole.                              *)
THEOREM EachTabIsItself == TabsSpec => Spec /\ FormSpec /\ WalletSpec
<1>1. TabsInit => Init /\ FormInit /\ WalletInit
  BY DEF TabsInit
<1>2. [TabsNext]_tabVars => [Next]_vars /\ [FormNext]_formVars /\ [WalletNext]_walletVars
  BY DEF TabsNext, tabVars
<1> QED BY <1>1, <1>2, PTL DEF TabsSpec, Spec, FormSpec, WalletSpec
=============================================================================
