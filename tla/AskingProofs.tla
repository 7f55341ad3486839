---------------------------- MODULE AskingProofs ----------------------------
(***************************************************************************)
(* The safety of asking a question and of being shown teachers for it, for  *)
(* any number of questions, photographs, topics, teachers and requests, and *)
(* any number of faults.                                                    *)
(*                                                                          *)
(* `QuestionInv` is about what Intake keeps of each question, `ListInv`     *)
(* about each match list and the shared averages.  Neither needs the other: *)
(* a list reads the rows and moves nothing but the session's status.        *)
(***************************************************************************)
EXTENDS Matching, FiniteSetTheorems, TLAPS

Classification == [topic : Leaves \cup {Unclassified, Null}, ok : BOOLEAN]

Places == InFlight \cup {"new", "refused", "answered", "failed", "lost"}

Posts == [at : Places, images : SUBSET Images, shown : SUBSET Images,
          answer : {Null} \cup Classification]

(* IntakeTypeOK, with what it leaves open. *)
Shapes ==
  /\ question \in [Questions -> {Null} \cup Classification]
  /\ status \in [Questions -> {Null, "PENDING", "OFFER_SENT"}]
  /\ rejectedBy \in [Questions -> SUBSET Teachers]
  /\ bound \in [Images -> {"absent", Null} \cup Questions]
  /\ post \in [Questions -> Posts]
  /\ race \in [Questions -> {Null, "unusable", "timeout"} \cup Leaves]
  /\ patch \in [Questions -> {Null} \cup Leaves]
  /\ overruled \subseteq Questions

(* A question and its session are there from the commit on, and until the
   answer is written the model has not classified it. *)
Committed(q) ==
  /\ (question[q] = Null) = (status[q] = Null)
  /\ patch[q] # Null => question[q] # Null
  /\ post[q].at \in {"new", "checked"} => status[q] = Null /\ post[q].shown = {}
  /\ post[q].at \in {"committed", "asking", "writing"} => question[q] # Null /\ ~question[q].ok
  /\ post[q].at = "writing" => post[q].answer # Null

(* The photographs a handler works with after its commit are its own. *)
Own(q) ==
  /\ post[q].shown \subseteq post[q].images
  /\ \A i \in post[q].shown : bound[i] = q
  /\ post[q].at = "committed" => \A i \in post[q].images : bound[i] = q

(* From its deadline on, a question has the fallback or is about to get it. *)
Late(q) ==
  q \in overruled =>
    /\ question[q] # Null => ~question[q].ok
    /\ post[q].at \notin {"new", "checked", "committed"}
    /\ post[q].at = "asking" => race[q] = "timeout"
    /\ post[q].at = "writing" => ~post[q].answer.ok

(* Whoever may still move the topic under an offer was ahead of it. *)
Ahead(q) ==
  (status[q] = "OFFER_SENT" /\ (patch[q] # Null \/ post[q].at \in InFlight)) => q \in ahead

Sound(q) == Committed(q) /\ Own(q) /\ Late(q) /\ Ahead(q)

QuestionInv == Shapes /\ \A q \in Questions : Sound(q)

USE IntakeAssumption, NamesAssumption

LEMMA QuestionInit == IntakeInit => QuestionInv
  BY DEF IntakeInit, QuestionInv, Shapes, Sound, Committed, Own, Late, Ahead, Asked, Posts, Places,
         InFlight

(* A step that leaves question x alone; photographs it has, it keeps. *)
Same(x) ==
  /\ post'[x] = post[x] /\ question'[x] = question[x] /\ status'[x] = status[x]
  /\ patch'[x] = patch[x] /\ race'[x] = race[x]
  /\ (x \in overruled') = (x \in overruled) /\ (x \in ahead') = (x \in ahead)
  /\ \A i \in Images : bound[i] = x => bound'[i] = x

LEMMA SameIsSound ==
  ASSUME Shapes, NEW x \in Questions, Sound(x), Same(x)
  PROVE  Sound(x)'
<1>1. post[x] \in Posts
  BY DEF Shapes
<1>2. Committed(x)' /\ Late(x)' /\ Ahead(x)'
  BY DEF Sound, Same, Committed, Late, Ahead
<1>3. Own(x)'
  BY <1>1 DEF Sound, Same, Own, Posts
<1> QED BY <1>2, <1>3 DEF Sound

(* The post of one question moves. *)
LEMMA PostMoves ==
  ASSUME Shapes, NEW q \in Questions, NEW p \in Posts, post' = [post EXCEPT ![q] = p]
  PROVE  /\ post' \in [Questions -> Posts]
         /\ post'[q] = p
         /\ \A x \in Questions \ {q} : post'[x] = post[x]
  BY DEF Shapes

LEMMA OneQuestionMoves ==
  ASSUME QuestionInv, NEW q \in Questions, Shapes', Sound(q)', \A x \in Questions \ {q} : Same(x)
  PROVE  QuestionInv'
<1> SUFFICES ASSUME NEW x \in Questions  PROVE Sound(x)'
  BY DEF QuestionInv
<1>1. CASE x = q
  BY <1>1
<1>2. CASE x # q
  BY <1>2, SameIsSound DEF QuestionInv
<1> QED BY <1>1, <1>2

LEMMA UploadKeeps ==
  ASSUME QuestionInv, NEW i \in Images, createQuestionAttachment(i)
  PROVE  QuestionInv'
<1>1. Shapes'
  BY DEF createQuestionAttachment, memory, QuestionInv, Shapes
<1>2. ASSUME NEW x \in Questions  PROVE Sound(x)'
  <2>1. Same(x)
    BY DEF createQuestionAttachment, memory, Same, QuestionInv, Shapes
  <2> QED BY <2>1, SameIsSound DEF QuestionInv
<1> QED BY <1>1, <1>2 DEF QuestionInv

LEMMA CheckKeeps ==
  ASSUME QuestionInv, NEW q \in Questions, NEW images \in SUBSET Images, CheckAttachments(q, images)
  PROVE  QuestionInv'
<1>1. PICK place \in {"checked", "refused"} :
        post' = [post EXCEPT ![q] = [post[q] EXCEPT !.at = place, !.images = images]]
  BY DEF CheckAttachments
<1> DEFINE p == [post[q] EXCEPT !.at = place, !.images = images]
<1>2. post[q] \in Posts
  BY DEF QuestionInv, Shapes
<1>3. /\ p \in Posts /\ p.at = place /\ p.shown = post[q].shown
  BY <1>2 DEF Posts, Places, InFlight
<1> HIDE DEF p
<1>4. /\ post' \in [Questions -> Posts] /\ post'[q] = p
      /\ \A x \in Questions \ {q} : post'[x] = post[x]
  BY <1>1, <1>3, PostMoves DEF QuestionInv, p
<1>5. UNCHANGED <<question, status, rejectedBy, bound, race, patch, overruled, ahead>>
  BY DEF CheckAttachments, rows
<1>6. Shapes'
  BY <1>4, <1>5 DEF QuestionInv, Shapes
<1>7. Sound(q)'
  <2>1. Sound(q) /\ post[q].at = "new"
    BY DEF QuestionInv, CheckAttachments
  <2>2. Committed(q)' /\ Late(q)'
    BY <1>3, <1>4, <1>5, <2>1 DEF Sound, Committed, Late
  <2>3. Own(q)' /\ Ahead(q)'
    BY <1>3, <1>4, <1>5, <2>1 DEF Sound, Committed, Own, Ahead
  <2> QED BY <2>2, <2>3 DEF Sound
<1>8. \A x \in Questions \ {q} : Same(x)
  BY <1>4, <1>5 DEF Same
<1> QED BY <1>6, <1>7, <1>8, OneQuestionMoves

LEMMA CommitKeeps ==
  ASSUME QuestionInv, NEW q \in Questions, createQuestionWithSession(q)
  PROVE  QuestionInv'
<1> DEFINE mine == {i \in post[q].images : bound[i] = Null}
           p == [post[q] EXCEPT !.at = "committed", !.images = mine]
           row == [topic |-> Null, ok |-> FALSE]
<1>1. /\ post[q].at = "checked"
      /\ post' = [post EXCEPT ![q] = p]
      /\ question' = [question EXCEPT ![q] = row]
      /\ status' = [status EXCEPT ![q] = "PENDING"]
      /\ bound' = [i \in Images |-> IF i \in mine THEN q ELSE bound[i]]
      /\ UNCHANGED <<rejectedBy, race, patch, overruled, ahead>>
  BY DEF createQuestionWithSession, bindable, findBindableAttachmentIds, imagesForTheModel
<1>2. post[q] \in Posts /\ Sound(q)
  BY DEF QuestionInv, Shapes
<1>3. mine \subseteq Images
  BY <1>2 DEF Posts
<1>4. /\ p \in Posts /\ p.at = "committed" /\ p.images = mine /\ p.shown = post[q].shown
  BY <1>2, <1>3 DEF Posts, Places, InFlight
<1>5. row \in Classification /\ ~row.ok
  BY DEF Classification
<1> HIDE DEF p, row
<1>6. /\ post' \in [Questions -> Posts] /\ post'[q] = p
      /\ \A x \in Questions \ {q} : post'[x] = post[x]
  BY <1>1, <1>4, PostMoves DEF QuestionInv
<1>7. /\ question' \in [Questions -> {Null} \cup Classification]
      /\ status' \in [Questions -> {Null, "PENDING", "OFFER_SENT"}]
      /\ question'[q] = row /\ status'[q] = "PENDING"
      /\ \A x \in Questions \ {q} : question'[x] = question[x] /\ status'[x] = status[x]
  BY <1>1, <1>5 DEF QuestionInv, Shapes
<1>8. Shapes'
  BY <1>1, <1>6, <1>7 DEF QuestionInv, Shapes
<1>9. Sound(q)'
  <2>1. patch[q] = Null /\ row # Null /\ post[q].shown = {}
    BY <1>1, <1>2, <1>5 DEF Sound, Committed, Classification
  <2>2. Committed(q)' /\ Ahead(q)'
    BY <1>1, <1>4, <1>5, <1>6, <1>7, <2>1 DEF Committed, Ahead
  <2>3. Late(q)'
    BY <1>1, <1>2 DEF Sound, Late
  <2>4. Own(q)'
    BY <1>1, <1>3, <1>4, <1>6, <2>1 DEF Own
  <2> QED BY <2>2, <2>3, <2>4 DEF Sound
<1>10. \A x \in Questions \ {q} : Same(x)
  BY <1>1, <1>6, <1>7 DEF Same, QuestionInv, Shapes
<1> QED BY <1>8, <1>9, <1>10, OneQuestionMoves

LEMMA AskKeeps ==
  ASSUME QuestionInv, NEW q \in Questions, NEW fetched \in SUBSET post[q].images,
         AskTheModel(q, fetched)
  PROVE  QuestionInv'
<1> DEFINE p == [post[q] EXCEPT !.at = "asking", !.shown = fetched]
<1>1. /\ post[q].at = "committed"
      /\ post' = [post EXCEPT ![q] = p]
      /\ UNCHANGED <<question, status, bound, rejectedBy, race, patch, overruled, ahead>>
  BY DEF AskTheModel, rows
<1>2. post[q] \in Posts /\ Sound(q)
  BY DEF QuestionInv, Shapes
<1>3. /\ p \in Posts /\ p.at = "asking" /\ p.images = post[q].images /\ p.shown = fetched
  BY <1>2 DEF Posts, Places, InFlight
<1> HIDE DEF p
<1>4. /\ post' \in [Questions -> Posts] /\ post'[q] = p
      /\ \A x \in Questions \ {q} : post'[x] = post[x]
  BY <1>1, <1>3, PostMoves DEF QuestionInv
<1>5. Shapes'
  BY <1>1, <1>4 DEF QuestionInv, Shapes
<1>6. Sound(q)'
  <2>1. Committed(q)' /\ Ahead(q)'
    BY <1>1, <1>2, <1>3, <1>4 DEF Sound, Committed, Ahead, InFlight
  <2>2. Own(q)' /\ Late(q)'
    BY <1>1, <1>2, <1>3, <1>4 DEF Sound, Own, Late
  <2> QED BY <2>1, <2>2 DEF Sound
<1>7. \A x \in Questions \ {q} : Same(x)
  BY <1>1, <1>4 DEF Same
<1> QED BY <1>5, <1>6, <1>7, OneQuestionMoves

LEMMA CannotAskKeeps ==
  ASSUME QuestionInv, NEW q \in Questions, CannotAsk(q)
  PROVE  QuestionInv'
<1> DEFINE fallback == [topic |-> Unclassified, ok |-> FALSE]
           p == [post[q] EXCEPT !.at = "writing", !.answer = fallback]
<1>1. /\ post[q].at = "committed"
      /\ post' = [post EXCEPT ![q] = p]
      /\ UNCHANGED <<question, status, bound, rejectedBy, race, patch, overruled, ahead>>
  BY DEF CannotAsk, rows, fallbackClassification, Answer
<1>2. post[q] \in Posts /\ Sound(q)
  BY DEF QuestionInv, Shapes
<1>3. fallback \in Classification /\ ~fallback.ok
  BY DEF Classification
<1>4. /\ p \in Posts /\ p.at = "writing" /\ p.answer = fallback /\ p.images = post[q].images
      /\ p.shown = post[q].shown
  BY <1>2, <1>3 DEF Posts, Places, InFlight
<1> HIDE DEF p, fallback
<1>5. /\ post' \in [Questions -> Posts] /\ post'[q] = p
      /\ \A x \in Questions \ {q} : post'[x] = post[x]
  BY <1>1, <1>4, PostMoves DEF QuestionInv
<1>6. Shapes'
  BY <1>1, <1>5 DEF QuestionInv, Shapes
<1>7. Sound(q)'
  <2>1. Committed(q)'
    BY <1>1, <1>2, <1>3, <1>4, <1>5 DEF Sound, Committed, Classification
  <2>2. Own(q)' /\ Late(q)' /\ Ahead(q)'
    BY <1>1, <1>2, <1>3, <1>4, <1>5 DEF Sound, Own, Late, Ahead, InFlight
  <2> QED BY <2>1, <2>2 DEF Sound
<1>8. \A x \in Questions \ {q} : Same(x)
  BY <1>1, <1>5 DEF Same
<1> QED BY <1>6, <1>7, <1>8, OneQuestionMoves

LEMMA ModelKeeps ==
  ASSUME QuestionInv, NEW q \in Questions, NEW outcome \in Leaves \cup {"unusable"},
         ModelAnswers(q, outcome)
  PROVE  QuestionInv'
<1>1. PICK settled \in {race[q], outcome} :
        /\ race' = [race EXCEPT ![q] = settled]
        /\ race[q] # Null => settled = race[q]
  BY DEF ModelAnswers, settle
<1>2. UNCHANGED <<question, status, bound, rejectedBy, post, patch, overruled, ahead>>
  BY DEF ModelAnswers, rows
<1>3. Shapes' /\ race'[q] = settled /\ \A x \in Questions \ {q} : race'[x] = race[x]
  BY <1>1, <1>2 DEF QuestionInv, Shapes
<1>4. Sound(q)'
  <2>1. Sound(q)
    BY DEF QuestionInv
  <2>2. Late(q)'
    BY <1>1, <1>2, <1>3, <2>1 DEF Sound, Late
  <2>3. Committed(q)' /\ Own(q)' /\ Ahead(q)'
    BY <1>2, <2>1 DEF Sound, Committed, Own, Ahead
  <2> QED BY <2>2, <2>3 DEF Sound
<1>5. \A x \in Questions \ {q} : Same(x)
  BY <1>2, <1>3 DEF Same
<1> QED BY <1>3, <1>4, <1>5, OneQuestionMoves

LEMMA DeadlineKeeps ==
  ASSUME QuestionInv, NEW q \in Questions, DeadlinePasses(q)
  PROVE  QuestionInv'
<1>1. /\ post[q].at = "asking"
      /\ race' = [race EXCEPT ![q] = "timeout"]
      /\ overruled' = overruled \cup {q}
      /\ UNCHANGED <<question, status, bound, rejectedBy, post, patch, ahead>>
  BY DEF DeadlinePasses, rows
<1>2. Shapes' /\ race'[q] = "timeout" /\ \A x \in Questions \ {q} : race'[x] = race[x]
  BY <1>1 DEF QuestionInv, Shapes
<1>3. Sound(q)'
  <2>1. Sound(q)
    BY DEF QuestionInv
  <2>2. Late(q)'
    BY <1>1, <1>2, <2>1 DEF Sound, Committed, Late
  <2>3. Committed(q)' /\ Own(q)' /\ Ahead(q)'
    BY <1>1, <2>1 DEF Sound, Committed, Own, Ahead
  <2> QED BY <2>2, <2>3 DEF Sound
<1>4. \A x \in Questions \ {q} : Same(x)
  BY <1>1, <1>2 DEF Same
<1> QED BY <1>2, <1>3, <1>4, OneQuestionMoves

LEMMA ReadKeeps ==
  ASSUME QuestionInv, NEW q \in Questions, ReadAnswer(q)
  PROVE  QuestionInv'
<1>1. PICK answer \in Classification :
        /\ post' = [post EXCEPT ![q] = [post[q] EXCEPT !.at = "writing", !.answer = answer]]
        /\ race[q] = "timeout" => ~answer.ok
  <2> DEFINE read == IF race[q] \in Leaves THEN [topic |-> race[q], ok |-> TRUE]
                                           ELSE [topic |-> Unclassified, ok |-> FALSE]
  <2>1. read \in Classification /\ (race[q] = "timeout" => ~read.ok)
    BY DEF Classification
  <2>2. post' = [post EXCEPT ![q] = [post[q] EXCEPT !.at = "writing", !.answer = read]]
    BY DEF ReadAnswer, Answer, fallbackClassification
  <2> QED BY <2>1, <2>2
<1> DEFINE p == [post[q] EXCEPT !.at = "writing", !.answer = answer]
<1>2. /\ post[q].at = "asking"
      /\ race' = [race EXCEPT ![q] = Null]
      /\ UNCHANGED <<question, status, bound, rejectedBy, patch, overruled, ahead>>
  BY DEF ReadAnswer, rows
<1>3. post[q] \in Posts /\ Sound(q)
  BY DEF QuestionInv, Shapes
<1>4. /\ p \in Posts /\ p.at = "writing" /\ p.answer = answer /\ p.images = post[q].images
      /\ p.shown = post[q].shown
  BY <1>3 DEF Posts, Places, InFlight
<1>5. post' = [post EXCEPT ![q] = p]
  BY <1>1
<1> HIDE DEF p
<1>6. /\ post' \in [Questions -> Posts] /\ post'[q] = p
      /\ \A x \in Questions \ {q} : post'[x] = post[x]
  BY <1>4, <1>5, PostMoves DEF QuestionInv
<1>7. Shapes' /\ \A x \in Questions \ {q} : race'[x] = race[x]
  BY <1>2, <1>6 DEF QuestionInv, Shapes
<1>8. Sound(q)'
  <2>1. Committed(q)'
    BY <1>2, <1>3, <1>4, <1>6 DEF Sound, Committed, Classification
  <2>2. Own(q)' /\ Late(q)' /\ Ahead(q)'
    BY <1>1, <1>2, <1>3, <1>4, <1>6 DEF Sound, Own, Late, Ahead, InFlight
  <2> QED BY <2>1, <2>2 DEF Sound
<1>9. \A x \in Questions \ {q} : Same(x)
  BY <1>2, <1>6, <1>7 DEF Same
<1> QED BY <1>7, <1>8, <1>9, OneQuestionMoves

LEMMA WriteKeeps ==
  ASSUME QuestionInv, NEW q \in Questions, WriteClassification(q)
  PROVE  QuestionInv'
<1> DEFINE p == [post[q] EXCEPT !.at = "answered", !.answer = Null]
<1>1. /\ post[q].at = "writing"
      /\ post' = [post EXCEPT ![q] = p]
      /\ question' = [question EXCEPT ![q] = post[q].answer]
      /\ UNCHANGED <<status, bound, rejectedBy, race, patch, overruled, ahead>>
  BY DEF WriteClassification
<1>2. post[q] \in Posts /\ Sound(q)
  BY DEF QuestionInv, Shapes
<1>3. /\ p \in Posts /\ p.at = "answered" /\ p.images = post[q].images
      /\ p.shown = post[q].shown
  BY <1>2 DEF Posts, Places, InFlight
<1>4. post[q].answer \in Classification /\ post[q].answer # Null
  BY <1>1, <1>2 DEF Sound, Committed, Posts
<1> HIDE DEF p
<1>5. /\ post' \in [Questions -> Posts] /\ post'[q] = p
      /\ \A x \in Questions \ {q} : post'[x] = post[x]
  BY <1>1, <1>3, PostMoves DEF QuestionInv
<1>6. Shapes' /\ question'[q] = post[q].answer /\ \A x \in Questions \ {q} : question'[x] = question[x]
  BY <1>1, <1>4, <1>5 DEF QuestionInv, Shapes
<1>7. Sound(q)'
  <2>1. Committed(q)' /\ Late(q)'
    BY <1>1, <1>2, <1>3, <1>4, <1>5, <1>6 DEF Sound, Committed, Late
  <2>2. Own(q)' /\ Ahead(q)'
    BY <1>1, <1>2, <1>3, <1>5 DEF Sound, Own, Ahead, InFlight
  <2> QED BY <2>1, <2>2 DEF Sound
<1>8. \A x \in Questions \ {q} : Same(x)
  BY <1>1, <1>5, <1>6 DEF Same
<1> QED BY <1>6, <1>7, <1>8, OneQuestionMoves

LEMMA FailKeeps ==
  ASSUME QuestionInv, NEW q \in Questions, PostFails(q)
  PROVE  QuestionInv'
<1> DEFINE p == [post[q] EXCEPT !.at = "failed"]
<1>1. /\ post' = [post EXCEPT ![q] = p]
      /\ post[q].at \in InFlight
      /\ UNCHANGED <<question, status, bound, rejectedBy, race, patch, overruled, ahead>>
  BY DEF PostFails, rows, InFlight
<1>2. post[q] \in Posts /\ Sound(q)
  BY DEF QuestionInv, Shapes
<1>3. /\ p \in Posts /\ p.at = "failed" /\ p.images = post[q].images /\ p.shown = post[q].shown
  BY <1>2 DEF Posts, Places, InFlight
<1> HIDE DEF p
<1>4. /\ post' \in [Questions -> Posts] /\ post'[q] = p
      /\ \A x \in Questions \ {q} : post'[x] = post[x]
  BY <1>1, <1>3, PostMoves DEF QuestionInv
<1>5. Shapes'
  BY <1>1, <1>4 DEF QuestionInv, Shapes
<1>6. Sound(q)'
  <2>1. Committed(q)' /\ Late(q)'
    BY <1>1, <1>2, <1>3, <1>4 DEF Sound, Committed, Late
  <2>2. Own(q)' /\ Ahead(q)'
    BY <1>1, <1>2, <1>3, <1>4 DEF Sound, Own, Ahead, InFlight
  <2> QED BY <2>1, <2>2 DEF Sound
<1>7. \A x \in Questions \ {q} : Same(x)
  BY <1>1, <1>4 DEF Same
<1> QED BY <1>5, <1>6, <1>7, OneQuestionMoves

LEMMA CheckOverrideKeeps ==
  ASSUME QuestionInv, NEW q \in Questions, NEW leaf \in Leaves, CheckOverride(q, leaf)
  PROVE  QuestionInv'
<1>1. /\ question[q] # Null /\ status[q] = "PENDING"
      /\ patch' = [patch EXCEPT ![q] = leaf]
      /\ UNCHANGED <<question, status, bound, rejectedBy, post, race, overruled, ahead>>
  BY DEF CheckOverride, sessionIsPending, rows
<1>2. Shapes' /\ \A x \in Questions \ {q} : patch'[x] = patch[x]
  BY <1>1 DEF QuestionInv, Shapes
<1>3. Sound(q)'
  BY <1>1 DEF QuestionInv, Sound, Committed, Own, Late, Ahead
<1>4. \A x \in Questions \ {q} : Same(x)
  BY <1>1, <1>2 DEF Same
<1> QED BY <1>2, <1>3, <1>4, OneQuestionMoves

LEMMA WriteOverrideKeeps ==
  ASSUME QuestionInv, NEW q \in Questions, WriteOverride(q)
  PROVE  QuestionInv'
<1> DEFINE row == [question[q] EXCEPT !.topic = patch[q]]
<1>1. /\ patch[q] # Null
      /\ question' = [question EXCEPT ![q] = row]
      /\ patch' = [patch EXCEPT ![q] = Null]
      /\ UNCHANGED <<status, bound, rejectedBy, post, race, overruled, ahead>>
  BY DEF WriteOverride
<1>2. Sound(q) /\ question[q] \in Classification /\ patch[q] \in Leaves
  BY <1>1 DEF QuestionInv, Shapes, Sound, Committed
<1>3. row \in Classification /\ row.ok = question[q].ok
  BY <1>2 DEF Classification
<1> HIDE DEF row
<1>4. /\ Shapes' /\ question'[q] = row /\ patch'[q] = Null
      /\ \A x \in Questions \ {q} : question'[x] = question[x] /\ patch'[x] = patch[x]
  BY <1>1, <1>3 DEF QuestionInv, Shapes
<1>5. Sound(q)'
  <2>1. question[q] # Null /\ row # Null
    BY <1>2, <1>3 DEF Classification
  <2>2. Committed(q)' /\ Late(q)'
    BY <1>1, <1>2, <1>3, <1>4, <2>1 DEF Sound, Committed, Late
  <2>3. Own(q)' /\ Ahead(q)'
    BY <1>1, <1>2, <1>4 DEF Sound, Own, Ahead
  <2> QED BY <2>2, <2>3 DEF Sound
<1>6. \A x \in Questions \ {q} : Same(x)
  BY <1>1, <1>4 DEF Same
<1> QED BY <1>4, <1>5, <1>6, OneQuestionMoves

LEMMA SendKeeps ==
  ASSUME QuestionInv, NEW q \in Questions, SendOffer(q)
  PROVE  QuestionInv'
<1>1. /\ status[q] = "PENDING"
      /\ status' = [status EXCEPT ![q] = "OFFER_SENT"]
      /\ ahead' = IF patch[q] # Null \/ post[q].at \in InFlight THEN ahead \cup {q} ELSE ahead \ {q}
      /\ UNCHANGED <<question, bound, rejectedBy, post, race, patch, overruled>>
  BY DEF SendOffer, memory
<1>2. /\ Shapes' /\ status'[q] = "OFFER_SENT"
      /\ \A x \in Questions \ {q} : status'[x] = status[x]
  BY <1>1 DEF QuestionInv, Shapes
<1>3. Sound(q)'
  <2>1. Sound(q)
    BY DEF QuestionInv
  <2>2. Committed(q)' /\ Ahead(q)'
    BY <1>1, <1>2, <2>1 DEF Sound, Committed, Ahead
  <2>3. Own(q)' /\ Late(q)'
    BY <1>1, <2>1 DEF Sound, Own, Late
  <2> QED BY <2>2, <2>3 DEF Sound
<1>4. \A x \in Questions \ {q} : Same(x)
  BY <1>1, <1>2 DEF Same
<1> QED BY <1>2, <1>3, <1>4, OneQuestionMoves

LEMMA OfferFailsKeeps ==
  ASSUME QuestionInv, NEW q \in Questions, NEW rejecting \in SUBSET Teachers,
         OfferFails(q, rejecting)
  PROVE  QuestionInv'
<1>1. /\ status[q] = "OFFER_SENT"
      /\ status' = [status EXCEPT ![q] = "PENDING"]
      /\ rejectedBy' = [rejectedBy EXCEPT ![q] = @ \cup rejecting]
      /\ UNCHANGED <<question, bound, post, race, patch, overruled, ahead>>
  BY DEF OfferFails, memory
<1>2. rejectedBy' \in [Questions -> SUBSET Teachers]
  BY <1>1 DEF QuestionInv, Shapes
<1>3. /\ Shapes' /\ status'[q] = "PENDING"
      /\ \A x \in Questions \ {q} : status'[x] = status[x]
  BY <1>1, <1>2 DEF QuestionInv, Shapes
<1>4. Sound(q)'
  <2>1. Sound(q)
    BY DEF QuestionInv
  <2>2. Committed(q)' /\ Ahead(q)'
    BY <1>1, <1>3, <2>1 DEF Sound, Committed, Ahead
  <2>3. Own(q)' /\ Late(q)'
    BY <1>1, <2>1 DEF Sound, Own, Late
  <2> QED BY <2>2, <2>3 DEF Sound
<1>5. \A x \in Questions \ {q} : Same(x)
  BY <1>1, <1>3 DEF Same
<1> QED BY <1>3, <1>4, <1>5, OneQuestionMoves

LEMMA RestartKeeps ==
  ASSUME QuestionInv, IntakeRestart
  PROVE  QuestionInv'
<1>1. /\ post' = [q \in Questions |-> IF post[q].at \in InFlight
                                      THEN [post[q] EXCEPT !.at = "lost"] ELSE post[q]]
      /\ race' = [q \in Questions |-> Null]
      /\ patch' = [q \in Questions |-> Null]
      /\ UNCHANGED <<question, status, bound, rejectedBy, overruled, ahead>>
  BY DEF IntakeRestart, rows
<1>2. ASSUME NEW q \in Questions
      PROVE  /\ post'[q] \in Posts /\ post'[q].shown = post[q].shown
             /\ post'[q].images = post[q].images
             /\ post'[q] = post[q] \/ post'[q].at = "lost"
             /\ post'[q].at \notin InFlight
  <2>1. post[q] \in Posts
    BY DEF QuestionInv, Shapes
  <2> QED BY <1>1, <2>1 DEF Posts, Places, InFlight
<1>3. Shapes'
  BY <1>1, <1>2 DEF QuestionInv, Shapes
<1>4. ASSUME NEW q \in Questions  PROVE Sound(q)'
  <2>1. Sound(q)
    BY DEF QuestionInv
  <2>2. Committed(q)' /\ Ahead(q)'
    BY <1>1, <1>2, <2>1 DEF Sound, Committed, Ahead, InFlight
  <2>3. Own(q)' /\ Late(q)'
    BY <1>1, <1>2, <2>1 DEF Sound, Own, Late, InFlight
  <2> QED BY <2>2, <2>3 DEF Sound
<1> QED BY <1>3, <1>4 DEF QuestionInv

(* A match list's sweep gives sessions back to PENDING. *)
LEMMA SweepKeeps ==
  ASSUME QuestionInv, NEW m \in Lookers, NEW expired \in SUBSET Questions,
         SweepExpiredOffers(m, expired)
  PROVE  QuestionInv'
<1>1. /\ \A q \in expired : status[q] = "OFFER_SENT"
      /\ status' = [q \in Questions |-> IF q \in expired THEN "PENDING" ELSE status[q]]
      /\ UNCHANGED <<question, bound, rejectedBy, post, race, patch, overruled, ahead>>
  BY DEF SweepExpiredOffers, memory
<1>2. Shapes'
  BY <1>1 DEF QuestionInv, Shapes
<1>3. ASSUME NEW q \in Questions  PROVE Sound(q)'
  <2>1. Sound(q)
    BY DEF QuestionInv
  <2>2. Committed(q)' /\ Ahead(q)'
    BY <1>1, <2>1 DEF Sound, Committed, Ahead
  <2>3. Own(q)' /\ Late(q)'
    BY <1>1, <2>1 DEF Sound, Own, Late
  <2> QED BY <2>2, <2>3 DEF Sound
<1> QED BY <1>2, <1>3 DEF QuestionInv

-----------------------------------------------------------------------------
USE MatchingAssumption

Topics == Leaves \cup {Unclassified, Null}

Looks == [at : Stages \cup Lookers, question : {Null} \cup Questions, topic : Topics,
          rejected : SUBSET Teachers, list : SUBSET Teachers, known : SUBSET Teachers]

ListShapes ==
  /\ look \in [Lookers -> Looks]
  /\ cache \in {Null} \cup Lookers
  /\ entry \in [Lookers -> {"none", "pending", "ok", "failed"}]
  /\ fresh \subseteq Lookers

(* Until the pool is asked for, a list is empty; the pool is then asked for
   without everybody the list knows of. *)
Informed(m) ==
  /\ look[m].at \in {"sweep", "reload"} => look[m].question \in Questions
  /\ look[m].at = "pool" => look[m].known \subseteq look[m].rejected
  /\ look[m].list \cap look[m].known = {}

(* An unexpired query that is out is the cached one, and whoever started the
   cached one is there until it has settled well. *)
Shared ==
  /\ \A m \in fresh : entry[m] = "pending" => cache = m
  /\ cache # Null /\ entry[cache] \in {"pending", "failed"} => look[cache].at = cache
  /\ evicted = {}

ListInv == ListShapes /\ (\A m \in Lookers : Informed(m)) /\ Shared

LEMMA ListInit == MatchingInit => ListInv
  BY DEF MatchingInit, ListInv, ListShapes, Looks, Topics, NotLooking, Informed, Shared, Stages

(* The look of one request moves. *)
LEMMA LookMoves ==
  ASSUME ListInv, NEW m \in Lookers, NEW l \in Looks, look' = [look EXCEPT ![m] = l],
         l.at \in {"sweep", "reload"} => l.question \in Questions,
         l.at = "pool" => l.known \subseteq l.rejected,
         l.list \cap l.known = {}
  PROVE  /\ look' \in [Lookers -> Looks]
         /\ look'[m] = l
         /\ \A x \in Lookers \ {m} : look'[x] = look[x]
         /\ \A x \in Lookers : Informed(x)'
<1>1. /\ look' \in [Lookers -> Looks] /\ look'[m] = l
      /\ \A x \in Lookers \ {m} : look'[x] = look[x]
  BY DEF ListInv, ListShapes
<1>2. ASSUME NEW x \in Lookers  PROVE Informed(x)'
  <2>1. CASE x = m
    BY <1>1, <2>1 DEF Informed
  <2>2. CASE x # m
    BY <1>1, <2>2 DEF ListInv, Informed
  <2> QED BY <2>1, <2>2
<1> QED BY <1>1, <1>2

(* A request that is not at its own aggregate, and does not start one. *)
LEMMA ElsewhereKeeps ==
  ASSUME ListInv, NEW m \in Lookers, NEW l \in Looks, look' = [look EXCEPT ![m] = l],
         l.at \in {"sweep", "reload"} => l.question \in Questions,
         l.at = "pool" => l.known \subseteq l.rejected,
         l.list \cap l.known = {},
         look[m].at # m,
         UNCHANGED averages
  PROVE  ListInv'
<1>1. /\ look' \in [Lookers -> Looks]
      /\ \A x \in Lookers \ {m} : look'[x] = look[x]
      /\ \A x \in Lookers : Informed(x)'
  BY LookMoves
<1>2. ListShapes'
  BY <1>1 DEF ListInv, ListShapes, averages
<1>3. Shared'
  <2>1. cache # Null /\ entry[cache] \in {"pending", "failed"} => cache \in Lookers \ {m}
    BY DEF ListInv, ListShapes, Shared
  <2> QED BY <1>1, <2>1 DEF ListInv, Shared, averages
<1> QED BY <1>1, <1>2, <1>3 DEF ListInv

(* The row a question is read into. *)
LEMMA RowsRead ==
  ASSUME QuestionInv, NEW q \in Questions, question[q] # Null, NEW at \in Stages
  PROVE  /\ findQuestionForMatching(q, at) \in Looks
         /\ findQuestionForMatching(q, at).at = at
         /\ findQuestionForMatching(q, at).question = q
         /\ findQuestionForMatching(q, at).known = findQuestionForMatching(q, at).rejected
         /\ findQuestionForMatching(q, at).list = {}
<1>1. question[q].topic \in Topics /\ rejectedBy[q] \in SUBSET Teachers
  BY DEF QuestionInv, Shapes, Classification, Topics
<1> QED BY <1>1 DEF findQuestionForMatching, Looks

LEMMA LookKeeps ==
  ASSUME QuestionInv, ListInv, NEW m \in Lookers, NEW q \in Questions, Look(m, q)
  PROVE  ListInv'
<1>1. PICK at \in {"pool", "sweep"} : look' = [look EXCEPT ![m] = findQuestionForMatching(q, at)]
  BY DEF Look
<1>2. look[m].at # m /\ question[q] # Null /\ UNCHANGED averages
  BY DEF Look, Stages
<1>3. at \in Stages
  BY DEF Stages
<1> DEFINE l == findQuestionForMatching(q, at)
<1>4. l \in Looks /\ l.at = at /\ l.question = q /\ l.known = l.rejected /\ l.list = {}
  BY <1>2, <1>3, RowsRead
<1> HIDE DEF l
<1> QED BY <1>1, <1>2, <1>4, ElsewhereKeeps DEF l

LEMMA ListSweepKeeps ==
  ASSUME ListInv, NEW m \in Lookers, NEW expired \in SUBSET Questions,
         SweepExpiredOffers(m, expired)
  PROVE  ListInv'
<1> DEFINE l == [look[m] EXCEPT !.at = "reload"]
<1>1. look' = [look EXCEPT ![m] = l] /\ look[m].at = "sweep" /\ UNCHANGED averages
  BY DEF SweepExpiredOffers
<1>2. look[m] \in Looks /\ Informed(m) /\ look[m].at # m
  BY <1>1 DEF ListInv, ListShapes, Stages
<1>3. l \in Looks /\ l.at = "reload" /\ l.question \in Questions /\ l.list \cap l.known = {}
  BY <1>1, <1>2 DEF Looks, Informed, Stages
<1> HIDE DEF l
<1> QED BY <1>1, <1>2, <1>3, ElsewhereKeeps

LEMMA ReloadKeeps ==
  ASSUME QuestionInv, ListInv, NEW m \in Lookers, Reload(m)
  PROVE  ListInv'
<1>1. look[m] \in Looks /\ Informed(m) /\ look[m].at = "reload" /\ look[m].at # m
  BY DEF ListInv, ListShapes, Reload, Stages
<1>2. look[m].question \in Questions /\ UNCHANGED averages
  BY <1>1 DEF Informed, Reload
<1>3. CASE status[look[m].question] = "PENDING"
  <2> DEFINE l == findQuestionForMatching(look[m].question, "pool")
  <2>1. look' = [look EXCEPT ![m] = l]
    BY <1>3 DEF Reload, matchable
  <2>2. question[look[m].question] # Null /\ "pool" \in Stages
    BY <1>2, <1>3 DEF QuestionInv, Sound, Committed, Stages
  <2>3. l \in Looks /\ l.at = "pool" /\ l.known = l.rejected /\ l.list = {}
    BY <1>2, <2>2, RowsRead
  <2> HIDE DEF l
  <2> QED BY <1>1, <1>2, <2>1, <2>3, ElsewhereKeeps
<1>4. CASE status[look[m].question] # "PENDING"
  <2> DEFINE l == [look[m] EXCEPT !.at = "closed"]
  <2>1. look' = [look EXCEPT ![m] = l]
    BY <1>4 DEF Reload
  <2>2. l \in Looks /\ l.at = "closed" /\ l.list \cap l.known = {}
    BY <1>1 DEF Looks, Informed, Stages
  <2> HIDE DEF l
  <2> QED BY <1>1, <1>2, <2>1, <2>2, ElsewhereKeeps
<1> QED BY <1>3, <1>4

LEMMA PoolKeeps ==
  ASSUME ListInv, NEW m \in Lookers, NEW reachable \in SUBSET Teachers,
         ResolveCandidatePool(m, reachable)
  PROVE  ListInv'
<1> DEFINE pool == findCandidates(m, reachable)
<1>1. PICK at \in {"served", "averages"} :
        look' = [look EXCEPT ![m] = [look[m] EXCEPT !.list = pool, !.topic = Null,
                                                    !.rejected = {}, !.at = at]]
  BY DEF ResolveCandidatePool
<1>2. look[m] \in Looks /\ Informed(m) /\ look[m].at = "pool" /\ UNCHANGED averages
  BY DEF ListInv, ListShapes, ResolveCandidatePool
<1>3. pool \in SUBSET Teachers /\ pool \cap look[m].known = {} /\ look[m].at # m
  BY <1>2 DEF findCandidates, Informed, Stages
<1> HIDE DEF pool
<1> DEFINE l == [look[m] EXCEPT !.list = pool, !.topic = Null, !.rejected = {}, !.at = at]
<1>4. l \in Looks /\ l.at = at /\ l.list = pool /\ l.known = look[m].known
  BY <1>2, <1>3 DEF Looks, Stages, Topics
<1>5. look' = [look EXCEPT ![m] = l]
  BY <1>1
<1> HIDE DEF l
<1> QED BY <1>2, <1>3, <1>4, <1>5, ElsewhereKeeps

(* The place of one request moves, and nothing else of it. *)
LEMMA PlaceMoves ==
  ASSUME ListInv, NEW m \in Lookers, NEW at \in Stages \cup Lookers,
         at \notin {"sweep", "reload", "pool"},
         look' = [look EXCEPT ![m] = [look[m] EXCEPT !.at = at]]
  PROVE  /\ look' \in [Lookers -> Looks]
         /\ look'[m].at = at
         /\ \A x \in Lookers \ {m} : look'[x] = look[x]
         /\ \A x \in Lookers : Informed(x)'
<1> DEFINE l == [look[m] EXCEPT !.at = at]
<1>1. look[m] \in Looks /\ Informed(m)
  BY DEF ListInv, ListShapes
<1>2. l \in Looks /\ l.at = at /\ l.list \cap l.known = {}
  BY <1>1 DEF Looks, Informed
<1> HIDE DEF l
<1>3. look' = [look EXCEPT ![m] = l]
  BY DEF l
<1> QED BY <1>2, <1>3, LookMoves

LEMMA AveragesKeep ==
  ASSUME ListInv, NEW m \in Lookers, GetPlatformAverages(m)
  PROVE  ListInv'
<1> DEFINE at == IF cached THEN cache ELSE m
<1>1. look' = [look EXCEPT ![m] = [look[m] EXCEPT !.at = at]] /\ look[m].at = "averages"
      /\ evicted' = evicted
  BY DEF GetPlatformAverages
<1>2. at \in Lookers /\ at \notin Stages
  BY DEF cached, ListInv, ListShapes
<1>3. at \in Stages \cup Lookers /\ at \notin {"sweep", "reload", "pool"}
  BY <1>2 DEF Stages
<1> HIDE DEF at
<1>4. /\ look' \in [Lookers -> Looks] /\ look'[m].at = at
      /\ \A x \in Lookers \ {m} : look'[x] = look[x]
      /\ \A x \in Lookers : Informed(x)'
  BY <1>1, <1>3, PlaceMoves
<1>5. cache # Null /\ entry[cache] \in {"pending", "failed"} => cache \in Lookers \ {m}
  BY <1>1 DEF ListInv, ListShapes, Shared, Stages
<1>6. CASE cached
  <2>1. UNCHANGED <<cache, entry, fresh, evicted>>
    BY <1>1, <1>6 DEF GetPlatformAverages
  <2>2. ListShapes'
    BY <1>4, <2>1 DEF ListInv, ListShapes
  <2>3. Shared'
    BY <1>4, <1>5, <2>1 DEF ListInv, Shared
  <2> QED BY <1>4, <2>2, <2>3 DEF ListInv
<1>7. CASE ~cached
  <2>1. /\ cache' = m /\ entry' = [entry EXCEPT ![m] = "pending"] /\ fresh' = fresh \cup {m}
        /\ at = m /\ evicted' = evicted
    BY <1>7 DEF GetPlatformAverages, at
  <2>2. ListShapes'
    BY <1>4, <2>1 DEF ListInv, ListShapes
  <2>3. \A x \in fresh : entry[x] # "pending"
    BY <1>7, MatchingAssumption DEF cached, ListInv, ListShapes, Shared
  <2>4. Shared'
    BY <1>4, <2>1, <2>3 DEF ListInv, ListShapes, Shared
  <2> QED BY <1>4, <2>2, <2>4 DEF ListInv
<1> QED BY <1>6, <1>7

LEMMA AggregateKeeps ==
  ASSUME ListInv, NEW m \in Lookers, NEW outcome \in {"ok", "failed"}, AggregateReturns(m, outcome)
  PROVE  ListInv'
<1>1. /\ entry[m] = "pending" /\ entry' = [entry EXCEPT ![m] = outcome]
      /\ UNCHANGED <<look, cache, fresh, evicted>>
  BY DEF AggregateReturns
<1>2. ListShapes' /\ \A x \in Lookers : Informed(x)'
  BY <1>1 DEF ListInv, ListShapes, Informed
<1>3. Shared'
  BY <1>1 DEF ListInv, ListShapes, Shared
<1> QED BY <1>2, <1>3 DEF ListInv

LEMMA OwnerKeeps ==
  ASSUME ListInv, NEW m \in Lookers, OwnerResumes(m)
  PROVE  ListInv'
<1>1. PICK at \in {"served", "failed"} :
        look' = [look EXCEPT ![m] = [look[m] EXCEPT !.at = at]]
  BY DEF OwnerResumes
<1>2. at \in Stages \cup Lookers /\ at \notin {"sweep", "reload", "pool"}
  BY DEF Stages
<1>3. /\ look' \in [Lookers -> Looks] /\ look'[m].at = at
      /\ \A x \in Lookers \ {m} : look'[x] = look[x]
      /\ \A x \in Lookers : Informed(x)'
  BY <1>1, <1>2, PlaceMoves
<1>4. entry[m] \in {"ok", "failed"} /\ UNCHANGED <<entry, fresh>>
  BY DEF OwnerResumes
<1>5. CASE entry[m] = "failed" /\ cache = m
  <2>1. cache' = Null /\ evicted' = evicted
    BY <1>5 DEF OwnerResumes, mayEvict
  <2>2. ListShapes'
    BY <1>3, <1>4, <2>1 DEF ListInv, ListShapes
  <2>3. Shared'
    BY <1>4, <1>5, <2>1 DEF ListInv, Shared
  <2> QED BY <1>3, <2>2, <2>3 DEF ListInv
<1>6. CASE ~(entry[m] = "failed" /\ cache = m)
  <2>1. UNCHANGED <<cache, evicted>>
    BY <1>6 DEF OwnerResumes, mayEvict
  <2>2. ListShapes'
    BY <1>3, <1>4, <2>1 DEF ListInv, ListShapes
  <2>3. Shared'
    BY <1>3, <1>4, <1>6, <2>1 DEF ListInv, ListShapes, Shared
  <2> QED BY <1>3, <2>2, <2>3 DEF ListInv
<1> QED BY <1>5, <1>6

LEMMA WaiterKeeps ==
  ASSUME ListInv, NEW m \in Lookers, WaiterResumes(m)
  PROVE  ListInv'
<1> DEFINE at == IF entry[look[m].at] = "ok" THEN "served" ELSE "failed"
           l == [look[m] EXCEPT !.at = at]
<1>1. look' = [look EXCEPT ![m] = l] /\ look[m].at \in Lookers \ {m} /\ UNCHANGED averages
  BY DEF WaiterResumes, ListInv, ListShapes
<1>2. look[m] \in Looks /\ Informed(m)
  BY DEF ListInv, ListShapes
<1>3. l \in Looks /\ l.at \notin {"sweep", "reload", "pool"} /\ l.list \cap l.known = {}
  BY <1>2 DEF Looks, Informed, Stages
<1> HIDE DEF l
<1> QED BY <1>1, <1>3, ElsewhereKeeps

LEMMA WindowKeeps ==
  ASSUME ListInv, NEW m \in Lookers, WindowPasses(m)
  PROVE  ListInv'
  BY DEF WindowPasses, ListInv, ListShapes, Informed, Shared

LEMMA ListRestartKeeps ==
  ASSUME ListInv, Restart
  PROVE  ListInv'
<1>1. /\ cache' = Null /\ entry' = [m \in Lookers |-> "none"] /\ fresh' = {} /\ evicted' = evicted
      /\ look' = [m \in Lookers |-> IF look[m].at \in {"new", "served", "closed", "failed"}
                                    THEN look[m] ELSE [look[m] EXCEPT !.at = "failed"]]
  BY DEF Restart
<1>2. ASSUME NEW m \in Lookers
      PROVE  look'[m] \in Looks /\ Informed(m)'
  <2>1. look[m] \in Looks /\ Informed(m)
    BY DEF ListInv, ListShapes
  <2> QED BY <1>1, <2>1 DEF Looks, Informed, Stages
<1>3. ListShapes'
  BY <1>1, <1>2 DEF ListShapes
<1>4. Shared'
  BY <1>1 DEF ListInv, Shared
<1> QED BY <1>2, <1>3, <1>4 DEF ListInv

-----------------------------------------------------------------------------
Inv == QuestionInv /\ ListInv

LEMMA IntakeStepKeeps == ASSUME QuestionInv, IntakeStep  PROVE QuestionInv'
<1>1. CASE \E i \in Images : createQuestionAttachment(i)
  BY <1>1, UploadKeeps
<1>2. CASE \E q \in Questions : \E images \in SUBSET Images : CheckAttachments(q, images)
  BY <1>2, CheckKeeps
<1>3. CASE \E q \in Questions : Serve(q)
  BY <1>3, CommitKeeps, AskKeeps, CannotAskKeeps, DeadlineKeeps, ReadKeeps, WriteKeeps DEF Serve
<1>4. CASE \E q \in Questions : \E outcome \in Leaves \cup {"unusable"} : ModelAnswers(q, outcome)
  BY <1>4, ModelKeeps
<1>5. CASE \E q \in Questions : PostFails(q)
  BY <1>5, FailKeeps
<1>6. CASE \E q \in Questions : \E leaf \in Leaves : CheckOverride(q, leaf)
  BY <1>6, CheckOverrideKeeps
<1>7. CASE \E q \in Questions : WriteOverride(q) \/ SendOffer(q)
  BY <1>7, WriteOverrideKeeps, SendKeeps
<1>8. CASE \E q \in Questions : \E rejecting \in {{}} \cup {{t} : t \in Teachers} :
             OfferFails(q, rejecting)
  BY <1>8, OfferFailsKeeps
<1> QED BY <1>1, <1>2, <1>3, <1>4, <1>5, <1>6, <1>7, <1>8 DEF IntakeStep

(* What the lists read of the rows, they leave as it is. *)
LEMMA RowsAlone ==
  ASSUME QuestionInv, UNCHANGED <<rows, memory, overruled, ahead>>
  PROVE  QuestionInv'
<1>1. Shapes'
  BY DEF rows, memory, QuestionInv, Shapes
<1>2. ASSUME NEW q \in Questions  PROVE Sound(q)'
  <2>1. Same(q)
    BY DEF rows, memory, Same
  <2> QED BY <2>1, SameIsSound DEF QuestionInv
<1> QED BY <1>1, <1>2 DEF QuestionInv

LEMMA ListsAlone == ASSUME ListInv, UNCHANGED matching  PROVE ListInv'
  BY DEF matching, averages, ListInv, ListShapes, Informed, Shared

LEMMA ServeLookKeeps ==
  ASSUME Inv, NEW m \in Lookers, ServeLook(m)
  PROVE  Inv'
<1>1. ListInv'
  BY ListSweepKeeps, ReloadKeeps, PoolKeeps, AveragesKeep, AggregateKeeps, OwnerKeeps, WaiterKeeps
     DEF Inv, ServeLook
<1>2. CASE \E expired \in SUBSET Questions : SweepExpiredOffers(m, expired)
  BY <1>1, <1>2, SweepKeeps DEF Inv
<1>3. CASE ~ \E expired \in SUBSET Questions : SweepExpiredOffers(m, expired)
  <2>1. UNCHANGED intake
    BY <1>3 DEF ServeLook, Reload, ResolveCandidatePool, GetPlatformAverages, AggregateReturns,
                OwnerResumes, WaiterResumes
  <2> QED BY <1>1, <2>1, RowsAlone DEF Inv, intake
<1> QED BY <1>2, <1>3

LEMMA NextKeeps == Inv /\ [Next]_vars => Inv'
<1> SUFFICES ASSUME Inv, [Next]_vars  PROVE Inv'
  OBVIOUS
<1>1. CASE IntakeStep /\ UNCHANGED matching
  BY <1>1, IntakeStepKeeps, ListsAlone DEF Inv
<1>2. CASE \E m \in Lookers : \E q \in Questions : Look(m, q)
  <2>1. ListInv'
    BY <1>2, LookKeeps DEF Inv
  <2>2. UNCHANGED <<rows, memory, overruled, ahead>>
    BY <1>2 DEF Look
  <2> QED BY <2>1, <2>2, RowsAlone DEF Inv
<1>3. CASE \E m \in Lookers : ServeLook(m)
  BY <1>3, ServeLookKeeps
<1>4. CASE \E m \in Lookers : WindowPasses(m)
  BY <1>4, WindowKeeps, RowsAlone DEF Inv, WindowPasses, intake
<1>5. CASE Restart
  BY <1>5, RestartKeeps, ListRestartKeeps DEF Inv, Restart
<1>6. CASE UNCHANGED vars
  BY <1>6, RowsAlone, ListsAlone DEF Inv, vars, intake
<1> QED BY <1>1, <1>2, <1>3, <1>4, <1>5, <1>6 DEF Next

LEMMA Invariance == Spec => []Inv
<1>1. Init => Inv
  BY QuestionInit, ListInit DEF Init, Inv
<1> QED BY <1>1, NextKeeps, PTL DEF Spec

-----------------------------------------------------------------------------
(* Rows, requests and lists keep their shapes. *)
THEOREM AskingIsTyped == Spec => []TypeOK
<1>1. Inv => TypeOK
  <2> SUFFICES ASSUME Inv  PROVE TypeOK
    OBVIOUS
  <2>1. ASSUME NEW q \in Questions
        PROVE  /\ question[q] \in {Null} \cup [topic : Leaves \cup {Unclassified, Null}, ok : BOOLEAN]
               /\ status[q] \in {Null, "PENDING", "OFFER_SENT"}
               /\ (question[q] = Null) = (status[q] = Null)
               /\ post[q].at \in InFlight \cup {"new", "refused", "answered", "failed", "lost"}
               /\ post[q].shown \subseteq post[q].images
               /\ patch[q] \in {Null} \cup Leaves
               /\ rejectedBy[q] \subseteq Teachers
    BY DEF Inv, QuestionInv, Shapes, Sound, Committed, Own, Classification, Posts, Places
  <2>2. IntakeTypeOK
    BY <2>1 DEF IntakeTypeOK, Inv, QuestionInv, Shapes
  <2>3. \A m \in Lookers : look[m].at \in Stages \cup Lookers /\ look[m].list \subseteq Teachers
    BY DEF Inv, ListInv, ListShapes, Looks
  <2> QED BY <2>2, <2>3 DEF TypeOK, Inv, ListInv, ListShapes
<1> QED BY <1>1, Invariance, PTL

(* Only its own photographs are shown to the model: the transaction binds a
   subset of what was checked, and the handler goes on with that subset. *)
THEOREM ImagesStay == Spec => []ImagesStayHome
<1>1. Inv => ImagesStayHome
  BY DEF Inv, QuestionInv, Shapes, Posts, Sound, Own, ImagesStayHome
<1> QED BY <1>1, Invariance, PTL

(* A vendor's answer that lost the race with the timer is never written. *)
THEOREM LateAnswersDrop == Spec => []LateAnswersAreDropped
<1>1. Inv => LateAnswersAreDropped
  BY DEF Inv, QuestionInv, Shapes, Sound, Late, LateAnswersAreDropped
<1> QED BY <1>1, Invariance, PTL

(* While an offer is out, the topic of its question is moved only by a
   request that was past its check when the offer went out. *)
THEOREM RetopicsAreInFlight == Spec => RetopicsOnlyInFlight
<1>1. Inv /\ [Next]_vars =>
        [\A q \in Questions :
           (status[q] = "OFFER_SENT" /\ status'[q] = "OFFER_SENT" /\ question'[q] # question[q])
             => q \in ahead]_intake
  <2> SUFFICES ASSUME Inv, [Next]_vars, NEW q \in Questions,
                      status[q] = "OFFER_SENT", status'[q] = "OFFER_SENT", question'[q] # question[q]
               PROVE  q \in ahead
    OBVIOUS
  <2>1. Sound(q)
    BY DEF Inv, QuestionInv
  <2>2. PICK x \in Questions :
          createQuestionWithSession(x) \/ WriteClassification(x) \/ WriteOverride(x)
    BY DEF Next, IntakeStep, Serve, AskTheModel, CannotAsk, DeadlinePasses, ReadAnswer, rows,
           createQuestionAttachment, CheckAttachments, ModelAnswers, PostFails, CheckOverride,
           SendOffer, OfferFails, ServeLook, SweepExpiredOffers, Reload, ResolveCandidatePool,
           GetPlatformAverages, AggregateReturns, OwnerResumes, WaiterResumes, WindowPasses, Look,
           Restart, IntakeRestart, vars, intake
  <2>3. CASE createQuestionWithSession(x)
    <3>1. x = q
      BY <2>3 DEF createQuestionWithSession, Inv, QuestionInv, Shapes
    <3> QED BY <2>1, <2>3, <3>1 DEF createQuestionWithSession, Sound, Committed
  <2>4. CASE WriteClassification(x)
    <3>1. x = q
      BY <2>4 DEF WriteClassification, Inv, QuestionInv, Shapes
    <3> QED BY <2>1, <2>4, <3>1 DEF WriteClassification, Sound, Ahead, InFlight
  <2>5. CASE WriteOverride(x)
    <3>1. x = q
      BY <2>5 DEF WriteOverride, Inv, QuestionInv, Shapes
    <3> QED BY <2>1, <2>5, <3>1 DEF WriteOverride, Sound, Ahead
  <2> QED BY <2>2, <2>3, <2>4, <2>5
<1> QED BY <1>1, Invariance, PTL DEF Spec, RetopicsOnlyInFlight

(* A photograph never changes hands: both writes that touch it ask for a row
   without a question. *)
THEOREM AttachmentsStay == Spec => AttachmentsBindOnce
<1>1. Inv /\ [Next]_vars => [\A i \in Images : bound[i] \in Questions => bound'[i] = bound[i]]_intake
  <2> SUFFICES ASSUME Inv, [Next]_vars, NEW i \in Images, bound[i] \in Questions
               PROVE  bound'[i] = bound[i]
    OBVIOUS
  <2>1. CASE \E j \in Images : createQuestionAttachment(j)
    BY <2>1 DEF createQuestionAttachment, Inv, QuestionInv, Shapes
  <2>2. CASE \E q \in Questions : createQuestionWithSession(q)
    BY <2>2 DEF createQuestionWithSession, bindable, findBindableAttachmentIds
  <2>3. CASE UNCHANGED bound
    BY <2>3
  <2> QED
    BY <2>1, <2>2, <2>3
    DEF Next, IntakeStep, Serve, AskTheModel, CannotAsk, DeadlinePasses, ReadAnswer, rows,
        WriteClassification, WriteOverride,
        CheckAttachments, ModelAnswers, PostFails, CheckOverride,
        SendOffer, OfferFails, ServeLook, SweepExpiredOffers, Reload, ResolveCandidatePool,
        GetPlatformAverages, AggregateReturns, OwnerResumes, WaiterResumes, WindowPasses, Look,
        Restart, IntakeRestart, vars, intake
<1> QED BY <1>1, Invariance, PTL DEF Spec, AttachmentsBindOnce

(* Cold callers share one query of the platform averages. *)
THEOREM OneQuery == Spec => []OneAggregate
<1>1. Inv => OneAggregate
  <2> DEFINE out == {m \in fresh : entry[m] = "pending"}
  <2> SUFFICES ASSUME Inv  PROVE Cardinality(out) <= 1
    BY DEF OneAggregate
  <2>1. out \subseteq {cache}
    BY DEF Inv, ListInv, Shared
  <2>2. IsFiniteSet({cache}) /\ Cardinality({cache}) = 1
    BY FS_Singleton
  <2> QED BY <2>1, <2>2, FS_Subset
<1> QED BY <1>1, Invariance, PTL

(* A failed query is not served to whoever comes later, and its eviction does
   not take a later query with it. *)
THEOREM FailuresGo == Spec => []FailuresAreEvicted
<1>1. Inv => FailuresAreEvicted
  BY DEF Inv, ListInv, Shared, FailuresAreEvicted
<1> QED BY <1>1, Invariance, PTL

(* Nobody who had turned the question down is on its list. *)
THEOREM ListsAreInformed == Spec => []ListKnowsItsRejections
<1>1. Inv => ListKnowsItsRejections
  BY DEF Inv, ListInv, Informed, ListKnowsItsRejections
<1> QED BY <1>1, Invariance, PTL

=============================================================================
