----------------------------- MODULE MCTutorNow -----------------------------
(* Values for the constants of TutorNow, shared by the runs. *)
EXTENDS Reconcile, TLC

CONSTANT a            \* the student
OneStudent  == [s \in Sessions |-> a]
FlatPrice   == [t \in Teachers |-> 10]
Rich        == [u \in Users |-> 60]
Tight       == [u \in Users |-> 30]

(* Users, rows and handler slots of a run are interchangeable. *)
Symmetric ==
  {h @@ t @@ s @@ o : h \in Permutations(Handlers), t \in Permutations(Teachers),
                      s \in Permutations(Sessions), o \in Permutations(Offers)}
=============================================================================
