-------------------------------- MODULE Lesson --------------------------------
(* What a lesson promises its learner: after the cards, every word that was *)
(* not put aside as known is asked in each of three exercises, and asked    *)
(* again until its last answer in that exercise was right.                  *)

CONSTANT Slot       \* the words of the lesson

Exercise == {"en_uk", "uk_en", "gap"}
Following == [en_uk |-> "uk_en", uk_en |-> "gap"]

VARIABLES
  phase,   \* "cards", an exercise, "over" or "cancelled"
  known,   \* the words put aside
  todo,    \* the words this exercise still has to ask
  right    \* by exercise, the words whose last answer was right

vars == <<phase, known, todo, right>>

ToAsk == Slot \ known

TypeOK ==
  /\ phase \in Exercise \union {"cards", "over", "cancelled"}
  /\ known \subseteq Slot /\ todo \subseteq Slot
  /\ right \in [Exercise -> SUBSET Slot]

Init ==
  /\ phase = "cards"
  /\ known = {} /\ todo = {}
  /\ right = [e \in Exercise |-> {}]

SortCard(i) ==
  /\ phase = "cards"
  /\ known' \in {known \union {i}, known \ {i}}
  /\ UNCHANGED <<phase, todo, right>>

BeginExercises ==
  /\ phase = "cards"
  /\ phase' = "en_uk" /\ todo' = ToAsk
  /\ UNCHANGED <<known, right>>

Answer(i) ==
  /\ phase \in Exercise /\ i \in todo
  /\ \E s \in {right[phase] \union {i}, right[phase] \ {i}} :
       right' = [right EXCEPT ![phase] = s]
  /\ UNCHANGED <<phase, known, todo>>

\* Only a word whose last answer was right is done with.
DoneWith(i) ==
  /\ phase \in Exercise /\ i \in todo \intersect right[phase]
  /\ todo' = todo \ {i}
  /\ UNCHANGED <<phase, known, right>>

NextExercise ==
  /\ phase \in {"en_uk", "uk_en"} /\ todo = {}
  /\ phase' = Following[phase] /\ todo' = ToAsk
  /\ UNCHANGED <<known, right>>

Finish ==
  /\ phase = "gap" /\ todo = {}
  /\ phase' = "over"
  /\ UNCHANGED <<known, todo, right>>

Cancel ==
  /\ phase' = "cancelled"
  /\ UNCHANGED <<known, todo, right>>

Next ==
  \/ \E i \in Slot : SortCard(i) \/ Answer(i) \/ DoneWith(i)
  \/ BeginExercises \/ NextExercise \/ Finish \/ Cancel

Spec == Init /\ [][Next]_vars

=============================================================================
