--------------------------- MODULE MCLearningSession ---------------------------
EXTENDS LearningSessionProgress, TLC

CONSTANTS a, b, c      \* words

TwoWords == <<a, b>>
Assigned(state, stage, streak) == [state |-> state, stage |-> stage, streak |-> streak]
\* A word under way, one a level below the last, and a fresh one to take a place.
MixedProgress == (a :> Assigned("learning", 2, 2)) @@ (b :> Assigned("needs_work", 4, 0))
                 @@ (c :> NoProgress)
\* A wrong answer in the second exercise and in the last.
LateErrors == ("en_uk" :> 0) @@ ("uk_en" :> 1) @@ ("gap" :> 1)

=============================================================================
