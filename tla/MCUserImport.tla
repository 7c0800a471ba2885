---------------------------- MODULE MCUserImport ----------------------------
(* A web job and a document bring the same word, for two learners.  Either a *)
(* web request and the scheduler are at work, or the API, which serves the   *)
(* bot's binds and polls, with a builder and an administrator.               *)
EXTENDS UserImport

MCWordOf == [i \in 1 .. 2 |-> "w"]
MCOwnerOf == [i \in 1 .. 2 |-> i]
MCJobOf == [i \in 1 .. 2 |-> i]
MCDuties == [p \in Importer |-> CASE p = "request" -> {<<"web", 1>>} [] p = "sched" -> {<<"bound", 2>>}
                                 [] p = "bot" -> {<<"bind", 1>>, <<"bind", 2>>}]
MCStages == [b \in Builder |-> IF b = "admin" THEN {} ELSE Queued]
MCCrews == {{"request", "sched"}, {"bot", "b1", "admin"}}

=============================================================================
