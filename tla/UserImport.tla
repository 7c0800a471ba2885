----------------------------- MODULE UserImport -----------------------------
(* The jobs that carry a list of words into the private dictionary.  A web   *)
(* request creates its job empty and fills it; a document is imported whole, *)
(* by the scheduler (bound) or by a bot request (bind); a poller (the bot's  *)
(* poll of the API, the scheduler's tick) claims whatever is unfinished and  *)
(* prepares it again.  They all work on the same rows at once.               *)
EXTENDS UserDictionary

CONSTANTS
  J,          \* jobs are numbered
  JobOf,      \* the job of each item
  Duties,     \* the jobs each importer may create, and how: "web", "bound", "bind"
  Poller,     \* the importers that claim jobs
  Crews       \* bound: the sets of processes that run at the same time

Job == 1 .. J
WebJob == {j \in Job : \E p \in Importer : <<"web", j>> \in Duties[p]}
ItemsOf(j) == {i \in Item : JobOf[i] = j}

ASSUME ImportAssumption ==
  /\ J \in Nat
  /\ JobOf \in [Item -> Job]
  /\ Duties \in [Importer -> SUBSET ({"web", "bound", "bind"} \X Job)]
  /\ Poller \subseteq Importer
  /\ Crews \subseteq SUBSET (Importer \union Builder)

VARIABLES
  crew,   \* the processes that run
  job,    \* user_vocabulary_import_job
  listed, \* jobs a poll has listed for their summary
  proc    \* what each importer does: the job at hand, those it has claimed besides
importVars == <<dictVars, job, listed, proc, crew>>

AtEase == [duty |-> "none", job |-> 0, more |-> {}, todo |-> {}, step |-> "none"]
Steps == {"mark", "append", "list", "items", "close", "told", "fail"}

JobRow == [status : {"absent", "queued", "processing", "completed", "failed"},
           leased : BOOLEAN, sent : BOOLEAN]
Working == [duty : {"web", "bound", "bind", "claimed"}, job : Job,
            more : SUBSET Job, todo : SUBSET Item, step : Steps]

ImportTypeOK ==
  /\ DictionaryTypeOK
  /\ crew \in Crews
  /\ job \in [Job -> JobRow]
  /\ listed \subseteq Job
  /\ proc \in [Importer -> {AtEase} \union Working]

ImportInit ==
  /\ DictInit
  /\ crew \in Crews
  /\ job = [j \in Job |-> [status |-> "absent", leased |-> FALSE, sent |-> FALSE]]
  /\ listed = {}
  /\ proc = [p \in Importer |-> AtEase]

At(p, step) == proc[p].step = step
Mine(p) == proc[p].job
First(x, S) == x \in S /\ \A y \in S : x <= y

\* Done with the job at hand; a poller goes on with the next one it has claimed.
Leave(p) ==
  \/ proc[p].more = {} /\ proc' = [proc EXCEPT ![p] = AtEase]
  \/ \E j \in proc[p].more :
       /\ First(j, proc[p].more)
       /\ proc' = [proc EXCEPT ![p] = [duty |-> "claimed", job |-> j, more |-> @.more \ {j},
                                       todo |-> {}, step |-> "list"]]

\* complete.
Closed(j, status) == [job EXCEPT ![j].status = status, ![j].leased = FALSE]

----------------------------------------------------------------------------
(* Creating a job. *)

\* submit_import: the job is empty, its words follow.
CreateEmpty(p, j) ==
  /\ proc[p] = AtEase /\ <<"web", j>> \in Duties[p]
  /\ job[j].status = "absent"
  /\ job' = [job EXCEPT ![j].status = "queued"]
  /\ proc' = [proc EXCEPT ![p] = [AtEase EXCEPT !.duty = "web", !.job = j, !.step = "mark"]]
  /\ UNCHANGED dictVars

\* mark_processing: whatever the job has become; its lease is over as it is
\* written (processing_claimed_until = current_time).
MarkProcessing(p) ==
  /\ At(p, "mark")
  /\ job' = [job EXCEPT ![Mine(p)].status = "processing", ![Mine(p)].leased = FALSE]
  /\ proc' = [proc EXCEPT ![p].step = "append"]
  /\ UNCHANGED dictVars

Missing(j) == {i \in ItemsOf(j) : item[i].status = "absent"}

Knows(u, w) == assigned[<<u, w>>] # "none" \/ shared[<<u, w>>] # "none"

\* append_items: known words come as existing, what the validation refuses as
\* rejected; when no batch is left the job is complete.
Append(p) ==
  /\ At(p, "append")
  /\ \E i \in ItemsOf(Mine(p)), status \in {"pending", "refused", "existing"} :
       /\ First(i, Missing(Mine(p)))
       /\ status = "existing" => Knows(OwnerOf[i], WordOf[i])
       /\ item' = [item EXCEPT ![i].status = status]
  /\ proc' = [proc EXCEPT ![p].step = "list"]
  /\ UNCHANGED <<entry, core, assigned, shared, dangling, prep, build, due, missed, overlap, faults, orders, job>>

NothingLeft(p) ==
  /\ At(p, "append") /\ Missing(Mine(p)) = {}
  /\ proc' = [proc EXCEPT ![p].step = "close"]
  /\ UNCHANGED <<dictVars, job>>

\* create_job with its items, for a document.
CreateWhole(p, j) ==
  /\ proc[p] = AtEase
  /\ job[j].status = "absent"
  /\ job' = [job EXCEPT ![j].status = "queued"]
  /\ item' = [i \in Item |-> IF JobOf[i] = j THEN [item[i] EXCEPT !.status = "pending"] ELSE item[i]]
  /\ \E duty \in {"bound", "bind"} :
       /\ <<duty, j>> \in Duties[p]
       /\ proc' = [proc EXCEPT ![p] = [AtEase EXCEPT !.duty = duty, !.job = j, !.step = "list"]]
  /\ UNCHANGED <<entry, core, assigned, shared, dangling, prep, build, due, missed, overlap, faults, orders>>

\* claim_queued, and process_claimed_job on one after the other; the limit of
\* ten jobs is not reached.
Claimable == {j \in Job : /\ job[j].status \in {"queued", "processing"}
                          /\ ~job[j].sent /\ ~job[j].leased}

Claim(p) ==
  /\ p \in Poller /\ proc[p] = AtEase
  /\ job' = [j \in Job |-> IF j \in Claimable
                             THEN [job[j] EXCEPT !.status = "processing", !.leased = TRUE] ELSE job[j]]
  /\ \E j \in Claimable :
       /\ First(j, Claimable)
       /\ proc' = [proc EXCEPT ![p] = [duty |-> "claimed", job |-> j, more |-> Claimable \ {j},
                                       todo |-> {}, step |-> "list"]]
  /\ UNCHANGED dictVars

\* A mutant: only a job without a lease is claimed, run out or not.
LeaseEndsNever(j) == FALSE

\* Fifteen minutes pass.
LeaseEnds(j) ==
  /\ job[j].leased
  /\ job' = [job EXCEPT ![j].leased = FALSE]
  /\ UNCHANGED <<dictVars, listed, proc>>

----------------------------------------------------------------------------
(* prepare_import_job_items: the items are listed once and prepared one      *)
(* after the other, whatever another process has made of them meanwhile.     *)

Pending(j) == {i \in ItemsOf(j) : item[i].status = "pending"}

List(p) ==
  /\ At(p, "list")
  /\ proc' = [proc EXCEPT ![p].todo = Pending(Mine(p)), ![p].step = "items"]
  /\ UNCHANGED <<dictVars, job>>

Prepare(p) ==
  /\ At(p, "items")
  /\ \E i \in proc[p].todo :
       /\ First(i, proc[p].todo) /\ Look(p, i)
       /\ proc' = [proc EXCEPT ![p].todo = @ \ {i}]
  /\ UNCHANGED job

Work(p) == (Seek(p) \/ Create(p) \/ Assign(p) \/ AssignStray(p) \/ Mark(p)) /\ UNCHANGED <<job, proc>>

\* list_unfinished_items: a claimed or a bound job with an unfinished item is
\* left as it is; a request does not look.
Unfinished(p) == proc[p].duty \in {"claimed", "bound"} /\ Pending(Mine(p)) # {}

Prepared(p) ==
  /\ At(p, "items") /\ proc[p].todo = {} /\ prep[p] = Free
  /\ \/ proc[p].duty = "web" /\ proc' = [proc EXCEPT ![p].step = "append"]
     \/ Unfinished(p) /\ Leave(p)
     \/ /\ proc[p].duty # "web" /\ ~ Unfinished(p)
        /\ proc' = [proc EXCEPT ![p].step = "close"]
  /\ UNCHANGED <<dictVars, job>>

\* A bind tells the learner itself, and marks the summary as sent.
Complete(p) ==
  /\ At(p, "close")
  /\ job' = Closed(Mine(p), "completed")
  /\ \/ proc[p].duty = "bind" /\ proc' = [proc EXCEPT ![p].step = "told"]
     \/ proc[p].duty # "bind" /\ Leave(p)
  /\ UNCHANGED dictVars

Told(p) ==
  /\ At(p, "told")
  /\ job' = [job EXCEPT ![Mine(p)].sent = TRUE]
  /\ proc' = [proc EXCEPT ![p] = AtEase]
  /\ UNCHANGED dictVars

----------------------------------------------------------------------------
(* Failures. *)

\* A mutant: the exception is caught around the items, the job goes on.
RaisedClosed(p) ==
  /\ proc' = [proc EXCEPT ![p].step = "close", ![p].todo = {}]
  /\ Drop(p)
  /\ UNCHANGED <<entry, core, item, assigned, shared, dangling, build, due, missed, overlap, orders, job, crew>>

\* An exception: a poller and a web request fail the job, the import of a
\* document leaves it queued.
Raised(p) ==
  /\ proc' = [proc EXCEPT ![p] = IF @.duty \in {"claimed", "web"}
                                   THEN [@ EXCEPT !.step = "fail", !.todo = {}] ELSE AtEase]
  /\ Drop(p)
  /\ UNCHANGED <<entry, core, item, assigned, shared, dangling, build, due, missed, overlap, orders, job>>

\* The word was created since it was looked for, and words are unique; or its
\* entry was promoted, and the item cannot refer to it.
Collide(p) == (Collides(p) \/ Orphaned(p)) /\ Raised(p) /\ UNCHANGED faults

Raises(p) ==
  /\ proc[p].step \in {"append", "list", "items"}
  /\ p \in Mortal /\ faults < MaxFaults /\ faults' = faults + 1
  /\ Raised(p)

\* A web request that has completed its job still binds the document, and the
\* processing of a claimed job writes its log; when that raises the job fails
\* after all.
CompleteThenRaises(p) ==
  /\ At(p, "close") /\ proc[p].duty \in {"web", "claimed"}
  /\ p \in Mortal /\ faults < MaxFaults /\ faults' = faults + 1
  /\ job' = Closed(Mine(p), "completed")
  /\ proc' = [proc EXCEPT ![p].step = "fail"]
  /\ UNCHANGED <<entry, core, item, assigned, shared, dangling, prep, build, due, missed, overlap, orders>>

FailJob(p) ==
  /\ At(p, "fail")
  /\ job' = Closed(Mine(p), "failed")
  /\ Leave(p)
  /\ UNCHANGED dictVars

Dies(p) ==
  /\ proc[p] # AtEase
  /\ p \in Mortal /\ faults < MaxFaults /\ faults' = faults + 1
  /\ proc' = [proc EXCEPT ![p] = AtEase]
  /\ Drop(p)
  /\ UNCHANGED <<entry, core, item, assigned, shared, dangling, build, due, missed, overlap, orders, job>>

\* dispatch_due_user_import_summary_notifications, by whoever polls: the jobs are
\* listed once, and each is marked whatever it has become.  One poll at a time: one
\* that overlaps marks the same jobs again.
ListSummaries ==
  /\ listed = {}
  /\ listed' = {j \in Job : job[j].status \in {"completed", "failed"} /\ ~job[j].sent}
  /\ listed' # {}
  /\ UNCHANGED <<dictVars, job, proc>>

Summarise(j) ==
  /\ j \in listed
  /\ listed' = listed \ {j}
  /\ job' = [job EXCEPT ![j].sent = TRUE]
  /\ UNCHANGED <<dictVars, proc>>

----------------------------------------------------------------------------
ImporterStep(p) ==
  \/ \E j \in Job : CreateEmpty(p, j) \/ CreateWhole(p, j)
  \/ MarkProcessing(p) \/ Append(p) \/ NothingLeft(p)
  \/ Claim(p) \/ List(p) \/ Prepare(p) \/ Work(p) \/ Prepared(p) \/ Complete(p) \/ Told(p)
  \/ Collide(p) \/ Raises(p) \/ CompleteThenRaises(p) \/ FailJob(p) \/ Dies(p)

ImportNext ==
  /\ \/ \E p \in Importer \intersect crew : ImporterStep(p) /\ UNCHANGED listed
     \/ \E b \in Builder \intersect crew : BuilderStep(b) /\ UNCHANGED <<job, listed, proc>>
     \/ \E j \in Job : LeaseEnds(j) \/ Summarise(j)
     \/ ListSummaries
  /\ UNCHANGED crew

\* Processes that live go on; pollers come round again, leases run out.
Goes(p) ==
  \/ MarkProcessing(p) \/ Append(p) \/ NothingLeft(p) \/ Claim(p) \/ List(p) \/ Prepare(p)
  \/ Work(p) \/ Prepared(p) \/ Complete(p) \/ Told(p) \/ Collide(p) \/ FailJob(p)

ImportFairness ==
  /\ \A p \in Importer : WF_importVars(p \in crew /\ Goes(p) /\ UNCHANGED <<listed, crew>>)
  /\ \A b \in Builder : WF_importVars(b \in crew /\ BuilderGoes(b) /\ UNCHANGED <<job, listed, proc, crew>>)
  /\ \A j \in Job : WF_importVars(LeaseEnds(j) /\ UNCHANGED crew)
  /\ WF_importVars((ListSummaries \/ \E j \in Job : Summarise(j)) /\ UNCHANGED crew)

ImportSpec == ImportInit /\ [][ImportNext]_importVars /\ ImportFairness

----------------------------------------------------------------------------
\* A summary says that a job is completed only when each of its items is
\* decided, but for a web job that a poller has met half filled.
SummaryIsWhole ==
  \A j \in Job \ WebJob :
    (job[j].sent /\ job[j].status = "completed") => Pending(j) = {}

\* A job that was begun ends, and with every item decided or as failed, unless
\* it is a web job summarised before it was full: no poller looks at it again.
Undone(j) == job[j].status \in {"queued", "processing"}
             \/ (job[j].status = "completed" /\ Pending(j) # {})
JobEnds ==
  \A j \in Job : Undone(j) ~> (~ Undone(j) \/ (j \in WebJob /\ job[j].sent))

\* A learner who waits for a word gets it, or the word fails or is rejected,
\* while anyone builds at all and nobody missed the end of its building.
Building == \E b \in Builder \intersect crew : Stages[b] = Queued
WaitingEnds ==
  \A u \in User, w \in Word : (Building /\ assigned[<<u, w>>] = "waiting") ~>
    (assigned[<<u, w>>] # "waiting" \/ entry[w] \in Failed \union {"rejected"} \/ w \in missed)

=============================================================================
