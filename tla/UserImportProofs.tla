-------------------------- MODULE UserImportProofs --------------------------
(* Proofs about UserImport, for any words, jobs, processes and faults.       *)
EXTENDS UserImport, TLAPS

----------------------------------------------------------------------------
(* Types. *)

LEMMA TypeInit == ImportInit => ImportTypeOK
BY DictionaryAssumption, ImportAssumption
   DEF ImportInit, DictInit, ImportTypeOK, DictionaryTypeOK, EntryStatus, ItemStatus, ItemRow, JobRow, Assignment

LEMMA BusyImporter ==
  ASSUME DictionaryTypeOK, NEW p \in Importer,
         prep[p].step \in {"seek", "create", "assign", "mark", "stray", "orphan"}
  PROVE  prep[p] # Free /\ prep[p] \in Doing
BY DEF DictionaryTypeOK, Free

LEMMA HeldIsWord ==
  ASSUME DictionaryTypeOK, NEW p \in Importer, prep[p] # Free
  PROVE  /\ prep[p] \in Doing /\ prep[p].item \in Item /\ Held(p) \in Word
         /\ OwnerOf[prep[p].item] \in User
         /\ <<OwnerOf[prep[p].item], Held(p)>> \in User \X Word
<1>1. prep[p] \in Doing
  BY DEF DictionaryTypeOK
<1>2. prep[p].item \in Item
  BY <1>1 DEF Doing
<1> QED
  BY <1>1, <1>2, DictionaryAssumption DEF Held, User

LEMMA BusyBuilder ==
  ASSUME DictionaryTypeOK, NEW b \in Builder,
         build[b].step \in {"write", "publish", "archive", "sync"}
  PROVE  /\ build[b] # Idle /\ build[b] \in Making
         /\ build[b].word \in Word /\ build[b].status \in EntryStatus \ {"none"}
BY DEF Idle, DictionaryTypeOK, Making

LEMMA AtWork ==
  ASSUME ImportTypeOK, NEW p \in Importer, proc[p].step \in Steps
  PROVE  /\ proc[p] # AtEase /\ proc[p] \in Working
         /\ Mine(p) \in Job /\ proc[p].more \subseteq Job /\ proc[p].todo \subseteq Item
BY DEF ImportTypeOK, AtEase, Steps, Working, Mine

LEMMA LeaveType ==
  ASSUME ImportTypeOK, NEW p \in Importer, proc[p].step \in Steps, Leave(p)
  PROVE  proc' \in [Importer -> {AtEase} \union Working]
<1>1. CASE proc' = [proc EXCEPT ![p] = AtEase]
  BY <1>1 DEF ImportTypeOK
<1>2. ASSUME NEW j \in proc[p].more,
             proc' = [proc EXCEPT ![p] = [duty |-> "claimed", job |-> j, more |-> @.more \ {j},
                                          todo |-> {}, step |-> "list"]]
      PROVE  proc' \in [Importer -> {AtEase} \union Working]
  BY <1>2, AtWork DEF ImportTypeOK, Working, Steps
<1> QED
  BY <1>1, <1>2 DEF Leave

LEMMA BuilderType ==
  ASSUME DictionaryTypeOK, NEW b \in Builder, BuilderStep(b)
  PROVE  DictionaryTypeOK'
<1>a. ASSUME NEW status \in Queued, ListEntries(b, status) PROVE DictionaryTypeOK'
  <2>1. Met(b, {w \in Word : entry[w] = status}) \subseteq Word
    BY DEF Met
  <2>2. due' \in [Builder -> SUBSET (Word \X Queued)]
    BY <1>a DEF ListEntries, DictionaryTypeOK
  <2> QED
    BY <1>a, <2>1, <2>2 DEF ListEntries, DictionaryTypeOK
<1>1. ASSUME NEW w \in Word, NEW status \in EntryStatus \ {"none"}, Begin(b, w, status)
      PROVE  build' \in [Builder -> {Idle} \union Making]
  BY <1>1 DEF Begin, DictionaryTypeOK, Making
<1>2. ASSUME NEW w \in Word, NEW status \in Queued, Pick(b, w, status) PROVE DictionaryTypeOK'
  <2>1. status \in EntryStatus \ {"none"}
    BY DEF EntryStatus, Queued
  <2>2. due' \in [Builder -> SUBSET (Word \X Queued)]
    BY <1>2 DEF Pick, DictionaryTypeOK
  <2>3. build' \in [Builder -> {Idle} \union Making]
    BY <1>1, <1>2, <2>1 DEF Pick
  <2> QED
    BY <1>2, <2>2, <2>3 DEF Pick, DictionaryTypeOK
<1>3. ASSUME NEW w \in Word, AdminPicks(b, w) PROVE DictionaryTypeOK'
  <2>1. Ordered(w) \subseteq EntryStatus \ {"none"}
    BY DEF Ordered, EntryStatus, Queued
  <2>2. orders' \in 0 .. MaxOrders
    BY <1>3, DictionaryAssumption DEF AdminPicks, DictionaryTypeOK
  <2>3. build' \in [Builder -> {Idle} \union Making]
    BY <1>1, <1>3, <2>1 DEF AdminPicks
  <2>4. Met(b, {w}) \subseteq Word
    BY DEF Met
  <2> QED
    BY <1>3, <2>2, <2>3, <2>4 DEF AdminPicks, DictionaryTypeOK
<1>4. CASE Write(b)
  <2>1. PICK status \in Outcomes(b) :
          /\ entry' = [entry EXCEPT ![build[b].word] = status]
          /\ build' = [build EXCEPT ![b].step = AfterWrite(status), ![b].status = status]
    BY <1>4 DEF Write
  <2>2. build[b] \in Making /\ build[b].word \in Word /\ build[b].status \in EntryStatus \ {"none"}
    BY <1>4, BusyBuilder DEF Write
  <2>3. status \in EntryStatus \ {"none"}
    BY <2>2, <2>1 DEF Outcomes, DetailsBuilt, AudioBuilt, EmbeddingBuilt, EntryStatus, Queued, Failed
  <2>0. AfterWrite(status) \in {"write", "publish", "archive", "sync"}
    BY DEF AfterWrite
  <2>4. [build[b] EXCEPT !.step = AfterWrite(status), !.status = status] \in Making
    BY <2>0, <2>2, <2>3 DEF Making
  <2>5. build' = [build EXCEPT ![b] = [build[b] EXCEPT !.step = AfterWrite(status), !.status = status]]
    BY <2>1, <2>2 DEF DictionaryTypeOK, Making
  <2>6. build' \in [Builder -> {Idle} \union Making]
    BY <2>4, <2>5 DEF DictionaryTypeOK
  <2> QED
    BY <1>4, <2>1, <2>3, <2>6 DEF Write, DictionaryTypeOK
<1>5. CASE Publish(b)
  <2>1. build[b] \in Making /\ build[b].word \in Word
    BY <1>5, BusyBuilder DEF Publish
  <2>2. build' \in [Builder -> {Idle} \union Making]
    BY <1>5, <2>1 DEF Publish, DictionaryTypeOK, Making
  <2> QED
    BY <1>5, <2>1, <2>2 DEF Publish, DictionaryTypeOK, Assignment
<1>6. CASE Sync(b)
  <2>1. build[b].word \in Word
    BY <1>6, BusyBuilder DEF Sync
  <2>2. Shown(build[b].status) \in ItemStatus
    BY DEF Shown, ItemStatus
  <2>3. item' \in [Item -> ItemRow]
    BY <1>6, <2>2 DEF Sync, DictionaryTypeOK, ItemRow
  <2> QED
    BY <1>6, <2>1, <2>3 DEF Sync, DictionaryTypeOK
<1>7. CASE BuilderFails(b)
  <2>1. missed' \subseteq Word
    BY <1>7 DEF BuilderFails, DictionaryTypeOK, Making, Idle
  <2>2. due' \in [Builder -> SUBSET (Word \X Queued)]
    BY <1>7 DEF BuilderFails, DictionaryTypeOK
  <2> QED
    BY <1>7, <2>1, <2>2, DictionaryAssumption DEF BuilderFails, DictionaryTypeOK
<1>8. CASE Promote(b)
  <2>1. build[b].word \in Word
    BY <1>8, BusyBuilder DEF Promote
  <2>2. /\ entry' \in [Word -> EntryStatus] /\ core' \subseteq Word
        /\ build' \in [Builder -> {Idle} \union Making] /\ missed' \subseteq Word
    BY <1>8, <2>1 DEF Promote, DictionaryTypeOK, EntryStatus
  <2>3. assigned' \in [User \X Word -> Assignment] /\ shared' \in [User \X Word -> Assignment]
    BY <1>8 DEF Promote, Merged, DictionaryTypeOK, Assignment
  <2>4. item' \in [Item -> ItemRow]
    BY <1>8 DEF Promote, DictionaryTypeOK, ItemRow
  <2>5. prep' \in [Importer -> {Free} \union Doing]
    BY <1>8 DEF Promote, DictionaryTypeOK, Doing
  <2>6. due' \in [Builder -> SUBSET (Word \X Queued)]
    BY <1>8 DEF Promote, DictionaryTypeOK
  <2> QED
    BY <1>8, <2>2, <2>3, <2>4, <2>5, <2>6 DEF Promote, DictionaryTypeOK
<1> QED
  BY <1>a, <1>2, <1>3, <1>4, <1>5, <1>6, <1>7, <1>8 DEF BuilderStep

LEMMA WorkType ==
  ASSUME DictionaryTypeOK, NEW p \in Importer,
         Seek(p) \/ Create(p) \/ Assign(p) \/ AssignStray(p) \/ Mark(p)
  PROVE  DictionaryTypeOK'
<1>1. /\ prep[p] # Free /\ prep[p] \in Doing /\ Held(p) \in Word /\ prep[p].item \in Item
      /\ <<OwnerOf[prep[p].item], Held(p)>> \in User \X Word
  BY BusyImporter, HeldIsWord DEF Seek, Create, Assign, AssignStray, Mark
<1>6. CASE AssignStray(p)
  <2>1. prep' \in [Importer -> {Free} \union Doing]
    BY <1>1, <1>6 DEF AssignStray, DictionaryTypeOK, Doing
  <2> QED
    BY <1>1, <1>6, <2>1 DEF AssignStray, DictionaryTypeOK
<1>2. CASE Create(p)
  <2>1. prep' \in [Importer -> {Free} \union Doing]
    BY <1>1, <1>2 DEF Create, DictionaryTypeOK, Doing
  <2> QED
    BY <1>1, <1>2, <2>1 DEF Create, DictionaryTypeOK, EntryStatus, Queued
<1>3. CASE Assign(p)
  <2>1. prep' \in [Importer -> {Free} \union Doing]
    BY <1>1, <1>3 DEF Assign, DictionaryTypeOK, Doing
  <2>2. assigned' \in [User \X Word -> Assignment] /\ shared' \in [User \X Word -> Assignment]
    BY <1>1, <1>3 DEF Assign, Resolved, DictionaryTypeOK, Assignment
  <2> QED
    BY <1>1, <1>3, <2>1, <2>2 DEF Assign, DictionaryTypeOK
<1>4. CASE Mark(p)
  <2>0. prep[p].status \in {"waiting", "available", "existing", "refused"}
    BY <1>1 DEF Doing
  <2>1. Verdict[prep[p].status] \in ItemStatus
    BY <2>0 DEF Verdict, ItemStatus
  <2>2. item[prep[p].item].linked \in BOOLEAN
    BY <1>1 DEF DictionaryTypeOK, ItemRow
  <2>3. PICK linked \in BOOLEAN :
          item' = [item EXCEPT ![prep[p].item] = [status |-> Verdict[prep[p].status], linked |-> linked]]
    BY <1>1, <1>4, <2>0, <2>2 DEF Mark, DictionaryTypeOK
  <2>4. item' \in [Item -> ItemRow]
    BY <1>1, <2>1, <2>3 DEF DictionaryTypeOK, ItemRow
  <2> QED
    BY <1>1, <1>4, <2>4 DEF Mark, DictionaryTypeOK
<1>5. CASE Seek(p)
  <2>1. PICK f \in FoundPrivate(Held(p)) : prep' = [prep EXCEPT ![p].step = f[1], ![p].status = f[2]]
    BY <1>5 DEF Seek
  <2>2. /\ f[1] \in {"create", "assign", "mark"}
        /\ f[2] \in {"waiting", "available", "refused"}
    BY <2>1 DEF FoundPrivate
  <2>3. prep' \in [Importer -> {Free} \union Doing]
    BY <1>1, <2>1, <2>2 DEF DictionaryTypeOK, Doing
  <2> QED
    BY <1>5, <2>3 DEF Seek, DictionaryTypeOK
<1> QED
  BY <1>2, <1>3, <1>4, <1>5, <1>6

LEMMA RaisedType ==
  ASSUME ImportTypeOK, NEW p \in Importer, Raised(p), faults' \in 0 .. MaxFaults,
         UNCHANGED <<listed, crew>>
  PROVE  ImportTypeOK'
<1>1. proc[p] = AtEase \/ proc[p] \in Working
  BY DEF ImportTypeOK
<1>2. CASE proc' = [proc EXCEPT ![p] = AtEase]
  BY <1>2 DEF Raised, Drop, ImportTypeOK, DictionaryTypeOK
<1>3. CASE proc[p].duty \in {"claimed", "web"} /\ proc' = [proc EXCEPT ![p].step = "fail", ![p].todo = {}]
  <2>1. proc[p] \in Working
    BY <1>1, <1>3 DEF AtEase
  <2>2. proc' \in [Importer -> {AtEase} \union Working]
    BY <1>3, <2>1 DEF ImportTypeOK, Working, Steps
  <2> QED
    BY <2>2 DEF Raised, Drop, ImportTypeOK, DictionaryTypeOK
<1>4. \/ proc' = [proc EXCEPT ![p] = AtEase]
      \/ proc[p].duty \in {"claimed", "web"} /\ proc' = [proc EXCEPT ![p].step = "fail", ![p].todo = {}]
  BY DEF Raised
<1> QED
  BY <1>2, <1>3, <1>4

\* A step that leaves the dictionary alone has only jobs and processes to type.
LEMMA JobsAlone ==
  ASSUME ImportTypeOK, UNCHANGED dictVars, UNCHANGED crew, listed' \subseteq Job,
         job' \in [Job -> JobRow], proc' \in [Importer -> {AtEase} \union Working]
  PROVE  ImportTypeOK'
BY DEF ImportTypeOK, DictionaryTypeOK, dictVars

LEMMA StepIsKnown ==
  ASSUME ImportTypeOK, NEW p \in Importer, NEW step \in Steps, proc[p] \in Working
  PROVE  [proc EXCEPT ![p].step = step] \in [Importer -> {AtEase} \union Working]
BY DEF ImportTypeOK, Working

LEMMA ImporterType ==
  ASSUME ImportTypeOK, NEW p \in Importer, ImporterStep(p), UNCHANGED <<listed, crew>>
  PROVE  ImportTypeOK'
<1>0. DictionaryTypeOK /\ listed' \subseteq Job /\ job \in [Job -> JobRow] /\ proc \in [Importer -> {AtEase} \union Working]
  BY DEF ImportTypeOK
<1>a. \A j \in Job, status \in {"queued", "processing", "completed", "failed"} :
        /\ Closed(j, status) \in [Job -> JobRow]
        /\ [job EXCEPT ![j].status = status] \in [Job -> JobRow]
        /\ [job EXCEPT ![j].sent = TRUE] \in [Job -> JobRow]
  BY <1>0 DEF Closed, JobRow
<1>b. ASSUME NEW step \in Steps, At(p, step)
      PROVE  proc[p] \in Working /\ Mine(p) \in Job /\ proc[p].more \subseteq Job /\ proc[p].todo \subseteq Item
  BY <1>b, AtWork DEF At
<1>1. ASSUME NEW j \in Job, CreateEmpty(p, j) PROVE ImportTypeOK'
  <2>1. proc' \in [Importer -> {AtEase} \union Working]
    BY <1>0, <1>1 DEF CreateEmpty, AtEase, Working, Steps
  <2> QED
    BY <1>0, <1>a, <1>1, <2>1, JobsAlone DEF CreateEmpty
<1>2. ASSUME NEW j \in Job, CreateWhole(p, j) PROVE ImportTypeOK'
  <2>0. PICK duty \in {"bound", "bind"} :
          proc' = [proc EXCEPT ![p] = [AtEase EXCEPT !.duty = duty, !.job = j, !.step = "list"]]
    BY <1>2 DEF CreateWhole
  <2>a. [AtEase EXCEPT !.duty = duty, !.job = j, !.step = "list"] \in Working
    BY DEF AtEase, Working, Steps
  <2>1. proc' \in [Importer -> {AtEase} \union Working]
    BY <1>0, <2>0, <2>a
  <2>2. item' \in [Item -> ItemRow]
    BY <1>0, <1>2 DEF CreateWhole, DictionaryTypeOK, ItemRow, ItemStatus
  <2> QED
    BY <1>0, <1>a, <1>2, <2>1, <2>2 DEF CreateWhole, ImportTypeOK, DictionaryTypeOK
<1>3. CASE MarkProcessing(p)
  <2>1. proc[p] \in Working /\ Mine(p) \in Job
    BY <1>b, <1>3 DEF MarkProcessing, Steps
  <2>2. job' \in [Job -> JobRow]
    BY <1>0, <1>3, <2>1 DEF MarkProcessing, JobRow
  <2> QED
    BY <1>0, <1>3, <2>1, <2>2, StepIsKnown, JobsAlone DEF MarkProcessing, Steps
<1>4. CASE Append(p)
  <2>1. proc[p] \in Working
    BY <1>b, <1>4 DEF Append, Steps
  <2>2. item' \in [Item -> ItemRow]
    BY <1>0, <1>4 DEF Append, ItemsOf, DictionaryTypeOK, ItemRow, ItemStatus
  <2>3. proc' \in [Importer -> {AtEase} \union Working]
    BY <1>4, <2>1, StepIsKnown DEF Append, Steps
  <2> QED
    BY <1>0, <1>4, <2>2, <2>3 DEF Append, ImportTypeOK, DictionaryTypeOK
<1>5. CASE NothingLeft(p)
  BY <1>0, <1>b, <1>5, StepIsKnown, JobsAlone DEF NothingLeft, Steps
<1>6. CASE Claim(p)
  <2>1. Claimable \subseteq Job
    BY DEF Claimable
  <2>2. job' \in [Job -> JobRow]
    BY <1>0, <1>6 DEF Claim, JobRow
  <2>0. PICK j \in Claimable :
          proc' = [proc EXCEPT ![p] = [duty |-> "claimed", job |-> j, more |-> Claimable \ {j},
                                       todo |-> {}, step |-> "list"]]
    BY <1>6 DEF Claim
  <2>a. [duty |-> "claimed", job |-> j, more |-> Claimable \ {j}, todo |-> {}, step |-> "list"] \in Working
    BY <2>1 DEF Working, Steps
  <2>3. proc' \in [Importer -> {AtEase} \union Working]
    BY <1>0, <2>0, <2>a
  <2> QED
    BY <1>0, <1>6, <2>2, <2>3, JobsAlone DEF Claim
<1>7. CASE List(p)
  <2>1. Pending(Mine(p)) \subseteq Item
    BY DEF Pending, ItemsOf
  <2>2. proc' \in [Importer -> {AtEase} \union Working]
    BY <1>0, <1>b, <1>7, <2>1 DEF List, Working, Steps
  <2> QED
    BY <1>0, <1>7, <2>2, JobsAlone DEF List
<1>8. CASE Prepare(p)
  <2>1. PICK i \in proc[p].todo : Look(p, i) /\ proc' = [proc EXCEPT ![p].todo = @ \ {i}]
    BY <1>8 DEF Prepare
  <2>2. i \in Item /\ proc[p] \in Working /\ proc[p].todo \subseteq Item
    BY <1>b, <1>8, <2>1 DEF Prepare, Steps
  <2>3. \A f \in Found(WordOf[i]) : /\ f[1] \in {"seek", "assign", "mark"}
                                    /\ f[2] \in {"waiting", "existing", "refused"}
    BY DEF Found
  <2>4. prep' \in [Importer -> {Free} \union Doing]
    BY <1>0, <2>1, <2>2, <2>3 DEF Look, DictionaryTypeOK, Doing
  <2>5. proc' \in [Importer -> {AtEase} \union Working]
    BY <1>0, <2>1, <2>2 DEF Working
  <2> QED
    BY <1>0, <1>8, <2>1, <2>4, <2>5 DEF Prepare, Look, ImportTypeOK, DictionaryTypeOK
<1>9. CASE Work(p)
  BY <1>0, <1>9, WorkType DEF Work, ImportTypeOK
<1>10. CASE Prepared(p)
  <2>1. proc' \in [Importer -> {AtEase} \union Working]
    <3>1. proc[p] \in Working /\ proc[p].step \in Steps
      BY <1>b, <1>10 DEF Prepared, Steps, At
    <3>2. ASSUME NEW step \in {"append", "close"}, proc' = [proc EXCEPT ![p].step = step]
          PROVE  proc' \in [Importer -> {AtEase} \union Working]
      BY <3>1, <3>2, StepIsKnown DEF Steps
    <3>3. CASE Leave(p)
      BY <3>1, <3>3, LeaveType
    <3> QED
      BY <1>10, <3>2, <3>3 DEF Prepared
  <2> QED
    BY <1>0, <1>10, <2>1, JobsAlone DEF Prepared
<1>11. CASE Complete(p)
  <2>1. proc' \in [Importer -> {AtEase} \union Working]
    BY <1>b, <1>11, StepIsKnown, LeaveType DEF Complete, Steps, At
  <2>2. Mine(p) \in Job
    BY <1>b, <1>11 DEF Complete, Steps
  <2> QED
    BY <1>0, <1>a, <1>11, <2>1, <2>2, JobsAlone DEF Complete
<1>12. CASE Told(p)
  BY <1>0, <1>a, <1>b, <1>12, JobsAlone DEF Told, Steps
<1>13. CASE Collide(p)
  BY <1>0, <1>13, RaisedType DEF Collide, DictionaryTypeOK
<1>14. CASE Raises(p)
  BY <1>0, <1>14, RaisedType, DictionaryAssumption DEF Raises, DictionaryTypeOK
<1>15. CASE CompleteThenRaises(p)
  <2>1. proc[p] \in Working /\ Mine(p) \in Job
    BY <1>b, <1>15 DEF CompleteThenRaises, Steps
  <2>2. proc' \in [Importer -> {AtEase} \union Working]
    BY <1>15, <2>1, StepIsKnown DEF CompleteThenRaises, Steps
  <2>3. faults' \in 0 .. MaxFaults
    BY <1>0, <1>15, DictionaryAssumption DEF CompleteThenRaises, DictionaryTypeOK
  <2> QED
    BY <1>0, <1>a, <1>15, <2>1, <2>2, <2>3 DEF CompleteThenRaises, ImportTypeOK, DictionaryTypeOK
<1>16. CASE FailJob(p)
  <2>1. proc' \in [Importer -> {AtEase} \union Working]
    BY <1>16, LeaveType DEF FailJob, Steps, At
  <2>2. Mine(p) \in Job
    BY <1>b, <1>16 DEF FailJob, Steps
  <2> QED
    BY <1>0, <1>a, <1>16, <2>1, <2>2, JobsAlone DEF FailJob
<1>17. CASE Dies(p)
  <2>1. faults' \in 0 .. MaxFaults
    BY <1>0, <1>17, DictionaryAssumption DEF Dies, DictionaryTypeOK
  <2> QED
    BY <1>0, <1>17, <2>1 DEF Dies, Drop, ImportTypeOK, DictionaryTypeOK
<1> QED
  BY <1>1, <1>2, <1>3, <1>4, <1>5, <1>6, <1>7, <1>8, <1>9, <1>10, <1>11, <1>12, <1>13, <1>14,
     <1>15, <1>16, <1>17 DEF ImporterStep

LEMMA TypeStep == ImportTypeOK /\ [ImportNext]_importVars => ImportTypeOK'
<1> SUFFICES ASSUME ImportTypeOK, [ImportNext]_importVars PROVE ImportTypeOK'
  OBVIOUS
<1>1. ASSUME NEW p \in Importer, ImporterStep(p), UNCHANGED <<listed, crew>> PROVE ImportTypeOK'
  BY <1>1, ImporterType
<1>2. ASSUME NEW b \in Builder, BuilderStep(b), UNCHANGED <<job, listed, proc>>, UNCHANGED crew
      PROVE  ImportTypeOK'
  BY <1>2, BuilderType DEF ImportTypeOK
<1>3. ASSUME ListSummaries \/ \E j \in Job : LeaseEnds(j) \/ Summarise(j), UNCHANGED crew
      PROVE  ImportTypeOK'
  <2>0. job \in [Job -> JobRow] /\ proc \in [Importer -> {AtEase} \union Working]
    BY DEF ImportTypeOK
  <2>a. UNCHANGED proc
    BY <1>3 DEF LeaseEnds, ListSummaries, Summarise
  <2>b. \/ UNCHANGED job
        \/ \E j \in Job : job' \in {[job EXCEPT ![j].leased = FALSE], [job EXCEPT ![j].sent = TRUE]}
    BY <1>3 DEF LeaseEnds, ListSummaries, Summarise
  <2>1. job' \in [Job -> JobRow] /\ proc' \in [Importer -> {AtEase} \union Working]
    BY <2>0, <2>a, <2>b DEF JobRow
  <2>2. listed' \subseteq Job
    BY <1>3 DEF LeaseEnds, ListSummaries, Summarise, ImportTypeOK
  <2> QED
    BY <1>3, <2>1, <2>2, JobsAlone DEF LeaseEnds, ListSummaries, Summarise
<1>4. CASE UNCHANGED importVars
  BY <1>4 DEF importVars, dictVars, ImportTypeOK, DictionaryTypeOK
<1> QED
  BY <1>1, <1>2, <1>3, <1>4 DEF ImportNext

----------------------------------------------------------------------------
(* The words.  A learner who waits for a ready word is about to be told, or  *)
(* was missed; so is whoever is about to make a learner wait for one.  Two   *)
(* builders on one word have been seen, and alone on a word a builder writes *)
(* over nothing final, but for a rejection or a promotion.  Whoever is about *)
(* to assign a word has one that exists, or was missed when it was promoted. *)

Called(w) == w \in missed \/ \E b \in Builder : build[b].word = w /\ build[b].step = "publish"

StaleLooksAreSeen ==
  \A p \in Importer :
    (prep[p].step = "assign" /\ prep[p].status = "waiting" /\ entry[Held(p)] = "ready")
      => Called(Held(p))

\* A builder has read the entry of w, and has it in hand or on its list.
Has(b, w) ==
  \/ build[b] # Idle /\ build[b].word = w
  \/ \E status \in Queued : <<w, status>> \in due[b]

OverlapsAreSeen ==
  \A b, c \in Builder, w \in Word : (b # c /\ Has(b, w) /\ Has(c, w)) => w \in overlap

ListsAreFresh ==
  \A b \in Builder : \A d \in due[b] :
    /\ build[b] # Idle => build[b].word # d[1]
    /\ \A e \in due[b] : e[1] = d[1] => e = d
    /\ d[1] \notin overlap => entry[d[1]] \notin {"ready", "rejected"}
    /\ d[2] \in Stages[b]

Fresh(b) ==
  IF build[b].status = "promoted"
    THEN entry[build[b].word] = "ready"
    ELSE \/ entry[build[b].word] \notin {"ready", "rejected"}
         \/ build[b].status = "rejected" /\ Stages[b] = {}

PicksAreFresh ==
  \A b \in Builder :
    (build[b].step = "write" /\ build[b].word \notin overlap) => Fresh(b)

Exists(p) ==
  \/ prep[p].status = "existing" /\ Held(p) \in core
  \/ prep[p].status \in {"waiting", "available"} /\ entry[Held(p)] # "none"

AssignsExist ==
  \A p \in Importer :
    /\ prep[p].step = "create" => prep[p].status = "waiting"
    /\ prep[p].step = "assign" => Exists(p)
    /\ prep[p].step = "stray" => Held(p) \in missed

WordInv == NobodyWaitsForAReadyWord /\ StaleLooksAreSeen /\ OverlapsAreSeen /\ ListsAreFresh
           /\ PicksAreFresh /\ AssignsExist /\ AssignedWordsExist

wordVars == <<entry, core, assigned, shared, dangling, prep, build, due, missed, overlap>>

LEMMA WordInit == ImportInit => WordInv
BY DEF ImportInit, DictInit, WordInv, NobodyWaitsForAReadyWord, StaleLooksAreSeen, OverlapsAreSeen,
       Has, ListsAreFresh, PicksAreFresh, AssignsExist, AssignedWordsExist, Free, Idle

\* Steps of which the builders see nothing.
LEMMA ReadersKept ==
  ASSUME WordInv, UNCHANGED <<entry, build, due, overlap>>
  PROVE  OverlapsAreSeen' /\ ListsAreFresh' /\ PicksAreFresh'
<1>1. \A c \in Builder, w \in Word : Has(c, w)' <=> Has(c, w)
  BY DEF Has
<1>2. OverlapsAreSeen'
  BY <1>1 DEF WordInv, OverlapsAreSeen
<1>3. ListsAreFresh'
  BY DEF WordInv, ListsAreFresh
<1>4. PicksAreFresh'
  BY DEF WordInv, PicksAreFresh, Fresh
<1> QED
  BY <1>2, <1>3, <1>4

LEMMA WordsAlone ==
  ASSUME WordInv, UNCHANGED wordVars
  PROVE  WordInv'
<1>1. OverlapsAreSeen' /\ ListsAreFresh' /\ PicksAreFresh'
  BY ReadersKept DEF wordVars
<1> QED
  BY <1>1 DEF WordInv, wordVars, NobodyWaitsForAReadyWord, StaleLooksAreSeen, AssignsExist, Exists,
     AssignedWordsExist, Called, Held

LEMMA OneAtAWord ==
  ASSUME OverlapsAreSeen, NEW b \in Builder, NEW c \in Builder, b # c,
         build[b] # Idle, build[c] # Idle, build[c].word = build[b].word, build[b].word \in Word
  PROVE  build[b].word \in overlap
BY DEF OverlapsAreSeen, Has

\* Steps that list and begin nothing.
LEMMA OverlapsKept ==
  ASSUME OverlapsAreSeen, overlap \subseteq overlap',
         \A c \in Builder : due'[c] \subseteq due[c],
         \A c \in Builder : \/ build'[c] = Idle
                            \/ build[c] # Idle /\ build'[c].word = build[c].word
  PROVE  OverlapsAreSeen'
BY DEF OverlapsAreSeen, Has

LEMMA ListsKept ==
  ASSUME ListsAreFresh, overlap \subseteq overlap',
         \A c \in Builder : due'[c] \subseteq due[c],
         \A c \in Builder : \/ build'[c] = Idle
                            \/ build[c] # Idle /\ build'[c].word = build[c].word,
         \A c \in Builder : \A d \in due'[c] :
           d[1] \in overlap \/ entry'[d[1]] \in {entry[d[1]], "details"}
  PROVE  ListsAreFresh'
<1> SUFFICES ASSUME NEW c \in Builder, NEW d \in due'[c]
             PROVE  /\ build'[c] # Idle => build'[c].word # d[1]
                    /\ \A e \in due'[c] : e[1] = d[1] => e = d
                    /\ d[1] \notin overlap' => entry'[d[1]] \notin {"ready", "rejected"}
                    /\ d[2] \in Stages[c]
  BY DEF ListsAreFresh
<1> QED
  BY DEF ListsAreFresh

LEMMA ListedIsWord ==
  ASSUME DictionaryTypeOK, NEW c \in Builder, NEW d \in due[c]
  PROVE  d[1] \in Word /\ d[2] \in Queued /\ d = <<d[1], d[2]>>
BY DEF DictionaryTypeOK

LEMMA WordDrop ==
  ASSUME DictionaryTypeOK, WordInv, NEW p \in Importer, Drop(p),
         UNCHANGED <<entry, core, assigned, shared, dangling, build, due, missed, overlap>>
  PROVE  WordInv'
<1>1. \A q \in Importer : prep'[q] = prep[q] \/ prep'[q] = Free
  BY DEF Drop, DictionaryTypeOK
<1>2. StaleLooksAreSeen'
  BY <1>1 DEF WordInv, StaleLooksAreSeen, Called, Held, Free
<1>3. AssignsExist'
  BY <1>1 DEF WordInv, AssignsExist, Exists, Held, Free
<1> QED
  BY <1>2, <1>3, ReadersKept DEF WordInv, NobodyWaitsForAReadyWord, AssignedWordsExist

\* A step of one importer that touches no assignment.
LEMMA WordPrep ==
  ASSUME DictionaryTypeOK, WordInv, NEW p \in Importer, prep[p]' \in Doing,
         \A q \in Importer : q # p => prep'[q] = prep[q],
         UNCHANGED <<entry, core, assigned, shared, dangling, build, due, missed, overlap>>,
         prep'[p].step = "create" => prep'[p].status = "waiting",
         prep'[p].step = "assign" => Exists(p)',
         prep'[p].step = "assign" /\ prep'[p].status = "waiting" => entry[WordOf[prep'[p].item]] # "ready",
         prep'[p].step # "stray"
  PROVE  WordInv'
<1>1. StaleLooksAreSeen'
  BY DEF WordInv, StaleLooksAreSeen, Called, Held
<1>2. AssignsExist'
  BY DEF WordInv, AssignsExist, Exists, Held
<1> QED
  BY <1>1, <1>2, ReadersKept DEF WordInv, NobodyWaitsForAReadyWord, AssignedWordsExist

LEMMA WordLook ==
  ASSUME DictionaryTypeOK, WordInv, NEW p \in Importer, NEW i \in Item, Look(p, i)
  PROVE  WordInv'
<1>1. PICK f \in Found(WordOf[i]) :
        prep' = [prep EXCEPT ![p] = [item |-> i, step |-> f[1], status |-> f[2]]]
  BY DEF Look
<1>2. /\ f[1] \in {"seek", "assign", "mark"} /\ f[2] \in {"waiting", "existing", "refused"}
      /\ f[1] = "assign" => f[2] = "existing" /\ WordOf[i] \in core
  BY <1>1 DEF Found
<1>3. prep'[p] = [item |-> i, step |-> f[1], status |-> f[2]]
      /\ \A q \in Importer : q # p => prep'[q] = prep[q]
  BY <1>1 DEF DictionaryTypeOK
<1>4. UNCHANGED <<entry, core, assigned, shared, dangling, build, due, missed, overlap>>
  BY DEF Look
<1>5. prep[p]' \in Doing
  BY <1>2, <1>3 DEF Doing
<1>6. prep'[p].step = "assign" => Exists(p)'
  BY <1>2, <1>3, <1>4 DEF Exists, Held
<1> QED
  BY <1>2, <1>3, <1>4, <1>5, <1>6, WordPrep

LEMMA WordSeek ==
  ASSUME DictionaryTypeOK, WordInv, NEW p \in Importer, Seek(p)
  PROVE  WordInv'
<1>1. PICK f \in FoundPrivate(Held(p)) : prep' = [prep EXCEPT ![p].step = f[1], ![p].status = f[2]]
  BY DEF Seek
<1>2. prep[p] \in Doing
  BY BusyImporter DEF Seek
<1>3. /\ f[1] \in {"create", "assign", "mark"} /\ f[2] \in {"waiting", "available", "refused"}
      /\ f[1] = "create" => f[2] = "waiting"
      /\ f[1] = "assign" => f[2] \in {"waiting", "available"} /\ entry[Held(p)] # "none"
      /\ f[1] = "assign" /\ f[2] = "waiting" => entry[Held(p)] # "ready"
  BY <1>1 DEF FoundPrivate
<1>4. /\ prep'[p].step = f[1] /\ prep'[p].status = f[2] /\ prep'[p].item = prep[p].item
      /\ prep[p]' \in Doing
      /\ \A q \in Importer : q # p => prep'[q] = prep[q]
  BY <1>1, <1>2, <1>3 DEF DictionaryTypeOK, Doing
<1>5. UNCHANGED <<entry, core, assigned, shared, dangling, build, due, missed, overlap>>
  BY DEF Seek
<1>6. Held(p)' = Held(p) /\ WordOf[prep'[p].item] = Held(p)
  BY <1>4 DEF Held
<1>7. prep'[p].step = "assign" => Exists(p)'
  BY <1>3, <1>4, <1>5, <1>6 DEF Exists
<1> QED
  BY <1>3, <1>4, <1>5, <1>6, <1>7, WordPrep

LEMMA WordCreate ==
  ASSUME DictionaryTypeOK, WordInv, NEW p \in Importer, Create(p)
  PROVE  WordInv'
<1>1. prep[p] # Free /\ prep[p] \in Doing /\ Held(p) \in Word
  BY BusyImporter, HeldIsWord DEF Create
<1>2. /\ entry[Held(p)] = "none" /\ UNCHANGED <<core, assigned, shared, dangling, build, due, missed, overlap>>
      /\ entry' = [entry EXCEPT ![Held(p)] = "details"] /\ prep[p].status = "waiting"
  BY DEF Create, WordInv, AssignsExist
<1>3. /\ \A w \in Word : entry'[w] \in {"ready", "rejected"} => entry[w] = entry'[w]
      /\ \A w \in Word : entry[w] = "ready" => entry'[w] = "ready"
      /\ \A w \in Word : entry[w] # "none" => entry'[w] # "none"
      /\ entry'[Held(p)] = "details"
  BY <1>1, <1>2 DEF DictionaryTypeOK
<1>4. \A q \in Importer : prep'[q].item = prep[q].item /\ prep'[q].status = prep[q].status
                          /\ (q # p => prep'[q] = prep[q])
  BY <1>1 DEF Create, DictionaryTypeOK, Doing
<1>a. prep'[p].step = "assign"
  BY <1>1 DEF Create, DictionaryTypeOK, Doing
<1>5. \A q \in Importer : prep[q] # Free => Held(q) \in Word
  BY HeldIsWord
<1>6. \A q \in Importer : Held(q)' = Held(q)
  BY <1>4 DEF Held
<1>7. StaleLooksAreSeen'
  <2> SUFFICES ASSUME NEW q \in Importer, prep'[q].step = "assign", prep'[q].status = "waiting",
                      entry'[Held(q)'] = "ready"
               PROVE  Called(Held(q))'
    BY DEF StaleLooksAreSeen
  <2>1. q # p
    BY <1>3, <1>6
  <2> QED
    <3>1. prep[q].step = "assign" /\ prep[q].status = "waiting" /\ prep[q] # Free
      BY <1>4, <2>1 DEF Free
    <3>2. entry[Held(q)] = "ready"
      BY <1>3, <1>5, <1>6, <3>1
    <3>3. Called(Held(q))
      BY <3>1, <3>2 DEF WordInv, StaleLooksAreSeen
    <3>4. PICK v : v = Held(q)
      OBVIOUS
    <3>5. Called(v)'
      BY <1>2, <3>3, <3>4 DEF Called
    <3> QED
      BY <1>6, <3>4, <3>5 DEF Called
<1>8. NobodyWaitsForAReadyWord'
  <2> SUFFICES ASSUME NEW u \in User, NEW w \in Word
               PROVE  /\ entry'[w] = "ready" /\ assigned[<<u, w>>] = "waiting" => Called(w)'
                      /\ shared[<<u, w>>] = "waiting" => w \in missed \union overlap
    BY <1>2 DEF NobodyWaitsForAReadyWord, Called
  <2>1. /\ entry[w] = "ready" /\ assigned[<<u, w>>] = "waiting" => Called(w)
        /\ shared[<<u, w>>] = "waiting" => w \in missed \union overlap
    BY DEF WordInv, NobodyWaitsForAReadyWord, Called
  <2>2. Called(w)' = Called(w)
    BY <1>2 DEF Called
  <2> QED
    BY <1>3, <2>1, <2>2
<1>9. PicksAreFresh'
  <2> SUFFICES ASSUME NEW b \in Builder, build[b].step = "write", build[b].word \notin overlap
               PROVE  Fresh(b)'
    BY <1>2 DEF PicksAreFresh
  <2>1. build[b].word \in Word /\ Fresh(b)
    BY BusyBuilder DEF WordInv, PicksAreFresh
  <2> QED
    BY <1>2, <1>3, <2>1 DEF Fresh
<1>10. AssignsExist'
  <2> SUFFICES ASSUME NEW q \in Importer
               PROVE  /\ prep'[q].step = "create" => prep'[q].status = "waiting"
                      /\ prep'[q].step = "assign" => Exists(q)'
                      /\ prep'[q].step = "stray" => Held(q)' \in missed'
    BY DEF AssignsExist
  <2>1. CASE q = p
    BY <1>2, <1>3, <1>4, <1>6, <1>a, <2>1 DEF Exists
  <2>2. CASE q # p
    BY <1>2, <1>3, <1>4, <1>5, <1>6, <2>2 DEF WordInv, AssignsExist, Exists, Free
  <2> QED
    BY <2>1, <2>2
<1>11. AssignedWordsExist'
  BY <1>2, <1>3 DEF WordInv, AssignedWordsExist
<1>12. ListsAreFresh'
  <2>1. \A c \in Builder : \A d \in due[c] : entry'[d[1]] \in {"ready", "rejected"} => entry[d[1]] = entry'[d[1]]
    BY <1>3, ListedIsWord
  <2> QED
    BY <1>2, <2>1 DEF WordInv, ListsAreFresh
<1> QED
  BY <1>2, <1>7, <1>8, <1>9, <1>10, <1>11, <1>12 DEF WordInv, OverlapsAreSeen, Has

LEMMA WordAssign ==
  ASSUME DictionaryTypeOK, WordInv, NEW p \in Importer, Assign(p)
  PROVE  WordInv'
<1>1. /\ prep[p] # Free /\ prep[p] \in Doing /\ Held(p) \in Word /\ prep[p].item \in Item
      /\ <<OwnerOf[prep[p].item], Held(p)>> \in User \X Word
  BY BusyImporter, HeldIsWord DEF Assign
<1>2. /\ UNCHANGED <<entry, core, build, due, missed, overlap>>
      /\ \A q \in Importer : prep'[q] = prep[q] \/ prep'[q].step = "mark"
  BY <1>1 DEF Assign, DictionaryTypeOK, Doing
<1>a. UNCHANGED dangling
  BY DEF Assign
<1> DEFINE uw == <<OwnerOf[prep[p].item], Held(p)>>
           status == IF prep[p].status = "waiting" THEN "waiting" ELSE "available"
<1>3. \/ /\ prep[p].status = "existing" /\ UNCHANGED assigned
         /\ shared' = [shared EXCEPT ![uw] = Resolved(@, status)]
      \/ /\ prep[p].status # "existing" /\ UNCHANGED shared
         /\ assigned' = [assigned EXCEPT ![uw] = Resolved(@, status)]
  BY DEF Assign
<1>4. /\ \A x \in Assignment : Resolved(x, status) = "waiting" => prep[p].status = "waiting"
      /\ \A x \in Assignment : Resolved(x, status) # "none"
  BY DEF Resolved
<1>5. /\ \A x \in User \X Word : x # uw => assigned'[x] = assigned[x] /\ shared'[x] = shared[x]
      /\ assigned'[uw] = assigned[uw] \/ (assigned'[uw] = Resolved(assigned[uw], status) /\ prep[p].status # "existing")
      /\ shared'[uw] = shared[uw] \/ (shared'[uw] = Resolved(shared[uw], status) /\ prep[p].status = "existing")
      /\ assigned[uw] \in Assignment /\ shared[uw] \in Assignment
  <2>1. uw \in DOMAIN assigned /\ uw \in DOMAIN shared /\ uw \in User \X Word
        /\ DOMAIN assigned = User \X Word /\ DOMAIN shared = User \X Word
    BY <1>1 DEF DictionaryTypeOK
  <2>2. assigned[uw] \in Assignment /\ shared[uw] \in Assignment
    BY <2>1 DEF DictionaryTypeOK
  <2> HIDE DEF uw, status
  <2> QED
    BY <1>3, <2>1, <2>2
<1>6. \A u \in User, w \in Word : <<u, w>> = uw => w = Held(p)
  OBVIOUS
<1>7. /\ prep[p].status # "existing" => entry[Held(p)] # "none"
      /\ prep[p].status = "existing" => Held(p) \in core
      /\ (prep[p].status = "waiting" /\ entry[Held(p)] = "ready") => Called(Held(p))
  BY DEF Assign, WordInv, AssignsExist, Exists, StaleLooksAreSeen, Called
<1> HIDE DEF uw, status
<1>8. NobodyWaitsForAReadyWord'
  <2> SUFFICES ASSUME NEW u \in User, NEW w \in Word
               PROVE  /\ entry[w] = "ready" /\ assigned'[<<u, w>>] = "waiting" => Called(w)
                      /\ shared'[<<u, w>>] = "waiting" => w \in missed \union overlap
    BY <1>2 DEF NobodyWaitsForAReadyWord, Called
  <2>0. <<u, w>> \in User \X Word
    OBVIOUS
  <2>1. /\ entry[w] = "ready" /\ assigned[<<u, w>>] = "waiting" => Called(w)
        /\ shared[<<u, w>>] = "waiting" => w \in missed \union overlap
    BY DEF WordInv, NobodyWaitsForAReadyWord, Called
  <2>2. CASE <<u, w>> # uw
    BY <1>5, <2>0, <2>1, <2>2
  <2>3. CASE <<u, w>> = uw
    BY <1>4, <1>5, <1>6, <1>7, <2>1, <2>3
  <2> QED
    BY <2>2, <2>3
<1>9. AssignedWordsExist'
  <2> SUFFICES ASSUME NEW u \in User, NEW w \in Word
               PROVE  /\ assigned'[<<u, w>>] # "none" => entry[w] # "none"
                      /\ shared'[<<u, w>>] # "none" => w \in core
    BY <1>2, <1>a DEF WordInv, AssignedWordsExist
  <2>0. <<u, w>> \in User \X Word
    OBVIOUS
  <2>1. /\ assigned[<<u, w>>] # "none" => entry[w] # "none"
        /\ shared[<<u, w>>] # "none" => w \in core
    BY DEF WordInv, AssignedWordsExist
  <2>2. CASE <<u, w>> # uw
    BY <1>5, <2>0, <2>1, <2>2
  <2>3. CASE <<u, w>> = uw
    BY <1>5, <1>6, <1>7, <2>1, <2>3
  <2> QED
    BY <2>2, <2>3
<1>10. StaleLooksAreSeen' /\ AssignsExist'
  BY <1>2 DEF WordInv, StaleLooksAreSeen, AssignsExist, Exists, Called, Held
<1> QED
  BY <1>2, <1>8, <1>9, <1>10 DEF WordInv, OverlapsAreSeen, Has, ListsAreFresh, PicksAreFresh, Fresh

\* Only a word that was missed is assigned without its entry.
LEMMA WordStray ==
  ASSUME DictionaryTypeOK, WordInv, NEW p \in Importer, AssignStray(p)
  PROVE  WordInv'
<1>1. /\ prep[p] # Free /\ prep[p] \in Doing /\ Held(p) \in missed
      /\ UNCHANGED <<entry, core, assigned, shared, build, due, missed, overlap>>
  BY BusyImporter DEF AssignStray, WordInv, AssignsExist
<1>2. \A q \in Importer : prep'[q] = prep[q] \/ prep'[q].step = "orphan"
  BY <1>1 DEF AssignStray, DictionaryTypeOK, Doing
<1>3. \A u \in User, w \in Word : <<u, w>> \in dangling' => <<u, w>> \in dangling \/ w = Held(p)
  BY DEF AssignStray
<1>4. StaleLooksAreSeen' /\ AssignsExist'
  BY <1>1, <1>2 DEF WordInv, StaleLooksAreSeen, AssignsExist, Exists, Called, Held
<1>5. AssignedWordsExist'
  BY <1>1, <1>3 DEF WordInv, AssignedWordsExist
<1> QED
  BY <1>1, <1>4, <1>5 DEF WordInv, NobodyWaitsForAReadyWord, OverlapsAreSeen, Has, ListsAreFresh,
     PicksAreFresh, Fresh

LEMMA WordWork ==
  ASSUME DictionaryTypeOK, WordInv, NEW p \in Importer,
         Seek(p) \/ Create(p) \/ Assign(p) \/ AssignStray(p) \/ Mark(p)
  PROVE  WordInv'
<1>1. CASE Mark(p)
  BY <1>1, WordDrop DEF Mark, Drop
<1> QED
  BY <1>1, WordSeek, WordCreate, WordAssign, WordStray

LEMMA WordPromote ==
  ASSUME DictionaryTypeOK, WordInv, NEW b \in Builder, Promote(b)
  PROVE  WordInv'
<1> DEFINE w == build[b].word
<1>1. w \in Word /\ build[b] # Idle /\ build[b].step = "write" /\ build[b].status = "promoted"
  BY BusyBuilder DEF Promote
<1>2. /\ core' = core \union {w} /\ UNCHANGED <<dangling, overlap>> /\ missed \subseteq missed'
      /\ \A v \in Word : entry'[v] = IF v = w THEN "none" ELSE entry[v]
      /\ \A c \in Builder : due'[c] = {d \in due[c] : d[1] # w}
      /\ \A c \in Builder : build'[c] = IF build[c].word = w THEN Idle ELSE build[c]
  BY <1>1 DEF Promote, DictionaryTypeOK
<1>3. \A u \in User, v \in Word :
        /\ v # w => assigned'[<<u, v>>] = assigned[<<u, v>>] /\ shared'[<<u, v>>] = shared[<<u, v>>]
        /\ assigned'[<<u, w>>] = "none"
        /\ shared'[<<u, w>>] \in {shared[<<u, w>>], Merged(assigned[<<u, w>>], shared[<<u, w>>])}
  BY <1>1 DEF Promote, Moved
<1>4. \A q \in Importer :
        /\ prep'[q].item = prep[q].item /\ prep'[q].status = prep[q].status
        /\ \/ prep'[q] = prep[q]
           \/ /\ prep[q] # Free /\ Held(q) = w /\ prep[q].status \in {"waiting", "available"}
              /\ prep[q].step = "assign" => prep'[q].step = "stray"
              /\ prep[q].step = "mark" => prep'[q].step = "orphan"
              /\ prep[q].step \notin {"assign", "mark"} => prep'[q].step = prep[q].step
  <2> TAKE q \in Importer
  <2>1. CASE prep[q] # Free /\ Held(q) = w /\ prep[q].status \in {"waiting", "available"}
    <3>1. prep[q] \in Doing
      BY <2>1 DEF DictionaryTypeOK
    <3> QED
      BY <2>1, <3>1 DEF Promote, Doing
  <2>2. CASE ~(prep[q] # Free /\ Held(q) = w /\ prep[q].status \in {"waiting", "available"})
    BY <2>2 DEF Promote
  <2> QED
    BY <2>1, <2>2
<1>5. \A q \in Importer : Held(q)' = Held(q) /\ (prep[q] # Free => Held(q) \in Word)
  BY <1>4, HeldIsWord DEF Held
<1>6. \A q \in Importer : (prep[q].step \in {"assign", "stray"} /\ Held(q) = w) => w \in missed'
  BY BusyImporter DEF Promote, Unsettled
<1>7. \A v : (Called(v) /\ v # w) => Called(v)'
  BY <1>2 DEF Called
<1>8. \A u \in User : assigned[<<u, w>>] = "waiting" => w \in missed \union overlap
  <2> SUFFICES ASSUME NEW u \in User, assigned[<<u, w>>] = "waiting", w \notin overlap
               PROVE  w \in missed
    OBVIOUS
  <2>1. entry[w] = "ready"
    BY <1>1 DEF WordInv, PicksAreFresh, Fresh
  <2>2. Called(w)
    BY <1>1, <2>1 DEF WordInv, NobodyWaitsForAReadyWord, Called
  <2>3. \A c \in Builder : build[c].word = w /\ build[c].step = "publish" => FALSE
    <3>1. \A c \in Builder : build[c].step = "publish" => c # b /\ build[c] # Idle
      BY <1>1 DEF Idle
    <3> QED
      BY <1>1, <3>1, OneAtAWord DEF WordInv
  <2> QED
    BY <2>2, <2>3 DEF Called
<1>9. NobodyWaitsForAReadyWord'
  <2> SUFFICES ASSUME NEW u \in User, NEW v \in Word
               PROVE  /\ entry'[v] = "ready" /\ assigned'[<<u, v>>] = "waiting" => Called(v)'
                      /\ shared'[<<u, v>>] = "waiting" => v \in (missed \union overlap)'
    BY DEF NobodyWaitsForAReadyWord, Called
  <2>0. /\ entry[v] = "ready" /\ assigned[<<u, v>>] = "waiting" => Called(v)
        /\ shared[<<u, v>>] = "waiting" => v \in missed \union overlap
    BY DEF WordInv, NobodyWaitsForAReadyWord, Called
  <2>1. CASE v # w
    BY <1>2, <1>3, <1>7, <2>0, <2>1
  <2>2. CASE v = w
    <3>1. <<u, w>> \in User \X Word
      BY <1>1
    <3>2. assigned[<<u, w>>] \in Assignment /\ shared[<<u, w>>] \in Assignment
      BY <3>1 DEF DictionaryTypeOK
    <3>3. Merged(assigned[<<u, w>>], shared[<<u, w>>]) = "waiting" =>
            assigned[<<u, w>>] = "waiting" \/ shared[<<u, w>>] = "waiting"
      BY <3>2 DEF Merged, Assignment
    <3> QED
      BY <1>1, <1>2, <1>3, <1>8, <2>0, <2>2, <3>3
  <2> QED
    BY <2>1, <2>2
<1>10. StaleLooksAreSeen'
  <2> SUFFICES ASSUME NEW q \in Importer, prep'[q].step = "assign", prep'[q].status = "waiting",
                      entry'[Held(q)'] = "ready"
               PROVE  Called(Held(q))'
    BY DEF StaleLooksAreSeen
  <2>1. prep[q].step = "assign" /\ prep[q].status = "waiting" /\ prep[q] # Free
    BY <1>4 DEF Free
  <2>2. Held(q) \in Word /\ Held(q) # w
    BY <1>2, <1>5, <2>1
  <2>3. Called(Held(q))
    BY <1>2, <1>5, <2>1, <2>2 DEF WordInv, StaleLooksAreSeen
  <2>4. PICK v : v = Held(q)
    OBVIOUS
  <2>5. Called(v)'
    BY <1>7, <2>2, <2>3, <2>4
  <2> QED
    BY <1>5, <2>4, <2>5 DEF Called
<1>11. OverlapsAreSeen' /\ ListsAreFresh' /\ PicksAreFresh'
  <2>0. \A c \in Builder : /\ due'[c] \subseteq due[c]
                           /\ build'[c] = Idle \/ (build[c] # Idle /\ build'[c].word = build[c].word)
    BY <1>2
  <2>1. OverlapsAreSeen'
    BY <1>2, <2>0, OverlapsKept DEF WordInv
  <2>3. ListsAreFresh'
    <3>1. \A c \in Builder : \A d \in due'[c] : entry'[d[1]] = entry[d[1]]
      BY <1>2, ListedIsWord
    <3> QED
      BY <1>2, <2>0, <3>1, ListsKept DEF WordInv
  <2>2. PicksAreFresh'
    <3> SUFFICES ASSUME NEW c \in Builder, build'[c].step = "write", build'[c].word \notin overlap
                 PROVE  Fresh(c)'
      BY <1>2 DEF PicksAreFresh
    <3>1. build'[c] = build[c] /\ build[c].word # w /\ build[c].word \in Word /\ Fresh(c)
      BY <1>2, BusyBuilder DEF Idle, WordInv, PicksAreFresh
    <3> QED
      BY <1>2, <3>1 DEF Fresh
  <2> QED
    BY <2>1, <2>2, <2>3
<1>12. AssignsExist'
  <2> SUFFICES ASSUME NEW q \in Importer
               PROVE  /\ prep'[q].step = "create" => prep'[q].status = "waiting"
                      /\ prep'[q].step = "assign" => Exists(q)'
                      /\ prep'[q].step = "stray" => Held(q)' \in missed'
    BY DEF AssignsExist
  <2>0. /\ prep[q].step = "create" => prep[q].status = "waiting"
        /\ prep[q].step = "assign" => Exists(q)
        /\ prep[q].step = "stray" => Held(q) \in missed
    BY DEF WordInv, AssignsExist
  <2>1. CASE prep'[q].step = "create"
    BY <1>4, <2>0, <2>1
  <2>2. CASE prep'[q].step = "assign"
    <3>1. prep'[q] = prep[q] /\ prep[q].step = "assign" /\ prep[q] # Free /\ Exists(q)
      BY <1>4, <2>0, <2>2 DEF Free
    <3>2. prep[q].status = "existing" \/ Held(q) # w
      <4>1. prep[q].status \in {"waiting", "available"} /\ Held(q) = w => prep'[q].step # "assign"
        <5>1. prep[q] \in Doing
          BY <3>1 DEF DictionaryTypeOK
        <5> QED
          BY <3>1, <5>1 DEF Promote, Doing
      <4> QED
        BY <3>1, <4>1, <2>2 DEF Exists
    <3> QED
      BY <1>2, <1>5, <3>1, <3>2 DEF Exists
  <2>3. CASE prep'[q].step = "stray"
    BY <1>2, <1>4, <1>5, <1>6, <2>0, <2>3
  <2> QED
    BY <2>1, <2>2, <2>3
<1>13. AssignedWordsExist'
  <2> SUFFICES ASSUME NEW u \in User, NEW v \in Word
               PROVE  /\ assigned'[<<u, v>>] # "none" => entry'[v] # "none"
                      /\ shared'[<<u, v>>] # "none" => v \in core'
    BY <1>2 DEF WordInv, AssignedWordsExist
  <2>1. /\ assigned[<<u, v>>] # "none" => entry[v] # "none"
        /\ shared[<<u, v>>] # "none" => v \in core
    BY DEF WordInv, AssignedWordsExist
  <2>2. CASE v = w
    BY <1>2, <1>3, <2>2
  <2>3. CASE v # w
    BY <1>2, <1>3, <2>1, <2>3
  <2> QED
    BY <2>2, <2>3
<1> QED
  BY <1>9, <1>10, <1>11, <1>12, <1>13 DEF WordInv

\* A builder begins with an entry it has listed, or an administrator with one.
LEMMA WordBegin ==
  ASSUME DictionaryTypeOK, WordInv, NEW b \in Builder, NEW w \in Word, NEW status \in EntryStatus,
         build[b] = Idle, Begin(b, w, status), overlap \subseteq overlap',
         UNCHANGED <<entry, core, assigned, shared, dangling, prep, missed>>,
         OverlapsAreSeen', ListsAreFresh',
         w \notin overlap =>
           IF status = "promoted" THEN entry[w] = "ready"
             ELSE \/ entry[w] \notin {"ready", "rejected"}
                  \/ status = "rejected" /\ Stages[b] = {}
  PROVE  WordInv'
<1>1. /\ \A c \in Builder : c # b => build'[c] = build[c]
      /\ build'[b] = [word |-> w, step |-> "write", status |-> status]
  BY DEF Begin, DictionaryTypeOK
<1>2. \A v : Called(v) => Called(v)'
  BY <1>1 DEF Called, Idle
<1>3. NobodyWaitsForAReadyWord' /\ StaleLooksAreSeen' /\ AssignsExist' /\ AssignedWordsExist'
  BY <1>2 DEF WordInv, NobodyWaitsForAReadyWord, StaleLooksAreSeen, AssignsExist, Exists,
     AssignedWordsExist, Called, Held
<1>4. PicksAreFresh'
  BY <1>1 DEF WordInv, PicksAreFresh, Fresh
<1> QED
  BY <1>3, <1>4 DEF WordInv

LEMMA WordListEntries ==
  ASSUME DictionaryTypeOK, WordInv, NEW b \in Builder, NEW status \in Queued, ListEntries(b, status)
  PROVE  WordInv'
<1> DEFINE found == {w \in Word : entry[w] = status}
<1>1. /\ build[b] = Idle /\ overlap' = overlap \union Met(b, found)
      /\ \A c \in Builder : due'[c] = IF c = b THEN found \X {status} ELSE due[c]
      /\ UNCHANGED <<entry, core, assigned, shared, dangling, prep, build, missed>>
  BY DEF ListEntries, DictionaryTypeOK
<1>2. OverlapsAreSeen'
  <2> SUFFICES ASSUME NEW c \in Builder, NEW d \in Builder, NEW w \in Word, c # d, Has(c, w)', Has(d, w)'
               PROVE  w \in overlap'
    BY DEF OverlapsAreSeen
  <2>1. \A e \in Builder : Has(e, w)' => Has(e, w) \/ (e = b /\ w \in found)
    <3> HIDE DEF found
    <3> SUFFICES ASSUME NEW e \in Builder, Has(e, w)', ~ Has(e, w) PROVE e = b /\ w \in found
      OBVIOUS
    <3>1. PICK x \in Queued : <<w, x>> \in due'[e] /\ <<w, x>> \notin due[e]
      BY <1>1 DEF Has
    <3> QED
      BY <1>1, <3>1
  <2>2. ASSUME NEW e \in Builder, e # b, Has(e, w), w \in found PROVE w \in overlap'
    BY <1>1, <2>2 DEF Has, Met, Holds
  <2> QED
    BY <1>1, <2>1, <2>2 DEF WordInv, OverlapsAreSeen
<1>3. ListsAreFresh'
  <2>1. \A d \in found \X {status} :
          d[1] \in Word /\ entry[d[1]] = status /\ d = <<d[1], status>> /\ d[2] = status
    OBVIOUS
  <2>2. status \notin {"ready", "rejected"} /\ status \in Stages[b]
    BY DEF Queued, ListEntries
  <2> SUFFICES ASSUME NEW c \in Builder, NEW d \in due'[c]
               PROVE  /\ build[c] # Idle => build[c].word # d[1]
                      /\ \A e \in due'[c] : e[1] = d[1] => e = d
                      /\ d[1] \notin overlap' => entry[d[1]] \notin {"ready", "rejected"}
                      /\ d[2] \in Stages[c]
    BY <1>1 DEF ListsAreFresh
  <2>3. CASE c = b
    <3>1. due'[c] = found \X {status} /\ build[c] = Idle
      BY <1>1, <2>3
    <3> HIDE DEF found
    <3>2. entry[d[1]] = status /\ d[2] = status
      BY <2>1, <3>1
    <3>3. \A e \in due'[c] : e[1] = d[1] => e = d
      BY <2>1, <3>1
    <3> QED
      BY <2>2, <2>3, <3>1, <3>2, <3>3
  <2>4. CASE c # b
    BY <1>1, <2>4 DEF WordInv, ListsAreFresh
  <2> QED
    BY <2>3, <2>4
<1>4. \A v : Called(v)' <=> Called(v)
  BY <1>1 DEF Called
<1>5. NobodyWaitsForAReadyWord' /\ StaleLooksAreSeen' /\ AssignsExist' /\ AssignedWordsExist'
  BY <1>1, <1>4 DEF WordInv, NobodyWaitsForAReadyWord, StaleLooksAreSeen, AssignsExist, Exists,
     AssignedWordsExist, Called, Held
<1>6. PicksAreFresh'
  BY <1>1 DEF WordInv, PicksAreFresh, Fresh
<1> QED
  BY <1>2, <1>3, <1>5, <1>6 DEF WordInv

LEMMA WordPick ==
  ASSUME DictionaryTypeOK, WordInv, NEW b \in Builder, NEW w \in Word, NEW status \in Queued,
         Pick(b, w, status)
  PROVE  WordInv'
<1>1. /\ build[b] = Idle /\ Begin(b, w, status) /\ <<w, status>> \in due[b]
      /\ \A c \in Builder : due'[c] = IF c = b THEN due[c] \ {<<w, status>>} ELSE due[c]
      /\ \A c \in Builder : c # b => build'[c] = build[c]
      /\ build'[b] = [word |-> w, step |-> "write", status |-> status]
      /\ UNCHANGED <<entry, core, assigned, shared, dangling, prep, missed, overlap>>
  BY DEF Pick, Begin, DictionaryTypeOK
<1>2. OverlapsAreSeen'
  <2>0. \A c \in Builder : due'[c] \subseteq due[c] /\ (c # b => build'[c] = build[c])
    BY <1>1
  <2>a. build'[b].word = w
    BY <1>1
  <2>1. \A c \in Builder, v \in Word : Has(c, v)' => Has(c, v)
    <3> SUFFICES ASSUME NEW c \in Builder, NEW v \in Word, Has(c, v)' PROVE Has(c, v)
      OBVIOUS
    <3>1. CASE \E x \in Queued : <<v, x>> \in due'[c]
      BY <2>0, <3>1 DEF Has
    <3>2. CASE build'[c] # Idle /\ build'[c].word = v /\ c # b
      BY <2>0, <3>2 DEF Has
    <3>3. CASE build'[c].word = v /\ c = b
      BY <1>1, <2>a, <3>3 DEF Has
    <3> QED
      BY <3>1, <3>2, <3>3 DEF Has
  <2> QED
    BY <1>1, <2>1 DEF WordInv, OverlapsAreSeen
<1>3. ListsAreFresh'
  <2> SUFFICES ASSUME NEW c \in Builder, NEW d \in due'[c]
               PROVE  /\ build'[c] # Idle => build'[c].word # d[1]
                      /\ \A e \in due'[c] : e[1] = d[1] => e = d
                      /\ d[1] \notin overlap => entry[d[1]] \notin {"ready", "rejected"}
                      /\ d[2] \in Stages[c]
    BY <1>1 DEF ListsAreFresh
  <2>1. d \in due[c] /\ due'[c] \subseteq due[c]
    BY <1>1
  <2>2. c = b => d[1] # w
    <3> SUFFICES ASSUME c = b, d[1] = w PROVE FALSE
      OBVIOUS
    <3>1. d = <<w, status>>
      BY <1>1, <2>1 DEF WordInv, ListsAreFresh
    <3> QED
      BY <1>1, <3>1
  <2> QED
    BY <1>1, <2>1, <2>2 DEF WordInv, ListsAreFresh
<1>4. w \notin overlap => entry[w] \notin {"ready", "rejected"}
  BY <1>1 DEF WordInv, ListsAreFresh
<1>5. status \in EntryStatus /\ status # "promoted"
  BY DEF Queued, EntryStatus
<1> QED
  BY <1>1, <1>2, <1>3, <1>4, <1>5, WordBegin

LEMMA WordAdminPicks ==
  ASSUME DictionaryTypeOK, WordInv, NEW b \in Builder, NEW w \in Word, AdminPicks(b, w)
  PROVE  WordInv'
<1>1. PICK status \in Ordered(w) : Begin(b, w, status)
  BY DEF AdminPicks
<1>2. /\ status \in EntryStatus
      /\ IF status = "promoted" THEN entry[w] = "ready"
           ELSE entry[w] \notin {"ready", "rejected"} \/ status = "rejected"
  BY DEF Ordered, DetailsAgain, EmbeddingAgain, Promotable, EntryStatus, Queued
<1>3. /\ build[b] = Idle /\ Stages[b] = {} /\ overlap' = overlap \union Met(b, {w})
      /\ UNCHANGED <<entry, core, assigned, shared, dangling, prep, due, missed>>
      /\ \A c \in Builder : c # b => build'[c] = build[c]
      /\ build'[b].word = w
  BY <1>1 DEF AdminPicks, Begin, DictionaryTypeOK
<1>4. OverlapsAreSeen'
  <2> SUFFICES ASSUME NEW c \in Builder, NEW d \in Builder, NEW v \in Word, c # d, Has(c, v)', Has(d, v)'
               PROVE  v \in overlap'
    BY DEF OverlapsAreSeen
  <2>1. \A e \in Builder : Has(e, v)' => Has(e, v) \/ (e = b /\ v = w)
    BY <1>3 DEF Has
  <2>2. ASSUME NEW e \in Builder, e # b, Has(e, v), v = w PROVE v \in overlap'
    BY <1>3, <2>2 DEF Has, Met, Holds
  <2> QED
    BY <1>3, <2>1, <2>2 DEF WordInv, OverlapsAreSeen
<1>5. ListsAreFresh'
  <2>1. due[b] = {}
    BY <1>3 DEF WordInv, ListsAreFresh
  <2> SUFFICES ASSUME NEW c \in Builder, NEW d \in due[c], c # b
               PROVE  /\ build'[c] # Idle => build'[c].word # d[1]
                      /\ \A e \in due[c] : e[1] = d[1] => e = d
                      /\ d[1] \notin overlap' => entry[d[1]] \notin {"ready", "rejected"}
                      /\ d[2] \in Stages[c]
    BY <1>3, <2>1 DEF ListsAreFresh
  <2> QED
    BY <1>3 DEF WordInv, ListsAreFresh
<1> QED
  BY <1>1, <1>2, <1>3, <1>4, <1>5, WordBegin

LEMMA WordBuilder ==
  ASSUME DictionaryTypeOK, WordInv, NEW b \in Builder, BuilderStep(b)
  PROVE  WordInv'

<1>4. CASE Write(b)
  <2>1. PICK status \in Outcomes(b) :
          /\ entry' = [entry EXCEPT ![build[b].word] = status]
          /\ build' = [build EXCEPT ![b].step = AfterWrite(status), ![b].status = status]
    BY <1>4 DEF Write
  <2>2. /\ build[b] \in Making /\ build[b].word \in Word /\ build[b].step = "write"
        /\ UNCHANGED <<core, assigned, shared, dangling, prep, due, missed, overlap>>
        /\ build[b].status # "none"
    BY <1>4, BusyBuilder DEF Write
  <2>3. /\ \A c \in Builder : c # b => build'[c] = build[c]
        /\ build'[b].word = build[b].word /\ build'[b].step = AfterWrite(status)
    BY <2>1, <2>2 DEF DictionaryTypeOK, Making
  <2>4. \A w \in Word : w # build[b].word => entry'[w] = entry[w]
    BY <2>1, <2>2 DEF DictionaryTypeOK
  <2>5. entry'[build[b].word] = status
    BY <2>1, <2>2 DEF DictionaryTypeOK
  <2>6. \A w : Called(w) => Called(w)'
    BY <2>2, <2>3 DEF Called
  <2>7. \A w : (w = build[b].word /\ status = "ready") => Called(w)'
    BY <2>3 DEF Called, AfterWrite
  <2>a. status # "none"
    BY <2>2 DEF Outcomes, DetailsBuilt, AudioBuilt, EmbeddingBuilt
  <2>b. AssignsExist' /\ AssignedWordsExist'
    <3>1. \A w \in Word : entry[w] # "none" => entry'[w] # "none"
      BY <2>4, <2>5, <2>a
    <3>2. \A q \in Importer : prep[q] # Free => Held(q) \in Word
      BY HeldIsWord
    <3> QED
      BY <2>2, <3>1, <3>2 DEF WordInv, AssignsExist, Exists, AssignedWordsExist, Held, Free
  <2>8. NobodyWaitsForAReadyWord'
    <3> SUFFICES ASSUME NEW u \in User, NEW w \in Word, entry'[w] = "ready", assigned'[<<u, w>>] = "waiting"
                 PROVE  Called(w)'
      BY <2>2 DEF WordInv, NobodyWaitsForAReadyWord, Called
    <3>1. CASE w = build[b].word
      BY <2>5, <2>7, <3>1
    <3>2. CASE w # build[b].word
      <4>1. Called(w)
        BY <2>2, <2>4, <3>2 DEF WordInv, NobodyWaitsForAReadyWord, Called
      <4> QED
        BY <2>6, <4>1
    <3> QED
      BY <3>1, <3>2
  <2>9. StaleLooksAreSeen'
    <3>1. \A q \in Importer : prep[q].step = "assign" => Held(q) \in Word
      BY BusyImporter, HeldIsWord
    <3> SUFFICES ASSUME NEW q \in Importer, prep[q].step = "assign", prep[q].status = "waiting",
                        NEW w, w = Held(q), entry'[w] = "ready"
                 PROVE  Called(w)'
      BY <2>2 DEF StaleLooksAreSeen, Called, Held
    <3>2. CASE w = build[b].word
      BY <2>2, <2>5, <2>7, <3>2
    <3>3. CASE w # build[b].word
      <4>1. Called(w)
        BY <2>4, <3>1, <3>3 DEF WordInv, StaleLooksAreSeen
      <4> QED
        BY <2>6, <4>1
    <3> QED
      BY <3>2, <3>3
  <2>10. OverlapsAreSeen'
    <3>1. build[b] # Idle
      BY <2>2 DEF Idle
    <3> QED
      BY <2>2, <2>3, <3>1, OverlapsKept DEF WordInv
  <2>12. ListsAreFresh'
    <3>1. build[b] # Idle
      BY <2>2 DEF Idle
    <3>2. \A c \in Builder : \A d \in due[c] : d[1] \in overlap \/ d[1] # build[b].word
      <4> SUFFICES ASSUME NEW c \in Builder, NEW d \in due[c], d[1] = build[b].word
                   PROVE  d[1] \in overlap
        OBVIOUS
      <4>1. c # b
        BY <3>1 DEF WordInv, ListsAreFresh
      <4>2. Has(b, d[1]) /\ Has(c, d[1])
        BY <2>2, <3>1, ListedIsWord DEF Has
      <4> QED
        BY <2>2, <4>1, <4>2 DEF WordInv, OverlapsAreSeen
    <3>3. \A c \in Builder : \A d \in due[c] : d[1] \in overlap \/ entry'[d[1]] = entry[d[1]]
      BY <2>4, <3>2, ListedIsWord
    <3> QED
      BY <2>2, <2>3, <3>1, <3>3, ListsKept DEF WordInv
  <2>11. PicksAreFresh'
    <3> SUFFICES ASSUME NEW c \in Builder, build'[c].step = "write", build'[c].word \notin overlap'
                 PROVE  Fresh(c)'
      BY DEF PicksAreFresh
    <3>1. c # b
      BY <2>3 DEF AfterWrite
    <3>2. build'[c] = build[c] /\ build[c] # Idle /\ build[b] # Idle /\ build[c].word \in Word
      BY <2>2, <2>3, <3>1, BusyBuilder
    <3>3. build[c].word # build[b].word
      BY <2>2, <3>1, <3>2, OneAtAWord DEF WordInv
    <3> QED
      BY <2>2, <2>4, <3>2, <3>3 DEF WordInv, PicksAreFresh, Fresh
  <2> QED
    BY <2>8, <2>9, <2>10, <2>11, <2>12, <2>b DEF WordInv
<1>5. CASE Publish(b)
  <2>1. /\ build[b] \in Making /\ build[b].word \in Word
        /\ build[b].step \in {"publish", "archive"} /\ UNCHANGED <<entry, core, shared, dangling, prep, due, overlap>>
        /\ missed \subseteq missed'
    BY <1>5, BusyBuilder DEF Publish
  <2>2. /\ \A c \in Builder : c # b => build'[c] = build[c]
        /\ build'[b].word = build[b].word /\ build'[b].step = "sync" /\ build[b] # Idle
    BY <1>5, <2>1 DEF Publish, DictionaryTypeOK, Making, Idle
  <2>3. \A u \in User, w \in Word :
          /\ assigned'[<<u, w>>] = "waiting" => assigned[<<u, w>>] = "waiting" /\ w # build[b].word
          /\ assigned'[<<u, w>>] # "none" => assigned[<<u, w>>] # "none"
    BY <1>5, <2>1 DEF Publish
  <2>4. \A w : (Called(w) /\ w # build[b].word) => Called(w)'
    BY <1>5, <2>2 DEF Called, Publish
  <2>5. NobodyWaitsForAReadyWord'
    <3> SUFFICES ASSUME NEW u \in User, NEW w \in Word
                 PROVE  /\ entry[w] = "ready" /\ assigned'[<<u, w>>] = "waiting" => Called(w)'
                        /\ shared[<<u, w>>] = "waiting" => w \in missed' \union overlap
      BY <2>1 DEF NobodyWaitsForAReadyWord, Called
    <3>1. /\ entry[w] = "ready" /\ assigned[<<u, w>>] = "waiting" => Called(w)
          /\ shared[<<u, w>>] = "waiting" => w \in missed \union overlap
      BY DEF WordInv, NobodyWaitsForAReadyWord, Called
    <3> QED
      BY <2>1, <2>3, <2>4, <3>1
  <2>6. \A q \in Importer : (prep[q].step = "assign" /\ Held(q) = build[b].word) => build[b].word \in missed'
    BY <1>5, BusyImporter DEF Publish, Unsettled
  <2>7. StaleLooksAreSeen'
    BY <2>1, <2>4, <2>6 DEF WordInv, StaleLooksAreSeen, Called, Held
  <2>8. AssignsExist' /\ AssignedWordsExist'
    BY <2>1, <2>3 DEF WordInv, AssignsExist, Exists, AssignedWordsExist, Held
  <2> QED
    <3>1. OverlapsAreSeen' /\ ListsAreFresh'
      BY <2>1, <2>2, OverlapsKept, ListsKept DEF WordInv
    <3> QED
      BY <2>1, <2>2, <2>5, <2>7, <2>8, <3>1 DEF WordInv, PicksAreFresh, Fresh
<1>6. ASSUME build' = [build EXCEPT ![b] = Idle], \A c \in Builder : due'[c] \subseteq due[c],
             UNCHANGED <<entry, core, assigned, shared, dangling, prep, overlap>>,
             missed \subseteq missed', build[b].step = "publish" => build[b].word \in missed'
      PROVE  WordInv'
  <2>0. build' = [build EXCEPT ![b] = Idle] /\ DOMAIN build = Builder
    BY <1>6 DEF DictionaryTypeOK
  <2>1. \A c \in Builder : build'[c] = build[c] \/ (c = b /\ build'[c] = Idle)
    BY <2>0
  <2>2. \A w : Called(w) => Called(w)'
    BY <1>6, <2>1 DEF Called
  <2>3. NobodyWaitsForAReadyWord' /\ StaleLooksAreSeen' /\ AssignsExist' /\ AssignedWordsExist'
    BY <1>6, <2>2 DEF WordInv, NobodyWaitsForAReadyWord, StaleLooksAreSeen, AssignsExist, Exists,
       AssignedWordsExist, Called, Held
  <2>4. PicksAreFresh'
    BY <1>6, <2>1 DEF WordInv, PicksAreFresh, Fresh, Idle
  <2>5. \A c \in Builder : build'[c] = Idle \/ (build[c] # Idle /\ build'[c].word = build[c].word)
    BY <2>1
  <2>6. OverlapsAreSeen' /\ ListsAreFresh'
    BY <1>6, <2>5, OverlapsKept, ListsKept DEF WordInv
  <2> QED
    BY <2>3, <2>4, <2>6 DEF WordInv
<1>7. CASE Sync(b)
  BY <1>6, <1>7 DEF Sync
<1>8. CASE BuilderFails(b)
  <2>1. \A c \in Builder : due'[c] \subseteq due[c]
    BY <1>8 DEF BuilderFails, DictionaryTypeOK
  <2>2. build[b].step = "publish" => build[b].word \in missed'
    BY <1>8 DEF BuilderFails
  <2> QED
    BY <1>6, <1>8, <2>1, <2>2 DEF BuilderFails
<1> QED
  BY <1>4, <1>5, <1>7, <1>8, WordListEntries, WordPick, WordAdminPicks, WordPromote DEF BuilderStep

LEMMA WordStep == ImportTypeOK /\ WordInv /\ [ImportNext]_importVars => WordInv'
<1> SUFFICES ASSUME ImportTypeOK, WordInv, [ImportNext]_importVars PROVE WordInv'
  OBVIOUS
<1>0. DictionaryTypeOK
  BY DEF ImportTypeOK
<1>1. ASSUME NEW p \in Importer, ImporterStep(p) PROVE WordInv'
  <2>1. ASSUME NEW j \in Job, CreateEmpty(p, j) \/ CreateWhole(p, j) PROVE WordInv'
    BY <2>1, WordsAlone DEF CreateEmpty, CreateWhole, dictVars, wordVars
  <2>2. CASE MarkProcessing(p) \/ Append(p) \/ NothingLeft(p) \/ Claim(p) \/ List(p)
    BY <2>2, WordsAlone DEF MarkProcessing, Append, NothingLeft, Claim, List, dictVars, wordVars
  <2>3. CASE Prepare(p)
    <3>1. PICK i \in proc[p].todo : Look(p, i)
      BY <2>3 DEF Prepare
    <3>2. i \in Item
      BY <2>3, <3>1, AtWork DEF Prepare, At, Steps
    <3> QED
      BY <1>0, <3>1, <3>2, WordLook
  <2>4. CASE Work(p)
    BY <1>0, <2>4, WordWork DEF Work
  <2>5. CASE Prepared(p) \/ Complete(p) \/ Told(p) \/ CompleteThenRaises(p) \/ FailJob(p)
    BY <2>5, WordsAlone DEF Prepared, Complete, Told, CompleteThenRaises, FailJob, dictVars, wordVars
  <2>6. CASE Collide(p) \/ Raises(p) \/ Dies(p)
    BY <1>0, <2>6, WordDrop DEF Collide, Raises, Raised, Dies
  <2> QED
    BY <1>1, <2>1, <2>2, <2>3, <2>4, <2>5, <2>6 DEF ImporterStep
<1>2. ASSUME NEW b \in Builder, BuilderStep(b) PROVE WordInv'
  BY <1>0, <1>2, WordBuilder
<1>3. ASSUME ListSummaries \/ \E j \in Job : LeaseEnds(j) \/ Summarise(j) PROVE WordInv'
  BY <1>3, WordsAlone DEF LeaseEnds, ListSummaries, Summarise, dictVars, wordVars
<1>4. CASE UNCHANGED importVars
  BY <1>4, WordsAlone DEF importVars, dictVars, wordVars
<1> QED
  BY <1>1, <1>2, <1>3, <1>4 DEF ImportNext
LEMMA FinalStep == ImportTypeOK /\ WordInv /\ [ImportNext]_importVars => [FinalKept]_dictVars
<1> SUFFICES ASSUME ImportTypeOK, WordInv, [ImportNext]_importVars
             PROVE  FinalKept \/ UNCHANGED dictVars
  OBVIOUS
<1>0. DictionaryTypeOK
  BY DEF ImportTypeOK
<1>1. CASE UNCHANGED entry
  BY <1>1 DEF FinalKept
<1>2. ASSUME NEW p \in Importer, Create(p) PROVE FinalKept
  <2>1. Held(p) \in Word
    BY <1>0, <1>2, BusyImporter, HeldIsWord DEF Create
  <2> QED
    BY <1>0, <1>2, <2>1 DEF Create, FinalKept, DictionaryTypeOK
<1>3. ASSUME NEW b \in Builder, Write(b) PROVE FinalKept
  <2>1. PICK status \in Outcomes(b) : entry' = [entry EXCEPT ![build[b].word] = status]
    BY <1>3 DEF Write
  <2>2. build[b].word \in Word /\ build[b].step = "write" /\ build[b].status # "promoted"
    BY <1>0, <1>3, BusyBuilder DEF Write
  <2>3. \/ build[b].word \in overlap
        \/ entry[build[b].word] \notin {"ready", "rejected"}
        \/ status = "rejected"
    BY <2>2 DEF WordInv, PicksAreFresh, Fresh, Outcomes
  <2>4. \A w \in Word : entry'[w] = IF w = build[b].word THEN status ELSE entry[w]
    BY <1>0, <2>1, <2>2 DEF DictionaryTypeOK
  <2> QED
    BY <2>3, <2>4 DEF FinalKept
<1>a. ASSUME NEW b \in Builder, Promote(b) PROVE FinalKept
  <2>1. /\ build[b].word \in Word
        /\ entry[build[b].word] = "ready" \/ build[b].word \in overlap
    BY <1>0, <1>a, BusyBuilder DEF Promote, WordInv, PicksAreFresh, Fresh
  <2>2. \A w \in Word : entry'[w] = IF w = build[b].word THEN "none" ELSE entry[w]
    BY <1>0, <1>a, <2>1 DEF Promote, DictionaryTypeOK
  <2> QED
    BY <2>1, <2>2 DEF FinalKept
<1>4. ASSUME NEW p \in Importer, ImporterStep(p)
      PROVE  UNCHANGED entry \/ Create(p)
  BY <1>4 DEF ImporterStep, CreateEmpty, CreateWhole, MarkProcessing, Append, NothingLeft, Claim, List,
     Prepare, Look, Work, Seek, Assign, AssignStray, Mark, Prepared, Complete, Told, Collide, Raised, Raises,
     CompleteThenRaises, FailJob, Dies, dictVars
<1>5. ASSUME NEW b \in Builder, BuilderStep(b)
      PROVE  UNCHANGED entry \/ Write(b) \/ Promote(b)
  BY <1>5 DEF BuilderStep, ListEntries, Pick, AdminPicks, Publish, Sync, BuilderFails
<1>6. ASSUME ListSummaries \/ \E j \in Job : LeaseEnds(j) \/ Summarise(j) PROVE UNCHANGED entry
  BY <1>6 DEF LeaseEnds, ListSummaries, Summarise, dictVars
<1>7. CASE UNCHANGED importVars
  BY <1>7 DEF importVars, dictVars
<1> QED
  BY <1>1, <1>2, <1>3, <1>a, <1>4, <1>5, <1>6, <1>7 DEF ImportNext

----------------------------------------------------------------------------
(* The jobs.  Whoever is about to complete a job that was created whole has  *)
(* each of its pending items on its list or in its hands.                    *)

WholeIsClosed ==
  \A j \in Job \ WebJob : job[j].status = "completed" => Pending(j) = {}

JobsExist(p) ==
  proc[p] # AtEase => \A j \in proc[p].more \union {Mine(p)} : job[j].status # "absent"

WebAppends(p) ==
  (proc[p].duty = "web" \/ proc[p].step \in {"mark", "append"}) => Mine(p) \in WebJob

ListIsWhole(p) ==
  (proc[p] # AtEase /\ Mine(p) \notin WebJob) =>
    /\ proc[p].step = "items" =>
         \A i \in Pending(Mine(p)) : i \in proc[p].todo \/ (prep[p] # Free /\ prep[p].item = i)
    /\ proc[p].step = "close" => Pending(Mine(p)) = {}

ProcInv(p) == JobsExist(p) /\ WebAppends(p) /\ ListIsWhole(p)
JobInv == WholeIsClosed /\ \A p \in Importer : ProcInv(p)

LEMMA JobInit == ImportInit => JobInv
BY DEF ImportInit, JobInv, WholeIsClosed, ProcInv, JobsExist, WebAppends, ListIsWhole, AtEase

\* An importer keeps the item it has in hand.
StillAt(q) == prep[q] # Free => prep'[q] # Free /\ prep'[q].item = prep[q].item

\* What a step must respect: jobs stay, whole ones get no new pending item and
\* are completed without any, and each process moves as it should.
LEMMA JobFrame ==
  ASSUME ImportTypeOK, JobInv,
         \A j \in Job : job[j].status # "absent" => job'[j].status # "absent",
         \A j \in Job \ WebJob : job[j].status # "absent" => Pending(j)' \subseteq Pending(j),
         \A j \in Job \ WebJob : job'[j].status = "completed" => job[j].status = "completed" \/ Pending(j)' = {},
         \A q \in Importer : ProcInv(q)' \/ (proc'[q] = proc[q] /\ StillAt(q))
  PROVE  JobInv'
<1>1. WholeIsClosed'
  BY DEF JobInv, WholeIsClosed, WebJob
<1>2. ASSUME NEW q \in Importer, proc'[q] = proc[q], StillAt(q) PROVE ProcInv(q)'
  <2>1. CASE proc[q] = AtEase
    BY <1>2, <2>1 DEF ProcInv, JobsExist, WebAppends, ListIsWhole, AtEase
  <2>2. CASE proc[q] # AtEase
    <3>1. Mine(q) \in Job /\ proc[q].more \subseteq Job /\ proc[q] \in Working
      BY <2>2 DEF ImportTypeOK, Working, Mine
    <3>2. JobsExist(q) /\ WebAppends(q) /\ ListIsWhole(q)
      BY DEF JobInv, ProcInv
    <3>3. JobsExist(q)' /\ WebAppends(q)'
      BY <1>2, <3>1, <3>2 DEF JobsExist, WebAppends, WebJob, Mine
    <3>4. Mine(q) \notin WebJob => Pending(Mine(q))' \subseteq Pending(Mine(q))
      BY <1>2, <2>2, <3>1, <3>2 DEF JobsExist, Mine, Pending
    <3>5. ListIsWhole(q)'
      BY <1>2, <2>2, <3>1, <3>2, <3>4 DEF ListIsWhole, Mine, WebJob, StillAt
    <3> QED
      BY <3>3, <3>5 DEF ProcInv
  <2> QED
    BY <2>1, <2>2
<1> QED
  BY <1>1, <1>2 DEF JobInv
LEMMA PendingKept ==
  ASSUME \A i \in Item : item'[i].status = "pending" => item[i].status = "pending"
  PROVE  \A j : Pending(j)' \subseteq Pending(j)
BY DEF Pending, ItemsOf

LEMMA BuilderPending ==
  ASSUME DictionaryTypeOK, NEW b \in Builder, BuilderStep(b)
  PROVE  /\ \A q \in Importer : StillAt(q)
         /\ \A i \in Item : item'[i].status = "pending" => item[i].status = "pending"
<1>1. CASE Sync(b)
  <2>1. Shown(build[b].status) # "pending"
    BY DEF Shown
  <2> QED
    BY <1>1, <2>1 DEF Sync, DictionaryTypeOK, ItemRow, StillAt
<1>2. CASE Promote(b)
  <2>1. \A i \in Item : item'[i].status = item[i].status
    BY <1>2 DEF Promote, DictionaryTypeOK, ItemRow
  <2>2. ASSUME NEW q \in Importer, prep[q] # Free PROVE StillAt(q)
    <3>1. prep[q] \in Doing
      BY <2>2 DEF DictionaryTypeOK
    <3>2. prep'[q].item = prep[q].item /\ (prep'[q] = prep[q] \/ prep'[q].step # "none")
      BY <1>2, <3>1 DEF Promote, Doing
    <3> QED
      BY <2>2, <3>2 DEF StillAt, Free
  <2> QED
    BY <2>1, <2>2 DEF StillAt
<1> QED
  BY <1>1, <1>2 DEF BuilderStep, ListEntries, Pick, AdminPicks, Write, Publish, BuilderFails, StillAt

LEMMA WorkPending ==
  ASSUME DictionaryTypeOK, NEW p \in Importer,
         Seek(p) \/ Create(p) \/ Assign(p) \/ AssignStray(p) \/ Mark(p)
  PROVE  /\ \A q \in Importer : q # p => prep'[q] = prep[q]
         /\ prep[p] # Free
         /\ \/ prep'[p] # Free /\ prep'[p].item = prep[p].item
            \/ item'[prep[p].item].status # "pending"
         /\ \A i \in Item : item'[i].status = "pending" => item[i].status = "pending"
<1>1. prep[p] # Free /\ prep[p] \in Doing /\ prep[p].item \in Item
  BY BusyImporter, HeldIsWord DEF Seek, Create, Assign, AssignStray, Mark
<1>2. CASE Create(p) \/ Assign(p) \/ AssignStray(p)
  <2>1. PICK step \in {"assign", "mark", "orphan"} : prep' = [prep EXCEPT ![p].step = step]
    BY <1>2 DEF Create, Assign, AssignStray
  <2>2. prep'[p].step = step /\ prep'[p].item = prep[p].item
    BY <1>1, <2>1 DEF DictionaryTypeOK, Doing
  <2> QED
    BY <1>1, <1>2, <2>1, <2>2 DEF Create, Assign, AssignStray, DictionaryTypeOK, Free
<1>3. CASE Mark(p)
  <2>1. prep[p].status \in {"waiting", "available", "existing", "refused"}
    BY <1>1 DEF Doing
  <2>2. Verdict[prep[p].status] # "pending"
    BY <2>1 DEF Verdict
  <2> QED
    BY <1>1, <1>3, <2>2 DEF Mark, DictionaryTypeOK, ItemRow
<1>4. CASE Seek(p)
  <2>1. PICK f \in FoundPrivate(Held(p)) : prep' = [prep EXCEPT ![p].step = f[1], ![p].status = f[2]]
    BY <1>4 DEF Seek
  <2>2. f[1] # "none"
    BY <2>1 DEF FoundPrivate
  <2>3. prep'[p].step = f[1] /\ prep'[p].item = prep[p].item
        /\ \A q \in Importer : q # p => prep'[q] = prep[q]
    BY <1>1, <2>1 DEF DictionaryTypeOK, Doing
  <2>4. prep'[p] # Free
    BY <2>2, <2>3 DEF Free
  <2>5. UNCHANGED item
    BY <1>4 DEF Seek
  <2> QED
    BY <1>1, <2>3, <2>4, <2>5
<1> QED
  BY <1>2, <1>3, <1>4

LEMMA LeaveInv ==
  ASSUME ImportTypeOK, JobInv, NEW p \in Importer, proc[p].step \in Steps, Leave(p),
         \A j \in Job : job[j].status # "absent" => job'[j].status # "absent"
  PROVE  ProcInv(p)' /\ \A q \in Importer : q # p => proc'[q] = proc[q]
<1>1. proc[p] # AtEase /\ proc[p].more \subseteq Job
  BY AtWork
<1>2. \A j \in proc[p].more : job'[j].status # "absent"
  BY <1>1 DEF JobInv, ProcInv, JobsExist
<1>3. CASE proc' = [proc EXCEPT ![p] = AtEase]
  BY <1>3 DEF ImportTypeOK, ProcInv, JobsExist, WebAppends, ListIsWhole, AtEase
<1>4. ASSUME NEW j \in proc[p].more,
             proc' = [proc EXCEPT ![p] = [duty |-> "claimed", job |-> j, more |-> @.more \ {j},
                                          todo |-> {}, step |-> "list"]]
      PROVE  ProcInv(p)' /\ \A q \in Importer : q # p => proc'[q] = proc[q]
  <2>1. proc'[p] = [duty |-> "claimed", job |-> j, more |-> proc[p].more \ {j}, todo |-> {}, step |-> "list"]
    BY <1>4 DEF ImportTypeOK
  <2>2. JobsExist(p)' /\ WebAppends(p)' /\ ListIsWhole(p)'
    BY <1>2, <2>1 DEF JobsExist, WebAppends, ListIsWhole, Mine
  <2> QED
    BY <1>4, <2>2 DEF ImportTypeOK, ProcInv
<1> QED
  BY <1>3, <1>4 DEF Leave

LEMMA RaisedInv ==
  ASSUME ImportTypeOK, JobInv, NEW p \in Importer,
         proc' = [proc EXCEPT ![p] = AtEase]
           \/ (proc[p] # AtEase /\ proc' = [proc EXCEPT ![p].step = "fail", ![p].todo = {}]),
         Drop(p), UNCHANGED <<item, job>>
  PROVE  JobInv'
<1>1. \A q \in Importer : q # p => proc'[q] = proc[q] /\ prep'[q] = prep[q]
  BY DEF Drop, ImportTypeOK, DictionaryTypeOK
<1>2. CASE proc' = [proc EXCEPT ![p] = AtEase]
  <2>1. ProcInv(p)'
    BY <1>2 DEF ImportTypeOK, ProcInv, JobsExist, WebAppends, ListIsWhole, AtEase
  <2> QED
    BY <1>1, <2>1, JobFrame DEF StillAt, Pending
<1>3. CASE proc[p] # AtEase /\ proc' = [proc EXCEPT ![p].step = "fail", ![p].todo = {}]
  <2>1. proc[p] \in Working /\ ProcInv(p)
    BY <1>3 DEF ImportTypeOK, JobInv
  <2>2. /\ proc'[p].step = "fail" /\ Mine(p)' = Mine(p) /\ proc'[p].more = proc[p].more
        /\ proc'[p].duty = proc[p].duty /\ proc[p] # AtEase
    BY <1>3, <2>1 DEF ImportTypeOK, Working, Mine
  <2>3. JobsExist(p)' /\ WebAppends(p)' /\ ListIsWhole(p)'
    BY <2>1, <2>2 DEF ProcInv, JobsExist, WebAppends, ListIsWhole
  <2>4. ProcInv(p)'
    BY <2>3 DEF ProcInv
  <2> QED
    BY <1>1, <2>4, JobFrame DEF StillAt, Pending
<1> QED
  BY <1>2, <1>3

\* A process that keeps its job and moves on to another step.
LEMMA MoveInv ==
  ASSUME ImportTypeOK, JobInv, NEW p \in Importer, proc[p] # AtEase,
         NEW step \in Steps, proc' = [proc EXCEPT ![p].step = step],
         step \in {"mark", "append"} => Mine(p) \in WebJob,
         step # "items",
         (step = "close" /\ Mine(p) \notin WebJob) => Pending(Mine(p))' = {},
         \A j \in Job : job[j].status # "absent" => job'[j].status # "absent"
  PROVE  ProcInv(p)' /\ \A q \in Importer : q # p => proc'[q] = proc[q]
<1>1. proc[p] \in Working /\ Mine(p) \in Job /\ proc[p].more \subseteq Job /\ ProcInv(p)
  BY DEF ImportTypeOK, JobInv, Working, Mine
<1>2. /\ proc'[p].step = step /\ Mine(p)' = Mine(p) /\ proc'[p].more = proc[p].more
      /\ proc'[p].duty = proc[p].duty
  BY <1>1 DEF ImportTypeOK, Working, Mine
<1>3. JobsExist(p)'
  BY <1>1, <1>2 DEF ProcInv, JobsExist
<1>4. WebAppends(p)'
  BY <1>1, <1>2 DEF ProcInv, WebAppends, WebJob
<1>5. ListIsWhole(p)'
  BY <1>1, <1>2 DEF ListIsWhole, WebJob
<1> QED
  BY <1>3, <1>4, <1>5 DEF ProcInv, ImportTypeOK
LEMMA JobImporter ==
  ASSUME ImportTypeOK, JobInv, NEW p \in Importer, ImporterStep(p)
  PROVE  JobInv'
<1>0. DictionaryTypeOK /\ job \in [Job -> JobRow] /\ proc \in [Importer -> {AtEase} \union Working] /\ ProcInv(p)
  BY DEF ImportTypeOK, JobInv
<1>a. ASSUME NEW step \in Steps, At(p, step)
      PROVE  /\ proc[p] # AtEase /\ proc[p] \in Working /\ Mine(p) \in Job
             /\ proc[p].more \subseteq Job /\ proc[p].todo \subseteq Item
  BY <1>a, AtWork DEF At
\* The jobs' side of JobFrame, when the items are left alone.
<1>b. ASSUME NEW j \in Job, NEW status \in {"queued", "processing", "completed", "failed"},
             UNCHANGED item,
             \A k \in Job : k # j => job'[k].status = job[k].status,
             job'[j].status = status,
             (status = "completed" /\ j \notin WebJob) => Pending(j) = {}
      PROVE  /\ \A k \in Job : job[k].status # "absent" => job'[k].status # "absent"
             /\ \A k \in Job \ WebJob : Pending(k)' \subseteq Pending(k)
             /\ \A k \in Job \ WebJob : job'[k].status = "completed" =>
                  job[k].status = "completed" \/ Pending(k)' = {}
  BY <1>b DEF Pending
<1>c. ASSUME UNCHANGED <<item, job>>
      PROVE  /\ \A k \in Job : job[k].status # "absent" => job'[k].status # "absent"
             /\ \A k \in Job : Pending(k)' = Pending(k)
             /\ \A k \in Job \ WebJob : job'[k].status = "completed" =>
                  job[k].status = "completed" \/ Pending(k)' = {}
  BY <1>c DEF Pending
<1>1. ASSUME NEW j \in Job, CreateEmpty(p, j) PROVE JobInv'
  <2>1. proc'[p] = [AtEase EXCEPT !.duty = "web", !.job = j, !.step = "mark"]
    BY <1>0, <1>1 DEF CreateEmpty
  <2>2. j \in WebJob
    BY <1>1 DEF CreateEmpty, WebJob
  <2>3. job'[j].status = "queued" /\ \A k \in Job : k # j => job'[k].status = job[k].status
    BY <1>0, <1>1 DEF CreateEmpty, JobRow
  <2>4. ProcInv(p)'
    BY <2>1, <2>2, <2>3 DEF ProcInv, JobsExist, WebAppends, ListIsWhole, AtEase, Mine, WebJob
  <2>5. \A q \in Importer : q # p => proc'[q] = proc[q] /\ prep'[q] = prep[q]
    BY <1>0, <1>1 DEF CreateEmpty, dictVars
  <2> QED
    BY <1>1, <1>b, <2>3, <2>4, <2>5, JobFrame DEF StillAt, CreateEmpty, dictVars
<1>2. ASSUME NEW j \in Job, CreateWhole(p, j) PROVE JobInv'
  <2>1. PICK duty \in {"bound", "bind"} :
          proc' = [proc EXCEPT ![p] = [AtEase EXCEPT !.duty = duty, !.job = j, !.step = "list"]]
    BY <1>2 DEF CreateWhole
  <2>2. proc'[p] = [AtEase EXCEPT !.duty = duty, !.job = j, !.step = "list"]
    BY <1>0, <2>1
  <2>3. /\ job[j].status = "absent" /\ job'[j].status = "queued"
        /\ \A k \in Job : k # j => job'[k].status = job[k].status
    BY <1>0, <1>2 DEF CreateWhole, JobRow
  <2>4. ProcInv(p)'
    BY <2>2, <2>3 DEF ProcInv, JobsExist, WebAppends, ListIsWhole, AtEase, Mine
  <2>5. \A q \in Importer : q # p => proc'[q] = proc[q] /\ prep'[q] = prep[q]
    BY <1>0, <1>2, <2>1 DEF CreateWhole
  <2>6. \A k \in Job : k # j => Pending(k)' = Pending(k)
    BY <1>0, <1>2 DEF CreateWhole, Pending, ItemsOf, DictionaryTypeOK
  <2> QED
    BY <2>3, <2>4, <2>5, <2>6, JobFrame DEF StillAt
<1>3. CASE MarkProcessing(p)
  <2>1. proc[p] # AtEase /\ Mine(p) \in WebJob /\ Mine(p) \in Job
    BY <1>0, <1>3, <1>a DEF MarkProcessing, ProcInv, WebAppends, At, Steps
  <2>2. job'[Mine(p)].status = "processing" /\ \A k \in Job : k # Mine(p) => job'[k].status = job[k].status
    BY <1>0, <1>3, <2>1 DEF MarkProcessing, JobRow
  <2>3. /\ \A k \in Job : job[k].status # "absent" => job'[k].status # "absent"
        /\ \A k \in Job \ WebJob : Pending(k)' \subseteq Pending(k)
        /\ \A k \in Job \ WebJob : job'[k].status = "completed" =>
             job[k].status = "completed" \/ Pending(k)' = {}
    BY <1>3, <1>b, <2>1, <2>2 DEF MarkProcessing, dictVars
  <2>4. ProcInv(p)' /\ \A q \in Importer : q # p => proc'[q] = proc[q]
    BY <1>3, <2>1, <2>3, MoveInv DEF MarkProcessing, Steps
  <2> QED
    BY <1>3, <2>3, <2>4, JobFrame DEF StillAt, MarkProcessing, dictVars
<1>4. CASE Append(p)
  <2>1. proc[p] # AtEase /\ Mine(p) \in WebJob
    BY <1>0, <1>4, <1>a DEF Append, ProcInv, WebAppends, At, Steps
  <2>2. /\ UNCHANGED <<job, prep>> /\ proc' = [proc EXCEPT ![p].step = "list"]
        /\ \A i \in Item : i \notin ItemsOf(Mine(p)) => item'[i] = item[i]
    BY <1>0, <1>4 DEF Append, DictionaryTypeOK
  <2>3. \A k \in Job \ WebJob : Pending(k)' = Pending(k)
    BY <2>1, <2>2 DEF Pending, ItemsOf
  <2>4. ProcInv(p)' /\ \A q \in Importer : q # p => proc'[q] = proc[q]
    BY <2>1, <2>2, MoveInv DEF Steps
  <2> QED
    BY <2>2, <2>3, <2>4, JobFrame DEF StillAt
<1>5. CASE NothingLeft(p)
  <2>1. proc[p] # AtEase /\ Mine(p) \in WebJob /\ UNCHANGED <<item, job, prep>>
    BY <1>0, <1>5, <1>a DEF NothingLeft, ProcInv, WebAppends, At, Steps, dictVars
  <2>2. ProcInv(p)' /\ \A q \in Importer : q # p => proc'[q] = proc[q]
    BY <1>5, <2>1, MoveInv DEF NothingLeft, Steps
  <2> QED
    BY <1>c, <2>1, <2>2, JobFrame DEF StillAt
<1>6. CASE Claim(p)
  <2>1. PICK j \in Claimable :
          proc' = [proc EXCEPT ![p] = [duty |-> "claimed", job |-> j, more |-> Claimable \ {j},
                                       todo |-> {}, step |-> "list"]]
    BY <1>6 DEF Claim
  <2>2. proc'[p] = [duty |-> "claimed", job |-> j, more |-> Claimable \ {j}, todo |-> {}, step |-> "list"]
    BY <1>0, <2>1
  <2>3. /\ \A k \in Job : job'[k].status = IF k \in Claimable THEN "processing" ELSE job[k].status
        /\ Claimable \subseteq Job /\ UNCHANGED <<item, prep>>
    BY <1>0, <1>6 DEF Claim, JobRow, Claimable, dictVars
  <2>4. ProcInv(p)'
    BY <2>2, <2>3 DEF ProcInv, JobsExist, WebAppends, ListIsWhole, Mine
  <2>5. \A q \in Importer : q # p => proc'[q] = proc[q]
    BY <1>0, <2>1
  <2> QED
    BY <2>3, <2>4, <2>5, JobFrame DEF StillAt, Pending
<1>7. CASE List(p)
  <2>1. /\ proc[p] # AtEase /\ proc[p] \in Working /\ UNCHANGED <<item, job, prep>>
        /\ Mine(p) \in Job /\ proc[p].more \subseteq Job
    BY <1>7, <1>a DEF List, Steps, dictVars
  <2>2. /\ proc'[p].todo = Pending(Mine(p)) /\ proc'[p].step = "items"
        /\ Mine(p)' = Mine(p) /\ proc'[p].more = proc[p].more /\ proc'[p].duty = proc[p].duty
    BY <1>0, <1>7, <2>1 DEF List, Working, Mine
  <2>3. JobsExist(p)' /\ WebAppends(p)'
    BY <1>0, <2>1, <2>2 DEF ProcInv, JobsExist, WebAppends, WebJob
  <2>4. ListIsWhole(p)'
    BY <1>c, <2>1, <2>2 DEF ListIsWhole
  <2>5. \A q \in Importer : q # p => proc'[q] = proc[q]
    BY <1>0, <1>7 DEF List
  <2> QED
    BY <1>c, <2>1, <2>3, <2>4, <2>5, JobFrame DEF StillAt, ProcInv
<1>8. CASE Prepare(p)
  <2>1. PICK i \in proc[p].todo : Look(p, i) /\ proc' = [proc EXCEPT ![p].todo = @ \ {i}]
    BY <1>8 DEF Prepare
  <2>2. /\ proc[p] # AtEase /\ proc[p] \in Working /\ UNCHANGED <<item, job>> /\ i \in Item
        /\ Mine(p) \in Job /\ proc[p].more \subseteq Job /\ proc[p].step = "items"
    BY <1>8, <1>a, <2>1 DEF Prepare, Look, Steps, At
  <2>3. /\ proc'[p].todo = proc[p].todo \ {i} /\ proc'[p].step = "items"
        /\ Mine(p)' = Mine(p) /\ proc'[p].more = proc[p].more /\ proc'[p].duty = proc[p].duty
    BY <1>0, <2>1, <2>2 DEF Working, Mine
  <2>4. prep[p] = Free /\ prep'[p] # Free /\ prep'[p].item = i
        /\ \A q \in Importer : q # p => prep'[q] = prep[q]
    <3>1. PICK f \in Found(WordOf[i]) :
            prep' = [prep EXCEPT ![p] = [item |-> i, step |-> f[1], status |-> f[2]]]
      BY <2>1 DEF Look
    <3>2. f[1] # "none"
      BY DEF Found
    <3> QED
      BY <1>0, <2>1, <3>1, <3>2 DEF Look, DictionaryTypeOK, Free
  <2>5. JobsExist(p)' /\ WebAppends(p)'
    BY <1>0, <2>2, <2>3 DEF ProcInv, JobsExist, WebAppends, WebJob
  <2>6. ListIsWhole(p)'
    <3>1. Mine(p) \notin WebJob => \A k \in Pending(Mine(p)) : k \in proc[p].todo
      BY <1>0, <2>2, <2>4 DEF ProcInv, ListIsWhole
    <3> QED
      BY <1>c, <2>2, <2>3, <2>4, <3>1 DEF ListIsWhole, WebJob
  <2>7. \A q \in Importer : q # p => proc'[q] = proc[q]
    BY <1>0, <2>1
  <2> QED
    BY <1>c, <2>2, <2>4, <2>5, <2>6, <2>7, JobFrame DEF StillAt, ProcInv
<1>9. CASE Work(p)
  <2>1. /\ \A q \in Importer : q # p => prep'[q] = prep[q]
        /\ prep[p] # Free
        /\ \/ prep'[p] # Free /\ prep'[p].item = prep[p].item
           \/ item'[prep[p].item].status # "pending"
        /\ \A i \in Item : item'[i].status = "pending" => item[i].status = "pending"
        /\ UNCHANGED <<job, proc>>
    BY <1>0, <1>9, WorkPending DEF Work
  <2>2. \A k : Pending(k)' \subseteq Pending(k)
    BY <2>1, PendingKept
  <2>3. JobsExist(p)' /\ WebAppends(p)'
    BY <1>0, <2>1 DEF ProcInv, JobsExist, WebAppends, WebJob, Mine
  <2>4. ListIsWhole(p)'
    <3>1. Mine(p)' = Mine(p) /\ ListIsWhole(p)
      BY <1>0, <2>1 DEF Mine, ProcInv
    <3>2. \A i \in Pending(Mine(p))' : item'[i].status = "pending"
      BY DEF Pending
    <3> QED
      BY <2>1, <2>2, <3>1, <3>2 DEF ListIsWhole, WebJob
  <2> QED
    BY <2>1, <2>2, <2>3, <2>4, JobFrame DEF StillAt, ProcInv
<1>10. CASE Prepared(p)
  <2>1. /\ proc[p] # AtEase /\ UNCHANGED <<item, job, prep>> /\ proc[p].step = "items"
        /\ proc[p].todo = {} /\ prep[p] = Free
    BY <1>10, <1>a DEF Prepared, Steps, dictVars, At
  <2>2. Mine(p) \notin WebJob => Pending(Mine(p)) = {}
    BY <1>0, <2>1 DEF ProcInv, ListIsWhole
  <2>3. ProcInv(p)' /\ \A q \in Importer : q # p => proc'[q] = proc[q]
    <3>1. CASE proc[p].duty = "web" /\ proc' = [proc EXCEPT ![p].step = "append"]
      <4>1. Mine(p) \in WebJob
        BY <1>0, <3>1 DEF ProcInv, WebAppends
      <4> QED
        BY <1>c, <2>1, <3>1, <4>1, MoveInv DEF Steps
    <3>2. CASE Leave(p)
      BY <1>c, <2>1, <3>2, LeaveInv DEF Steps
    <3>3. CASE proc' = [proc EXCEPT ![p].step = "close"]
      <4>1. Mine(p) \notin WebJob => Pending(Mine(p))' = {}
        BY <2>1, <2>2, <3>3 DEF Pending, Mine
      <4> QED
        BY <1>c, <2>1, <3>3, <4>1, MoveInv DEF Steps
    <3> QED
      BY <1>10, <3>1, <3>2, <3>3 DEF Prepared
  <2> QED
    BY <1>c, <2>1, <2>3, JobFrame DEF StillAt
<1>11. CASE At(p, "close") /\ job' = Closed(Mine(p), "completed") /\ UNCHANGED <<item, prep>>
            /\ (Leave(p) \/ \E step \in {"told", "fail"} : proc' = [proc EXCEPT ![p].step = step])
  <2>1. /\ proc[p] # AtEase /\ Mine(p) \in Job /\ proc[p].step = "close"
        /\ Mine(p) \notin WebJob => Pending(Mine(p)) = {}
    BY <1>0, <1>11, <1>a DEF Steps, At, ProcInv, ListIsWhole
  <2>2. job'[Mine(p)].status = "completed" /\ \A k \in Job : k # Mine(p) => job'[k].status = job[k].status
    BY <1>0, <1>11, <2>1 DEF Closed, JobRow
  <2>3. /\ \A k \in Job : job[k].status # "absent" => job'[k].status # "absent"
        /\ \A k \in Job \ WebJob : Pending(k)' \subseteq Pending(k)
        /\ \A k \in Job \ WebJob : job'[k].status = "completed" =>
             job[k].status = "completed" \/ Pending(k)' = {}
    BY <1>11, <1>b, <2>1, <2>2
  <2>4. ProcInv(p)' /\ \A q \in Importer : q # p => proc'[q] = proc[q]
    <3>1. CASE Leave(p)
      BY <2>1, <2>3, <3>1, LeaveInv DEF Steps
    <3>2. ASSUME NEW step \in {"told", "fail"}, proc' = [proc EXCEPT ![p].step = step]
          PROVE  ProcInv(p)' /\ \A q \in Importer : q # p => proc'[q] = proc[q]
      BY <2>1, <2>3, <3>2, MoveInv DEF Steps
    <3> QED
      BY <1>11, <3>1, <3>2
  <2> QED
    BY <1>11, <2>3, <2>4, JobFrame DEF StillAt
<1>12. CASE Told(p)
  <2>1. \A k \in Job : job'[k].status = job[k].status
    BY <1>0, <1>12 DEF Told, JobRow
  <2>2. ProcInv(p)'
    BY <1>0, <1>12 DEF Told, ProcInv, JobsExist, WebAppends, ListIsWhole, AtEase
  <2>3. UNCHANGED <<item, prep>> /\ \A q \in Importer : q # p => proc'[q] = proc[q]
    BY <1>0, <1>12 DEF Told, dictVars
  <2> QED
    BY <2>1, <2>2, <2>3, JobFrame DEF StillAt, Pending
<1>13. CASE Collide(p) \/ Raises(p)
  <2>1. Raised(p)
    BY <1>13 DEF Collide, Raises
  <2>2. CASE proc[p].duty \in {"claimed", "web"}
    <3>1. proc[p] # AtEase
      BY <2>2 DEF AtEase
    <3>2. proc' = [proc EXCEPT ![p] = [@ EXCEPT !.step = "fail", !.todo = {}]]
      BY <2>1, <2>2 DEF Raised
    <3>3. Drop(p) /\ UNCHANGED <<item, job>>
      BY <2>1 DEF Raised
    <3> QED
      BY <3>1, <3>2, <3>3, RaisedInv
  <2>3. CASE proc[p].duty \notin {"claimed", "web"}
    <3>1. proc' = [proc EXCEPT ![p] = AtEase] /\ Drop(p) /\ UNCHANGED <<item, job>>
      BY <2>1, <2>3 DEF Raised
    <3> QED
      BY <3>1, RaisedInv
  <2> QED
    BY <2>2, <2>3
<1>14. CASE Dies(p)
  BY <1>14, RaisedInv DEF Dies
<1>15. CASE FailJob(p)
  <2>1. /\ proc[p].step \in Steps /\ Mine(p) \in Job
        /\ UNCHANGED <<item, prep>>
    BY <1>15, <1>a DEF FailJob, Steps, At, dictVars
  <2>2. job'[Mine(p)].status = "failed" /\ \A k \in Job : k # Mine(p) => job'[k].status = job[k].status
    BY <1>0, <1>15, <2>1 DEF FailJob, Closed, JobRow
  <2>3. /\ \A k \in Job : job[k].status # "absent" => job'[k].status # "absent"
        /\ \A k \in Job \ WebJob : Pending(k)' \subseteq Pending(k)
        /\ \A k \in Job \ WebJob : job'[k].status = "completed" =>
             job[k].status = "completed" \/ Pending(k)' = {}
    BY <1>b, <2>1, <2>2
  <2>4. ProcInv(p)' /\ \A q \in Importer : q # p => proc'[q] = proc[q]
    BY <1>15, <2>1, <2>3, LeaveInv DEF FailJob
  <2> QED
    BY <2>1, <2>3, <2>4, JobFrame DEF StillAt
<1>16. Complete(p) \/ CompleteThenRaises(p) =>
         At(p, "close") /\ job' = Closed(Mine(p), "completed") /\ UNCHANGED <<item, prep>>
            /\ (Leave(p) \/ \E step \in {"told", "fail"} : proc' = [proc EXCEPT ![p].step = step])
  BY DEF Complete, CompleteThenRaises, dictVars
<1> QED
  BY <1>1, <1>2, <1>3, <1>4, <1>5, <1>6, <1>7, <1>8, <1>9, <1>10, <1>11, <1>12, <1>13, <1>14,
     <1>15, <1>16 DEF ImporterStep

LEMMA JobStep == ImportTypeOK /\ JobInv /\ [ImportNext]_importVars => JobInv'
<1> SUFFICES ASSUME ImportTypeOK, JobInv, [ImportNext]_importVars PROVE JobInv'
  OBVIOUS
<1>0. DictionaryTypeOK /\ job \in [Job -> JobRow]
  BY DEF ImportTypeOK
<1>1. ASSUME NEW b \in Builder, BuilderStep(b), UNCHANGED <<job, proc>> PROVE JobInv'
  <2>1. (\A q \in Importer : StillAt(q)) /\ \A k : Pending(k)' \subseteq Pending(k)
    BY <1>0, <1>1, BuilderPending, PendingKept
  <2> QED
    BY <1>1, <2>1, JobFrame DEF StillAt
<1>2. ASSUME ListSummaries \/ \E j \in Job : LeaseEnds(j) \/ Summarise(j) PROVE JobInv'
  <2>1. \A k \in Job : job'[k].status = job[k].status
    BY <1>0, <1>2 DEF LeaseEnds, ListSummaries, Summarise, JobRow
  <2>2. UNCHANGED <<item, prep, proc>>
    BY <1>2 DEF LeaseEnds, ListSummaries, Summarise, dictVars
  <2> QED
    BY <2>1, <2>2, JobFrame DEF StillAt, Pending
<1>3. CASE UNCHANGED importVars
  BY <1>3, JobFrame DEF StillAt, importVars, dictVars, Pending
<1> QED
  BY <1>1, <1>2, <1>3, JobImporter DEF ImportNext

----------------------------------------------------------------------------
(* The theorems. *)

LEMMA ImportInvariant == ImportSpec => [](ImportTypeOK /\ WordInv /\ JobInv)
<1>1. ImportInit => ImportTypeOK /\ WordInv /\ JobInv
  BY TypeInit, WordInit, JobInit
<1>2. ImportTypeOK /\ WordInv /\ JobInv /\ [ImportNext]_importVars => (ImportTypeOK /\ WordInv /\ JobInv)'
  BY TypeStep, WordStep, JobStep
<1> QED
  BY <1>1, <1>2, PTL DEF ImportSpec

\* The rows of jobs, items, entries and assignments and what each process
\* remembers of them stay in their types.
THEOREM ImportTypeCorrect == ImportSpec => []ImportTypeOK
BY ImportInvariant, PTL

\* Nobody waits for a word that is ready but those whose importer looked before
\* the word was ready and wrote after its learners were told, or whose builder
\* died in between.
THEOREM NobodyIsForgotten == ImportSpec => []NobodyWaitsForAReadyWord
<1>1. WordInv => NobodyWaitsForAReadyWord
  BY DEF WordInv
<1> QED
  BY <1>1, ImportInvariant, PTL

\* An assignment is of a word that exists, unless its entry was promoted while
\* an importer was about to assign it.
THEOREM WordsAreThere == ImportSpec => []AssignedWordsExist
<1>1. WordInv => AssignedWordsExist
  BY DEF WordInv
<1> QED
  BY <1>1, ImportInvariant, PTL

\* A summary of a whole import never speaks of undecided items as completed.
THEOREM SummariesAreWhole == ImportSpec => []SummaryIsWhole
<1>1. JobInv => SummaryIsWhole
  BY DEF JobInv, WholeIsClosed, SummaryIsWhole
<1> QED
  BY <1>1, ImportInvariant, PTL

\* A builder alone on a word writes over nothing final but to reject or to promote it.
THEOREM FinalWordsStay == ImportSpec => FinalStays
<1>1. ImportTypeOK /\ WordInv /\ [ImportNext]_importVars => [FinalKept]_dictVars
  BY FinalStep
<1> QED
  BY <1>1, ImportInvariant, PTL DEF ImportSpec, FinalStays

----------------------------------------------------------------------------
(* What items show.  A builder that has written an entry still has to show   *)
(* its items; until then, and unless the word was missed, an item agrees     *)
(* with the entry, and so does whatever is about to mark one.                *)

\* Some builder is at w and about to publish, archive or sync.
Passing(w, steps) == \E b \in Builder : build[b].word = w /\ build[b].step \in steps
After == {"publish", "archive", "sync"}
Lost(w) == w \in missed \union overlap

\* An item refers to an entry only once it is decided.
LinksAreDecided ==
  \A i \in Item : item[i].linked => item[i].status \notin {"absent", "pending", "existing"}

WritersKnow ==
  \A b \in Builder : (build[b].step \in After /\ build[b].word \notin overlap) =>
    entry[build[b].word] = build[b].status

LookIsTrue(p) ==
  (prep[p].step \in {"assign", "mark"} /\ ~ Lost(Held(p))) =>
    /\ prep[p].status = "waiting" => entry[Held(p)] # "ready" \/ Passing(Held(p), {"publish"})
    /\ prep[p].status = "available" => entry[Held(p)] = "ready" \/ Passing(Held(p), {"archive"})
LooksAreTrue == \A p \in Importer : LookIsTrue(p)

Agrees(i) ==
  ~ Lost(WordOf[i]) =>
    /\ item[i].status = "waiting" => item[i].linked
    /\ (item[i].linked /\ ~ Passing(WordOf[i], After)) =>
         \/ item[i].status \in {Shown(entry[WordOf[i]]), "refused"}
         \/ item[i].status = "waiting" /\ entry[WordOf[i]] # "ready"
ItemsAgree == \A i \in Item : Agrees(i)

ShowInv == LinksAreDecided /\ WritersKnow /\ LooksAreTrue /\ ItemsAgree

\* The items of a job that is to come are absent, and those seen are not.
ItemsAreSeen ==
  /\ \A i \in Item : job[JobOf[i]].status = "absent" => item[i].status = "absent"
  /\ \A p \in Importer :
       /\ prep[p] # Free => item[prep[p].item].status # "absent"
       /\ \A i \in proc[p].todo : item[i].status # "absent"

LEMMA ShowInit == ImportInit => ShowInv /\ ItemsAreSeen
BY DEF ImportInit, DictInit, ShowInv, LinksAreDecided, WritersKnow, LooksAreTrue, LookIsTrue, ItemsAgree,
       Agrees, Passing, After, ItemsAreSeen, Free, Idle, AtEase

\* Steps that bring items, or nothing that matters here.
LEMMA ShowBrings ==
  ASSUME DictionaryTypeOK, ShowInv, UNCHANGED <<entry, prep, build, missed, overlap>>,
         \A i \in Item : \/ item'[i] = item[i]
                         \/ /\ item[i].status = "absent" /\ item'[i].linked = item[i].linked
                            /\ item'[i].status \in {"pending", "refused", "existing"}
  PROVE  ShowInv'
<1>1. LinksAreDecided'
  BY DEF ShowInv, LinksAreDecided
<1>2. WritersKnow' /\ LooksAreTrue'
  BY DEF ShowInv, WritersKnow, LooksAreTrue, LookIsTrue, Lost, Passing, Held
<1>3. ItemsAgree'
  BY DEF ShowInv, LinksAreDecided, ItemsAgree, Agrees, Lost, Passing
<1> QED
  BY <1>1, <1>2, <1>3 DEF ShowInv

LEMMA ShowDrop ==
  ASSUME DictionaryTypeOK, ShowInv, NEW p \in Importer, Drop(p),
         UNCHANGED <<entry, item, build, missed, overlap>>
  PROVE  ShowInv'
<1>1. \A q \in Importer : prep'[q] = prep[q] \/ prep'[q] = Free
  BY DEF Drop, DictionaryTypeOK
<1>2. LooksAreTrue'
  BY <1>1 DEF ShowInv, LooksAreTrue, LookIsTrue, Lost, Passing, Held, Free
<1>3. LinksAreDecided' /\ WritersKnow' /\ ItemsAgree'
  BY DEF ShowInv, LinksAreDecided, WritersKnow, ItemsAgree, Agrees, Lost, Passing
<1> QED
  BY <1>2, <1>3 DEF ShowInv

\* One importer looks, or goes on to the next transaction of an item.
LEMMA ShowPrep ==
  ASSUME DictionaryTypeOK, ShowInv, NEW p \in Importer, LookIsTrue(p)',
         \A q \in Importer : q # p => prep'[q] = prep[q],
         UNCHANGED <<entry, item, build, missed, overlap>>
  PROVE  ShowInv'
<1>1. LooksAreTrue'
  BY DEF ShowInv, LooksAreTrue, LookIsTrue, Lost, Passing, Held
<1>2. LinksAreDecided' /\ WritersKnow' /\ ItemsAgree'
  BY DEF ShowInv, LinksAreDecided, WritersKnow, ItemsAgree, Agrees, Lost, Passing
<1> QED
  BY <1>1, <1>2 DEF ShowInv

LEMMA ShowLook ==
  ASSUME DictionaryTypeOK, ShowInv, NEW p \in Importer, NEW i \in Item, Look(p, i)
  PROVE  ShowInv'
<1>1. PICK f \in Found(WordOf[i]) :
        prep' = [prep EXCEPT ![p] = [item |-> i, step |-> f[1], status |-> f[2]]]
  BY DEF Look
<1>2. f[1] \in {"assign", "mark"} => f[2] \in {"existing", "refused"}
  BY <1>1 DEF Found
<1>3. prep'[p] = [item |-> i, step |-> f[1], status |-> f[2]]
      /\ \A q \in Importer : q # p => prep'[q] = prep[q]
  BY <1>1 DEF DictionaryTypeOK
<1>4. LookIsTrue(p)'
  BY <1>2, <1>3 DEF LookIsTrue
<1> QED
  BY <1>3, <1>4, ShowPrep DEF Look

LEMMA ShowSeek ==
  ASSUME DictionaryTypeOK, ShowInv, NEW p \in Importer, Seek(p)
  PROVE  ShowInv'
<1>1. PICK f \in FoundPrivate(Held(p)) : prep' = [prep EXCEPT ![p].step = f[1], ![p].status = f[2]]
  BY DEF Seek
<1>2. prep[p] \in Doing
  BY BusyImporter DEF Seek
<1>3. f[1] \in {"assign", "mark"} =>
        /\ f[2] = "waiting" => entry[Held(p)] # "ready"
        /\ f[2] = "available" => entry[Held(p)] = "ready"
  BY <1>1 DEF FoundPrivate
<1>4. /\ prep'[p].step = f[1] /\ prep'[p].status = f[2] /\ prep'[p].item = prep[p].item
      /\ \A q \in Importer : q # p => prep'[q] = prep[q]
  BY <1>1, <1>2 DEF DictionaryTypeOK, Doing
<1>5. UNCHANGED <<entry, item, build, missed, overlap>>
  BY DEF Seek
<1>6. Held(p)' = Held(p)
  BY <1>4 DEF Held
<1>7. LookIsTrue(p)'
  BY <1>3, <1>4, <1>5, <1>6 DEF LookIsTrue
<1> QED
  BY <1>4, <1>5, <1>7, ShowPrep

LEMMA ShowAssign ==
  ASSUME DictionaryTypeOK, ShowInv, NEW p \in Importer, Assign(p) \/ AssignStray(p)
  PROVE  ShowInv'
<1>1. prep[p] \in Doing
  BY BusyImporter DEF Assign, AssignStray
<1>2. /\ prep'[p].step = "orphan" \/ (prep[p].step = "assign" /\ prep'[p].step = "mark")
      /\ prep'[p].status = prep[p].status /\ prep'[p].item = prep[p].item
      /\ \A q \in Importer : q # p => prep'[q] = prep[q]
  BY <1>1 DEF Assign, AssignStray, DictionaryTypeOK, Doing
<1>3. UNCHANGED <<entry, item, build, missed, overlap>>
  BY DEF Assign, AssignStray
<1>4. LookIsTrue(p)
  BY DEF ShowInv, LooksAreTrue
<1>5. LookIsTrue(p)'
  BY <1>2, <1>3, <1>4 DEF LookIsTrue, Held, Lost, Passing
<1> QED
  BY <1>2, <1>3, <1>5, ShowPrep

\* A new entry is one of which nothing was shown but that it is waited for.
LEMMA ShowCreate ==
  ASSUME DictionaryTypeOK, WordInv, ShowInv, NEW p \in Importer, Create(p)
  PROVE  ShowInv'
<1>1. PICK w \in Word : w = Held(p)
  BY BusyImporter, HeldIsWord DEF Create
<1>2. /\ entry[w] = "none" /\ entry' = [entry EXCEPT ![w] = "details"]
      /\ UNCHANGED <<item, build, missed, overlap>> /\ prep[p] \in Doing
  BY <1>1, BusyImporter DEF Create
<1>3. \A v \in Word : entry'[v] = IF v = w THEN "details" ELSE entry[v]
  BY <1>2 DEF DictionaryTypeOK
<1>4. /\ \A q \in Importer : prep'[q].item = prep[q].item /\ (q # p => prep'[q] = prep[q])
      /\ prep'[p].step = "assign" /\ prep'[p].status = "waiting"
  BY <1>2 DEF Create, DictionaryTypeOK, Doing, WordInv, AssignsExist
<1>5. WritersKnow'
  <2> SUFFICES ASSUME NEW b \in Builder, build[b].step \in After, build[b].word \notin overlap
               PROVE  entry'[build[b].word] = build[b].status
    BY <1>2 DEF WritersKnow
  <2>1. build[b].word \in Word /\ build[b].status # "none"
    BY BusyBuilder DEF After
  <2> QED
    BY <1>2, <1>3, <2>1 DEF ShowInv, WritersKnow
<1>6. LooksAreTrue'
  <2> SUFFICES ASSUME NEW q \in Importer PROVE LookIsTrue(q)'
    BY DEF LooksAreTrue
  <2>1. CASE q = p
    BY <1>1, <1>3, <1>4, <2>1 DEF LookIsTrue, Held
  <2>2. CASE q # p /\ prep[q].step \in {"assign", "mark"}
    <3>1. PICK v \in Word : v = Held(q)
      BY <2>2, BusyImporter, HeldIsWord
    <3>2. Held(q)' = v
      BY <1>4, <2>2, <3>1 DEF Held
    <3>3. entry'[v] = "ready" <=> entry[v] = "ready"
      BY <1>2, <1>3
    <3>4. LookIsTrue(q)
      BY DEF ShowInv, LooksAreTrue
    <3> QED
      BY <1>2, <1>4, <2>2, <3>1, <3>2, <3>3, <3>4 DEF LookIsTrue, Lost, Passing
  <2>3. CASE q # p /\ prep[q].step \notin {"assign", "mark"}
    BY <1>4, <2>3 DEF LookIsTrue
  <2> QED
    BY <2>1, <2>2, <2>3
<1>7. ItemsAgree'
  <2> SUFFICES ASSUME NEW i \in Item PROVE Agrees(i)'
    BY DEF ItemsAgree
  <2>1. WordOf[i] \in Word /\ Agrees(i)
    BY DictionaryAssumption DEF ShowInv, ItemsAgree
  <2>2. Shown(entry'[WordOf[i]]) = Shown(entry[WordOf[i]])
        /\ (entry'[WordOf[i]] = "ready" <=> entry[WordOf[i]] = "ready")
    BY <1>2, <1>3, <2>1 DEF Shown, Failed
  <2> QED
    BY <1>2, <2>1, <2>2 DEF Agrees, Lost, Passing
<1>8. LinksAreDecided'
  BY <1>2 DEF ShowInv, LinksAreDecided
<1> QED
  BY <1>5, <1>6, <1>7, <1>8 DEF ShowInv

\* What an importer has seen is what its item shows.
LEMMA ShowMark ==
  ASSUME DictionaryTypeOK, ShowInv, NEW p \in Importer, Mark(p)
  PROVE  ShowInv'
<1>1. prep[p] \in Doing /\ prep[p].item \in Item /\ prep[p].step = "mark"
  BY BusyImporter, HeldIsWord DEF Mark
<1>2. PICK i \in Item : i = prep[p].item
  BY <1>1
<1>3. /\ UNCHANGED <<entry, build, missed, overlap>> /\ Drop(p)
      /\ \A k \in Item : k # i => item'[k] = item[k]
      /\ item'[i].status = Verdict[prep[p].status]
      /\ item'[i].linked = CASE prep[p].status = "existing" -> FALSE
                              [] prep[p].status = "refused"  -> item[i].linked
                              [] OTHER                       -> TRUE
  BY <1>2 DEF Mark, Drop, DictionaryTypeOK
<1>4. prep[p].status \in {"waiting", "available", "existing", "refused"}
  BY <1>1 DEF Doing
<1>5. \A q \in Importer : prep'[q] = prep[q] \/ prep'[q] = Free
  BY <1>3 DEF Drop, DictionaryTypeOK
<1>6. LooksAreTrue' /\ WritersKnow'
  BY <1>3, <1>5 DEF ShowInv, LooksAreTrue, WritersKnow, LookIsTrue, Lost, Passing, Held, Free
<1>7. /\ item'[i].status = "waiting" => item'[i].linked
      /\ item'[i].linked => item'[i].status \in {"refused", "waiting", "ready"}
      /\ (item'[i].linked /\ item'[i].status = "waiting") => prep[p].status = "waiting"
      /\ (item'[i].linked /\ item'[i].status = "ready") => prep[p].status = "available"
  BY <1>3, <1>4 DEF Verdict
<1>a. LinksAreDecided'
  BY <1>3, <1>7 DEF ShowInv, LinksAreDecided
<1>8. Agrees(i)'
  <2>1. LookIsTrue(p) /\ WordOf[i] = Held(p)
    BY <1>2 DEF ShowInv, LooksAreTrue, Held
  <2>2. ~ Lost(WordOf[i]) =>
          /\ prep[p].status = "waiting" => entry[WordOf[i]] # "ready" \/ Passing(WordOf[i], After)
          /\ prep[p].status = "available" => entry[WordOf[i]] = "ready" \/ Passing(WordOf[i], After)
    BY <1>1, <2>1 DEF LookIsTrue, Passing, After
  <2>4. PICK w : w = WordOf[i]
    OBVIOUS
  <2>5. /\ Lost(w)' <=> Lost(w)
        /\ Passing(w, After)' <=> Passing(w, After)
        /\ entry'[w] = entry[w]
    BY <1>3 DEF Lost, Passing
  <2>6. entry[w] = "ready" => Shown(entry[w]) = "ready"
    BY DEF Shown, Failed
  <2> QED
    BY <1>7, <2>2, <2>4, <2>5, <2>6 DEF Agrees
<1>9. ItemsAgree'
  <2> SUFFICES ASSUME NEW k \in Item, k # i PROVE Agrees(k)'
    BY <1>8 DEF ItemsAgree
  <2> QED
    BY <1>3 DEF ShowInv, ItemsAgree, Agrees, Lost, Passing
<1> QED
  BY <1>6, <1>a, <1>9 DEF ShowInv

\* What a builder's step must respect for the looks of importers ...
LEMMA LooksKept ==
  ASSUME DictionaryTypeOK, LooksAreTrue,
         \A q \in Importer : prep'[q] = prep[q] \/ prep'[q].step \notin {"assign", "mark"},
         \A v \in Word :
           \/ Lost(v)'
           \/ /\ ~ Lost(v) /\ entry'[v] = entry[v]
              /\ \A step \in {"publish", "archive"} : Passing(v, {step}) => Passing(v, {step})'
           \/ \A q \in Importer : prep[q].step \in {"assign", "mark"} => Held(q) # v
  PROVE  LooksAreTrue'
<1> SUFFICES ASSUME NEW q \in Importer, prep'[q].step \in {"assign", "mark"}
             PROVE  LookIsTrue(q)'
  BY DEF LooksAreTrue, LookIsTrue
<1>1. prep'[q] = prep[q] /\ LookIsTrue(q)
  BY DEF LooksAreTrue
<1>2. PICK v \in Word : v = Held(q)
  BY <1>1, BusyImporter, HeldIsWord
<1>3. Held(q)' = v
  BY <1>1, <1>2 DEF Held
<1> QED
  BY <1>1, <1>2, <1>3 DEF LookIsTrue

\* ... and for the items.
LEMMA ItemsKept ==
  ASSUME DictionaryTypeOK, ItemsAgree,
         \A i \in Item :
           \/ Agrees(i)'
           \/ Lost(WordOf[i])'
           \/ /\ ~ Lost(WordOf[i]) /\ item'[i] = item[i]
              /\ \/ Passing(WordOf[i], After)'
                 \/ entry'[WordOf[i]] = entry[WordOf[i]] /\ ~ Passing(WordOf[i], After)
  PROVE  ItemsAgree'
<1> SUFFICES ASSUME NEW i \in Item PROVE Agrees(i)'
  BY DEF ItemsAgree
<1>1. PICK v : v = WordOf[i]
  OBVIOUS
<1>2. Agrees(i)
  BY DEF ItemsAgree
<1> QED
  BY <1>1, <1>2 DEF Agrees

LEMMA ShowBegin ==
  ASSUME DictionaryTypeOK, ShowInv, NEW b \in Builder, NEW w \in Word, NEW status,
         build[b] = Idle, Begin(b, w, status), UNCHANGED <<entry, item, prep, missed>>,
         overlap \subseteq overlap'
  PROVE  ShowInv'
<1>1. build' = [build EXCEPT ![b] = [word |-> w, step |-> "write", status |-> status]]
  BY DEF Begin
<1>2. /\ build'[b].step = "write" /\ build[b].step = "none"
      /\ \A c \in Builder : c # b => build'[c] = build[c]
  BY <1>1 DEF DictionaryTypeOK, Idle
<1>3. \A v : /\ Passing(v, After)' <=> Passing(v, After)
             /\ \A step \in {"publish", "archive"} : Passing(v, {step})' <=> Passing(v, {step})
             /\ Lost(v) => Lost(v)'
  BY <1>1, <1>2 DEF Passing, After, Lost
<1>4. LooksAreTrue'
  BY <1>1, <1>3, LooksKept DEF ShowInv
<1>5. ItemsAgree'
  BY <1>1, <1>3, ItemsKept DEF ShowInv
<1>6. WritersKnow'
  BY <1>1, <1>2 DEF ShowInv, WritersKnow, After
<1>7. LinksAreDecided'
  BY <1>1 DEF ShowInv, LinksAreDecided
<1> QED
  BY <1>4, <1>5, <1>6, <1>7 DEF ShowInv

\* Two that have listed an entry are seen, and nothing is shown by it.
LEMMA ShowList ==
  ASSUME DictionaryTypeOK, ShowInv, UNCHANGED <<entry, item, prep, build, missed>>,
         overlap \subseteq overlap'
  PROVE  ShowInv'
<1>1. \A v : /\ \A S : Passing(v, S)' <=> Passing(v, S)
             /\ Lost(v) => Lost(v)'
  BY DEF Passing, Lost
<1>2. LooksAreTrue'
  BY <1>1, LooksKept DEF ShowInv
<1>3. ItemsAgree'
  BY <1>1, ItemsKept DEF ShowInv
<1> QED
  BY <1>2, <1>3 DEF ShowInv, WritersKnow, LinksAreDecided

\* Nobody else has looked, or looks again: the others are lost.
LEMMA LostTogether ==
  ASSUME WordInv, NEW b \in Builder, NEW c \in Builder, b # c, build[b].word \in Word,
         build[b] # Idle, build[c] # Idle, build[c].word = build[b].word
  PROVE  Lost(build[b].word)
BY OneAtAWord DEF WordInv, Lost

LEMMA ShowWrite ==
  ASSUME DictionaryTypeOK, WordInv, ShowInv, NEW b \in Builder, Write(b)
  PROVE  ShowInv'
<1>1. PICK w \in Word, status \in Outcomes(b) :
        /\ w = build[b].word
        /\ entry' = [entry EXCEPT ![w] = status]
        /\ build' = [build EXCEPT ![b].step = AfterWrite(status), ![b].status = status]
  BY BusyBuilder DEF Write
<1>2. /\ build[b] \in Making /\ build[b].step = "write" /\ build[b].status # "promoted"
      /\ build[b] # Idle /\ UNCHANGED <<item, prep, missed, overlap>>
  BY BusyBuilder DEF Write
<1>3. /\ \A c \in Builder : c # b => build'[c] = build[c]
      /\ build'[b].word = w /\ build'[b].step = AfterWrite(status) /\ build'[b].status = status
  BY <1>1, <1>2 DEF DictionaryTypeOK, Making
<1>4. \A v \in Word : entry'[v] = IF v = w THEN status ELSE entry[v]
  BY <1>1 DEF DictionaryTypeOK
<1>5. AfterWrite(status) \in After
  BY DEF AfterWrite, After
<1>6. \A v : (Lost(v)' <=> Lost(v)) /\ (v # w => \A S : Passing(v, S)' <=> Passing(v, S))
  BY <1>1, <1>2, <1>3 DEF Lost, Passing
<1>7. Passing(w, After)' /\ Passing(w, {AfterWrite(status)})'
  BY <1>3, <1>5 DEF Passing
<1>8. Lost(w) \/ ~ Passing(w, {"archive"})
  BY <1>1, <1>2, LostTogether DEF Passing, Idle
<1>9. LooksAreTrue'
  <2> SUFFICES ASSUME NEW q \in Importer, prep[q].step \in {"assign", "mark"}
               PROVE  LookIsTrue(q)'
    BY <1>2 DEF LooksAreTrue, LookIsTrue
  <2>1. PICK v \in Word : v = Held(q)
    BY BusyImporter, HeldIsWord
  <2>2. Held(q)' = v /\ LookIsTrue(q)
    BY <1>2, <2>1 DEF Held, ShowInv, LooksAreTrue
  <2>3. CASE v # w
    BY <1>2, <1>4, <1>6, <2>1, <2>2, <2>3 DEF LookIsTrue
  <2>4. CASE v = w
    <3>1. status = "ready" => Passing(w, {"publish"})'
      BY <1>7 DEF AfterWrite
    <3>2. SUFFICES ASSUME ~ Lost(w), prep[q].status = "available" PROVE Passing(w, {"archive"})'
      BY <1>2, <1>4, <1>6, <2>1, <2>2, <2>4, <3>1 DEF LookIsTrue
    <3>3. entry[w] = "ready"
      BY <1>8, <2>1, <2>2, <2>4, <3>2 DEF LookIsTrue
    <3>4. status = "rejected"
      BY <1>1, <1>2, <3>2, <3>3 DEF WordInv, PicksAreFresh, Fresh, Lost, Outcomes
    <3> QED
      BY <1>7, <3>4 DEF AfterWrite
  <2> QED
    BY <2>3, <2>4
<1>10. ItemsAgree'
  <2> SUFFICES ASSUME NEW i \in Item PROVE Agrees(i)'
    BY DEF ItemsAgree
  <2>1. PICK v \in Word : v = WordOf[i]
    BY DictionaryAssumption
  <2>2. Agrees(i)
    BY DEF ShowInv, ItemsAgree
  <2>3. CASE v = w
    BY <1>2, <1>6, <1>7, <2>1, <2>2, <2>3 DEF Agrees
  <2>4. CASE v # w
    BY <1>2, <1>4, <1>6, <2>1, <2>2, <2>4 DEF Agrees
  <2> QED
    BY <2>3, <2>4
<1>11. WritersKnow'
  <2> SUFFICES ASSUME NEW c \in Builder, build'[c].step \in After, build'[c].word \notin overlap
               PROVE  entry'[build'[c].word] = build'[c].status
    BY <1>2 DEF WritersKnow
  <2>1. CASE c = b
    BY <1>3, <1>4, <2>1
  <2>2. CASE c # b
    <3>1. build'[c] = build[c] /\ build[c].word \in Word /\ build[c] # Idle
      BY <1>3, <2>2, BusyBuilder DEF After
    <3>2. build[c].word # w
      BY <1>1, <1>2, <2>2, <3>1, OneAtAWord DEF WordInv
    <3> QED
      BY <1>4, <3>1, <3>2 DEF ShowInv, WritersKnow
  <2> QED
    BY <2>1, <2>2
<1>12. LinksAreDecided'
  BY <1>2 DEF ShowInv, LinksAreDecided
<1> QED
  BY <1>9, <1>10, <1>11, <1>12 DEF ShowInv

\* A step that finds somebody in the middle of the word marks it as missed.
LEMMA NobodyAt ==
  ASSUME DictionaryTypeOK, NEW w, ~ Unsettled(w)
  PROVE  \A q \in Importer : prep[q].step \in {"assign", "mark"} => Held(q) # w
BY BusyImporter DEF Unsettled

LEMMA ShowPublish ==
  ASSUME DictionaryTypeOK, WordInv, ShowInv, NEW b \in Builder, Publish(b)
  PROVE  ShowInv'
<1>1. PICK w \in Word : w = build[b].word
  BY BusyBuilder DEF Publish
<1>2. /\ build[b] \in Making /\ build[b].step \in {"publish", "archive"} /\ build[b] # Idle
      /\ UNCHANGED <<entry, item, prep, overlap>>
      /\ missed' = IF Unsettled(w) THEN missed \union {w} ELSE missed
      /\ build' = [build EXCEPT ![b].step = "sync"]
  BY <1>1, BusyBuilder DEF Publish
<1>3. /\ \A c \in Builder : c # b => build'[c] = build[c]
      /\ build'[b].word = w /\ build'[b].step = "sync" /\ build'[b].status = build[b].status
  BY <1>1, <1>2 DEF DictionaryTypeOK, Making
<1>4. /\ \A v : Lost(v)' <=> Lost(v) \/ (v = w /\ Unsettled(w))
      /\ \A v : Passing(v, After)' <=> Passing(v, After)
      /\ \A v : v # w => \A step \in {"publish", "archive"} : Passing(v, {step}) => Passing(v, {step})'
  BY <1>1, <1>2, <1>3 DEF Lost, Passing, After
<1>5. LooksAreTrue'
  <2>1. \A v \in Word :
           \/ Lost(v)'
           \/ /\ ~ Lost(v) /\ entry'[v] = entry[v]
              /\ \A step \in {"publish", "archive"} : Passing(v, {step}) => Passing(v, {step})'
           \/ \A q \in Importer : prep[q].step \in {"assign", "mark"} => Held(q) # v
    BY <1>2, <1>4, NobodyAt
  <2> QED
    BY <1>2, <2>1, LooksKept DEF ShowInv
<1>6. ItemsAgree'
  BY <1>2, <1>4, ItemsKept DEF ShowInv
<1>7. WritersKnow'
  BY <1>1, <1>2, <1>3 DEF ShowInv, WritersKnow, After
<1>8. LinksAreDecided'
  BY <1>2 DEF ShowInv, LinksAreDecided
<1> QED
  BY <1>5, <1>6, <1>7, <1>8 DEF ShowInv

LEMMA ShowSync ==
  ASSUME DictionaryTypeOK, WordInv, ShowInv, NEW b \in Builder, Sync(b)
  PROVE  ShowInv'
<1>1. PICK w \in Word, status \in EntryStatus : w = build[b].word /\ status = build[b].status
  BY BusyBuilder DEF Sync
<1>2. /\ build[b].step = "sync" /\ UNCHANGED <<entry, prep, overlap>>
      /\ missed' = IF Unsettled(w) THEN missed \union {w} ELSE missed
      /\ build' = [build EXCEPT ![b] = Idle]
  BY <1>1 DEF Sync
<1>3. \A c \in Builder : build'[c] = IF c = b THEN Idle ELSE build[c]
  BY <1>2 DEF DictionaryTypeOK
<1>4. \A i \in Item :
        /\ item'[i].linked = item[i].linked
        /\ item'[i].status = IF item[i].linked /\ WordOf[i] = w THEN Shown(status) ELSE item[i].status
        /\ WordOf[i] # w => item'[i] = item[i]
  BY <1>1 DEF Sync, DictionaryTypeOK, ItemRow
<1>5. /\ \A v : Lost(v)' <=> Lost(v) \/ (v = w /\ Unsettled(w))
      /\ \A v : v # w => (Passing(v, After)' <=> Passing(v, After))
      /\ \A v : \A step \in {"publish", "archive"} : Passing(v, {step}) => Passing(v, {step})'
  BY <1>1, <1>2, <1>3 DEF Lost, Passing, After, Idle
<1>6. LooksAreTrue'
  <2>1. \A v \in Word :
           \/ Lost(v)'
           \/ /\ ~ Lost(v) /\ entry'[v] = entry[v]
              /\ \A step \in {"publish", "archive"} : Passing(v, {step}) => Passing(v, {step})'
           \/ \A q \in Importer : prep[q].step \in {"assign", "mark"} => Held(q) # v
    BY <1>2, <1>5, NobodyAt
  <2> QED
    BY <1>2, <2>1, LooksKept DEF ShowInv
<1>7. ItemsAgree'
  <2> SUFFICES ASSUME NEW i \in Item PROVE Agrees(i)'
    BY DEF ItemsAgree
  <2>1. PICK v : v = WordOf[i]
    OBVIOUS
  <2>2. Agrees(i)
    BY DEF ShowInv, ItemsAgree
  <2>3. CASE v # w
    BY <1>2, <1>4, <1>5, <2>1, <2>2, <2>3 DEF Agrees
  <2>4. CASE v = w
    <3>1. ~ Lost(w) => entry[w] = status
      BY <1>1, <1>2 DEF ShowInv, WritersKnow, After, Lost
    <3>2. (item[i].linked => item'[i].status = Shown(status)) /\ (~ item[i].linked => item'[i].status = item[i].status)
      BY <1>4, <2>1, <2>4
    <3> QED
      BY <1>2, <1>4, <1>5, <2>1, <2>2, <2>4, <3>1, <3>2 DEF Agrees
  <2> QED
    BY <2>3, <2>4
<1>8. WritersKnow'
  BY <1>2, <1>3 DEF ShowInv, WritersKnow, After, Idle
<1>9. LinksAreDecided'
  <2>1. Shown(status) \notin {"absent", "pending", "existing"}
    BY DEF Shown, Failed
  <2> QED
    BY <1>4, <2>1 DEF ShowInv, LinksAreDecided
<1> QED
  BY <1>6, <1>7, <1>8, <1>9 DEF ShowInv

\* A builder that dies after it has written loses the word.
LEMMA ShowFails ==
  ASSUME DictionaryTypeOK, WordInv, ShowInv, NEW b \in Builder, BuilderFails(b)
  PROVE  ShowInv'
<1>1. PICK w : w = build[b].word
  OBVIOUS
<1>2. /\ UNCHANGED <<entry, item, prep, overlap>>
      /\ missed' = IF build[b].step \in {"none", "write"} THEN missed ELSE missed \union {w}
      /\ build' = [build EXCEPT ![b] = Idle]
  BY <1>1 DEF BuilderFails
<1>3. \A c \in Builder : build'[c] = IF c = b THEN Idle ELSE build[c]
  BY <1>2 DEF DictionaryTypeOK
<1>4. \A v : /\ Lost(v) => Lost(v)'
             /\ Lost(v)' \/ (Passing(v, After)' <=> Passing(v, After))
             /\ \A step \in {"publish", "archive"} : Lost(v)' \/ (Passing(v, {step})' <=> Passing(v, {step}))
  BY <1>1, <1>2, <1>3 DEF Lost, Passing, After, Idle
<1>5. LooksAreTrue'
  BY <1>2, <1>4, LooksKept DEF ShowInv
<1>6. ItemsAgree'
  BY <1>2, <1>4, ItemsKept DEF ShowInv
<1>7. WritersKnow'
  BY <1>2, <1>3 DEF ShowInv, WritersKnow, After, Idle
<1>8. LinksAreDecided'
  BY <1>2 DEF ShowInv, LinksAreDecided
<1> QED
  BY <1>5, <1>6, <1>7, <1>8 DEF ShowInv

\* A promotion cuts the items loose; those of a ready word do not wait.
LEMMA ShowPromote ==
  ASSUME DictionaryTypeOK, WordInv, ShowInv, NEW b \in Builder, Promote(b)
  PROVE  ShowInv'
<1>1. PICK w \in Word : w = build[b].word
  BY BusyBuilder DEF Promote
<1>2. /\ build[b] # Idle /\ build[b].step = "write" /\ build[b].status = "promoted" /\ UNCHANGED overlap
      /\ missed' = IF Unsettled(w) THEN missed \union {w} ELSE missed
      /\ \A v \in Word : entry'[v] = IF v = w THEN "none" ELSE entry[v]
      /\ \A c \in Builder : build'[c] = IF build[c].word = w THEN Idle ELSE build[c]
  BY <1>1, BusyBuilder DEF Promote, DictionaryTypeOK
<1>3. \A i \in Item :
        /\ item'[i].status = item[i].status /\ (item'[i].linked => item[i].linked /\ WordOf[i] # w)
        /\ WordOf[i] # w => item'[i] = item[i]
  BY <1>1 DEF Promote, DictionaryTypeOK, ItemRow
<1>4. \A q \in Importer : prep'[q] = prep[q] \/ prep'[q].step \notin {"assign", "mark"}
  <2> SUFFICES ASSUME NEW q \in Importer, prep'[q] # prep[q] PROVE prep'[q].step \notin {"assign", "mark"}
    OBVIOUS
  <2>1. /\ prep[q] # Free
        /\ prep'[q] = [prep[q] EXCEPT !.step = CASE @ = "assign" -> "stray"
                                                   [] @ = "mark"   -> "orphan"
                                                   [] OTHER        -> @]
    BY DEF Promote
  <2>2. prep[q] \in Doing
    BY <2>1 DEF DictionaryTypeOK
  <2> QED
    BY <2>1, <2>2 DEF Doing
<1>5. /\ \A v : Lost(v)' <=> Lost(v) \/ (v = w /\ Unsettled(w))
      /\ \A v : v # w =>
           /\ Passing(v, After) => Passing(v, After)'
           /\ \A step \in {"publish", "archive"} : Passing(v, {step}) => Passing(v, {step})'
  BY <1>1, <1>2 DEF Lost, Passing
<1>6. LooksAreTrue'
  <2>1. \A v \in Word :
           \/ Lost(v)'
           \/ /\ ~ Lost(v) /\ entry'[v] = entry[v]
              /\ \A step \in {"publish", "archive"} : Passing(v, {step}) => Passing(v, {step})'
           \/ \A q \in Importer : prep[q].step \in {"assign", "mark"} => Held(q) # v
    BY <1>2, <1>5, NobodyAt
  <2> QED
    BY <1>4, <2>1, LooksKept DEF ShowInv
<1>7. ItemsAgree'
  <2> SUFFICES ASSUME NEW i \in Item PROVE Agrees(i)'
    BY DEF ItemsAgree
  <2>1. PICK v \in Word : v = WordOf[i]
    BY DictionaryAssumption
  <2>2. Agrees(i)
    BY DEF ShowInv, ItemsAgree
  <2>3. CASE v # w
    BY <1>2, <1>3, <1>5, <2>1, <2>2, <2>3 DEF Agrees
  <2>4. CASE v = w
    <3>1. ~ Lost(w) => entry[w] = "ready"
      BY <1>1, <1>2 DEF WordInv, PicksAreFresh, Fresh, Lost
    <3>2. Lost(w) \/ ~ Passing(w, After)
      BY <1>1, <1>2, LostTogether DEF Passing, After, Idle
    <3>3. Shown("ready") # "waiting"
      BY DEF Shown, Failed
    <3>4. ~ Lost(w) => item[i].status # "waiting"
      BY <2>1, <2>2, <2>4, <3>1, <3>2, <3>3 DEF Agrees
    <3> QED
      BY <1>3, <1>5, <2>1, <2>4, <3>4 DEF Agrees
  <2> QED
    BY <2>3, <2>4
<1>8. WritersKnow'
  <2> SUFFICES ASSUME NEW c \in Builder, build'[c].step \in After, build'[c].word \notin overlap
               PROVE  entry'[build'[c].word] = build'[c].status
    BY <1>2 DEF WritersKnow
  <2>1. build'[c] = build[c] /\ build[c].word # w
    BY <1>2 DEF After, Idle
  <2>2. build[c].word \in Word
    BY <2>1, BusyBuilder DEF After
  <2> QED
    BY <1>2, <2>1, <2>2 DEF ShowInv, WritersKnow
<1>9. LinksAreDecided'
  BY <1>3 DEF ShowInv, LinksAreDecided
<1> QED
  BY <1>6, <1>7, <1>8, <1>9 DEF ShowInv

LEMMA ShowStep == ImportTypeOK /\ WordInv /\ ShowInv /\ ItemsAreSeen /\ [ImportNext]_importVars => ShowInv'
<1> SUFFICES ASSUME ImportTypeOK, WordInv, ShowInv, ItemsAreSeen, [ImportNext]_importVars PROVE ShowInv'
  OBVIOUS
<1>0. DictionaryTypeOK
  BY DEF ImportTypeOK
<1>a. UNCHANGED dictVars => ShowInv'
  BY <1>0, ShowBrings DEF dictVars
<1>1. ASSUME NEW p \in Importer, ImporterStep(p) PROVE ShowInv'
  <2>1. ASSUME NEW j \in Job, CreateEmpty(p, j) PROVE ShowInv'
    BY <1>a, <2>1 DEF CreateEmpty
  <2>2. ASSUME NEW j \in Job, CreateWhole(p, j) PROVE ShowInv'
    <3>1. UNCHANGED <<entry, prep, build, missed, overlap>> /\ job[j].status = "absent"
      BY <2>2 DEF CreateWhole
    <3>2. \A i \in Item : IF JobOf[i] = j THEN item'[i] = [item[i] EXCEPT !.status = "pending"]
                                         ELSE item'[i] = item[i]
      BY <2>2 DEF CreateWhole
    <3>3. \A i \in Item : item[i] \in ItemRow
      BY <1>0 DEF DictionaryTypeOK
    <3>4. \A i \in Item : \/ item'[i] = item[i]
                          \/ /\ item[i].status = "absent" /\ item'[i].linked = item[i].linked
                             /\ item'[i].status \in {"pending", "refused", "existing"}
      BY <3>1, <3>2, <3>3 DEF ItemsAreSeen, ItemRow
    <3> QED
      BY <1>0, <3>1, <3>4, ShowBrings
  <2>3. CASE Append(p)
    <3>1. UNCHANGED <<entry, prep, build, missed, overlap>>
      BY <2>3 DEF Append
    <3>2. PICK i \in Item, status \in {"pending", "refused", "existing"} :
            item[i].status = "absent" /\ item' = [item EXCEPT ![i].status = status]
      BY <2>3 DEF Append, First, Missing, ItemsOf
    <3>3. /\ item'[i].status = status /\ item'[i].linked = item[i].linked
          /\ \A k \in Item : k # i => item'[k] = item[k]
      BY <1>0, <3>2 DEF DictionaryTypeOK, ItemRow
    <3> QED
      BY <1>0, <3>1, <3>2, <3>3, ShowBrings
  <2>4. CASE MarkProcessing(p) \/ NothingLeft(p) \/ Claim(p) \/ List(p)
    BY <1>a, <2>4 DEF MarkProcessing, NothingLeft, Claim, List
  <2>5. CASE Prepare(p)
    <3>1. PICK i \in proc[p].todo : Look(p, i)
      BY <2>5 DEF Prepare
    <3>2. i \in Item
      BY <2>5, <3>1, AtWork DEF Prepare, At, Steps
    <3> QED
      BY <1>0, <3>1, <3>2, ShowLook
  <2>6. CASE Work(p)
    BY <1>0, <2>6, ShowSeek, ShowCreate, ShowAssign, ShowMark DEF Work
  <2>7. CASE Prepared(p) \/ Complete(p) \/ Told(p) \/ FailJob(p)
    BY <1>a, <2>7 DEF Prepared, Complete, Told, FailJob
  <2>8. CASE CompleteThenRaises(p)
    BY <1>0, <2>8, ShowBrings DEF CompleteThenRaises
  <2>9. CASE Collide(p) \/ Raises(p) \/ Dies(p)
    BY <1>0, <2>9, ShowDrop DEF Collide, Raises, Raised, Dies
  <2> QED
    BY <1>1, <2>1, <2>2, <2>3, <2>4, <2>5, <2>6, <2>7, <2>8, <2>9 DEF ImporterStep
<1>2. ASSUME NEW b \in Builder, BuilderStep(b) PROVE ShowInv'
  <2>1. ASSUME NEW status \in Queued, ListEntries(b, status) PROVE ShowInv'
    BY <1>0, <2>1, ShowList DEF ListEntries
  <2>2. ASSUME NEW w \in Word, (\E status \in Queued : Pick(b, w, status)) \/ AdminPicks(b, w)
        PROVE  ShowInv'
    BY <1>0, <2>2, ShowBegin DEF Pick, AdminPicks
  <2> QED
    BY <1>0, <1>2, <2>1, <2>2, ShowWrite, ShowPublish, ShowSync, ShowPromote, ShowFails DEF BuilderStep
<1>3. ASSUME ListSummaries \/ \E j \in Job : LeaseEnds(j) \/ Summarise(j) PROVE ShowInv'
  BY <1>a, <1>3 DEF LeaseEnds, ListSummaries, Summarise
<1>4. CASE UNCHANGED importVars
  BY <1>a, <1>4 DEF importVars
<1> QED
  BY <1>1, <1>2, <1>3, <1>4 DEF ImportNext

\* An importer that works on an item keeps it in hand or is done with it.
LEMMA WorkKeepsItems ==
  ASSUME DictionaryTypeOK, NEW p \in Importer,
         Seek(p) \/ Create(p) \/ Assign(p) \/ AssignStray(p) \/ Mark(p)
  PROVE  /\ prep[p] # Free
         /\ \A q \in Importer : prep'[q] = Free \/ (prep[q] # Free /\ prep'[q].item = prep[q].item)
         /\ \A i \in Item : /\ i # prep[p].item => item'[i] = item[i]
                            /\ item'[i].status = "absent" => item[i].status = "absent"
<1>1. prep[p] # Free /\ prep[p] \in Doing /\ prep[p].item \in Item
  BY BusyImporter, HeldIsWord DEF Seek, Create, Assign, AssignStray, Mark
<1>2. CASE Seek(p) \/ Create(p) \/ Assign(p) \/ AssignStray(p)
  <2>1. UNCHANGED item
    BY <1>2 DEF Seek, Create, Assign, AssignStray
  <2>2. CASE Seek(p)
    <3>1. PICK f \in FoundPrivate(Held(p)) : prep' = [prep EXCEPT ![p].step = f[1], ![p].status = f[2]]
      BY <2>2 DEF Seek
    <3> QED
      BY <1>1, <2>1, <3>1 DEF DictionaryTypeOK, Doing
  <2>3. CASE Create(p) \/ Assign(p) \/ AssignStray(p)
    <3>1. PICK step : prep' = [prep EXCEPT ![p].step = step]
      BY <2>3 DEF Create, Assign, AssignStray
    <3> QED
      BY <1>1, <2>1, <3>1 DEF DictionaryTypeOK, Doing
  <2> QED
    BY <1>2, <2>2, <2>3
<1>3. CASE Mark(p)
  <2>1. \A status \in {"waiting", "available", "existing", "refused"} : Verdict[status] # "absent"
    BY DEF Verdict
  <2>2. prep[p].status \in {"waiting", "available", "existing", "refused"}
    BY <1>1 DEF Doing
  <2>3. /\ \A i \in Item : i # prep[p].item => item'[i] = item[i]
        /\ item'[prep[p].item].status # "absent"
    BY <1>1, <1>3, <2>1, <2>2 DEF Mark, DictionaryTypeOK
  <2>4. \A q \in Importer : prep'[q] = IF q = p THEN Free ELSE prep[q]
    BY <1>3 DEF Mark, DictionaryTypeOK
  <2> QED
    BY <1>1, <2>3, <2>4
<1> QED
  BY <1>2, <1>3

LEMMA BuilderKeepsItems ==
  ASSUME DictionaryTypeOK, LinksAreDecided, NEW b \in Builder, BuilderStep(b)
  PROVE  /\ \A q \in Importer : prep'[q] # Free => prep[q] # Free /\ prep'[q].item = prep[q].item
         /\ \A i \in Item : item'[i].status = "absent" <=> item[i].status = "absent"
<1>1. CASE Promote(b)
  <2>1. \A q \in Importer : prep'[q] = prep[q] \/ (prep[q] # Free /\ prep'[q].item = prep[q].item)
    <3> SUFFICES ASSUME NEW q \in Importer, prep'[q] # prep[q]
                 PROVE  prep[q] # Free /\ prep'[q].item = prep[q].item
      OBVIOUS
    <3>1. prep[q] # Free /\ \E step : prep'[q] = [prep[q] EXCEPT !.step = step]
      BY <1>1 DEF Promote
    <3>2. prep[q] \in Doing
      BY <3>1 DEF DictionaryTypeOK
    <3> QED
      BY <3>1, <3>2 DEF Doing
  <2>2. \A i \in Item : item'[i].status = item[i].status
    BY <1>1 DEF Promote, DictionaryTypeOK, ItemRow
  <2> QED
    BY <2>1, <2>2
<1>2. CASE Sync(b)
  <2>1. Shown(build[b].status) # "absent"
    BY DEF Shown, Failed
  <2>2. \A i \in Item : item'[i] = item[i] \/ (item[i].linked /\ item'[i].status # "absent")
    BY <1>2, <2>1 DEF Sync, DictionaryTypeOK, ItemRow
  <2>3. UNCHANGED prep
    BY <1>2 DEF Sync
  <2> QED
    BY <2>2, <2>3 DEF LinksAreDecided
<1>3. CASE UNCHANGED <<item, prep>>
  BY <1>3
<1> QED
  BY <1>1, <1>2, <1>3 DEF BuilderStep, ListEntries, Pick, AdminPicks, Write, Publish, BuilderFails

\* What a step must respect: jobs and items that are there stay, items come
\* with their job, and what a process newly knows of is there.
RowsStay ==
  /\ \A i \in Item : item'[i].status = "absent" => item[i].status = "absent"
  /\ \A j \in Job : job'[j].status = "absent" => job[j].status = "absent"
ItemsComeLate ==
  \A i \in Item : \/ item'[i].status = "absent" \/ item[i].status # "absent"
                  \/ job'[JobOf[i]].status # "absent"
HandsSeen ==
  \A q \in Importer : \/ prep'[q] = Free
                      \/ prep[q] # Free /\ prep'[q].item = prep[q].item
                      \/ prep'[q].item \in Item /\ item[prep'[q].item].status # "absent"
TodoSeen ==
  \A q \in Importer : \A i \in proc'[q].todo :
    i \in proc[q].todo \/ (i \in Item /\ item[i].status # "absent")

LEMMA SeenFrame ==
  ASSUME ImportTypeOK, ItemsAreSeen, RowsStay, ItemsComeLate, HandsSeen, TodoSeen
  PROVE  ItemsAreSeen'
<1>0. DictionaryTypeOK
  BY DEF ImportTypeOK
<1>1. \A q \in Importer : prep'[q] # Free => item'[prep'[q].item].status # "absent"
  BY <1>0, HeldIsWord DEF ItemsAreSeen, RowsStay, HandsSeen
<1>2. \A q \in Importer : proc[q].todo \subseteq Item
  BY DEF ImportTypeOK, AtEase, Working
<1>3. \A q \in Importer : \A i \in proc'[q].todo : item'[i].status # "absent"
  BY <1>2 DEF ItemsAreSeen, RowsStay, TodoSeen
<1>4. \A i \in Item : JobOf[i] \in Job
  BY ImportAssumption
<1>5. \A i \in Item : job'[JobOf[i]].status = "absent" => item'[i].status = "absent"
  BY <1>4 DEF ItemsAreSeen, RowsStay, ItemsComeLate
<1> QED
  BY <1>1, <1>3, <1>5 DEF ItemsAreSeen

LEMMA SeenStep ==
  ImportTypeOK /\ JobInv /\ ShowInv /\ ItemsAreSeen /\ [ImportNext]_importVars => ItemsAreSeen'
<1> SUFFICES ASSUME ImportTypeOK, JobInv, ShowInv, ItemsAreSeen, [ImportNext]_importVars PROVE ItemsAreSeen'
  OBVIOUS
<1>0. /\ DictionaryTypeOK /\ job \in [Job -> JobRow] /\ proc \in [Importer -> {AtEase} \union Working]
      /\ JobOf \in [Item -> Job]
  BY ImportAssumption DEF ImportTypeOK
\* Steps of the jobs alone, which keep or shorten what is to do.
<1>a. ASSUME UNCHANGED <<item, prep>>,
             \A j \in Job : job'[j].status = "absent" => job[j].status = "absent",
             \A q \in Importer : proc'[q].todo \subseteq proc[q].todo
      PROVE  ItemsAreSeen'
  <2>1. RowsStay /\ ItemsComeLate
    BY <1>a DEF RowsStay, ItemsComeLate
  <2>2. HandsSeen
    BY <1>a DEF HandsSeen
  <2>3. TodoSeen
    BY <1>a DEF TodoSeen
  <2> QED
    BY <2>1, <2>2, <2>3, SeenFrame
\* Or leave the jobs, and no item comes.
<1>b. ASSUME UNCHANGED job,
             \A i \in Item : item'[i].status = "absent" => item[i].status = "absent",
             \A i \in Item : item[i].status = "absent" => item'[i].status = "absent",
             \A q \in Importer : prep'[q] = Free \/ (prep[q] # Free /\ prep'[q].item = prep[q].item),
             \A q \in Importer : proc'[q].todo \subseteq proc[q].todo
      PROVE  ItemsAreSeen'
  <2>1. RowsStay /\ ItemsComeLate
    BY <1>b DEF RowsStay, ItemsComeLate
  <2>2. HandsSeen
    BY <1>b DEF HandsSeen
  <2>3. TodoSeen
    BY <1>b DEF TodoSeen
  <2> QED
    BY <2>1, <2>2, <2>3, SeenFrame
<1>c. \A p \in Importer : Leave(p) => \A q \in Importer : proc'[q].todo \subseteq proc[q].todo
  <2> SUFFICES ASSUME NEW p \in Importer, Leave(p), NEW q \in Importer
               PROVE  proc'[q].todo \subseteq proc[q].todo
    OBVIOUS
  <2>1. proc'[q] = proc[q] \/ proc'[q].todo = {}
    BY <1>0 DEF Leave, AtEase
  <2> QED
    BY <2>1
<1>d. \A p \in Importer : \A status \in {"completed", "failed", "processing"} :
        job' = Closed(Mine(p), status) => \A j \in Job : job'[j].status = "absent" => job[j].status = "absent"
  BY <1>0 DEF Closed, JobRow
<1>e. \A p \in Importer : \A step : proc' = [proc EXCEPT ![p].step = step] =>
        \A q \in Importer : proc'[q].todo \subseteq proc[q].todo
  BY <1>0 DEF AtEase, Working
<1>1. ASSUME NEW p \in Importer, ImporterStep(p) PROVE ItemsAreSeen'
  <2>1. ASSUME NEW j \in Job, CreateEmpty(p, j) PROVE ItemsAreSeen'
    <3>1. \A k \in Job : job'[k].status = "absent" => job[k].status = "absent"
      BY <1>0, <2>1 DEF CreateEmpty, JobRow
    <3>2. \A q \in Importer : proc'[q].todo \subseteq proc[q].todo
      BY <1>0, <2>1 DEF CreateEmpty, AtEase
    <3> QED
      BY <1>a, <2>1, <3>1, <3>2 DEF CreateEmpty, dictVars
  <2>2. ASSUME NEW j \in Job, CreateWhole(p, j) PROVE ItemsAreSeen'
    <3>1. \A k \in Job : /\ job'[k].status = "absent" => job[k].status = "absent"
                         /\ k = j => job'[k].status = "queued"
      BY <1>0, <2>2 DEF CreateWhole, JobRow
    <3>2. \A i \in Item : IF JobOf[i] = j THEN item'[i].status = "pending" ELSE item'[i] = item[i]
      BY <1>0, <2>2 DEF CreateWhole, DictionaryTypeOK, ItemRow
    <3>3. PICK duty : proc' = [proc EXCEPT ![p] = [AtEase EXCEPT !.duty = duty, !.job = j, !.step = "list"]]
      BY <2>2 DEF CreateWhole
    <3>4. \A q \in Importer : proc'[q].todo \subseteq proc[q].todo
      BY <1>0, <3>3 DEF AtEase
    <3>5. HandsSeen
      BY <2>2 DEF CreateWhole, HandsSeen
    <3>6. RowsStay /\ ItemsComeLate
      BY <1>0, <3>1, <3>2 DEF RowsStay, ItemsComeLate
    <3>7. TodoSeen
      BY <3>4 DEF TodoSeen
    <3> QED
      BY <3>5, <3>6, <3>7, SeenFrame
  <2>3. CASE MarkProcessing(p)
    <3>1. \A k \in Job : job'[k].status = "absent" => job[k].status = "absent"
      BY <1>0, <2>3 DEF MarkProcessing, JobRow
    <3> QED
      BY <1>a, <1>e, <2>3, <3>1 DEF MarkProcessing, dictVars
  <2>4. CASE Append(p)
    <3>1. PICK i \in Item, status \in {"pending", "refused", "existing"} :
            JobOf[i] = Mine(p) /\ item' = [item EXCEPT ![i].status = status]
      BY <2>4 DEF Append, ItemsOf
    <3>2. \A k \in Item : IF k = i THEN item'[k].status = status ELSE item'[k] = item[k]
      BY <1>0, <3>1 DEF DictionaryTypeOK, ItemRow
    <3>3. job[JobOf[i]].status # "absent"
      <4>1. proc[p] # AtEase
        BY <2>4, AtWork DEF Append, At, Steps
      <4> QED
        BY <3>1, <4>1 DEF JobInv, ProcInv, JobsExist
    <3>4. UNCHANGED <<job, prep>> /\ proc' = [proc EXCEPT ![p].step = "list"]
      BY <2>4 DEF Append
    <3>5. TodoSeen
      BY <1>e, <3>4 DEF TodoSeen
    <3>6. HandsSeen
      BY <3>4 DEF HandsSeen
    <3>7. RowsStay /\ ItemsComeLate
      BY <3>1, <3>2, <3>3, <3>4 DEF RowsStay, ItemsComeLate
    <3> QED
      BY <3>5, <3>6, <3>7, SeenFrame
  <2>5. CASE NothingLeft(p)
    BY <1>a, <1>e, <2>5 DEF NothingLeft, dictVars
  <2>6. CASE Claim(p)
    <3>1. \A k \in Job : job'[k].status = "absent" => job[k].status = "absent"
      BY <1>0, <2>6 DEF Claim, JobRow
    <3>2. \A q \in Importer : proc'[q].todo \subseteq proc[q].todo
      <4>1. PICK j \in Claimable :
              proc' = [proc EXCEPT ![p] = [duty |-> "claimed", job |-> j, more |-> Claimable \ {j},
                                           todo |-> {}, step |-> "list"]]
        BY <2>6 DEF Claim
      <4>2. \A q \in Importer : proc'[q] = proc[q] \/ proc'[q].todo = {}
        BY <1>0, <4>1
      <4> QED
        BY <4>2
    <3> QED
      BY <1>a, <2>6, <3>1, <3>2 DEF Claim, dictVars
  <2>7. CASE List(p)
    <3>1. \A q \in Importer : \/ proc'[q].todo \subseteq proc[q].todo
                              \/ proc'[q].todo = Pending(Mine(p))
      <4>1. proc[p] \in Working
        BY <2>7, AtWork DEF List, At, Steps
      <4> QED
        BY <1>0, <2>7, <4>1 DEF List, Working
    <3>2. \A i \in Pending(Mine(p)) : i \in Item /\ item[i].status # "absent"
      BY DEF Pending, ItemsOf
    <3>3. UNCHANGED <<item, prep, job>>
      BY <2>7 DEF List, dictVars
    <3>4. TodoSeen
      BY <3>1, <3>2 DEF TodoSeen
    <3>5. HandsSeen
      BY <3>3 DEF HandsSeen
    <3>6. RowsStay /\ ItemsComeLate
      BY <3>3 DEF RowsStay, ItemsComeLate
    <3> QED
      BY <3>4, <3>5, <3>6, SeenFrame
  <2>8. CASE Prepare(p)
    <3>1. PICK i \in proc[p].todo : Look(p, i) /\ proc' = [proc EXCEPT ![p].todo = @ \ {i}]
      BY <2>8 DEF Prepare
    <3>2. i \in Item /\ proc[p] \in Working /\ UNCHANGED <<item, job>>
      BY <2>8, <3>1, AtWork DEF Prepare, At, Steps, Look
    <3>3. \A q \in Importer : proc'[q].todo \subseteq proc[q].todo
      BY <1>0, <3>1, <3>2 DEF Working
    <3>4. \A q \in Importer : prep'[q] = prep[q] \/ prep'[q].item = i
      BY <1>0, <3>1 DEF Look, DictionaryTypeOK
    <3>5. item[i].status # "absent"
      BY DEF ItemsAreSeen
    <3>6. RowsStay /\ ItemsComeLate
      BY <3>2 DEF RowsStay, ItemsComeLate
    <3>7. HandsSeen
      <4> SUFFICES ASSUME NEW q \in Importer, prep'[q] # prep[q]
                   PROVE  prep'[q].item \in Item /\ item[prep'[q].item].status # "absent"
        BY DEF HandsSeen
      <4>1. prep'[q].item = i
        BY <3>4
      <4> QED
        BY <3>2, <3>5, <4>1
    <3>8. TodoSeen
      BY <3>3 DEF TodoSeen
    <3> QED
      BY <3>6, <3>7, <3>8, SeenFrame
  <2>9. CASE Work(p)
    <3>1. /\ \A q \in Importer : prep'[q] = Free \/ (prep[q] # Free /\ prep'[q].item = prep[q].item)
          /\ prep[p] # Free
          /\ \A i \in Item : /\ i # prep[p].item => item'[i] = item[i]
                             /\ item'[i].status = "absent" => item[i].status = "absent"
      BY <1>0, <2>9, WorkKeepsItems DEF Work
    <3>2. item[prep[p].item].status # "absent"
      BY <3>1 DEF ItemsAreSeen
    <3>3. \A i \in Item : item[i].status = "absent" => item'[i].status = "absent"
      BY <3>1, <3>2
    <3>4. UNCHANGED job /\ \A q \in Importer : proc'[q].todo \subseteq proc[q].todo
      BY <2>9 DEF Work
    <3> QED
      BY <1>b, <3>1, <3>3, <3>4
  <2>10. CASE Prepared(p)
    BY <1>a, <1>c, <1>e, <2>10 DEF Prepared, dictVars
  <2>11. CASE Complete(p) \/ CompleteThenRaises(p) \/ FailJob(p)
    BY <1>a, <1>c, <1>d, <1>e, <2>11 DEF Complete, CompleteThenRaises, FailJob, dictVars
  <2>12. CASE Told(p)
    <3>1. \A k \in Job : job'[k].status = "absent" => job[k].status = "absent"
      BY <1>0, <2>12 DEF Told, JobRow
    <3>2. \A q \in Importer : proc'[q].todo \subseteq proc[q].todo
      BY <1>0, <2>12 DEF Told, AtEase
    <3> QED
      BY <1>a, <2>12, <3>1, <3>2 DEF Told, dictVars
  <2>13. CASE Collide(p) \/ Raises(p) \/ Dies(p)
    <3>1. \A q \in Importer : prep'[q] = prep[q] \/ prep'[q] = Free
      BY <1>0, <2>13 DEF Collide, Raises, Raised, Dies, Drop, DictionaryTypeOK
    <3>2. \A q \in Importer : proc'[q] = proc[q] \/ proc'[q].todo = {}
      <4>1. CASE Dies(p)
        BY <1>0, <4>1 DEF Dies, AtEase
      <4>2. CASE Raised(p)
        <5>1. PICK row \in {AtEase, [proc[p] EXCEPT !.step = "fail", !.todo = {}]} :
                proc' = [proc EXCEPT ![p] = row]
          BY <4>2 DEF Raised
        <5>2. AtEase.todo = {}
          BY DEF AtEase
        <5>3. proc[p] \in Working => [proc[p] EXCEPT !.step = "fail", !.todo = {}].todo = {}
          BY DEF Working
        <5>4. proc[p] = AtEase => [proc[p] EXCEPT !.step = "fail", !.todo = {}].todo = {}
          BY DEF AtEase
        <5>5. row.todo = {}
          BY <1>0, <5>1, <5>2, <5>3, <5>4
        <5> QED
          BY <1>0, <5>1, <5>5
      <4> QED
        BY <2>13, <4>1, <4>2 DEF Collide, Raises
    <3>3. RowsStay /\ ItemsComeLate
      BY <2>13 DEF Collide, Raises, Raised, Dies, RowsStay, ItemsComeLate
    <3>4. HandsSeen
      BY <3>1 DEF HandsSeen
    <3>5. TodoSeen
      BY <3>2 DEF TodoSeen
    <3> QED
      BY <3>3, <3>4, <3>5, SeenFrame
  <2> QED
    BY <1>1, <2>1, <2>2, <2>3, <2>4, <2>5, <2>6, <2>7, <2>8, <2>9, <2>10, <2>11, <2>12, <2>13 DEF ImporterStep
<1>2. ASSUME NEW b \in Builder, BuilderStep(b), UNCHANGED <<job, proc>> PROVE ItemsAreSeen'
  BY <1>0, <1>b, <1>2, BuilderKeepsItems DEF ShowInv
<1>3. ASSUME ListSummaries \/ \E j \in Job : LeaseEnds(j) \/ Summarise(j) PROVE ItemsAreSeen'
  <2>1. \A k \in Job : job'[k].status = "absent" => job[k].status = "absent"
    BY <1>0, <1>3 DEF LeaseEnds, ListSummaries, Summarise, JobRow
  <2> QED
    BY <1>a, <1>3, <2>1 DEF LeaseEnds, ListSummaries, Summarise, dictVars
<1>4. CASE UNCHANGED importVars
  BY <1>a, <1>4 DEF importVars, dictVars
<1> QED
  BY <1>1, <1>2, <1>3, <1>4 DEF ImportNext

\* What an item shows its owner is the state of its word once nobody is at it,
\* unless the word's last step was missed or two had built it at once
\* (sync_for_user_dictionary_entry against prepare_import_job_items).
THEOREM ItemsShow == ImportSpec => []ItemsShowTheirWord
<1>1. ImportTypeOK /\ ShowInv => ItemsShowTheirWord
  <2> SUFFICES ASSUME ShowInv, NEW i \in Item, AtRest(WordOf[i]), WordOf[i] \notin missed \union overlap
               PROVE  /\ item[i].linked =>
                           \/ item[i].status \in {Shown(entry[WordOf[i]]), "refused"}
                           \/ item[i].status = "waiting" /\ entry[WordOf[i]] # "ready"
                      /\ item[i].status = "waiting" => item[i].linked
    BY DEF ItemsShowTheirWord
  <2>1. ~ Lost(WordOf[i]) /\ ~ Passing(WordOf[i], After)
    BY DEF AtRest, Lost, Passing
  <2> QED
    BY <2>1 DEF ShowInv, ItemsAgree, Agrees
<1>2. ImportInit => ShowInv /\ ItemsAreSeen
  BY ShowInit
<1>3. (ImportTypeOK /\ WordInv /\ JobInv) /\ (ShowInv /\ ItemsAreSeen) /\ [ImportNext]_importVars
        => (ShowInv /\ ItemsAreSeen)'
  BY ShowStep, SeenStep
<1> QED
  BY <1>1, <1>2, <1>3, ImportInvariant, PTL DEF ImportSpec

=============================================================================
