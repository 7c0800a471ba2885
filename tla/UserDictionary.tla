--------------------------- MODULE UserDictionary ---------------------------
(* The private dictionary: words that imports bring and no common dictionary *)
(* has.  An importer turns an item of an import into an assignment of a word *)
(* to its owner; builders (the API, the scheduler, the embedding worker)     *)
(* take an entry through details, audio and embedding; administrators queue  *)
(* it again, reject it or promote it into the common dictionary.  No entry   *)
(* is claimed: every step is a transaction of its own that trusts what an    *)
(* earlier one has read.                                                     *)
EXTENDS Integers, FiniteSets

CONSTANTS
  Word,
  Core,         \* words of the common dictionary, to begin with
  N,            \* items are numbered
  WordOf,       \* the word of each item
  OwnerOf,      \* the learner who imports it
  Importer,     \* processes that prepare items
  Builder,      \* processes that build entries
  Stages,       \* the stages each of them builds
  Mortal,       \* bound: the processes that may die or raise
  MaxFaults,    \* bound: how often they do
  MaxOrders     \* bound: what administrators do

Item == 1 .. N
User == {OwnerOf[i] : i \in Item}
Queued == {"details", "audio", "embedding"}
Failed == {"details_failed", "audio_failed", "embedding_failed"}

ASSUME DictionaryAssumption ==
  /\ Core \subseteq Word
  /\ N \in Nat
  /\ WordOf \in [Item -> Word] /\ DOMAIN OwnerOf = Item
  /\ Stages \in [Builder -> SUBSET Queued]
  /\ MaxFaults \in Nat /\ MaxOrders \in Nat

VARIABLES
  entry,      \* user_dictionary_entry: the status of each word's row
  core,       \* dictionary_entry: the words of the common dictionary
  item,       \* user_vocabulary_import_item
  assigned,   \* user_word_assignment, of private words
  shared,     \* user_word_assignment, of common words
  dangling,   \* user_word_assignment, of private words whose entry is deleted
  prep,       \* what each importer is doing with an item
  build,      \* what each builder, or administrator, is doing with an entry
  due,        \* the entries each builder has listed besides, with the status listed
  missed,     \* words whose last step met a stale look, or never came
  overlap,    \* words two processes were building at once
  faults, orders
dictVars == <<entry, core, item, assigned, shared, dangling, prep, build, due, missed, overlap,
              faults, orders>>

EntryStatus == {"none", "ready", "rejected", "promoted"} \union Queued \union Failed
ItemStatus == {"absent", "pending", "existing", "refused", "waiting", "ready", "failed", "rejected"}
Assignment == {"none", "waiting", "available", "archived"}
Free == [item |-> 0, step |-> "none", status |-> "none"]
Idle == [word |-> "none", step |-> "none", status |-> "none"]

ItemRow == [status : ItemStatus, linked : BOOLEAN]
\* stray, orphan: about to assign or to mark an entry that is gone.
Doing == [item : Item, step : {"seek", "create", "assign", "mark", "stray", "orphan"},
          status : {"waiting", "available", "existing", "refused"}]
Making == [word : Word, step : {"write", "publish", "archive", "sync"},
           status : EntryStatus \ {"none"}]

DictionaryTypeOK ==
  /\ entry \in [Word -> EntryStatus]
  /\ core \subseteq Word
  /\ item \in [Item -> ItemRow]
  /\ assigned \in [User \X Word -> Assignment]
  /\ shared \in [User \X Word -> Assignment]
  /\ dangling \subseteq User \X Word
  /\ prep \in [Importer -> {Free} \union Doing]
  /\ build \in [Builder -> {Idle} \union Making]
  /\ due \in [Builder -> SUBSET (Word \X Queued)]
  /\ missed \subseteq Word /\ overlap \subseteq Word
  /\ faults \in 0 .. MaxFaults /\ orders \in 0 .. MaxOrders

DictInit ==
  /\ entry = [w \in Word |-> "none"]
  /\ core = Core
  /\ item = [i \in Item |-> [status |-> "absent", linked |-> FALSE]]
  /\ assigned = [uw \in User \X Word |-> "none"]
  /\ shared = [uw \in User \X Word |-> "none"]
  /\ dangling = {}
  /\ prep = [p \in Importer |-> Free]
  /\ build = [b \in Builder |-> Idle]
  /\ due = [b \in Builder |-> {}]
  /\ missed = {} /\ overlap = {} /\ faults = 0 /\ orders = 0

----------------------------------------------------------------------------
(* prepare_import_job_items, for one pending item. *)

Held(p) == WordOf[prep[p].item]

\* Two look-ups decide the transactions that follow: first the common
\* dictionary; a plan without smart import refuses a word it does not have.
Found(w) == IF w \in core THEN {<<"assign", "existing">>}
                          ELSE {<<"seek", "waiting">>, <<"mark", "refused">>}

Look(p, i) ==
  /\ prep[p] = Free
  /\ \E f \in Found(WordOf[i]) :
       prep' = [prep EXCEPT ![p] = [item |-> i, step |-> f[1], status |-> f[2]]]
  /\ UNCHANGED <<entry, core, item, assigned, shared, dangling, build, due, missed, overlap, faults, orders>>

\* Then the private one; a new word is refused when it has no part of speech
\* or the quota is used up.
FoundPrivate(w) ==
  CASE entry[w] = "none"  -> {<<"create", "waiting">>, <<"mark", "refused">>}
    [] entry[w] = "ready" -> {<<"assign", "available">>}
    [] OTHER              -> {<<"assign", "waiting">>}

Seek(p) ==
  /\ prep[p].step = "seek"
  /\ \E f \in FoundPrivate(Held(p)) :
       prep' = [prep EXCEPT ![p].step = f[1], ![p].status = f[2]]
  /\ UNCHANGED <<entry, core, item, assigned, shared, dangling, build, due, missed, overlap, faults, orders>>

\* create_entry; the word is unique, and whoever comes second raises.
Create(p) ==
  /\ prep[p].step = "create" /\ entry[Held(p)] = "none"
  /\ entry' = [entry EXCEPT ![Held(p)] = "details"]
  /\ prep' = [prep EXCEPT ![p].step = "assign"]
  /\ UNCHANGED <<core, item, assigned, shared, dangling, build, due, missed, overlap, faults, orders>>

Collides(p) == prep[p].step = "create" /\ entry[Held(p)] # "none"

\* _resolve_assignment_status.
Resolved(current, status) ==
  CASE current = "archived"                                  -> "archived"
    [] "available" \in {current, status}                     -> "available"
    [] OTHER                                                 -> "waiting"

\* A common word is assigned by two transactions, of which the second finds what
\* it would write; they are one step.
Assign(p) ==
  /\ prep[p].step = "assign"
  /\ LET uw == <<OwnerOf[prep[p].item], Held(p)>>
         status == IF prep[p].status = "waiting" THEN "waiting" ELSE "available"
     IN  IF prep[p].status = "existing"
           THEN shared' = [shared EXCEPT ![uw] = Resolved(@, status)] /\ UNCHANGED assigned
           ELSE assigned' = [assigned EXCEPT ![uw] = Resolved(@, status)] /\ UNCHANGED shared
  /\ prep' = [prep EXCEPT ![p].step = "mark"]
  /\ UNCHANGED <<entry, core, item, dangling, build, due, missed, overlap, faults, orders>>

\* Nothing in the table says that the entry of an assignment exists; it is not
\* the entry the word may have by now.
AssignStray(p) ==
  /\ prep[p].step = "stray"
  /\ dangling' = dangling \union {<<OwnerOf[prep[p].item], Held(p)>>}
  /\ prep' = [prep EXCEPT ![p].step = "orphan"]
  /\ UNCHANGED <<entry, core, item, assigned, shared, build, due, missed, overlap, faults, orders>>

\* A mutant: the item of a refused word is left waiting.
VerdictRefused == [waiting |-> "waiting", available |-> "ready", existing |-> "existing", refused |-> "waiting"]

\* mark_existing_word, mark_user_dictionary_entry, mark_rejected.
Verdict == [waiting |-> "waiting", available |-> "ready", existing |-> "existing", refused |-> "refused"]

Mark(p) ==
  /\ prep[p].step = "mark"
  /\ item' = [item EXCEPT ![prep[p].item] =
                [status |-> Verdict[prep[p].status],
                 linked |-> CASE prep[p].status = "existing" -> FALSE
                              [] prep[p].status = "refused"  -> @.linked
                              [] OTHER                       -> TRUE]]
  /\ prep' = [prep EXCEPT ![p] = Free]
  /\ UNCHANGED <<entry, core, assigned, shared, dangling, build, due, missed, overlap, faults, orders>>

\* The item refers to an entry, and that one is gone.
Orphaned(p) == prep[p].step = "orphan"

Drop(p) == prep' = [prep EXCEPT ![p] = Free]

----------------------------------------------------------------------------
(* The builders. *)

\* Two processes hold what they have read of an entry.
Holds(b, w) == build[b].word = w \/ \E status \in Queued : <<w, status>> \in due[b]
Met(b, W) == {w \in W : \E c \in Builder \ {b} : Holds(c, w)}

\* list_entries_by_status; the limit of a hundred is not reached.
ListEntries(b, status) ==
  /\ build[b] = Idle /\ due[b] = {} /\ status \in Stages[b]
  /\ LET listed == {w \in Word : entry[w] = status} IN
       /\ listed # {}
       /\ due' = [due EXCEPT ![b] = listed \X {status}]
       /\ overlap' = overlap \union Met(b, listed)
  /\ UNCHANGED <<entry, core, item, assigned, shared, dangling, prep, build, missed, faults, orders>>

Begin(b, w, status) ==
  build' = [build EXCEPT ![b] = [word |-> w, step |-> "write", status |-> status]]

\* The next entry of the list, as it was listed, and the calls of the providers.
Pick(b, w, status) ==
  /\ build[b] = Idle /\ <<w, status>> \in due[b]
  /\ Begin(b, w, status)
  /\ due' = [due EXCEPT ![b] = @ \ {<<w, status>>}]
  /\ UNCHANGED <<entry, core, item, assigned, shared, dangling, prep, missed, overlap, faults, orders>>

\* A mutant: any entry is built again.
OrderedAny(w) == {"details", "rejected"}

\* bulk actions of administrators: what failed is queued again (audio never
\* is), any entry can be rejected, a ready one promoted.
DetailsAgain(w)   == entry[w] = "details_failed"
EmbeddingAgain(w) == entry[w] \in {"embedding", "embedding_failed"}
Rejectable(w)     == entry[w] \notin {"none", "rejected"}
Promotable(w)     == entry[w] = "ready"

Ordered(w) == {status \in {"details", "embedding", "rejected", "promoted"} :
                 CASE status = "details"   -> DetailsAgain(w)
                   [] status = "embedding" -> EmbeddingAgain(w)
                   [] status = "rejected"  -> Rejectable(w)
                   [] status = "promoted"  -> Promotable(w)}

AdminPicks(b, w) ==
  /\ orders < MaxOrders /\ orders' = orders + 1
  /\ build[b] = Idle /\ Stages[b] = {}
  /\ \E status \in Ordered(w) : Begin(b, w, status)
  /\ overlap' = overlap \union Met(b, {w})
  /\ UNCHANGED <<entry, core, item, assigned, shared, dangling, prep, due, missed, faults>>

DetailsBuilt   == {"audio", "details_failed"}
AudioBuilt     == {"embedding", "audio_failed"}
EmbeddingBuilt == {"ready", "embedding_failed"}

\* A mutant: a failed embedding leaves the entry queued.
OutcomesRetry(b) ==
  CASE Stages[b] = {}                  -> {build[b].status}
    [] build[b].status = "details"     -> DetailsBuilt
    [] build[b].status = "audio"       -> AudioBuilt
    [] OTHER                           -> {"ready", "embedding"}

Outcomes(b) ==
  CASE Stages[b] = {}                  -> {build[b].status}
    [] build[b].status = "details"     -> DetailsBuilt
    [] build[b].status = "audio"       -> AudioBuilt
    [] OTHER                           -> EmbeddingBuilt

\* A mutant: the learners who wait are forgotten.
AfterWriteSync(status) == IF status = "rejected" THEN "archive" ELSE "sync"

AfterWrite(status) ==
  CASE status = "ready"    -> "publish"
    [] status = "rejected" -> "archive"
    [] OTHER               -> "sync"

\* The status is written whatever it has become.
Write(b) ==
  /\ build[b].step = "write" /\ build[b].status # "promoted"
  /\ \E status \in Outcomes(b) :
       /\ entry' = [entry EXCEPT ![build[b].word] = status]
       /\ build' = [build EXCEPT ![b].step = AfterWrite(status), ![b].status = status]
  /\ UNCHANGED <<core, item, assigned, shared, dangling, prep, due, missed, overlap, faults, orders>>

\* Someone has looked at w and not yet written what was seen.
Unsettled(w) == \E p \in Importer : prep[p] # Free /\ Held(p) = w /\ prep[p].step \notin {"seek", "create"}

\* mark_assignments_available_for_entry, archive_assignments_for_entry.
Publish(b) ==
  /\ build[b].step \in {"publish", "archive"}
  /\ assigned' = [uw \in User \X Word |->
       IF uw[2] = build[b].word
         THEN CASE build[b].step = "archive" /\ assigned[uw] # "none" -> "archived"
                [] build[b].step = "publish" /\ assigned[uw] = "waiting" -> "available"
                [] OTHER -> assigned[uw]
         ELSE assigned[uw]]
  /\ build' = [build EXCEPT ![b].step = "sync"]
  /\ missed' = IF Unsettled(build[b].word) THEN missed \union {build[b].word} ELSE missed
  /\ UNCHANGED <<entry, core, item, shared, dangling, prep, due, overlap, faults, orders>>

\* A mutant: the item takes the status of the entry.
ShownRaw(status) == status

Shown(status) ==
  CASE status = "ready"          -> "ready"
    [] status = "rejected"       -> "rejected"
    [] status \in Failed         -> "failed"
    [] OTHER                     -> "waiting"

\* sync_for_user_dictionary_entry.
Sync(b) ==
  /\ build[b].step = "sync"
  /\ item' = [i \in Item |-> IF item[i].linked /\ WordOf[i] = build[b].word
                               THEN [item[i] EXCEPT !.status = Shown(build[b].status)] ELSE item[i]]
  /\ build' = [build EXCEPT ![b] = Idle]
  /\ missed' = IF Unsettled(build[b].word) THEN missed \union {build[b].word} ELSE missed
  /\ UNCHANGED <<entry, core, assigned, shared, dangling, prep, due, overlap, faults, orders>>

\* _merge_assignment_status.
Merged(ours, theirs) ==
  CASE theirs = "none"                            -> ours
    [] "archived" \in {ours, theirs}              -> "archived"
    [] "available" \in {ours, theirs}             -> "available"
    [] OTHER                                      -> "waiting"

\* A mutant: only who may learn the word is taken along.
MovedAvailable(w) == {u \in User : assigned[<<u, w>>] = "available"}

Moved(w) == {u \in User : assigned[<<u, w>>] # "none"}

\* promote_user_dictionary_entry_to_core, whatever the entry has become: the
\* assignments and the items go over to the common word, the entry is deleted.
\* Whoever still works on it will find no row, but an importer does not look.
Promote(b) ==
  /\ build[b].step = "write" /\ build[b].status = "promoted"
  /\ LET w == build[b].word IN
       /\ entry' = [entry EXCEPT ![w] = "none"]
       /\ core' = core \union {w}
       /\ shared' = [uw \in User \X Word |->
            IF uw[2] = w /\ uw[1] \in Moved(w) THEN Merged(assigned[uw], shared[uw]) ELSE shared[uw]]
       /\ assigned' = [uw \in User \X Word |->
            IF uw[2] = w /\ uw[1] \in Moved(w) THEN "none" ELSE assigned[uw]]
       /\ item' = [i \in Item |-> IF WordOf[i] = w THEN [item[i] EXCEPT !.linked = FALSE] ELSE item[i]]
       /\ prep' = [p \in Importer |->
            IF prep[p] # Free /\ Held(p) = w /\ prep[p].status \in {"waiting", "available"}
              THEN [prep[p] EXCEPT !.step = CASE @ = "assign" -> "stray"
                                              [] @ = "mark"   -> "orphan"
                                              [] OTHER        -> @]
              ELSE prep[p]]
       /\ build' = [c \in Builder |-> IF build[c].word = w THEN Idle ELSE build[c]]
       /\ due' = [c \in Builder |-> {d \in due[c] : d[1] # w}]
       /\ missed' = IF Unsettled(w) THEN missed \union {w} ELSE missed
  /\ UNCHANGED <<dangling, overlap, faults, orders>>

\* The process dies, or a provider raises what is not caught: what it has read
\* is forgotten, what it has written stays.
BuilderFails(b) ==
  /\ build[b] # Idle \/ due[b] # {}
  /\ b \in Mortal /\ faults < MaxFaults /\ faults' = faults + 1
  /\ build' = [build EXCEPT ![b] = Idle]
  /\ due' = [due EXCEPT ![b] = {}]
  /\ missed' = IF build[b].step \in {"none", "write"} THEN missed ELSE missed \union {build[b].word}
  /\ UNCHANGED <<entry, core, item, assigned, shared, dangling, prep, overlap, orders>>

BuilderStep(b) ==
  \/ \E status \in Queued : ListEntries(b, status) \/ \E w \in Word : Pick(b, w, status)
  \/ \E w \in Word : AdminPicks(b, w)
  \/ Write(b) \/ Publish(b) \/ Sync(b) \/ Promote(b) \/ BuilderFails(b)

\* The phases are due again and again.
BuilderGoes(b) ==
  \/ \E status \in Queued : ListEntries(b, status) \/ \E w \in Word : Pick(b, w, status)
  \/ Write(b) \/ Publish(b) \/ Sync(b) \/ Promote(b)

----------------------------------------------------------------------------
\* Nobody waits for a word that is ready or common, unless its last step met
\* somebody who had looked before it, or the builder died before it (nothing
\* looks for such learners again: mark_assignments_available_for_entry runs once).
NobodyWaitsForAReadyWord ==
  \A u \in User, w \in Word :
    /\ (entry[w] = "ready" /\ assigned[<<u, w>>] = "waiting") =>
         w \in missed \/ \E b \in Builder : build[b].word = w /\ build[b].step = "publish"
    /\ shared[<<u, w>>] = "waiting" => w \in missed \union overlap

\* An assignment is of a word that exists, also after a promotion has deleted
\* its entry, unless an importer was about to assign it: no key of the table
\* protects user_word_assignment.word_id.
AssignedWordsExist ==
  \A u \in User, w \in Word :
    /\ assigned[<<u, w>>] # "none" => entry[w] # "none"
    /\ <<u, w>> \in dangling => w \in missed
    /\ shared[<<u, w>>] # "none" => w \in core

\* What an item shows its owner is the state of its word, once nobody is at
\* it; but an item whose word had failed or was rejected before it came waits.
AtRest(w) == (\A p \in Importer : prep[p] = Free \/ Held(p) # w)
             /\ (\A b \in Builder : build[b].word # w)
ItemsShowTheirWord ==
  \A i \in Item :
    (AtRest(WordOf[i]) /\ WordOf[i] \notin missed \union overlap) =>
      /\ item[i].linked =>
           \/ item[i].status \in {Shown(entry[WordOf[i]]), "refused"}
           \/ item[i].status = "waiting" /\ entry[WordOf[i]] # "ready"
      /\ item[i].status = "waiting" => item[i].linked

\* A word that is ready stays so until it is rejected or promoted, and a
\* rejected one for good, if it was never built by two at once: what a slow
\* builder writes over is gone, and a rejection may be met by a promotion.
FinalKept ==
  \A w \in Word :
    (entry[w] \in {"ready", "rejected"} /\ entry'[w] # entry[w]) =>
      \/ w \in overlap
      \/ entry[w] = "ready" /\ entry'[w] \in {"rejected", "none"}
FinalStays == [][FinalKept]_dictVars

=============================================================================
