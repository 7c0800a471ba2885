# CronoLex: a TLA+ model of the backend

CronoLex is an English-learning service: a FastAPI backend, a Telegram bot, a
client web application and an admin web application over one PostgreSQL
database.  This directory holds TLA+ modules translated from the Python code
under `src/app`, TLC configurations that check them on small instances, and
proofs that the TLA+ proof system checks for every instance.

Paths below are relative to the repository's root.

## 1. The system

### Processes

| process | entry point | what it does |
|---|---|---|
| app-api | `app/api` | request handlers in a thread pool: checkout, webhook, learning screens, admin |
| app-bot | `app/bot_runtime` | long polling, message delivery and clean-up, delivery of queued notifications |
| app-billing-reconciliation | `app/billing_reconciliation_worker_main.py` | one loop: poll payments, recover, fetch receipts, recheck |
| app-subscription-maintenance | `app/subscription_maintenance_worker_main.py` | one loop: downgrade expired plans, close trials |
| app-import-scheduler, embedding, rescan and Google-document workers | `app/*_worker_main.py` | claim and process import work |

All of them share the database.  Every repository call opens a session of its
own and commits when it returns (`app/orm.py:66-77`) at PostgreSQL's default
isolation, READ COMMITTED.  There are no locks between processes: the
`DispatchLock` of the schedulers (`app/application/dispatch_lock.py`) grants
itself to everybody.  So a *transaction* is the unit of atomicity, and an
operation of a service is a sequence of transactions between which any other
process may run, or after which the process may die.

### Components, their state and what makes them correct

| component | state | operations | hard behaviour | correct when |
|---|---|---|---|---|
| Billing payments | `billing_payment`, `billing_subscription_purchase`, `billing_bot_notification`, runtime state of the worker | checkout, webhook, client poll, worker poll, recovery, recheck | several processes apply provider statuses on rows they read earlier; four transactions per status; crashes | access follows captured money, each half at most once; captured money is honoured in the end |
| Subscription ledger | purchase periods, `user_subscription`, frozen quotes | quote, apply, reverse, project, daily maintenance, admin plan change | read-then-write under READ COMMITTED, projection overwritten by maintenance | a paid plan is backed by an active purchase; periods stack; a paid period is shown in the end |
| Receipts and bot notifications | receipt rows, delivery claims | claim, send, mark, retry, admin alert | send between two transactions, claim timeouts, retries | nothing queued is lost; a result that was sent is not sent for another |
| Learning sessions | session row (stage, queue, position), session words, word progress | start, card actions, quiz answers, stage change, completion | taps and answers served concurrently by bot and web on a row read earlier | every word is answered correctly in every exercise before completion |
| User import | jobs, items, entries, Google-document claims, rescan tasks | intake, claim, prepare, build details, audio, embedding, notify | claims with leases, retries with back-off, several workers | a claimed item ends, a word is imported once |
| User dictionary | private and core entries, assignments, progress | assign, publish, merge | merge of private into core entries | no assignment points nowhere |
| Reminders | schedules, `training_schedule` | ensure, claim due, act, skip | marked sent before it is sent | at most one reminder per slot |
| Teacher and student links | links, groups, meetings | assign, move, archive | read-then-write of the one active link | one active teacher per student |
| Client and admin sign-in | OTP challenges, magic links, sessions | create, verify, consume | verify and consume are two transactions | a secret opens one session |
| Bot runtime | message log, screens | deliver, track, clean up | Telegram call between two transactions | one live screen per chat |
| Admin, TTS/AI providers, embeddings, front ends, migrations | | CRUD, I/O, rendering | | not modelled |

## 2. Modules

Six families, each with a specification (and, where it has its own module, an
extension for what happens in the end), a small instance for TLC and a module of
proofs.

| module | models |
|---|---|
| `PaidAccess` | the abstract promise of billing about one purchase |
| `BillingPayments` | a payment over all the processes that move it |
| `BillingPaymentRaces` | the same, with auxiliary variables that mark overtakings and deaths |
| `BillingPaymentsProgress` | the same, with faults that cease, and fairness |
| `BillingPaymentsProofs` | type correctness, the truth of news, the refinement of `PaidAccess` |
| `BillingPaymentRacesProofs` | where ledger, status and notifications of a payment agree |
| `SubscriptionLedger` | quotes, purchased periods and the plan of one customer, transaction by transaction |
| `SubscriptionLedgerRaces` | which of the overlapping transactions were overtaken, and what the others leave true |
| `SubscriptionLedgerProgress` | what recovery mends after races and expiry |
| `SubscriptionLedgerProofs` | type correctness, soundness of grants, finality of purchases; the row and the ledger under any overlap |
| `Lesson` | the abstract promise of a lesson |
| `LearningSession` | a lesson, its words and their reviews, tap by tap and transaction by transaction |
| `LearningSessionProgress` | the same, with fairness |
| `LearningSessionProofs` | type correctness for any number of handlers; for one, the refinement of `Lesson` and the reviews |
| `BillingDelivery` | three outboxes, the claims of their rows, the bot and Telegram |
| `BillingDeliveryProofs` | type correctness, faithfulness of the records, finality of a delivery |
| `ReceiptRetrieval` | attempts to fetch the fiscal check of a paid order |
| `BillingMessages` | delivery and retrieval in one specification, with fairness |
| `ReceiptRetrievalProofs` | type correctness, one check or one alert, the composition keeps both halves |
| `UserDictionary` | private words from their creation by an import to their promotion |
| `UserImport` | the jobs that carry words into it: a composition with `UserDictionary` |
| `UserImportProofs` | type correctness, who is forgotten, which words exist, what a summary says and an item shows |
| `Reminders` | the schedule of a learner's trainings, the polls that mark it, the bot that shows it |
| `Trainings` | the lessons that a reminder, the menu or the web begins and others end: a composition with `Reminders` |
| `TrainingsProofs` | type correctness, one lesson, reminders once, what is ended or closed stays so |
| `MC*` | small instances for TLC |

`PROJECT.json` maps each definition to its lines.  A definition whose comment
begins with "Mutant" or "A mutant" is a plausible bug: it takes the place of the
definition that follows it to show that a property notices.

### Common conventions

* **One action per transaction.**  A process has a program counter (`job[w].pc`
  or `job[w].tx`) and the rows it has read.  An action is one call of a repository
  (one commit) or one call of a provider.  Reads that nothing separates from the
  following write are in its action; reads that are used later are kept in `job`
  and may be stale.  In `SubscriptionLedger` transactions are cut further, between
  the reads and the writes of one transaction, because READ COMMITTED lets others
  commit there.
* **Faults.**  `Abort`, `Crash` and `Rollback` end a process at any point and keep
  what is committed; `ReconRestarts` loses the worker's batch.
* **Processes.**  `Handler` is the thread pool of app-api (and, for the
  lessons, of the bot's calls); `Recon` is the one reconciliation worker.

### `BillingPayments`

| state | code |
|---|---|
| `payment` | `billing_payment`: status, whether `invoice_id` is set, `paid_at`, the recheck stamp |
| `purchase` | status of `billing_subscription_purchase`, by payment |
| `notified` | rows of `billing_bot_notification` of type `terminal_status` |
| `provider`, `captured` | the payment provider (environment) |
| `job`, `batch`, `phase` | where each process is; the rows the worker listed |
| `lastRun`, `runTime` | `app_runtime_state` of the success recheck |

Checkout is `Checkout`, `CreateInvoice`, `MarkInvoiceCreated` (or
`InvoiceRefused`); `Webhook`, `ClientPoll` and `TakeFromBatch` take up a payment
with the status it had when it was read, and the common procedure
(`apply_provider_status_payload`) is `Fetch`, `IgnoreStatus`/`WriteStatus`,
`ApplyPurchase`/`ReversePurchase`, `NotifyCustomer`, `MarkRechecked`.  The worker's
tick is `ListNonTerminal`, `ListToRecover`/`SkipRecovery`, `ListToRecheck`,
`EndTick`.  The provider may answer late with the stage before the present one,
which the code expects and tests.

`PaidAccess` is implemented with `money` read off `provider` and `captured` and
`access` read off `purchase`.

### `SubscriptionLedger`

One customer (each query is by user), a month per tick.  `payment` carries the
quote frozen at checkout, `purchase` the period, `subscription` the row the
paywall reads.  `BeginApply`/`BeginReverse` insert or change the purchase
uncommitted, `Project` reads the rows that are committed at that moment and its
own, `Commit` writes the columns that differ from the row as loaded.
`BeginExpire` is the maintenance worker and `BeginRecover` the recovery, which run on
the threads of `Background`; everything else begins on those of `Handler`.
`BeginSelectFree` is the check of a customer who confirms the free plan, `SelectFree`
the load of `set_plan_for_user`, a transaction of its own; `BeginAdminPlan` is the
same load for an administrator.  Both commit like the others, column by column.
`inserted` orders the rows as their ids do, for the tie-break of the projection.

Nothing locks the row between a transaction's look and its commit.
`SubscriptionLedgerRaces` adds two auxiliary variables: `stale` holds the workers
whose transaction looked before another one changed a row (for `select_plan` the look
is its check), and `tainted` says that the last commit was stale or an administrator's.
`CommitRaces` is `Commit` with these marks, `OtherRaces` everything else.

### `LearningSession`

| state | code |
|---|---|
| `session` | the `learning_session` row: status, type, and its `place` (`current_stage`, `stage_queue_json`, `stage_position`) |
| `words` | `learning_session_word`: the word, card status, attempts and last result by exercise |
| `progress` | `user_word_assignment`: `learning_state`, `review_stage`, `control_success_streak` |
| `job` | a handler: the row it read, the tap, what it has read since, what it will write |

Every tap begins with the row it reads (`Serving`).  Cards: `CardBack`,
`CardQuiz`, `CardSorted` then `Mark`, `Know`, `Choose`, `Replace`, `Save`.  Exercises:
`ReadyYes`, `StartQuiz`, `AnswerTap`, `ReadWord`, `Record`, `Weigh`, `Review`, `Save`.
The bot then renders (`Refresh`, `Render`), a web handler reads the state it
returns (`ShowExercise`); both may move the lesson on (`LeavesQuiz`), and its end
is `Finalize`, the `Save` of the summary, `Complete`.  What a handler saves it has
computed from the row read at the beginning.  A save is two steps: `Load`s the row
afresh, and `Save`s the columns that differ from what was loaded, as the ORM does; when
another handler has saved in between, columns of both remain, which
`session.mixed` (auxiliary) records.  Whether a review is due is left to the clock
(`MayBeControlReview`).  `LateCards` says whether a card may be tapped while the
lesson is in its exercises: the screens of the bot delete the card, so a lesson is
checked with `FALSE`; the proof of the type invariant covers both.

`Lesson` is implemented with the words still to ask read off the queue.

### `BillingDelivery`

| state | code |
|---|---|
| `row` | status of a `billing_bot_notification`, a receipt's delivery or an alert's, with "claimed ten minutes ago" for the timestamp of the claim |
| `earlier` | which of two alerts was updated before the other (`billing_receipt.updated`, by which alerts are claimed: one that failed goes behind the others) |
| `call` | a poll in the API: which of the three claims is next, the claimed rows it has yet to build, the messages it will answer with |
| `bot` | the bot's loop: asleep, waiting for an answer, sending, waiting for a result to be saved |
| `acks` | results on their way to the API; `late` if the bot has stopped waiting for it |
| `told`, `again` | what the chats have been shown, and shown twice (environment) |
| `tainted` | rows of which a result was lost, late or false (auxiliary) |

A poll is `Ask`, three times `Claim` and `Build`s (or `BuildFails`), then
`Answer`; the bot then takes message by message, oldest kind first: `Send`,
`SendFails` or `SendTimesOut`, and `HandleAck` saves the result.  `Unreachable` is
a row whose payer or superadmin has no chat.  Faults are an exception in
the API or its death (`ApiFails`), an error or a timeout of Telegram, a bot that
stops, and a result that arrives late or never.  Rows appear by `Enqueue`, which
is the terminal status of `BillingPayments` (`NotifyCustomer`), a check of
`ReceiptRetrieval` (`Fetched` with "done") or its last attempt in vain.

### `ReceiptRetrieval`

`rows` are the attempts of each payment in the table of receipts, `proc` what a
process fetches and the number it read for its attempt, `batch` the payments the
worker has listed.  `raced` and `extra` mark payments fetched for by two at once,
or by a request after the last attempt.  `BillingMessages` runs either half: they share
no process, and the row that leads from one to the other is one that `Enqueue`s.

### `UserDictionary` and `UserImport`

| state | code |
|---|---|
| `entry` | `user_dictionary_entry.status` by word; "none" is no row |
| `core` | words of `dictionary_entry` |
| `item` | status of a `user_vocabulary_import_item`, and whether it refers to an entry |
| `assigned`, `shared` | `user_word_assignment` by user, of private and of common words |
| `dangling` | `user_word_assignment` of private words whose entry has been deleted |
| `prep` | the importer's place in `prepare_import_job_items` and what its look-ups said |
| `build` | a builder's or administrator's place with an entry, and the status it has read or will write |
| `due` | the entries a builder has listed and not begun, with the status it listed them for |
| `job` | `user_vocabulary_import_job`: status, whether its lease runs, whether its summary is sent |
| `listed` | the jobs a poll has listed for their summary and not marked yet |
| `proc` | an importer's duty (web request, document, bind, claimed job), its job, the items it has listed, the jobs it has claimed besides |
| `missed`, `overlap` | words whose last step met somebody with a stale look or never came; words two were building at once (auxiliary) |
| `crew` | which processes run in this behaviour (bound) |

An item is prepared by `Look`, `Seek`, `Create`, `Assign`, `Mark`, each a
transaction; entries are listed by `ListEntries`, all of a status at once, and each is
built by `Pick`, `Write`, `Publish`, `Sync`.  Neither
looks again at what it read.  Administrators queue an entry again, reject it
(`AdminPicks`, then `Write`, `Publish`, `Sync`) or promote it (`Promote`, one
transaction that deletes the entry).  Who held the id of a promoted entry
fails later: a builder's update finds no row, an importer still inserts
its assignment (`AssignStray`), for no foreign key forbids it, and fails at the item,
where one does.  A common word is assigned by two transactions, the second of which
finds what it would write; they are one `Assign`.
`UserImport` adds how the jobs come and end.  A web job is `CreateEmpty`,
`MarkProcessing`, `Append` and a preparation after each batch; a document's is
`CreateWhole`; a poller's is `Claim`, the others of the batch waiting in `more`.  A job
closed as completed may still fail (`CompleteThenRaises`: the log of a claimed job, the
document of a web request).  Summaries are listed (`ListSummaries`) and marked one by one
(`Summarise`), whatever the job has become.

### `Reminders` and `Trainings`

| state | code |
|---|---|
| `enabled` | `user_reminder_schedule`: the times of daily reminders |
| `status` | `training_schedule.status` by kind, time and copy (no index forbids a second row of a slot); "absent" is no row |
| `lesson` | `learning_session`: status and the interface that owns it; "finished" is a completed one whose summary was closed (`current_stage`) |
| `job` | a request: the poll, the summary or the start it serves, and what it has read |
| `bot` | the loop of reminders: the poll it waits for, the reminders it has yet to send |
| `shown`, `again`, `lost` | what the chat has been shown, shown twice, and what was marked for a poll or round that broke down (environment) |
| `crowded`, `snatched`, `crossing`, `swept` | rows and lessons that two requests were at (auxiliary) |

A poll is `BotAsks`, `Fill` (the insert of `ensure_daily`, whose reads are in the step
before), `Select`, `Mark`, `Answer`; the bot then `Show`s one by one, and `BotFails`
is an exception that ends the round.  The summary of a lesson fills the slots too (`Summary`,
after `Finish` or `Resume`); the one after a plan does not: `planning_service.py` asks for it
without a chat and is given the menu.  A plan is `Plan` and `Replace`, the reads and the
writes of one transaction (`create_or_replace`).  A start is
`Start`, `CompleteDue`, `LookActive`, `Cancel`, `Create` and, by its origin, `Started`
or `ClaimStarted`; the last answer of a lesson is `LastAnswer` and `Finish`.  Times
are a few points with the day of each; now lies just after the clock.  What happens
within a lesson is `LearningSession`'s.

## 3. Runs

All instances are exhaustive within their bounds.

| run | question | bounds |
|---|---|---|
| `billing_races` | is access granted only for captured money, is what customers are told true, and where may ledger, status and notification disagree? | one payment, two handlers and the worker, faults anywhere |
| `billing_progress` | is captured money noticed and honoured? | one payment, two days, faults that cease |
| `billing_regress` | does a success ever regress? (violated) | one payment, one handler and the worker |
| `ledger_races` | are grants final, and what may overlapping transactions do to the row? | two payments, two workers that run any transaction, both plans, an administrator who grants the free plan, two months |
| `ledger_progress` | is a paid plan shown in the end, at a border of two periods too? | two payments of one plan, a handler and a background worker, three months |
| `ledger_horizon` | does a renewal start after all paid time? (violated) | three payments, one worker |
| `ledger_revoked` | does a reversal revoke the plan? (violated) | two payments, two workers |
| `learning_lesson` | is every word answered right before the end, reviewed as it went, once, and does the lesson end? | two words and one in reserve, one handler, wrong answers in the last two exercises, one crash |
| `learning_stale_answer` | is a stale answer ignored? (violated) | the same, no crash |
| `messages` | is what the tables say of a message what the chat was shown, is everybody told in the end, and does an order get one check, or one alert? | four rows of three kinds (an alert for nobody before an alert for two chats), two polls at once, batches of one, one fault; two orders, a request and the worker, two attempts, a list of one, one failure |
| `trainings` | does a learner stay in one lesson that ends once, and is each reminder shown, once, until it is closed? | three times on two days, one daily and two planned slots, two rows of each, two threads, three lessons, two taps or faults |
| `user_import` | does every job end with all its items decided, and is anyone forgotten who waits for a word? | one word, two learners, a web job and a document, two sets of processes, one fault, one order of an administrator |

Why the bounds are enough.

* *One payment.*  The transactions of the payment procedure are by payment id;
  two payments meet only in the worker's batch (a fault in one does not stop the
  others; the model lists and visits any set) and in the ledger, which is
  `SubscriptionLedger` with two and three payments.
* *Two handlers.*  The hazards are a stale read overtaken by a write: two
  processes that fetched, and one that wrote between.  The proofs cover any number.
* *Statuses.*  A success and a reversal, for no branch of the code tells the
  returning statuses apart.  The days of `billing_progress` are what recovery
  ("today") and recheck (a window and an interval) count.
* *Two payments in the ledger* give a renewal or an upgrade, and a reversal that falls
  back to another purchase; the third of `ledger_horizon` is a second renewal.  With
  one tick a first period ends where its renewal begins; with two, the renewal ends as
  well, and time may stop at either border.  `ledger_races` ends its time at the first,
  and its administrator grants the free plan only: the proofs have no bound on either.
  `ledger_progress` keeps one plan and one worker of each kind, and `p1` is the payment
  ordered first, for liveness allows no symmetry.
* *Two words* give a queue in which a word comes back behind another; attempts
  are bounded by `MaxWrong`, which by the exercises gives a word that is wrong in
  the second, in the last, in both, in neither.  The first exercise takes the same
  path as the second.  A reserve word can replace a known one.  One crash reaches
  each point between two transactions; the proof of the type invariant allows any
  number.
* *Delivery.*  Two polls overlap when the bot gives up one and asks again; a third
  adds nothing the claims tell apart.  The API's threads are alike: the first idle one
  serves a poll.  A batch of one is enough for an alert that fails for ever to stand
  before another; a receipt that does crowds out the next one, which
  `ReachableIsTold` says.  With one fault the run sees each failure
  alone; the proofs allow any number of rows, chats, threads and faults.
* *One word* is checked in an import: the items of different words meet only in the list of
  a job, and entries only in the list of a builder, which the proofs have at any length
  (`ListsAreFresh` is about the second of two stale entries of a list).  Two learners who want it
  are two importers at once.  The sets of processes keep the run small: a web
  request against the scheduler (two importers), and the API, which binds and
  polls in one process, against a builder and an administrator; the proofs allow all
  of them at once.
* *Retrieval.*  Two attempts make a last one and one before it; a list of one is what
  crowds the second order out.
* *Two taps or faults* are enough for each exception the properties of trainings make:
  two starts that cross, two plans that cross, a start across a last answer, a tap across
  a poll, a poll that dies and one that comes later.  A learner may begin in the middle of a lesson of
  either client.  Polls, the rows they fill and the clock are not counted.
* `CHECK_DEADLOCK FALSE` stands in the runs of the ledger's progress, the lessons,
  the messages, the import and the trainings: a clock at its bound, a lesson that
  is over, or an outbox without a row, may stop.

### Fairness

* *Billing.*  The worker loops for ever and whoever holds a payment runs on (weak
  fairness of `ReconStep` and `WorkerStep`); recovery has an interval of its own,
  so it is due in infinitely many ticks, not in each (strong fairness of
  `ListToRecover`); a provider asked again and again answers with the present
  status (strong fairness of `FetchFresh(Recon)`).  Faults happen any number of
  times and then cease (`calm`): with a worker killed in every tick nothing can be
  promised.  Nothing is assumed of handlers' new requests, of customers or of
  webhooks.
* *Ledger.*  A transaction that has begun ends, and recovery takes up what its
  query lists again and again (`process_due_internal_recovery` visits the whole
  list in every interval).
* *Lessons.*  A request that was begun goes on (weak fairness of `Step`); the
  learner keeps going to the exercises, saying yes, answering right and
  asking for the screen in the bot (strong fairness: other taps may come between).
  Wrong answers and crashes are bounded.  Without a tap in the bot a web learner can be stuck (a hazard in
  `PROJECT.json`).
* *Delivery.*  The bot polls for ever, a request that the API serves goes on, ten
  minutes pass (weak fairness of `BotStep`, `ApiStep`, `LeaseRunsOut`, `HandleAck` or `LoseAck`); a result is
  saved or lost.  Faults are bounded by `MaxFaults`.
* *Receipts.*  The worker lists and visits, a fetch ends (it has a timeout), a delay
  passes (weak fairness of `List`, of a visit, of each process's fetch and of delays).
  Nothing is assumed of requests.
* *Trainings.*  The bot polls in a loop and sends what it is given, a request that the
  API serves goes on, and time passes (weak fairness of `Polled`, `Reminded`, `Goes`,
  `Passes`).  Nothing is assumed of the learner.
* *Imports.*  An importer or builder that lives goes on, and pollers and phases are due
  again and again (weak fairness of each); a lease ends.  Nothing is assumed of
  administrators, of new web requests or of documents.

## 4. What the checks and proofs show

### Properties

* `KeepsPromise`: whatever the processes remember and whenever they die, access is
  granted at most once, only for captured money, revoked only for returned money,
  never revived.
* `NotifiedOnlyTheTruth`: nobody is told of a result the provider never reported.
* `LedgerAgreesUnlessRaced`, `TerminalIsNotified`: the exact list of the
  interleavings after which ledger and status, or status and notification, differ.
* `CaptureIsNoticed`, `SuccessIsHonouredToday`: polling finds each success, and a
  success without its purchase gets it, until midnight or until overwritten: recovery selects
  what was paid *today*.
* `PurchaseIsFinal`, `GrantsAreSound`: the unique index on `payment_id` makes every
  grant final under READ COMMITTED.
* `RowMirrorsLedger`, `NeverFreeBeforePeriodEnd`: what projection guarantees however
  transactions overlap, with the overtaken ones and an administrator's as the only
  exceptions; `PaidPlanIsProjected`: what is left in the end.  The
  second speaks of the moment a transaction took as its now: every query of it
  uses that one, so a plan that ends while the transaction runs is not covered for it.
* `LessonKept`, `ReviewMatchesAnswers`, `RisesOnce`, `LessonEnds`: for one handler, a
  dying request loses no word, reviews no word twice and leaves no dead end but one:
  between the summary and the status of `complete_session`, where the row stays active
  (`LeftAtSummary`).
* `RecordIsFaithful`, `SentStays`: however many polls claim at once, a row says "sent"
  exactly when its message was shown, and once, except where a result was lost, late or
  false; receipts and alerts keep "sent" even then, notifications do not.
* `ReachableIsTold`: every fault costs at most a lease, but for two
  exceptions the code makes: a notification marked failed is not tried
  again, and a batch of older rows that fail for ever keeps newer receipts out.
* `OneCheckOrOneAlert`, `EveryCheckIsSettled`: what unlimited
  attempts of requests do to the worker's budget, and its list's crowding.
* `NobodyWaitsForAReadyWord`, `ItemsShowTheirWord`, `AssignedWordsExist`: without any
  claim on an entry, the exact list of the overtakings after which a learner is
  forgotten, an item shows an old state, or an assignment is of a deleted word.
* `FinalStays`: "ready" and "rejected" are only lost to two builders at once.
* `SummaryIsWhole`, `JobEnds`, `WaitingEnds`: leases that run out, workers that overlap
  and exceptions half-way leave no job open and no item undecided; the exception is a
  web job, which a poller may meet half filled (`mark_processing` writes a lease
  that is over).
* `OneLesson`, `EndedStays`: cancelling and creating are two transactions; the exact list of
  the crossings after which a learner is in two lessons, or a lesson ends twice.
* `RemindedOnce`, `ClosedStays`: nothing makes a slot unique or a mark conditional; the
  exact list of the overlaps after which a slot has two rows, a day two open trainings of a
  kind, or a closed reminder comes again.  Polls may overlap too, but the bot waits for
  one at a time: no reminder is shown twice.
* `DueIsShown`: again and again every training that is due has been shown or closed,
  however late the poll, but for what was marked for a poll or a round that failed:
  rows are marked before they are sent, and nothing marks them back.

### Findings

Four runs look for a counterexample to what a test of the repository says, and find it.

1. `billing_regress`: `should_ignore_provider_status` judges the row that was read
   before the provider was asked, and the write is unconditional: a slow
   "processing" replaces a "success".
2. `ledger_horizon`: a renewal bought in advance is quoted from the projected row,
   not from the end of all paid time, so two bought months overlap.
3. `ledger_revoked`: a grant that overlaps with a reversal writes the revoked plan
   back, and recovery does not look at reversed purchases.
4. `learning_stale_answer`: the screen after a stale answer is rendered from a row
   without the Telegram user id, and raises.

### Proofs

All are of the specifications without fairness, for every value of the constants
that satisfies the assumptions named in the modules (`BillingAssumption`,
`NoStatusAssumption`, `OutcomeAssumption`, `LedgerAssumption`,
`LearningAssumption`, `DeliveryAssumption`, `DictionaryAssumption`,
`ImportAssumption`, `RemindersAssumption`, `TrainingsAssumption`,
`RetrievalAssumption`).  These say that the bounds are natural numbers, that `None`
is none of the values, that the offered months are positive, that a lesson has
at least one word, no word twice and an assignment for each, that a notification has
one chat, that items, words, jobs and duties belong together, and that slots are
times and threads numbers.

* **Billing.**  `BillingTypeCorrect` is inductive alone.  `NotifiedOnlyTheTruth` is
  not: a notification is written from what a job remembers, a job from what a
  batch remembers, a batch from a row.  `NewsIsTrue` says of each of these that it
  once was true and, because a returning status of the provider is final and
  captured money stays captured, still is.  `NewsAlwaysTrue` proves it with one
  lemma per group of actions; `NotifiedTruth` follows, and `PromiseKept` proves the
  refinement of `PaidAccess`: under `NewsIsTrue`, `ApplyPurchase` is `Grant` or a
  stutter, `ReversePurchase` is `Revoke` or a stutter, steps of the provider are
  `Capture` and `Return`.
* **Races.**  `LedgerAgreesUnlessRaced` and `TerminalIsNotified` speak of payments
  nobody is working on; `RaceInv` says what holds while somebody is.  A checkout owns its
  row, and whoever takes up a payment later finds one with an invoice (`CheckoutsAreNew`).
  A success without a purchase has a process on its way to grant it, an active
  purchase of a payment that ended otherwise one on its way to revoke it, and nobody
  is on the way to revoke a success (`LedgerFollows`, of payments not raced).  Every terminal status in a row,
  in what a process has read, or in a list still to be visited, is told, or a process is
  on its way to tell it (`NewsIsAnnounced`): this is what makes a later poll, which finds the
  status terminal and tells nothing, harmless.  Each step that could break one of these
  is a mark of `raced` or `dropped`.  `LedgerAgrees` and `TerminalNotified` follow,
  with no bound on payments, processes or time.
* **Ledger.**  The finality of purchases needs to know that an uncommitted row
  belongs to a payment without a committed one, and that only one transaction
  holds such a row: `GrantsAreSound`, inductive together with `LedgerTypeOK`
  (which includes that no period is empty).  `LedgerTypeCorrect`,
  `GrantsAlwaysSound` and `PurchasesAreFinal` follow from one induction.
  `RowMirrors` and `NeverFreeEarly` are theorems of `SubscriptionLedgerRaces`, for any
  workers, administrators, plans and months.  `RaceInv` says that an untainted row
  mirrors an active purchase, and that what a transaction that is not stale has read is
  still so (`LookHolds`): its write is the difference from the present row, mirrors a
  purchase that is active in its view, and is free only if no purchase covers its
  moment or the period on the row is over.  A commit that changes a row makes every
  transaction that has looked stale, so those that are not keep what they read;
  `OnlyPaidPlans` (nobody pays for the free plan) tells a projected plan from a fall to
  free.
* **Lessons.**  That a place of the session is one that exists is not inductive by
  itself, since handlers write what they read long before: `LearningTypeOK`
  includes `JobOK` (in `Sound`), which says it of every place a handler remembers and of the
  position it has checked.  `LearningTypeCorrect` holds for any number of handlers,
  however they interleave, up to a save that mixes columns (`session.mixed`): from
  there on it promises nothing.  For one handler, with cards tapped at the card stage only
  (`Alone`), `LessonInv` says that what the handler has read is still there
  when it writes (`Follows`, one clause for each point between two transactions at which a
  request may die), that a word not asked yet has not risen (`WordsSound`), that
  no answer is there before the first exercise (`CardsFirst`) and that the answers of
  each word that has left the last queue tell its review (`AnsweredTell`).
  `LessonImplemented` proves the refinement: an answer is a right or wrong answer of `Lesson`,
  the save of the session its move to the next exercise, and all other transactions stutter.
* **Delivery.**  `RecordIsFaithful` speaks of rows at rest; in between, a claimed row's
  message is in exactly one place: to be built, in a reply, in the bot's batch, or
  as a result under way.  `DeliveryInv` says which, for each status (`AcksAreTrue`,
  `RowsAreTrue`), and that these places do not overlap for a row that is not tainted
  (`BatchIsFresh`, `PollIsFresh`): a lease may run out and
  another poll claim the row, and this is where two copies come from.
  `RecordsAreFaithful` and `SentIsFinal` follow from it.
* **Receipts.**  `OneCheckOrOneAlert` needs that a process that fetches has looked at rows nobody
  has added to since (`FetchesAreFresh`), unless the order is raced; that a next count
  exists at all is an argument of cardinality over the list (`CountsGoOn`).
  `HalvesAreKept` shows that the composition with the delivery implements both parts.
* **Imports.**  `NobodyWaitsForAReadyWord` is not inductive: an importer holds a look at
  the entry while others write.  `WordInv` says of every look that the entry was
  as seen or that someone who will pass by (a builder about to publish) or has
  passed by (`missed`) accounts for the difference (`StaleLooksAreSeen`,
  `OverlapsAreSeen`, `ListsAreFresh`, `PicksAreFresh`, `AssignsExist`).  `JobInv` says that an importer
  about to complete a document's job has seen no pending item, and that none comes
  back (`WholeIsClosed`, `ListIsWhole`, `JobsExist`, `WebAppends`).  `FinalWordsStay` uses
  both: a write over a ready word is by a builder that `overlap` knows.  `ItemsShow` needs
  `ShowInv`: an item that does not show the state of its entry has a writer on its way, a builder
  or an importer whose look is still true, unless `missed` or `overlap` knows.
* **Trainings.**  `OneLesson` needs `StartsHaveSwept`: a start that is about to cancel
  has read every active lesson but those created across it, and one about to create
  leaves none.  `EndedStays` needs `EndsAreTrue`: what a start or a last answer will end has
  not been ended the other way, unless `swept` knows.  `RemindedOnce` and `ClosedStays` need
  `RemindersInv`: what a poll will mark is still pending (`MarksAreDue`), what was
  marked never is again (`Told`), what the poll the bot waits for has read was not shown
  (`NeverTwice`), a slot about to be filled is empty (`SlotsAreFree`), and a plan has read what
  it replaces (`PlansKnow`), except where two requests were at it.  `OneLessonHolds`,
  `EndedStaysEnded`, `RemindedOnceHolds` and `ClosedStaysClosed` follow from the two
  inductions, which share only the types.

### Only model-checked

The properties of progress (`CaptureIsNoticed`, `SuccessIsHonouredToday`,
`PaidPlanIsProjected`, `LessonEnds`, `ReachableIsTold`, `EveryCheckIsSettled`, `JobEnds`,
`WaitingEnds`, `DueIsShown`): liveness and ENABLED are out of the prover's reach.
Every safety invariant and action property that a passing run checks is also a theorem.

Some of them are theorems of less than the whole specification:
`LessonKept`, `ReviewMatchesAnswers` and `RisesOnce` are not of two handlers, for two
answers served at once lose the word one of them put back (a hazard in
`PROJECT.json`).

### Not modelled

* *Billing*: the limit of a batch and the order of a list, payment events,
  signatures, amounts and currencies, manual payments.
* *Ledger*: trials, the clamping of learning settings on a downgrade, months of
  unequal length.
* *Lessons*: which interface holds the session (that is in `Trainings`), the log of answers, hours until a
  review is due (a choice in the model), what selects and orders words, the runs
  of a level.
* *Delivery*: the grouping of a payment's receipts into one message, texts, files.
* *Trainings*: users without a chat or a level, the screens of the settings, what a
  follow-up lesson repeats, the return of an old reminder to the menu.
* *Imports*: reading a Google document, its claims and the queue of rescans; the repair
  of lookup-only jobs when results are read; hidden assignments; the learning
  progress and session words a promotion merges; audio files and vectors.
* The components that `PROJECT.json` lists as not modelled, with the reason of
  each: teacher links, sign-in, administration, front ends,
  configuration; of the bot, the screens of a chat and the log of messages.

## 5. Plan

1. Done: `PaidAccess` and `BillingPayments`, then `SubscriptionLedger`, then `Lesson`
   and `LearningSession`, in the order of what a mistake costs.
2. Done: `BillingDelivery` and `ReceiptRetrieval`, which meet `BillingPayments` in the
   rows that appear.
3. Done: `UserDictionary` and `UserImport`.  Left: the claims of Google documents and
   the queue of rescans.
4. Done: `Reminders` and `Trainings`.  Left: follow-up lessons, which select the words of
   the lesson they repeat.
5. Small modules: teacher links, the message log of the bot.
6. Done: a theorem for each safety property that a passing run checks.  Left: what
   remains of a lesson with many handlers, of which only the types are proved.
7. Runs of two handlers in one lesson, with an auxiliary variable that marks
   overtaken answers, as `BillingPaymentRaces` does for payments.
