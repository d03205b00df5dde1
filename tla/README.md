# A TLA+ model of crm_gateway

crm_gateway is a Rails application that keeps SugarCRM up to date with the
families of an enrollment system. It consumes messages from RabbitMQ, keeps its
records in MongoDB and writes accounts and contacts to SugarCRM over HTTP.
Several consumer threads, in several processes, share the database and SugarCRM
and nothing else: there are no locks, no unique indexes and no transactions
that span two documents. What makes the program hard is therefore the order in
which independent threads read and write those two stores, and what is left
behind when a call fails or a process dies in between.

This directory holds a model of that behaviour, the TLC configurations that
check it on small instances, and TLAPS proofs of the properties that hold for
every number of threads, messages and failures. The repository also contains a
copy of the Hugo site generator (`src/hugo`, a program in Go) with which the
documentation is written. The gateway does not call it; its development server
is a concurrent program of its own, and the loop that rebuilds the site is
modelled too.

Paths below are relative to `src/app` unless they start with `src/`.

## 1. Inventory

### 1.1 Family pipeline

*Code:* `event_source/subscribers/families/created_or_updated_subscriber.rb`,
`domain/operations/families/created_or_updated_processor.rb`,
`domain/operations/families/create.rb`, `domain/operations/sugar_crm/`
(`compare_request.rb`, `fetch_account.rb`, `update.rb`, `transmittable/`),
`models/family.rb`.

*State:* the `families` collection (one row per processed message: inbound and
outbound payload, timestamp `inbound_after_updated_at`, stored comparison), the
transactions that point to it, accounts and contacts in SugarCRM, and the
locals of each worker.

*Operations:* a message is validated; a job, a transmission and a `Family` row
are created, then a transaction for the account and one for each member; the
row is compared with the row of the same family whose transaction is newest, or
with SugarCRM when there is none; differences are written to SugarCRM, the
account first and then each contact; the comparison is stored in the row;
response transactions are created; the message is acknowledged whatever
happened.

*Hard:* two workers on two messages of one family; messages out of order; a
call that fails after SugarCRM carried it out; a crash before the
acknowledgement, which brings the message back; contacts written one by one.

*Correct means:* one account for a primary person; no contact without its
account; a stored comparison tells the truth about SugarCRM; a redelivered
message is not sent again; SugarCRM ends with the newest payload; every message
is acknowledged and leaves a stored comparison.

### 1.2 Account comparison

*Code:* `compare_request.rb:112-191`, `domain/entities/account_comparison.rb`,
`domain/entities/contact_comparison.rb`,
`domain/contracts/account_comparison_contract.rb`, `models/types.rb`.

A pure function of two payloads: create, update, no-op or stale for the account
and for each contact, and an overall action that decides whether SugarCRM is
called at all.

### 1.3 SugarCRM connection

*Code:* `domain/sugar_crm/services/connection.rb`.

*State:* the OAuth token shared by the threads of a process, a counter for each
call. *Operations:* get, post, put, delete; each obtains a token, sends, and on
a `Faraday::Error` reconnects and sends once more. *Hard:* the answer of a
request that was carried out may be lost; whether a call is retried depends on
a variable other threads set. *Correct means:* the outcome of a call tells its
caller how often SugarCRM can have carried it out, and every call ends.

### 1.4 Event log and the older subscribers

*Code:* `models/event.rb`, `controllers/events_controller.rb`,
`domain/sugar_crm/operations/families/handle_family_update.rb`,
`domain/sugar_crm/operations/people/handle_primary_person_update.rb`,
`event_source/subscribers/family_update_subscriber.rb`,
`event_source/subscribers/primary_person_subscriber.rb`.

*State:* one `Event` document per delivery (state, error fields, archived
flag), and the object of it that each handler holds. *Operations:* process!,
complete!, fail!, retry!, archive!, update; ack and nack. *Hard:* a handler
decides by its own, possibly stale, object; a save writes only the fields that
object changed; users retry and archive while handlers run; upserts fail in two
shapes. *Correct means:* a message is acknowledged only when an upsert of it has
returned Success; an Event nobody works on has an outcome, and one outcome;
archiving is not undone.

### 1.5 Older upserts

*Code:* `domain/sugar_crm/operations/family_upsert.rb`, `primary_upsert.rb`.

*State:* accounts and contacts in SugarCRM; the locals of each upsert, above all
the account id it has found. *Operations:* find the account by the primary's
hbx id, create or update it; find each member's contact, create or update it.
`FamilyUpsert` links contacts to the account, `PrimaryUpsert` writes the same
account and contact without a link. *Hard:* both kinds of message arrive for a
new family at about the same time (the handler sleeps three seconds "to avoid"
this); find and create are two calls; the two upserts disagree on what an empty
answer means; `PrimaryUpsert` sends a `Result` object as payload. *Correct
means:* a success vouches for every required write and for the link of every
member; no record more than the handlers that raced; every upsert returns.

### 1.6 Transmittable records

*Code:* `domain/operations/transmittable/`, `models/transmittable/`.

*State:* jobs and transmissions with a process status (latest state, a list of
states with their ends), an own end and errors; transactions. *Operations:*
create, find or create a job, create a transmission and transactions; when one
cannot be created, add an error to every record of the flow and mark each
failed. *Hard:* find, validate and insert are three queries; a status update is
three writes for the job, then three for the transmission, through a copy that
may be old; the failure handed on is a message in some places and a validation
result in others; failures of the family's row and of the processing are
recorded on neither job nor transmission. *Correct means:* a failed record says
why; the failure of a transmission is not hidden under a healthy job; a
transmission or transaction that could not be created can be seen on the job;
states are closed.

### 1.7 Documentation server

*Code:* `src/hugo/commands/hugo.go` (`newWatcher`, `handleEvents`,
`fullRebuild`), `commandeer.go`, `server.go`, `src/hugo/watcher/batcher.go`,
`src/hugo/livereload/`, `Build` in `src/hugo/hugolib/hugo_sites_build.go`.

*State:* the batches of file system events on their way; the state of the site
in use (`commandeerHugoState`: a channel closed when it is created, its
configuration, its sites, what it was built with); the paused flag, a semaphore,
a debounced timer, the live reload hub.

*Operations:* the batcher passes on what it gathered; the watch loop handles a
batch: a changed configuration or a mass edit starts a full rebuild, other
changes are built into the site; a full rebuild replaces the state, loads the
configuration, copies static files and builds everything, in a goroutine of its
own.

*Hard:* the watch loop reads the state several times, with or without waiting
for it, while it is replaced; a state may be created without sites, or never;
batches are dropped in five places; a semaphore, a lock for each state, channels
without readers. *Correct means:* no edit is
lost between the threads; the edit that repairs a broken configuration gets
through; every change is built in the end.

### 1.8 The rest

Payload builders (`domain/sugar_crm/operations/payload/`, and the transformers
of an external gem) map fields and keep no state. The report reads families and
writes a CSV file. Event pages, channels, helpers and scripts render. `src/config`
boots the program (`src/config/puma.rb`: five threads per process).

## 2. Modules

| Module | What it is |
|---|---|
| `Comparison` | 1.2 as operators over abstract payloads |
| `FamilySync` | 1.1: workers, broker, MongoDB rows and transactions, SugarCRM |
| `CrmMirror` | abstract: SugarCRM shows one message's account and only moves on to later ones, persons follow their message's account |
| `MCFamilySync` | payloads for the scenarios TLC checks |
| `FamilySyncProofs`, `FamilyCrmProofs` | proofs about `FamilySync` in any order of delivery |
| `FamilyOrderProofs` | proofs about in-order delivery, and that it implements `CrmMirror` |
| `SugarCall` | abstract: what a call of SugarCRM promises its caller |
| `SugarConnection`, `SugarConnectionProofs` | 1.3, and that it keeps the promise |
| `EventLog`, `EventLogProofs` | 1.4, and its invariants |
| `UpsertCall` | abstract: what an older upsert promises its handler |
| `LegacyUpsert`, `MCLegacyUpsert`, `LegacyUpsertProofs` | 1.5, that it keeps the promise, and its invariants |
| `Transmittable`, `MCTransmittable`, `TransmittableProofs` | 1.6, and its invariants |
| `SiteServer`, `SiteServerProofs` | 1.7, and its invariants |

`FamilySync` does not instantiate `SugarConnection`: it uses the promise that
`SugarCall` states and `SugarConnectionProofs` proves. A call is carried out at
most twice, which is the constant `MaxCopies` (1 or 2) of a create; an answered
call was carried out; a call that raises or gives nil may have been. (An update
sent twice leaves what it leaves when sent once.) `LegacyUpsert` uses the same
promise. `EventLog` in turn knows of an upsert only what `UpsertCall` and the
results of `LegacyUpsert` say: it succeeds, fails with details (a Hash, also
what a rescued exception becomes) or fails with a bare message.

### 2.1 FamilySync and the code

One action is one access to a shared store; everything a worker computes between
two accesses is part of the action before it. The model has one family, because
every query of the pipeline is restricted to `family_hbx_id` and
`primary_person_hbx_id`.

| Action | Code |
|---|---|
| `Deliver` | the broker hands a message to the subscriber |
| `Refuse` | `validate`, `transform_timestamp`: Failure before anything is stored |
| `CreateFamily` | `Operations::Families::Create`; ids grow, so the lowest free id is taken |
| `AccountTransaction`, `ContactTransactions` | `GenerateRequestObjects`; a refused contact transaction is only collected |
| `Compare` | `fetch_eligible_subject`, `check_stale`, `fetch_previous_crm_account`, and the comparison |
| `FetchAccount`, `FetchContacts` | `Operations::SugarCRM::FetchAccount`, two requests |
| `FindAccount` | `find_existing_account`; the first match is taken |
| `KeepAccount`, `CreateAccount`, `UpdateAccount`, `CannotUpdateAccount` | `update_sugar_for_account` |
| `WriteContact` and its six disjuncts | `update_sugar_for_contacts`, one contact |
| `Persist`, `Respond` | `persist_comparison`, `Responses::Create` |
| `StepFails` | any Failure or exception that stops the pipeline before it changed anything |
| `Ack` | the subscriber acknowledges in every case |
| `Crash` | the process dies; the broker redelivers |

`stamp[f]` is the creation time of the newest transaction of row `f`: that, and
not the message's timestamp, decides which row is compared with. Contacts are
written in any order (the code follows the payload; any order is allowed, which
only adds behaviours). `fetch_eligible_subject` makes two queries, rows and then
their newest transaction; they are one step of the model. SugarCRM answers
queries with the oldest match first (positions in a sequence); records are never
deleted, as the gateway deletes none in this pipeline.

The data are abstract: a payload is a value of `Data`, and two payloads differ
or do not. `Members(people)` is never empty: a family has its primary person.

### 2.2 SugarConnection and the code

`GetToken` is `connection` without `force`, `Send` and `Answer` the request and
its response, `Rescue` the `rescue` clause with `tries < 3 && connection(force: true)`,
`Reconnect` the token request of that call. `tries` is a counter of its own for
each call (`tries ||= 1` survives `retry`). The ghost variable `applied` counts
how often SugarCRM carried out the request. An answer with an error status
raises `OAuth2::Error`, which the verbs do not rescue (`connection.rb:32-35`):
at either attempt, and whether SugarCRM refused the request (`Send`) or carried
it out and failed afterwards (`Answer`). So an exception tells the caller as
little as nil does. One assumption is made of the network: a request is carried
out before the HTTP client gives up on it, or never.

### 2.3 EventLog and the code

`copy[h]` is the `Event` object a handler holds, `events` the collection. `Save`
is what AASM's bang methods do: the transition is checked against the object,
and Mongoid writes the fields the object changed (`Written`). `FindEvent`,
`Retry`, `Archive`, `Update` are `EventsController`; after `Retry` the
controller runs the same handler, so the thread goes on with `Process`. `Fail`
sets the error fields on the object, which `fail!` saves with the state.
`Publish` stands for the whole upsert: it returns Success, fails with details (a
Hash), or fails in a way that leads to the `rescue` clause: it raises, or its
failure is a bare String and `result.failure[:error]` raises. A Success is no
more than that (`succeeded`): it does not say that the payload is in SugarCRM,
as `FamilyUpsert` ignores what becomes of an update of the account and
`PrimaryUpsert` takes an empty answer for a success. What it does say is the
subject of `LegacyUpsert`. Error fields are one
flag. `archive` of all Events is a sequence of `Archive` steps, one per
document, which is what the `each` does.

`Requeue` says what the broker does with a nacked message. The code does not
decide that (it depends on the queue): `events_race` requeues it, `events_stuck`
drops it, and the proofs cover both.

### 2.4 LegacyUpsert and the code

One family; one action is one call to SugarCRM, and each call has three ways to
end: an answer, an empty answer (carried out or not), an exception.

| Action | Code |
|---|---|
| `Begin` | `call` of either upsert with a message; `family_members` without a primary person raises at once; a primary person without an hbx id is not told apart from one with |
| `FindAccount` | `find_existing_account`; the first match is taken |
| `WriteAccount`, `WriteAccountUnanswered` | `create_account`, `update_account`; `FamilyUpsert` ignores an empty answer to an update and turns one to a create into a bare message, `PrimaryUpsert` raises on both |
| `FindContact` | `find_contact_by_hbx_id` (`find_existing_contact`); a member that cannot be placed raises after the search |
| `WriteContact`, `WriteContactUnanswered` | create or update; the result is kept until all contacts are done (`FamilyUpsert`), an empty answer is a success of nil (`PrimaryUpsert`) |
| `Raise`, `Crash` | the `rescue` clause of `call`; the process dies |

`Readable` is the one thing the repository does not say: `PrimaryUpsert` sends
`Result` objects, and what SugarCRM makes of their JSON is external. The model
allows both: read as what is inside, or as a record without an hbx id that no
search finds. `written[h]` is a ghost: the writes of this upsert that were
answered.

### 2.5 Transmittable and the code

One action is one database write or query of a flow.

| Action | Code |
|---|---|
| `BeginRequest`, `CreateFamily`, `Process` | `GenerateRequestObjects`, the processing of the family, and then `Responses::Create` |
| `BeginLookup`, `FindJob`, `ValidateJob`, `InsertJob` | `GenerateResponseObjects`, which passes a `job_id` or nothing, with `FindOrCreateJob`, `CreateJob` and the model's uniqueness validation, which is a query of its own |
| `BeginFind` | `FindOrCreateJob` called alone with a `message_id` |
| `CreateTransmission`, `FindSubject`, `CreateTransaction` | the operations of these names |
| `Refused`, `AddError` | `AddError`, once for each record the flow has |
| `EndUnrecorded` | a failure of `create_family` (`generate_request_objects.rb:18`), or of the comparison, the update or the persistence: the flow returns it and no record is told |
| `LoadStatus`, `PushState`, `SaveStatus`, `SaveRecord` | `UpdateProcessStatus` for one record: the status is loaded, the state pushed, the ends of the last two states saved, the record's own end saved |
| `Raise`, `Crash` | an exception of a database call, rescued in `update_status` only; the process dies |

`known[w][t]` is how many states the flow's own copy of record `t` has: the ends
are written at positions counted in the copy, not in the document. A search by
`message_id` is part of `FindOrCreateJob`'s interface, but only its specs use it:
the one caller in `src/app` passes a `job_id`. A document and its process status
are two inserts (`models/transmittable/job.rb:19`, `transmission.rb:30`) and one
step of the model. Transactions are not kept here, because no
operation updates the state of one; their order is in `FamilySync`. After
`CreateTransaction`, `GenerateResponseObjects` saves a payload, and a failure of
that save refers to an undefined variable and raises; it is the same to the
records as `Raise`.

### 2.6 SiteServer and the code

Three threads: the batcher (`Tick`), the watch loop (`watch`) and the goroutine
of a full rebuild (`full`; there is at most one, and the semaphore is free exactly
when `full` is "none"), besides the timer (`Fire`, `StartDue`), the start of the
server (`Serve`) and whoever edits (`Edit`, `EditConfig`).

| Action | Code |
|---|---|
| `TakeReload`, `TakeChmod`, `TakeChanges` | `handleEvents` up to the mass edit, in the order of its tests |
| `Acquire` | `fullRebuild` waits for the semaphore |
| `AskHugo`, `Plan`, `Lock` | `hugo()`: the state in use is read first, then *that* state's channel is waited for; what it returns is nil, and the program panics, when the state was created without sites |
| `Plan`, `Navigate` | `c.Cfg`, read from the state in use without waiting; nil until it is set |
| `Process` | a partial build: `rebuildSites`, `Build`, `processPartial`, and what the browser is told of it |
| `Tell`, `TellAll` | a broadcast, which waits for the hub |
| `ServeAsk`, `ServeHub` | `serve()`: it waits for the state in use when it asked, and starts the hub if live reload is on |
| `Replace`, `Load`, `Create`, `CopyStatic`, `LockAll`, `BuildSites`, `Wake` | the goroutine of `fullRebuild`, in order |

States are numbered. `created` are those whose channel is closed, `sites` those
whose `hugoSites` is not nil: `Create` closes the channel also when the file
systems or the sites could not be made, or the cache directory was not found,
and then returns an error (`commandeer.go:389-409`). `hasCfg` says whether the
current state has its `Cfg`, which is set before that; a configuration that
cannot be loaded may fail before or after it, and a good one may fail later too.
`has` is what the current state was built with, as nothing is asked of a
replaced one. `missed` and `ignored` are ghosts: the edits which an early return
or a failure gives up. `seen` are the changes made before a full build began,
which it reads for certain; those made during it, it may read. `errs` says that
errors were logged: `Lock` forgets them for the state it builds, and one the
watch loop logs during a full build counts as an error of that build, which then
does not refresh the browser. The program dies (`Dead`) when the watch loop or
`serve()` panics.

A change is an edit of content, layouts or data; `Mass` are those of more than
fifty files. A configuration turns live reload on, or off, or cannot be loaded;
the server is started with `Start`. Left out of `handleEvents` are static files
(lines 1082-1113) and the shortcut for assets; `navigateToChanged` is off, as it is by default (it
asks for the state once more); left out of the server, the
rebuilds of visited pages (`partialReRender`), which only render again. Several
goroutines read and write `paused`, the state in use and the errors without a
common lock; each such access is one atomic step of the model. A local is
cleared when it is no longer used.

## 3. Runs

Each passing run finishes in less than five minutes with two TLC workers.
`CHECK_DEADLOCK FALSE` is used where the system may stop: all messages
acknowledged (`FamilySync`, `EventLog`), all upserts or flows used up
(`LegacyUpsert`, `Transmittable`), nothing edited any more (`SiteServer`).

| Run | Instance | Shows |
|---|---|---|
| `sync_race` | 2 workers, 2 messages in any order, 2 persons, 3 rows, a failing call, a crash, creates that may leave two records, an empty SugarCRM | `IInv` (type, ownership of rows, a single creator), `AtMostOneAccount` (one create call at most: two records, never four), `ReportedWritesExist`, `ActionsKnown` |
| `sync_redelivery` | in-order delivery, 2 workers, 4 rows, 2 crashes, a failing call, a dependent added to an unchanged account, an existing account or none, fairness | `OrderInv`, `RedeliveryIsSilent`, `NoOrphanContact`, `AllAcknowledged` |
| `sync_ordered` | in-order delivery, 4 messages of which one malformed, an existing account or none, a dependent who leaves, no failure, fairness | `MirrorInv`, `ContactsInv`, `MirrorsNewest`, the refinement `MirrorSpec`, `EveryMessageRecorded` |
| `connection_calls` | 2 threads, every loss of a request or an answer, every error status, fairness | `IInv`, the refinement `PromiseSpec`, `RetriedBeforeGivingUp`, `EveryCallEnds` |
| `events_race` | 2 threads, 1 message, 4 Events, a user retry, an upsert that fails, a raising call, a crash, nacked messages come again, fairness | `IInv`, `AckedMeansSucceeded`, `FailureIsExplained`, `OutcomeRecorded`, `ArchivingSticks`, `EveryMessageAcked` |
| `legacy_upsert` | 2 handlers, 3 upserts out of a family message, one with a member that cannot be placed, one without primary, and a primary message; 2 members; 2 calls unanswered, raising or crashing; results readable or not; fairness | `IInv`, `SuccessMeansLinked`, `RecordsBounded`, the refinement `PromiseSpec`, `EveryUpsertReturns` |
| `transmittable` | 2 workers, 2 flows, a message id whose job may exist already, 1 contact, 2 seconds, 2 steps that fail, one exception or crash | `IInv`, `FailedIsExplained`, `JobFailsFirst`, `RefusalIsVisible`, `JobsBounded`, `StatesEnded` |
| `site_server` | a change of few and one of many files, 2 edits of the configuration (so: broken and repaired, live reload switched), started with live reload on, no file saved as it was, 1 failing load, creation, copy or build, fairness | `IInv`, `NothingLost`, `ConfigNotLost`, `ChangeSettles` |

*Why the bounds are enough to be interesting.* Two workers are the least that
race, and each race in this code is between a read and a write of two workers.
Two messages of different age give every order; three rows let one message be
redelivered while the other is processed. `AccountOf` changes once, the
dependent is added, leaves or leaves and returns, so each comparison (create, update,
no-op, stale and mixed) occurs. One failure placed anywhere covers every call of
the pipeline; the proofs cover the rest. Three upserts on two handlers are the
least in which an upsert starts before another and one starts after both; two
faults let both find their account and lose the answer to a contact. Two
flows share a job when one looks up the job of the other, or finds another
created in the same second; a second that may pass between them gives equal and
different job ids. One small and one mass edit
give a partial build and a full rebuild that is not asked for by the watch loop,
which is the pair that races; two edits of the configuration break and repair it.
A configuration saved as it was (`Touch`) starts the same full rebuild as a mass
edit does; the proofs allow it.

`OutcomeRecorded` claims an outcome only as long as no database call raised and
no handler died (what those leave behind is a `processing` Event, as the code has
no recovery for them), and `events_race` gives it failures with details only;
`events_stuck` is the same property with the other shape of failure.
`StatesEnded` is claimed in the same way, for flows no call of which raised.

*Symmetry* is used for workers in `sync_race` and `transmittable`, where no
worker is named and no liveness is checked.

*Fairness.* `FamilySync!FairSpec`: a worker that holds a message keeps running
(a consumer thread is never suspended for good, each HTTP call has a time
limit), and the broker delivers what is queued when a worker is free. Nothing is
assumed about which worker. `SugarConnection!FairSpec`: each request ends, with
an answer or an error. `EventLog!FairSpec`: handlers keep running, and a message
that is queued again and again is delivered in the end (strong fairness, since a
nacked message leaves the queue while it is processed). `LegacyUpsert!FairSpec`:
a handler that has begun makes its next call; the calls themselves may go either
way. `SiteServer!FairSpec`: the watch loop runs when it can, so does the goroutine of
the full rebuild, and so does one of the batcher, the timer and what they wait
for (`Background`: there are finitely many of these steps between two edits, so
each of them is taken); nobody has to edit anything. Failures are bounded:
liveness is claimed for a system whose failures end.

### 3.1 Where the code differs from what it says

Four runs end in a counterexample; each checks a statement taken from a
comment or a document of the code.

* `sync_crossed` (`NoopHasAccount`): no failure at all; two workers store their
  rows before either compares. The newer message finds the older row and is a
  no-op, the older one finds the newer row and is stale: SugarCRM has no account
  and both rows say nothing was to be done. "If the comparison is no-op or
  stale, then ... the update is not needed" (`created_or_updated_processor.rb:109`)
  is not so.
* `sync_returning` (`CreateMeansAbsent`): a member leaves and returns; the
  contact is created again although SugarCRM still has it.
* `events_stuck` (`OutcomeRecorded`): an upsert fails with a String; the handler
  raises while it takes details from it, and the Event stays `processing`.
* `jobs_unique` (`MessageIdIdentifies`): two flows look for one message id, find
  no job, both validations pass, both insert. "Jobs are uniquely identified by a
  message_id" (`models/transmittable/job.rb:4`) holds only for flows one after
  the other.

Four more statements fail in models of this directory and have no run of their
own; naming the definition in an `INVARIANTS` line (the last one in a `PROPERTY`
line) shows each. `OlderThanOnFileIsStale` in `FamilySync` (three messages in any
order): messages arrive as 3, 1, 2; message 2 is compared with the stale row 1,
whose transaction is newest, and is sent over message 3. `NoopMeansCurrent`
in `FamilySync` (`MaxFaults = 1`): one push fails, the next message with the same
content is compared with the row that never reached SugarCRM and is a no-op; it
is the failure case of what `sync_crossed` shows without one.
`OutcomeConsistent` in `EventLog` (`MaxRetries = 1`, two handlers): a retry while
a handler still works on the Event; the Event ends successful with the error of
the other attempt.
`PauseEnds` in `SiteServer` (the instance of `site_server` with `MaxFaults = 0`): "Set the processing
on pause until the state is recovered" (`src/hugo/commands/hugo.go:797`). A
change is handled while a configuration that cannot be loaded is read; `hugo()`
waits for the state that is never created, `paused` is set too late for it, and
nobody takes the event of the repaired configuration: the server waits for ever.
(With failures there is more to it: when the configuration is good and the sites
could not be created, because a template is broken, say, the batch with the
repaired template is dropped, `src/hugo/commands/hugo.go:957`, and the pause lasts
until the configuration is edited.)

`ChangeSettles` therefore has exceptions, which are what the code can do to
itself: this deadlock; a broadcast to a hub that was not started, because live
reload was off when `serve()` looked and is on now, or because `serve()` waits
itself for a state that is never created (both are `Stuck`); a panic, when `Cfg`
is read from a state that has none yet, or sites from one created without
(`Dead`). The run shows that these are all: no other wait is for ever.

`MirrorsNewest` and `RedeliveryIsSilent` hold only under in-order delivery, and
`MirrorsNewest` only without failures, because of `OlderThanOnFileIsStale` and
`NoopMeansCurrent`.

## 4. Proofs

All theorems are checked by TLAPS (Z3, Zenon, LS4) for every value of the
constants that satisfies the named assumptions: payloads of the right type, at
least one member per message, `None` and `NoData` different from data, bounds
that are natural numbers, `MaxCopies` 1 or 2, and, where records are counted
against handlers, a finite set of these. Except for those of `FamilyOrderProofs`,
none depends on the broker: both orderly and disorderly delivery are covered.

The theorems of `FamilyOrderProofs` assume that messages are delivered in order
(`Ordered`) and differ in age (`DistinctTimestamps`), and those about contacts a
little more. Each hypothesis is there because the statement fails without it:

| Hypothesis | Without it |
|---|---|
| `Ordered` | messages 3, 1, 2: an older payload is sent over a newer one (3.1) |
| `DistinctTimestamps` | two messages of one age: the one is processed between two deliveries of the other, which is then compared with it and not with its own row |
| `[]NothingFailed` | a failed push and an equal message after it: SugarCRM stays behind (`NoopMeansCurrent`, 3.1) |
| `NobodyReturns` | `sync_returning`: the contact is created twice |
| `Preexisting = {} \/ NobodyJoins` | a contact that SugarCRM has from elsewhere joins with a second message: it is created again, since the previous payload does not list it |
| `MaxCopies = 1` | a POST is resent: two records |

`MCFamilySync`'s payloads satisfy them, those of `sync_ordered` all of them (the
dependent leaves and nobody joins) and those of `sync_redelivery` the first two.
`OutcomesRecorded` assumes that no upsert fails with a bare message, which is
what `events_stuck` shows to go wrong.

| Theorem | Says |
|---|---|
| `FamilySyncProofs!Invariance` | `IInv` holds in every reachable state |
| `FamilySyncProofs!TypeCorrect` | type correctness |
| `FamilySyncProofs!AccountBound` | `AtMostOneAccount` |
| `FamilySyncProofs!UpdateHandlesAll` | `ActionsKnown` |
| `FamilyCrmProofs!ContactsBelong` | `NoOrphanContact` |
| `FamilyCrmProofs!ReportsAreTrue` | `ReportedWritesExist` |
| `FamilyOrderProofs!OrderInvariance` | `OrderInv` |
| `FamilyOrderProofs!RedeliverySilent` | `RedeliveryIsSilent`, whatever fails and crashes |
| `FamilyOrderProofs!MirrorInvariance` | `MirrorInv` |
| `FamilyOrderProofs!MirrorsInOrder` | without failures `FamilySync` implements `CrmMirror`: `MirrorSpec` |
| `FamilyOrderProofs!ContactsInvariance` | `ContactsInv` |
| `FamilyOrderProofs!PayloadMirrored` | without failures `MirrorsNewest` |
| `SugarConnectionProofs!OutcomesTell` | the outcome of a call tells how often it was carried out |
| `SugarConnectionProofs!KeepsPromise` | `SugarConnection` implements `SugarCall` |
| `SugarConnectionProofs!NilMeansRetried` | `RetriedBeforeGivingUp` |
| `EventLogProofs!Invariance` | `IInv` of the event log |
| `EventLogProofs!AckIsEarned` | `AckedMeansSucceeded` |
| `EventLogProofs!FailuresExplained` | `FailureIsExplained` |
| `EventLogProofs!ArchiveStays` | `ArchivingSticks` |
| `EventLogProofs!OutcomesRecorded` | `OutcomeRecorded` |
| `LegacyUpsertProofs!Invariance` | `IInv` of the older upserts |
| `LegacyUpsertProofs!SuccessLinks` | `SuccessMeansLinked` |
| `LegacyUpsertProofs!RecordBound` | `RecordsBounded` |
| `LegacyUpsertProofs!KeepsPromise` | `LegacyUpsert` implements `UpsertCall` |
| `TransmittableProofs!Invariance` | `IInv` of the transmittable records |
| `TransmittableProofs!FailuresExplained` | `FailedIsExplained` |
| `TransmittableProofs!JobMarkedFirst` | `JobFailsFirst` |
| `TransmittableProofs!RefusalsVisible` | `RefusalIsVisible` |
| `TransmittableProofs!StatesClosed` | `StatesEnded` |
| `TransmittableProofs!JobBound` | `JobsBounded` |
| `SiteServerProofs!Invariance` | `IInv` of the rebuild loop |
| `SiteServerProofs!EditsKept` | `NothingLost` |
| `SiteServerProofs!ConfigKept` | `ConfigNotLost` |
| `SiteServerProofs!PauseTells` | `UnpausedIsUsable`: except during a load, the state in use has its sites and its `Cfg` while processing is not paused |

**One account.** `AtMostOneAccount` is not inductive: nothing in it stops two
workers from being about to create. The argument is that a worker makes its own
row visible (row and account transaction) *before* it looks for other rows. Of
two workers that look, the one that looks second finds the first one's row and
never decides to create. `IInv` therefore adds `OwnSubject` (a worker past its
first steps has a row of its own, nobody else's, with a transaction) and
`SingleCreator` (at most one worker may still create, and as long as one may,
there is no account). The same argument is why `sync_crossed` is possible: it
keeps two workers from both creating, and nothing makes one of them create.

**True reports.** On top of `IInv`, `CrmInv` says that the account id a worker
holds is the id of an account, that what it has recorded so far is true, and
that SugarCRM only grows. `FamilyCrmProofs` proves it step by step.

**Known actions.** `Update` has no branch for a stale object, and none for a
contact the comparison does not list; the model leaves these cases out.
`UpdateHandlesAll` shows that they cannot arise: a stale comparison is stale
in every part, so its overall action is stale and `Update` is skipped; any other
comparison lists every member of the payload, and responses are put beside the
actions without changing them.

**In-order delivery.** `RedeliveryIsSilent` says nothing of which row a message
is compared with, so it is not inductive. `HeldInOrder` says that one message is
in work at a time and that all older ones are acknowledged, also those older
than any message that has left a row; hence transactions are created in the
order of messages, and the newest transaction belongs to the newest message
(`StampedInOrder`). When a message comes again, the newest other row with a
transaction is that of its own earlier delivery: the payloads are equal, the
comparison is a no-op, and `Update` is skipped (`NoEarlierDelivery`). This holds
with any number of failures and crashes.

**The mirror.** The pipeline compares payloads with rows, and the mirror is a
claim about SugarCRM. `MirrorInv` connects the two, as long as nothing has
failed: the row compared with is that of the newest message that reached
SugarCRM (`RowsSettled`), SugarCRM shows its account, and so the action a worker
found is the one a comparison with SugarCRM would have found (`AccountCompared`).
`ContactsInv` is the same for persons. A person is written after the account and
one at a time, so `ContactsMirrored` excepts contacts still pending, and it says
why a contact SugarCRM has is known to the previous message: this is where
members who return or join would break it. `MirrorsInOrder` needs nothing of
`ContactsInv`: that persons only move on to the payload of the account shown
holds also for members who return.

**The connection.** `OutcomeTells` ties the number of requests carried out to
the counter and the place in the call; with it each step of the connection is a
step of `SugarCall` or a stutter. `NilMeansRetried` follows from it: a call that
gives up with nil has failed, and with a token it gives up only after its second
attempt.

**The event log.** `HandlersConsistent` says what a handler knows: the state of
its object at each place, that its object shows no error while it works, and
that its Event carries its message. Each save of a handler then moves the
object's state, so that the state written is the one the handler means, and a
failure is written together with its error. `OutcomePending` gives every Event
without an outcome a handler that works on it at a place from which it must go on
to `complete!` or `fail!`; without failures by a bare message no other way leads
out.

**The older upserts.** Neither property is inductive. `SuccessMeansLinked` needs
what a running upsert has reached so far: `HandlersConsistent` says that every
member of an upsert that has not failed is pending or written and that the
account id held by a family upsert is one that exists, `WrittenAreLinked` that
a written member has a linked contact (a property of SugarCRM that no other
handler can take away, because updates without a link keep the old one), and
`Vouched` carries both past the return. `RecordsBounded` needs
`CreatesBounded`: what exists *plus* what the handlers that have searched in vain
may still create is at most `MaxCopies` for each handler. A handler joins those
only when the search found nothing, so the sum then counts handlers only.

**The transmittable records.** `FailedIsExplained` and `JobFailsFirst` hold
because of an order of writes, errors before status and job before transmission,
so the invariant says at each place what has been written already
(`WorkerConsistent`), for records other flows write to as well: an error is
never taken away and a failed job stays failed. `StatesEnded` depends on a copy
not being old: `TransmissionsOwned` (a transmission is used by one worker, unlike a
job) makes the copy of a transmission equal to the document, and `Settled` says
which of its states may be open at each place. For jobs the same is false, and
is not claimed. `RefusalIsVisible` holds because every way out of a refused
record leads past `AddError` of the job first; it says nothing of flows that fail
otherwise (`EndUnrecorded`). `JobsBounded` is the argument of `CreatesBounded`
again (`InsertsBounded`).

**The rebuild loop.** Dropping what a pause drops is harmless because a pause
ends only with a load, after which a full build lies ahead. The flag alone keeps
the watch loop away from a state that is of no use: its channel does not, as it
is closed also when the sites could not be made. `UnpausedIsUsable` and
`LoadingIsUncreated` keep flag and state together. Building into a
replaced state is harmless because of `ReplacedCovered`: the rebuild that
replaced it came after the batch was taken, so it has read the batch's changes
or is reading them (`seen`), or has given them up, or still will. Every other step hands what it takes to the
next place in the list of `NothingLost`.

Only model-checked, not proved: liveness (`AllAcknowledged`,
`EveryMessageRecorded`, `EveryCallEnds`, `EveryMessageAcked`,
`EveryUpsertReturns`, `ChangeSettles`), which is outside the prover. Every other
property of a passing run is stated by a theorem.

## 5. What is not modelled

* The contents of payloads, and the transformers and contracts that build them:
  a refused message is a member of `Malformed`.
* The states of transactions: they are created with one and no operation
  changes it.
* SugarCRM beyond what the gateway asks of it: searches find what was written,
  in order of creation; nobody else changes records.
* Payload builders, rendering, report, configuration (1.8): no state, or read
  only.
* The documentation site beyond its rebuild loop. `src/hugo` is most of the
  repository by lines (all of its Go), almost all of it what a build does with
  content: rendering, templates, resources, modules. That computes pages from
  data the rebuild loop does not look at, in a program the gateway does not call.

## 6. Plan

Done: the pipeline with its comparison, the connection, the event log, the older
upserts, the transmittable records and the rebuild loop of the documentation
server; their invariants, refinements and proofs.

What is left, in this order:

1. `LegacyUpsert` with two families that share a member.
2. The static files and the visited pages in `SiteServer`.
