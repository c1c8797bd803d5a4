# A TLA+ model of the analysis service's job machinery

The analysis service takes a description of a system, runs a graph of language
model calls over it, and returns a threat report.  What the models write is data
here.  What this project models is the machinery around it: what admits a job,
carries it to its report and keeps it from being lost, charged twice, answered
twice or left running for ever; the graph of nodes and the calls to the providers
inside a run; and what the owner keeps beside the jobs.

Paths below are relative to the repository; `analysis_service/` is
`src/analysis_service/`.

## 1. Inventory

| Part | State it keeps | Operations | Hard behaviour |
|---|---|---|---|
| **Job store** (`jobs.py`, `principals.py`, `budgets.py`; SQL in `sql_store.py`) | job rows, usage rows of deleted jobs, principals | `reserve`, `save`, `save_answers`, `save_draft`, `save_corrections`, `set_title`, `set_continue_refusal`, `delete`, `fail_in_flight`, reads | admission checks six bounds and inserts in one step; a child locks its parent; whole-record saves |
| **Job operations** (`job_answers.py`, `answer_state.py`) | nothing; what a request has read | `submit`, `answer`, `continue_at_pause`, `amend`, `correct`, `admit` | reads, composes off the event loop, and writes later with a revision |
| **Worker** (`execute_job`, `_store_outcome`, `StopSignal` in `jobs.py`) | the record in memory, the deadline scope, the stop flag | start, report a node, end, fall back | a save can hang, raise, or land and raise; a stop can come first; a graph can hang |
| **Event streams** (`event_frames` in `jobs.py`; `stream_events`, `_CountedStream` in `api.py`) | the events a client has, one counter of open streams for each owner | poll, send, resume, close | status and events are two reads; a client leaves in the middle |
| **Rows and objects** (`sql_store.py`, `objects.py`) | a row in a database, objects in an object store | put then admit; put then save; change the row then remove; list, read, remove (sweep) | no step covers both stores; calls raise, threads write late, the process stops |
| **Store lifespan** (`store_backends.py`) | nothing | startup check, restart scan, retention sweep, orphan sweep | the scan assumes one instance; what a sweep listed changes before it deletes |
| **Workspace** (`Workspace` in `webapp/main.py`) | the tasks of this process, a cap on the jobs held | `make_room`, `waiting`, `_run`, `_continue`, `stop` | asks of each job in two reads whether it waits; chooses what to delete before the submission and deletes after it |
| **Graph, pipeline, engine** (`graph.py`, `pipeline.py`, `execution.py`, `engine.py`) | the session state of one run: extracted model, rulings, markers, report | extract, gate, repair, prepare, lanes, merge, assemble, pause | frameworks run at once; assemble is triggered once by each; a model that emits nothing leaves no key |
| **Critic round, fan-in** (`critic_round.py`, `fanin.py`) | the rulings of one framework | review, one re-ask, merge of the two | the re-ask may change what nobody asked it about |
| **Provider and retry** (`provider.py`, `retry.py`, `ladder.py`) | one retry bucket, one step of the ladder for the tier and one for each schema | attempt, credit, withdraw, give up, move down, re-ask | all calls of a process share them; a late refusal moves what others moved |
| **Controls, Owner Files** (`controls.py`, `owner_files.py`; `sql_store.py`) | rows and evidence objects of an owner | add, replace, delete, read | two saves of one version; a save, a delete and a sweep over the same objects |
| **Answers, questions, assertions, claims, system model, report** | one job's data | pure checks, merges and rendering | no concurrency; many data rules |
| **Configuration, prompts, pages, credentials, evals, migrations, diagram reader** | files | read once, or offline | none |

How they interact: a route calls a **job operation**, which reads the **job
store**, composes, and calls `reserve`.  The admission starts a **worker** (a
background task of the request in the API, a task of the **workspace** in the web
app).  The worker reads the job, saves it as running, drives the **graph**, saves
the record at each node, and saves the end.  Each model node of the graph is one
call of the **provider** under the retry loop.  **Streams** poll the store
meanwhile.  The **sweeps** and the owner delete.  At a restart the scan fails what
was in flight before any request is taken.

What makes each part correct:

- *Store*: bounds hold of a person whatever was deleted; one child continues a
  job, and it has read every answer; a parent outlives its running child; a job
  ends once; no save undoes another call's write.
- *Worker*: it always ends within its deadline; it leaves the job ended wherever
  it can read and write; the store never refuses its save; a late stop or
  deadline changes no result.
- *Streams*: each event once, in order, all of them; every slot is given back.
- *Rows and objects*: a row names stored objects only; a racing read finds a
  whole job or none; every orphan goes.
- *Workspace*: no job that waits for the operator is deleted to make room (the code
  breaks this in two ways: finding 1) or by a sweep that listed it before it
  was saved; room is made for an admitted job only (it is not: section 4); a paused
  job that continues by itself leaves a Resumed Job, or a reason for the store to keep.
- *Graph*: the report answers each framework with the last rulings, whichever
  trigger builds it; a re-ask changes only what it was asked about; each drive
  ends in a result that its driver knows.
- *Provider*: retries stay a share of the successes; nothing is sent again where
  it was refused; a call sends a bounded number of requests and ends.
- *Controls, files*: the owner's limits hold; of two edits of one version one
  lands; no row lists a text that somebody removed.

`PROJECT.json` lists the hazards at their lines, with the properties that would
catch each, and the parts that are not modelled.

## 2. The modules

| Module | What it is |
|---|---|
| `JobStore` | the store's calls as atomic steps, the requests around them, the workers' whole-record saves, restart, clock |
| `JobLog` | the abstract promise of one job: a status that moves along the lifecycle, a log that is only extended |
| `JobRun` | one run in detail: outstanding saves, the deadline scope, the stop, the fallback, the streams; implements `JobLog` |
| `ObjectRows` | each step of the SQL store across database and object store, for a job |
| `Controls` | the same for the Controls and files of an owner, with the owner's lock |
| `Workspace` | `make_room` with the reads of `waiting`, the continuing task and the retention sweep |
| `Pipeline` | one drive of the graph |
| `ProviderCalls` | the calls of the nodes: retry loop, budget, ladder, re-ask |
| `JobStore_proofs`, `Admission_proofs` | what is proved of `JobStore`: lineage first, then admission and what is kept |
| `JobRun_proofs`, `ObjectRows_proofs`, `Controls_proofs`, `Workspace_proofs`, `Pipeline_proofs`, `ProviderCalls_proofs` | what is proved of the module of that name |
| `MC...` | symmetry sets and small values for the instances TLC checks |

The same code appears at several grains.  `JobStore` takes a store call as one step
and asks what *many* jobs and requests can do to each other; `JobRun` takes one
job and cuts a save into sending, landing and returning; `ObjectRows` cuts the
call again, into the steps of the two stores beneath it.  A run's graph is one
nondeterministic result in `JobRun`; `Pipeline` opens it, with a model call as one
step that writes, stays silent or raises; `ProviderCalls` opens that call.

### JobStore

`held`, `usage` and `row` are `InMemoryJobStore._jobs`, its usage rows and its
records (the `jobs`, `job_usage` and `job_events` tables of the SQL store);
`principal` is `PrincipalTable`; `req[r]` is what a request holds between its read
and its write (`Answerable`, `Submitter`); `pc[j]` and `copy[j]` are where
`execute_job` stands and its `record`.  `admitted` is a history variable: every
admission, whatever became of its job.

| Action | Code |
|---|---|
| `Submit`, `ReserveNew` | `JobAnswers.submitter`, `submit`, `admit` |
| `Create` | `JobRecord.create` in `submit`, `answer` and `amend` |
| `Compose` | `answerable`, and the composition of `answer`, `amend`, `correct` |
| `ReserveChild` | `admit` of a Resumed Job, an amended job or a follow-up |
| `SaveAnswers` | `save_answers`, `save_draft`, `save_corrections` |
| `SetTitle`, `SetContinueRefusal`, `Delete` | the store calls of those names |
| `Fetch`, `Save`, `EndRun`, `SaveRaises`, `FallBack`, ... | `execute_job` and `_store_outcome` |
| `Restart` | `fail_in_flight`, at the next start |

`Reserve` is the whole admission: `principal_exists`, the parent checks,
`check_bounds`, the insert, the principal's insert and the reset of the parent's
refusal.  A store call is atomic because the in-memory store awaits nothing inside
one and the SQL store holds one write transaction under its locks; that the SQL
statements implement it is planned (section 6).  `Restart` keeps the rows, so it
models the SQL store: the in-memory store loses them.

Abstractions: a set of `Batches` stands for the answers a job holds; the three
bits of a record that decide whether it pauses, asks or continues are `stops`; a
job's three kinds of children are `link`; tokens and seconds are small numbers.
`created` is what `JobRecord.create` stamps, and a step of its own (`Create`): the puts
of the record's objects and the wait for the admission lock come between it and
`Reserve`, and the bounds count by it.  `admitted` keeps both instants.  A read and the
composition that follows are one step (`Compose`), which is the last moment the request
could have read.

### JobRun and JobLog

`status` and `log` are the stored job, `copy` the worker's record, `call` the save
that is outstanding, `scope` the `asyncio.Timeout` the run is under (`due` is a
rescheduled one that has not fired), `asked` the stop flag, `stream[r]` one client:
the events it got, the status its last poll read, and whether it left.  `result` is
a history variable.

A save is *sent*; it *lands* (`Land`, one transaction of the row and its events);
it returns, or raises whether it landed or not (`SaveRaises`).  `check_save` is
`Accepted`.  `_store_outcome`'s fallback reads the job as stored and fails it.
`Report` and `Reported` are `on_node`, whose save has no timeout of its own.

`JobLog` has only the stored `status` and `log`, with the moves a caller is
promised; `JobRun` instantiates it over its own two, and `ImplementsJobLog` says that
each step of a run is a move of `JobLog` or leaves it as it is.

Not covered: a save that lands *after* the fallback read.  Leaving a transaction
waits for what became of its cancellation, so the database has decided before the
fallback starts.

### ObjectRows

`op[j]` is the step of the one writer a job has (admission, then its worker),
`late` are the puts whose caller gave up and whose thread may still write
(`asyncio.to_thread`), `doomed` the objects that deletes have yet to remove,
`sweep` the sweep between its list, its read of the rows and its removals,
`reader[r]` a read between the row and the objects.  An object is young or old
(`ORPHAN_GRACE`).  `Age` does not age an object inside the window of its admission:
the code relies on that window being far shorter than a day, and says so.  A row
whose admission raised after its commit is `Stranded`; the properties of the
passing run except it, and finding 2 is about it.

### Controls

A row is the save that wrote it, its scope and the texts that it lists; a save `s`
brings at most one new text, which is named `s` too, and keeps some of those its
version lists.  A file is a row whose one text is its own.  `save[s].step` follows
`add_control`, `replace_control` and `add_file`: `open` (the editor has read a
version, `base`), `putting`, `writing`, `locked` (inside the transaction, under
the owner's lock), `landed`, or `over`; `stranded` is a write that raised after its
commit.  `DeleteRead` and `DeleteControl` are the two statements of
`delete_control`, which takes no lock; `SweepList`, `SweepRead`, `SweepRemove` the
orphan sweep over the evidence and file keys; `ReadRow`, `ReadObject`, `ReadAgain`
are `read_evidence` and `file_text`.  One Control is deleted at a time, and the
sweep holds one key at a time: it treats each apart from the rest.

### Workspace

`room[a]` is a request or a continuing task inside `make_room`: the jobs it counted,
those it has yet to ask, the Resumed Job whose state it has yet to read, those it found
removable, those that were saved since it entered, and then those it has yet to delete
(`overtaken` is a history variable).  `task[j]` is the asyncio task that runs a job and
then continues it.

| Action | Code |
|---|---|
| `Submit`, `Answer`, `Continue` (`Enter`) | `make_room` up to the list of the jobs held |
| `Ask`, `AskChild` | the two store calls of `waiting`: what locks a job, and how that job stands |
| `WorkspaceFull`, `Raises` (`Refuse`) | an exception before, in or after the body; for a task, the handler in `_continue`, whose own store call can raise |
| `Admitted` | the body: the admission, and the start of the new job's task |
| `StartsNothing` | the body, where `continue_at_pause` finds no pause |
| `DeleteChosen` | one delete after the body |
| `EndRun` | `execute_job` returns; `_run` goes on to `_continue`, or not where it was stopped |
| `ListExpired`, `DeleteExpired`, `Save`, `Restart` | `expire_jobs`, the operator's saves, a restart |

A job's `reason` is `stored`, or `lost` where `set_continue_refusal` raised.  The body
of `make_room` is one step: it reads, composes and admits, which `JobStore` opens, and
what it read matters here only where the admission finds it so.  The time of the
choice and the list of the jobs are one step too, and a job saved since then is `saved`:
the code takes the time before it lists, so it also spares a job that was saved in
between, which the model deletes.  `sweep` is the retention sweep between its list of
expired jobs and its delete of one of them, whose `updated_before` spares a job
that was saved in between.  Admission is the store's with the ceiling of one that
`webapp/main.py` sets.  The operator's own deletes are in `JobStore`, and would only
delete what the operator asked for.

### Pipeline

`build` is the graph that `build_pipeline` returned: its entry (extract, head-only,
resume), whether it asserts and reads capabilities, and whether the transport is
compact.  `at`, `extracted` and `held` are the head: the node that runs, what stands
under `extracted_model`, and which other keys are written.  `stage[f]`, `lane[f]`,
`drafts[f]`, `reviewed[f]`, `first[f]` and `marks[f]` are one framework, `accepted`
the markers of the routers, `trigger[t]`, `built[t]` and `analysis` the triggers of
`assemble`.

| Action | Code |
|---|---|
| `Extract`, `Repair`, `Gate`, `Reject` | the head up to the validated model |
| `ReadCapabilities`, `Stated`, `Assert`, `ParkCatalog`, `Pause` | the passes over the model, and the head-only end |
| `Prepare` | `prepare`: the routes of the frameworks, and the skip of the refused ones |
| `LaneEnds`, `MergeDrafts` | the lanes, the join and the fan-in |
| `Critic`, `FirstLook`, `SecondLook` | the critic, `route_review` and `merge_retry` |
| `Accept`, `Mark`, `Leave` | the writes of `route_review`, in the order of the code |
| `AssembleGate`, `BuildBlocks`, `WriteReport` | one trigger of `assemble_report` |
| `CallRaises`, `NodeRaises`, `Return` | what the driver sees: `result_of`, `paused_at`, `GraphProducedNothing` |

A claim is an ID, and a ruling says it is confirmed, rejected or unsettled (absent,
malformed or twice).  The order of `Accept` and `Mark`, and the three steps of a
trigger, matter because function nodes run on a pool of threads and their writes to
the session are plain dictionary writes, seen at once by the other bodies.

### ProviderCalls

`tokens` is `RetryBudget.tokens` in parts of a token (a success credits a fraction),
`tierStep` and `schemaStep` are `Ladder._step` and `_schema_steps`, `call[c]` is one
node call between its awaits: the attempt, the rung the request was sent on, whether
it is the re-ask, and the count of its requests.  `retried`, `credited` and `floor`
are history variables.  `Refused` is a refusal of the format (of the pair, or of
this schema), `FailTransiently` is `refuse_retry`, `Wake` the end of the back-off,
`Answer` a completion, which can break its schema and be asked again once, and
`Cancel` a stop or a deadline.

## 3. The runs

| Run | Instance | States | Shows |
|---|---|---|---|
| `JobStoreLineage` | 3 jobs of every kind, 2 requests, 1 owner | 634 891 | one locking child, no missed batch, parents outlive runs, and the inductive invariant |
| `JobStoreBounds` | 3 jobs, 2 identities, 2 owner IDs, 2 requests, 3 ticks | 2 569 277 | the ceiling of a person, the rate of jobs created and admitted in a window, and both token budgets |
| `JobStoreEdits` | 2 jobs, 1 request, titles, refusals, failing store calls | 1 355 454 | a worker that can save owns its run, ended stays ended and keeps its charge, nothing written is lost |
| `JobRun` | 3 nodes, 1 client, every fault | 68 071 | the run implements `JobLog`; it ends where its deadline or a stop comes; streams are whole and close |
| `ObjectRows` | 1 job, 1 reader, every fault | 7 016 | names are stored, reads are whole, orphans go |
| `ObjectRowsUnsure` | 1 job | | **violated**: finding 2 |
| `Workspace` | cap 2, 3 jobs, 1 request beside the tasks and the sweep | 2 318 627 | asked jobs stay, but for the race of two reads in finding 1; continues are settled |
| `WorkspaceWaiting` | the same, without jobs that ask | | **violated**: finding 1 |
| `ProviderCalls` | 2 calls of one schema, 3 attempts, 4 rungs, a bucket of one token in halves | 84 417 | retries bounded, nothing sent again where it was refused, requests bounded, calls end |
| `Pipeline` | 4 graphs, 2 frameworks of 2 lanes, 2 claims | 122 456 | the report is whole, a re-ask stays in its brief, each drive ends in a result |
| `PipelineMarks` | the same | | **violated**: finding 3 |
| `Controls` | 3 saves of 2 Controls and 2 files, 1 reader | 1 662 784 | limits and aliases, one edit of a version lands, rows list stored texts |

Why the bounds are enough.

- *Job store.*  Two racing writers and one job they race for show an admission
  race; a third job makes a chain (a job, its child, its child's follow-up), which
  is what the parent rules can tell apart, and is one job more than a ceiling of one
  or a rate of two.  A window of one tick and a clock of two make a job leave the
  window, before its admission or after it.  A run that measures three tokens where
  one was reserved makes each of the bounds refuse a job that the others admit: the
  ceiling, the rate of two, the owner's three tokens, the deployment's four.  Two deletes of a parent and a child, one batch
  and one revision are what stale reads differ in.
- *JobRun.*  The log grows by nodes, and three of them put a fault before, between
  and after saves.  With one client the limit of open streams never binds: the run
  shows that the slot is given back, not the refusal of a second stream.
- *Workspace.*  Three jobs and a cap of two are the least in which room has to be
  made twice.  A submission's run pauses to ask or to be continued (`Modes`); jobs that
  never pause come as the children of those.  The sweep holds one job at a time,
  because it treats each apart from the rest.  It never lists a job whose task is still to continue it: such a job is
  minutes old, and retention is counted in days.
- *ProviderCalls.*  Two calls move one ladder under each other; four rungs let a
  late refusal come two rungs below; a bucket of one token of two halves is empty,
  part full and full.  The second schema is watched only, to see that a refusal of
  one schema leaves the other where it is.
- *Pipeline.*  The four graphs are those that differ in entry and passes; two
  frameworks race for `assemble`, and one has a claim that the other has not.
- *Controls.*  Three saves are an add and two edits of its version, or an edit and a
  new add beside them; one file at most is allowed and two are tried, so the file
  limit binds.  The limit of two Controls never binds with two IDs: the proof covers
  it for every limit.  At most one write raises after its commit (`MaxUnsure`).

`MaxRevision`, `MaxClock`, `MaxMinted`, `MaxNodes` and `MaxUnsure` bound counters
that the code does not bound, and appear in the guards of the actions that count;
`ProviderCalls` stops its count of a call's requests one above the bound that it
states.  Job IDs, owners and requests are symmetric in the runs of `JobStore`, and
saves, IDs, files and scopes in `Controls`; those runs have no liveness property.
Deadlock is not looked for: with every job ended, the IDs or the clock used up, the
modelled systems stop.

Fairness is stated in four modules.

- `JobRun`: a store call that starts or ends a run comes to an end, because
  `STORE_TIMEOUT_SECONDS` cancels it; a cancelled graph ends; a scheduled task
  begins; a stream polls again.  *No* fairness is given to the graph, its nodes, the
  save of a node's event or the deadline.  `RunEnds` says that where the deadline
  fires, the run ends; `StopEndsRun` that a stop ends it, even without a deadline.
- `ObjectRows`: the hourly sweep runs to its end again and again, objects age, and a
  removal that is tried for ever succeeds at last (strong fairness); none is given
  to any writer, delete or read.
- `ProviderCalls`: a request returns within its own timeout, and a back-off is
  bounded.  Nothing makes a call start.
- `Pipeline`: as long as a node can move, some node moves (`Progress`): each call
  ends by the fairness of `ProviderCalls`, and the bodies of the function nodes do
  not wait.  Which node moves is not fair.

Every property of a passing run has a mutant: a definition of the model changed as
a plausible defect would change the code, under which TLC finds the property
violated.  They stand before the definitions they change.

## 4. Findings

1. **A job that waits can be deleted to make room** (`webapp/main.py`,
   `make_room`).  The jobs to delete are chosen on entry and deleted after the new
   job is admitted.  A job that paused for its Controls alone does not wait while
   its Resumed Job runs.  If that job fails in between, the paused job waits again,
   the new job passes the ceiling, and the paused job is deleted.  The time of the
   choice that the delete carries does not keep it, since a child's failure does
   not touch its parent.  `Workspace` says that a job that waits for answers is never
   deleted.
   A job that *asked* can go the same way, by a shorter race.  Whether a paused job waits
   takes two store calls in `waiting`: what locks it, and how that job stands.  Where
   the Resumed Job fails between the two, the second finds a job that ended, and the
   paused job is taken for one that waits for nothing, although nothing locks it now.
   It is chosen, and deleted once the new job is admitted.  `AskedJobsStay` holds because
   it names this one exception (`Overtook`): there is no other way to it.
2. **An admission that commits and raises leaves a row that names nothing**
   (`sql_store.py`, `reserve`).  Its handler removes the objects for any exception,
   also for one raised by a commit that took effect (a reply that was lost, a
   cancellation during the commit).  The docstring says that the row never names an
   object that does not exist.  The job holds a slot until the next restart, and
   reads of its sources raise `CorruptObject`.  `add_control`, `replace_control` and
   `add_file` have handlers of the same form: `EvidenceStored` excepts the saves that
   raised after their commit (`Stranded`), and only those.
3. **A report can miss the drift of a re-ask** (`graph.py`, `route_review`).  The
   router writes that its framework is accepted before it writes the marks of its
   second look.  Another framework's trigger of `assemble` that comes between the two
   finds every framework finished and builds the report with the marks of the first
   look; the router's own trigger then finds the report written and builds nothing.
   `assemble_report` says that its passes over the parked artifacts are equal.  This
   rests on writes to the session state being seen at once by the bodies of the other
   nodes, as the gate of `assemble` itself does.

Other disagreements of the documents with the code, which no run states:

- **`attempts` is not the request count of a node.**  `resilience.py`, `retry.py` and
  `config/resilience.toml` say that it is, literally.  An attempt sends a request again
  for each rung that it comes down (`provider.py`, `InProcessExecutor.generate`), and an
  answer that breaks its schema is asked again in a loop with attempts of its own.  A
  call can send `2 * Attempts + Rungs - 1` requests: `RequestsBounded`, which passes, is
  that bound (`MaxRequests`), and with `Attempts` in its place it would be violated by
  the first call that comes down `Attempts` rungs.  The latency product in
  `config/resilience.toml` counts with the smaller number.
- **The rate bounds creations, not starts.**  `docs/Configuration.md` calls
  `max_jobs_per_window` the jobs that one owner may *start* per window.  `check_bounds`
  counts by `created_at`, which is older than an admission by the puts and the wait for
  the lock.  Two jobs created at 0 and admitted at 1 have left a window of one by 2, so a
  third is admitted: three starts in a window whose rate is two.  `RateHeld` is what does
  hold, of jobs both created and admitted in a window, and `AdmittedInBudget` sums the
  charges by the instant of creation too.
- **Room is made though nothing was admitted.**  `make_room` says that it deletes once
  the body admits a new job.  The task of a job that continues at its pause goes on to
  its continue however its run ended, and `continue_at_pause` starts nothing for one
  that failed.  That is a clean exit of the body, so the jobs chosen are deleted
  (`StartsNothing`).  It bites where the workspace is one over its cap, as answering a
  job allows.
- A comment in `Workspace.refusal` says that the store holds either a refusal or a
  Resumed Job once the task ended.  Where `set_continue_refusal` raises, which is
  logged, it holds neither; `ContinueIsSettled` says of such a job that its reason is
  `lost`.
- `docs/Configuration.md` says that a refusal at run time moves the tier down one
  rung.  A refusal of the *pair* that comes for a schema which is already below the
  tier moves the tier to the rung under that schema's (`ladder.py`, `moved_below`),
  which can be two or more.
- A `repair` that emits nothing leaves the extract's emission under its key, and
  `revalidate` then rejects the job with the issues the repair was to mend, where a
  silent node elsewhere fails the job (`SilentNodeError`).
- `GraphRun` says that one drive gives each node at most one entry
  (`execution.py`), and the wrapper of the nodes that only one node of a run is in
  flight at a time (`graph.py`); `assemble` runs once for each framework, and its own
  docstring describes two triggers at once.
- A call whose format was refused and which then fails transiently and is retried
  reports no `schema_fallback`: the retry starts on the new rung and knows of no
  refusal.
- `delete_control` removes what the row listed when it was read.  A replace that
  lands between its read and its delete leaves a new text without a row, which only
  the orphan sweep removes, where its docstring says that each evidence file goes.
- A replace whose row a delete removes under it, after the replace read it again,
  updates nothing and still answers that it replaced the Control (PostgreSQL).

## 5. What is proved

Eight modules hold proofs, each for every value of the constants that its component's
assumptions allow: any sets, any bounds.  The assumptions are types, distinct null
values, a finite set of jobs or IDs where rows are counted, what `build_pipeline`
refuses to build, and in `Workspace` that no request is the task of a job.  Each proof
finds an inductive invariant, shows that `Init` has it and that every action keeps it
(one step of the proof for each action, one lemma for each part that several actions
disturb), and takes the properties from it.

**`JobStore_proofs`**: `TypeCorrect`, `LineageHolds`, and from it `OneChild`,
`BatchesRead`, `ParentKept` and `WorkerOwns`.  None of the four properties is
inductive.  That one child locks a parent needs to know that a worker's late save
cannot bring a deleted or ended child back to life, so `WorkerOwnsRun`: a job with a
worker is held and in flight.  That in turn needs `CopyMatches`: what the worker
writes back has the parent, the link, the revision and the answers of the stored row.
That a child has read every batch needs to know that a request whose revision still
matches has seen the current answers, `SeenIsPast`; and that no correction of a final
report gets past a child, `ChainsAreWhole`: a final report has no child.  `LineageInv`
is their conjunction, and TLC evaluates it as well.  The proof splits by what a step
touches: steps that touch only the requests, only the worker's place, or only columns
that the lineage does not read are dispatched by lemmas on those frames; `Reserve`,
`SaveAnswers`, `Delete`, the worker's `Save` and `FallBack`, `EndRun` and `Restart` each
have a lemma for each part of the invariant they can disturb.

**`Admission_proofs`** builds on it: `CeilingStands`, `RateKept`, `BudgetKept`,
`EndedOnce`, `LosesNothing`.  The ceiling and the rate are of a *person*, and are checked
of an *owner ID*, so the proof needs that the two are one to one, also while first
submissions race: an identity keeps one owner ID, no two first submissions drew the same,
and one that was overtaken is refused where the principal exists (`OwnerInv`).  The
history `admitted` maps one to one to the jobs that a count sees, held or deleted, with
the owner and the time they were admitted with (`AdmissionInv`): so what admission counted
is what was admitted, whatever was deleted since.  The rate holds of every window and not
only of the one that ends now, which is what makes it inductive (`RateAlways`): a new
admission is the latest of each window that it falls in, so `check_bounds` has counted the
others, those created inside the window.  Nothing is assumed of how long a record waits
for its admission; of a record created before the window nothing is proved, and
nothing could be (section 4).  A job in flight has
measured nothing and a failed one costs its reservation at least (`ChargeInv`), so no late
save lowers a charge.  The three action properties are proved by the shape of a step: each
step either admits one job and leaves every other row, or admits nothing and edits, saves
or fails rows.  Of the token sums the proof uses only that `TokensOf`, which the property
states, and `Spent`, which the admission compares, add up the same jobs and costs; what
the sum of a set comes to is an induction, and stays with TLC.

**`JobRun_proofs`**: `RunTyped`, `SavesAccepted`, `WorkerEndsJob`, `ResultHolds`,
`StreamsWhole` and `Refinement`.  The invariant says, for each place of the worker and
each fate of the outstanding save (sent, or landed and not yet known to have), how far the
worker's record is ahead of the stored one.  It is never more than one event ahead, but
for the last save, which may carry a node whose own save was cut off and never landed
(`RunInv`, `EndInv`): that is why the store never refuses a save (`NeverRefused`), and why
`JobLog` lets the move that ends a job report nodes too.  A worker that is gone could read
and write, so the job it leaves is ended or deleted.  What became of a result is followed
through the last save and the fallback (`ResultInv`).  A stream holds a prefix of the log
because the log is only extended (`StreamInv`, with lemmas that say what `IsPrefix` keeps
under `Append` and `SubSeq`).  `Refinement` is the step simulation: `Init` maps to the
initial state of `JobLog`, and under the invariant every step is a move of `JobLog` or
leaves its two variables.

**`ObjectRows_proofs`**: `TypesHold`, `RowsNameStored`, `ReadsWhole`, `FaultlessRows`.  Four
parts: what the step of a writer says of its row (`WriterInv`), what it says of the objects
(`ObjectInv`), what a read has in hand (`ReaderInv`), and what anybody has in hand to
remove (`RemovalInv`).  The last carries the argument: an object in the hands of a delete
or of the removing sweep is named by no row, and by none that can still come, because the
window of an admission or a final save is one in which nobody else can have its objects in
hand.  `FaultlessRows` sharpens finding 2: without a call that raises, every row names
stored objects, with no exception.

**`ProviderCalls_proofs`**: `CallsTyped`, `BudgetBounds`, `LadderHolds`,
`CallsBounded`.  The bound of the retries follows from one that the bucket keeps with
every step: what was withdrawn and what is left is covered by the full bucket and the
credits.  The bound of the requests needs to know where a call stands on a ladder that
other calls move: its step is never below the ladder's, so each refusal takes it
strictly down, and its requests are at most its attempts and its step (`CallInv`).
`StaysBelowRefusals` is inductive with the types, because a move is always to the
larger of two steps.

**`Pipeline_proofs`**: `PipelineTyped` (which says too that no drive ends with neither
of the graph's results), `ReportWhole`, `ReaskBounded`.  A report is whole because a
trigger builds only once every framework is finished and a finished framework's
drafts and rulings do not change any more (`StageInv`, `AssemblyInv`); that nothing
comes back needs to know that a framework starts only from `prepare`, after the head
is over (`StartInv`).  That each drive has a result needs the least obvious fact: a
drive that is quiet without a report would have a trigger that saw an unfinished
framework, and the last framework to finish has a trigger of its own still due
(`EndInv`).

**`Controls_proofs`**: `ControlsTyped`, `BoundsHold`, `EditsOnce`, `TextsStored`.  The
lock is worth something only because what its holder read stays true until it writes,
although deletes take no lock (`LockInv`: a delete lowers the counts, and leaves a
replace without its row).  A row is the version of one landed save which nobody
replaced (`RowInv`), so no other landed save has the same version as its base.  That
nothing listed is removed needs the converse of what the code does: what anybody
holds in hand to remove is listed by no row *and by none that can still come*, because
its save is over (`GoneInv`).

**`Workspace_proofs`**: `WorkspaceTyped`, `AskedStay`, `ContinuesSettle`.  A job that
paused to ask is chosen only where a child of it had ended with its answers read, or
where its Resumed Job failed between the two reads (`Chosen`).  In the first case it
never waits again, however late it is deleted, because a child that ended stays ended and
nothing undoes it (`RoomInv`, with `Unwanted`); the second is the shorter race of
finding 1, and the theorem excepts it by name.  The invariant therefore follows the Resumed Job that `Ask` found
until `AskChild` reads it.  A job that paused for its Controls alone has no such child,
which is finding 1 itself.  That the task of a paused job ends with a Resumed Job or with a
reason needs to know that a continuing task makes room for its own job, and that a task
which deletes has its child, unless its job did not pause (`JobInv`).

With this every safety invariant, every action property and the refinement that a passing
run checks is proved, and TLC checks them too.  **Only model-checked** is liveness
(`RunEnds`, `StopEndsRun` and `StreamsClose` in `JobRun`, `OrphansGo` in `ObjectRows`,
`CallsEnd` in `ProviderCalls`, `RunEnds` in `Pipeline`): it rests on fairness, that is on
`ENABLED`, which the prover does not reason about.  The three properties that runs find
violated are claims of the repository's documents and comments, and false.

## 6. Plan

In this order, the most important first:

1. `SqlAdmission`: the statements and locks of `SqlJobStore._admit`, `delete` and
   `save_answers`, shown to implement `JobStore`'s atomic calls.
2. Pure operators: the merge of carried answers (`answer_state.py`) against a reference
   definition.
3. The owner's own deletes and drafts in `Workspace`, and several requests over one
   cap.

## 7. Not modelled, and why

Most of the repository's lines carry data and not control, and a model of them would
repeat them.  `claims.py`, `assertions.py`, the system model and its vocabularies, and
the report's rendering are sequential functions of one job's data over large closed
vocabularies: what they accept is a list of rules, each of which a test states as
well.  Of their outcome the models keep what the machinery tells apart: a valid or
invalid extraction, a set of drafts, a ruling that stands or does not, a pause that
asks or does not.  `evals/` is offline measurement of the model's answers.

Also left out: pages and settings of the web app (rendering, one file); the
deployment configuration, model tiers and cloud credentials (read once, or external);
migrations, prompts and the framework data; the diagram reader (one call and a
parser).  Inside modelled parts: records of another schema version, the job's own copy
of its Controls, answers carried from another job, the two reads by name of the Owner
Files, the wait between two attempts and its length, prompt caching, the session
store of ADK, and the eval-only entries of the graph.
