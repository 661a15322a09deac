# Zhaoniu: a verification project

Zhaoniu (`src/`) is a research workbench for A-share stocks. A FastAPI application
(`src/apps/api`), Celery workers with a Beat schedule (`src/apps/worker`) and a Next.js web
application (`src/apps/web`) interact through PostgreSQL rows and Celery messages. There are
no threads that share memory: everything that is hard about this program comes from database
transactions of several processes interleaving, from ORM sessions that outlive them, from
messages that are lost, delayed or delivered again, and from processes that stop between two
commits. The modules here model those parts as they are coded, TLC checks them on small
instances, and TLAPS proves every safety invariant and every action property that the passing
runs check, and the two refinements, for every value of the constants.

## 1. The system's parts

Sources are under `src/apps/api/src/zhaoniu_api` unless said otherwise.

| Part | State it keeps | Operations | What is hard | What makes it correct | Module |
|---|---|---|---|---|---|
| Automation run engine (`automation/service.py`) | run, step and attempt rows, leases | claim, execute step, finalize, resume, mark stalled | several workers in one run after a lease lapsed, stale ORM rows, crashes, partial failure | attempts are an append-only ledger; the verdict is true of the steps; active runs settle | `AutomationRun` |
| Policies, schedule, watchlist requests (`automation/`) | policy, revisions, run rows, messages | edit, tick, catch up, bring back, ask, mark stalled | overlapping ticks, a locked SELECT that refreshes nothing, swallowed send errors | a slot is answered, once under each revision; pending runs are taken | `Schedule` |
| AI explanation requests (`ai_explanations/`) | requests, runs, outputs, the day's quota | create, retry, enqueue, execute, reclaim | lost or repeated messages, a late worker, quota and runs in different transactions | every model call is paid for, or was interrupted; ready shows an output; requests settle | `AIExplanation` |
| Company comparison (`comparisons/`) | requests, snapshots, build runs, AI runs, quota | create, repost, enqueue, execute, stale read | one long transaction, duplicate deliveries, inputs that change between two builds | quota matches runs; what is shown was built; requests settle | `Comparison` |
| Coverage and backfill (`coverage/`) | coverage snapshot, plan, items | evaluate, plan, run, recover | no owner of a run: calls overlap, die in an item and are repeated; blind final status | what is reported changed has reached the feed; upstream first; a run that is over tells the truth | `Backfill` |
| Managed provider configuration (`provider_configuration/`) | row with `row_version`, revisions, two credential slots, diagnostics | view, save, discard, diagnose, publish, remove, lookup | optimistic versions, unlocked multi-statement reads, generation numbers used again | what is in force was proven with the secret in force | `ProviderConfiguration` |
| Production release (`production_release/`) | candidate, approvals, events, evidence | create, approve, evaluate, record | order of legal calls, evidence that expires between gate and record | four eyes; released on live evidence; terminal stays | `ProductionRelease` |
| Provider acceptance (`provider_acceptance/`) | runs, items | run | statement-by-statement reads while ingestion goes on | what passed is retained | `ProviderAcceptance` |
| Invite beta (`invite_beta/`) and registration (`auth/`) | cohorts, recipients, invitations, users | approve, dispatch, pause, close, register | a commit in the middle of dispatch gives the lock up; registrations race for capacity | closed stays closed; capacity is kept; an invitation makes one account | `InviteBeta` |
| Access control (`access_control/`) | codes, subscriptions, redemptions | issue, activate | the race for the first subscription row, calendar arithmetic | a day that was paid is enabled, and is paid once | `AccessControl` |
| Transactional email (`auth/email.py`, worker, webhooks) | deliveries, provider events | create, send, retry, webhook | lost, repeated and retried tasks, events in any order | a delivery is decided while anybody has it; a queued one is sent | `TransactionalEmail` |
| Research feed and alerts (`research_feed/`) | signals, dispatches, alerts, settings | project, dispatch, page | projection and dispatch in different transactions; rows arriving between two pages | a steady watcher is alerted; a signal is matched once; no page repeats a row | `ResearchFeed` |
| Screening (`screening/service.py`) | snapshots, executions, results | build, request, claim, evaluate | overlapping evaluations that delete and insert results; evidence observed again | an execution shows what its cutoff let it know | `Screening` |
| Parsing of screens, saved screens (`screening/natural_language.py`) | parse runs, one reading of a text, saved screens | request, claim, call models, save | unlocked limits, input that exists once, repeated messages | one task calls models; a text is parsed once, into what it says | `ScreenParse`, `WorkOrders` |
| Stock research by AI (`ai_research/`) | runs, documents | order, acquire, complete, fail, repair | check-then-update leases, blind ends, a chain of models with one repair | one writer; a success has its one document | `AIResearch`, `WorkOrders` |
| Fundamentals (`fundamentals/`), research snapshots (`research/`) | statements, valuations, metrics, snapshots, build runs | sync, build | an as_of taken before the data is read, identity by content, two transactions at a build's end | what is shown is of what was stored, or read, last | `CompanyFacts` |
| Operations console, corporate events, peer research, market data, timeline, readiness, persistence, shell, web, deployment | rows written by one process, or none | fetch, compute, render | mostly input, output and computation | determinism, which the tests of `src/` cover | - |

How they interact: an API route commits a row and then enqueues a message that names it
(`dispatch.py`, `routes.py`); a worker takes the message, opens a session of its own and
calls the service (`src/apps/worker/src/zhaoniu_worker/celery_app.py`); Celery acknowledges
late and redelivers a message whose worker was lost (`task_acks_late`,
`task_reject_on_worker_lost`); Beat ticks every minute and hands out claimable automation
runs; web pages poll what is not done. Sessions are made with `expire_on_commit=False`, so a
row a session has read stays as it was read until a rollback expires it.

`PROJECT.json` lists the hazards line by line, with the properties that are about them.

## 2. Modules

Every action is one database transaction, or one read that the code makes outside of the
transaction that later uses it. What a session holds of the rows it has read is state of the
process (`cache`, `mine`, `diagnosis`, `call`, `tick`, `screener`, `builder`), apart from the
rows. Which source lines a definition stands for is in the `map` of `PROJECT.json`.

**AutomationRun**: one row of `automation_runs` and its steps. `run`, `step`, `ledger` are the
three tables; `pc`, `todo`, `cache`, `job` a worker inside `execute_run`; `stale` a watchlist
request between judging the run stalled and saying so. A lease is the ticks that are left, so
that "expires exactly now" is a value of its own: the code reclaims a run with `<=` and its
steps with `<`. `Claim`, `LoadSteps` are `execute_run` (lock, reset of lapsed steps, lease,
commit; the SELECT); `BeginStep`, `BeginStepRaises`, `FinishStep` `_execute_step` around its
first commit, with the unique constraint and the expired rows that make it raise; `Finalize`
`_finalize_run` through the rows the session holds; `Resume`, `JudgeStalled`, `MarkStalled`
the requests. `Timely` says that no live worker outlives its leases.

**Schedule**: the policy with its revisions (`editions`, `current`), the rows of runs, the
messages (`sent`) and sessions of ticks, requests and editors. `StartTick` is the SELECT of
what is to be brought back, `ReadPolicy`, `AddMissed`, `LookForSlot`, `AddSlot`, `SendRuns`
the rest of `tick` and `_automation_tick`; `CommitEdit` writes from what the session had
loaded, because a locking SELECT does not refresh it.

**AIExplanation**: the requests of one user for one question on one stock. `request`, `run`,
`used` are tables, `owed` the routes between commit and enqueue, `queue` the broker, `pc` and
`mine` a worker inside `execute`. A run is found by a hash of what its model is asked: the
context with the request's `knowledge_cutoff`, and what each execution reads for itself, the
latest snapshot, the signals, the prompt and the route with its configuration's revision. A run
is therefore named by its cutoff and the `edition` of the rest (`ReadContext`), which a snapshot,
a signal or a publication changes at any time (`EditionChanges`); `calls` counts the rows of
`llm_calls`. A lease lapses only when no live worker holds the run: a model call is bounded far
below thirty minutes.

**Comparison**: `ComparisonService.execute` is a single transaction: what a worker has flushed
but not committed (`opened`, `taken`) is visible to others only as a lock, and a rollback
undoes it. `inputs` counts the backfills that retained rows known before the cutoff, so two
builds of one request may find different inputs. `judged`, `aged`, `lapsed` are the stale read
of `get` and `list_requests`.

**Backfill**: `retained` by stock and dimension, the coverage snapshot, one plan and its items,
and the calls of `run_backfill`: `StartCall` locks the run to its first commit, then
`LoadItems`, `BeginItem`, `WorkItem`, `FinishItem` or `FailItem`, `CountItems`, `CloseRun` and
`EvaluateAgain` work from the list the call has loaded. `overlapped` remembers that two calls,
or a call and a recovery, have met.

**ProviderConfiguration**: one managed provider. `seen` is what each operator's console shows;
each action carries that version. `issued` numbers the secrets that were entered; the code
knows them by a generation that starts over when the credentials were removed, and
`EnabledIsProven` is about the secrets themselves. A diagnosis and a runtime lookup read row
after row without a lock.

**ProductionRelease**: one candidate. Calls that write hold its row (`gateCall`); the evidence,
the settings, the conditions and the clock move between the reads of `_invite_activation_checks`
(`ReadCheck`). **ProviderAcceptance**: `run` reads every dataset of every symbol, one after the
other, while `Ingest` and `Delist` go on; `Summarize` writes the items and the verdict.

**InviteBeta**: one cohort and `AuthService.register`. An invitation, its recipient and the
recipient's email share a name; `Direct` are invitations bound to no email. `Dispatch` ends
with the commit at line 306, which gives the lock up; `Send`, `DispatchEnds` follow; the locks
of `Close` grow with its loop, because autoflush sends the UPDATE of one recipient when the
invitation of the next is read; `Register`, `LockInvite`, `MatchRecipient`, `CheckCohort`,
`InsertUser`, `Admit`, `Refuse` are `register`.

**AccessControl**: `activate` reads its clock, waits for the code's row, then for that of the
subscription, of which there is none before the first redemption commits. Days are numbered
31 * month + day over a cycle of months of given lengths. **TransactionalEmail**: a delivery
from the call that creates it, which may stop and leave it pending (`SenderStops`), over the
task (`TakeTask`, `GatewayAccepts`, `Submit`, `Acknowledge`) to Resend's webhooks, with lost and
repeated copies of a message. A task that raises is put back while it has retries:
`TaskFails` after a `TransactionalEmailError`, whose failure is committed, `TaskRaises` after
any other exception, which rolls the row back to what it was.

**ResearchFeed**: one stock. `known` are its retained artifacts, `signal`, `watch`, `setting`,
`dispatched`, `delivery` tables, `session` a worker in `project_symbol` or `dispatch`, `page`
a user in the feed. A signal, its source and its fingerprint share a name. `ProjectCommits`
commits all of what was read, or fails for `uq_research_signal_semantic`; `DispatchBegins`
flushes the run row that keeps others out; `MatchUser` reads the settings user by user.

**Screening**: evidence rows in the order of their ids, snapshots that reference them,
executions and their evaluators. A valuation is observed again in its row
(`ObserveAgain`), everything else only added. `CommitResults` deletes the results that its
statement saw and inserts its own; `FailScreen` is the except clause, which writes `failed`
over whatever another evaluation has made of the execution. **ScreenParse**: requests against the unlocked limits, the
text that is kept for one reading, the claim, the chain of models, saved screens.
**AIResearch**: the lease of a run in two steps (`AcquireResearch` looks, `TakeResearch`
updates and asks again), the chain of models with one repair and the sanitizer, the document
and the blind ends.

**CompanyFacts**: `FetchFacts`, `StoreReports` or `StoreValuations`, then `ReadReports`,
`ReadValuations` under an as_of taken before, `SaveMetrics` (a snapshot of the same data stays
as it was) and `FinishSync`; and the builds of research snapshots with their leased runs.

**WorkOrders** is the abstract specification: an order is new, declined, open, failed or
answered; it is answered once and the answer stays. Screen parsing and AI research implement it
(`ParsesAreOrderly`, `HealthIsOrderly`, with the refinement mappings at the end of
`ScreenParse` and `AIResearch`).

**MC modules** give constants their values and put modules side by side: `MC_Automation` (a run,
the feed, screening, company facts), `MC_Pipeline` (a run, parsing, AI research), `MC_Requests`
(explanations, comparisons, backfill), `MC_Operations` (provider, release, acceptance, schedule,
screening), `MC_Accounts` (invite beta, access, mail, schedule), `MC_ResearchFeed` (the feed).
A variable `side`, chosen initially, says which of them moves in a behaviour: to interleave
parts that hardly meet would only multiply states. Where they do meet, the step of the other
part is an action of the module that meets it (evidence for a gate, a retained artifact, a
backfill below a comparison, a dispatch's mail). One meeting is left out: explanations and the
AI part of comparisons count in the same row of the day's quota; each module has the counter
to itself, with any limit.
`EachIsItself` (`SidesAreSpecified` for the requests) proves
of each composition that it implements the specification of every part, so that what is proved
of a part holds in the composition.

## 3. Runs

| Run | Instance | What it shows |
|---|---|---|
| `run_overlap` | run: 2 workers, 2 steps (one AI), 2 claims, 1 resume, leases of 1 tick, a watchlist request; feed: 2 artifacts of two groups, 2 sessions, 1 user, pages of 1 row; screening: 2 stocks, 2 rows of evidence, 2 evaluators, leases of 1 minute in 2, a message lost or delivered twice, or an evaluation that fails; facts: 2 syncs, or 2 builds beside one sync, 2 values, 3 moments, a failure | The attempt ledger is gapless and history though workers outlive their leases; a steady watcher is alerted; executions show what their cutoff let them know, however often and late they are evaluated, and a pending one has its message; the metrics and the research shown are of what was stored and read last |
| `run_timely` | run: 2 workers, 3 steps (two required stages, one AI), 1 crash, 1 resume, leases of 2 ticks, timely, fair; parsing: 3 texts, 2 requests, 2 tasks, chain of 2; research: 2 tasks, 2 shapes, chain of 2, 3 orders, 2 losses | The verdict is true of the rows, no success is repeated, an active run settles; an accepted parse is on its way; one task writes a company's document, and a success has exactly one; both implement `WorkOrders` |
| `run_reclaim` | 2 workers, 2 steps, 1 crash (expected violation) | A reclaim takes the run but not the step of the worker that was lost, and the run ends with a step `running` |
| `requests_redelivery` | explanations: 2 requests, 2 workers, quota 2, a lost worker, a lost API process, a new snapshot; comparisons: 2 requests, quota 1; backfill: 2 stocks with four gaps, 2 calls, batches of 2, an interruption | No more runs and model calls than units of quota and lost workers; what a backfill reports as changed has reached the feed, and a run that is over tells the truth; upstream steps first |
| `requests_settling` | explanations: 1 request, 2 workers, a new snapshot, an enqueue that raises although the broker took the message; comparisons: 1 request, 2 workers, 1 backfill below it, 1 trouble; backfill: 1 stock, 2 calls, an interruption; fair | A unit of quota and its AI run commit together; answers are there; every request settles and every backfill that is asked for ends |
| `explain_stranded` | 1 request, 1 worker, 1 crash (expected violation) | The redelivered message is acknowledged while the lease is alive; nobody reclaims it |
| `operations` | 2 operators, a diagnosis, a lookup, 2 drafts, 4 versions; 4 members of staff, one kind of evidence, one condition; 2 symbols with 3 datasets; 2 ticks, 2 editors, 2 configurations; the smallest screening | What is enabled was proven with the very secret, an undisturbed lookup gets it; four eyes, live evidence; what was accepted is retained; a due slot is answered, once under each revision |
| `accounts` | 2 recipients, 1 direct invitation, 2 calls of register, 2 seats; 3 codes, 2 calls, months of 2 and 1 days; 1 mail, 2 workers, 1 retry, 1 loss, exceptions of both kinds; 1 tick, 1 request, 1 mishap; mail and schedule fair | Seats, invitations and accounts agree; a closed cohort admits nobody; paid days are enabled; a mail is decided while its request or a message of it is left, and sent unless its retries are used up; a pending run is taken |
| `feed_paging` | 3 artifacts, two of one group, 1 session (expected violation) | A version of a group that is projected between two pages takes the group from the pages to come |
| `release_observed` | as `operations` (expected violation) | A candidate is released on an observation of the hours before its deployment |
| `coverage_gated` | 1 stock with a partial event radar (expected violation) | A source is collected from in a scope that is to fail closed |
| `screen_valuation` | 2 stocks, a valuation observed again (expected violation) | Results hold a value that became known after the snapshot's cutoff |

The type invariant of a run is the conjunction of those of its parts (`AutomationTypeOK`,
`PipelineTypeOK`, `RequestsTypeOK`, `OperationsTypeOK`, `AccountsTypeOK`).

Bounds. Two workers are enough for every pairwise race and for a reclaim after a crash; a
third would only repeat one of the two, since sessions share nothing but the rows. The 12
claims of `run_timely` are more than a run with one crash and one resume can use, so that the
bound never ends a behaviour that fairness would continue; in `run_overlap`, where nothing is
to be reached, 2 are enough for a second worker in the run. In `requests_settling` the quota
is the creation and one retry: with a third unit a worker that is late by two cutoffs
re-attaches an old run (below). Four versions of a provider's row allow save, publish, save
and one of publish, discard or removal; `MaxSessions` lets two of the ticks and editors be
under way together. Three invitations for two seats make the seats run out. In the feed two
instants tell "before" from "at the same time", and with a window of 0 an artifact known a tick
ago is late. In screening one snapshot and two rows of evidence give a stock a superseded row, or
a row that is known only after the cutoff, and one of the two values does not pass the filter.
A lease of a minute ends when the second of two has passed, and a message delivered twice brings
a second evaluator then, so that both evaluate one execution, side by side or the second after
the first has succeeded. One lost worker of explanations and one change of what executions read
are what it takes for a run that nobody paid for. Three moments in the facts give two overlapping syncs an as_of
each and a collection. What these bounds leave out the proofs cover: the theorems of section 4
are for all of them. One of them did: see `SyncedIsShown` in section 5.

`CHECK_DEADLOCK FALSE` everywhere: a run that has its verdict, a request that was answered
and bounds that are used up leave nothing to do. Symmetry is declared only in runs without
temporal liveness properties.

Fairness. `AutomationRun`: weak fairness of each worker's own steps (Celery runs what it has
taken), of some worker claiming what is claimable (the Beat tick re-enqueues it each minute)
and of the clock. `AIExplanation`: the same of workers, of routes that have committed (unless
the API process is lost) and of messages being taken; nothing polls for lapsed runs, so nothing
fair reclaims them. `Comparison`: in addition the page of a request that is not done polls it
every few seconds (`src/apps/web`), and that read is what declares it stalled. `Backfill`: its
calls go on, and its operator, or Celery, asks again while the run is not over.
`TransactionalEmail`: senders go on unless they stop for good, and mail workers go on. `Schedule`: ticks start and go on, and
messages that were sent are taken. Creating, retrying, resuming, editing, crashing and losing
are never fair, and the other modules claim no liveness: no code of theirs resumes what was
interrupted.

## 4. Proofs

Every invariant and every action property that a passing run checks is a theorem of the
specification of its part, and so are the two refinements, for every value of the constants
that the named assumptions of the modules allow. The assumptions say what the constants are
(bounds are natural numbers, leases last at least a tick, sets that are counted are finite);
one deserves a word. A provider acceptance reads no symbol and no dataset twice: a doubled symbol
would break `uq_provider_acceptance_item` (`db.py:616`), so that no such run commits.

| Module | Theorems (property) | Inductive invariant, and why the property alone is not one |
|---|---|---|
| `AutomationRunProofs` | `LedgerIsGapless`, `OneAuthor`, `HistoryIsKept` | `IInv`: a worker numbers its attempt from a session that may be arbitrarily stale. The session is never ahead (`CacheIsBehind`), the attempt in a worker's hands is in the ledger without an outcome (`JobIsOpen`), so a stale session proposes a number that is next or taken, and the second is refused by `uq_automation_step_attempt` |
| | `OneWorker`, `VerdictMatches`, `NoRepetition`, for `Timely` runs without a watchlist request | `TimelyInv`: whoever is inside holds the lease (`InsideTheLease`), so what its unrefreshed session holds is what the database holds (`SessionIsCurrent`), its attempt is the latest (`JobIsLatest`), and a verdict counted from the session is counted from the rows |
| `ScheduleProofs` | `PolicyIsCurrent`, `OneRun`, `EverySlot` | `ScheduleInv`: what a tick that began in this instant knows of a policy nobody has edited since (`TickKnows`), and that a tick past its slot leaves it answered |
| `RequestsProofs` | `Affordable`, `ReadyIsShown` | `ExplainInv`: that there are as many executions as units and lost workers is no use without those to come. API calls that have yet to enqueue, messages, and sessions that have yet to open their run, or to call their model, are counted with the runs and the calls there are (`Paid`); what a run or a session takes for a success has an output (`Shown`) |
| | `UsageIsCalls`, `AnswersAreBuilt` | `CompareInv`: what an open transaction has taken pays for an AI run that is not there yet (`TakenIsOwed`), the row lock has one holder, and a verdict is that of the snapshot the transaction found or inserts alone |
| | `TheReportIsTrue`, `UpstreamIsFirst`, `BlockedStays` | `BackfillInv`: a call's list is in the order of the plan and what else is pending comes after it (`InOrder`), unless calls overlapped there is one (`OneCall`), whose count is of the items as they are (`Closing`). Batches are proved to be the first of the plan's order by counting ranks |
| `OperationsProofs` | `OneOfEach`, `Enabled`, `UndisturbedCall`, `NobodyUnseen` | `ProviderInv`: while a draft is the draft its credentials can only go, so no diagnosis of it can have seen another secret (`DraftHasItsSecret`), although generations start over |
| | `Approvals`, `EventsAgree`, `Terminals`, `LiveEvidence` | `ReleaseInv`: what the call that holds the candidate has found so far stays found (`FoundSoFar`), and what was deployed or released has its approvals (`EventsAreApproved`) |
| | `AcceptedRetained` | a read that found something missing has failed the run; and, for the types, the items are the reads made, each once, and are counted |
| `AccountsProofs` | `CapacityIsKept`, `OneAccountEach`, `FailedStaysOut`, `ClosedStaysClosed` | `IInv`: what register and close read once and still rely on: the advisory lock keeps the count (`CallsHaveRoom`), a locked invitation stays usable because close waits for it (`CallsAreCurrent`), a usable invitation is of a recipient whom close would withdraw (`CloseSeesAll`), a cohort once closed is never approved again (`ClosedIsDead`), before a dispatch's last write no call is past the cohort's check |
| | `PeriodsStayApart`, `PaidIsEnabled` | `AccessInv`, on every calendar: two calls never hold an account's row (`LocksHold`), and the subscription ends after every period that was paid for (`PeriodsAreCovered`); lemmas on the numbering of days say that a term ends on a day that is one, and later |
| | `MailTypeCorrect` | the broker's copies of a message are those that workers have and those redelivered (`CopiesAreCounted`, with cardinalities) |
| `PipelineProofs` | `OneTaskAtATime`, `ItsOwnText`, `Accepted`, `SettledStays`, `Overshoot`, `ParseImplementsOrders` | `ParseInv`: what a task may rely on after the text has gone (`TasksHold`) and where an accepted run's message is (`SureAreKept`); `Overshoot` counts the requests that have looked and not yet inserted |
| | `OneWriter`, `OneDocument`, `HealthImplementsOrders` | `HealthInv`: a task that calls has a run that is going on, whose lease it began before (`LeasesAreHeld`), and its answer has the structure of what it repaired (`CallsAreCounted`) |
| `ScreeningProofs` | `StatementsStay`, `AnsweredHasMessage` | `ScreeningInv`: snapshots are of their cutoff and their facts' values do not change (`SnapshotsAreFirm`); whatever evaluator writes, now or later, writes the same (`ScreenersAreSound`). That results in the order of `Precedes` are all that pass rests on an order of a finite set having a place for each of 1..n |
| `AutomationProofs` | `SyncedShown`, `BuiltShown` | `FactsInv`: of what syncs and builds have read, saved or not, a later as_of or cutoff is of data at least as new (`MetricsInOrder`, `BuildsInOrder`), and the sync that stored last has read what it stored (`StoredIsRead`) |
| | `SteadyAlerted`, `AlertedOnce`, `ShownOnce`, `SignalsStayAsTheyAre` | `FeedInv`: what a dispatch under way has matched and has still to read of a steady user (`SessionsAreSound`); the rows in front of a cursor are a row, and what was shown ends with the cursor (`PagesAreSound`) |

The compositions have their types and, of `MC_Requests`, that every answer is there
(`AnsweredIsThere`) as theorems of their own. Lemmas that several proofs cite stand before
them: `RowAdded` on sequences, `SomebodyIsFirst`, `Places` on orders of finite sets,
`DayNumbers` on the calendar, `TakersMove` on counting.

Only model-checked: what is under fairness (`RunSettles`, `EveryRequestSettles`,
`EveryMailEnds`, `PendingIsTaken`), since liveness and ENABLED are beyond the prover. The
counterexamples of the runs that expect a violation are TLC's.


## 5. Where the code differs from what the repository says

Six are runs of their own (`findings` in `PROJECT.json`):

- `automation/service.py:852`. `docs/AUTOMATED_RESEARCH_OPERATIONS.md:81`: "A new worker may
  reclaim an expired lease atomically." The lease of the step in execution is set after that
  of the run, so a reclaim between the two leaves the step `running` in a terminal run.
- `ai_explanations/service.py:285`. `docs/ARCHITECTURE.md:87`: "An expired 30-minute lease
  may be reclaimed". The redelivered message comes at once, finds the lease alive and is
  acknowledged; the request stays `building`.
- `research_feed/service.py:439`. `docs/ARCHITECTURE.md:160`: "Feed cursors freeze a
  `query_cutoff` [...] so pagination remains stable while new signals arrive." The cutoff
  bounds `known_at`, not the instant of projection; a newer version of a group that sorts
  before the cursor hides the version that was still to be shown.
- `automation/service.py:1408`. `docs/PHASE_22_PRODUCTION_RELEASE_GATE.md:15` has the release
  follow a completed observation. The window of an observation is the hours before it is made,
  whatever was deployed in them.
- `coverage/service.py:574`. `docs/BETA_RESEARCH_COVERAGE.md:36`: other scopes than the
  development one "fail closed". A partial event radar overwrites `blocked_by_policy`, and the
  collection is planned.
- `infrastructure/sql_repositories.py:704`. `docs/SCREENING_ENGINE.md:23`: a snapshot is
  immutable and knows nothing after its cutoff. A valuation that is observed again changes in
  the row that the snapshot references.

The others were met while modelling or proving; the models have this behaviour, and the
properties are stated so as not to deny it.

Runs and schedule:

- A worker that outlives its lease executes a step that succeeded meanwhile
  (`automation/service.py:890`; `docs/AUTOMATED_RESEARCH_OPERATIONS.md:83`).
- A watchlist request fails a run that was just resumed, because it judges `created_at`
  (`automation/service.py:621`; `docs/AUTOMATED_RESEARCH_OPERATIONS.md:179`).
- A policy edited after a day's slot was answered gives the day a second run: the key of a slot
  names the configuration. `SlotIsAnswered` and `OneRunPerRevision` say what is left.

Explanations and comparisons:

- Two deliveries that both read a lapsed AI run both reclaim it (`ai_explanations/service.py:440`;
  `docs/LLM_POLICY.md:32`).
- Equivalent explanation requests never share a run, since the hashed context contains the
  cutoff (`ai_explanations/context.py:37`; `docs/AI_RESEARCH.md:62`).
- A redelivered message executes a failed run again without a retry and its quota
  (`ai_explanations/service.py:449`; `docs/ARCHITECTURE.md:87`). A ready request therefore has
  its output, but the run it names need not say `succeeded`: `ReadyHasItsOutput` is about the
  output.
- What was paid for is a request, not a run: the key hashes what an execution reads
  (`ai_explanations/service.py:240`, `:258`). A message that comes back after a new snapshot, a
  late signal or a published configuration opens a second run and calls the model a second time
  on the same unit; `EveryCallIsPaidFor` allows one such call for each worker that was lost.
- A worker late by two retries sets `run_id` back, and the request is left out when its new
  run ends.
- A comparison that is ready becomes failed when a duplicate delivery loses the race for the
  build run and the except clause (`comparisons/service.py:281`) fails the request whatever it
  has become, or by a stale mark decided before the commit; and one that was marked stalled is
  built by the message that was still queued (`docs/ROADMAP.md:340`,
  `docs/PHASE_25_BETA_READINESS.md:241`).
- The lease of a comparison's build run is never visible while it is built: it commits with
  the snapshot (`docs/DATA_MODEL.md:286`).
- `snapshot_id` is written only if it differs from what the session read. After a repeated
  POST, a worker that is lost and a backfill, the row may keep another delivery's snapshot
  beside a verdict counted from one's own (`comparisons/service.py:266`); `AnswerIsBuilt`
  says that what is shown was built, not that both are of one snapshot.

Backfill:

- What `compute_fundamentals` changes is never projected, and an item's fingerprint does not
  contain it (`coverage/service.py:960`, `:994`, `:1015`); the truth of the report is stated of
  the other actions.

Invitations, mail, release:

- The last write of a dispatch makes a cohort active, or paused, that was paused or closed
  meanwhile (`invite_beta/service.py:331`; `pause` at line 340 takes closed for final). No
  invitation comes back with it (`ClosedAdmitsNobody`).
- A close that has read its recipients while a registration commits writes `withdrawn` over
  `registered`; the account stays.
- A dispatch lost after line 306 leaves the cohort `dispatching`: it is dispatched only when
  approved, so that pause and close are all that is left, and its recipients are refused.
- A recipient quicker than the last write of the dispatch is refused
  (`auth/service.py:134`), and one whose send raised although it was sent is refused for good.
- A delivery stays `pending` for ever when its request stops between commit and `send_task`, or
  when each of its tries raises what the task does not catch: the gateway cannot be built
  (`celery_app.py:63`), or Resend accepted the mail with an answer that is not JSON
  (`auth/email.py:174`), so that its webhooks are unmatched as well. `MailSettles` is about the
  deliveries somebody still has.
- An acceptance run that is given a symbol twice fails on `uq_provider_acceptance_item`.

Feed:

- A session that fails between the commit of a projection and the last of its dispatches
  leaves signals without alerts for good: the retry of the step finds nothing to project
  (`automation/service.py:408`).
- The lease of a dispatch run is never visible: it is flushed and committed with its
  deliveries (`docs/DATA_MODEL.md:153`).
- A user who has never opened the alert settings has no row and gets no alerts, though the
  defaults of a row are enabled (`research_feed/service.py:706`).

Screening and parsing:

- An execution whose worker is lost stays `running`: a message that comes back finds the lease
  alive, and asking again returns the same row (`screening/service.py:1145`;
  `docs/SCREENING_ENGINE.md:29`). A failed execution is returned for good in the same way, also one
  whose late evaluation failed after another had succeeded: the except clause writes `failed`
  over it (`screening/service.py:1172`).
- Two requests that create one execution at once: the second fails on the unique key.
- A parse whose second message claims it first is without its text, and fails; the failed row is
  what everybody who asks for that text gets from then on.

Stock research by AI:

- A task without `retry_failed` takes a run that failed between its SELECT and its UPDATE,
  because the condition of the UPDATE (`ai_research/sql_repository.py:136`) does not have the
  flag; `docs/DATA_MODEL.md:91` has failed work "retried on the same row only when explicitly
  requested".
- The latest document is that generated last (`:60`), so a slow task about an older snapshot
  hides the current one.
- A run whose worker is lost shows as building until somebody orders it after its lease.

Company facts:

- A sync of reports takes its as_of before it reads, and the valuations it reads afterwards are
  bounded by their day only (`fundamentals/service.py:173`): it may save metrics of newer
  valuations under an older as_of, and a later sync that finds the same data leaves that
  snapshot as it was (`infrastructure/sql_repositories.py:603`). `SyncedIsShown` was first
  stated without that, held on the three moments of the run, and had no proof; with five
  moments TLC showed why. It now leaves out such mixed reads and values that return.
- A build of a research snapshot that reads its two inputs around a collection is of neither
  state (`research/service.py:127`); `BuiltIsShown` leaves such builds out, and values that
  return.

## 6. Not modelled

Computations over fetched data (metrics, percentiles, event classification, screening
queries, coverage scores), formatting, prompts and validation rules, HTTP and authentication
plumbing, pages. In the modelled parts:

- runs: which steps are planned, snapshots of service levels, which hours an observation covers
  apart from its window;
- explanations and comparisons: saved comparisons, what a document contains, the row of the
  day's quota that both share;
- backfill: how a universe is ranked and frozen, the AI dimension, feedback, the learning report;
- providers: `reencrypt_all`, hourly limits of diagnostics;
- invite beta and accounts: the reasons of the invite gate (without it approve and dispatch
  change nothing), onboarding and the funnel, sessions, verification, password reset;
- feed: its filters, its fourteen days, reading an alert, the coverage view, what a signal says;
- screening and parsing: pages of results, coverage estimates, the grounding of parsed text,
  the latest-fiscal-year selector and the windows of events;
- AI research: the gateway's daily budget and its slots, what makes an answer valid;
- company facts: a statement is known from its storing on, not from the day after its
  announcement.

Of the parts that are not modelled, the event radar (`corporate_events/`) comes closest to what
the modules here are about: its key leaves out the cutoff, a slower build of an older state may
hide a newer radar, and a document that arrives late gives its thread a second event. A lost
UPDATE of a row that one statement writes completely is left to PostgreSQL.

## 7. Plan

1. Done: the modules of section 2, with the theorems of section 4 about each of them.
2. Proofs that remain: none of a safety property. Next are refinements that say more than the
   invariants: an abstract `Settlement` (a request is accepted, paid for and settled once) that
   `AIExplanation` and `Comparison` implement up to the differences of section 5, and an
   abstract ledger that `AutomationRun` implements.
3. Then models of the event radar and of peer research, which build from what other parts
   retain and are read by the feed, and of the audit rows of the operations console.
