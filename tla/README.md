# Verification of the PickWise backend

TLA+ models of the FastAPI backend in `src/app`: what its background jobs,
review pipeline, scrape queue, prices, scores, accounts, settings and chat
promise when requests, worker threads, restarts and failures interleave. TLC
checks the models on small instances; TLAPS proves the main invariants of
eleven of them for all instances.

## The system

One process serves HTTP (the settings cache reckons with several). `async def`
endpoints run on the event loop, the others and every background job on pool
threads. All state that lasts is in Postgres; what is in memory is lost on a
restart. Every handler opens its own session at READ COMMITTED, so what is
atomic is one SELECT or one COMMIT. No row is locked and almost no UPDATE has a
condition on the old value: order between handlers comes from the job lock, from
unique constraints, or from nothing.

| Component | State | Operations | What makes it correct |
|---|---|---|---|
| Background jobs (`common/job_*`) | `background_jobs` row; runner thread | start (409 check, insert), cancel, run, progress, startup reset | jobs of one lock group exclude each other; every job ends; a cancel is heard |
| Reviews: claims and processing (`reviews/processor.py`) | live claims, staging, `reprocess_requested_at` | process, stage, swap, resume | what is public was written for the review's links; a page is never halved; nothing staged is forgotten |
| Reviews: links and status (`link_service.py`, `router.py`) | `review_laptop_links`, review status | link, unlink, match, dismiss, rematch | a human's decision is kept, claims follow it |
| Reviews: ingest (`service.py`, `jobs.py`, `transcript.py`) | raw reviews, block guard, quota | discover, ingest, retry transcripts | stop on blocks, lose no video, overwrite no decision |
| Reviews: readers (`aggregator.py`, `funnel.py`, `config_evidence.py`) | none | page, evidence, coverage, funnel, queue | they agree, and list everything that waits |
| Scrape queue (`scraper/`) | `laptop_scrape_urls`, raw rows, saved pages | crawl, upload, bulk and selected runs, scrape one URL | no URL is lost, no page is a mix of two fetches, a queued page is there |
| Apple options (`apple_options_fetch.py`, `apple_options.py`) | `laptop_options` | fetch, configure, list | a quote is what Apple asked at one time |
| Processing engine (`processor/engine.py`) | `laptops`, price history, raw status | process one, pending, retry, categorise | price and history agree, records end completed |
| Laptops, families, price guide (`laptops/`) | laptops, families, guide rows | create, edit, move, regroup, delete, apply | an unpriced laptop is not on sale; no family is guessed |
| PickScore (`pickscore/`) | scores, one cached copy, its generation | score, rank, recalculate, cache | better is never lower; no guess outranks a measurement; current means current |
| Benchmarks, embeddings (`benchmark/`, `embeddings/`) | marks, vectors | refresh, generate | counts are true; scores follow a refresh |
| Agent and search (`agent/`, `rag/`) | messages, shortlist, logs | a turn, streamed or not; search; delete | what was shown is what was stored; a budget is honoured |
| LLM fallback and settings (`common/llm*.py`) | settings rows, cached chain per process | resolve, update, call with backups | an accepted change is in effect, soon everywhere; no text twice |
| Users, rate limits (`users/`, `common/http_rate_limit.py`) | users, links, buckets | sign-up, log-in, reset, roles, status | an admin remains; a link dies with its password; mails are bounded |
| Look-up tables (brands, categories, questions, avatars, saved laptops, ...) | one row each | create, update, delete | one row per name, owner or step |

Dashboards, list helpers, configuration, parsers, scripts and migrations are in
`components` of PROJECT.json, with the reason each is not modelled.

The parts interact through the tables and through jobs: a processing run reads
what link edits write; a scrape feeds the processing engine; every committed
write to laptops and benchmarks advances the scoring cache's generation; a
benchmark refresh queues a recalculation; every long operation is a background
job behind the job lock, if it has one.

What is hard: two starts around one 409 check; a cancel around any write of the
runner; edits under a run that reads once and writes for minutes; a process that
dies between the commits of one operation; uploads and requests under a running
scrape; a rebuild that overlaps a write; look-ups that another commit overtakes;
a model that fails after its first words. The list, each at its line and with
the properties that would catch it, is `hazards` in PROJECT.json.

## Modules

| Module | Models | Checked by |
|---|---|---|
| `WorkLock` | the job lock in the abstract: a set of working jobs, of which no two clash | refined by `JobService` |
| `JobService` | the job row, start and cancel requests, `run_job`, startup | `MCJobService`, `JobServiceProofs` |
| `ReviewClaims` | one review: its links, status, claims, staging, runs and the script | `MCReviewClaims`, `ReviewClaimsProofs` |
| `ReviewViews` | the queries that choose reviews: queue, retries, candidates, funnel, lists | used by `ReviewIngest` |
| `ReviewIngest` | bulk and single ingest, transcript retry, rematch, humans | `MCReviewIngest`, `ReviewIngestProofs` |
| `ReviewPages` | placement of claims on machines, and what three readers make of them | `MCCatalogue`, `CatalogueProofs` |
| `ScrapeQueue` | targets, rows and HTML under runs, requests and uploads | `MCScrapeQueue`, `ScrapeQueueProofs` |
| `SavedPages` | batches of saved pages, from the file to the row a parse reads | `MCCatalogue`, `CatalogueProofs` |
| `AppleOptions` | the options fetch, the table, the configurator | `MCCatalogue`, `CatalogueProofs` |
| `LaptopPrice` | one laptop's price, newest history row and raw record under runs, edits and guides | `MCLaptopPrice`, `LaptopPriceProofs` |
| `Families` | laptops and their families under ingest, regroup and admin edits | `MCCatalogue`, `CatalogueProofs` |
| `CatalogJobs` | embeddings, tags, scores and marks as jobs beside each other | `MCCatalogue`, `CatalogueProofs` |
| `PickScore` | benchmark resolution, factors, weights, ranking, summary | `MCCatalogue`, `CatalogueProofs` |
| `Sorting` | a set in a strict order as a sequence, and its first members | used by `PickScore`, `SearchPipeline` |
| `RangesCache` | the scoring cache, its builds and the writes that make it stale | `MCRangesCache`, `RangesCacheProofs` |
| `Accounts` | users, mailed links, log-ins, role and status guards | `MCPeople`, `PeopleProofs` |
| `HttpRateLimit` | the sliding windows and the mail limits | `MCPeople`, `PeopleProofs` |
| `Registry` | eleven look-up tables and customizations | `MCPeople`, `PeopleProofs` |
| `ModelSettings` | stored models, their update, the chain cached in each process | `MCPeople`, `PeopleProofs` |
| `ChatTurn` | turns of one conversation, fallbacks, stream, log, deletion | `MCPeople`, `PeopleProofs` |
| `SearchPipeline` | retrieval, rerank, relaxation, gate, choice per family | `MCPeople`, `PeopleProofs` |

`ReviewIngest` extends `ReviewViews`: the funnel and the queue are read in every
state the ingest reaches. `MCPeople` and `MCCatalogue` put components that share
no state into one run: `part` (`MCParts`) says which one a behaviour is about,
and the variables of the others are `Off`. Nothing is composed there; it is one
run for several questions. The constants of the parts are those of the run's
configuration, so that what is proved of `PeopleSpec` and `CatalogueSpec` is
proved for every value of them.

### JobService

`status[j]` is the row's status, `pc[j]` the place of the runner thread in
`run_job`. A handler that reads the row and writes a status that depends on it
is two actions: `CancelRead`/`CancelWrite` (cancel_job), `Begin`/`Stamp`
(mark_processing), `PassCheck`/`CreateJob` (refuse_if_running and create_job of
a sync endpoint), `Final`/`Backstop` (finally). An async endpoint makes both in
one turn of the event loop: `CheckAndCreate`. `DbFault` fails the statement at
any place and goes where the code's handler goes (`Handler`); `Crash`, `Restart`
and `RestartUnreset` are the process and `reset_stale_jobs`, which swallows its
own failure. `under[j]` counts what a worker begins after a cancel.

A lock group is symmetric refusal (`Clashing`) behind starts that cannot
interleave (`Serialised`): one start request at a time, or async endpoints. Two
sync starts at the same moment do get through together; this is why
`ExclusiveWorkers` is stated for `Clashing` jobs.

### ReviewClaims

One review. A claim is abstracted to the set of families the review was linked
to when the run that wrote it began, because placement depends on nothing else
that link edits change. `BeginJob` is everything `process_raw_review` reads
before its loop, `SaveWindow` one committed window, `FailWindow` one that was
rolled back, `EndWindows` the `complete` decision, `Swap` the job's
`swap_claims`. `AddLink` and `DeleteLink` are the link endpoints with their
`on_links_changed`; `SetIrrelevant`, `RematchRead` and `Rematched` the status
endpoints and the rematch job, which commits what it decided on an earlier read.
`BeginScript` and `SwapScript` are `reprocess_reviews`. One run at a time is
JobService's lock and the script's own instruction.

Two history variables say under which use a property holds: `raced` (an edit has
hit a run) and `scripts` (the script was used). The properties without them hold
whatever happens.

### ReviewIngest and ReviewViews

`row[v]` is the raw review of video v with its links. A bulk run takes a family
(`SearchFamily`), then per video decides, fetches and writes; `job` says which
of the two mutually exclusive jobs runs, while an ingest of one laptop is a
request that runs beside them (`ing`). What a fetch answers ("ok", "terminal",
"blocked", "operational") is a choice, restricted by `Captioned`. `blocks` is
the guard's counter, and `streak` counts the same thing in history, from what
the run saw. `Human` is the status and link endpoints. A row is written with
everything that was decided before the fetch, so `raced` collects rows that were
written while another's decision about them was in flight. `ReviewViews` has the
queries as sets of reviews: `RetryCandidate`, `NeedsLink`, `Processable`, the
funnel's steps with what is stuck at each, and the lists.

### ReviewPages

A processing run reads the families of the review's links (`StartPass`) and
offers the model the machines that can be told apart (`OfferedOf`); `Place` is
where the claim goes: the laptop, the family, or nowhere. `StoreClaim` is one
window with what the model said of it, `FinishPass` the swap. Machines move and
are suspended meanwhile. `ReviewPage`, `AssistantEvidence` and `Coverage` are
the three readers, `FamilyConfigs` the link screen.

### ScrapeQueue

`status` and `stamped` are the target's columns, `rows[p][v]` the version of the
page that variant `v`'s row was read from (0: no row), `content[p]` the uploaded
HTML or the vendor's page. A run is `SelectBulk` or `SelectTargets`, then per
target `Take`, `Skip` or `Fetch`, `SaveVariant` per variant, `Stamp`: one action
per commit. A scrape-url request stamps before it stores: `StampRequest`, then
`SaveVariant`. `Collide` is the unique constraint on `source_url`, whose
exception ends the run. `Abort` and `CancelRun` cut a run short. `lost` is a
history variable: pages whose request was cut short between stamp and row.

### SavedPages

`batch[r]` is the open transaction of an upload: `Receive` sorts out what cannot
be read, then one document at a time is refused (`Refuse`) or stored (`Store`,
which resolves the page to a target by its canonical URL, its slug or the
admin's pin), then `CommitBatch` or `AbortBatch`. A parse reads the stored page
(`ReadPage`) and stamps the target (`StampParsed`).

### AppleOptions

A fetch goes size by size (`FetchPages`) and chip by chip (`FetchKit`), and
replaces all rows of its kits in one transaction (`DeleteOld`, `CommitOptions`).
`Reprice` changes what Apple shows at any moment. `Configure` and `Listing` are
the price endpoint and what the assistant lists. A price is kept as the parts it
is made of, so that a sum of two times is told from a price Apple asked.

### LaptopPrice

`row` is the laptop's price and status, `newest` its newest history row, `raw`
the `processing_status` of its record; `op[a]` is where a run or request is and
what it read. An extraction is `ProcessAllPending`, `RetryFailed` or
`ProcessOne`, then `Plan` (Apple), `Answer` or `LlmFails`, `Look`, the commit
(`PageInsert`, `PageUpdate`, `AppleInsert`, `AppleUpdate` or `Collide`), for a
page price `Refresh` and `Record`, and `Mark`. An Apple run and a guide write
price and history in one commit, the others in two. An edit is `Edit`, then
`EditCreate` or `EditUpdate`, then `Refresh` and `Record`; a guide is
`ApplyPriceGuide` or `UsePriceFromGuide`, `Sources`, `GuideSave`. An update
sends what SQLAlchemy sends: only the columns whose value in memory changed. A
record with several variants is one such laptop per variant. Cancelling a batch
is JobService's; deleting a laptop and permanent failures of a record (an
unknown Apple line, no specs page) are left out.

Two history variables: `origin` is who set the price, and a behaviour has
`Raced` once a commit was made on outdated reads, or between another writer's
price and its history row. The properties with `~Raced` say what holds for
writers that do not overlap, in any order and through failures;
`EventuallyCompleted` holds whatever overlaps.

### Families

A request reads and decides (`CreateLaptop`, `Regroup`, `MoveLaptops`,
`RemoveLaptop`, `CreateFamily`, `UpdateFamily`, `DeleteFamily`, `DeleteLaptop`),
which leaves a pending commit in `editing[e]`; `Save` commits it or, if it would
leave a dangling reference, changes nothing. `Refer` is a row elsewhere that
refuses a delete.

### CatalogJobs

Four jobs over the same laptops in `Slots`, which run beside each other, beside
edits (`Save`, `Delete`) and beside hand-made requests (`GenerateSingle`).
Embeddings and tags commit item by item, scores and marks all at once. A failed
flush leaves the session `broken`, and no worker rolls back. A refresh
(`FetchMarks`, `CommitMarks`) queues a recalculation (`QueueScores`), which is
refused while one runs.

### PickScore

`Build` and the operators on it are the engine in whole numbers: a factor counts
in thirtieths of a point, so that percentiles of up to six laptops stay exact.
`ResolveBenchmark` and `ResolveGpu` are the look-up of a mark with the fuzzy
scorer as a table (`Confidence`). `Recalculate` stores the scores of every
active laptop, `Rank` serves a page of the ranking, `Summarise` the admin's
summary; `ChangeStatus` takes laptops off sale in between. Wording is left out.

### RangesCache

`generation`, `copy` and `built` are `_generation`, `_data` and
`_built_generation`; a copy is the version of each table it was built from. A
build reads the generation (`BeginBuild`), then one table at a time (`Read`),
then stores (`Store`). A write is `Commit`, then `Invalidate` (the session's
after_commit hook). `WriteOutside` and `Expire` are writes of other processes
and CACHE_TTL. `announced`, `promise` and `sure` are history.

### Accounts, HttpRateLimit, Registry

A request of `Accounts` or `Registry` is two steps: what it reads and decides
stays in `request[r]` or `writing[w]`, and `Commit` or `Flush` sends the columns
that differ from the row as loaded. A unique index refuses the commit; where the
code has no index, it goes through. `raced` and `clashed` say that a commit
overtook what another had read. A password is the number of its hash; a reset
link carries the fingerprint of the hash it was made for. `Registry` is one
model of all small tables: a behaviour is about one `kind`, and each endpoint is
its own action, so that a missing look-up or guard in one of them shows.

`HttpRateLimit` is the dict of the process as it is: one list of times per key,
`Record` for a hit (pop what left the window at the front, refuse or prune above
`MaxKeys` keys and append) and `AskForMail` for an endpoint with its limits in the code's
order. `forgot` collects the keys whose counters were pruned early.

### ModelSettings

`stored` are the two rows of one use, `cached[s]` the chain of process s with
the generation it was read under. `Resolve`, `ReadRows`, `Keep` are `_chain_for`
with its stale copies and outages; `ApplyUpdate` validates against the chain in
effect, then `CommitRow` commits a row and `Bump` advances the generation, row
by row, and `FailUpdate` may end it between them.

### ChatTurn

`SetUp` commits the user's message. A model speaks (`Speak`), breaks (`Break`),
is unavailable (`Unavailable`: the next of the chain, if nothing was streamed in
this step), calls tools (`CallTools`) or answers (`Answer`). `Save` writes the
reply and the shortlist, `Log` the run. `bubble` is what the client shows,
`answered` which model of the chain each step is credited to. `ReadChildren` and
`CommitDeletion` are the deletion of the conversation, `DeleteLaptop` takes a
laptop away under a turn.

### SearchPipeline

One pure step: `Search` with `Retrieve` (with or without an embedding),
`Rerank`, the relaxation ladder (`Tries`, `Helpful`), the gate, `OnePerFamily`
and `Shortlist`. Scores are thousandths. Every catalogue of up to three laptops
from `Specs` is an initial state.

## Runs

| Run | Instance | What it shows |
|---|---|---|
| `job_lock` | three jobs of two mutually refusing types, one start request, one cancel request, one fault, one crash | the table implements WorkLock; without faults, no row stays queued or processing once its runner is gone |
| `job_async` | two concurrent start requests of async types, a polling worker of two items, one crash | the lock excludes with concurrent starts; a cancelled worker begins at most one more item; every job ends |
| `review_claims` | two windows, two families, three edits, one failed window, one crash, two script steps | claims follow the links, a page never loses a window, public claims are replaced by a swap only, the review ends complete |
| `review_ingest` | a video of one family with captions and one without, a bulk run, a retry, an ingest request, a rematch, one human decision, one abort | a run stops exactly on repeated blocks, decisions are kept, screens add up and list what waits, what can be fetched is |
| `review_deferred_stranded` | the same, violated | a deferred or once-blocked video is lost to every retry |
| `scrape_queue` | one run, one request, an ASUS page of two variants, an Acer page, two versions, one fault, one abort | no URL without rows drops out, no page is a mix, readable pages end stored |
| `ranges_cache` | two tables, two sessions, one request, two writes, one fault or restart | current means current, no step back, finally equal to the tables |
| `laptop_price` | a batch, a single extraction, an edit, an apply, a use, one failure or crash, prices 0 to 2, five first states | history names who set the price, no decision is replaced, an unpriced laptop is not on sale, the record ends completed |
| `people` | one part per behaviour: accounts (two users, two requests), limits (two addresses, seven ticks), registry (two rows, two writers, every table), settings (two processes, two commits), chat (two turns, one backup), search (up to three laptops) | an admin remains; a link dies with its password; mails are bounded; one row per name; an accepted chain is in effect and stale copies are short; the reply is what was shown; a budget is honoured |
| `last_admin` | accounts, violated | two demotions at once leave no admin |
| `conversation_undeletable` | chat, violated | a conversation with a logged turn cannot be deleted |
| `catalogue` | one part per behaviour: families (three laptops, two editors), jobs (two laptops, two slots), scores (two of nine kinds of machine), options (two fetches, two versions), reviews (three machines, two claims, two edits), pages (two uploads of up to two files) | no family is guessed; counts are true; scores follow a refresh; better is never lower; no guess before a measurement; quotes are Apple's; readers agree; a queued target has its page; summaries are true |

**Bounds.** Each is named in its module and counted in a guard. Two windows are
enough for "part of the set": done, missed and to do need only one window each
way, resumption one more. Three edits give link, unlink, relink. Two versions
distinguish old and new, two variants whole and mixed. Two prices and 0 are
enough for same, different and unknown; the first states are the histories that
the fill rule and the relist rule tell apart. Two writes overlap one build in
every order, two tables let a write fall between the two reads. Two families of
one bulk run are what a guard per family would forget between (`MaxBlocks` 2
needs one block in each). Two open requests are every overlap of read and
commit; a third adds no order between two of them. `MaxHash` 3 is a first
password and two changes; the clock of seven ticks spans a cooldown of 2 and a
day of 5, with `MaxKeys` 3 below the five keys that two addresses and a caller
have, so that pruning happens. `FirstStored` has the rows that may predate the
allow-list. Three machines are two that a review tells apart and one that only
its price distinguishes; three laptops of one seed key are two siblings that
disagree and one to place. Laptops of `ScoredMachines` differ in one respect
each, or are resolved in one way each (exact, close, Qualcomm part, stand-in,
fused, none). `MaxRefs`, `MaxRev`, `MaxStarts`, `MaxUploads`, `MaxSteps`,
`MaxTokens` give one step more than the shortest case of each hazard. One fault
or crash at a time is every single failure at every place; two are checked where
a second is what hurts (a crash and a failed window, a fault and a crash). An
LLM failure is repeated by the next batch, so its bound is `MaxFaults`.

`StopAtRace` cuts the behaviours of the accounts part behind the step in which a
guard was overtaken: both properties of that part except that case, and
`last_admin`, which is about it, has no constraint. Symmetry is between two
requests, turns or processes, never under a liveness property.

**Fairness.** A queued task runs (`WF` of `Runner`, `Work`, `Loop`, `Serve`,
`Working`, `Ingesting`): threads and the event loop are scheduled. A dead
process is started again (`WF` of `Boot`): the host does. The operator's part is
stated where it is needed and nowhere else: someone presses process-bulk while
the page lists a candidate (`WF` of `BeginJob`), bulk scrapes and transcript
retries are started again and again (`SF` of `SelectBulk`, `RetryTranscripts`:
an upload, a request or another job may disable them in between), a block is not
for ever (`SF` of a retry's real answer), requests keep coming to the cache
(`WF` of `GetStale`, `GetCold`), a batch is started again while records wait
(`WF` of `ProcessAllPending`) and time passes (`Expire`). Nobody is obliged to
cancel, edit, upload or force a refresh.

Deadlock is not checked: every system here may be at rest.

## Proofs

`JobServiceProofs`, for any jobs, types, requests, faults and crashes:
`TypeCorrect`, `WorkingJobsAreActive`, `LockExcludes`, `ImplementsLock`,
`CancelStops`, `EndedRowsEnd`. The invariants the runs check are not inductive.

- For the lock, a start request may already be past its check, and a restart
  resets rows whose worker might still run. `IInv` adds `CheckedIsClear` (while
  there is one starter, a request past its check still has a free lock group)
  and `DownIsIdle` (a dead process works on nothing, so a reset row has no
  worker). The refinement maps the lock to the jobs that work: an insert
  acquires, the write of an outcome releases, a crash releases all, every other
  step stutters.
- For cancels, `PollsInTime` says that a polling worker stands between two items
  with nothing begun under a cancel, and that an item begun under one is still
  under it: only its own runner could take CANCELLING away.
- For ended rows, `Accounted` says of a run without a failed statement that no
  row lacks a task, that a dead runner's row has ended by the time the process
  is up, and that no cancel request survived a restart. Both need `RowsExist`
  (the runner has a position iff the row was inserted).

`ReviewClaimsProofs`, for any windows, families and numbers of edits and
failures: `TypeCorrect`, `StagedStaysMarked`, `SwapOnly`, `PageKeepsItsWindows`,
`ClaimsStayFresh`. Four invariants, each inductive on those before it: `JobInv`
(a run stages iff it will swap, only for a marked review, and writes live only
where nothing is), `StageInv` (a run that missed nothing has staged everything
it passed), `PendingInv` (a review that never matched has no claims, and while a
rematch is in flight no unmarked claim can be made outdated by its link),
`QuietInv` (while no edit has hit a run its candidates are today's links). The
properties that need `~raced` say so.

`RangesCacheProofs`, for any number of tables, requests and sessions:
`TypeCorrect`, `CurrentCopyIsFresh`, `CopyNeverStepsBack`. A build promises what
was announced when it read the generation, keeps the promise in each table it
reads afterwards, and a later generation promises no less.

`LaptopPriceProofs`, for any actors, prices, failures and crashes:
`TypeCorrect`, `HistoryTellsThePrice`, `UnpricedIsOffSale`, `DecisionsHold`.
`PriceInv` adds to the properties what each writer in flight still knows
(`Knows`): one whose reads no commit has outdated holds the row as it is now;
what an apply or an Apple run decided it may overwrite is still so; and, unless
somebody raced, at most one actor owes a history row (`OneDebt`) and the stored
price is the one it set (`Debt`). Without these the decision a run made before
minutes of work says nothing of the row it writes.

`ScrapeQueueProofs`, for any pages, variants, runs, requests, uploads, faults and
aborts: `TypeCorrect`, `NoneStranded`, `OneFetchPerPage`, `StoredForGood`.
`QueueInv` adds what each actor holds (`Holds`): whoever is storing has stored all
variants before the one it is at from the version it fetched, and a run stamps a
success only over stored rows; `FromFirst` says that every row of a page is of
the version of its first, since whoever loses the first row to another stores
none of the others.

`ReviewIngestProofs`, for any videos (finitely many), families, actors and block
limit: `TypeCorrect`, `RunsStopOnBlocks`, `HumansHaveTheLastWord`,
`NothingIsUnlisted`. `IngestInv` ties the guard's counter to the history of what
the run saw (`Guarding`: a fetch under way means that the limit is not reached),
and says what a fetch, a retry or a rematch in flight still knows of its row
unless the row raced (`Unchanged`). That the
funnel adds up is a statement of cardinalities: its steps are shown to be
disjoint sets that cover the reviews, and sizes of disjoint finite sets add.
Hence the assumption `IsFiniteSet(Video)`.

`PeopleProofs`, for every value of the constants under `PeopleAssumption`, has
one inductive invariant per part, joined in `PeopleInv`:

- Accounts (`AdminStays` and `LinksDie` of its own specification,
  `AdminStaysInService` and `LinksDieInService` of the one the run checks).
  `StepKinds` reduces every step to a note (a link mailed, a log-in), a sound
  request opened, or a commit; `Sound` is what an open request knows whatever
  happens to its row. A demotion whose count is still true either leaves another
  admin or counted one only, which the guard refuses. For the links, a hash is
  one account's (`Apart`), and until it is set it is one request's (`Alone`,
  `Unset`); a hash whose link was used is no account's any more (`Gone`). The
  exception `raced` covers just the two overtaken commits.
- Rate limits (`MailsAreFew`). `LimitsInv`, for an address none of whose
  counters was dropped: a mail still in the cooldown has its hit, and the daily
  hits are the last mails, those before them being a day old. The pop of
  `Record` is the least index still in the window; that there is one is a
  minimal counterexample under the well-founded order of the naturals (`Least`).
- Look-up tables (`OneRowEach`). `RegistryInv` with the lemmas of a flush: an
  index refuses it, and without one an UPDATE or INSERT that nobody overtook
  finds its slot as free as its look-up saw it.
- Settings (`StaleForTheCacheTime`, `AcceptedIsInEffect`). `SettingsInv`: a
  copy, and a read under way, are dated by the clock and generation they were
  begun at (`Dated`), and a copy that no commit has outdated is what is stored
  (`Exact`); for an update between its two rows, what is stored followed by the
  statements still to come resolves to what it intended, unless another commit
  overtook it (`Updating`).
- Chat (`StoredIsShown`). `ChatInv`: while a stream asks a model, the bubble is
  the text of the call under way (`InStep`); once there is an answer, the bubble
  is the reply, or empty beside a reply of thinking only (`AsReplied`).
- Search (`BudgetIsHonoured`, `OverBudgetIsSaid`). A list by place is a
  permutation of its set (`Listed`: the number of those before is an injection
  into as many places), so that retrieval and reranking neither lose nor add a
  laptop; within the budget in force no penalty for it applies, so the score of a
  laptop that meets both limits is its similarity and bonus; what is shown of a
  family is a member of it in the list. `BudgetIsHonoured` is of a catalogue that
  the recall takes in whole (`RecallIsAll`), and has to be: the recall is by
  similarity without the bonuses, and with `RecallSize = 1` TLC finds the budget
  raised although a laptop within it is viable. `OverBudgetIsSaid` is of any
  catalogue.

`CatalogueProofs`, for every value of the constants under
`CatalogueAssumption`, has an invariant per part too, joined in `CatalogueInv`:

- Families (`FamiliesAreEvident`). `FilingInv` keeps what an open automatic
  request was decided on (`Decided`): a laptop it places joins the only family
  its siblings had when the request read them, and laptops of one key go to one
  family. Whether somebody has committed in between is `Overtook`.
- Catalogue jobs (`CountsAreStored`, `ScoresAreOfTheMarks`). `JobsInv`: what an
  embedding run counted has a vector or was deleted (`Counting`); a
  recalculation has read every laptop that has a score, with the marks of the
  refresh that queued it and of any that completed since (`Computing`); the lock
  group leaves one recalculation at a time (`OneScoring`).
- Saved pages (`QueuedTargetsHavePages`, `SummariesAreTrue`). `PagesInv`: the
  report of a batch counts what it did (`BatchSound`), a page is the newest of
  one target only (`RowsApart`), and a queued target has a page (`QueueSound`).
- Apple's options (`QuotesAreTrue`). `OptionsInv`: what is stored of a
  configurator is of one version of the page (`Whole`); a fetch has none of the
  kit it is still asking for (`Asking`); what its DELETEs hold of a stored kit
  is all of it, or none once another fetch has written it (`Holding`). Kits
  share the row of a chip, whose second insert breaks the flush (`Breaks`).
- Review readers (`ReadersNeverContradict`). `ClaimsInv`: a claim that is on no
  machine is about its whole family, in whatever state of the catalogue it was
  placed.
  With it the three readers ask the same question of a machine; that the screen
  and the run agree holds of any machines and columns (`Least` names the first
  of those that share a label).
- Scores (`BetterScoresNoLower`, `MeasuredAreListedFirst`). Dominance is shown
  factor by factor: a percentile, the price score and the bucket scores do not
  fall when the value gets better in a fixed build, the weights are those of the
  wish and not of the laptop, and the rounded quotient of the sums keeps the
  order. For the ranking, `ScoresInv` says that a stored row's score is a number
  and that its GPU is flagged unless a mark of its own was found. The four sort
  keys, for gaming that flag first, are a strict total order in which
  `Sorting.InOrder` gives an element the place that counts those before it; a
  page of the ranking is a prefix of it.

Each of these invariants was first checked by TLC on the instance of its run, as
invariants of that run: `PriceInv` on 1,285,173 states, `QueueInv` on 4,218,466,
`IngestInv` on 248,613, `PeopleInv` on 1,566,933, `CatalogueInv` on 731,540.

The assumptions are those named in the modules: bounds and times are naturals,
the "nothing" values are not elements of the sets, the stored rows have their two
fields, refusals are sets of types, videos are finitely many, windows and limits
are positive, a cooldown is no longer than a day or the hour after which
counters are pruned, there is a first admin. Of scores: prices and sizes are
naturals, only a weight and a battery may be missing, the fuzzy scorer knows the
names it is asked, and not every priority of a wish is 0 (else the engine divides
by nothing). That at most six laptops are compared is the precision of the
model's thirtieths; no proof uses it.

Only model-checked:

- all liveness (`EventuallyCompleted`, `EventuallyCurrent` and the other
  temporal properties under fairness), which is out of the prover's reach.

## Where the code and its documentation disagree

Three have a run: `review_deferred_stranded`, `last_admin`,
`conversation_undeletable` (see `findings`). Others that the models show and
that have no run of their own:

Jobs and reviews

- `common/job_router.py:142`: cancel_job reads a live row and commits CANCELLING
  after the runner has ended it; the finished job is active again (`CancelRead`,
  `Finish`, `CancelWrite`).
- `common/job_service.py:150`: mark_processing overwrites a CANCELLING that was
  committed after its read, against "Never overwrite CANCELLING" (`Begin`,
  `CancelWrite`, `Stamp`).
- `common/job_service.py:286`: mark_processing and the early mark_cancelled are
  outside the try; a failed statement there leaves the row queued, against lines
  37-39 and 331 (`DbFault` at "begin", "stamp", "refuse").
- `reviews/processor.py:442`: a link edit during a staging run lets it publish
  half a page.
- `reviews/processor.py:439`: swap_claims clears a mark that an edit set again
  during the run; the old claims stay public unmarked, against
  `reviews/router.py:1171-1175`.
- `reviews/processor.py:403`: the script's second swap restores claims written
  for other links and clears the mark.
- `reviews/jobs.py:244`: a rematch in flight turns a review that was just
  dismissed into MATCHED; a transcript retry (`reviews/jobs.py:97`) likewise
  overwrites a dismissal.
- `reviews/jobs.py:58`, `reviews/funnel.py:59`: the funnel's
  transcript_retryable includes rows that no retry selects.
- `reviews/service.py`: the walk of an ingest-bulk with a limit spends it on
  families that never match, ahead of the others; the ingest of one laptop is
  not refused while a bulk run or a retry fetches.
- `reviews/link_service.py`: two requests for the same human link race to a
  duplicate.
- `agent/tools/laptop_tools.py`: a laptop moved to another family keeps the
  claims made about the old one, against "Other families are never used".
- `reviews/processor.py:290`: labels of up to four parts can be shared by
  configurations that differ; a claim can never be attached to the second.
- `reviews/config_evidence.py`: the probe "RTX 5070" also finds "RTX 5070 Ti".

Scraping

- `scraper/router.py:704`: two Apple scrapes are accepted together and each runs
  the options step, against line 705; the later write of the same rows breaks
  the unique key and loses its whole fetch.
- `scraper/bulk_scraper.py:328`: the stamp of a run overwrites the HTML_UPLOADED
  of an upload that came during it.
- `scraper/bulk_scraper.py:244`: a run cut short between two variants of a page
  leaves the rest unscraped for good; a page uploaded again after a parse is
  skipped.
- `scraper/router.py:198`: a scrape-url request cut short after its stamp leaves
  a target that no bulk run lists (`lost`).
- `scraper/router.py:311`: two batches with the same new page collide on the
  unique key and the second fails as a whole, against "one bad page never aborts
  the batch".
- `scraper/html_ingest.py`: a page uploaded under another canonical form keeps
  the old row, and the parser may read the old page; a slug shared by two brands
  goes to either, and a pinned upload moves the row away.
- `processor/apple_options.py`: a choice given for a group that the chip's kit
  lacks is silently ignored.

Catalogue and scores

- `processor/engine.py:289`: an Apple run overwrites the price an admin set
  during its LLM calls, against `processor/apple_buy.py:17-18`, and puts a
  laptop that was suspended meanwhile back on sale (`Plan` before, `AppleUpdate`
  after); a guide apply likewise overwrites a price whose history row is still
  to come.
- `laptops/laptop_models.py:233`: one edit clears the price of an inactive
  laptop while another activates it; the columns merge into an active laptop
  without a price, against lines 214-220.
- `processor/engine.py:711`: a crash between the price and its history row loses
  the row for good: the next run finds the price unchanged.
- `processor/engine.py:765`: after a collision of two inserts the handler uses
  the session without a rollback, which raises again and ends the whole batch.
- `laptops/family_router.py`: two requests give two families one name, and
  regroup ignores names that exist.
- `benchmark/router.py`: renaming a benchmark to a taken name ends in a 500 (no
  look-up before the index); hand-edited marks queue no recalculation, and a
  recalculation refused after a refresh leaves the scores stale.
- `pickscore/engine.py`: resolve_gpu_benchmark returns an anchored, unresolved
  GPU with is_proxy False, against its docstring (the engine overrides it);
  gpu_diagnosis stops at the Apple map where the resolution goes on to the fused
  GPU.
- `laptops/pickscore_general.py`: one laptop deleted during the run fails the
  whole recalculation; one deactivated during it and reactivated later keeps
  older scores.
- `embeddings/service.py:205`: a failed flush is never rolled back, so every
  later item of the run fails; two such runs are not refused.
- `processor/engine.py` (categorisation): a laptop deleted or a category added
  meanwhile ends the whole job.

People

- `common/settings_router.py:232`: "nothing is half-applied" does not hold
  across the two commits; an update may be validated against a chain cached
  during an outage, and a stored list that was rejected may come alive with
  another primary.
- `users/router.py:679`: two resets with one link at the same moment both
  succeed.
- `common/http_rate_limit.py:31-40`: pruning drops day-long counters after an
  hour.
- `users/questionnaire_router.py:19`: two creations of one step, or two
  preferences of one user, race to duplicates.
- `agent/router.py:284`: a stream ends with neither done nor error when the
  reply cannot be stored, against lines 241-253; results are read again after
  the log's commit; two turns at once leave the union of their shortlists.
- `rag/relaxation.py`, `rag/gating.py`: retrieval filters by the budget that the
  reranker penalises, so the penalty never fires and the gate's bottleneck is
  never "budget"; a laptop above the weight limit may be shown.

## Plan

1. Done: jobs, reviews from ingest to page, scraping, prices, families,
   catalogue jobs, scores, options, accounts, limits, settings, chat and search.
2. Proofs. Done: every invariant and action property that a passing run checks.
   Next: the type invariants of the parts of `MCPeople` and `MCCatalogue` as
   theorems of their own.
3. Review summaries beside the claims they are made of, once a summary is more
   than one stored text per laptop.

## Not modelled

- Review summaries and their pending list (`reviews/aggregator.py`,
  `router.py`): one generated text per laptop beside the claims.
- Parsing and matching of text (vendor markup, product names, Apple fields,
  guide rows), prompts, and what a model or vector index answers: no control
  state; their outcomes are choices or tables of the modules that use them.
- The market-price tool, monitoring pages, usage counters, dashboards, list
  helpers: read-only.
- Database and logging configuration; a failed statement is an action.
- One-off scripts, migrations and the offline evaluation: run by hand against
  one state of the database.
