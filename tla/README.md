# TruthSeeker: a verification of the research service

TLA+ models of the backend's concurrent core (API process, Redis, worker
processes, PostgreSQL rows, the page that follows a run), of the research
pipeline a worker runs with its searches, filters and judges, and of the model
settings; TLC instances that check them; and TLAPS proofs about each of them.
All paths are relative to the repository's `src/`; inside `src/backend` the
prefix `backend/` is left out.

## The system

A user asks a question; the API process writes a *session* and a *task* row and
pushes a message on a Redis list.  A worker process pops it, takes the lock of
the session and runs a LangGraph graph whose checkpoints live in PostgreSQL
under the task's id.  Every event of the run is published on a Redis channel
and appended to a Redis stream; the HTTP response of the chat request replays
that stream and then follows the channel.  A run may stop at an interrupt until
the user approves the planned dimensions; the resume request enqueues a second
run of the same task.  When a run ends, the worker writes its outcome to the
rows.

| Component | State | Operations | Interacts through | What is hard |
|---|---|---|---|---|
| Requests (`api/chat.py`, `services/chat_service.py`, `api/research.py`) | none of its own | chat, follow-up, reconnect with cleanup, resume, delete | rows, Redis lists | reads and commits of overlapping requests; failure between commit and LPUSH |
| Rows (`db/crud.py`, `services/research_lifecycle.py`) | session status; task status, `pending_approval`, `ordinal` | create, archive, mark failed, delete | SQL | late writers; one status per session for many tasks |
| Queue and worker (`worker.py`) | three lists, coroutines, a semaphore | enqueue, weighted poll, start, end | Redis, asyncio | a popped job exists in memory only; starvation; order |
| Run (`services/sse/manager.py`) | lock, `research_status`, snapshot | lock, stream, verdict, release, archive | Redis, checkpointer, rows | expiry of the lock, re-entry, refusal, unlock without an owner test, swallowed errors |
| Stream of events (`manager.py`, `consumer.py`) | channel, capped stream, connections | publish, append, replay, subscribe, deliver | Redis, HTTP | two sources of the same events; the gap between them |
| Page (`frontend/src/hooks/useResearchStream.ts`, `features/chat`) | connections, approval card | show, approve, reload, reconnect | HTTP | replay of an old breakpoint; a stream that never ends |
| Cancellation (`consumer.py`, `manager.py`) | a listener per worker | broadcast, hear | Redis channel | which asyncio task is cancelled |
| Pipeline graph (`pipeline/graph.py`, `pipeline/nodes`) | the graph's state | nodes, routes, rounds, interrupt | checkpointer, store, LLM | stale fields across rounds, bounds of loops |
| Relevance filter (`services/filter_service.py`, `nodes/filter.py`) | cached verdicts, kept pages | split, judge in batches, deduplicate, prune | store, LLM | one cached list, many batches; failures in the middle |
| Verification (`pipeline/subgraphs/verify`) | statements and verdicts | atomize, judge by dimension and batch, arbitrate | LLM | nested semaphores, four paths to a verdict |
| Search (`pipeline/subgraphs/agent`, `search_react`, `search/`, `utils/limiter.py`, `utils/retry.py`) | booking times, answers counted, pages found | model call, tool call, booking, fan-out, retry | Redis, HTTP, store | spacing of calls, engines that fail, a loop only a counter ends |
| Model settings and LLM cache (`services/settings_service.py`, `core/llm.py`, `db/crud.py`, `api/deps.py`) | providers, assets, presets; instances per process | save, delete, activate, look up, invalidate | SQL, Redis channel | stale instances, checks that a commit overtakes |
| Thinking filter (`services/sse/processor.py`) | a carried piece of text | process | the tokens of a run | tags cut anywhere |
| Login, migrations, prompts, deployment | rows, texts | | SQL | little; not modelled |

What makes them correct: a session runs one task at a time behind its lock; a
task waiting for approval can be resumed and does not run meanwhile; a task that
is left unfinished between row, queue and worker has one of the known causes; final
outcomes stay final; what is deleted
stays deleted; locks and slots are always given back; a page sees the events of
its run in order, once, up to the end; every lane of the queue is served; a
report is written from judged pages and from statements of those pages, within
the rounds allowed and approved, and it shows the conflicts and gaps they have;
concurrent batches of a filter act as one; every statement gets its verdict; an
agent comes to its answer and hears of what the engines found; an instance that
does not fit the settings has a reason and goes away.
`PROJECT.json` lists the hazards line by line with the properties that watch
them.

## Modules

| Module | Models | Lines |
|---|---|---|
| `ResearchService` | what users are promised about tasks: one active task per session, approval, settling, deletion | abstract |
| `ResearchRun` | requests, queue, slots, lock, run, archive, failures | `chat.py`, `chat_service.py`, `worker.py`, `manager.py`, `research_lifecycle.py`, `crud.py`, `app_lifecycle.py` |
| `ResearchRunProofs` | theorems about `ResearchRun`; that it implements `ResearchService` | |
| `SseStream`, `SseStreamProofs` | publish/append, replay/subscribe, page | `manager.py`, `consumer.py`, `useResearchStream.ts`, `ChatDetailsContainer.tsx`, `BreakpointHandler.tsx` |
| `ThinkingTags` | the filter of thinking tags, a pure function (its theorem is in `SseStreamProofs`) | `processor.py` |
| `WorkerLoop`, `WorkerLoopProofs` | lists, weighted schedule, semaphore, cancellation listener | `worker.py`, `manager.py`, `consumer.py` |
| `Pipeline`, `PipelineProofs` | the graph a run executes: planner, agent shortcut, searches, filters, verification subgraph, report | `pipeline/graph.py`, `pipeline/nodes`, `pipeline/subgraphs/verify`, `filter_service.py`, `store.py` |
| `FilterRound` | what a round of the relevance filter promises; `FilterBatches` and the filter nodes of `Pipeline` both implement it | abstract |
| `FilterBatches`, `FilterBatchesProofs` | batches, retries, cached verdicts, deduplication, pruning | `filter_service.py`, `nodes/filter.py`, `nodes/filter_utils.py`, `retry.py` |
| `VerifyJudges`, `VerifyJudgesProofs` | dimensions and batches judged side by side | `verify/tripartite.py` |
| `SearchCalls`, `SearchCallsProofs` | an agent, its tool calls, bookings, engines | `subgraphs/agent`, `subgraphs/search_react`, `search/orchestrator.py`, `search/bocha.py`, `limiter.py`, `retry.py` |
| `ModelSettings`, `ModelSettingsProofs` | settings requests and the LLM instances of the workers | `settings_service.py`, `llm.py`, `crud.py`, `deps.py`, `selector.py` |
| `MC...` | values and symmetry for TLC | |

How they fit together: `ResearchRun` sees a run of the graph through its
checkpoint only; `Pipeline` is that run; the node `llm_filter` of `Pipeline` is
one step there and many in `FilterBatches`, and `FilterRound` is what both keep
to: the planner fixes the level, a round is split by what is cached or has no page,
and ends with one judgement of all that was open, or is given up.  `tripartite` is one step of
`Pipeline` and many of `VerifyJudges`, `search_react` and `agent_node` are many of
`SearchCalls`.  `WorkerLoop` is
the schedule above `ResearchRun`'s queue, `SseStream` what a run publishes.

**ResearchRun.**  A *job* is one queue message: `<<t, 0>>` the run the chat
request of task `t` enqueues, `<<t, n>>` the run of its n-th resume.  `pc[j]`
follows it: `posting` (row committed, not pushed), `queued`, `waiting` (a
coroutine before the semaphore), `locking`, `contending`, `renewing` (SET NX,
GET, EXPIRE are separate commands), `running`, `ended` (stream finished,
snapshot not inspected), `publishing` (verdict set, its event under way),
`releasing`, `archiving`, and the ends `done`, `unsaved`, `refused`, `dead`.
`out` and `bp` are `research_status` and `is_breakpoint`, which the code sets and
archives each for itself: a run cut off while it publishes its breakpoint is saved
as `failed` with approval pending and its session `suspended` (`CutOff`).  A handler that reads the database and commits
later is two actions with the read kept in `req` (`FollowUpRead`/`-Commit`,
`ResumeRead`/`-Commit`, `CleanupRead`/`-Commit`), so requests interleave as
they do over asyncpg at READ COMMITTED.  The age tests of the cleanup and of the
checkpoint clean-up are left to chance: any running task may be thought stale.
The graph is seen through its checkpoint only (`none`, `midway`, `interrupted`,
`done`).  `Faults` names the failures an instance allows, and two constants name
conditions the code relies on but does not enforce: `LeaseOutlivesRun` and
`ResumesOverlap`.

**SseStream.**  Events are numbered as published and have one of four kinds.
`Publish` and `XAdd` are the two halves of `_publish_event`; a connection
(`conn`) is `opening`, `replaying`, `live` or `closed`, and its `got` is what it
has delivered.  The page owns two connections because the chat page and the
approval card each call the hook.  One task and no other task in its session:
lock conflicts are the subject of `ResearchRun`.

**ThinkingTags.**  `Process` is the code: the loop up to its last tag (`PassTags`) and
what is held back at its end (`KeepCut`); the word inside a tag is one symbol, because only the first `<` and the places where a tag may be cut matter.
It is compared with a definition of what should be visible (`Visible`, said of
positions in the whole text), for all texts up to six symbols, and for all ways
to cut a text of four after a text of three.  Both are assumptions TLC evaluates
in the run `sse_stream`: nothing in them depends on a state.  The second is
proved for all texts (`CutsNeverMatter`), without using the assumption.  What is carried
over is never flushed: a model output that ends in `<` loses it, as in the code.

**WorkerLoop.**  Jobs are opaque and may be sent again after they end, so the
fast lane can be busy for ever.  A poll is answered (`Poll`), or
answered with a message that is then lost on its way or cannot be read
(`PollLoses`), or fails (`PollFails`: the turn of the lane is over, whatever was in
the list).  The cancellation listener of each worker is a
small state machine beside the loop.  `sent` and `before` are history: the jobs
in the system and which of two was sent first to one lane; so are `passed` and
`missed`, which count what a worker took from other lanes while fast jobs waited and
the polls of the fast list that failed, and `ignored`, the jobs that were cancelled
and ran on to their end.

**Pipeline.**  One task from `strategy_planner` to `summary_node`; `pc` is the
node to run next, or `suspended` (the interrupt before a search), `failed` (a
node raised) and `end`.  A node is one step, since the graph runs them one after
the other and checkpoints between them.  `mode` is `control.execution_mode`,
`limits` the two fields of `strategy_overrides` that steer the graph (0 and
`unset` for a missing key), `request.speed` is `control.speed`.  The stored
lists are functions: `judged` from a page to the verdict in `filter_cache`,
`final` from a kept page to its dimension, `claims` and `stored` from a
statement to its dimension and verdict.  Models and engines answer anything:
they choose the mode, the plan, the pages found, the judgements, the statements
and the verdicts.  `candidates` and `cached` survive a round in which the coarse
filter passes nothing, as in the code.  `lapsed` records the verification nodes
whose exception was caught (their `error_log` entries).  Abstractions: a page's
score and the dimension it was found for are constants; a batch of the filter
judges each page once; two dimensions given by the user are as good as two of
the planner, so plans are subsets of `Dims`; manual injections and rejected
pages, which no code path fills, are left out; `consistent` stands for
`mostly_consistent` too.

**FilterBatches.**  A page is its place in the list of results, with a score and
the pages like it as constants.  A round is split by the cached verdicts, cut into
batches, judged, deduplicated, pruned, saved.  A batch (`pc[b]`) waits for its
slot, asks with retries, takes the write lock, reads the cached list into
`mine[b]` and writes the merge: the read and the write are two steps, the lock
is modelled as the code has it.  The model says of any page of any batch what it
likes, but names a page at most once per batch.  A save that fails may or may not
have written.  A page may keep a twin: replacing the first of its twins can
bring it next to another one (`filter_service.py:202`), so the property is that
the best page survives, not that no twins do.

**VerifyJudges.**  A dimension is a coroutine (`dim[d]`), a batch of its statements
another (`chunk[k]`), both behind semaphores.  Verdicts are kept as far as the
control tells them apart (`single_source` or any other), and `basis` says what
the score of a statement rests on.  Batch mode accepts "consistent" of a
statement with a single source, and a factuality check is asked for twice on a
path that goes through a failed batch: both as in the code.

**SearchCalls.**  One agent after the other, in the two modes that share the code.
Time is kept as distances from now (`slot`, `sinceEnd`, the `rest` a call has to
sleep), so it needs no bound.  A tool call looks into the store (`search_react`
only), books (`agent` only), sleeps, takes the lock of the process and waits for
the rest of the delay, asks the engines and saves.  Each engine has its own
tries in `open`; `found` and `told` are what answered and what reached the model.

**ModelSettings.**  Rows of one user: `key` and base URL of providers as versions,
assets, presets with a binding for one stage and one speed tier.  A request reads
and checks in one step (`Begin` keeps the rows it saw) and commits or broadcasts
in later ones, in the order its code has.  A preset is saved with any binding: the
page sends ids it has loaded, and nothing checks that they are still registered.  A look-up reads row by row.  An entry
that a broadcast could no longer remove is marked `late`, a history variable that
lets `StaleEntryIsExplained` name the reason.  Abstractions: a provider row that
is deleted and inserted again counts as the same row; the cache's limit on its
size removes an entry like its age does; only workers look instances up.

## Runs

| Run | Shows |
|---|---|
| `run_serial` | With leases that outlive runs and no overlapping resumes, but with every failure, swallowed snapshots and cleaned-up checkpoints included: the lock excludes, its holder owns it, one live run per thread, what is pending can be resumed but for the two causes the property names, outcomes are final, and `ResearchService` is implemented |
| `run_hostile` | With expiring leases and overlapping resumes too: only resumes double a job, a row stays unfinished only for a reason the code has, session and task rows agree, and deleted tasks stay deleted |
| `run_live` | Under worker fairness with crashes, failing starts and failing lock deletes, every posted job ends and every lock becomes free |
| `sse_stream` | Order, no duplicates, losses only in the gap, connections that end, and a page that sees the end of its run unless that end fell into the gap |
| `worker_loop` | With polls that fail and messages that are lost: no starvation, order within a lane, bounded overtaking of fast jobs |
| `pipeline` | Rounds bounded and each approved; kept pages were judged; a report rests on its own pages and statements and shows their conflicts and gaps; its filter nodes implement `FilterRound`; every run settles |
| `filter_batches` | The batches with their interleaved reads and writes implement `FilterRound`; the cache gives the next round what this one decided; a page as good as the best survives |
| `verify_judges` | Every statement that counts gets a verdict, single-source key statements a check, and the node ends, whatever calls fail |
| `search_calls` | Answers with tools are bounded, waiting calls spaced, failures of an engine contained, and an agent comes to its answer |
| `settings` | A stale instance has a pending invalidation or a race as its reason and goes away; only requests that overlap double a name or orphan a session, only they and a stale page bind a missing asset |
| `bug_lease`, `bug_cancel` | one disagreement each, below |

The type invariants are proved, in every module, rather than run.

*Bounds.*  One session, because lock and rows are per session and sessions meet
only at the slots of a worker; two tasks, the least at which a follow-up meets a
run; two requests in flight, the least at which a read can be overtaken; two
resumes in `run_serial` and `run_hostile`, so a second approval of one thread and
two resumes of one approval occur; one of the two tasks, the first or the follow-up,
asks for approval (two that do are within the theorems, and too many states here).
`run_serial` and `run_hostile` have one worker with two slots, so two jobs of a
session run side by side; `run_live` has two workers with one slot each, so slots
are scarce.  `run_serial` has every fault; `run_hostile`, whose leases and resumes
make it the larger, those that leave rows behind (`LosesWork`: a crash, and a
failing post, snapshot or archive), `run_live` those that hold a lock (`HoldsLock`).
The theorems about the properties of the first two hold for every set of faults.  In
`sse_stream` the stream keeps two of three events, so trimming occurs, and one
reload.  `worker_loop` has more jobs than slots and a job in each lane; the
schedule itself is the real one.  Symmetry is used in runs without liveness
only.  `pipeline` has three pages (found for a dimension, for none, and one the coarse
filter turns down, so a round may pass nothing), a statement that is compared
and one that is not, and seven requests: approval on; no verification; agent
speed; automatic choice, new and as a follow-up with an earlier answer; no
preset limits, so the mode's three rounds apply; small talk.  Two rounds are the
least at which something of a round can be left for the next.
`filter_batches`: three pages in a chain of likeness, so deduplication depends on
the order, and batches of two or three, which the even cut makes one or two, so
two meet at the cached list; two slots do not bind there (the number of slots is a
parameter of the proofs); one retry; two rounds, so a cached verdict is used.
`verify_judges`: lists of one and of ten statements with three batches in one
dimension, one in another, a single one and two that are not judged; two slots at
each level, so the third coroutine waits.  `search_calls`: two calls of one
answer, two engines of which one is retried, a delay of two ticks, two agents so
that what one stored or booked is there for the next.  `settings`: one provider
with two models, room for two presets of one name, two requests, one worker (the
caches of workers do not meet), two versions of a key.  `CHECK_DEADLOCK FALSE` in
all but `pipeline` and `settings`, whose models always have a step: the others
rest when no request is left or the task is done.

*Fairness.*  `ResearchRun`: weak fairness of each job's progress (the poll loop
never stops, asyncio wakes semaphore waiters in order, graph runs end since
rounds are bounded and calls have timeouts) and of the expiry of locks (Redis).
Not of requests, supersteps or faults.  `SseStream`: of the worker, of a last
event (same reason), of each connection's loop and of the page's loading; not of
approval or reload, which are the user's.  `WorkerLoop`: weak fairness of polling,
starting and ending, and strong fairness of an answered poll of each worker and lane:
the loop comes round to a lane for ever, and Redis does not fail at each of those
turns; not of sending or of the listener.  `Pipeline`: of the graph as a
whole (model calls have timeouts or raise); not of `Approve`, which is the
user's, so `suspended` counts as settled.  `VerifyJudges`: of the node as a whole
(each call has a timeout; every step makes progress).  `SearchCalls`: of the
model's answers, of each tool call, and of time.  `ModelSettings`: of a handler
once it has begun, of a look-up, and of ageing (the TTL); not of requests, of the
delivery of a broadcast or of the subscription.  `FilterBatches` is checked for
safety only; `RoundIsShort` and `NoneIsStuck`, below, say why it ends.

## Where the code and its documentation disagree

- `bug_lease`: `README.md:228` promises that the lock prevents concurrent runs
  of a session.  `manager.py:180` renews it only when an event arrives in the
  first second of a minute, and the finally block deletes it unseen.
- `bug_cancel`: `README.md:384` promises that a cancellation ends the graph; the
  listener cancels itself (`manager.py:73`).

Seen in the models without a run of their own:

- *Rows and reconnection.*  Two overlapping resumes of one task both select it
  (`chat.py:186`) and the lock lets its owner's task in twice (set
  `ResumesOverlap` in `run_serial.cfg` and `SessionExclusion` fails).  A run
  refused by the lock leaves its row `running` (`manager.py:153`), and so do a
  message or a worker that is lost and a save that fails: these are the reasons
  `UnfinishedRowIsExplained` admits (`Unanswered`).  A resume whose snapshot cannot
  be read is taken for one whose checkpoint is lost (`manager.py:141`) and archived as
  `running`, although the thread still stands at the interrupt and nobody can
  approve it any more (`RunningAgainIsUnread`).  A run cut off while it publishes its
  breakpoint (`manager.py:210`, `272`) leaves a task failed and pending under a
  suspended session, and a cleanup that commits after the archive of a breakpoint
  leaves it failed and pending: a resume asks for `suspended` (`chat.py:169`) and
  finds neither (`ApprovalIsResumable`).  Reconnection (`README.md:247`) depends
  on one status field per session that other tasks overwrite
  (`chat_service.py:213`), and takes any running follow-up without a duration for
  a zombie (`chat_service.py:186`).  A cleanup that read a deleted task may mark a
  session created again under the same id as failed.
- *Worker.*  A poll that fails costs its lane a turn (`worker.py:307`), and a message
  that left its list and cannot be read is gone, with its row left `running`
  (`worker.py:326`).
- *Stream.*  Replay and then subscribe loses what lies between; when that is the
  last event, the page waits on (`consumer.py:55`, the exemption
  `EndIsInTheGap` of `OpenPageSeesTheEnd`).  A resume replays the breakpoint it
  answers and shows the card again (`consumer.py:42`).
- *Pipeline.*  `README.md:297` lets the execution mode decide the route; the
  planner writes `execution_mode`, the route reads `speed` (`graph.py:300`), the
  report reads `execution_mode`: small talk in a deep-research session runs the
  whole pipeline and then looks for the draft of an agent that never ran
  (`report.py:144`).  The card says it shows the planned dimensions
  (`BreakpointHandler.tsx:79`); `manager.py:204` looks for them where they are
  not, so the card is empty and approving it empties the plan (`worker.py:251`).
  `error_log` is read at the top of the state (`manager.py:216`), so critical
  errors never fail a run.  After a failed arbitration the report may use the
  statements of the round before and says there are no conflicts
  (`arbitrate.py:195`).  A round that passes no page judges the candidates of the
  round before again (`filter.py:65`).
- *Judges.*  A primary statement that is alone in its dimension keeps
  `single_source` without the check the comments at `tripartite.py:534` and `549`
  describe, when the dimension has two pages or more (`tripartite.py:541`).  A
  statement whose importance is a word the prompt does not list is neither judged
  nor, once another one is judged, handed on.
- *Search.*  The docstring of the limiter promises a delay between all calls; it
  holds for those that wait (`limiter.py:24`, `WaitersAreSpaced`).  The tools are
  taken away for the last call only, so an agent has `max_rounds` + 1 answers with
  tools (`search_react/graph.py:48`).  The budget of search_react looks for pages
  by a keyword that is never stored (`search_react/graph.py:61`).
- *Settings.*  A key is invalidated before it is committed
  (`settings_service.py:96`): a look-up in between caches the old one for the
  whole TTL.  The validator of a request accepts the binding of the speed tier
  where the look-up of the run insists on the stage's own (`deps.py:66`,
  `llm.py:67`).  A page loaded before an asset was deleted saves a preset that binds
  it, with no other request under way (`settings_service.py:200`, `crud.py:162`);
  the next look-up of that stage fails.  Two presets of one name, left by overlapping requests, make every
  later save of that name fail.

## What is proved

All theorems hold for every value of the constants that satisfies the named
assumption of the module (types, positive limits; of `ModelSettings` also that the
presets are finitely many, because `Doubled` counts those of a name, and of
`SearchCalls` that the calls of an answer and the engines are).

`ResearchRunProofs`, for every number of tasks, sessions, workers, slots,
requests and resumes, and for every set of faults unless said otherwise:

- Without any condition: `TypeCorrect`; `SessionFollows` (`SessionMatchesRows`);
  `DeletedForGood` (`DeletedStaysDeleted`); `LossesAreExplained`
  (`UnfinishedRowIsExplained`); `ResumesFollow` (`OnlyResumesDouble`).
- `Exclusion`, `LockHeld`, `OneRunPerThread`: `SessionExclusion`,
  `LockCoversRun` and `OneLiveJobPerTask`, assuming `LeaseOutlivesRun` and
  `~ResumesOverlap`; `bug_lease`, and `run_serial` with `ResumesOverlap` set,
  show that neither assumption can be dropped.
- Under the same two assumptions and with every failure: `Resumable`
  (`ApprovalIsResumable`), `Implements` (`ImplementsService`), and from it
  `NeverReopened` (`CompletedIsNeverReopened`).
- `RunningAgain` (`RunningAgainIsUnread`) assumes moreover that no checkpoint is
  cleaned up: then a row becomes `running` again only by a resume that could not read
  its snapshot, over a thread that is still at the interrupt.
- `ServedOnce`, without any condition: a job only moves towards its end, so no
  message is served twice, and a worker holds exactly the jobs at work.

| Module | Theorem | Property |
|---|---|---|
| `PipelineProofs` | `Bounded`, `Approved` | `RoundsAreBounded`, `SearchNeedsApproval` |
| | `Judged`, `Evidence` | `KeptSourcesWereJudged`, `ReportRestsOnCurrentSources` |
| | `Conflicts`, `Gaps` | `ConflictsAreSettledOrShown`, `DimensionsAreAccountedFor` |
| | `FilterImplements` | `FiltersByRounds` |
| | `StepsAreBounded` | each step lowers a natural number |
| `SseStreamProofs` | `DeliversInOrder`, `LosesOnlyTheGap` | `InOrderOnce`, `OnlyTheGapIsLost` |
| | `NoneWaitsInVain` | the safety part of `OpenPageSeesTheEnd` |
| | `CutsNeverMatter` | `CutsDoNotMatter` of `ThinkingTags`, for all texts |
| `WorkerLoopProofs` | `FastOnesAreSoon`, `LanesAreOrdered` | `FastJobsAreSoon`, `LaneOrderIsKept` |
| `FilterBatchesProofs` | `CacheReplays`, `BatchesActAsOneStep` | `CacheReplaysTheRound`, `ActsAsOneStep` |
| | `BestSurvives` | `BestPageSurvives` |
| | `NoneIsStuck`, `RoundIsShort` | a batch can go on; each step leaves less to do |
| `VerifyJudgesProofs` | `NoneIsLeftOut`, `LoneOnesAreChecked` | `AllAreJudged`, `LoneClaimsOfGroupsAreChecked` |
| | `NoneIsStuck`, `JudgingIsShort` | a coroutine can go on; each step leaves less to do |
| `SearchCallsProofs` | `RoundsBounded`, `FailuresAreContained`, `WaitsAreSpaced` | `RoundsAreBounded`, `FailureIsContained`, `WaitersAreSpaced` |
| | `WaitsAreShort`, `AgentIsShort` | no backlog of bookings; each step leaves less to do |
| `ModelSettingsProofs` | `StaleExplained`, `OverlapBreaks` | `StaleEntryIsExplained`, `OnlyOverlapBreaks` |

and `TypeCorrect` (`TypeOK`) in each of them.

*The lock.*  Exclusion is not inductive: the lock alone does not tell two
jobs of one task apart, because a job whose task owns the lock is let in
again.  So exclusion needs one live job per task, which needs that a resume is
committed only while the task has no live job, hence that a task waiting for
approval has none and is not about to get one.  The invariant `ExclusionInv` is
the conjunction of `TypeOK`, `LockCoversRun`, `OneLiveJobPerTask`,
`FollowUpAlone` (a follow-up that has not committed is the only trace of its
task), `RowAfterChat` (a row exists only after its first job was created),
`ApprovalAlone` (a pending task has no live job),
`ResumeReads` (what a resume request read is still so when it commits) and
`HostedIsPosted`.  `SessionExclusion` follows: two critical jobs of a session
both have the lock name their task, so the tasks agree, so the jobs do.  Each
action preserves the invariant by a lemma of its own; the last step is temporal.

*The rows.*  `RowInv` needs no condition: task and session are written together
by each commit, and a commit that finds no row writes none.  `BreakpointsStand`
says where `is_breakpoint` and `research_status` may differ: only in a run that
failed after its verdict.

*Unfinished rows.*  `ExplainInv` needs none either.  A resume is committed only for a
task that waits for approval, so after the archive of the chat's job (`ChatFirst`),
and resumes are numbered in the order of their commits (`ResumesInOrder`).  A
commit that makes a row unfinished posts a job; each step of that job, and each
failure, leaves it among the unanswered ones or writes the row.

*The outcomes.*  `OutcomeInv` joins `ExclusionInv` and `RowInv` with four facts about
the checkpoint: `PendingStands` (a pending task stands at the interrupt, or its
checkpoint was cleaned up, and its row is suspended or failed for a named cause),
`ResumesStand` (so does the thread of a resume on its way), `VerdictsStand` (what a
run is about to archive agrees with its checkpoint) and `CompletedIsOver` (a task
with a live job is not completed).

*The refinement of `ResearchService`.*  A task is active while a job of it
is between taking and releasing the lock.  Committing a row is `Create`, taking the lock `Begin`, leaving
it or dying with it `End`, a saved archive `Settle`, or `Abandon` when the run found
nothing to resume, the commit of a resume
`Approve`, of a cleanup `GiveUp`, of a deletion `Delete`; all else stutters.

*Served once.*  The places of a job are numbered from "not yet" to its ends
(`Stage`), and every action that moves a job moves it up: BRPOP takes a message
out of Redis for good, and a worker that dies takes its jobs along.

*The pipeline.*  `RoundInv`: the count is zero until the limit
is fixed, and below it wherever a search is next; approvals are never behind
searches, and ahead where a search is next.  `KeptInv`: pages taken from the
cache are never up for judgement in the same step, and where judging is next no
page of the stored result is, so a new judgement cannot turn down a stored page.
`EvidenceInv` follows the evidence through the nodes: from the stored pages to
the statements of the running verification (`RestsOn`), which verdicts do not
move to another page or dimension (`JudgeRests`), to the store and the report.
`ConflictInv`: a conflict leaves the verification towards the report only when
`SearchMore` refuses, which by `RoundInv` means that all rounds are used.
`GapInv`: no statement has a dimension without a page, so no conflict has one.
`FilterImplements` maps the planner to `Plan`, the node `coarse_filter` to
`Split`, or to `NothingPassed` where no page passes, `llm_filter` to `Judge`, and
an exception anywhere else to `GiveUp`; every other node stutters, so it leaves
cache, lists and result alone.  `StepsAreBounded` counts the rounds
left by the limit, nine steps each, then ranks the nodes within a round.

*Stream and worker.*  `OrderInv` of the stream: the stored stream ascends and ends
before the event being sent, and what a connection holds ascends from what it
delivered through what it has still to replay to what it receives; a received
event that was replayed is skipped.  `HeardInv`: from its subscription on, a
connection holds all that was published.  `ShownInv` adds what the page shows of it: a run
that is over has published a last event, and where a connection has delivered
that, the page is done; likewise for a breakpoint and the card.  With `HeardInv` it
follows that nobody waits for an end that came (`NoneWaitsInVain`).  `OrderInv` of the worker: each list is
in the order sent, the coroutines that wait are in order and ahead of it, and no
job is in two places; a message that is lost leaves the order as it was
(`LossKeepsOrder`).  `PassedInv` bounds the jobs of other lanes by the place in
the schedule, and ties the fast polls that failed to it.

*Thinking tags.*  A symbol may come as a piece of its own (`ProcessGrows`), and the
theorem follows by induction over the second piece.  The loop finds the first tag
of a longer text where it found that of the shorter one, since tags do not overlap
(`FirstGrows`, `PassTagsGrow`).  A text ends with the beginning of a tag in one way at
most (`OneMatch`), so what is held back is all that a next symbol can complete
(`CutTagCompletes`) or lengthen (`HeldGrows`).

*Filter, judges, search.*  `BatchInv`: at most one batch is between the read and
the write of the cache (`OneWriter`), so the cache is what it was before the round
plus the verdicts of the batches that are done (`CacheFollowsVerdicts`); all
judging steps but the last then map to stutters of `FilterRound`.  `JudgesInv`: a
batch that is done has judged its slice, and one that goes one by one has judged
what it has passed; a dimension that looks for checks has judged all.
`SearchCallsProofs` keeps `rounds` below the counter of the middleware, `told`
above what each engine found, and the last booking ahead of each waiting call.
`WaitsAreShort` bounds a wait by one delay for each call of an answer: the booked
times ahead have no gap, each is slept for by a call of this answer (`Chained`),
so one booking more would give a call two of them (`SlotIsNear`, a pigeonhole).

`BestSurvives`: each page absorbed leaves one that scores as much (`AbsorbCovers`),
and pruning cuts the list from its lowest scores.

*Settings.*  `CachesTyped`, `RequestsInv` and `CacheInv` together are inductive.
`RequestsInv`: a request under way has the steps its code has left, and its
arguments passed the checks against the rows it saw.  `CacheInv`: what a look-up
has read so far is what the rows say now, unless it is marked late (`FreshLookup`);
while a request that broadcast too early has yet to commit, everything cached is
marked or about to be thrown away (`EarlyIsCovered`).  For `OverlapBreaks`, a commit
onto the very rows its request has checked makes them no worse (`NoWorse`), except
that a save may bind the assets it did not look for (`Unread`).

*What of liveness is proved.*  Fairness and ENABLED are out of the prover's reach.  Provable are
the two halves a scheduler has to be added to: a variant that every step lowers
(`StepsAreBounded`, a natural number; `RoundIsShort`, `JudgingIsShort` and
`AgentIsShort`, strictly shrinking subsets of a finite set, so that nothing has to be
counted; the `Stage` of a job), and that somebody can always go on (`NoneIsStuck` of the filter and of
the judges, whose `WaitInv` says who holds a slot while who waits).

*Induction over data.*  The induction theorems of the library take a predicate as
a parameter, which the provers cannot instantiate.  `SetInduction` states induction
over a set instead and is proved from the minimal elements of well-founded
relations; by it deduplication, the loop over a buffer and the texts of
`ThinkingTags` are done for every length.

*Only model-checked:* liveness itself (`LockIsFreedAgain` and the other properties under
fairness), and `ShowsWhatIsOutside` of `ThinkingTags`, which compares the
processor with a definition by positions in the whole text.

## Not modelled

- Login and sessions of users: delegated to Logto, with Redis keys that expire.
- Schema, migrations and seeding: declarations and one-shot scripts.
- `services/sse/parser.py`: which line of the stream an event of the graph
  becomes; `SseStream` has the kinds that steer the page.
- The HTTP side of the engines and the parsing of their answers
  (`search/tavily.py`, `zhihu.py`; `bocha.py` beyond its retries), the wording of
  prompts, the trimming of messages.
- The arithmetic of scores and confidence in the verification nodes: it reaches
  the text of a report, no route.
- Search credentials, reads and lists of the settings API, and its connection test
  (taken to pass); the parameters of an instance beyond model, key and URL.
- Durations, counters and texts in the rows; the follow-up's context; vectors.
- The frontend beyond what it does with the events of a run.
- Language models, search engines and databases appear as chance.

## Plan

What is left, in the order of its use:

1. The checkpoint of `ResearchRun` as an abstraction of `Pipeline` (a refinement).
2. Several workers in `settings`, with the API process as a reader (the theorems
   hold for any number already).
3. Agents of several sessions and processes side by side in `SearchCalls`, which
   share the bookings in Redis but not the clock of the process (and for whom
   `WaitsAreShort` would have to count the agents).
4. The parser of graph events in `SseStream`.
5. `ShowsWhatIsOutside` for all texts.
