# A verification project for the indexer, the agent chat, autocomplete, services and MCP

This directory holds TLA+ models of the parts of the repository whose
correctness depends on the order in which things happen, the TLC configurations
that check them on small instances, and proofs, checked by TLAPS, of the
invariants that matter most. Paths below are relative to the repository.

## 1. The system

The program is a coding assistant that runs inside an editor. A *core* process
(TypeScript, `core/`) talks to language models and to MCP servers, keeps an index
of the code base, completes code and runs tools; a *GUI* (React and redux, `gui/`) holds the chat; an *extension*
(VS Code, IntelliJ, `extensions/`) connects both to the editor; the command line
agent (`extensions/cli`) is a second front end. GUI, core and extension exchange
typed requests, of which each may be answered late, with an error, or never.

### Inventory

| Component | State | Operations | What is hard | What makes it correct |
|---|---|---|---|---|
| Codebase indexer, `core/indexing/CodebaseIndexer.ts` | the window's abort controller, its pause token, the calls under way | `refreshCodebaseIndex`, `refreshCodebaseIndexFiles`, pause, abort | calls of one window overlap at every await; windows are processes that die | a superseded refresh is told to stop and stops; the window never refuses saved files for good |
| Index lock, `IndexLock` in `core/indexing/refreshIndex.ts` | one SQLite table shared by all windows | `isLocked`, `lock`, `updateTimestamp`, `unlock` | test and insert are separate statements; a holder may die; its timestamp may be late | only who is silent looks dead, a dead lock is broken, each row is removed, one window at a time |
| Refresh plan, catalog, global cache, `refreshIndex.ts` | `tag_catalog`, `global_cache` | `getComputeDeleteAddRemove`, `markComplete` | files change while a plan is carried out; branches share artifacts; aborts and crashes between statements | no progress is recorded that was not made; branches do not disturb each other; catalog and cache agree |
| Chunk index, `core/indexing/chunk/ChunkCodebaseIndex.ts` | `chunks`, `chunk_tags` | `update`: compute, addTag, removeTag, del | it trusts a plan that may be old | what is listed is stored; what is not listed is gone |
| Chat session, `gui/src/redux/slices/sessionSlice.ts` | history, status of each tool call, `isStreaming`, the stream's aborter | the reducers | thunks of several turns dispatch into it | messages stay in an order a model accepts; a decided call stays decided |
| Turn loop, `core/runtime/turnLoop.ts`, `gui/src/redux/thunks/streamNormalInput.ts` | the locals of each loop | iterate, process tool calls | stop, resubmission, errors, 401 and retries at each await | the spinner ends; a stopped loop ends and writes no more |
| Tool calls, `callToolById.ts`, `cancelToolCall.ts`, `evaluateToolPolicies.ts`, `streamResponseAfterToolCall.ts` | the status of each call | run, accept, reject, answer | loop, user and editor finish in any order | nothing runs without permission; whoever ends last starts the model again |
| Diffs of edit tools, `handleApplyStateUpdate.ts` | open diffs | closed, failed | they end long after the loop | as above |
| LanceDB, full text and snippet indexes | tables of their own | `update` | as the chunk index | as the chunk index |
| Shared answers of autocomplete, `core/autocomplete/generation/` | one `ListenableGenerator` with its buffer and listeners, the manager's current generator and its prefix | `getGenerator`, `tee`, `cancel`, `fullStop` | requests join, leave and cancel one stream at any await | what is offered continues what the user typed; no reader waits for ever; one model call at a time |
| Autocomplete requests, `core/autocomplete/CompletionProvider.ts` and `util/` | the debouncer's request, abort controllers, the table of cached completions | `provideInlineCompletionItems`, cancel, `get`, `put` | typing overtakes requests; the cache is searched with `LIKE`, for another prefix than it is written with | every request is settled unless a newer one is; what the cache offers was given before |
| Services of the command line agent, `extensions/cli/src/services/` | state and value of each service, promises in flight | `load`, `get`, `reload`, `set`, `initializeAll` | loads wait for each other by promise and by event; reset without an event; early values; errors | nobody waits for ever; a reload leaves nothing stale |
| MCP connections, `core/context/mcp/`, with the reload of the configuration, `core/config/` | the map of connections, status and promise of each, the saved configuration | connect, refresh, remove, enable, disable, reload | attempts that were aborted go on; a refresh reloads the configuration, which refreshes | "connecting" ends; the loop ends, with the servers the file lists |
| File walking, documentation indexing, the cascade of profiles and organizations, next edit, session store, inline edit, CLI agent loop, diff algorithms | see `PROJECT.json` | | debouncing, cancellation, reload while in use | not modelled yet, see sections 7 and 8 |
| Providers, protocol, tools of core, control plane, packages, sync, binary | little or none | | input and output | not modelled |

How they interact: a window calls `refreshCodebaseIndex` at start, on a branch
change and on request, and `refreshCodebaseIndexFiles` on every save. The first
takes the index lock and then, for each index, asks `getComputeDeleteAddRemove`
for a plan, which `ChunkCodebaseIndex.update` carries out and marks with the
callback `markComplete`, in batches of at most 200 operations of each kind; the second does the same for one file, without the lock.
The chat's `streamResponse` runs the turn loop; the loop asks core for the answer
of the model, runs the tool calls it is allowed to, and stops at the first that
needs the user, whose gesture then runs a thunk of its own. The editor asks core
for a completion at each key; requests overlap and share the answer of the model
while the user types what it says. Core reads its configuration from files; each
load tells the manager of MCP connections which servers there are and takes the
tools of those that are connected, and a manager that has refreshed its
connections asks for another load. The command line agent does the same with a
container of services that are made from each other.

## 2. Modules

| Module | What it models |
|---|---|
| `CodebaseIndexer` | indexers of several windows and the lock table they share |
| `CodebaseIndexer_proofs` | its inductive invariant and six theorems |
| `IndexRefresh` | what a refresh writes: plan, chunk index, catalog, global cache |
| `IndexRefresh_proofs` | its type invariant, and that the catalog records no false progress |
| `IndexAgreement_proofs` | that catalog, cache and chunks agree when one refresh runs at a time |
| `AgentChat` | the chat's history, the turn loops, the tool calls and the user |
| `AgentChat_proofs` | its type invariant, that no call runs without permission, and that one loop drives a turn, with what follows for its messages, spinner and calls |
| `SharedStream` | what readers of a shared stream may rely on (abstract) |
| `CompletionReuse` | how autocomplete requests share one generator; implements `SharedStream` |
| `CompletionReuse_proofs` | its inductive invariant, four safety theorems and the refinement |
| `Autocomplete` | the life of a request around it: debouncer, cache, giving up |
| `Autocomplete_proofs` | that it is a use of `CompletionReuse`, and that what the cache offers was given before |
| `ServiceGraph` | the services of the command line agent and what they are made from, with what the theorems ask of them |
| `ServiceContainer` | the container that loads them |
| `ServiceContainer_proofs` | that no wait is lost, no service is left loading, one call loads a service once at a time, and a reload leaves nothing stale |
| `McpConnections` | connections to MCP servers and the loop with the configuration |
| `McpConnections_proofs` | that no connection is stuck "connecting" |
| `MC...` | model values, constant definitions and symmetry for TLC |

`CodebaseIndexer` and `IndexRefresh` are two levels of one subsystem: what the
first calls a unit of work is, in the second, the planning of a job or an item
of it. The only thing the second needs of the first is which jobs can overlap:
two *full* refreshes of one window can (an aborted one finishes its unit), as can
any with `refreshFile`, and after the race of section 6 those of two windows.
`Worker` is the bound on that.

### CodebaseIndexer

An *invocation* of `refreshCodebaseIndex` (`Full`) or `refreshCodebaseIndexFiles`
(`Files`) is a process with a program counter at the awaits of the code; the
calls of a window interleave there. `controller` and `aborted` are the
`AbortController`s, identified with the call that made them; `NoCall` is the one
the constructor makes and aborts. `lockTable` is the table `indexing_lock`, in
the order of insertion, for `isLocked` reads the first row; each row has an age
instead of a timestamp. `beat` counts the ticks since a call last renewed the rows. In the
windows of `Tardy` the interval may fire late, and its `UPDATE`, whose promise nobody
awaits, may fail: `Tick` passes the moment at which it was due.

| Action | Code |
|---|---|
| `StartFull` | abort the window's controller, install one of its own |
| `SeeUnlocked`, `SeeStale`, `BreakStale` | one round of `waitForDBIndex` |
| `Lock`, `Unlock` | `IndexLock.lock` inserts without looking; `unlock` deletes every row |
| `UpdateTimestamp` | the interval callback, every 5 s: it renews all rows |
| `IndexUnit`, `Resume` | a unit of `refreshDirs`, then the test of the signal, then of the pause token; `yieldUpdateAndPause` |
| `LockFails`, `IndexFails` | an SQLite error outside, and an error inside, the `try` |
| `StartFiles`, `DropFiles`, `FileUnit` | `refreshCodebaseIndexFiles` and `refreshFiles` |
| `Finish` | both tails: abort the controller if it is still one's own |
| `SetPaused`, `CloseWindow`, `Tick` | user, operating system, clock |

### IndexRefresh

A *tag* is a branch of a directory for one index; each has a tree of files of its
own. A text stands for its own hash. A job goes through `Begin` (the file stats),
`Stamp` (the time that its rows will have), `MakePlan` (the rest of
`getComputeDeleteAddRemove`, which reads the files), then, item by item, `Compute`, `AddTag`,
`RemoveTag`, `Delete`, each followed by `MarkCatalog` (one row at a time) and
`MarkCache`, and ends with `Finish` (`markComplete` of what has only a newer
modification time). `Edit` is the user. `Breaks` says what may befall a job:
`Abort` at a yield, `Fails` when a statement throws, `Crash` between any two
statements, and `"edit"`, the change of a file between the reading that gives the
hash and the reading that gives the chunks. The plan of a full refresh is carried out in
batches, as `batchRefreshIndexResults` makes them: `plan` is the batch, with at most
`BatchSize` (200) operations of each kind, `rest` what comes after it, and `NextBatch`
takes the next one when a batch is done. An error gives up the rest of its batch only.
`refreshFile` has no batches. All files of a batch to compute are marked together, items of
another kind one by one.
The errors of the INSERTs of `Compute` are an exception: nobody notices them, and
any chunks may be lost. Every edit and every `Stamp` has a time of its own.
A missing file reads as the empty text, as `VsCodeIde.readFile` has it, and an
empty text has no chunks.

### AgentChat

JavaScript runs a thunk from one await to the next without interruption, so an
action is everything a handler or thunk does between two awaits, reducers
included. A *loop* is one run of `streamNormalInput`; its program counter names
the await it is in. `status` is the status of each call in the history (`"gone"`
once its message was dropped), `byUser` the calls that a `callToolById` thunk
executes, `applying` the edit calls with an open diff. `cut` says that the
aborter a loop captured was aborted; the session's current aborter never is,
since `abortStream` replaces it at once. `halted` and `interrupted` are history
variables for the properties. Messages have no contents but whether they have
text; tools differ by what their base policy allows, and by being a client edit
tool. A delta reaches the call whose id it has or, without an id, the last call of the
last answer, whatever its status (`More`).

| Action | Code |
|---|---|
| `Submit`, `Resolve` | `streamResponse` before and after `resolveEditorContent` |
| `Compile`, `CompileTooLong` | `llm/compileChat`, and the capture of the aborter after it |
| `Text`, `NewCall`, `More` | `streamUpdate` with text and with deltas of calls |
| `Retry`, `Unauthorized`, `RefreshOk`, `RefreshFails`, `PrematureClose`, `LoopFails` | the ways a request goes wrong |
| `StreamEnd`, `Prep`, `Policy`, `ToolReturns`, `ToolThrows`, `Save`, `Fold` | the end of an iteration and `processToolCalls` |
| `Accept`, `UserToolReturns`, `UserToolThrows`, `Reject`, `ShortcutReject` | buttons and shortcuts |
| `ApplyClosed`, `ApplyFails` | events of the editor |
| `Stop`, `NewSession` | `cancelStream`, `newSession` |

### SharedStream, CompletionReuse and Autocomplete

`SharedStream` says what the readers of a stream are promised: one stream is open
at a time, a reader takes its items from the first on and in order, and it is
through only when the stream has closed and it has taken all, unless it leaves.
`CompletionReuse` is the code that keeps the promise. A generator is named by the
request it was made for; `text`, `ended` and `source` are its `_buffer`, `_isEnded`
and what feeds it, `current` and `pending` are the manager's `currentGenerator` and
`pendingCompletion`. A reader in `tee` reads the buffer (`"reading"`) or awaits the
promise that `listener` resolves (`"waiting"`). Characters are model values and an item is
one of them. `Autocomplete` EXTENDS it, adds the variables of the provider, and
each of its steps is a step of `CompletionReuse` or leaves it alone. A request has two
prefixes: `prefix` is that of the prompt, with snippets and paths put before it, for
which the stream is shared and the completion put into the cache; `before` is what stands before
the cursor, for which the cache is searched. `Before` says which pairs there are.
`Like` is SQLite's `LIKE key || '%'`, with a constant (`StandsFor`, `AnyRun`) for what
the characters of a key match: letters of either case, `_` any character, `%` any run.
`Processed` is what postprocessing may make of a completion: it cuts off ends, and may put
a newline before an indent. A request whose timeout a newer one clears is `"dropped"`.

| Action | Code |
|---|---|
| `Begin` | `getGenerator` to its first await: `shouldReuseExistingGenerator`, then reuse or `_createListenableGenerator` |
| `Push`, `SourceEnds` | `_start` of `ListenableGenerator` with `stopAfterMaxProcessingTime`; its `finally` |
| `Take`, `Wait`, `EndOfStream` | the loop of `tee`, and the loop of `getGenerator` that skips what was typed |
| `Leave` | a filter that stops, calling `fullStop` or not, or an aborted token |
| `Abort`, `GiveUp` | the editor's signal, `CompletionProvider.cancel` |
| `Debounce`, `TimerFires`, `ByHand`, `Refuse` | `AutocompleteDebouncer.delayAndShouldDebounce`, `force`, the early returns |
| `LookUp`, `Save` | `AutocompleteLruCache.get` with its UPDATE, for `before`; `put` with the eviction of the oldest row, for `prefix` |
| `StartStream`, `Judge` | the stream, and what the provider does with its outcome |

### ServiceContainer

The graph of services is a parameter, in `ServiceGraph` (`Deps`, `Affected` as
`findAllDependents` lists them, `Sets` for the services that publish a state in the
middle of their factory, `Reloaded` for those that somebody reloads). `MCServiceContainer` has the
graph of the run, and beside it that of `index.ts`, for which TLC evaluates all that the
theorems assume: its dependents are computed by `findDeps`, which is `findAllDependents`.
`ToolPermissionService` is not among these: it publishes in the last synchronous part of
its factory, after which nothing can fail.
The calls that `load` and `get` make before their first await run without
interruption: they are the stack `calls`, and no other action moves while it is
not empty. What a waiter awaits is split as the code does: promises of loads
(`awaitsLoad`), and the `:ready` and `:error` events of a service (`awaitsEvent`).
A value is abstracted to the sources it is behind (`outdated` in the container,
`held` in the service object), so that "stale" is a set that is not empty.
`alone` is a history variable: the calls that nothing has disturbed.

| Action | Code |
|---|---|
| `Call` | one call of `load()` or `get()`: waits for the event, has the value, or starts the factory |
| `DepsLoaded`, `BodyStarts` | the promises of the dependencies; the factory's own `get()`s |
| `Set` | `set()` by a factory while it runs (`updateState`, `setState`) |
| `Finish`, `Fail` | `setServiceReady`, `setServiceError`, with all they wake |
| `Initialize`, `Get`, `Reload`, `Return` | `initializeAll`, `get`, `reload` as callers use them |
| `Edit` | what a service is made from changes |

### McpConnections

One variable is the file (`wanted`), one the manager's map, and `status`, `promise`,
`transport` are fields of each `MCPConnection`. An attempt is the body of
`connectClient`: `"trying"` while someone may wait for it, `"late"` when its timeout
has passed and it goes on nevertheless. `waits` are the attempts a refresh awaits;
an abort empties it and leaves the attempts alone. Loads and refreshes go through
the awaits of the code one by one.

| Action | Code |
|---|---|
| `Connected`, `Failed`, `TimedOut`, `LateEnd` | the ends of an attempt in `MCPConnection.connectClient` |
| `Notify` | the end of `refreshConnections` or `refreshConnection`, which calls `onConnectionsRefreshed`, that is `reloadConfig` |
| `Read`, `SetConnections`, `Build`, `Save` | a load: `loadYaml`, `setConnections`, `doLoadConfig`, and the saved result in `ProfileLifecycleManager` |
| `Edit`, `CloseToast` | a saved configuration file, and the notice core awaits before it reloads |
| `Reconnect`, `Disable`, `Disabled`, `Enable` | `mcp/reloadServer`, `mcp/setServerEnabled` with `disconnect` |

## 3. Runs

| Run | Checks | Size and bounds |
|---|---|---|
| `indexer` | `TypeOK`, `OnlyOwnerUnaborted`, `NoOrphanRow`, `StaleMeansSilent`, `StopsWithinOneUnit`, `NotWedged` | two windows; the first makes two full refreshes and one of files and may be paused, the second one full refresh and may be closed or tardy; two units each; one call of each window may fail. 5.4 million states |
| `indexer_grant` | `LockIsGranted` under fairness | two windows that may both be closed and be tardy, one of them paused; both refreshes may fail. 69 thousand states |
| `indexer_exclusion` | `MutualExclusion` fails | two windows, one refresh each |
| `chat` | `TypeOK`, `NoStrayToolMessage`, `NeverStuck`, `NoForgottenTurn`, `DecidedForGood`, `StopUnwinds` | two messages, two tool calls, two loops, history of four, two 401s, one answer begun again; a rejected call ends the turn (`continueAfterToolRejection` is false by default). 272 thousand states |
| `chat_races` | `OnlyPermittedRun` | one call; the user may send again while a stopped loop unwinds and use shortcuts while the model streams |
| `chat_zombie` | `HaltedNeverWrites` fails | one message, resubmitted |
| `refresh` | `TypeOK`, `StoredWhenListed`, `CacheAgrees`, `OtherBranchesKept` | two branches, two files, one with two texts, any of them there at the start; aborts; clock to 5, a batch holds both files. 3.3 million states |
| `refresh_breaks` | `NoFalseProgress` | one branch, one file with two texts, two overlapping jobs, all breaks, clock to 5, batches of one. 2.7 million states |
| `autocomplete` | `AllTypesOK`, `AnswerContinues`, `NothingMissed`, `OnlyCurrentRuns`, `NoLostWakeup`, `CacheGivesAgain`, the refinement `SharesStreams`, and `AllSettle` under fairness | two requests, the second for a longer text or for none; two characters, answers of up to two of them, a cache of one row. 930 thousand states |
| `services` | `TypeOK`, `NoOrphanLoading`, `NoLostWaiter`, `OneLoadEach`, `Fresh`, and `AllAnswered` under fairness | three services in a chain with a shared dependency, one of which publishes early, each of which may be reloaded; two clients, two calls, three loads of a service at a time. 392 thousand states |
| `mcp` | `TypeOK`, `NoStuckConnecting`, and `Converges` under fairness | two servers, one slower than the timeout; two attempts of a server, two refreshes, two loads at a time; the user does two things. 1.7 million states |
| `mcp_tools` | `ToolsArrive` fails | two servers, none slow; one edit, loads do not overlap |

Why the bounds suffice. Supersession takes two full refreshes of a window, the
lock a second window, and the rule about saved files one call of that kind; a
third of any kind meets only situations that two already make, and the theorems of
section 5 hold for any number. A second unit is what tells an abort at once from
one after a unit. An artifact is shared by at most two branches in what the plan
distinguishes (no tag, one, more than one). The clock starts at 1 and moves with
each edit and each refresh: to 5 there is time for a refresh of each branch, an
edit and another refresh, or for two edits and two refreshes. A batch of two is the code's case of a
workspace that fits into a batch; batches of one, in `refresh_breaks`, make each operation one of a batch
of its own. Two tool
calls are enough for one to be answered by the loop and one by the user or a
diff. Two requests are the fewest that share or cancel an answer, and the
theorems about `CompletionReuse` and `Autocomplete` hold for any number; a cache
of one row evicts at the second `put`. The two characters play all parts: in a pattern `a` is `_` and
`b` is `%`, `b` is the newline and `a` the indent, and a prompt may put an `a` before the text. Three services are the fewest with a diamond
(`tools` needs `config` directly and through `mcp`), and two calls the fewest that
overlap; three loads of one service are more than two calls start. One edit of the
servers and one other thing the user does reach each pair of overlapping refreshes
and loads; the names of attempts, refreshes and loads are bounds: an action that
would need a third waits until one is free. For that reason `mcp` leaves out longer
pile-ups, which `NobodyStuck` covers for any number. All runs switch off the deadlock check, because a session in which the
user does nothing more, or a bound is reached, stops.

What the properties leave out, and why: `StoredWhenListed` and `CacheAgrees` are
false when a crash or an error falls between the marks in `tag_catalog` and in
`global_cache`, when two jobs of a branch overlap, when a file changes
between its hash and its chunks, and with two chunks in a file; `StoredWhenListed` also
when a plan takes several batches (all found by TLC). So the run `refresh` has aborts as its only break,
one worker, one chunk and a batch that holds the plan.
`NoFalseProgress` is what still holds then, and it is checked with all of these.
In the run `chat` the user waits for a stopped turn to come to rest before
sending again; `chat_zombie` shows what happens otherwise.

## 4. Fairness

`CodebaseIndexer`: weak fairness of what a call does by itself (promises settle),
of its interval and of the clock. A closed window takes no steps and owes none.
Nobody has to call, pause, resume, fail or close; `LockIsGranted` therefore
assumes that no window stays paused, since a paused refresh keeps its lock fresh.
The safety part assumes nothing of the interval in the windows of `Tardy`, where it may come
late, or its `UPDATE` fail, any number of times. `CodebaseIndexer_grant.cfg` has both windows tardy.

`AgentChat`: weak fairness of each loop's own steps: requests are answered or
fail and tools return. The chunks of an answer are not among them, so an
answer may have any number, but it ends. The user owes nothing.

`Autocomplete`: weak fairness of each request's own steps and of the end of each
answer (`SourceEnds`: providers close their stream or fail, and requests time
out). Typing, aborting and the arrival of a chunk are not among them.

`ServiceContainer`: weak fairness of pending calls, of the resumption of each
waiter whose promise has settled, and of the end of each factory (it returns or
throws: files and requests that end or time out). Nobody has to call or publish.

`McpConnections`: weak fairness of what the program does by itself, taken together:
attempts end or time out, refreshes end, loads are carried through. The user
owes nothing and may leave a notice open, which is why `Converges` asks for
`map = wanted` only when none is. Taken together is enough since each step that the
program takes brings it closer to rest unless the user acts, which is bounded.

`IndexRefresh` has safety properties only.

## 5. Proofs

`CodebaseIndexer_proofs` proves, for all constants that meet
`IndexerAssumption` (calls belong to windows, bounds are natural numbers, and the
interval is not longer than the age at which a lock is broken: 5 s and 10 s in the
code; `Tardy` is any set of windows), that the specification satisfies all six invariants of the run `indexer`.
The invariants are not inductive alone. `IInv` adds `CountsInv` (a call that is
indexing has units left), `OwnedInv` (which calls can own a controller that is not
aborted), `PromptInv` (a call that did a unit after its abort is past its loop) and `FreshInv` (the age of
a row of a beating call is at most the ticks since that call renewed the rows: its own
row is always among those it renews). Each `Step...` lemma proves one conjunct, action by action;
`Invariance` combines them; the named theorems `TypeCorrect`,
`SupersededIsAborted`, `RowsAreOwned`, `LooksDeadWhenSilent`, `AbortIsPrompt` and
`FilesAreTaken` are its corollaries. `StaleMeansSilent` is about looks: a refresh that is
indexing looks dead only by its own silence. It does not say that a live row
is never deleted, which is false: `BreaksOnlyDead` fails without any delay (section 6).

`IndexRefresh_proofs` proves `ProgressIsReal`: `NoFalseProgress` holds with any
number of branches, files, texts, chunks and overlapping jobs, whatever the
breaks and however small the batches, from `RefreshAssumption` alone. The argument: a row's time is taken before
any file is read, so that a file not modified since then was read with the text it
still has (`PlanInv`), no row is of the future (`RowsPast`), and an edit gives the
file a later time than any row has. The essential fact is that the time is that of
the plan and not that of the marking: an edit between the reading and the mark
leaves a row older than the file. `TypeCorrect` needs `FiniteAssumption` besides
(finitely many branches, files and versions): an insert finds a new id because the
chunks in the index are finite in number, which is part of the invariant (`Stored`).

`IndexAgreement_proofs` proves what the main run of `IndexRefresh` checks, for any
number of branches, files and versions, under three premises. `OneAtATime` says that
there is one worker, that `Breaks` has at most `"abort"`, and that no two paths have
a text in common; `OneChunk` that a file has one chunk; `SmallTree` that the workspace has
no more files than a batch holds, so that all that is to be added is in the first batch, while
removals may take several. `CacheIsRight` (`CacheAgrees`)
needs the first only, and holds for batches of any size; `ListedIsStored` (`StoredWhenListed`) and
`BranchesApart` (`OtherBranchesKept`) need all three. The code guarantees none of this, and none of it can be
left out: with two workers, copies of a file, or any of the breaks `"crash"`, `"error"`
and `"edit"` in place of `"abort"` in `IndexRefresh.cfg`, TLC finds `CacheAgrees` and
`StoredWhenListed` violated, and with two chunks to a file (`Piece = {1, 2}`, one path, two
versions, `EndOfTime = 7`) `StoredWhenListed` and `OtherBranchesKept`: `del` leaves a
chunk behind, which stops a later `addTag` and which another branch still shows. With
batches of one and two files `StoredWhenListed` fails as well (`IndexRefresh_batches.cfg`,
section 6).
The invariant follows the three stores through an operation. `MarksInv`: the catalog is
what the cache will be once the items *marked so far* are in it. `ChunksInv`: the
chunks are what the cache will be once *all* items of the operation are in it, one
chunk for each key some branch has. `PlanStands`: what the plan found out about other
branches is still so when an item's turn comes, because the operations only touch
the job's own tag and removals come last: in a batch by `Due`, and by `SmallTree` no later
batch adds anything. `FilesInv`: planned files
have texts of their paths, those to be computed the text in the tree, and what `Finish`
will rewrite is not to be removed. `LatestIsRow`, that a path with rows has a latest
one, rests on the well-foundedness of the natural numbers.

`AgentChat_proofs` proves `TypeCorrect` and `PermissionHeld` (`OnlyPermittedRun`)
from `ChatAssumption` alone: for any number of calls, loops, messages and
refreshes and for every choice of `Races`. `IInv` adds `JudgedInv` to `TypeOK`: the
calls a loop still has to judge or run were in an answer, and those it would run
without asking are of kind "edit" or "free". The steps fall in two classes. The
`Calm` ones judge nothing and run nothing: they may change statuses, but make no call
"calling" and forget none, keep the kind of every call there is, and leave each loop
with what it had judged or outside the judging steps (`CalmKeeps`); one lemma for
each says so. The others are those that judge, save or run (`Prep`, `Policy`, `Save`)
and the user's `Accept`, which puts the call in `byUser`. The invariant is needed
because the awaits between the judgement and the run let other loops and the user
in: what keeps the judgement true meanwhile is that the kind of a call never changes
once it is there.

`CompletionReuse_proofs` assumes `ReuseAssumption` and proves, for any requests,
texts and lengths, the four safety properties and the refinement. `IInv` adds to
them `GeneratorsInv` (a generator nobody asked for is empty, one whose source is
closed has ended, `pending` is what the current one has said), `JoinedInv` (who has
joined what) and `ReadingInv`, the heart of it: the text before the reader's cursor
runs from the prefix asked about into the answer, what was typed and is still to be
skipped comes next in the answer, and the completion ends where the reader stands
(`Reads`). That is preserved when the model says more
(`ReadsInLonger`), when a typed character is skipped (`ReadsTyped`) and when one
is handed on (`ReadsNext`); `AnswerContinues` and `NothingMissed` follow.
`OnlyCurrentRuns` is needed for `pending` to be the text of the current generator,
which the decision to reuse it compares with: otherwise a cancelled generator could still add to it.
`Sharing` maps each step to a step of `SharedStream` or a stutter
(`Shared!SharedSpec`, with `text`, `pos`, `gen` as `produced`, `taken`, `of`).

`Autocomplete_proofs` shows `UsesGenerators`, that each step of the provider is one
of `CompletionReuse` or a stutter of it, so all of the above holds of it, and proves
`OfferedWasGiven` (`CacheGivesAgain`): what the cache offers is what is left, after the
characters typed since, of a completion that a request nobody aborted was given in full,
and whose prefix is `LIKE` what stands before the cursor. It holds whatever `LIKE` matches (`StandsFor`, `AnyRun`),
whatever the prompts put before the prefix (`Before`) and whatever postprocessing cuts. The
invariant says of each row of the cache (`RowsInv`), and of each `put` that waits for the mutex
(`SavingInv`), that it is such a completion.

The six other theorems of `AgentChat_proofs` have the premise `Usual`: `Races = {}`, that is,
the user sends and uses shortcuts when nothing of an earlier turn is under way, and a
rejected call ends the turn. `OneLoopDrives` proves the invariant `TurnInv` for any number of
calls, loops, messages and refreshes, and `ToolMessagesFollow`, `SpinnerServed`, `TurnsGoOn` and
`DecidedStays` follow from it: `NoStrayToolMessage`, `NeverStuck`, `NoForgottenTurn` and
`DecidedForGood`. The last needs `AnswersUnrun` too: while an answer streams, what a delta
without an id can reach by its place (`More`) has not been run, refused or given up. Until a loop runs
the calls of its answer none of them is decided but by an error, and afterwards a tool message stands
behind them until the next answer. The premise that nobody answers a call while its answer streams is
what this takes (`AgentChat_reopen.cfg`, section 6). `TurnInv` says who is responsible at any time. A loop *drives* unless it is idle or
*leaving* (stopped, and about to see that in its last look), and at most one does. While the
chat streams there is a driver, and it is `Live`: the calls that wait for a permission are
just those it has still to judge or run, and none is with the user or the editor. When the chat
does not stream a driver is `Dead`: the turn was interrupted, and open calls, if any, are
behind the one it executes, so nobody else can start a second loop. Without a driver the open
calls of the last answer are with the user or the editor (`UsersFit`), each with one of them, and who
decides the last of them starts the next loop: a history whose calls are all answered
(`Settled`) and without a driver is one of an interrupted turn. `Told` says where messages
stand. The premise is needed. Without
`Races = {}` there is `chat_zombie`. With `continueAfterToolRejection` two loops can come to
drive one turn, which no run with two calls reaches and the attempt at this proof brought
out: an edit's diff is open and another call, accepted, is executing; the first is rejected
by shortcut, which cancels it; the second returns and starts a loop
(`gui/src/redux/thunks/streamResponseAfterToolCall.ts:81`), whose request is closed early, which marks the old calls errored
(`gui/src/redux/thunks/streamNormalInput.ts:522`); now the diff closes, its call no longer looks
cancelled, and the turn goes on a second time. With four calls both loops then leave the end
of the turn to one another and `NeverStuck` fails.

`ServiceContainer_proofs` proves `NoOrphanLoading` and `NoLostWaiter` from the
assumptions about the graph (none of those it uses forbids cycles). Together with
`TypeOK` they are inductive, and support each other: whoever waits for an event
does so because the service was loading, so a load of it runs (`NoOrphanLoading`),
and the end of a load wakes all who wait for its events, so that when no other
load is left nobody waits (`OneEnds`).

`LoadedOnce` proves `OneLoadEach` there, under the premise `PublishersApart`. `load()`
starts a factory also when the service is ready, so what keeps it from running twice is
only the state "loading", and a service that publishes early is ready while its factory
runs. The invariant `Once` therefore follows who may still call `load()`: a service is
started in the first, uninterrupted stack of calls, when every load still waits for all its
dependencies (`AllAwaited`); or later, by a factory whose `get()` finds a dependency failed
that it had waited for, which takes one that published and failed after that. The services
that can be started so are `Again`, and the premise says that none of them is made from
another service that publishes early. The factory of `config` sets `auth`, which it is made
from; `Firm` shows that `auth` is loaded then, since a load of `config` awaits, or has, all that
it is made from, and nothing loads that again meanwhile. The premise asks what this
takes: that such a factory is registered with all it is made from, and that what is loaded
again reaches this only through it. The graph of `index.ts` meets the premise, with `config`
setting `auth`, `agentFile` setting `update`, and `mcp`, `update` and `fileIndex` publishing their own
states: `Again` is `mcp` and what it is made from. The graph of the run meets it too. It
would fail if `toolPermissions`, which is made from `mcp`, could fail after publishing: its dependent would
load it, and `mcp` with it, while the factory of `mcp` runs.

`ReloadedFresh` proves `Fresh`, from the assumptions about the graph, of which it needs that
there is no cycle, and the premise `ReloadsInOrder`. A
reload that nothing disturbs has two phases, and the invariant `FreshInv` a half for
each. `Opening` is about the first, uninterrupted stack of calls: every load in flight
waits for each dependency or is still to ask for it, and the client waits for each service
it has asked for, or for one made from it. When the stack is empty `Opening` gives
`Closing`: what a factory has read, or is about to read, is ready, up to date and no longer
being loaded (`Fine`), and each service asked for is `Fine` or keeps the client waiting, or is
needed by another service of which the same holds (`Covered`). Without cycles the last cannot go on
for ever, so when the client waits for nothing everything is `Fine`. A failure fits in
because it climbs the same chain to the client (`FailCloses`), whose call then fails.

What stands against it is a service that publishes early: `load()` and `get()` of a service that is
"loading" wait for its next event, which may come with the state of before, while the
*first* to ask has the promise of the load. So who reads an early publisher must be the first to
ask for it, and this depends on the order in which `findAllDependents` lists the services: the
premise asks that an early publisher has one reader, which a reload lists before it. In `index.ts` the
early publisher is `mcp`, its reader `toolPermissions`, and the list for `auth` has
`toolPermissions` (reached through `agentFile`, registered early) before `mcp`; `model` does not reach
`mcp`. A reload of `mcp` itself meets the premise too, but `Fresh` claims only
that all is ready then, for the reader does go on with the state of before
(section 6). The list for `config` has `mcp` first, and the premise fails: nothing in the code
reloads `config` through the container (`ConfigService.updateConfigPath` reloads `model` and `mcp`), and
should that change, the tool permissions could be made from old servers. TLC evaluates all of this as
`IndexPremises`, and for the run as `RunPremises`.

`McpConnections_proofs` proves `NoStuckConnecting` from `BoundsAssumption`, for any
number of servers and overlapping attempts. With `TypeOK` it is inductive: an
attempt that ends clears the promise, be it another attempt's, and sets a
status other than "connecting".

Only model-checked: liveness (`LockIsGranted`, `StopUnwinds`, `AllSettle`, `AllAnswered`,
`Converges`), which TLAPS cannot do under fairness.

## 6. Where code and documents disagree

* `indexer_exclusion`: two windows that both look before either inserts its row
  both index, which the comment at `core/indexing/CodebaseIndexer.ts:691` wants to
  prevent. `unlock`, which deletes all rows, then makes it easy for a third.
* `chat_zombie`: `isAborted` reads the aborter of the moment and `iterate`
  captures it after `llm/compileChat`; a loop stopped before that does not notice
  when the user has sent again, and streams into the new turn
  (`gui/src/redux/thunks/streamNormalInput.ts:117` and `:342`).
* `mcp_tools`: `refreshConnections` aborts the refresh before it and then does not
  wait for connections in progress, whose promise the abort has resolved
  (`core/context/mcp/MCPConnection.ts:127`). A server that is still connecting when
  another is added connects without a reload, and its tools stay unknown, which
  the comment at `core/config/yaml/loadYaml.ts:416` says a reload would bring.

Further counterexamples are not among the runs, but their configurations are kept;
`tlc -config X.cfg MCM` shows each in seconds unless it says otherwise:

* `IndexRefresh_copies.cfg` (`StoredWhenListed`, no breaks, shared texts): after a
  rename the new path is listed and has no chunks. The plan tags the existing
  artifact for the new path and then deletes it for the old.
* `IndexRefresh_pieces.cfg` (`NothingLeftOver`): the deletion of a file removes one of
  its chunks (`core/indexing/chunk/ChunkCodebaseIndex.ts:130`).
* `IndexRefresh_batches.cfg` (`StoredWhenListed`, batches of one, two files; some minutes): each batch
  does its own removals, so that a `del` of one batch comes before the `addTag` of a later one that relies
  on what it deletes (`core/indexing/CodebaseIndexer.ts:534`). In the code this takes more than 200
  operations of a kind and two aborted refreshes. With `BatchSize = 4` the same configuration has no violation.
* `CodebaseIndexer_break.cfg` (`BreaksOnlyDead`): two refreshes have both found the row of a
  closed window; the first breaks it and indexes, the second then deletes the fresh row of the
  first, for `unlock` deletes all rows (`core/indexing/refreshIndex.ts:581`).
* `AgentChat_reopen.cfg` (`DecidedForGood`, with the shortcut allowed during the stream): a call that
  the user refuses while its answer streams is "generating" again with the next delta
  (`gui/src/redux/slices/sessionSlice.ts:163`).
* `Autocomplete_like.cfg` (`CacheFits`): `LIKE` finds a key that the text before the cursor does not start with,
  and the test of `core/autocomplete/util/AutocompleteLruCache.ts:51`, which compares what comes after the
  key's length, accepts it.
* `Autocomplete_hang.cfg` (`NoneHangs`): the timeout of a request that was overtaken is
  cleared, and its promise never settles (`core/autocomplete/util/AutocompleteDebouncer.ts:14`).
* `IndexRefresh_abort.cfg` (`CatalogCurrent`): an abort between the marks of the new
  and the removal of the old version of a file leaves the old one until the file
  changes again.
* `Autocomplete_fullstop.cfg` (`StopsOwn`): `fullStop` cancels the manager's current
  generator, which may be that of a newer request
  (`core/autocomplete/generation/CompletionStreamer.ts:28`).
* `ServiceContainer_early.cfg` (`DependenciesFirst`): `MCPService` publishes its state
  while its factory runs, and so a service made from it starts on the state of
  before (`extensions/cli/src/services/MCPService.ts:148`).
* `ServiceContainer_order.cfg` (`Fresh`): if the list of dependents of `config` had `mcp` before who
  reads it, as that of `index.ts` has, a reload of `config` would leave a service made
  from old servers. Nobody reloads `config`, so this shows what the proof's premise is for,
  and no fault of the code.

## 7. What is not modelled

Of the chat: automatic compaction, deletion and truncation of messages, thinking
messages, the contents and titles of sessions, edit mode, background mode, slash
commands, and the button that stops a terminal command. Retries of read-only tools are part of the
tool's execution, since no state changes between them. Of the indexer:
progress messages, telemetry, disabled indexing, clearing of the indexes, the
remote index cache and the other indexes. Of the files: size limits and hash collisions. The
components listed as `not_modelled` in `PROJECT.json` have their reasons there.

Of the chat also: a delta with the id of an earlier call, or none, that arrives after a tool message and
so makes a message of its own, which only a shortcut during the stream allows. Of autocomplete: the contents of prompts and snippets, the
removal of a thinking block in the middle of a text, keys cut at 49,900 bytes, the options that
switch the filters or the cache off, and the log of what was accepted. Of the command line services:
what each does with its state, and `AgentFileService.setState`, which writes under
another name than its own. `Set` is a `set()` by a factory that runs; `MCPService` also sets its state as
servers connect after its factory returned, and `ConfigService.updateConfigPath` sets `config` outside
a load before it reloads. Both replace the value of a service that may be loading, wake who waits for
its event, and start no load, which is what `Set` does while it is loading. `Fresh` and `OneLoadEach` speak of calls that not another
disturbs: overlapping reloads may store a value that is older than the one there
(`Finish` has the step). Of MCP: authentication, which is an await before the
attempt; transport options that change under an old name; the shutdown by an
organization's policy; what a removed connection still does; a stop while
connecting, after which the status is left as it was (`Disabled` has the step); a
connection that fails synchronously. Of the configuration: the cascade of
organizations and profiles (`ConfigHandler.refreshAll`, `setSelectedOrgId`), and
all that a load reads besides the list of servers.

## 8. Plan

1. *(done)* The indexer's lifecycle and lock, checked and proved.
2. *(done)* Plan, chunk index, catalog and cache, checked; `NoFalseProgress` proved.
3. *(done)* The agent chat, checked.
4. *(done)* Proofs about `AgentChat`: its type invariant, `OnlyPermittedRun`, and, without
   races, its other invariants.
5. *(done)* Autocomplete, with the abstract stream it implements, checked and proved.
6. *(done)* The services of the command line agent, checked; no lost wait, one load of a
   service at a time and nothing stale after a reload, proved.
7. *(done)* MCP connections and the configuration loop, checked; `NoStuckConnecting`
   proved.
8. *(done)* The type invariant of `IndexRefresh`, and that its three stores agree when
   one refresh runs at a time.
9. An abstract lock with a holder that may die, and `CodebaseIndexer` restricted
   to one window at a time shown to implement it; an abstract index, a map from
   branch and path to text that a refresh brings up to date, and `IndexRefresh`
   with one worker and no breaks shown to implement it.
10. `ConfigHandler`: the cascade of organizations and profiles, its abort, and
    `setSelectedOrgId`, which installs after an await.
11. `DocsIndexing`: the queue of sites of `DocsService`, its aborts and its sync.
12. `CliAgent`: the message queue and the tool permissions of `extensions/cli`.
13. The line diff of `core/diff` as operators against a reference definition, and the
    editor's vertical diff blocks.
