# agy-gated-acp in TLA+

A model of `agy-gated-acp`, the adapter that speaks ACP (JSON-RPC over stdio) to
an editor and runs Google's `agy` as a child process for every prompt.  With
`--permission-prompts` the adapter turns off agy's own permission checks and
becomes the only gate between the model and its tools, so most of what follows
is about that gate and about the processes, sessions and files around it.

All of it was translated from the source, paths are relative to the repository:
`src/permission.rs` is the file the comment of `PermissionBridge.tla` calls
that.  `PROJECT.json` maps each definition to its lines.

    tlc -config BridgeTurns.cfg MC_PermissionBridge.tla     model-check one run
    tlapm HookIpc_proofs.tla                                check the proofs of one module

## The system

| part | source | state it keeps | operations |
| --- | --- | --- | --- |
| dispatcher | `main.rs`, `cancel.rs` | stdin and output channels, `pending_prompts`, cancel tokens by session | one loop over input and output; a task per prompt; inline arms for the rest |
| adapter, session store | `adapter.rs` | the session map (64), recency ticks, `pending_forget`, `sessions.json` (capped, file-locked) | new, load, resume, set_model, prompt; evict, restore, persist, prune |
| turn lifecycle | `adapter.rs` | the child, its guard, reader tasks, the cancel and undrainable flags | spawn, drain, cancel, reap, tear down, answer |
| permission bridge | `permission.rs` | bound session, turn generation, pending requests, remembered answers, refusal flag | decide a hook; answer, time out, abandon, forget |
| hook IPC | `permission/serve.rs`, `hook_client.rs`, `frame.rs` | connection permits, deadlines | accept, read, decide, write; fail closed |
| rules | `permission/sticky_rules.rs`, `safe_command.rs`, `path_rules.rs` | none | classify a call: its key, whether it is safe, whether it escapes |
| process killer | `proc.rs` | the registry of live children | scan, stop and kill a tree; kill all |
| runtime directory | `runtime.rs`, `hook_root.rs` | the private directory, its cleanup handle | create, fill, seal, remove |
| stream processor | `streaming.rs` | texts, thoughts and tool calls by step of the turn | turn agy's events into session updates |
| replay | `db.rs`, `protobuf.rs` | none | read agy's conversation database: rows, payloads, transcript |

**How they interact.**  The dispatcher is the only reader of stdin and the only
writer of stdout.  Everything else sends lines through one unbounded channel
(`out_tx`), in which `Some(line)` is a message and `None` the sentinel that ends
a prompt.  A prompt task holds the adapter mutex for its whole turn; most other
requests take the same mutex inline, in the loop.  `session/cancel` and the
host's permission answers do not.  agy calls its `PreToolUse` hook, a process
that connects to the bridge's socket; the bridge decides in a task per
connection, asking the host if it must.  The turn binds the bridge to its
session on the way in and unbinds it on the way out.  Signals are handled by
tasks that share the registry of children and the cleanup handle with
everybody, and end the process under them.

**What is hard.**  Hook tasks are concurrent with the turn that caused them,
with its end and with the next turn; flags and maps they share are one per
adapter, not one per turn.  The loop can be blocked by a mutex a turn holds.
Several adapters share one file and any of them may die at any instant.  The
tree to be killed forks while it is walked.  Signals arrive half way through
setup.  A hook, the bridge and agy each wait with a deadline of their own, and an
answer is worth something only while all three do.  agy's events and its database
come from outside: nothing says that they are whole, in order or said once.
`PROJECT.json` lists each of these hazards at its line with the
properties that answer it.

**What makes each part correct.**

- *bridge*: no call runs without a warrant that covers it; nothing is remembered
  that was not said; what happens late stays in the turn that caused it; every
  hook is answered.
- *dispatcher*: every request is answered once, after its updates; the process
  exits after its input, and only when nothing is owed; a cancel reaches what
  it names.
- *turn*: the answer tells what happened to agy; agy is never blocked for ever;
  a cancel ends the turn.
- *store*: the caps hold, others' sessions survive a save, a crash leaves a whole
  file, remembered answers belong to live sessions.
- *hook IPC*: nobody gives up before the one who is to answer has; permits come
  back; whatever breaks, a hook is told what was decided or a denial.
- *stream processor and replay*: the client sees every text once, in order, each
  tool call announced once; a replay shows what the turn showed; a payload yields
  the fields that are in it.
- *killer and shutdown*: nothing the walk could know of survives it, nothing is
  left suspended, the directory is removed however the process ends.

## The modules

| module | models | composed with |
| --- | --- | --- |
| `PermissionBridge` | the bridge and the turns that bind it | `_proofs` has its theorems |
| `Dispatcher` | the loop, the prompt tasks, the cancel registry | implements `RpcService`; `_proofs` has its theorems |
| `RpcService` | what a JSON-RPC server promises its client | instantiated by `Dispatcher` |
| `TurnLifecycle` | one turn, from a running agy to its answer | `_proofs` has its theorems |
| `SessionStore` | the map, the file and the queue of forgotten sessions | `_proofs` has its theorems |
| `ProcessTree` | `kill_process_tree` against a tree that forks | `_proofs` has its theorems |
| `Shutdown` | setup, turns, return and signals of a process | uses the kill as one step; `_proofs` has its theorems |
| `HookIpc` | hook processes, the accept loop and its permits, connections, deadlines | implements `HookGate`; `_proofs` has its theorems |
| `HookGate` | what agy is promised of a hook: one verdict, allowed only if decided | instantiated by `HookIpc` |
| `CallRules` | which calls run unasked: the classifier of safe commands, the scopes, containment | |
| `StreamProcessor` | a turn's events and what the client is shown of them | instantiates `Replay` on what it leaves behind |
| `Replay` | rows of agy's database and the transcript made of them | |
| `ProtoScan` | varints and fields of a step's payload | |
| `Readers` | the names of what is checked and proved of `CallRules`, `StreamProcessor`, `Replay` and `ProtoScan` | `_proofs` has theorems about them |
| `MC_Readers` | | their composition for one run: a behaviour is of one of the four |
| `MC_*` | constants, symmetry and views of the runs | |

An operator whose name begins with `Mut` is a plausible bug of the operator
below it.  It is no part of any specification; it records what each property
would catch.

### PermissionBridge

An action is one critical section of the bridge's mutex or one step taken
outside it, so every window between two `lock().await`s of `decide` and
`apply_outcome` is there.  A hook passes `Arrive` (the connection is accepted),
`Resolve` (session and generation are read), `Screen` (hook directory and
automatic policy), `LookupDeny`, `LookupAllow` (two sections in the code, two
actions here), `RegisterPending`, `SendRequest`, then waits; `HostAnswer`,
`Timeout` with `WithdrawTimedOut`, or an abandonment settles it; `ApplyOutcome`,
`MarkRefusal` and `StoreSticky` finish.  A turn passes `StartTurn`, `Spawn` or
`SpawnFails`, and its teardown `ReadRefused`, `RegisterConversation`,
`ClearActive`, `AbandonAtTeardown`, each a section of its own.

The policy and the key functions are constants (`AutoAllow`, `Escapes`,
`AllowKey`, `FingerprintKey`): nothing in the bridge depends on how a call is
classified, so what is proved of it holds for any classification.  A hook is
used once, and a JSON-RPC request id is identified with its hook.

### Dispatcher and RpcService

`Forward`, `TakeLine` and `SeeEof` are the arms of `select!`; `Dispatch*` are the
arms of the match, and a prompt is a task with its own steps (`Enqueue`, `Begin`,
`Publish`, `Ask`, the ways agy ends, `Unregister`, `Respond`, `SignalEnd`).  The
mutex is a fair queue, as tokio's is.  The bridge is reduced to one permission
request per turn, `TurnLifecycle`'s drain to `AgyFinishes`, `AgyDies` and
`NoticeCancel`.  `ServesEveryRequest` states that the dispatcher implements
`RpcService`: with `Status` as the refinement mapping, each request goes from
unsent to open to answered (a second answer would leave the service), and the
service exits only when closed and nothing is open.

### TurnLifecycle

agy writes to a pipe of `PipeSize` events, may hang, fail, close its stdout, and
start a helper that outlives it.  The reader parses, fails, sinks; the drain
waits for the child, sees the flags, kills, reaps, drops the guard, joins the
readers; `AnswerTurn` is `turn_response`.  `InheritsPipe` says whether helpers
hold agy's pipes.

### SessionStore

A process is its map (kept in order of recency, as ticks are unique and grow),
the queue of forgotten ids, the answers in its bridge and the operation under
its mutex.  `persist_session` is four steps: lock, read-and-prune, write the
temporary file, rename; `WriteFails` gives up, `Crash` loses the process and
keeps the disk.  Times come from a set, so the clock may tie and jump back.
agy's conversation for a session is named after it, as agy resumes the one it
is given.

### ProcessTree and Shutdown

A process table is read entry by entry in the order of pids, while the tree
forks and exits: it is no snapshot, and it may be unreadable.  `Linked` is what
live parents still connect to agy.  In `Shutdown`, `pc` is the main thread from
`start_permission_prompts` to its return, `cleaning` each thread's place in
`RuntimeCleanup::cleanup`, and each handled signal is a thread that can end the
process at any of its steps; `early` is a history variable, true once a signal was
received before setup was over.  Removal is three steps (restore the modes, empty,
remove), since `remove_dir_all` is no atomic operation.

### HookIpc and HookGate

A hook is a process that connects, sends its call and reads the answer: `client`
is where it is in `run_hook`, `task` where its connection is in the bridge, from
the listener's backlog over `serve_hook` to closed; `wire` is what it can read.
`Accept` takes a permit or, without one, refuses under the saturation permit or
drops the stream.  `decide` is `DecideAlone`, or `AskHost` and a wait for the host
of at most `response_timeout`; its inside is `PermissionBridge`'s.  Hooks are killed
at any point (`Killed`), lines are torn on both sides (`LeaveBehind`,
`WriteTimesOut`, `AdapterExits`), and the listener ends (`StopListening`).

`Tick` passes one second on every timer, and only when nothing is `Due`: local
steps take no time.  That is the assumption the property of the deadlines rests
on, and what its one second of margin is for.  What does take time is the host, a
client that has not sent yet, and a peer that does not read.  A socket's timeout is
one for each call; a request and an answer are one call here, as they are for
frames below the socket's buffer.

`FailsClosed` states that all of it implements `HookGate`: a hook asks, at most one
decision is made of it, and it is settled with an allowance only if that was the
decision, and with a denial of an allowed call only if the adapter is gone.

### CallRules

The rules are pure functions, but a command line is read token by token by a
parser with state, and a state machine is the natural form for it: each action of
`Classify` reads one token, or two when a flag takes the next one as its value,
and any token of any shape may come, so a run goes through every command line of
up to `MaxTokens` tokens after the program's name.  `Decide` then applies the
automatic policy, the scope of what was remembered and containment.  The user has
answered "always" to every program and every tool: what is left to stop a call is
what the property is about.

A string is what the rules and the programs can tell of it: a plain name, one
behind a symlink that leaves the workspace, `..`, an absolute path, `~`, something
sensitive.  `Inside` stands for `is_inside` with its resolution of symlinks.  The
tables are reduced to one program for each shape of entry and one flag for each
shape of flag.  `Opened`, `ReadsStdin` and `SetsTheClock` say what the command then
does, by the rules of getopt and not of the parser: their agreement with the parser
is `SafeMeansSeen`.  `PermissionBridge` takes the results as constants and does
not depend on them.

### StreamProcessor, Replay and ProtoScan

An action of `StreamProcessor` is a line of the stream.  `process_step` deals with a
text, a thought, a tool and a subagent in this order, and so does `ProcessStep`: each
part takes the processor and what the client was sent, and gives both back.  Steps
come in any order and any number of times.  A text is a sequence of the pieces
`is_narration` looks for: the "I" and the "will" that open a line of narration, a line
break, or anything else.  A chunk may end between any two of them, and what is joined to
a text without a break goes on with its last line, as `push_str` does: lines are found in
the text as a whole (`LineStarts`), never in the chunks.  White space in a line belongs
to the piece beside it.  `Stored` is what agy's database then holds, and
`ReplayShowsWhatWasShown` compares `Replay`'s transcript of it with what the client
saw live.  `Replay` itself puts messages together from any rows.

`ProtoScan` keeps the arithmetic of the scanner and takes its widths as parameters,
which it tells by what they count: `Base` is the number of values of a group of bits,
`Limit[n]` that of the values of n groups and the last one's bit, so `Limit[LastGroup]`
stands for 2^64.  A scan is a recursive function of the position.  The reference says what
a varint, a field and a message are without a scan: which bytes make a varint
(`VarintEnds`) and a field (`FieldsAt`), and that a message is fields from end to end as
far as that goes (`Starts`).

## The runs

| run | shows | instance |
| --- | --- | --- |
| `BridgeTurns` | refusals, requests and remembered answers stay in their turn and session; no allowance without a warrant | 2 sessions, 2 hooks, 3 turns, 4 calls of every class |
| `BridgeAnswered` | every hook is answered, at teardown without its timer (liveness) | 1 session, 2 hooks, 2 turns |
| `DispatcherAnswers` | the count and the order are right; a cancel sets exactly the right tokens | 2 prompts of a session, inline, 2 cancels |
| `DispatcherEnds` | implements the service; a cancelled turn ends; the process ends after its input (liveness) | 2 prompts, inline, a cancel that is a request |
| `DispatcherBlocked` | refuted: a cancel is never behind a prompt (liveness) | 1 prompt, inline, cancel |
| `Turn` | the answer tells what happened; nobody blocks; cancel and I/O error end the turn | 4 events, a helper that holds the pipes |
| `Store` | caps, queue and remembered answers in memory; no lost session or binding in the file, with failed writes and crashes | 2 processes, 3 ids, room for 2 |
| `HookIpc` | the deadlines nest, permits return, nothing fails open | 3 hooks, 1 permit, 1 for saturation, deadlines of 1 to 4 s |
| `KillTree` | a quiet scan has missed nothing; nothing stopped is left suspended | 5 pids |
| `Shutdown` | the directory is gone however the process ends; no unknown child | 2 signals, 2 turns |
| `ShutdownUnseen` | refuted: the handler finds the cleanup handle | 1 signal |
| `Readers` | a command called safe opens only what containment judges and what runs unasked stays inside; texts and tool calls are shown once and in order; replays and scans find what is there | 3 tokens, 7 programs, 7 tools, 3 kinds of path; 3 events on 2 steps; 4 rows; 5 bytes |

**Why the bounds are enough.**  The bridge's hazards need two hooks (one that
races the other, or one that is late) and three turns (the one whose hook is late,
the one that fails to spawn and leaves its request behind, the one that is hit: with
two, draining only the session's own requests would pass).  Two sessions separate
"another turn" from "another session".  The dispatcher needs two prompts for a
queue behind the mutex and one message of every other kind.  The store needs one id more than its cap, and a second process to be in the
way.  A tree of five pids has three generations and forks on both sides of the
reader; with three scans both ways out of the loop occur.  Four events and a
pipe of two make full and empty pipes both reachable.  Three tokens hold a flag, its value and an operand in each order, and a cluster
of letters is one token; a fourth adds a second flag of the same kind.  Every
action fires in some passing run.  The cfg bounds (`MaxTurns`, `MaxUpdates`, `MaxEvents`,
`MaxPid`, `MaxScans`, `MaxSessions`, `MaxPersisted`, `MaxTokens`, `MaxStep`, `MaxRows`,
`MaxLength`, the sets of ids) are the only ones.  Symmetry is used in runs of safety properties over model values that
no definition tells apart.  `Store` uses a view that hides the remembered answers
and the queue of the second process, which no action on a map or the file reads and
no property of the first mentions, and the scratch file, which only its writer reads and
to which it is never whole; its hosts prompt only sessions the adapter knows
or can restore (`UnknownPrompts = FALSE`, see below).

Three hooks are one for the permit, one for the saturation permit and one for
neither.  Their deadlines (1, 1, 1, 3 and 4 s) keep the order and the margins of the
code's (10, 10, 10, 590 and 600 s): the response timeout is a second short of the
client's, and the client's connection may begin as late as agy's own just allows.
`Configured` has a response timeout inside that bound and one beyond it.  Two steps
and three events let an event repeat, come late, and follow the result; the chunks are
each piece on its own, and a line of narration with its break and without.  A path is a plain name inside, a link that
leads outside, or something sensitive; one whose shape alone says that it is outside comes
as a token or another string of the call.  `UnaskedInside` is for paths of all eight kinds.  A blob of five
bytes holds a field in a field; with groups of three bits and values of four, the
second group has one bit left to spend, as the code's tenth has.

**Deadlock** is not checked in `ProcessTree`, `Shutdown` and `Readers`, where it is
the normal end: a finished walk, an exited process, a call decided, a stream, table or
blob at its bound.  `Dispatcher`, `TurnLifecycle` and `HookIpc` have a step that marks
their proper end, and the others can always be asked for more.

**Fairness.**  Every fair specification assumes that tokio polls ready tasks.  In
`PermissionBridge` (`TasksRun`) also that a teardown, once begun, goes on, since it
awaits only the bridge's mutex; nothing is assumed of the host, of agy or of the
start of a teardown.  In `Dispatcher` (`Scheduled`) the loop is fair as a whole and
not arm by arm, because `select!` picks at random; tasks are fair one by one.  In
`TurnLifecycle` the reader and the drain are fair and nothing else.  What only
some properties may assume is a premise of those properties: the response timer
(`TimersFire`, in `EveryHookIsAnswered` but not in `TeardownAnswersRequests`), an agy
that finishes once its hooks are answered (`AgyAndTimers`, in `ExitsAfterEof` but not
in `CancelEndsTheTurn`: an exit that waits for prompts promises nothing without
it), and helpers that end some day (`HelpersEnd`, in `LeavingEndsTheTurn`).
`NoticeCancel` in `Dispatcher` supposes that a noticed cancel ends the turn;
`LeavingEndsTheTurn` shows when that is so: when no helper keeps agy's pipes open.

## Where the code and its documentation part

Two disagreements have a run that expects the violation; the quotes are in
`PROJECT.json`.

- `DispatcherBlocked`: an inline request during a turn makes the loop wait for
  the mutex, and a cancel behind it is not read until the turn ends by itself.
- `ShutdownUnseen`: a failed setup clears the shared handle before the owner is
  dropped; a signal in between leaves the directory.

Others are behaviours of the same models, each reached in a few steps, that the
properties are stated around; they have no run of their own.

- A hook first polled after its turn is resolved into the turn that runs now
  (`Arrive`, `ClearActive`, `StartTurn`, `Resolve`); `TODO.md:41` lists this as open.
- A spawn failure leaves requests that late hooks registered during the failed
  turn (`StartTurn`, `RegisterPending`, `SpawnFails`); only cancel and teardown
  abandon them, though `permission.rs:431` says that none of them outlives the turn
  that asked.  They are gone when the next turn starts, which `BridgeTurns` shows.
- Two requests open at once for the same call: the second "always" answer replaces
  the first (`StoreSticky` twice), though `README.md:275` says there is no way to
  revoke one.
- The guard is dropped after the reap (`WaitReturns`, then `DropGuard`): a signal in
  between may kill a reused pid, which the comment at `adapter.rs:1021` rules out.
- After the reap the drain waits for end of file on pipes that a helper may hold;
  a cancel no longer reaches it.  `LeavingEndsTheTurn` has `HelpersEnd` for this.
- A prompt under an unknown id runs without entering the map, so its "always"
  answers are never forgotten (`CHANGELOG.md:169`).  With `UnknownPrompts = TRUE`
  `AnswersBelongToLiveSessions` fails.
- A process whose parent has exited is beyond the walk, though `proc.rs:1` speaks of
  everything agy started.  `QuietScanMissesNothing` speaks of `Linked` for this.
- `create_dir_all` of the hook root recreates a directory an early signal has just
  removed.  `ExitRemovesTheDirectory` has `~early` for this.
- `resolve` (`path_rules.rs:129`) is said to fall back to the nearest existing
  ancestor; it tries the path and its parent.  A new file in a new directory behind
  a symlink is then judged by its text.  `Inside` does not go into this.
- The first error of `accept()` ends the accept loop and drops the listener
  (`StopListening`); the adapter and its turns go on, and every later hook is denied.
- A hook killed after its call but before the newline is still put to the host: the end
  of the stream ends a line too (`LeaveBehind`, `read_bounded_line_async`).
- The saturation permit is for one connection at a time; of those above it no byte is
  written, and they deny for want of an answer.
- A chunk that ends in the first "I" of a line of narration is shown whole, with any
  narration before it in the same chunk, and the rest of the line is then withheld; so
  is narration after blank lines that were shown (`OnlyLeadingNarrationIsWithheld` allows
  it; `ReplayShowsWhatWasShown` excepts it by `MayBeNarration`).
- The result is joined to the last step's text with no line break, and the whole is judged
  (`streaming.rs:188-197`).  When that text is a withheld line of narration that agy left
  open, the first line of the result is the rest of that line and is withheld with it:
  after "I will check." the result "The answer is 4." is never shown.  The code's comments
  and tests do not go into this; a property that any result with something else than
  narration in it is shown fails.  `AnswerIsShownOnce` is stated of the lines that begin in
  the result (`Answers`, `LeftOpen`).
- A blank chunk counts as a text that was shown: a result that follows only that, and
  withheld narration, is passed over (`emitted_agent_text`).
- `skip_naration` withholds what leads a step while it is narration, live; a replay
  withholds a step only if it is narration as a whole.  Part of a step shown live is
  therefore replayed with the narration that led it.
- A text that streams after a result has been shown in its place follows it: the answer
  is then there twice (`ProcessResult`, `ProcessStep`).
- A tool that was in progress when the stream ended stays so for the client.
- A child registered, or spawned, after the snapshot of `kill_all` survives the
  signalled exit.

## What is proved

`PermissionBridge_proofs` proves, for any sets of sessions, conversations,
hooks, calls and keys, any classification of the calls and any `MaxTurns`:

| theorem | property |
| --- | --- |
| `TypeCorrect` | `TypeOK` |
| `PendingBelongs` | `PendingBelongsToRunningTurn` |
| `RequestsAreNotLost` | `NoLostRequest` |
| `RefusalFlagExact` | `RefusalFlagIsExact` |
| `ReportsOwnRefusals` | `TurnReportsItsOwnRefusals` |
| `OnlyWhatWasSaid` | `RememberedWasSaid` |
| `StickyNeedsItsTurn` | `StickyOnlyFromTheRunningTurn` |
| `AllowWarranted` | `AllowIsWarranted` |

They rest on `MaxTurnsAssumption` and `CallsAssumption` of `PermissionBridge` and
nothing else.

**The argument.**  None of the properties is inductive.  The base invariant is
`TypeOK /\ TurnBinding /\ HookInv`.  `TurnBinding` says that the active session is
the running turn's from its start to `ClearActive`.  `HookInv` says of each hook,
by where it is, that its generation is not in the future, that a hook of the
running generation belongs to the running session (`HookTurn`), that an open
entry belongs to a hook that waits for it (`OpenRequest`), and which answers and
outcomes its place allows (`HookShape`).  It is needed because the code compares
generations and never sessions: that equal generations mean the same session
is an invariant and no test in the code.  From it follow `PendingBelongs` and
`StickyNeedsItsTurn` directly.  `RefusalFlagIsExact` and `NoLostRequest` are
inductive relative to it.  `RememberedWasSaid` needs a stronger form that keeps the
answering hook finished (`RememberedInv`), since only a finished hook is certain
never to change; `AllowIsWarranted` needs in turn that the hook that finds a
remembered allowance has such a hook behind it (`WarrantInv`), even after the
entry is forgotten or overwritten.  The action properties are read off the one
action that reads the flag, and the one that stores.

`HookIpc_proofs` proves, for any number of hooks and permits and any deadlines:

| theorem | property |
| --- | --- |
| `TypeCorrect` | `TypeOK` |
| `DeadlinesNest` | `NobodyGivesUpFirst` |
| `PermitsReturn` | `PermitsComeBack` |
| `GateHolds` | `FailsClosed`: `HookIpc` implements `HookGate` |

from `ConnectionsAssumption` (finitely many hooks) and `TimeoutsAssumption`: the
bridge's read and the client's read fit into agy's timeout together, and so does the
client's write alone.  The code's 10 + 590 = 600 just meets it.

**The argument.**  `Deadlines` bounds, place by place, a hook's age plus what is left
of its timer (`ClientInv`, `TaskInv`): a second moves one unit from the timer to the
age, and each new deadline starts from the bound of the one before.  Its heart is that
a client waiting for a bridge that waits for the host has strictly more time left;
that is where `bounded_response_timeout` comes in.  `PermitsReturn` adds that the tasks
that hold a permit never outnumber the permits (`PermitsHeld`).  `GateHolds` needs
`Line`: no decision before there is a request, no allowance while a client still
sends, and whatever a closed connection left on the wire is the whole decision, or a
part of a denial, or the adapter is gone.  With it each step maps to one of
`HookGate`'s or to none.

`Dispatcher_proofs` proves, for any sessions, inline requests and cancels, any finite
set of prompts and any `MaxUpdates`, from `IdsAssumption` and `BoundsAssumption`:

| theorem | property |
| --- | --- |
| `TypeCorrect` | `TypeOK` |
| `CountExact` | `PendingPromptsExact` |
| `ToldInOrder` | `UpdatesPrecedeTheResponse` |
| `CancelReaches` | `CancelReachesTheSession` |
| `ServiceHolds` | `ServesEveryRequest`: `Dispatcher` implements `RpcService` |

**The argument.**  Even the types need to know that a running turn is at the head of
the mutex's queue and that a waiting loop is in it (`MutexInv`).  The count is exact
because a request's line is in one place at a time (unread, taken, or begun:
`OnceEach`) and a sentinel is the last thing a task emits (`OneSentinel`): a prompt
enters `Owed` once and leaves it once.  `SilentInv` says that a task that has not
responded has no response anywhere, so an update it still sends comes first.  A
cancel reads the registry, which is exactly the tokens of the turns that have not
returned (`RegistryInv`); with one token per session it would not be.  The
refinement adds that each turn has one response, ahead of its sentinel
(`ResponseInv`), and that the end of input is seen after all of it (`EofInv`): then a
count of zero at the end of input means that nothing is open, and the exit is one
`RpcService` allows.

`TurnLifecycle_proofs` proves, for any size of the pipe, any stream and either kind of
helper, with no assumption:

| theorem | property |
| --- | --- |
| `TypeCorrect` | `TypeOK` |
| `EndTurnEarned` | `EndTurnIsEarned` |
| `FailureShown` | `FailureIsNotHidden` |

**The argument.**  `StreamInv`: until it fails the reader has published all it has
read, and a result is the last event, so once a result is known the publication is
complete, whatever fails later.  `DrainInv`: the answer is `turn_response`'s verdict on
a reaped agy and finished readers, and the drain calls a turn cancelled only if the
host did.

`SessionStore_proofs` proves, for any processes, sessions, caps and clocks, from
`StoreAssumption`:

| theorem | property |
| --- | --- |
| `StoreTypes` | `TypeOK` |
| `FileIsWhole` | the file is whole and within its cap in every state |
| `SavedResumes` | `SavedSessionIsResumable`: resumable if and only if saved with a conversation |
| `OthersSurvive` | `WritesKeepOtherSessions` |
| `QueueNamesTheDead` | `QueueNamesOnlyTheDead` |
| `AnswersBelong` | `AnswersBelongToLiveSessions`, if `UnknownPrompts = FALSE` |
| `BindingsSurvive` | `BindingsAreNotLost`, if `UnknownPrompts = FALSE` |

**The file.**  `OpOk`: an operation past its load holds the lock, and what it is
about to write is the file *as it still is*, with its own entry saved and pruned.
This is what the lock is for: between one process's load and its rename no other
renames, so `StepKeeps` carries the clause over every step of the others, crashes
included.  What is left is a lemma about one save, `SaveIs`: from a file within its cap
pruning takes at most one entry, never the one just saved, an unbound one if there is
one, and the oldest of its kind.

**The map.**  `MemInv`: a map names no session twice and outgrows its cap by nobody, and
the queue names none of it, twice or at all: eviction moves an id from the one to the
other, a return takes it out of the queue before it puts it in the map, and a drain
takes what it has set aside.  `HostInv` adds that an operation's session is in its map,
and that answers belong to sessions in the map, in the queue or being drained.  `BindInv`
relates maps and file across processes: an operation saves what its map says, agy names a
conversation after its session, and a session held without a conversation is in no other
map and has none on disk.  So what a save replaces is what it writes, or nothing.  `HostInv`
and `BindInv` need hosts that prompt only sessions the process made or restored; without
them `AnswersBelongToLiveSessions` fails, as said under "Where the code and its
documentation part".

`ProcessTree_proofs` proves, for any number of pids and scans, from `TreeAssumption`:
`TypeCorrect` (`TypeOK`), `NothingSuspended` (`NobodyIsLeftSuspended`) and `QuietScan`
(`QuietScanMissesNothing`).  Whatever has
been suspended is in the set still to be killed, agy is in that set until the last
kill, and every way out of the scans leads to the kills (`StoppedInv`).  For the quiet scan
(`QuietInv`): who was stopped can neither fork nor leave, so a child of the stopped that
the reader has passed was in the table, unless something was stopped since.  When a whole
table turned up nothing new, the stopped therefore hold agy and the children of their
members (`Walled`), and whoever is linked to agy is in every such set, by an induction over
the length of the link.

`Shutdown_proofs` proves, for any signals and `MaxTurns`, from `ShutdownAssumption`:

| theorem | property |
| --- | --- |
| `TypeCorrect` | `TypeOK` |
| `ChildrenAreKnown` | `NoUnknownChild` |
| `DirectoryRemoved` | `ExitRemovesTheDirectory` |

**The argument.**  A turn leaves the registry only when its agy has died (`Known`).
Unless a signal came before the end of the setup, the handle is published for as long
as there is a directory (`DirByMain`), and a thread inside `cleanup` is alone in it
(`Mutex`) and finds what its step expects: writable modes before it empties, no entries
before it removes, nothing left when it leaves (`DirByThread`).  A thread that finds
nothing to do waits on the mutex first, so it exits after the one that is half way.

`Readers_proofs` proves, of `CallRules` for any `MaxTokens`, policy and arguments, of
`StreamProcessor` for any `MaxStep`, `MaxEvents` and texts, of `Replay` for
conversations of any length and any texts, and of `ProtoScan`, from `PayloadAssumption`,
for blobs of any length and bytes and for groups, values and wire types of any width:

| theorem | property |
| --- | --- |
| `SafeSeen` | `SafeMeansSeen` |
| `UnaskedInside` | `UnaskedStaysInside`, if `AutoToolsWorkOnFiles` |
| `CallsWellFormed` | `ToolCallsAreWellFormed` |
| `AnswerShownOnce` | `AnswerIsShownOnce` |
| `OnlyLeadingNarration` | `OnlyLeadingNarrationIsWithheld` |
| `ReplayInOrder` | `ReplayKeepsTheOrder` |
| `ReplayShowsLive` | `ReplayShowsWhatWasShown` |
| `ScansRight` | `ScansByTheFormat` |

**The classifier.**  `SafeMeansSeen` is stated by getopt's walk, which is recursive over
the tokens; the parser never looks back.  `ReadInv`: there is a set of positions that
follows getopt's rule (`Walk`: a token is a value if and only if the one before is not and
wants one), and the operands, files and patterns the parser has kept are those of the
tokens outside it.  A token adds its own position or does not, and by `IsValueIs` no other
set follows the rule, so it is `IsValue` itself.  The tables are the model's, one entry for
each shape.  `AutoToolsWorkOnFiles` says that every tool of the automatic policy is one
whose arguments are paths: the groups `reads` and `searches` name only such tools
(`permission.rs:973`).  A user may name any other in `AGY_ACP_AUTO_ALLOW`
(`permission.rs:1065`), and has then asked for what that tool does.

**The stream.**  `StreamInv`: a step is among those the processor has started if and only if
the client has a call for it, the calls it has are one announcement and then ends, and
`emitted_agent_text` is true if and only if the client holds some text.  Of each step's
text it holds what is left without a set of pieces (`HoldsText`): a chunk that is shown
leaves that set as it is (`RestShown`), and one that is withheld adds its own pieces, when
every line so far is narration (`RestHidden`).  Both rest on what becomes of lines when two
texts are joined (`LinesJoined`): those of the first stay, the last of them may go on in
the second, and a line begins where the second does only if the first was not left open.
A result in which a line begins that is no narration is therefore none once it is joined
(`AnswerIsNoNarration`), and is shown.  Each part of `process_step` keeps all this on its
own (`Fine`), so their order does not matter.  `StreamConstants` says that a text that comes
is a sequence of pieces and is not empty; it may be cut anywhere.

**The replay.**  What a loop over the rows has made is a function of how many it has taken.
The updates it has sent, followed by what is left of the message it is putting together,
tell the visible rows among those taken (`ReplayTells`): a row adds its line to that if it
is to be seen, and nothing otherwise, whether it is appended to the message or flushes
it (`RowTells`).  `Tells` gives the line of a row by the number of visible rows up to
it, so an induction over the rows needs no more than that this number grows by one with
each.  `ReplayShowsLive` adds to the stream's invariant how live and replay judge the same
text (`IsJudgedAsWhole`): one that is not narration as a whole, which is the replay's own
test, has been shown in part; of one that is, what was shown is blank or ends in the "I" it
was cut at, since a text that becomes narration was blank, narration, or ended so before
(`EarlierOfNarration`).  The theorem is about which steps are there, not about which of
their pieces.

**The scanner.**  A scan jumps ahead, so what it finds from a position on depends on what
it finds later: the induction is from the end of the blob (`FromTheEnd`), and that the
recursive functions exist at all is `SolutionExists`.  A value has room in n groups if and
only if what follows its first digit has room in n - 1 (`RoomIs`, `RoomGrows`), which is
the test of the tenth byte in the code.  So there is at most one varint at a position and
`read_varint` finds it (`VarintRead`), and the same of fields (`FieldRead`).  The positions
where fields begin are a chain (`FieldsGoOn`): from each of them they are itself and
those from its end on.  Along it the one search finds the first text of a number
(`FirstFound`) and the other the payloads of all (`AllFound`, one more at a time by
`OneMore`).  A number found that way is read again from the bytes cut out of the blob, and
is still the same varint there (`VarintInPiece`).

**Left to TLC.**  Every invariant and every action property of the runs is a theorem.
Liveness and fairness are not: `EveryHookIsAnswered`, `TeardownAnswersRequests`,
`CancelEndsTheTurn`, `ExitsAfterEof`, `PipeIsRelieved`, `LeavingEndsTheTurn`.
Inductions over data are put as a set of naturals with no least member (`LeastNat`), which
needs no operator as a parameter.

`TypeOK` is in the cfg of `BridgeTurns` only; in the other runs it is a theorem
(`HookIpc`, `Dispatcher`, `TurnLifecycle`, `SessionStore`, `ProcessTree`, `Shutdown`).

## What is not modelled

- `tools.rs`, `permission/prompt.rs`: titles and option labels, no state.
- `types.rs`: serialisation and a one-time directory migration.
- `*_unsupported.rs`: stubs for non-Unix targets; every operation fails.
- `db.rs`: the SQLite query; rows come as they are stored.
- `protobuf.rs`: the search of a tool step's payload for JSON and printable text, which
  guesses a title and an output; it keeps no state and no property could say what a
  right guess is.  UTF-8 checks of the texts it finds.
- A `connect()` that blocks on a full backlog: the accept loop takes connections at once.
- Command line, environment parsing, tests, CI, scripts.
- agy's own print timeout (`--print-timeout 60m`, `adapter.rs:937`), which ends agy while a
  hook waits: `Configured` nests the deadlines of the bridge, the client and agy's hooks.
- `child.wait()` that fails (`adapter.rs:1178`), which the host is told as an error.
- In modelled parts: wording, titles, models and step indexes of sessions, the
  token in the directory's name, pid reuse during a walk.

## Plan

What would come next.

| next | what |
| --- | --- |
| model | `session/load`'s replay and the turn in one composition: `Replay` over the rows of a turn that is still running |
