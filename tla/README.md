# Rice: a verification project

Rice shows a Twitch chat and has it read aloud. A Rust backend (`src-tauri/src`)
receives the chat over EventSub, queues what is to be spoken and hands it to
Bouyomi-chan over TCP; a React frontend (`src/src`) shows queue, chat, logs and
settings. This project models the backend's concurrent parts, its files and the
frontend's share in following them, checks the models with TLC and proves what
matters most with TLAPS.

## 1. The system

| Part | State it keeps | Operations |
| --- | --- | --- |
| Speech queue (`speech/queue.rs`, `queue_commands.rs`) | pending, item in flight, history, next id, `is_processing`, `paused`, controls in progress | enqueue, remove, dismiss, explicit retry, begin / apply / cancel a control, claim the worker |
| Queue worker (`speech/worker.rs`) | one task, the request it carries | reserve, select, speak, wait for the playback, wait for controls, settle, back off |
| Speech runtime (`speech/runtime.rs`) | the dispatch lock, the registered playback | `lock_control`, `speak_for_queue`, drop of the playback |
| Remote controls (`speech/commands.rs`) | running invocations | pause, resume, skip, clear; connection check, probe, test speech |
| Bouyomi adapter (`speech/bouyomi`) | none; a connection per packet | talk, controls, two status queries, classification of failures |
| Repeat suppression (`speech/queue.rs`) | last accepted message per user, expiry queue | prepare, record, expire, clean-up task |
| Destination policy (`speech/destination.rs`) | approved endpoint and addresses, the dialog that is open | prepare, confirm and install an approval, withdraw it, decide a connection |
| Twitch connection (`twitch/chat_service.rs`) | the current connection's id and cancellation | reserve, register, cancel, stop |
| EventSub (`twitch/eventsub.rs`, `subscription.rs`) | sockets, keepalive, back-off | connect, welcome, subscribe, handover, drain, reconnect |
| Deduplication (`twitch/dedupe.rs`) | ids seen, bounded in number and age | insert, expire |
| Authentication (`twitch/auth_service.rs`, `auth_state.rs`, `auth_store.rs`) | credentials, generation and revision, OS credential store | start, poll, validate, refresh, sign out |
| Settings (`settings/*`) | the published settings, primary and backup file, transaction lock | load, recover, save, publish |
| Application events (`app_events`) | revisions, bounded logs, last statuses | record, emit, snapshot |
| Launcher (`launcher/*`) | items (in the settings), worker pool | add, launch, remove |
| Launcher platform (`launcher/platform/*`) | a helper process, its pipes and its deadline | resolve, read a shortcut, create a process, extract an icon |
| Frontend (`src/src/stores`, `orchestration`) | a copy of the backend's state | subscribe, fetch, run commands |

How they interact: EventSub hands a message to deduplication, to the chat view and
to the speech queue. The queue spawns at most one worker. Worker, controls,
connection checks and completion polls share the *dispatch lock*, an async mutex
held across network calls; the queue itself is behind a short-held mutex. Settings
are read afresh at every reservation and control; every change of them is one
transaction of candidate, save and publication, and withdraws the consent that
depended on them. The launcher keeps its items in the settings and does its work
on a bounded pool of blocking threads. Every part reports through application
events, from which the frontend rebuilds its state.

What is hard: two locks of different duration; a lock given up while the outcome
of a network call is pending; cancellations that meet late results; sends that fail
without anyone knowing whether they arrived; controls whose remote and local
effects are two steps; a worker that stops by itself and must be restarted by
whoever makes work possible again; files of which a crash leaves any prefix of the
steps; blocking threads nobody can interrupt; events, snapshot and its answer that
overtake one another. `PROJECT.json` lists each hazard with its line.

What makes each part correct, in a line each:

* queue and worker: one worker, no item lost, doubled or said twice, no lost
  wakeup, late results change nothing, order and limits kept;
* controls: a control reaches the destination that plays, its remote and local
  effect are one step for everybody else, every control returns;
* deduplication, repeat suppression: bounded, never forgetting an entry too early;
* Twitch connection, EventSub: one live connection, no event of an ended one, no
  message lost in a handover, reconnection ends with the user's disconnect;
* authentication: what is stored and what is in memory belong to the same sign-in;
* settings: after a crash at any point the last saved or the previous settings load,
  and a start that finds neither says so;
* destination policy: words go to this computer or to addresses the user confirmed;
* launcher: a bounded number of threads, and what the user is told of a launch is so;
* events: a late subscriber ends with the backend's state.

## 2. What is modelled

`SpeechItems` holds the constant-level operators on the queue's sequences
(`push_history`, `make_pending_room`, ...). `SpeechQueue` extends it with the state
machine: queue, worker tasks, controls, dispatch lock, other users of the lock,
settings and the destinations.

| In the model | In the code |
| --- | --- |
| `pending`, `inFlight`, `history`, `nextId`, `isProcessing`, `paused`, `controlsInProgress` | the fields of `SpeechQueueState` |
| `dispatcher` | the `tokio::sync::Mutex` of `SpeechRuntime`: who holds it |
| `active` | `ActivePlaybackRegistry`: whose `ActiveSpeechPlayback` is registered |
| `configured` | the destination of the saved settings |
| `wpc`, `request`, `adapter`, `result` | where a task is in `SpeechQueueWorker::run`, and its locals |
| `cpc`, `command`, `target` | where an invocation is in `control_from_settings`, and its locals |
| `sounding`, `wire` | external: what a destination has accepted and not finished, its pause state as far as Rice knows |
| `asked`, `tries`, `accepted`, `unconfirmed`, `lastStarted` | bookkeeping for the properties; no guard of the code's actions reads it (`asked` bounds explicit retries) |

The steps of the worker, by program counter: `next` (takes the lock, tests the
queue) to `reserved`, `barrier` or `idle`; `reserved` to `speaking` or, when no
adapter can be selected, `reconcile`; `speaking` to `playing` or `reconcile`;
`playing` to `reconcile`; `reconcile` waits for controls and goes to `settle`;
`settle` applies the outcome and goes to `backoff` or `drop`; `drop` is the end of
the iteration, where the registered playback is dropped. A control goes from
`queued` (barrier raised) through `remote` (lock held, command sent) to `apply` or
`cancel`, or to `unselected`.

What one guard of the queue mutex covers is one action. A network call is one
action per outcome; while it runs its task holds the dispatch lock, and every other
task may step. A send has three outcomes: accepted, refused before the first byte
(retryable or not) and failed although the packet arrived.

Abstractions of the speech modules: an item keeps id, status, retry count and delivery state; text,
author and outcome text are left out. Enqueuing takes the formatter's verdict as an
input. The two status queries of a completion poll are one observation. A test
utterance occupies the lock like a connection check, but not the destination.
Poisoned mutexes and `saturating_add` at the end of the integers are left out.

### The Twitch login and chat

`TwitchState` holds the variables that login and chat share and the operators on
them, `TwitchAuth` the login, `TwitchSession` the chat on top of it with `Init`,
`Next`, the fairness and the properties. They are one machine because their hard
cases are where the two meet: the EventSub task refreshes the credential that
commands validate and remove, and removing it ends the task.

| In the model | In the code |
| --- | --- |
| `auth` (`gen`, `rev`, `cred`, `pending`) | `TwitchAuthState`: `generation`, `credential_revision`, token and profile, device authorization |
| `store`, `job` | the keyring entry; per invocation, its `save_if_current_sync` or `clear_if_current_sync` on a blocking thread and that call's outcome |
| `update` | `credential_update_lock`: who holds the guard |
| `owner` (`gen`, `conn`) | `TwitchConnectionOwner`: its generation, and the registered handle |
| `chat` | the chat status `AppEventState` retains, with its generation |
| `op` | per invocation, where it stands and its locals: the snapshot it works on (`gen`, `rev`, `cred`), the token it was granted (`fresh`), the login its connection was started for (`login`), whether the task has been aborted (`alive`) |
| `issued`, `valid` | external: what Twitch has issued and still accepts as a refresh token |
| `loggedOut`, `ended`, `spoiled`, `storeFault`, `heard` | bookkeeping for the properties; no guard reads it |

A credential is one number for access token, refresh token and profile, which the
code installs and drops together: the number under which Twitch issued it. A
refresh makes Twitch forget the old number and issue the next.

`auth`'s mutex is never held across an await, so each of its sections is one
action; the update lock is held across awaits and is a variable. An invocation is a
command (`Commands`) or an EventSub task, named by its connection generation. A
command runs to its end. A task can be aborted: at an await it disappears and drops
the lock guard, between two awaits it runs on to the next one (`Advance`,
`Awaits`); a job it has started on a blocking thread runs on regardless. The stages
of a call are the prefixes of `pc`: `start`, `poll`, `validate`, `refresh`,
`clear`, `disconnect`, `connect`, `stop`, `task`, `end`; `refresh` and `clear` are
procedures that commands and tasks both go through (`LeaveRefresh`,
`ClearReturned` are their returns). A restart keeps only `store`.

`Faults` says what may go wrong in a run: the answer of a granted refresh is lost;
the keyring fails; the process restarts; Twitch refuses a subscription or revokes
it; a socket fails, closes or is handed over. An answer that Twitch gives without a
fault (a refused token, a missing scope, a denied code, a failed validation) is
always possible.

Abstractions: a message is its connection (`ChatPath` has ids). The handover is one phase in which the
old socket is read, ended by the new welcome or by failure; the back-off is one
wait (`EventSub` has both in full). The branch of `connect` that finds an installed profile without its scope is
left out: every path that installs a profile checks its scopes first. Left out too:
the migration of the old token file, the chunks of the Windows store, a second
failure while a warning is reported.

### Settings and the speech destination

`SettingsData` is the document and the commands as functions on it; `SettingsFiles`
the directory, the steps of a save, the start and its recovery; `SettingsCommands`
the transactions; `SpeechDestination` the consent; `SettingsSystem` composes them.
`SettingsRegister` is the abstract promise, and `RegisterSpec` says that the system
implements it.

| In the model | In the code |
| --- | --- |
| `files`, `disk` | `settings.json` and `settings.json.bak`: what programs read, and for each the contents a loss of power may leave because the directory is not synced yet |
| `steps` | where `atomic_write`, `save_text_to_path` or `recover_from_invalid_primary` stands |
| `load` | `load_from_path` and the publication of its result at the start |
| `settings`, `transaction` | `AppState::settings`, `AppState::settings_transaction` |
| `call` | per invocation of a command, where it stands and its locals |
| `approved`, `asking` | `DestinationPolicy::approved` and `pending` |
| `dns` | external: what the resolver answers |
| `promised`, `confirmed`, `calls` | bookkeeping: what a start would have found before somebody else changed a file, what the user said yes to, how many commands there were |

A step of `steps` replaces an entry by a file that was written and synced before,
moves an entry aside, or syncs the directory; a loss of power leaves any of the
contents in `disk`. A file is one of six kinds, by what decoding makes of it. The
document is three sections that differ in how commands change them: the
destination (consent depends on it), the launcher list (ids, orders, limit, merge)
and the window position (saved at the close).

The refinement maps `shown` to `settings`, `kept` to `Loadable`, the set of what a
start finds for each directory a crash may leave, and `damaged` to `promised # {}`.
A save that published before its last sync, or that replaced the primary by a file
not yet synced, would break `Acknowledge` or `Attempt`; a candidate computed from an
older snapshot would break `Change`.

Worth knowing, and in the model as it is in the code: when the last sync of the
directory fails, the command reports an error although programs already read the new
document. A connection that resolved before a newer approval may withdraw it, which
only costs the user another dialog. A read-only backup is not protected when the
primary may be written. Edits made on an older copy of the list drop what was added
meanwhile. On Windows a write-through replacement stands for the sync.

### Launcher

`HelperProcess` is `run_bounded`: one child, two readers, the deadline, the
termination and the drain. `LauncherPool` is the pool, the threads and the two kinds
of command on top.

| In the model | In the code |
| --- | --- |
| `permits` | the semaphore of `worker_pool`; a permit moves into the blocking thread |
| `command`, `plan` | the invocations of `launcher_launch`, `launcher_launch_all` and `launcher_add` |
| `job[c][i].wait`, `.told` | the command's side of an item: queued for a permit, awaited, settled, and what the user is told |
| `job[c][i].task`, `.late` | the thread's side: where it stands, and `LaunchContext` |
| `helper` | per extraction: child, pipes, what is kept, readers, outcome |

A time-out of the command leaves the thread where it is: `Tell` settles the one side,
the other goes on with its permit. `MayGoOn` is `ensure_active` before and after the
resolution and after a shortcut was read.
Left out: the semaphore's order, items of kind website, the order in which an
addition reports its results. Termination and its 250 ms of draining are one step.

### The way of a chat message to the window

`MessageDedupe` is the window of known ids, `EventSub` the supervisor with both
sockets of a handover, `AppEvents` the recording and emitting of statuses,
`ChatView` the window's listeners, buffer and reducer; `ChatPath` composes them.

| In the model | In the code |
| --- | --- |
| `task` | the locals of `run_eventsub_connection_with`: stage, `attempts`, established time, the `MessageDedupe` |
| `old`, `next` | the frames that wait on the socket in use and on the one of a handover |
| `hand` | a message between `insert_at` and its dispatch under the connection's lock |
| `owner` | `TwitchConnectionOwner`, reservation and registration in one step |
| `retained`, `saying` | `twitch_chat_status` of `AppEventState`; per speaker a status between record and emit |
| `listening`, `events` | the listeners the window has registered, events on their way to it, in order |
| `view` | `ConnectionStore`, the restoration's buffer and the ids recently shown |
| `twitch`, `now`, `left` | external: Twitch and the clock, and the budget of a behaviour |
| `emitted`, `broken` | bookkeeping |

A time-out may fire whenever it is armed; only the age of a known id and the time
after which a session counts as stable are measured. Twitch sends an id again only
on the sockets of the same connection. A frame that cannot be read is the failure it
causes, without a place on a socket: in a session it fails the session
(`KeepaliveExpires`), on the old socket of a handover the handover (`HandoverExpires`,
in the drain `DrainFails`), on the new one only the new socket (`NextFails`). A
revocation ends the connection wherever it is read, on the new socket too
(`NextRevoked`). Left out: pings, the contents of frames, the Auth status
stream, emit failures and their list, a window that is mounted twice. A frame that is
still on its way on the old connection when the new one welcomes is outside the model,
and so outside `HandoverLosesNothing`: the drain takes what is available and waits for
nothing.

The operators commented `Fault:` are plausible mistakes, each next to the operator
it would replace. No specification uses them; they exist to show that the
properties can fail.

## 3. Runs

### Speech

All runs have `QueueLimit = 2` (the least at which the code's room-making makes
sense: one item in flight, one pending), `HistoryLimit = 1` (so that truncation
happens) and two workers (the least at which a second one could run).

| Run | Bounds | Shows |
| --- | --- | --- |
| `queue` | 3 messages, 1 control | `TypeOK`, `SingleWorker`, `NoLostWakeup`, `UniqueIds`, `WithinLimits`, `InFlightIsOwned`, `StartsInOrder` |
| `retry` | 2 messages, each asked for twice | `SpokenOncePerAsk`, `RetryBudget`, `PlaybackAccounted`, `OutcomeIsFinal` |
| `controls` | 2 messages, 2 controls | `WireAgrees`, `PausedSilence`, `ControlExcludesTalk`, `NothingStartsBehindControl` |
| `speech_live` | 1 message, 1 control, 2 destinations, 1 connection check, every action, under fairness | `ControlReachesPlayback`, `ControlsReturn`, `PendingDrains` |

Three messages fill the queue beyond its limit with one in flight; two controls
are enough for one to hold the lock while the other waits; two destinations are
enough for the saved one to differ from the one that plays. One message suffices for
`PendingDrains`, since the item in front is what the queue waits for; that no wakeup
is lost with items behind it is `NoLostWakeup`, on three messages and proved. A control may be begun
again as soon as it has returned, so its commands occur in every order. `MaxId`
bounds the ids handed out and `MaxAsks` the explicit retries of an id; nothing else
bounds the behaviours. These runs check for deadlock. Symmetry is used in the safety
runs only, over tasks and destinations, none of which is chosen by name.

Fairness (`Fairness` in `SpeechQueue`): a worker's and a control's steps are weakly
fair, since a spawned task runs on and every network call has a timeout; a playback
is tracked for five minutes at most, so `PlaybackUnconfirmed` makes `playing` end;
the holder of a connection check gives the lock back. The steps that take the
dispatch lock are strongly fair, since tokio's mutex serves its waiters in order.
Chat, users, saved settings and the destination owe nothing.

### Twitch

| Run | Bounds | Shows |
| --- | --- | --- |
| `twitch_login` | 4 calls of start, poll, validate, disconnect, connect and restarts; 3 credentials; answers lost, keyring failing | `LoggedOutStaysOut`, `OnePollPerCode`, `LogoutEndsChat`, `CredentialsOnlyAdvance` |
| `twitch_chat` | 3 calls of connect, stop, validate; 3 credentials; answers lost, subscriptions refused, sockets failing and handed over | `TypeOK`, `OneLiveTask`, `StatusWhileLoggedIn`, `InstalledIsSaved`, `RefreshTokenSpentOnce`, `NoChatBehindStatus` |
| `twitch_returns` | 2 calls of any command, 2 credentials, keyring failing, subscriptions refused | `CommandsReturn` |
| `twitch_rotation` | 1 call | the finding below |

Two commands at a time, besides the tasks and the jobs that outlive them. Four calls
are enough for a connect of one login to meet the next one: connect, disconnect,
start, poll. Three credentials are enough for one to be
stored, one to be on its way and one to be granted. `MaxConnection` never limits:
a call advances the connection generation at most twice. `MaxToken` bounds what
Twitch issues, `MaxCalls` the commands and restarts. `InstalledIsSaved` is
checked without `start`, with which it does not hold (see Known disagreements), and
so is `StatusWhileLoggedIn`, for the reason given there with the window that remains.
The runs do not check for deadlock: when
`MaxCalls` commands have returned and no connection is left, the application is
idle and nothing happens. What deadlock would mean here, a command that waits for
ever, is `CommandsReturn`. Symmetry exchanges the invocations of commands, in the
safety runs only.

Fairness (`Fairness` in `TwitchSession`): the steps of a command and of a refresh or
clear are weakly fair, since every request to Twitch has a timeout of 15 seconds;
blocking jobs end; whoever waits for the update lock is served, strongly fair,
since tokio's mutex serves its waiters in order. No user has to call anything and
Twitch need not send a frame; the rest of a task's steps owe nothing.

### Settings, launcher, chat path

| Run | Bounds | Shows |
| --- | --- | --- |
| `settings` | 2 commands at once, 2 in all; 2 applications whose hashes collide, at most 2 items; hosts of this computer and one other; a crash, a loss of power, a failing file operation, a damaged file, a file of another version, DNS that changes | `ApprovalIsConfigured`, `OnlyConfirmedAddresses`, `RegisterSpec`, `RecoveryIsHonest`, `ReadOnlyKept` |
| `settings_lost` | as above, but a recovery may be interrupted | the finding below |
| `launcher` | 2 commands in three combinations (two additions, an addition beside a launch, two launches), 2 workers, 2 items; helpers that answer, write more than is kept, fill their error stream, hang or leave a process behind | `PoolAccounted`, `LaunchAccounted`, `LauncherEnds` |
| `chat_path` | 3 generations, up to 3 messages, windows of 2 known ids and 2 ticks, 2 frames per socket, a buffer of 2; five budgets | `HeardOnce`, `HandoverLosesNothing`, `ViewCatchesUp` |

`settings`: two commands are enough for one to compute, save or ask while the other
publishes; every fault may come between any two steps and as often as it likes. In
this run a recovery is not interrupted, since `RecoveryIsHonest` does not survive
that (see Findings); everything else may be. After a change from
outside the register promises nothing until the next start, and `RecoveryIsHonest`
says what happens at that start.

`launcher`: two workers and three items at most make an item wait for a permit while
threads of an abandoned one hold it. One unit kept of a stream, and one in a pipe, is
the least at which a child blocks on a pipe nobody empties. A command is given once;
what is left behind by one is met by the other.

`chat_path`: the budgets say how often Twitch sends, sends again, asks to move,
breaks something, how often the clock ticks and the user connects or stops, and
whether a window opens. They stand side by side so that each run of the system has
everything one question needs: all faults without a window; a second request to move
during a handover; a window that opens during a handover; a buffer that overflows;
a stop and a new connection under a window. `DrainCutShort`, the deadline that falls
into the drain, loses messages by design and sets `broken`.

These runs do not check for deadlock: when the budget is used up and every command
has returned, nothing happens. In `launcher` the fairness says that time passes,
that commands are polled and that the tasks of a helper run; a thread that resolves,
reads a shortcut or creates a process may hang for ever, and `LauncherEnds` holds
nevertheless because the command gives it up. `settings` and `chat_path` state
safety only and assume no fairness. Symmetry exchanges the commands of `settings`.

### Findings

Two runs show the code doing what the repository's documents exclude.

* `twitch_rotation`: a refresh is granted and the validation that follows fails.
  `refresh_and_validate` (`oauth.rs:168`) returns the error and the new token is
  dropped: memory and keyring keep a refresh token that Twitch no longer takes.
  `docs/03-twitch-ingestion.md:51` wants the stored token replaced after every
  successful refresh.
* `settings_lost`: `recover_from_invalid_primary` (`persistence.rs:171`) moves the
  damaged primary aside before the backup takes its place (`:178`). When the process
  ends or the write fails between the two, the next start finds no primary, takes
  that for a first start, writes defaults and tells nobody; the backup is not read,
  and the next save rotates the defaults over it. `README.md:82` says that a damaged file is
  restored from backup or defaults and that Chat and Logs are told.

Known disagreements without a run:

* `start` (`auth_service.rs:163`) raises generation and revision before it has a
  device code, so a rotated credential that waits to be written counts as stale and is
  not saved. If the device code is then refused, the login goes on in memory with a
  credential the keyring does not have. `InstalledIsSaved` is false with `start`, and
  no property of `twitch_chat` covers this.
* `clear_credentials_if_current` (`auth_service.rs:774`) cancels the chat without a
  chat status. After a validation that drops the credential the retained status still
  says connected, though `docs/02-architecture.md:272` calls it authoritative.

One more window has no property that covers it: between the last check of a clear and the
cancellation of the chat (`auth_service.rs:567`) a new login could have connected,
and its chat would be cancelled, without a chat status. The model has the behaviour:
a run with `start` and five calls violates `StatusWhileLoggedIn` there (validate drops
the credential; before it cancels the chat, a connect is under way, and start and poll
log in anew). Nothing in code or docs says which of the two should win.

## 4. Proofs

`SpeechSafetyProofs` begins with lemmas about the sequences and `TypeCorrect`. That
`controlsInProgress` stays a natural number needs `ControlsCounted` (a control that
ends was counted), and that only items are settled needs `RequestInv`; the three are
one induction.

Then `IInv` is inductive, for every set of tasks, every limit and
every number of ids. Its parts:

* `SingleWorker` holds on its own: a claim needs `is_processing` to be false, which
  says that nobody runs.
* `LockInv`: the dispatch lock is held exactly inside the sections it protects.
* `InFlightIsOwned`: the item in flight carries the id of a running worker's
  request. Only that worker's settlement, or a cancellation, takes it out.
* `ScheduledInv`: only the front item may be unready, and then its worker is in its
  back-off. Single worker is needed here: while one settles, nobody else sleeps.
* `PausedInv`: a paused queue has no request on its way, because pausing happens
  under the lock a request is reserved and sent under.
* `NoLostWakeup` does not follow from itself. Removing an item claims no worker, so
  the proof needs that a worker runs as long as *any* item is there: one in flight
  has an owner, an unready one has a sleeper, a ready one is `NoLostWakeup`.
  This is lemma `ItemsAreWatched`.

From `IInv` follow `OneWorker`, `NoWakeupIsLost`, `InFlightHasOwner` and the two
action properties `SilentWhilePaused` and `ControlIsAlone`. Assumptions of this and
of the next module: `SpeechItemsAssumption` (limits) and
`SpeechQueueAssumption` (finitely many controls, tasks of different kinds are
different).

The last part of the module says what a control may rely on.

* `NothingStartsBehind` follows from `IInv`: the count of controls is raised before a
  control waits for the dispatch lock, and a worker that gets the lock looks at it
  again before it reserves.
* `ActiveInv`: a worker whose utterance was accepted is the one whose playback is
  registered, until it drops it. `ControlsReachPlayback` needs it: the destination a
  control is sent to is read, and an utterance begins, under the same lock.
* `WireInv`: what a control has told its destination before it applies the change.
  `WireFollowsQueue` (`WireAgrees`) follows from it and `LockInv`.
* `WhatSoundsIsAccounted` (`PlaybackAccounted`) relates the player to the worker: an
  utterance is only abandoned by a worker that marks it as unconfirmed.

`SpeechDeliveryProofs`: what becomes of a message. Every step lets items go, or is
one of the five that bring an item into the queue or move it there: a message is
accepted, the user asks again, a request is reserved, put back, made ready again
(lemma `Moves`). The invariants are shown for these instead of for every action.

* `PlacesInv`: an id was handed out before it is anywhere, and it is in one place and
  once in it. `OnePlacePerId`, `OutcomesAreFinal` and, with the effect of each action
  on the lengths, `LimitsHold` follow.
* `BudgetInv`: an item was tried as often as its retry count says, once more while it
  is in flight, and a fresh id not at all. `TriesAreBounded` follows.
* `OwnedInv`: the request of a worker is not pending, and history has no failure of
  it that a user could ask to retry while the worker, whose item may have been
  cancelled, still comes back with a result.
* `AcceptedInv`: what waits, and what a worker will put back, was not taken by a
  destination since it was last asked for. `SpokenOnce` follows.
* `OrderInv`: pending is sorted but for what was asked for again, behind what started
  last. `StartedInOrder` follows. That the item of a retrying worker returns to the
  *front* is what makes it hold.

These invariants were model-checked on the bounds of the three runs of the speech
queue before they were proved. With them every safety property of the speech queue
is a theorem.

`SettingsProofs` has three parts. The first is about consent: `ConsentInv` is
inductive, for every set of commands, hosts and destinations and with every fault. `ApprovalIsConfigured` and
`OnlyConfirmedAddresses` are two of its parts; the others say why they stay:

* `AskingInv`: what an authorization would install after the user's answer is among
  the confirmed, although the names are resolved a second time in between.
* `ApprovedInv`: what is approved was confirmed, so a connection that `MayDial` lets
  through goes to confirmed addresses.
* `StoppedInv`: before the settings are loaded nothing is approved and no invocation
  runs. Without it a start could publish another destination under an approval.

From it follow `ApprovalFollowsSettings` and `WordsGoWhereConfirmed`. No assumption
on the constants is needed: the argument uses neither limits nor finiteness.

The second part is about the files, for every fault. `FilesInv` is inductive:

* `OperationInv` says, stage by stage, what is left of the operation under way:
  `Saving`, `Restoring` a backup, or `Discarding` a damaged one before the defaults
  are saved. It names the contents that are still to be written, so that an entry
  that was moved aside is known to be missing until it is replaced.
* `TransactionInv`: the one command that saves is the one that holds the transaction.
  Two commands whose steps are mixed would make no operation of this form.

A lemma for each form says what one step makes of it (`SavingGoesOn`,
`RestoringGoesOn`, `DiscardingGoesOn`); `StepKinds` sorts all steps of the system by
what they do to files, settings and saves. `ReadOnlyDocumentsStay` (`ReadOnlyKept`)
follows: an operation is begun only over a file that may be written over, and nobody
puts another file there while it runs.

The third part needs a hypothesis, `Uninterrupted`: no start that has to recover is
cut short. It is the fault "interrupted" of run `settings_lost`, which violates
`RecoveryIsHonest`; with it TLC refutes `RegisterSpec` on these bounds too. Under it
two more invariants are inductive:

* `HonestInv`. While nothing was changed from outside (`PromisedInv`), no file that a
  loss of power may leave is damaged and a load keeps what it found. After such a
  change (`BrokenInv`), nothing is written before the next start, since a save refuses
  a file it could not read back; that start meets a damaged file or one of a later
  version and tells the user. `RecoveriesAreHonest` (`RecoveryIsHonest`) follows.
* `RegisterInv`. What a command saves is one change of what is published *now*,
  although it was asked for when other settings were published (`RequestInv`,
  `CandidateIsChange`): nobody publishes while the transaction is held. When nothing
  of a save is left to do, every start finds its document and nothing else.

`SettingsAreARegister` (`RegisterSpec`) is the refinement: a step of a save is an
`Attempt` or settles what is found, a publication is an `Acknowledge`, a crash or a
loss of power a `Settle`, the end of a load a `Restart`, and everything else a stutter
(`RegisterSteps`). The invariants were model-checked on the bounds of `settings`,
`FilesInv` also with "interrupted". No assumption on the sizes of lists or sets is
used: lists of applications enter only through validation and the ids they name.

`LauncherPoolProofs`: `PoolInv` is inductive, for every number of workers, items and
commands and whatever the helpers do. Its parts:

* `PermitInv`: free permits and living threads add up to `Workers`. It is the first
  half of `PoolAccounted`; that a queued item has no thread (in `TaskInv`) is what
  makes the count grow when a permit is acquired.
* `HelperInv`: a call of `run_bounded` that returned left nobody reading, and a child
  only if it said so; a call that joins its readers has no living child.
* `TaskInv`: a helper is under way only for a thread that extracts, so a thread that
  returned has one that returned before it.

From it follows `PermitsAddUp`. `LaunchInv` relates, for every item, what is told to
what its thread did: nothing is told while the command waits, only a thread that
returns counts a process, and the thread of a launch that nobody waits for any more
is late, so that its next look at the `LaunchContext` stops it. From it follows the
action property `LaunchesAreAccounted`. It was model-checked on the bounds of
`launcher` first. Assumptions: `PoolAssumption` (a call per item, sizes)
and `HelperAssumption`.

`TwitchChatProofs`: `ChatInv` is inductive, for every set of commands and every
bound, with every fault, and whatever the login does meanwhile. Most actions move one
invocation on and leave everybody else's alone (`GoesOn`); for those the invariant is
shown once (lemma `GoesOnKeeps`). The others take the connection away (`CancelKeeps`),
hand it over, or restart the process. Its parts:

* `TaskInv`: a task that is alive and was started owns the connection. It survives
  because reservation, cancellation and abort are one section of the owner's mutex.
  A task that owns the connection reports its end only as it ends: the retained
  status of its generation is a live one until then.
* `CommandInv`: a generation is handed out once. Between reservation and registration
  its task waits and nothing is said in its name; a task that waits after its
  registration is started only while it is still the owner; a status "disconnected"
  is published under a generation that will never own a connection.
* `SessionInv`: a live session is of a login at least as recent as the last one that
  a disconnect ended. New sessions read the current login, and the disconnect that
  ends a login leaves no live task.

From it follow `TwitchTypes`, `OneTaskIsAlive`, `LogoutReachesChat` and the action
property `MessagesAreCurrent`. It was model-checked first, with all commands and all
faults, two commands and three calls (4.7 million states). Assumption:
`TwitchAssumption`; of it the proof uses that commands are not numbers, so that the
abort of a task never meets a command, and that the bounds are natural numbers.

`TwitchLoginProofs`: `PollInv` is inductive beside `ChatInv`. What is pending is of
the current generation; a command that polls under it is the one the `polling` flag
stands for; and a start, a clear or a disconnect that opened the generation has it
to itself, with nothing pending, until it ends or another one opens the next. The
last part is what makes a failed clear harmless, which drops what is pending: nobody
polls for it. Most actions leave every invocation with the poll it had or with none
(`QuietKeepsPolls`). From it follows `OneCommandPolls`, for every number of commands.
`PollInv` was model-checked on the bounds of `twitch_login` first.

The second part of the module follows the credentials. Twitch numbers them as it
issues them, so that "older" is "smaller". `Floor(x)` says of a credential that
nothing at or above it was logged out and nothing above it is in the keyring or on
its way there. `LoginInv` is inductive beside `ChatInv` and `PollInv`:

* `OpInv`: who reads a credential holds one that was issued. A granted refresh or
  poll that would still be installed holds a floor: newer than all that is stored or
  about to be. A clear or
  a disconnect remembers the credential it dropped, and that one stays a floor until
  its clear has succeeded: only then is it safe to be unable to put it back.
* `JobInv`: a job writes only under the generation and revision it was queued with,
  and one writer is under way at a time. What a save of the current revision would
  write is what is installed, unless a new authorization has emptied the memory.
* `ClearInv`: a clear of the current generation has it to itself, and nothing is
  installed or pending beside it. This is where `PollInv` is needed.

Most actions carry every invocation on and leave memory, keyring and jobs alone
(`CarryingKeeps`); the others open a generation, install a credential, restore one,
queue a save or a clear, or move a job, with a lemma for each. From `LoginInvariance`
follow `LogoutIsFinal` (`LoggedOutStaysOut`) and the action property
`NoCredentialReturns` (`CredentialsOnlyAdvance`): whatever answers, saves, failures
and restarts come late, a credential that was logged out is never installed or stored
again. `LoginInv` was model-checked on the bounds of `twitch_login` before it was proved.

The third part follows the refresh tokens, which Twitch replaces as they are used.
`Kept(x)` says that Twitch takes `x`, or is known to have replaced it in an answer
that was lost (`spoiled`), or that a refresh which presented it is under way.
`SpentInv` is inductive beside the other three:

* The installed credential is kept, and so is one that a clear or a disconnect of the
  current generation may have to put back.
* Who presents a refresh token, or has presented it, holds the update lock, and an
  EventSub task that does is alive: it would otherwise have been dropped at the
  request. So a free lock means that no refresh is under way, and the installed
  credential is one that Twitch takes or that is known to be lost (lemma
  `FreeLockMeansTaken`). This is what a task relies on that has waited for the lock
  and looks at the credential again.
* A successor that is not installed yet is taken by Twitch and known to nobody else.
  Without this part, an installed credential might be the one that a second refresh
  is about to spend.

Steps are shown to keep it for whatever an invocation may do with the credential it
knows (`Handles`, lemma `HandlingKeeps`); aborting a task that waits for Twitch's
answer is where a token becomes one of the `spoiled`. From `TokenInvariance` follows
`RefreshTokensAreSpentOnce` (`RefreshTokenSpentOnce`). `SpentInv` was model-checked on
the bounds of `twitch_login` and `twitch_chat` before it was proved.

The fourth part ties the keyring to the memory, and is where the order of the writers
counts:

* `JobsInv`: who waits for a clear has the job of that clear, and a disconnect that
  still waits for the lock has left its former job behind.
* `SavedInv`: the installed credential is in the keyring, or the keyring is at fault,
  or a save of the current generation and revision is queued or writing (`WillSave`).
  If a job that is no longer current is writing meanwhile, such a save is there to
  follow it. A clear that failed and will put its credential back (`Failed`) has left
  the fault on record, and nobody else is writing.

Both are carried by the shapes of `LoginMove`, in which the second part had sorted the
actions already. From `SavedInvariance` follows `InstalledIsStored` (`InstalledIsSaved`)
under the hypothesis that no command begins a new login (`"start" \notin Enabled`):
with it the statement is false, as Known disagreements explains. `SavedInv` was
model-checked on the bounds of `twitch_login` before it was proved.

The fifth part joins login and chat: which connection is there can be told from the
status that is retained. A step that does not leave the connection alone has one of six
shapes (`ChatMove`): an invocation goes on, takes the connection, tells its status, starts its task, is
registered or refused, or the process restarts. `StatusInv` has three parts:

* `ReachInv`: who owns the connection is alive, and waits for a command that will start
  it, or runs, or has said that it ended (`OwnedInv`); while nobody does, no live
  status is of the latest generation (`FreeInv`); and a connect that has the latest
  generation finds its task waiting, before it is registered and after.
* `CountInv`: the generations handed out, and those that invocations under way may still
  ask for, are at most two for each call. Only a connect needs it: the generation it
  takes must have a task in the model, and `MaxConnection` is twice `MaxCalls`. The sets
  are finite, so `Cardinality` counts them (lemmas `Fewer`, `OneLess`, `OneMore`,
  `Exchanged`).
* `GoneInv`: the status is behind the latest generation only while a command is on its
  way to tell it (`Answers`), or after a clear that cancelled the chat. Then the
  credential is `Gone`: none is installed, none is pending, and no clear of the current
  generation has one to put back. Within a process no step but a start
  ends that: who rotates or validates needs the installed credential, and who polls
  needs a pending authorization. A restart begins with a status of its own.

From `ConnectionInvariance` follows `StatusIsTrue` (`StatusWhileLoggedIn`), under the
hypothesis that no command begins a new login, as for the keyring: with `start` it is
false, as TLC shows. The three parts were model-checked with two commands, three calls,
every other command and all faults before they were proved. Beside `TwitchAssumption`
as above, `MaxConnection >= 2 * MaxCalls` is used here.

`ChatPathProofs`: the window of known ids and the sockets, for every limit and age
of the window, every number of generations, and any number of messages, handovers,
failures and reconnects (the budgets of `MCChatPath` bound the run, not the proof).
First come lemmas about `MessageDedupe`: the hash set answers for what the queue
holds, no id is queued twice (`Sound`), and `insert_at` lets the expired go, and at
most one more when the queue was full (`WindowMoves`). Then two inductive invariants:

* `DeliveryInv` counts against the history. Behind the entry of a message that was
  passed on, the queue has no more entries than the connection has passed on since
  (`QueuedBehind`); the one in hand, queued but not dispatched yet, counts too. So an
  entry that the limit pushes out has `CacheLimit` successors (`Forgotten`), and a
  message in hand was not passed on within the window (`HandIsNews`), which is what
  the step that dispatches it needs. A task that was replaced may still dispatch:
  `PathShape` says that its generation is not the active one. From it follows
  `MessagesAreHeardOnce` (`HeardOnce`).
* `HandoverInv` says, stage by stage, what may wait where (`SocketInv`): a frame that
  ends a socket is its last, so a drain that stops at it leaves nothing behind it;
  nothing waits on a second socket outside a handover; and nothing on the socket in
  use before it is welcomed. `KnownInv`: what the window knows was passed on or is in
  hand, so that a message it refuses is not lost with it. Every step keeps a message
  where it will be read (`Keeping`), or marks the connection as broken. From it
  follows `HandoversLoseNothing` (`HandoverLosesNothing`).

The parts of both were model-checked on the bounds of `chat_path`. The first attempt
at `SocketInv` left out the task that sleeps between two sessions: true, but not
inductive. Assumptions: `CacheAssumption` and `GenerationAssumption`.

`ChatWindowProofs`: the last part of the way, from the backend's event boundary to
the window, for every limit of the buffer and of the ids the window remembers, any
number of statuses and messages, and a window that opens at any moment. Everything
rests on one line: statuses are recorded one after the other, and events arrive in
the order they were emitted.

* `StatusInv`: the status a speaker has recorded and not emitted, the statuses on
  their way, the one in the snapshot, the one the backend retains and the one the
  window knows stand in one order (`Ordered`), in which a later revision never
  belongs to an older generation. A window that does not know the retained status
  has it on its way, or a speaker who will emit it, or a snapshot still to come
  (`CatchingUp`). `WindowKnowsStatus`, the first half of `ViewCatchesUp`, follows.
* `NumberInv`: a message says by its number on which connection Twitch sent it, so
  one id never belongs to two connections.
* `AnnouncedInv`: the status that makes a connection active is emitted before its
  first message, and stands before it on the way. Without it a restored window would
  refuse the messages of a connection it has not heard of.
* `LineInv`: there is a place in what was emitted such that everything behind it is on
  its way, in its order (`Unread`), and everything up to it is accounted for
  (`Accounted`). It was sent to the window and nothing else is there (`Origins`); of a
  connection that still counts, nothing was dropped but what a full buffer pushed out
  (`NothingDropped`); buffer and list are in the order of sending (`InLine`); one
  of the two is empty, and what was pushed out stays out (`Places`); and the
  remembered ids are the latest (`Recalls`).

`WindowCatchesUp` (`ViewCatchesUp`) follows from the four. It has one hypothesis,
`RepeatsAreKnown`: between two emissions of an id, fewer than `RecentLimit` others were
emitted. The window remembers so many ids (`MAX_RECENT_CHAT_MESSAGE_IDS`, 400 in
`domainOrchestration.ts`); it is twice the buffer, while the backend's own window of
known ids ends with age as well as number, so a message may be emitted again. On the bounds
of `chat_path` the hypothesis always holds. It is needed: with `RecentLimit`,
`CacheLimit` and `CacheTtl` all 1 TLC finds a window that shows a message twice (41,682
states), and none under the hypothesis. `LineInv` was model-checked on the bounds of
`chat_path` (1.9 million states) before it was proved. The proof found one slip of an
earlier model: two arms of the `CASE` in `ActiveAfter` overlapped where the code has an
`if` and an `else if`; it is an `IF` now. `ViewCatchesUp` itself was restated with
quantifiers over places where it compared two sequences made by `SelectSeq`, which
is recursive; it says the same, since the places it is `Due` from have different ids.
Assumptions: those of `ChatPathProofs` and `ViewAssumption`.

Only model-checked: what `FoldLeft` makes of a launcher list, which is recursion over
data and beyond the prover; the proofs about settings do not need it. `PendingDrains`,
`ControlsReturn`, `CommandsReturn` and `LauncherEnds` are liveness under fairness and
stay with TLC: the prover handles neither fairness nor ENABLED. Every invariant and
action property of a passing run is the conclusion of a theorem, five of them under a
hypothesis that the run meets and that is explained above: `InstalledIsSaved` and
`StatusWhileLoggedIn` (no `start`), `ViewCatchesUp` (`RepeatsAreKnown`),
`RecoveryIsHonest` and `RegisterSpec` (`Uninterrupted`).

## 5. Plan

Done: the speech queue with its worker and controls, and its first proofs; the
Twitch login with the credential store, and the chat connection on top of it; the
settings with files, recovery, commands and consent, and the register they
implement; the launcher with pool and helper processes; the way of a chat message
from Twitch to the window; the proofs of all safety properties of the speech queue,
of the settings, their files and the consent, of the launcher's pool, of the chat
connection and its status, of the polls for a device code, of the order of credentials,
of the use of refresh tokens, of the keyring, of the window of known ids, of the handover
and of what the window ends with.

Next, in this order:

1. `RepeatSuppression`: the table of the last message of each user, its expiry queue
   and its clean-up task, against a map from user to time.
2. `SpeechPromise`: an abstract queue (messages, spoken or not, each at most once
   per ask) that `SpeechQueue` implements; a destination with queue and player so
   that the two status queries are told apart.
3. `EventSub` as a refinement of the one-phase handover of `TwitchSession`.

## 6. Not modelled

The formatter and normalisation (strings), the field rules of the settings schema
(data no property tells apart), repeat suppression (a clock and text; the queue takes
its verdict as an input), shortcut and target parsing, single instance (a plug-in),
packets and parsing, the streams of application events beside the chat status, the
forms of the frontend, rendering. Parts of modelled components that are left out are
named in section 2 and, component by component with its status, in `PROJECT.json`.
