---------------------------- MODULE SpeechQueue ----------------------------
(***************************************************************************)
(* The speech queue, its worker task, the remote controls and the dispatch *)
(* lock they share (src-tauri/src/speech: queue.rs, queue_commands.rs,     *)
(* worker.rs, commands.rs, runtime.rs).                                    *)
(*                                                                         *)
(* Two locks order everything.  The queue mutex is held for a few          *)
(* statements at a time: whatever one guard covers is one action here.     *)
(* The dispatcher is an async mutex held across network I/O: it is the     *)
(* variable dispatcher, and an action that awaits it has it as a guard.    *)
(*                                                                         *)
(* The destination (Bouyomi-chan behind TCP) is external.  What matters of *)
(* it is which utterances it accepted and has not finished.                *)
(***************************************************************************)
EXTENDS SpeechItems

CONSTANTS
  Workers,    \* tasks that run SpeechQueueWorker::run
  Controls,   \* running invocations of speech_pause/resume/skip/clear
  Probes,     \* connection checks, silent probes and test speech
  Adapters,   \* destinations the settings can name
  NoAdapter, Free, Nobody,
  MaxAsks     \* bound of the model: how often a user asks for one item

ASSUME SpeechQueueAssumption ==
  /\ IsFiniteSet(Controls)
  /\ Workers # {} /\ Adapters # {}
  /\ NoAdapter \notin Adapters
  /\ Workers \cap Controls = {}
  /\ Probes \cap (Workers \cup Controls) = {}
  /\ {Free, Nobody} \cap (Workers \cup Controls \cup Probes) = {}
  /\ MaxAsks \in Nat \ {0}

VARIABLES
  \* SpeechQueueState, behind the queue mutex
  pending, inFlight, history, nextId, isProcessing, paused,
  controlsInProgress,
  \* SpeechRuntime and the saved settings
  dispatcher,    \* who holds the dispatch lock
  active,        \* the worker whose ActiveSpeechPlayback is registered
  configured,    \* the destination of the saved settings
  \* the worker tasks
  wpc, request, adapter, result,
  \* the control commands
  cpc, command, target,
  \* the destinations, and what a listener and the users know
  sounding,      \* utterances each destination accepted and has not finished
  wire,          \* the last pause or resume known to have arrived
  asked,         \* how often a chat message or a user asked for an id
  tries,         \* reservations of an id since it was last asked for
  accepted,      \* acceptances of an id since it was last asked for
  unconfirmed,   \* those of them whose completion was given up on
  lastStarted    \* the newest id reserved on its first request

queueVars == <<pending, inFlight, history, nextId, isProcessing, paused,
               controlsInProgress>>
runtimeVars == <<dispatcher, active, configured>>
workerVars == <<wpc, request, adapter, result>>
controlVars == <<cpc, command, target>>
destinationVars == <<sounding, wire, accepted, unconfirmed>>
askVars == <<asked, tries, lastStarted>>
vars == <<queueVars, runtimeVars, workerVars, controlVars, destinationVars,
          askVars>>

WorkerPc == {"idle", "next", "barrier", "reserved", "speaking", "playing",
             "reconcile", "settle", "backoff", "drop"}
ControlPc == {"idle", "queued", "remote", "apply", "cancel", "unselected"}
Commands == {"pause", "resume", "skip", "clear"}
Results == {"none", "completed", "unconfirmed", "retryable", "failed"}

TypeOK ==
  /\ pending \in Seq(Item)
  /\ inFlight \in Item \cup {NoItem}
  /\ history \in Seq(Item)
  /\ nextId \in 1..(MaxId + 1)
  /\ isProcessing \in BOOLEAN
  /\ paused \in BOOLEAN
  /\ controlsInProgress \in Nat
  /\ dispatcher \in Workers \cup Controls \cup Probes \cup {Free}
  /\ active \in Workers \cup {Nobody}
  /\ configured \in Adapters
  /\ wpc \in [Workers -> WorkerPc]
  /\ request \in [Workers -> Ids \cup {0}]
  /\ adapter \in [Workers -> Adapters \cup {NoAdapter}]
  /\ result \in [Workers -> Results]
  /\ cpc \in [Controls -> ControlPc]
  /\ command \in [Controls -> Commands \cup {"none"}]
  /\ target \in [Controls -> Adapters \cup {NoAdapter}]
  /\ sounding \in [Adapters -> SUBSET Ids]
  /\ wire \in {"unknown", "paused", "running"}
  /\ accepted \in [Ids -> Nat]
  /\ asked \in [Ids -> Nat]
  /\ tries \in [Ids -> Nat]
  /\ unconfirmed \in SUBSET Ids
  /\ lastStarted \in Ids \cup {0}

Init ==
  /\ pending = <<>> /\ inFlight = NoItem /\ history = <<>>
  /\ nextId = 1 /\ isProcessing = FALSE /\ paused = FALSE
  /\ controlsInProgress = 0
  /\ dispatcher = Free /\ active = Nobody /\ configured \in Adapters
  /\ wpc = [w \in Workers |-> "idle"]
  /\ request = [w \in Workers |-> 0]
  /\ adapter = [w \in Workers |-> NoAdapter]
  /\ result = [w \in Workers |-> "none"]
  /\ cpc = [c \in Controls |-> "idle"]
  /\ command = [c \in Controls |-> "none"]
  /\ target = [c \in Controls |-> NoAdapter]
  /\ sounding = [a \in Adapters |-> {}]
  /\ wire = "unknown"
  /\ accepted = [i \in Ids |-> 0]
  /\ asked = [i \in Ids |-> 0]
  /\ tries = [i \in Ids |-> 0]
  /\ unconfirmed = {} /\ lastStarted = 0

-----------------------------------------------------------------------------
(***************************************************************************)
(* Claiming the worker.  Every path that may make an item processable      *)
(* decides, under the queue lock, whether a new worker task is to be       *)
(* spawned; the task it spawns starts at "next".                           *)
(***************************************************************************)
HasAutoProcessableItem ==
  /\ inFlight = NoItem
  /\ pending # <<>>
  /\ Head(pending).delivery = "ready"

\* The queue has work that nothing but a running worker will pick up.
WorkWaiting ==
  /\ ~paused
  /\ controlsInProgress = 0
  /\ HasAutoProcessableItem

Spawn ==
  /\ isProcessing' = TRUE
  /\ \E w \in Workers :
       /\ wpc[w] = "idle"
       /\ wpc' = [wpc EXCEPT ![w] = "next"]

SpawnNothing == UNCHANGED <<isProcessing, wpc>>

\* Fault: a worker that is already running is not looked for.
ClaimSecondWorker == IF WorkWaiting' THEN Spawn ELSE SpawnNothing

\* claim_worker on the queue an action leaves behind, and the spawn.
ClaimWorker == IF ~isProcessing /\ WorkWaiting' THEN Spawn ELSE SpawnNothing

-----------------------------------------------------------------------------
(***************************************************************************)
(* Queue operations of the chat and of the user.                           *)
(***************************************************************************)

\* enqueue_message ends in history: automatic speech is off, the message
\* repeats too soon, or the formatter blocks it.
EnqueueRejected(status) ==
  /\ nextId <= MaxId
  /\ history' = PushHistory(history, NewItem(nextId, status))
  /\ nextId' = nextId + 1
  /\ UNCHANGED <<pending, inFlight, isProcessing, paused, controlsInProgress,
                 runtimeVars, workerVars, controlVars, destinationVars, askVars>>

\* enqueue_message accepts: the oldest unsent items make room.
EnqueueAccepted ==
  LET dropped == Overflow(Len(pending), InFlightCount(inFlight))
      kept == SubSeq(pending, dropped + 1, Len(pending))
  IN  /\ nextId <= MaxId
      /\ history' = PushAll(history, AllSkipped(SubSeq(pending, 1, dropped)))
      /\ pending' = Append(kept, NewItem(nextId, "queued"))
      /\ nextId' = nextId + 1
      /\ asked' = [asked EXCEPT ![nextId] = 1]
      /\ UNCHANGED <<inFlight, paused, controlsInProgress>>
      /\ ClaimWorker
      /\ UNCHANGED <<runtimeVars, request, adapter, result, controlVars,
                     destinationVars, tries, lastStarted>>

\* Fault: the item is recorded as skipped but stays in flight.
CancelACopy ==
  /\ UNCHANGED inFlight
  /\ history' = PushHistory(history, Skipped(inFlight))

\* cancel_in_flight: the item leaves, the worker keeps its ownership.
CancelInFlight ==
  /\ inFlight' = NoItem
  /\ history' = PushHistory(history, Skipped(inFlight))

\* remove_pending_item.  It claims no worker.
RemoveItem(id) ==
  /\ \/ /\ inFlight.id = id
        /\ CancelInFlight
        /\ UNCHANGED pending
     \/ /\ inFlight.id # id
        /\ \E k \in 1..Len(pending) :
             /\ pending[k].id = id
             /\ \A j \in 1..(k - 1) : pending[j].id # id
             /\ pending' = RemoveAt(pending, k)
             /\ history' = PushHistory(history, Skipped(pending[k]))
        /\ UNCHANGED inFlight
  /\ UNCHANGED <<nextId, isProcessing, paused, controlsInProgress, runtimeVars,
                 workerVars, controlVars, destinationVars, askVars>>

\* dismiss_history_item
DismissHistoryItem(id) ==
  /\ \E k \in 1..Len(history) :
       /\ history[k].id = id
       /\ \A j \in 1..(k - 1) : history[j].id # id
       /\ history' = RemoveAt(history, k)
  /\ UNCHANGED <<pending, inFlight, nextId, isProcessing, paused,
                 controlsInProgress, runtimeVars, workerVars, controlVars,
                 destinationVars, askVars>>

\* dismiss_history
DismissHistory ==
  /\ history' = <<>>
  /\ UNCHANGED <<pending, inFlight, nextId, isProcessing, paused,
                 controlsInProgress, runtimeVars, workerVars, controlVars,
                 destinationVars, askVars>>

\* speech_queue_retry: the user asks for a failed item once more.
RetryExhaustedItem(id) ==
  /\ Len(pending) + InFlightCount(inFlight) < QueueLimit
  /\ asked[id] < MaxAsks
  /\ \E k \in 1..Len(history) :
       /\ history[k].id = id /\ IsExhausted(history[k])
       /\ \A j \in 1..(k - 1) : ~(history[j].id = id /\ IsExhausted(history[j]))
       /\ history' = RemoveAt(history, k)
  /\ pending' = Append(pending, NewItem(id, "queued"))
  /\ asked' = [asked EXCEPT ![id] = @ + 1]
  /\ tries' = [tries EXCEPT ![id] = 0]
  /\ accepted' = [accepted EXCEPT ![id] = 0]
  /\ UNCHANGED <<inFlight, nextId, paused, controlsInProgress>>
  /\ ClaimWorker
  /\ UNCHANGED <<runtimeVars, request, adapter, result, controlVars, sounding,
                 wire, unconfirmed, lastStarted>>

-----------------------------------------------------------------------------
(***************************************************************************)
(* The worker task (SpeechQueueWorker::run).                               *)
(***************************************************************************)

\* Fault: the barrier of a control that waits for the lock is not looked at.
MayReserveBehindControl ==
  /\ ~paused
  /\ HasAutoProcessableItem

\* run's tests under the queue lock, reserve_next_request_after_dispatch_lock
\* and begin_next_request: all of them let the front item through.
MayReserve ==
  /\ controlsInProgress = 0
  /\ ~paused
  /\ HasAutoProcessableItem

\* Under the dispatch lock it finds a control in progress: it gives the lock
\* back and waits for the barrier.
WorkerFindsControl(w) ==
  /\ wpc[w] = "next" /\ dispatcher = Free
  /\ controlsInProgress > 0
  /\ wpc' = [wpc EXCEPT ![w] = "barrier"]
  /\ UNCHANGED <<queueVars, runtimeVars, request, adapter, result, controlVars,
                 destinationVars, askVars>>

WorkerPassesBarrier(w) ==
  /\ wpc[w] = "barrier"
  /\ controlsInProgress = 0
  /\ wpc' = [wpc EXCEPT ![w] = "next"]
  /\ UNCHANGED <<queueVars, runtimeVars, request, adapter, result, controlVars,
                 destinationVars, askVars>>

\* It stops: paused, nothing pending, or nothing it may reserve.
WorkerStops(w) ==
  /\ wpc[w] = "next" /\ dispatcher = Free
  /\ controlsInProgress = 0
  /\ paused \/ ~HasAutoProcessableItem
  /\ isProcessing' = FALSE
  /\ wpc' = [wpc EXCEPT ![w] = "idle"]
  /\ UNCHANGED <<pending, inFlight, history, nextId, paused, controlsInProgress,
                 runtimeVars, request, adapter, result, controlVars,
                 destinationVars, askVars>>

\* reserve_next_request_after_dispatch_lock; the worker keeps the lock.
WorkerReserves(w) ==
  /\ wpc[w] = "next" /\ dispatcher = Free
  /\ MayReserve
  /\ inFlight' = [Head(pending) EXCEPT !.status = "speaking"]
  /\ pending' = Tail(pending)
  /\ request' = [request EXCEPT ![w] = Head(pending).id]
  /\ dispatcher' = w
  /\ wpc' = [wpc EXCEPT ![w] = "reserved"]
  /\ tries' = [tries EXCEPT ![Head(pending).id] = @ + 1]
  /\ lastStarted' = IF asked[Head(pending).id] = 1 THEN Head(pending).id
                    ELSE lastStarted
  /\ UNCHANGED <<history, nextId, isProcessing, paused, controlsInProgress,
                 active, configured, adapter, result, controlVars,
                 destinationVars, asked>>

\* The adapter is chosen from the settings of this moment ...
WorkerSelects(w) ==
  /\ wpc[w] = "reserved"
  /\ adapter' = [adapter EXCEPT ![w] = configured]
  /\ wpc' = [wpc EXCEPT ![w] = "speaking"]
  /\ UNCHANGED <<queueVars, runtimeVars, request, result, controlVars,
                 destinationVars, askVars>>

\* Fault: the failure path keeps the dispatch lock.
SelectFailsLocked(w) ==
  /\ wpc[w] = "reserved"
  /\ result' = [result EXCEPT ![w] = "failed"]
  /\ wpc' = [wpc EXCEPT ![w] = "reconcile"]
  /\ UNCHANGED <<queueVars, runtimeVars, request, adapter, controlVars,
                 destinationVars, askVars>>

\* ... or cannot be: the lock is dropped, and such a failure is never retried.
WorkerSelectFails(w) ==
  /\ wpc[w] = "reserved"
  /\ dispatcher' = Free
  /\ result' = [result EXCEPT ![w] = "failed"]
  /\ wpc' = [wpc EXCEPT ![w] = "reconcile"]
  /\ UNCHANGED <<queueVars, active, configured, request, adapter, controlVars,
                 destinationVars, askVars>>

\* A destination takes an utterance: the last byte of the packet was written.
Arrives(w) ==
  /\ sounding' = [sounding EXCEPT ![adapter[w]] = @ \cup {request[w]}]
  /\ accepted' = [accepted EXCEPT ![request[w]] = @ + 1]

\* speak_for_queue succeeds and registers the playback; the session that
\* holds the lock ends.
SpeakAccepted(w) ==
  /\ wpc[w] = "speaking"
  /\ Arrives(w)
  /\ active' = w
  /\ dispatcher' = Free
  /\ wpc' = [wpc EXCEPT ![w] = "playing"]
  /\ UNCHANGED <<queueVars, configured, request, adapter, result, controlVars,
                 wire, unconfirmed, askVars>>

\* speak_for_queue fails before the first byte, and may be retried or not.
SpeakRefused(w) ==
  /\ wpc[w] = "speaking"
  /\ dispatcher' = Free
  /\ \E failure \in {"retryable", "failed"} :
       result' = [result EXCEPT ![w] = failure]
  /\ wpc' = [wpc EXCEPT ![w] = "reconcile"]
  /\ UNCHANGED <<queueVars, active, configured, request, adapter, controlVars,
                 destinationVars, askVars>>

\* Fault: a write that timed out is taken for a failed connection.
WriteFailureRetryable == "retryable"

\* classify_error: a failure after the first byte is never retryable.
WriteFailure == "failed"

\* The write fails or times out although the packet arrived.
SpeakUncertain(w) ==
  /\ wpc[w] = "speaking"
  /\ Arrives(w)
  /\ unconfirmed' = unconfirmed \cup {request[w]}
  /\ dispatcher' = Free
  /\ result' = [result EXCEPT ![w] = WriteFailure]
  /\ wpc' = [wpc EXCEPT ![w] = "reconcile"]
  /\ UNCHANGED <<queueVars, active, configured, request, adapter, controlVars,
                 wire, askVars>>

\* Fault: the playback of a cancelled item is no longer waited for.
CompletedOrCancelled(w) == sounding[adapter[w]] = {} \/ inFlight = NoItem

\* The poll finds that nothing plays and no task is left at the destination.
DestinationSilent(w) == sounding[adapter[w]] = {}

\* wait_for_playback_completion polls under the dispatch lock.
PlaybackCompleted(w) ==
  /\ wpc[w] = "playing" /\ dispatcher = Free
  /\ DestinationSilent(w)
  /\ result' = [result EXCEPT ![w] = "completed"]
  /\ wpc' = [wpc EXCEPT ![w] = "reconcile"]
  /\ UNCHANGED <<queueVars, runtimeVars, request, adapter, controlVars,
                 destinationVars, askVars>>

\* Utterances some destination still has.
Sounding == UNION {sounding[a] : a \in Adapters}

\* A poll fails, or five minutes have passed.
PlaybackUnconfirmed(w) ==
  /\ wpc[w] = "playing" /\ dispatcher = Free
  /\ unconfirmed' = unconfirmed \cup ({request[w]} \cap Sounding)
  /\ result' = [result EXCEPT ![w] = "unconfirmed"]
  /\ wpc' = [wpc EXCEPT ![w] = "reconcile"]
  /\ UNCHANGED <<queueVars, runtimeVars, request, adapter, controlVars,
                 sounding, wire, accepted, askVars>>

\* wait_for_control before the outcome is applied.  The queue lock is given
\* up between this check and the settlement.
WorkerReconciles(w) ==
  /\ wpc[w] = "reconcile"
  /\ controlsInProgress = 0
  /\ wpc' = [wpc EXCEPT ![w] = "settle"]
  /\ UNCHANGED <<queueVars, runtimeVars, request, adapter, result, controlVars,
                 destinationVars, askVars>>

\* Fault: the outcome is recorded but the item stays in flight.
ConcludeACopy(status, retryCount, delivery) ==
  /\ history' = PushHistory(history,
       [inFlight EXCEPT !.status = status, !.retryCount = retryCount,
                        !.delivery = delivery])
  /\ UNCHANGED <<pending, inFlight>>

\* The item in flight leaves for history with its last status.
Conclude(status, retryCount, delivery) ==
  /\ inFlight' = NoItem
  /\ history' = PushHistory(history,
       [inFlight EXCEPT !.status = status, !.retryCount = retryCount,
                        !.delivery = delivery])
  /\ UNCHANGED pending

\* Fault: every retryable failure is retried.
AlwaysRetries(item) == TRUE

\* The automatic retry is still to be had.
HasRetryLeft(item) == item.retryCount = 0

\* Fault: the item to be retried goes to the end of the queue, ready at once.
RequeuedLast(item, items) == Append(items, [item EXCEPT !.delivery = "ready"])

\* The item to be retried stays ahead of everything else.
Requeued(item, items) == <<item>> \o items

\* complete_request: a no-op unless the request is still in flight.
SettleCompleted(w) ==
  /\ wpc[w] = "settle" /\ result[w] = "completed"
  /\ IF inFlight.id = request[w]
     THEN Conclude("spoken", inFlight.retryCount, inFlight.delivery)
     ELSE UNCHANGED <<pending, inFlight, history>>
  /\ wpc' = [wpc EXCEPT ![w] = "drop"]
  /\ UNCHANGED <<nextId, isProcessing, paused, controlsInProgress, runtimeVars,
                 request, adapter, result, controlVars, destinationVars, askVars>>

\* fail_after_acceptance uses up the automatic retry.
SettleUnconfirmed(w) ==
  /\ wpc[w] = "settle" /\ result[w] = "unconfirmed"
  /\ IF inFlight.id = request[w]
     THEN Conclude("error", 1, "retryExhausted")
     ELSE UNCHANGED <<pending, inFlight, history>>
  /\ wpc' = [wpc EXCEPT ![w] = "drop"]
  /\ UNCHANGED <<nextId, isProcessing, paused, controlsInProgress, runtimeVars,
                 request, adapter, result, controlVars, destinationVars, askVars>>

\* fail_request_with_retry, first retryable failure: back to the front.
SettleWithRetry(w) ==
  /\ wpc[w] = "settle" /\ result[w] = "retryable"
  /\ inFlight.id = request[w] /\ HasRetryLeft(inFlight)
  /\ pending' = Requeued([inFlight EXCEPT !.status = "queued",
                            !.retryCount = 1, !.delivery = "retryScheduled"],
                          pending)
  /\ inFlight' = NoItem
  /\ wpc' = [wpc EXCEPT ![w] = "backoff"]
  /\ UNCHANGED <<history, nextId, isProcessing, paused, controlsInProgress,
                 runtimeVars, request, adapter, result, controlVars,
                 destinationVars, askVars>>

\* fail_request_with_retry, any other failure: to the history of errors, or
\* nothing when the item was cancelled meanwhile.
SettleFailed(w) ==
  /\ wpc[w] = "settle" /\ result[w] \in {"retryable", "failed"}
  /\ result[w] = "failed" \/ inFlight.id # request[w] \/ ~HasRetryLeft(inFlight)
  /\ IF inFlight.id = request[w]
     THEN Conclude("error", inFlight.retryCount, "retryExhausted")
     ELSE UNCHANGED <<pending, inFlight, history>>
  /\ wpc' = [wpc EXCEPT ![w] = "drop"]
  /\ UNCHANGED <<nextId, isProcessing, paused, controlsInProgress, runtimeVars,
                 request, adapter, result, controlVars, destinationVars, askVars>>

\* Fault: the item is never made ready again.
Unactivated(items, id) == items

\* activate_scheduled_retry: the front item, if it is still the one waiting.
Activated(items, id) ==
  IF /\ items # <<>>
     /\ Head(items).id = id
     /\ Head(items).delivery = "retryScheduled"
  THEN [items EXCEPT ![1].delivery = "ready"]
  ELSE items

\* RETRY_DELAY has passed.
ActivateScheduledRetry(w) ==
  /\ wpc[w] = "backoff"
  /\ pending' = Activated(pending, request[w])
  /\ wpc' = [wpc EXCEPT ![w] = "drop"]
  /\ UNCHANGED <<inFlight, history, nextId, isProcessing, paused,
                 controlsInProgress, runtimeVars, request, adapter, result,
                 controlVars, destinationVars, askVars>>

\* The iteration ends: ActiveSpeechPlayback, if there is one, is dropped.
DropPlayback(w) ==
  /\ wpc[w] = "drop"
  /\ active' = IF active = w THEN Nobody ELSE active
  /\ request' = [request EXCEPT ![w] = 0]
  /\ adapter' = [adapter EXCEPT ![w] = NoAdapter]
  /\ result' = [result EXCEPT ![w] = "none"]
  /\ wpc' = [wpc EXCEPT ![w] = "next"]
  /\ UNCHANGED <<queueVars, dispatcher, configured, controlVars,
                 destinationVars, askVars>>

-----------------------------------------------------------------------------
(***************************************************************************)
(* The remote controls (control_from_settings).                            *)
(***************************************************************************)

\* Fault: the end of a control is counted twice.
EndControlTwice == controlsInProgress' = controlsInProgress - 2

\* The end of a control lowers the barrier it raised.
EndControl == controlsInProgress' = controlsInProgress - 1

\* begin_control, before the dispatch lock is asked for.
BeginControl(c, cmd) ==
  /\ cpc[c] = "idle"
  /\ controlsInProgress' = controlsInProgress + 1
  /\ command' = [command EXCEPT ![c] = cmd]
  /\ cpc' = [cpc EXCEPT ![c] = "queued"]
  /\ UNCHANGED <<pending, inFlight, history, nextId, isProcessing, paused,
                 runtimeVars, workerVars, target, destinationVars, askVars>>

\* Fault: the saved settings alone name the destination.
ConfiguredTarget == configured

\* The adapter of the registered playback, else the configured one.
ControlTarget == IF active = Nobody THEN configured ELSE adapter[active]

\* Fault: the control does not wait for the dispatch lock.
SeizeControl(c) ==
  /\ cpc[c] = "queued"
  /\ dispatcher' = c
  /\ target' = [target EXCEPT ![c] = ControlTarget]
  /\ cpc' = [cpc EXCEPT ![c] = "remote"]
  /\ UNCHANGED <<queueVars, active, configured, workerVars, command,
                 destinationVars, askVars>>

\* lock_control chooses the target after it has the lock.
LockControl(c) ==
  /\ cpc[c] = "queued" /\ dispatcher = Free
  /\ dispatcher' = c
  /\ target' = [target EXCEPT ![c] = ControlTarget]
  /\ cpc' = [cpc EXCEPT ![c] = "remote"]
  /\ UNCHANGED <<queueVars, active, configured, workerVars, command,
                 destinationVars, askVars>>

\* lock_control finds no playback and the settings select no adapter.
LockControlFails(c) ==
  /\ cpc[c] = "queued" /\ dispatcher = Free
  /\ active = Nobody
  /\ cpc' = [cpc EXCEPT ![c] = "unselected"]
  /\ UNCHANGED <<queueVars, runtimeVars, workerVars, command, target,
                 destinationVars, askVars>>

\* What a command does to the destination's pause state.
WireAfter(cmd) ==
  CASE cmd = "pause" -> "paused"
    [] cmd = "resume" -> "running"
    [] OTHER -> wire

\* Fault: the dispatch lock is given back before the local application.
SucceedAndUnlock(c) ==
  /\ cpc[c] = "remote"
  /\ wire' = WireAfter(command[c])
  /\ dispatcher' = Free
  /\ cpc' = [cpc EXCEPT ![c] = "apply"]
  /\ UNCHANGED <<queueVars, active, configured, workerVars, command, target,
                 sounding, accepted, unconfirmed, askVars>>

\* The destination takes the command.
RemoteControlSucceeds(c) ==
  /\ cpc[c] = "remote"
  /\ wire' = WireAfter(command[c])
  /\ cpc' = [cpc EXCEPT ![c] = "apply"]
  /\ UNCHANGED <<queueVars, runtimeVars, workerVars, command, target, sounding,
                 accepted, unconfirmed, askVars>>

\* The send fails; the command may have arrived.
RemoteControlFails(c) ==
  /\ cpc[c] = "remote"
  /\ wire' = IF command[c] \in {"pause", "resume"} THEN "unknown" ELSE wire
  /\ cpc' = [cpc EXCEPT ![c] = "cancel"]
  /\ UNCHANGED <<queueVars, runtimeVars, workerVars, command, target, sounding,
                 accepted, unconfirmed, askVars>>

\* skip_current: the item in flight, else the front of pending.
SkipCurrent ==
  \/ /\ inFlight # NoItem
     /\ CancelInFlight
     /\ UNCHANGED pending
  \/ /\ inFlight = NoItem /\ pending # <<>>
     /\ pending' = Tail(pending)
     /\ history' = PushHistory(history, Skipped(Head(pending)))
     /\ UNCHANGED inFlight
  \/ /\ inFlight = NoItem /\ pending = <<>>
     /\ UNCHANGED <<pending, inFlight, history>>

\* clear_pending: the item in flight goes first.
ClearPending ==
  LET current == IF inFlight = NoItem THEN <<>> ELSE <<inFlight>>
  IN  /\ history' = PushAll(history, AllSkipped(current \o pending))
      /\ inFlight' = NoItem
      /\ pending' = <<>>

\* Fault: a skip does not look for work to go on with.
OnlyResumeClaims(cmd) == cmd = "resume"

\* The commands after which apply_control claims the worker.
ClaimsWorker(cmd) == cmd \in {"resume", "skip"}

\* apply_control under the dispatch lock, then the session ends.
ApplyControl(c) ==
  /\ cpc[c] = "apply"
  /\ EndControl
  /\ \/ /\ command[c] \in {"pause", "resume"}
        /\ paused' = (command[c] = "pause")
        /\ UNCHANGED <<pending, inFlight, history>>
     \/ /\ command[c] = "skip"
        /\ SkipCurrent
        /\ UNCHANGED paused
     \/ /\ command[c] = "clear"
        /\ ClearPending
        /\ UNCHANGED paused
  /\ IF ClaimsWorker(command[c]) THEN ClaimWorker ELSE SpawnNothing
  /\ dispatcher' = Free
  /\ command' = [command EXCEPT ![c] = "none"]
  /\ target' = [target EXCEPT ![c] = NoAdapter]
  /\ cpc' = [cpc EXCEPT ![c] = "idle"]
  /\ UNCHANGED <<nextId, active, configured, request, adapter, result,
                 destinationVars, askVars>>

\* cancel_control_and_claim_worker; after a failed send the lock is still held.
CancelControl(c) ==
  /\ cpc[c] \in {"cancel", "unselected"}
  /\ EndControl
  /\ UNCHANGED <<pending, inFlight, paused>>
  /\ ClaimWorker
  /\ dispatcher' = IF cpc[c] = "cancel" THEN Free ELSE dispatcher
  /\ command' = [command EXCEPT ![c] = "none"]
  /\ target' = [target EXCEPT ![c] = NoAdapter]
  /\ cpc' = [cpc EXCEPT ![c] = "idle"]
  /\ UNCHANGED <<history, nextId, active, configured, request, adapter, result,
                 destinationVars, askVars>>

-----------------------------------------------------------------------------
(***************************************************************************)
(* The surroundings: the other users of the dispatch lock (connection      *)
(* check, silent probe, test speech), saved settings, the destination.     *)
(***************************************************************************)
ProbeLocks(p) ==
  /\ dispatcher = Free
  /\ dispatcher' = p
  /\ UNCHANGED <<queueVars, active, configured, workerVars, controlVars,
                 destinationVars, askVars>>

ProbeUnlocks(p) ==
  /\ dispatcher = p
  /\ dispatcher' = Free
  /\ UNCHANGED <<queueVars, active, configured, workerVars, controlVars,
                 destinationVars, askVars>>

SaveSettings(a) ==
  /\ a # configured
  /\ configured' = a
  /\ UNCHANGED <<queueVars, dispatcher, active, workerVars, controlVars,
                 destinationVars, askVars>>

\* The destination comes to the end of an utterance, or skips or clears it.
UtteranceEnds(a, i) ==
  /\ i \in sounding[a]
  /\ sounding' = [sounding EXCEPT ![a] = @ \ {i}]
  /\ unconfirmed' = unconfirmed \cap Sounding'
  /\ UNCHANGED <<queueVars, runtimeVars, workerVars, controlVars, wire,
                 accepted, askVars>>

-----------------------------------------------------------------------------
QueueStep ==
  \/ \E status \in {"skipped", "blocked"} : EnqueueRejected(status)
  \/ EnqueueAccepted
  \/ \E i \in Ids : RemoveItem(i)
  \/ \E i \in Ids : DismissHistoryItem(i)
  \/ DismissHistory
  \/ \E i \in Ids : RetryExhaustedItem(i)

WorkerStep(w) ==
  \/ WorkerFindsControl(w)
  \/ WorkerPassesBarrier(w)
  \/ WorkerStops(w)
  \/ WorkerReserves(w)
  \/ WorkerSelects(w)
  \/ WorkerSelectFails(w)
  \/ SpeakAccepted(w)
  \/ SpeakRefused(w)
  \/ SpeakUncertain(w)
  \/ PlaybackCompleted(w)
  \/ PlaybackUnconfirmed(w)
  \/ WorkerReconciles(w)
  \/ SettleCompleted(w)
  \/ SettleUnconfirmed(w)
  \/ SettleWithRetry(w)
  \/ SettleFailed(w)
  \/ ActivateScheduledRetry(w)
  \/ DropPlayback(w)

ControlStep(c) ==
  \/ LockControl(c)
  \/ LockControlFails(c)
  \/ RemoteControlSucceeds(c)
  \/ RemoteControlFails(c)
  \/ ApplyControl(c)
  \/ CancelControl(c)

SurroundingStep ==
  \/ \E p \in Probes : ProbeLocks(p) \/ ProbeUnlocks(p)
  \/ \E a \in Adapters : SaveSettings(a)
  \/ \E a \in Adapters, i \in Ids : UtteranceEnds(a, i)

Next ==
  \/ QueueStep
  \/ \E w \in Workers : WorkerStep(w)
  \/ \E c \in Controls : ControlStep(c)
  \/ \E c \in Controls, cmd \in Commands : BeginControl(c, cmd)
  \/ SurroundingStep

Spec == Init /\ [][Next]_vars

(***************************************************************************)
(* A spawned task goes on until it stops, every network call it awaits has *)
(* a timeout, and a playback is tracked for five minutes at most.  tokio's *)
(* mutex serves its waiters in order, so a waiter for the dispatch lock is *)
(* not overtaken for ever: the steps that take it are strongly fair.       *)
(* Chat, users, settings and the destination owe nothing.                  *)
(***************************************************************************)
WorkerTakesLock(w) ==
  \/ WorkerFindsControl(w)
  \/ WorkerStops(w)
  \/ WorkerReserves(w)
  \/ PlaybackCompleted(w)
  \/ PlaybackUnconfirmed(w)

ControlTakesLock(c) == LockControl(c) \/ LockControlFails(c)

Fairness ==
  /\ \A w \in Workers : WF_vars(WorkerStep(w)) /\ SF_vars(WorkerTakesLock(w))
  /\ \A c \in Controls : WF_vars(ControlStep(c)) /\ SF_vars(ControlTakesLock(c))
  /\ \A p \in Probes : WF_vars(ProbeUnlocks(p))

FairSpec == Spec /\ Fairness

-----------------------------------------------------------------------------
(***************************************************************************)
(* Properties.                                                             *)
(***************************************************************************)
Running(w) == wpc[w] # "idle"

\* The worker has reserved a request and not yet settled it.
Owns(w) == wpc[w] \in {"reserved", "speaking", "playing", "reconcile", "settle"}

\* No two worker tasks ever run, and is_processing says whether one does:
\* a second one would send two utterances at a time.
SingleWorker ==
  /\ \A w1, w2 \in Workers : Running(w1) /\ Running(w2) => w1 = w2
  /\ isProcessing = (\E w \in Workers : Running(w))

\* Whenever the queue may be worked on and its front item is ready, a worker
\* task runs.  Removing an item, clearing and pausing never claim one, so this
\* rests on where the item in flight and the scheduled retry can be.
NoLostWakeup == WorkWaiting => isProcessing

\* The barrier counts the controls between begin_control and their end, on
\* success, on a failed send and on a failed selection alike.
ControlsCounted ==
  controlsInProgress = Cardinality({c \in Controls : cpc[c] # "idle"})

\* An id is in one place: pending, in flight or history, and once in it.
UniqueIds ==
  LET current == IF inFlight = NoItem THEN <<>> ELSE <<inFlight>>
      all == current \o pending \o history
  IN  \A j, k \in 1..Len(all) : all[j].id = all[k].id => j = k

\* pending and in flight together respect the limit, also when a retry puts
\* an item back in front and when a user brings one back from history.
WithinLimits ==
  /\ Len(pending) + InFlightCount(inFlight) <= QueueLimit
  /\ Len(history) <= HistoryLimit

\* The item shown as speaking is always the one a running worker will settle.
InFlightIsOwned ==
  inFlight # NoItem =>
    \E w \in Workers : Owns(w) /\ request[w] = inFlight.id

\* A destination takes an utterance at most once for each time it was asked
\* for, by the chat message or by an explicit retry: the automatic retry never
\* repeats one that may have been delivered.
SpokenOncePerAsk == \A i \in Ids : accepted[i] <= 1

\* A request is tried at most twice before the user has to ask again.
RetryBudget == \A i \in Ids : tries[i] <= 2

\* While a control is being carried out, an utterance that plays is at the
\* destination the control is sent to, whatever was saved meanwhile.
ControlReachesPlayback ==
  \A c \in Controls, w \in Workers :
    /\ cpc[c] \in {"remote", "apply"}
    /\ wpc[w] \in {"playing", "reconcile", "settle"}
    /\ result[w] \in {"none", "completed", "unconfirmed"}
    => target[c] = adapter[w]

\* Every utterance that sounds is the one the worker waits for, or one the
\* user was told may still be sounding.  A cancelled one is waited for too.
PlaybackAccounted ==
  \A a \in Adapters : \A i \in sounding[a] :
    \/ i \in unconfirmed
    \/ \E w \in Workers : wpc[w] = "playing" /\ request[w] = i /\ adapter[w] = a

\* Outside the application of a control, the pause state last sent to a
\* destination is the queue's own.
WireAgrees ==
  (\A c \in Controls : cpc[c] # "apply") =>
    wire \in {"unknown", IF paused THEN "paused" ELSE "running"}

\* No destination takes a queued utterance while the queue is paused.
PausedSilence ==
  [][paused => \A i \in Ids : accepted'[i] <= accepted[i]]_vars

\* No talk arrives between the moment a control has the destination and the
\* moment its effect on the queue is applied.
ControlExcludesTalk ==
  [][(\E c \in Controls : cpc[c] \in {"remote", "apply"}) =>
       \A i \in Ids : accepted'[i] <= accepted[i]]_vars

\* A control meets the item that was in flight when it began, or none: no
\* later item starts behind a skip that waits for the lock.
NothingStartsBehindControl ==
  [][(\E c \in Controls : cpc[c] # "idle") =>
       inFlight'.id \in {inFlight.id, 0}]_vars

\* Chat messages start in the order they arrived, failures and automatic
\* retries included; only an explicit retry goes to the end.
StartsInOrder == [][lastStarted' >= lastStarted]_vars

\* What was spoken, skipped or blocked stays so: a late result of the worker
\* does not change it and no retry brings it back.
OutcomeIsFinal ==
  [][\A k \in 1..Len(history) : history[k].status # "error" =>
       /\ history[k].id \notin IdsOf(pending') \cup {inFlight'.id}
       /\ \A j \in 1..Len(history') :
            history'[j].id = history[k].id => history'[j] = history[k]]_vars

\* Once nobody pauses or controls the queue any more, every pending item
\* eventually leaves pending.
PendingDrains ==
  \A i \in Ids :
    <>[](~paused /\ controlsInProgress = 0) =>
      (i \in IdsOf(pending) ~> i \notin IdsOf(pending))

\* Every control command returns, whatever the worker and the connection
\* check do with the dispatch lock.
ControlsReturn == \A c \in Controls : cpc[c] # "idle" ~> cpc[c] = "idle"

-----------------------------------------------------------------------------
(***************************************************************************)
(* The inductive invariant behind SingleWorker, NoLostWakeup,              *)
(* InFlightIsOwned and the two properties about silence.                   *)
(***************************************************************************)

\* The dispatch lock is held by exactly the task whose program counter is
\* inside the section it protects.
LockInv ==
  /\ \A w \in Workers : dispatcher = w <=> wpc[w] \in {"reserved", "speaking"}
  /\ \A c \in Controls : dispatcher = c <=> cpc[c] \in {"remote", "apply", "cancel"}

\* A worker carries a request from the reservation to the end of the iteration.
RequestInv ==
  \A w \in Workers : request[w] = 0 <=> wpc[w] \in {"idle", "next", "barrier"}

\* Only the front item may be unready, and a worker sleeps to make it ready.
ScheduledInv ==
  \A k \in 1..Len(pending) : pending[k].delivery # "ready" =>
    /\ k = 1
    /\ pending[1].delivery = "retryScheduled"
    /\ \E w \in Workers : wpc[w] = "backoff" /\ request[w] = pending[1].id

\* A paused queue has no request on its way to a destination.
PausedInv ==
  paused => \A w \in Workers : wpc[w] \notin {"reserved", "speaking"}

IInv ==
  /\ TypeOK
  /\ ControlsCounted
  /\ SingleWorker
  /\ LockInv
  /\ RequestInv
  /\ InFlightIsOwned
  /\ ScheduledInv
  /\ PausedInv
  /\ NoLostWakeup

=============================================================================
