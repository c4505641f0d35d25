------------------------------ MODULE EventSub ------------------------------
(* The supervisor of one chat connection (twitch/eventsub.rs): the session   *)
(* loop, the handover to a new WebSocket, the back-off between sessions, and *)
(* the delivery of a message through the window of known ids and the         *)
(* generation check of chat_delivery.rs.  One action goes from one await of  *)
(* the task to the next.  Twitch is the environment; the time-outs of the    *)
(* code (keep-alive, handshake, handover) may fire whenever they are armed,  *)
(* and only the two durations that are compared with one another's effects,  *)
(* CacheTtl and StableAfter, are measured on the clock.                      *)
EXTENDS AppEvents, MessageDedupe

CONSTANTS StableAfter, \* EVENTSUB_BACKOFF_RESET_STABLE_DURATION, in ticks
          MaxFrames,   \* bound on the frames waiting on a socket
          Budgets      \* what Twitch, the user and the clock may do in a behaviour

ASSUME EventSubAssumption == StableAfter \in Nat \ {0} /\ MaxFrames \in Nat \ {0}

VARIABLES owner,   \* TwitchConnectionOwner: the generation and the registered task's
          task,    \* the supervisor of the newest connection
          hand,    \* per generation: the message between the window and the dispatch
          old,     \* frames waiting on the socket in use
          next,    \* the socket a handover opens, and the frames waiting on it
          twitch,  \* ids sent, the first of the connection, whether it subscribed
          now,     \* the monotonic clock
          left,    \* what is left of the budget
          emitted, \* history: the messages passed to the window, in order
          broken   \* history: a socket of this connection was given up unread

eventSubVars == <<owner, task, hand, old, next, twitch, now, left, emitted, broken>>
taskVars == <<owner, task, hand, old, next, twitch, emitted, broken>>

Never  == -1
NoHand == 0
NoNext == [phase |-> "none", frames |-> <<>>]

NewTask(g) == [generation |-> g, stage |-> "start", cache |-> NewCache,
               attempts |-> 0, established |-> Never, wait |-> 0]

EventSubInit ==
    /\ owner = [generation |-> 0, active |-> 0]
    /\ task = [NewTask(0) EXCEPT !.stage = "ended"]
    /\ hand = [g \in Generations |-> NoHand]
    /\ old = <<>>
    /\ next = NoNext
    /\ twitch = [sent |-> 0, before |-> 0, subscribed |-> FALSE]
    /\ now = 0
    /\ left \in Budgets
    /\ emitted = <<>>
    /\ broken = FALSE

Frame(kind) == [kind |-> kind, id |-> 0]

Spend(what) == left[what] > 0 /\ left' = [left EXCEPT ![what] = @ - 1]

-----------------------------------------------------------------------------
(* The task.                                                                 *)

(* The task of the newest generation runs on: it is not aborted, and it has  *)
(* said and delivered what its last step left it with.                       *)
Runs(stage) ==
    /\ task.stage = stage
    /\ owner.active = task.generation
    /\ saying[task.generation] = Silent
    /\ hand[task.generation] = NoHand

Says(status, active) == Say(task.generation, status, active)

Keeps == UNCHANGED <<owner, retained, listening, events, now>>
KeepsSockets == UNCHANGED <<old, next, twitch, broken>>
KeepsHands == UNCHANGED <<hand, emitted>>

DropSockets ==
    /\ old' = <<>>
    /\ next' = NoNext
    /\ twitch' = [twitch EXCEPT !.subscribed = FALSE]
    /\ broken' = TRUE

(* retry_backoff_seconds.                                                    *)
RetryBackoff(attempt) ==
    CASE attempt <= 1 -> 2
      [] attempt = 2  -> 5
      [] attempt = 3  -> 10
      [] OTHER        -> 30

WasStable == task.established # Never /\ now - task.established >= StableAfter

(* A failed session: next_delay_after_failure_at, the status, the sleep.     *)
SessionFails ==
    /\ LET attempts == (IF WasStable THEN 0 ELSE task.attempts) + 1
       IN  task' = [task EXCEPT !.stage = "sleeping", !.attempts = attempts,
                                !.wait = RetryBackoff(attempts), !.established = Never]
    /\ Says("reconnecting", 0)
    /\ DropSockets
    /\ KeepsHands
    /\ Keeps

(* A terminal error: revocation, a refused subscription, a replaced login.   *)
SessionEnds(status) ==
    /\ task' = [task EXCEPT !.stage = "ended"]
    /\ Says(status, 0)
    /\ DropSockets
    /\ KeepsHands
    /\ Keeps

StartSession ==
    /\ Runs("start")
    /\ task' = [task EXCEPT !.stage = "connecting"]
    /\ Says("connecting", 0)
    /\ KeepsSockets /\ KeepsHands /\ Keeps /\ UNCHANGED left

(* Twitch welcomes a new connection first thing.                             *)
SocketOpens ==
    /\ Runs("connecting")
    /\ task' = [task EXCEPT !.stage = "session"]
    /\ old' = <<Frame("welcome")>>
    /\ UNCHANGED <<next, twitch, broken, saying, left>> /\ KeepsHands /\ Keeps

ConnectFails == Runs("connecting") /\ Spend("breaks") /\ SessionFails

(* No keep-alive and no notification before the deadline, or a frame that    *)
(* cannot be read.                                                           *)
KeepaliveExpires == Runs("session") /\ Spend("breaks") /\ SessionFails

WakesUp ==
    /\ Runs("sleeping")
    /\ task' = [task EXCEPT !.stage = "start"]
    /\ KeepsSockets /\ KeepsHands /\ Keeps /\ UNCHANGED <<saying, left>>

(* process_eventsub_frame on a notification: the message goes through the    *)
(* window, and a new one is in the task's hand until it is dispatched.       *)
Hears(id) ==
    /\ task' = [task EXCEPT !.cache = Insert(@, id, now)]
    /\ hand' = IF IsKnown(task.cache, id, now) THEN hand
               ELSE [hand EXCEPT ![task.generation] = id]

(* dispatch_chat_message, under the connection's lock: it may come after the *)
(* task has been replaced.                                                   *)
Dispatch(g) ==
    /\ hand[g] # NoHand
    /\ hand' = [hand EXCEPT ![g] = NoHand]
    /\ LET message == [generation |-> g, id |-> hand[g]]
       IN  IF owner.active = g
           THEN /\ events' = Heard("chat", message)
                /\ emitted' = Append(emitted, [generation |-> g, id |-> hand[g], at |-> now,
                                               listened |-> "chat" \in listening])
           ELSE UNCHANGED <<events, emitted>>
    /\ UNCHANGED <<owner, task, old, next, twitch, now, left, broken,
                   retained, saying, listening>>

OnOld(kind) == old # <<>> /\ Head(old).kind = kind

ReadsOld == old' = Tail(old) /\ UNCHANGED <<next, twitch, broken, saying, left>>

SessionWelcomed ==
    /\ Runs("session") /\ OnOld("welcome")
    /\ task' = [task EXCEPT !.stage = "subscribing"]
    /\ ReadsOld /\ KeepsHands /\ Keeps

(* complete_eventsub_welcome.                                                *)
WelcomeCompleted(subscribes) ==
    /\ task' = [task EXCEPT !.stage = "session", !.established = now]
    /\ Says("connected", task.generation)
    /\ twitch' = [twitch EXCEPT !.subscribed = @ \/ subscribes]

Subscribed ==
    /\ Runs("subscribing")
    /\ WelcomeCompleted(TRUE)
    /\ UNCHANGED <<old, next, broken, left>> /\ KeepsHands /\ Keeps

SubscriptionFails == Runs("subscribing") /\ Spend("breaks") /\ SessionFails

SubscriptionRefused ==
    /\ Runs("subscribing") /\ Spend("breaks")
    /\ \E status \in {"authRequired", "error", "disconnected"} : SessionEnds(status)

SessionHears ==
    /\ Runs("session") /\ OnOld("chat")
    /\ Hears(Head(old).id)
    /\ ReadsOld /\ Keeps /\ UNCHANGED emitted

SocketCloses ==
    /\ Runs("session") \/ Runs("handover")
    /\ OnOld("closed")
    /\ UNCHANGED left
    /\ SessionFails

(* A revocation ends the connection wherever it is read, in the drain too.   *)
Revoked ==
    /\ Runs("session") \/ Runs("handover") \/ Runs("draining")
    /\ OnOld("revoked")
    /\ UNCHANGED left
    /\ \E status \in {"authRequired", "error"} : SessionEnds(status)

-----------------------------------------------------------------------------
(* The handover, asked for by a session_reconnect frame.                     *)

HandoverBegins ==
    /\ Runs("session") /\ OnOld("reconnect")
    /\ task' = [task EXCEPT !.stage = "handover", !.established = Never]
    /\ next' = [NoNext EXCEPT !.phase = "opening"]
    /\ old' = Tail(old)
    /\ Says("reconnecting", 0)
    /\ UNCHANGED <<twitch, broken, left>> /\ KeepsHands /\ Keeps

NextOpens ==
    /\ Runs("handover") /\ next.phase = "opening"
    /\ next' = [next EXCEPT !.phase = "open"]
    /\ UNCHANGED <<task, old, twitch, broken, saying, left>> /\ KeepsHands /\ Keeps

(* The new socket is lost, or sends what it must not; the old one is kept    *)
(* until the deadline.                                                       *)
NextFails ==
    /\ Runs("handover") /\ next.phase \in {"opening", "open"}
    /\ Spend("breaks")
    /\ next' = [NoNext EXCEPT !.phase = "failed"]
    /\ broken' = TRUE
    /\ UNCHANGED <<task, old, twitch, saying>> /\ KeepsHands /\ Keeps

(* The old socket is read in every phase of the handover, and in the drain.  *)
OldHears ==
    /\ Runs("handover") \/ Runs("draining")
    /\ OnOld("chat")
    /\ Hears(Head(old).id)
    /\ ReadsOld /\ Keeps /\ UNCHANGED emitted

(* Asked to move again meanwhile: logged, and nothing else.                  *)
OldIgnored ==
    /\ Runs("handover") \/ Runs("draining")
    /\ OnOld("reconnect")
    /\ ReadsOld /\ KeepsHands /\ Keeps /\ UNCHANGED task

OnNext(kind) == next.frames # <<>> /\ Head(next.frames).kind = kind

(* A terminal error does not wait for the deadline.                          *)
NextRevoked ==
    /\ Runs("handover") /\ OnNext("revoked")
    /\ UNCHANGED left
    /\ \E status \in {"authRequired", "error"} : SessionEnds(status)

NextHears ==
    /\ Runs("handover") /\ OnNext("chat")
    /\ Hears(Head(next.frames).id)
    /\ next' = [next EXCEPT !.frames = Tail(@)]
    /\ UNCHANGED <<old, twitch, broken, saying, left, emitted>> /\ Keeps

(* The new welcome: what already waits on the old socket is drained first.   *)
NextWelcomed ==
    /\ Runs("handover") /\ OnNext("welcome")
    /\ next' = [next EXCEPT !.frames = Tail(@)]
    /\ task' = [task EXCEPT !.stage = "draining"]
    /\ UNCHANGED <<old, twitch, broken, saying, left>> /\ KeepsHands /\ Keeps

\* Fault: the old socket is replaced as soon as the new one welcomes.
NotDrained == TRUE

Drained == old = <<>> \/ OnOld("closed")

(* socket = new_socket; the subscription goes with it.                       *)
OldReplaced ==
    /\ Runs("draining") /\ Drained
    /\ WelcomeCompleted(FALSE)
    /\ old' = next.frames
    /\ next' = NoNext
    /\ UNCHANGED <<broken, left>> /\ KeepsHands /\ Keeps

(* The deadline falls into the drain: the rest of the old socket is unread.  *)
DrainCutShort ==
    /\ Runs("draining") /\ ~Drained /\ Spend("breaks")
    /\ WelcomeCompleted(FALSE)
    /\ old' = next.frames
    /\ next' = NoNext
    /\ broken' = TRUE
    /\ KeepsHands /\ Keeps

(* A frame of the old socket that cannot be read takes the new one with it.  *)
DrainFails == Runs("draining") /\ ~OnOld("closed") /\ Spend("breaks") /\ SessionFails

(* The deadline, or a frame of the old socket that cannot be read.           *)
HandoverExpires == Runs("handover") /\ Spend("breaks") /\ SessionFails

-----------------------------------------------------------------------------
(* The commands.  Reservation and registration of a connection are one step  *)
(* here; TwitchSession takes them apart.                                     *)

LeavesSockets ==
    /\ old' = <<>> /\ next' = NoNext
    /\ twitch' = [sent |-> twitch.sent, before |-> twitch.sent, subscribed |-> FALSE]

Connect ==
    /\ owner.generation < MaxGeneration /\ Spend("connects")
    /\ LET g == owner.generation + 1
       IN  owner' = [generation |-> g, active |-> g] /\ task' = NewTask(g)
    /\ LeavesSockets
    /\ broken' = FALSE
    /\ UNCHANGED <<hand, emitted, now, retained, saying, listening, events>>

(* TwitchConnectionOwner::cancel, then the status of the new generation.     *)
Stop ==
    /\ owner.generation < MaxGeneration /\ Spend("stops")
    /\ LET g == owner.generation + 1
       IN  owner' = [generation |-> g, active |-> 0] /\ Say(g, "disconnected", 0)
    /\ task' = [task EXCEPT !.stage = "ended"]
    /\ LeavesSockets
    /\ UNCHANGED <<hand, emitted, now, broken, retained, listening, events>>

-----------------------------------------------------------------------------
(* Twitch and the clock.                                                     *)

Environment == UNCHANGED <<owner, task, hand, now, emitted, broken>> /\ UNCHANGED eventVars

CanCarry(frames) ==
    /\ Len(frames) < MaxFrames
    /\ \A i \in DOMAIN frames : frames[i].kind \notin {"closed", "revoked"}

OldIsLive == task.stage \in {"session", "handover", "draining"} /\ CanCarry(old)
NextIsLive == next.phase = "open" /\ CanCarry(next.frames)

(* A frame on the socket in use or on the one a handover opens.              *)
Carries(frame) ==
    \/ /\ OldIsLive
       /\ old' = Append(old, frame) /\ UNCHANGED next
    \/ /\ NextIsLive
       /\ next' = [next EXCEPT !.frames = Append(@, frame)] /\ UNCHANGED old

TwitchSends ==
    /\ twitch.subscribed /\ Spend("messages")
    /\ twitch' = [twitch EXCEPT !.sent = @ + 1]
    /\ Carries([kind |-> "chat", id |-> twitch.sent + 1])
    /\ Environment

TwitchSendsAgain ==
    /\ twitch.subscribed /\ Spend("resends")
    /\ \E id \in twitch.before + 1 .. twitch.sent : Carries([kind |-> "chat", id |-> id])
    /\ Environment /\ UNCHANGED twitch

TwitchAsksToMove ==
    /\ twitch.subscribed /\ Spend("handovers") /\ OldIsLive
    /\ old' = Append(old, Frame("reconnect"))
    /\ Environment /\ UNCHANGED <<next, twitch>>

TwitchCloses ==
    /\ twitch.subscribed /\ Spend("breaks") /\ OldIsLive
    /\ old' = Append(old, Frame("closed"))
    /\ Environment /\ UNCHANGED <<next, twitch>>

TwitchRevokes ==
    /\ twitch.subscribed /\ Spend("breaks")
    /\ Carries(Frame("revoked"))
    /\ Environment /\ UNCHANGED twitch

TwitchWelcomesNext ==
    /\ NextIsLive /\ task.stage = "handover"
    /\ \A i \in DOMAIN next.frames : next.frames[i].kind # "welcome"
    /\ next' = [next EXCEPT !.frames = Append(@, Frame("welcome"))]
    /\ Environment /\ UNCHANGED <<old, twitch, left>>

(* A message is dispatched in the tick it was heard in.                      *)
Tick ==
    /\ Spend("ticks")
    /\ \A g \in Generations : hand[g] = NoHand
    /\ now' = now + 1
    /\ UNCHANGED taskVars /\ UNCHANGED eventVars

TaskStep ==
    \/ StartSession \/ SocketOpens \/ ConnectFails \/ KeepaliveExpires \/ WakesUp
    \/ SessionWelcomed \/ Subscribed \/ SubscriptionFails \/ SubscriptionRefused
    \/ SessionHears \/ SocketCloses \/ Revoked
    \/ HandoverBegins \/ NextOpens \/ NextFails \/ OldHears \/ OldIgnored
    \/ NextHears \/ NextRevoked \/ NextWelcomed
    \/ OldReplaced \/ DrainCutShort \/ DrainFails \/ HandoverExpires
    \/ \E g \in Generations : Dispatch(g)

TwitchStep ==
    \/ TwitchSends \/ TwitchSendsAgain \/ TwitchAsksToMove
    \/ TwitchCloses \/ TwitchRevokes \/ TwitchWelcomesNext \/ Tick

CommandStep == Connect \/ Stop
=============================================================================
