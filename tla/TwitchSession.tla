--------------------------- MODULE TwitchSession ---------------------------
(***************************************************************************)
(* The Twitch chat on top of the login (src-tauri/src/twitch:              *)
(* chat_service.rs, eventsub.rs, subscription.rs, chat_delivery.rs): one   *)
(* EventSub task per connect, owned by TwitchConnectionOwner, that         *)
(* subscribes with the credential of the login it was started for,         *)
(* refreshes it once on a 401, and reconnects until it is aborted or       *)
(* meets a terminal error.                                                 *)
(***************************************************************************)
EXTENDS TwitchAuth

\* The application starts, with or without a stored credential.
Init ==
  \E c \in {NoCred, 1} :
    /\ auth = [gen |-> 0, rev |-> 0, cred |-> c, pending |-> NoPending]
    /\ store = c
    /\ job = [a \in Actors |-> NoJob]
    /\ update = NoActor
    /\ op = [a \in Actors |-> Idle]
    /\ owner = [gen |-> 0, conn |-> NoConnection]
    /\ chat = [gen |-> 0, status |-> "Disconnected", active |-> FALSE]
    /\ calls = 0
    /\ issued = c
    /\ valid = {c} \ {NoCred}
    /\ loggedOut = NoCred
    /\ ended = 0
    /\ spoiled = {}
    /\ storeFault = FALSE
    /\ heard = 0

(***************************************************************************)
(* twitch_connect_chat and twitch_stop_chat.                               *)
(***************************************************************************)
Connect(c) ==
  /\ Call(c, "connect")
  /\ auth.cred # NoCred
  /\ Become(Put(c, [Idle EXCEPT !.pc = "connect.reserve",
                                !.login = auth.gen]), update)
  /\ UNCHANGED <<loginVars, chatVars, ghostVars>>

\* The previous connection is aborted; the new task waits for its start.
ConnectReserve(c) ==
  LET g == owner.gen + 1
      o == Aborted(Put(c, [op[c] EXCEPT !.pc = "connect.register",
                                        !.conn = g]), owner.conn)
  IN
  /\ op[c].pc = "connect.reserve"
  /\ owner' = Advanced
  /\ Become([o EXCEPT ![g] = [Idle EXCEPT !.pc = "task.wait",
                                          !.login = op[c].login]], update)
  /\ spoiled' = spoiled \cup SpoiledBy(o)
  /\ UNCHANGED <<loginVars, chat, calls, loggedOut, ended, storeFault,
                 heard>>

\* A handle that is refused takes its task with it.
ConnectRegister(c) ==
  LET g == op[c].conn
      refused == owner.gen # g \/ owner.conn # NoConnection
  IN
  /\ op[c].pc = "connect.register"
  /\ IF refused
     THEN /\ Become(Aborted(Put(c, Idle), g), update)
          /\ UNCHANGED owner
     ELSE /\ owner' = [owner EXCEPT !.conn = g]
          /\ Goto(c, "connect.publish")
  /\ UNCHANGED <<loginVars, chat, calls, ghostVars>>

ConnectPublish(c) ==
  /\ op[c].pc = "connect.publish"
  /\ chat' = Recorded(op[c].conn, "Connecting")
  /\ Goto(c, "connect.go")
  /\ UNCHANGED <<loginVars, owner, calls, ghostVars>>

ConnectGo(c) ==
  LET g == op[c].conn IN
  /\ op[c].pc = "connect.go"
  /\ Become([op EXCEPT ![c] = Idle,
                       ![g].pc = IF @ = "task.wait" THEN "task.lookup"
                                                    ELSE @], update)
  /\ UNCHANGED <<loginVars, chatVars, calls, ghostVars>>

Stop(c) ==
  LET o == Aborted(Put(c, [Idle EXCEPT !.pc = "stop.publish",
                                       !.conn = owner.gen + 1]), owner.conn)
  IN
  /\ Call(c, "stop")
  /\ owner' = Advanced
  /\ Become(o, update)
  /\ spoiled' = spoiled \cup SpoiledBy(o)
  /\ UNCHANGED <<loginVars, chat, loggedOut, ended, storeFault, heard>>

StopPublish(c) ==
  /\ op[c].pc = "stop.publish"
  /\ chat' = Recorded(op[c].conn, "Disconnected")
  /\ Finish(c)
  /\ UNCHANGED <<loginVars, owner, calls, ghostVars>>

(***************************************************************************)
(* The EventSub task of a generation.                                      *)
(***************************************************************************)
\* Steps that only move the task, and steps that publish a chat status.
Moves(g, from, to) ==
  /\ op[g].pc = from
  /\ Goto(g, to)
  /\ UNCHANGED <<loginVars, chatVars, calls, ghostVars>>

Publishes(g, from, status, to) ==
  /\ op[g].pc = from
  /\ chat' = Recorded(g, status)
  /\ Goto(g, to)
  /\ UNCHANGED <<loginVars, owner, calls, ghostVars>>

TaskLookup(g) ==
  \/ Moves(g, "task.lookup", "task.found")
  \/ "dropped" \in Faults /\ Moves(g, "task.lookup", "end.Error")

\* connection_is_current, once the broadcaster is known.
TaskFound(g) ==
  /\ op[g].pc = "task.found"
  /\ IF owner.conn = g THEN Goto(g, "task.begin") ELSE Finish(g)
  /\ UNCHANGED <<loginVars, chatVars, calls, ghostVars>>

TaskBegin(g) == Publishes(g, "task.begin", "Connecting", "task.socket")
TaskSocketFails(g) ==
  "dropped" \in Faults /\ Moves(g, "task.socket", "task.down")

\* Fault: whatever login is there is good enough.
TaskWelcomeAnyLogin(g) ==
  LET r == op[g] IN
  /\ r.pc = "task.socket"
  /\ Become(Put(g,
       IF auth.cred = NoCred THEN [r EXCEPT !.pc = "task.down"]
       ELSE [r EXCEPT !.pc = "task.send", !.gen = auth.gen, !.rev = auth.rev,
                      !.cred = auth.cred, !.second = FALSE]), update)
  /\ UNCHANGED <<loginVars, chatVars, calls, ghostVars>>

\* The welcome of a fresh socket: subscribe with the credential of the login
\* this connection was started for, and with no other.
TaskWelcome(g) ==
  LET r == op[g] IN
  /\ r.pc = "task.socket"
  /\ Become(Put(g,
       IF auth.cred = NoCred THEN [r EXCEPT !.pc = "task.down"]
       ELSE IF auth.gen # r.login THEN [r EXCEPT !.pc = "end.Disconnected"]
       ELSE [r EXCEPT !.pc = "task.send", !.gen = auth.gen, !.rev = auth.rev,
                      !.cred = auth.cred, !.second = FALSE]), update)
  /\ UNCHANGED <<loginVars, chatVars, calls, ghostVars>>

\* The answer to the subscription request: accepted, 401, 403, another
\* permanent error, or one to try again.
TaskSent(g) ==
  LET r == op[g]
      rejected == [r EXCEPT !.pc = "clear.begin", !.why = "rejected"]
      refusals == {[r EXCEPT !.pc = "end.Error"], [r EXCEPT !.pc = "task.down"],
                   rejected, IF r.second THEN rejected
                             ELSE [r EXCEPT !.pc = "task.lock"]}
  IN
  /\ r.pc = "task.send"
  /\ \/ Goto(g, "task.connected")
     \/ /\ "refused" \in Faults
        /\ \E refusal \in refusals : Become(Put(g, refusal), update)
  /\ UNCHANGED <<loginVars, chatVars, calls, ghostVars>>

\* Fault: the credential is not looked at again under the lock.
TaskLockedBlindly(g) ==
  /\ op[g].pc = "task.lock"
  /\ update = NoActor
  /\ Become(Put(g, [op[g] EXCEPT !.pc = "refresh.request"]), g)
  /\ UNCHANGED <<loginVars, chatVars, calls, ghostVars>>

\* refresh_eventsub_access_token: somebody else may have refreshed by now.
TaskLocked(g) ==
  LET r == op[g] IN
  /\ r.pc = "task.lock"
  /\ update = NoActor
  /\ IF auth.cred = NoCred THEN Goto(g, "task.down")
     ELSE IF auth.gen # r.gen THEN Goto(g, "end.Disconnected")
     ELSE IF ~Matches(r) THEN Become(Put(g, Latest(r)), update)
     ELSE Become(Put(g, [r EXCEPT !.pc = "refresh.request"]), g)
  /\ UNCHANGED <<loginVars, chatVars, calls, ghostVars>>

TaskConnected(g) == Publishes(g, "task.connected", "Connected", "task.live")

\* A frame is read, on the only socket or on the old one of a handover.
TaskFrame(g) ==
  /\ heard' = 0
  /\ \/ op[g].pc = "task.live" /\ Goto(g, "task.frame")
     \/ op[g].pc = "task.handover" /\ Goto(g, "task.overlap")
  /\ UNCHANGED <<loginVars, chatVars, calls, loggedOut, ended, spoiled,
                 storeFault>>

\* Fault: the message is delivered whoever owns the connection.
DispatchAlways(g) ==
  /\ heard' = g
  /\ \/ op[g].pc = "task.frame" /\ Goto(g, "task.live")
     \/ op[g].pc = "task.overlap" /\ Goto(g, "task.handover")
  /\ UNCHANGED <<loginVars, chatVars, calls, loggedOut, ended, spoiled,
                 storeFault>>

\* dispatch_chat_message, behind the owner's mutex.
Dispatch(g) ==
  /\ heard' = IF owner.conn = g THEN g ELSE heard
  /\ \/ op[g].pc = "task.frame" /\ Goto(g, "task.live")
     \/ op[g].pc = "task.overlap" /\ Goto(g, "task.handover")
  /\ UNCHANGED <<loginVars, chatVars, calls, loggedOut, ended, spoiled,
                 storeFault>>

TaskRevoked(g) ==
  \E frame \in {"task.frame", "task.overlap"},
     terminal \in {"end.AuthRequired", "end.Error"} :
       "refused" \in Faults /\ Moves(g, frame, terminal)

\* Twitch asks for a handover; the old socket is read until the new welcome.
TaskSwitch(g) ==
  \/ "dropped" \in Faults /\ Moves(g, "task.frame", "task.switch")
  \/ Publishes(g, "task.switch", "Reconnecting", "task.handover")
TaskSwitched(g) == Moves(g, "task.handover", "task.connected")

TaskDrops(g) ==
  /\ "dropped" \in Faults
  /\ \/ Moves(g, "task.live", "task.down")
     \/ Moves(g, "task.handover", "task.down")
TaskDown(g) == Publishes(g, "task.down", "Reconnecting", "task.sleep")
TaskAwakes(g) == Moves(g, "task.sleep", "task.begin")

TaskEnd(g) ==
  \E terminal \in {<<"end.Error", "Error">>,
                   <<"end.AuthRequired", "AuthRequired">>,
                   <<"end.Disconnected", "Disconnected">>} :
    Publishes(g, terminal[1], terminal[2], "idle")

(***************************************************************************)
(* The process ends and the application is started again.                  *)
(***************************************************************************)
Restart ==
  /\ "restart" \in Faults /\ calls < MaxCalls
  /\ calls' = calls + 1
  /\ auth' = [gen |-> 0, rev |-> 0, cred |-> store, pending |-> NoPending]
  /\ job' = [a \in Actors |-> NoJob]
  /\ update' = NoActor
  /\ op' = [a \in Actors |-> Idle]
  /\ owner' = [gen |-> 0, conn |-> NoConnection]
  /\ chat' = [gen |-> 0, status |-> "Disconnected", active |-> FALSE]
  /\ ended' = 0 /\ heard' = 0
  /\ spoiled' = spoiled \cup ({store} \ (valid \cup {NoCred}))
  /\ UNCHANGED <<store, issued, valid, loggedOut, storeFault>>

SessionCall(c) == LoginCall(c) \/ Connect(c) \/ Stop(c)

SessionStep(c) ==
  \/ LoginStep(c) \/ DisconnectStep(c)
  \/ ConnectReserve(c) \/ ConnectRegister(c) \/ ConnectPublish(c)
  \/ ConnectGo(c) \/ StopPublish(c)

TaskStep(g) ==
  \/ TaskLookup(g) \/ TaskFound(g) \/ TaskBegin(g) \/ TaskSocketFails(g)
  \/ TaskWelcome(g) \/ TaskSent(g) \/ TaskLocked(g) \/ TaskConnected(g)
  \/ TaskFrame(g) \/ Dispatch(g) \/ TaskRevoked(g) \/ TaskSwitch(g)
  \/ TaskSwitched(g) \/ TaskDrops(g) \/ TaskDown(g) \/ TaskAwakes(g)
  \/ TaskEnd(g)

Next ==
  \/ \E c \in Commands : SessionCall(c) \/ SessionStep(c)
  \/ \E g \in Tasks : TaskStep(g)
  \/ \E a \in Actors : RefreshStep(a) \/ ClearStep(a) \/ JobStep(a)
  \/ Restart

Spec == Init /\ [][Next]_vars

(***************************************************************************)
(* Fairness.  Every Twitch request has a timeout of 15 seconds (http.rs),  *)
(* blocking jobs end, and tokio's mutex serves its waiters in turn: hence  *)
(* strong fairness for those who wait for the update lock.  Nothing        *)
(* obliges a user to issue a command, or Twitch to send a frame.           *)
(***************************************************************************)
WaitsForLock(c) == ValidateLocked(c) \/ DisconnectLocked(c)

Fairness ==
  /\ \A c \in Commands :
       WF_vars(SessionStep(c)) /\ SF_vars(WaitsForLock(c))
  /\ \A a \in Actors : WF_vars(RefreshStep(a) \/ ClearStep(a))
  /\ \A a \in Actors : WF_vars(JobStep(a))

FairSpec == Spec /\ Fairness

(***************************************************************************)
(* Properties.                                                             *)
(***************************************************************************)
\* Once a clear has reported success, no credential issued before it is
\* installed or in the keyring again, whatever poll, refresh, validation or
\* save was under way (auth_store.rs, save_if_current_sync).
LoggedOutStaysOut ==
  \A c \in {auth.cred, store} : c = NoCred \/ c > loggedOut

\* A late answer or save never puts an older credential over a newer one, in
\* memory or in the keyring (auth_service.rs, persist_credential_rotation).
\* Only a restart, which counts from zero again, installs what was stored.
CredentialsOnlyAdvance ==
  [][/\ \/ auth'.cred = NoCred \/ auth'.cred >= auth.cred
        \/ auth'.gen < auth.gen \/ auth'.rev < auth.rev
     /\ store' = NoCred \/ store' >= store]_vars

\* A refresh token is presented only while Twitch still takes it: of all who
\* hold the same one, the update lock lets one through and the others find
\* its successor (subscription.rs, refresh_eventsub_access_token).  Spent
\* tokens whose successor was lost are the exception.
RefreshTokenSpentOnce ==
  \A a \in Actors :
    op[a].pc = "refresh.request" => op[a].cred \in valid \cup spoiled

\* A device code is polled by one command at a time (auth_service.rs, poll
\* and the polling flag): two would each spend it, or slow each other down.
OnePollPerCode ==
  \A c, d \in Commands :
    (/\ {op[c].pc, op[d].pc} \subseteq {"poll.reply", "poll.check"}
     /\ op[c].gen = op[d].gen) => c = d

\* Nobody is in the middle of something that touches the credential, or of
\* ending a task.
Quiet ==
  /\ \A c \in Commands : op[c].pc = "idle"
  /\ \A g \in Tasks : op[g].pc \notin
       {"refresh.request", "refresh.granted", "refresh.check",
        "refresh.save", "clear.begin", "clear.store", "clear.cancel"}
          \cup Ends
  /\ \A a \in Actors : job[a].state \notin {"queued", "writing", "written"}

\* At rest, and unless the keyring failed, the installed credential is the
\* one a restart will find (auth_service.rs, persist_credential_rotation).
InstalledIsSaved ==
  (Quiet /\ ~storeFault /\ auth.cred # NoCred) => store = auth.cred

\* At rest, the refresh token that is kept is one that Twitch still takes
\* (oauth.rs, refresh_and_validate; docs/03-twitch-ingestion.md).
RefreshIsKept ==
  (Quiet /\ auth.cred # NoCred) => auth.cred \in valid

\* A task that was started and has not ended.
Runs(g) == op[g].alive /\ op[g].pc \notin {"idle", "task.wait"}

\* Two EventSub tasks never run side by side (chat_service.rs, reserve).
OneLiveTask == \A g, h \in Tasks : Runs(g) /\ Runs(h) => g = h

\* No message reaches the UI and the speech queue from a connection that the
\* retained status has moved past, or has reported as ended (runtime.rs,
\* chat; app_events/mod.rs, record_twitch_status).
NoChatBehindStatus ==
  [][heard' \notin {0, heard} =>
       /\ heard' >= chat.gen
       /\ heard' = chat.gen => chat.status \in LiveStatuses]_vars

\* The connection of the retained status exists, and its task runs.
HasTask == owner.conn = chat.gen /\ Runs(chat.gen)

\* At rest, a chat status that says connected, connecting or reconnecting
\* belongs to a connection that exists and whose task runs (chat_service.rs,
\* connect and stop; app_events/mod.rs, record_twitch_status).  The code keeps
\* this for as long as nobody logs in anew, and not beyond: a clear cancels the
\* chat of whoever owns it, and publishes no chat status (auth_service.rs,
\* clear_credentials_if_current), so a login that gets in before it is left
\* with the status of a connection that is gone.
StatusWhileLoggedIn ==
  (Quiet /\ chat.status \in LiveStatuses /\ auth.cred # NoCred) => HasTask

\* Where a task has a subscription.
Subscribed == {"task.connected", "task.live", "task.frame", "task.switch",
               "task.handover", "task.overlap"}

\* After a disconnect has cancelled the chat, no subscription made under the
\* login it ended is read again, whatever connect was under way
\* (subscription.rs, create_chat_message_subscription).
LogoutEndsChat ==
  \A g \in Tasks : op[g].alive /\ op[g].pc \in Subscribed =>
    op[g].login >= ended

\* Every command returns: whoever holds the update lock gives it back, also
\* when its task is aborted, and nobody waits for a job that does not end
\* (auth_store.rs, lock_credential_update).
CommandsReturn ==
  \A c \in Commands : op[c].pc # "idle" ~> op[c].pc = "idle"
=============================================================================
