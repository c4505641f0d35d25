----------------------------- MODULE TwitchAuth -----------------------------
(***************************************************************************)
(* The Twitch login (src-tauri/src/twitch: auth_service.rs, auth_store.rs, *)
(* oauth.rs): device authorization, validation, the refresh that Login and *)
(* the EventSub task share, and the two ways to drop a credential.         *)
(*                                                                         *)
(* The auth mutex is never held across an await, so each of its sections   *)
(* is an action, guarded by the generation and revision read before.       *)
(* Twitch is external: it issues credentials, and takes a refresh token    *)
(* once.                                                                   *)
(***************************************************************************)
EXTENDS TwitchState

\* After a refresh, the EventSub task continues with whatever credential its
\* own login session has now: latest_eventsub_credentials.
Latest(r) ==
  IF auth.gen = r.login /\ auth.cred # NoCred
  THEN [r EXCEPT !.pc = "task.send", !.gen = auth.gen, !.rev = auth.rev,
                 !.cred = auth.cred, !.fresh = NoCred, !.second = TRUE,
                 !.why = "none"]
  ELSE [r EXCEPT !.pc = "end.Disconnected"]

(***************************************************************************)
(* Device authorization.                                                   *)
(***************************************************************************)
StartAuth(c) ==
  /\ Call(c, "start")
  /\ auth' = [Invalidated(auth) EXCEPT !.rev = @ + 1]
  /\ Become(Put(c, [Idle EXCEPT !.pc = "start.reply", !.gen = auth.gen + 1]),
            update)
  /\ UNCHANGED <<store, job, chatVars, issued, valid, ghostVars>>

\* Twitch refuses a device code or issues one; another operation may have
\* made this one stale in the meantime.
StartReply(c) ==
  /\ op[c].pc = "start.reply"
  /\ \/ auth' = auth
     \/ /\ auth.gen = op[c].gen
        /\ auth' = [auth EXCEPT !.cred = NoCred,
                       !.pending = [gen |-> op[c].gen, polling |-> FALSE]]
  /\ Finish(c)
  /\ UNCHANGED <<store, job, chatVars, calls, issued, valid, ghostVars>>

\* Fault: a poll in flight is not seen.
PollAgain(c) ==
  /\ Call(c, "poll")
  /\ auth.pending # NoPending
  /\ auth' = [auth EXCEPT !.pending.polling = TRUE]
  /\ Become(Put(c, [Idle EXCEPT !.pc = "poll.reply",
                                !.gen = auth.pending.gen]), update)
  /\ UNCHANGED <<store, job, chatVars, issued, valid, ghostVars>>

PollAuth(c) ==
  /\ Call(c, "poll")
  /\ auth.pending # NoPending /\ ~auth.pending.polling
  /\ auth' = [auth EXCEPT !.pending.polling = TRUE]
  /\ Become(Put(c, [Idle EXCEPT !.pc = "poll.reply",
                                !.gen = auth.pending.gen]), update)
  /\ UNCHANGED <<store, job, chatVars, issued, valid, ghostVars>>

PollGranted(c) ==
  /\ op[c].pc = "poll.reply"
  /\ issued < MaxToken
  /\ issued' = issued + 1
  /\ valid' = valid \cup {issued + 1}
  /\ IF PendingIsCurrent(op[c].gen)
     THEN Become(Put(c, [op[c] EXCEPT !.pc = "poll.check",
                                      !.fresh = issued + 1]), update)
     ELSE Finish(c)
  /\ UNCHANGED <<auth, store, job, chatVars, calls, ghostVars>>

\* authorization_pending, slow_down or a failed request: poll again later.
PollPending(c) ==
  /\ op[c].pc = "poll.reply"
  /\ auth' = IF PendingIsCurrent(op[c].gen)
             THEN [auth EXCEPT !.pending.polling = FALSE] ELSE auth
  /\ Finish(c)
  /\ UNCHANGED <<store, job, chatVars, calls, issued, valid, ghostVars>>

\* access_denied or expired_token.
PollRefused(c) ==
  /\ op[c].pc = "poll.reply"
  /\ auth' = IF PendingIsCurrent(op[c].gen)
             THEN [auth EXCEPT !.pending = NoPending] ELSE auth
  /\ Finish(c)
  /\ UNCHANGED <<store, job, chatVars, calls, issued, valid, ghostVars>>

PollCheckFailed(c) ==
  /\ op[c].pc = "poll.check"
  /\ auth' = IF PendingIsCurrent(op[c].gen)
             THEN [auth EXCEPT !.pending.polling = FALSE] ELSE auth
  /\ Finish(c)
  /\ UNCHANGED <<store, job, chatVars, calls, issued, valid, ghostVars>>

PollScopeMissing(c) ==
  /\ op[c].pc = "poll.check"
  /\ auth' = IF auth.gen = op[c].gen
             THEN [auth EXCEPT !.pending = NoPending, !.cred = NoCred]
             ELSE auth
  /\ Finish(c)
  /\ UNCHANGED <<store, job, chatVars, calls, issued, valid, ghostVars>>

LogIn(c) ==
  /\ op[c].pc = "poll.check"
  /\ IF auth.gen = op[c].gen
     THEN /\ auth' = [auth EXCEPT !.pending = NoPending, !.rev = @ + 1,
                                  !.cred = op[c].fresh]
          /\ job' = Queued(c, "save", auth.gen, auth.rev + 1, op[c].fresh)
          /\ Goto(c, "poll.save")
     ELSE UNCHANGED <<auth, job>> /\ Finish(c)
  /\ UNCHANGED <<store, chatVars, calls, issued, valid, ghostVars>>

\* A save that returned only decides what the command answers.
SaveReturned(c) ==
  /\ op[c].pc \in {"poll.save", "validate.save"}
  /\ Returned(c)
  /\ job' = Collected(c)
  /\ Finish(c)
  /\ UNCHANGED <<auth, store, chatVars, calls, issued, valid, ghostVars>>

(***************************************************************************)
(* Validation, under the update lock.                                      *)
(***************************************************************************)
ValidateAuth(c) ==
  /\ Call(c, "validate")
  /\ Goto(c, "validate.lock")
  /\ UNCHANGED <<auth, store, job, chatVars, issued, valid, ghostVars>>

ValidateLocked(c) ==
  /\ op[c].pc = "validate.lock"
  /\ update = NoActor
  /\ IF auth.cred = NoCred
     THEN Finish(c)
     ELSE Become(Put(c, [op[c] EXCEPT !.pc = "validate.reply",
                            !.gen = auth.gen, !.rev = auth.rev,
                            !.cred = auth.cred]), c)
  /\ UNCHANGED <<auth, store, job, chatVars, calls, issued, valid, ghostVars>>

\* The token is good; its profile replaces the installed one and is saved.
ValidateAccepted(c) ==
  /\ op[c].pc = "validate.reply"
  /\ IF Matches(op[c])
     THEN /\ job' = Queued(c, "save", auth.gen, auth.rev, auth.cred)
          /\ Goto(c, "validate.save")
     ELSE UNCHANGED job /\ Finish(c)
  /\ UNCHANGED <<auth, store, chatVars, calls, issued, valid, ghostVars>>

ValidateScopeMissing(c) ==
  /\ op[c].pc = "validate.reply"
  /\ Become(Put(c, [op[c] EXCEPT !.pc = "clear.begin", !.why = "invalid"]),
            update)
  /\ UNCHANGED <<auth, store, job, chatVars, calls, issued, valid, ghostVars>>

\* Whatever the failure, the refresh token is tried next.
ValidateFailed(c) ==
  /\ op[c].pc = "validate.reply"
  /\ Goto(c, "refresh.request")
  /\ UNCHANGED <<auth, store, job, chatVars, calls, issued, valid, ghostVars>>

(***************************************************************************)
(* refresh_credentials_if_current, by a validating command or by the       *)
(* EventSub task; the update lock is held.                                 *)
(***************************************************************************)
\* Where a failed refresh leaves its caller.  A stale failure is told apart
\* from one of the credential that is still installed.
RefreshFailed(a, kind) ==
  LET r == op[a] IN
  IF a \in Commands
  THEN IF Matches(r) /\ kind = "definitive"
       THEN [r EXCEPT !.pc = "clear.begin", !.why = "invalid"] ELSE Idle
  ELSE CASE ~Matches(r) -> Latest(r)
         [] Matches(r) /\ kind = "definitive" ->
              [r EXCEPT !.pc = "clear.begin", !.why = "definitive"]
         [] Matches(r) /\ kind = "permanent" -> [r EXCEPT !.pc = "end.Error"]
         [] Matches(r) /\ kind = "transient" -> [r EXCEPT !.pc = "task.down"]

\* The lock goes with refresh_eventsub_access_token, or with the command.
LeaveRefresh(a, r) ==
  Become(Put(a, r), IF r.pc = "clear.begin" THEN update ELSE Released(a))

TwitchRotates(a) ==
  /\ op[a].pc = "refresh.request"
  /\ op[a].cred \in valid /\ issued < MaxToken
  /\ issued' = issued + 1
  /\ valid' = (valid \ {op[a].cred}) \cup {issued + 1}
  /\ Become(Put(a, [op[a] EXCEPT !.pc = "refresh.granted",
                                 !.fresh = issued + 1]), update)
  /\ UNCHANGED <<auth, store, job, chatVars, calls, ghostVars>>

RefreshReplied(a) ==
  /\ op[a].pc = "refresh.granted"
  /\ Goto(a, "refresh.check")
  /\ UNCHANGED <<auth, store, job, chatVars, calls, issued, valid, ghostVars>>

\* The answer to a granted refresh is lost on its way.
RefreshLost(a) ==
  /\ "lost" \in Faults
  /\ op[a].pc = "refresh.granted"
  /\ spoiled' = spoiled \cup {op[a].cred}
  /\ LeaveRefresh(a, RefreshFailed(a, "transient"))
  /\ UNCHANGED <<auth, store, job, chatVars, calls, issued, valid, loggedOut,
                 ended, storeFault, heard>>

\* invalid_grant for a spent or revoked token, a timeout or a server error,
\* or any other answer.
RefreshRefused(a) ==
  /\ op[a].pc = "refresh.request"
  /\ \E kind \in {"transient", "definitive", "permanent"} :
       LeaveRefresh(a, RefreshFailed(a, kind))
  /\ UNCHANGED <<auth, store, job, chatVars, calls, issued, valid, ghostVars>>

\* The new access token could not be validated: the answer is discarded.
RefreshCheckFailed(a) ==
  /\ op[a].pc = "refresh.check"
  /\ spoiled' = spoiled \cup {op[a].cred}
  /\ \E kind \in {"transient", "definitive", "permanent"} :
       LeaveRefresh(a, RefreshFailed(a, kind))
  /\ UNCHANGED <<auth, store, job, chatVars, calls, issued, valid, loggedOut,
                 ended, storeFault, heard>>

RefreshScopeMissing(a) ==
  LET r == op[a]
      clearing == [r EXCEPT !.pc = "clear.begin",
                     !.why = IF a \in Commands THEN "invalid" ELSE "missing"]
  IN
  /\ r.pc = "refresh.check"
  /\ spoiled' = spoiled \cup {r.cred}
  /\ LeaveRefresh(a, IF Matches(r) THEN clearing
                     ELSE RefreshFailed(a, "transient"))
  /\ UNCHANGED <<auth, store, job, chatVars, calls, issued, valid, loggedOut,
                 ended, storeFault, heard>>

\* persist_credential_rotation: install the rotated credential and save it,
\* unless the login, or the credential, is no longer the one it was for.
RefreshCommit(a) ==
  LET r == op[a] IN
  /\ r.pc = "refresh.check"
  /\ IF Matches(r)
     THEN /\ auth' = [auth EXCEPT !.rev = @ + 1, !.cred = r.fresh]
          /\ job' = Queued(a, "save", auth.gen, auth.rev + 1, r.fresh)
          /\ Become(Put(a, [r EXCEPT !.pc = "refresh.save",
                       !.rev = auth.rev + 1, !.cred = r.fresh]), update)
          /\ UNCHANGED spoiled
     ELSE /\ spoiled' = spoiled \cup {r.cred}
          /\ LeaveRefresh(a,
               IF a \in Tasks /\ auth.cred = NoCred
               THEN [r EXCEPT !.pc = "task.down"]  \* a plain error: retried
               ELSE RefreshFailed(a, "transient"))
          /\ UNCHANGED <<auth, job>>
  /\ UNCHANGED <<store, chatVars, calls, issued, valid, loggedOut, ended,
                 storeFault, heard>>

\* Saved or stale, the task goes on with the latest credential.
RefreshSaved(a) ==
  /\ op[a].pc = "refresh.save"
  /\ Returned(a)
  /\ job' = Collected(a)
  /\ LeaveRefresh(a, IF a \in Commands THEN Idle ELSE Latest(op[a]))
  /\ UNCHANGED <<auth, store, chatVars, calls, issued, valid, ghostVars>>

(***************************************************************************)
(* clear_credentials_if_current: drop exactly the credential that failed.  *)
(***************************************************************************)
\* What the caller does with true, false and an error.
ClearReturned(a, result) ==
  LET r == op[a] IN
  IF a \in Commands THEN Idle
  ELSE CASE result = "true" -> [r EXCEPT !.pc = "end.AuthRequired"]
         [] result = "false" /\ r.why = "missing" -> Latest(r)
         [] result = "false" /\ r.why = "rejected" ->
              [r EXCEPT !.pc = IF auth.gen = r.login /\ auth.cred # NoCred
                               THEN "task.down" ELSE "end.Disconnected"]
         [] OTHER -> [r EXCEPT !.pc = "task.down"]  \* an error, or definitive

ClearBegin(a) ==
  LET r == op[a] IN
  /\ r.pc = "clear.begin"
  /\ IF Matches(r)
     THEN /\ auth' = Forgotten(auth)
          /\ job' = Queued(a, "clear", auth.gen + 1, auth.rev + 1, NoCred)
          /\ Become(Put(a, [r EXCEPT !.pc = "clear.store",
                       !.gen = auth.gen + 1, !.rev = auth.rev + 1]), update)
     ELSE /\ UNCHANGED <<auth, job>>
          /\ LeaveRefresh(a, ClearReturned(a, "false"))
  /\ UNCHANGED <<store, chatVars, calls, issued, valid, ghostVars>>

\* restore_auth_after_failed_clear_if_current.
Restored(r) ==
  IF auth.gen = r.gen /\ auth.rev = r.rev
  THEN [auth EXCEPT !.cred = r.cred, !.pending = NoPending] ELSE auth

ClearStored(a) ==
  /\ op[a].pc = "clear.store"
  /\ Returned(a)
  /\ job' = Collected(a)
  /\ auth' = IF job[a].state = "failed" THEN Restored(op[a]) ELSE auth
  /\ CASE job[a].state = "cleared" -> Goto(a, "clear.cancel")
       [] job[a].state = "stale" -> LeaveRefresh(a, ClearReturned(a, "false"))
       [] OTHER -> LeaveRefresh(a, ClearReturned(a, "error"))
  /\ UNCHANGED <<store, chatVars, calls, issued, valid, ghostVars>>

\* cancel_chat; the connection may be the caller's own.
ClearCancel(a) ==
  LET o == Aborted(Put(a, ClearReturned(a, "true")), owner.conn) IN
  /\ op[a].pc = "clear.cancel"
  /\ owner' = Advanced
  /\ Become(o, Released(a))
  /\ spoiled' = spoiled \cup SpoiledBy(o)
  /\ UNCHANGED <<auth, store, job, chat, calls, issued, valid, loggedOut,
                 ended, storeFault, heard>>

(***************************************************************************)
(* Logging out: twitch_disconnect.                                         *)
(***************************************************************************)
Disconnect(c) ==
  /\ Call(c, "disconnect")
  /\ auth' = Forgotten(auth)
  /\ Become(Put(c, [Idle EXCEPT !.pc = "disconnect.lock",
                       !.gen = auth.gen + 1, !.rev = auth.rev + 1,
                       !.cred = auth.cred]), update)
  /\ UNCHANGED <<store, job, chatVars, issued, valid, ghostVars>>

DisconnectLocked(c) ==
  /\ op[c].pc = "disconnect.lock"
  /\ update = NoActor
  /\ job' = Queued(c, "clear", op[c].gen, op[c].rev, NoCred)
  /\ Become(Put(c, [op[c] EXCEPT !.pc = "disconnect.store"]), c)
  /\ UNCHANGED <<auth, store, chatVars, calls, issued, valid, ghostVars>>

DisconnectStored(c) ==
  /\ op[c].pc = "disconnect.store"
  /\ Returned(c)
  /\ job' = Collected(c)
  /\ auth' = IF job[c].state = "failed" THEN Restored(op[c]) ELSE auth
  /\ IF job[c].state = "cleared"
     THEN Become(Put(c, [op[c] EXCEPT !.pc = "disconnect.cancel"]),
                 Released(c))
     ELSE Finish(c)
  /\ UNCHANGED <<store, chatVars, calls, issued, valid, ghostVars>>

DisconnectCancel(c) ==
  LET o == Aborted(Put(c, [op[c] EXCEPT !.pc = "disconnect.publish",
                                        !.conn = owner.gen + 1]), owner.conn)
  IN
  /\ op[c].pc = "disconnect.cancel"
  /\ owner' = Advanced
  /\ Become(o, update)
  /\ ended' = IF op[c].gen > ended THEN op[c].gen ELSE ended
  /\ spoiled' = spoiled \cup SpoiledBy(o)
  /\ UNCHANGED <<auth, store, job, chat, calls, issued, valid, loggedOut,
                 storeFault, heard>>

DisconnectPublish(c) ==
  /\ op[c].pc = "disconnect.publish"
  /\ chat' = Recorded(op[c].conn, "Disconnected")
  /\ Finish(c)
  /\ UNCHANGED <<auth, store, job, owner, calls, issued, valid, ghostVars>>

(***************************************************************************)
(* save_if_current_sync and clear_if_current_sync, on a blocking thread.   *)
(* An aborted task leaves its job behind.                                  *)
(***************************************************************************)
\* Fault: a rotation within a login goes unnoticed.
JobIsOfLogin(a) == auth.gen = job[a].gen

JobIsCurrent(a) == auth.gen = job[a].gen /\ auth.rev = job[a].rev

JobEnds(a, result) ==
  [job EXCEPT ![a] = IF op[a].pc = "idle" THEN NoJob
                     ELSE [@ EXCEPT !.state = result]]

\* Fault: jobs are checked, but not one after the other.
JobStartsBeside(a) ==
  /\ job[a].state = "queued"
  /\ job' = IF JobIsCurrent(a) THEN [job EXCEPT ![a].state = "writing"]
                               ELSE JobEnds(a, "stale")
  /\ UNCHANGED <<auth, store, update, op, chatVars, calls, issued, valid,
                 ghostVars>>

\* Fault: a job that waited is not checked.
JobStartsLate(a) ==
  /\ job[a].state = "queued"
  /\ \A b \in Actors : job[b].state \notin {"writing", "written"}
  /\ job' = [job EXCEPT ![a].state = "writing"]
  /\ UNCHANGED <<auth, store, update, op, chatVars, calls, issued, valid,
                 ghostVars>>

JobStart(a) ==
  /\ job[a].state = "queued"
  /\ \A b \in Actors : job[b].state \notin {"writing", "written"}
  /\ job' = IF JobIsCurrent(a) THEN [job EXCEPT ![a].state = "writing"]
                               ELSE JobEnds(a, "stale")
  /\ UNCHANGED <<auth, store, update, op, chatVars, calls, issued, valid,
                 ghostVars>>

JobWrite(a) ==
  /\ job[a].state = "writing"
  /\ store' = IF job[a].kind = "save" THEN job[a].cred ELSE NoCred
  /\ storeFault' = FALSE
  /\ job' = [job EXCEPT ![a].state = "written"]
  /\ UNCHANGED <<auth, update, op, chatVars, calls, issued, valid, loggedOut,
                 ended, spoiled, heard>>

\* A failed save is a warning; a failed clear, which may have removed the
\* keyring entry and failed on the old file, is an error.
JobFault(a) ==
  /\ "keyring" \in Faults
  /\ job[a].state = "writing"
  /\ IF job[a].kind = "save"
     THEN /\ job' = [job EXCEPT ![a].state = "written"]
          /\ UNCHANGED store
     ELSE /\ job' = JobEnds(a, "failed")
          /\ store' \in {store, NoCred}
  /\ storeFault' = TRUE
  /\ UNCHANGED <<auth, update, op, chatVars, calls, issued, valid, loggedOut,
                 ended, spoiled, heard>>

JobEnd(a) ==
  /\ job[a].state = "written"
  /\ job' = JobEnds(a, IF ~JobIsCurrent(a) THEN "stale"
                       ELSE IF job[a].kind = "save" THEN "saved" ELSE "cleared")
  /\ loggedOut' = IF JobIsCurrent(a) /\ job[a].kind = "clear"
                  THEN issued ELSE loggedOut
  /\ UNCHANGED <<auth, store, update, op, chatVars, calls, issued, valid,
                 ended, spoiled, storeFault, heard>>

JobStep(a) == JobStart(a) \/ JobWrite(a) \/ JobFault(a) \/ JobEnd(a)

LoginStep(c) ==
  \/ StartReply(c) \/ PollGranted(c) \/ PollPending(c) \/ PollRefused(c)
  \/ PollCheckFailed(c) \/ PollScopeMissing(c) \/ LogIn(c) \/ SaveReturned(c)
  \/ ValidateLocked(c) \/ ValidateAccepted(c) \/ ValidateScopeMissing(c)
  \/ ValidateFailed(c)

RefreshStep(a) ==
  \/ TwitchRotates(a) \/ RefreshReplied(a) \/ RefreshLost(a)
  \/ RefreshRefused(a) \/ RefreshCheckFailed(a) \/ RefreshScopeMissing(a)
  \/ RefreshCommit(a) \/ RefreshSaved(a)

ClearStep(a) == ClearBegin(a) \/ ClearStored(a) \/ ClearCancel(a)

DisconnectStep(c) ==
  \/ DisconnectLocked(c) \/ DisconnectStored(c) \/ DisconnectCancel(c)
  \/ DisconnectPublish(c)

LoginCall(c) ==
  StartAuth(c) \/ PollAuth(c) \/ ValidateAuth(c) \/ Disconnect(c)
=============================================================================
