---------------------------- MODULE TwitchState ----------------------------
(***************************************************************************)
(* The state that the Twitch login and the Twitch chat share               *)
(* (src-tauri/src/twitch: auth_state.rs, auth_store.rs, chat_service.rs;   *)
(* src-tauri/src/app_events/mod.rs), and the operators on it.              *)
(*                                                                         *)
(* A credential stands for an access token, its refresh token and the      *)
(* profile that came with them: the code installs and drops the three      *)
(* together.  It is the number under which Twitch issued it.               *)
(***************************************************************************)
EXTENDS Naturals, FiniteSets

CONSTANTS
  Commands,       \* concurrent invocations of the Tauri commands
  NoActor,
  MaxCalls,       \* bound of the model: commands invoked
  MaxConnection,  \* bound of the model: connection generations
  MaxToken,       \* bound of the model: credentials Twitch issues
  Enabled,        \* the commands a run invokes
  Faults          \* what may go wrong in a run

\* The answer of a granted refresh is lost, the keyring fails, the process
\* restarts, Twitch refuses a subscription, a socket fails or is handed over.
Failures == {"lost", "keyring", "restart", "refused", "dropped"}

Calls == {"start", "poll", "validate", "disconnect", "connect", "stop"}

Tasks == 1 .. MaxConnection      \* an EventSub task is its generation
Actors == Commands \cup Tasks

ASSUME TwitchAssumption ==
  /\ IsFiniteSet(Commands)
  /\ Commands \cap Nat = {} /\ NoActor \notin Actors
  /\ MaxCalls \in Nat /\ MaxToken \in Nat \ {0}
  /\ MaxConnection \in Nat /\ MaxConnection >= 2 * MaxCalls
  /\ Enabled \subseteq Calls
  /\ Faults \subseteq Failures

VARIABLES
  auth,       \* TwitchAuthState, behind its mutex
  store,      \* the credential in the keyring
  job,        \* per actor: its save or clear on a blocking thread
  update,     \* who holds credential_update_lock
  op,         \* per actor: where its invocation stands, and its locals
  owner,      \* TwitchConnectionOwner, behind its mutex
  chat,       \* the chat status that AppEventState retains
  calls,
  issued,     \* Twitch: the credentials issued so far
  valid,      \* Twitch: those whose refresh token it still takes
  \* what the properties remember
  loggedOut,  \* credentials 1 .. loggedOut were removed by a clear
  ended,      \* the auth generation of the last disconnect that cancelled chat
  spoiled,    \* credentials rotated by Twitch whose successor was dropped
  storeFault, \* the last keyring access failed
  heard       \* the generation of the message just given to UI and speech

loginVars == <<auth, store, job, issued, valid>>
chatVars == <<owner, chat>>
ghostVars == <<loggedOut, ended, spoiled, storeFault, heard>>
vars == <<auth, store, job, update, op, owner, chat, calls, issued, valid,
          loggedOut, ended, spoiled, storeFault, heard>>

NoCred == 0
Creds == 0 .. MaxToken
NoConnection == 0

(***************************************************************************)
(* TwitchAuthState.                                                        *)
(***************************************************************************)
NoPending == [gen |-> 0, polling |-> FALSE]

Auth == [gen : Nat, rev : Nat, cred : Creds,
         pending : [gen : Nat, polling : BOOLEAN]]

\* invalidate_operations: what was begun before is stale from here on.
Invalidated(s) == [s EXCEPT !.gen = @ + 1, !.pending = NoPending]

\* The in-memory half of every clear.
Forgotten(s) == [Invalidated(s) EXCEPT !.rev = @ + 1, !.cred = NoCred]

PendingIsCurrent(gen) == auth.gen = gen /\ auth.pending # NoPending

\* generation and credentials_match, as every commit and clear compares them.
Matches(r) == auth.gen = r.gen /\ auth.rev = r.rev /\ auth.cred = r.cred

(***************************************************************************)
(* Invocations.  A command runs to its end.  An EventSub task can be       *)
(* aborted: at an await it is dropped at once, between two awaits it runs  *)
(* on to the next one, with alive false.                                   *)
(***************************************************************************)
Awaits ==
  {"task.wait", "task.lookup", "task.socket", "task.send", "task.lock",
   "task.live", "task.handover", "task.sleep", "refresh.request",
   "refresh.granted", "refresh.check", "refresh.save", "clear.store"}

Ends == {"end.Error", "end.AuthRequired", "end.Disconnected"}

Points == Awaits \cup Ends \cup
  {"idle", "start.reply", "poll.reply", "poll.check", "poll.save",
   "validate.lock", "validate.reply", "validate.save",
   "disconnect.lock", "disconnect.store", "disconnect.cancel",
   "disconnect.publish", "connect.reserve", "connect.register",
   "connect.publish", "connect.go", "stop.publish",
   "clear.begin", "clear.cancel",
   "task.found", "task.begin", "task.connected", "task.frame",
   "task.overlap", "task.switch", "task.down"}

Reasons == {"none", "invalid", "missing", "definitive", "rejected"}

Op == [pc : Points, gen : Nat, rev : Nat, cred : Creds, fresh : Creds,
       login : Nat, conn : Nat, alive : BOOLEAN, second : BOOLEAN,
       why : Reasons]

Idle == [pc |-> "idle", gen |-> 0, rev |-> 0, cred |-> NoCred,
         fresh |-> NoCred, login |-> 0, conn |-> 0, alive |-> TRUE,
         second |-> FALSE, why |-> "none"]

\* An aborted task that comes to an await goes no further; between sessions
\* a task keeps no credential.
Advance(r) ==
  IF r.pc = "idle" \/ (~r.alive /\ r.pc \in Awaits) THEN Idle
  ELSE IF r.pc \in {"task.down", "task.connected"} \cup Ends
       THEN [Idle EXCEPT !.pc = r.pc, !.login = r.login, !.alive = r.alive]
  ELSE r

\* The guard of the update lock falls with the invocation that holds it.
Become(o, holder) ==
  /\ op' = o
  /\ update' = IF holder # NoActor /\ o[holder].pc = "idle" THEN NoActor
                                                            ELSE holder

Put(a, r) == [op EXCEPT ![a] = Advance(r)]
Goto(a, pc) == Become(Put(a, [op[a] EXCEPT !.pc = pc]), update)
Finish(a) == Become(Put(a, Idle), update)

\* Fault: the EventSub task keeps the guard until it ends.
ReleasedByCommands(a) ==
  IF update = a /\ a \in Commands THEN NoActor ELSE update

Released(a) == IF update = a THEN NoActor ELSE update

\* Fault: a dropped JoinHandle only detaches its task.
Detached(o, g) == o

\* JoinHandle::abort of the task of a generation, in the invocations o.
Aborted(o, g) ==
  IF g = NoConnection THEN o
  ELSE [o EXCEPT ![g] = IF @.pc \in Awaits THEN Idle
                        ELSE IF @.pc = "idle" THEN @
                        ELSE [@ EXCEPT !.alive = FALSE]]

\* Successors that Twitch issued for an invocation o drops.
SpoiledBy(o) ==
  {op[g].cred : g \in {t \in Tasks :
     op[t].pc \in {"refresh.granted", "refresh.check"} /\ o[t].pc = "idle"}}

Call(c, name) ==
  /\ name \in Enabled
  /\ op[c].pc = "idle"
  /\ calls < MaxCalls
  /\ calls' = calls + 1

(***************************************************************************)
(* TwitchAuthStore: one blocking job at a time holds the I/O lock.         *)
(***************************************************************************)
NoJob == [kind |-> "none", gen |-> 0, rev |-> 0, cred |-> NoCred,
          state |-> "none"]
Results == {"saved", "cleared", "stale", "failed"}
Job == [kind : {"none", "save", "clear"}, gen : Nat, rev : Nat, cred : Creds,
        state : {"none", "queued", "writing", "written"} \cup Results]

Queued(a, kind, gen, rev, cred) ==
  [job EXCEPT ![a] = [kind |-> kind, gen |-> gen, rev |-> rev,
                      cred |-> cred, state |-> "queued"]]
Returned(a) == job[a].state \in Results
Collected(a) == [job EXCEPT ![a] = NoJob]

(***************************************************************************)
(* TwitchConnectionOwner and the retained chat status.                     *)
(***************************************************************************)
Owner == [gen : Nat, conn : Nat]
Statuses == {"Disconnected", "Connecting", "Connected", "Reconnecting",
             "AuthRequired", "Error"}
LiveStatuses == {"Connecting", "Connected", "Reconnecting"}
Status == [gen : Nat, status : Statuses, active : BOOLEAN]

\* Fault: the connection is taken but the generation stays.
Taken == [gen |-> owner.gen, conn |-> NoConnection]

\* reserve and cancel: a new generation that owns no connection yet.
Advanced == [gen |-> owner.gen + 1, conn |-> NoConnection]

\* Fault: the last status to come wins.
RecordedLast(gen, status) ==
  [gen |-> gen, status |-> status, active |-> status = "Connected"]

\* record_twitch_status: an older generation is dropped, an equal one keeps
\* the identity of its connection unless it ends it.
Recorded(gen, status) ==
  IF gen < chat.gen THEN chat
  ELSE [gen |-> gen, status |-> status,
        active |-> \/ status = "Connected"
                   \/ gen = chat.gen /\ chat.active /\ status # "Disconnected"]

\* Types; a pending authorization is of the current generation, and the
\* retained status never of a generation that was not handed out.
TypeOK ==
  /\ auth \in Auth /\ auth.pending.gen \in {0, auth.gen}
  /\ store \in Creds
  /\ job \in [Actors -> Job]
  /\ update \in Actors \cup {NoActor}
  /\ op \in [Actors -> Op]
  /\ owner \in Owner
  /\ chat \in Status /\ chat.gen <= owner.gen
  /\ calls \in 0 .. MaxCalls
  /\ issued \in Creds
  /\ valid \subseteq Creds
  /\ loggedOut \in Creds
  /\ ended \in Nat
  /\ spoiled \subseteq Creds
  /\ storeFault \in BOOLEAN
  /\ heard \in Nat
=============================================================================
