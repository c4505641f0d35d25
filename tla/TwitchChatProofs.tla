-------------------------- MODULE TwitchChatProofs --------------------------
(***************************************************************************)
(* TwitchSession keeps its types, and the chat has one owner: at most one  *)
(* EventSub task runs, none after the disconnect that ended its login, and *)
(* no message comes from a connection that the status has moved past.      *)
(***************************************************************************)
EXTENDS TwitchSession, TLAPS

-----------------------------------------------------------------------------
(***************************************************************************)
(* The records of the invocations and the operators on them.               *)
(***************************************************************************)
LEMMA NoCredType == NoCred \in Creds /\ 0 \in Creds
BY TwitchAssumption DEF NoCred, Creds

LEMMA ActorKinds ==
  /\ Actors = Commands \cup Tasks
  /\ Commands \cap Tasks = {} /\ Commands \cap Nat = {} /\ Tasks \subseteq Nat
  /\ NoActor \notin Actors /\ NoConnection \notin Actors
BY TwitchAssumption DEF Actors, Tasks, NoConnection

LEMMA IdleType == Idle \in Op /\ Idle.pc = "idle" /\ Idle.conn = 0
<1>1. "idle" \in Points
  BY DEF Points
<1>2. "none" \in Reasons
  BY DEF Reasons
<1> QED
  BY <1>1, <1>2, NoCredType DEF Idle, Op

\* What is left of an invocation between two EventSub sessions.
Bare(r) == [Idle EXCEPT !.pc = r.pc, !.login = r.login, !.alive = r.alive]

Between == {"task.down", "task.connected"} \cup Ends

\* Advance returns the invocation, what is left of it, or Idle.
LEMMA AdvanceType ==
  ASSUME NEW r \in Op
  PROVE  /\ Advance(r) \in Op
         /\ \/ Advance(r) = Idle
            \/ /\ Advance(r).pc = r.pc /\ r.pc # "idle"
               /\ Advance(r).login = r.login /\ Advance(r).alive = r.alive
               /\ \/ Advance(r) = r /\ r.pc \notin Between
                  \/ Advance(r) = Bare(r) /\ r.pc \in Between
<1>1. /\ Bare(r) \in Op /\ Bare(r).pc = r.pc
      /\ Bare(r).login = r.login /\ Bare(r).alive = r.alive
  BY IdleType DEF Op, Idle, Bare
<1>2. \/ Advance(r) = Idle
      \/ Advance(r) = Bare(r) /\ r.pc \in Between /\ r.pc # "idle"
      \/ Advance(r) = r /\ r.pc \notin Between /\ r.pc # "idle"
  BY DEF Advance, Bare, Between
<1> QED
  BY <1>1, <1>2, IdleType

\* What an invocation may be after it has come to r.
Arrived(s, r) ==
  \/ s = Idle
  \/ /\ s.pc = r.pc /\ r.pc # "idle"
     /\ s.login = r.login /\ s.alive = r.alive
     /\ \/ s = r /\ r.pc \notin Between
        \/ s = Bare(r) /\ r.pc \in Between

LEMMA PutType ==
  ASSUME op \in [Actors -> Op], NEW a \in Actors, NEW r \in Op
  PROVE  /\ Put(a, r) \in [Actors -> Op]
         /\ Arrived(Put(a, r)[a], r)
         /\ \A b \in Actors \ {a} : Put(a, r)[b] = op[b]
<1>1. Advance(r) \in Op /\ Arrived(Advance(r), r)
  BY AdvanceType DEF Arrived
<1> QED
  BY <1>1 DEF Put

LEMMA AbortedType ==
  ASSUME NEW o \in [Actors -> Op], NEW g
  PROVE  /\ Aborted(o, g) \in [Actors -> Op]
         /\ \A b \in Actors : (b # g \/ b = NoConnection) => Aborted(o, g)[b] = o[b]
         /\ g # NoConnection /\ g \in Actors =>
              \/ Aborted(o, g)[g] = Idle /\ o[g].pc \in Awaits
              \/ Aborted(o, g)[g] = o[g] /\ o[g].pc = "idle"
              \/ /\ o[g].pc \notin Awaits /\ o[g].pc # "idle"
                 /\ Aborted(o, g)[g] = [o[g] EXCEPT !.alive = FALSE]
<1>1. CASE g \in Actors /\ g # NoConnection
  <2> DEFINE s == IF o[g].pc \in Awaits THEN Idle
                  ELSE IF o[g].pc = "idle" THEN o[g]
                  ELSE [o[g] EXCEPT !.alive = FALSE]
  <2>1. s \in Op
    BY <1>1, IdleType DEF Op
  <2>2. Aborted(o, g) = [o EXCEPT ![g] = s]
    BY <1>1 DEF Aborted
  <2> QED
    BY <1>1, <2>1, <2>2
<1>2. CASE ~(g \in Actors /\ g # NoConnection)
  <2>1. Aborted(o, g) = o
    BY <1>2 DEF Aborted
  <2> QED
    BY <1>2, <2>1
<1> QED
  BY <1>1, <1>2

\* A task that moves on to r, or the invocation of a command.
LEMMA PcType ==
  ASSUME NEW r \in Op, NEW pc \in Points
  PROVE  /\ [r EXCEPT !.pc = pc] \in Op /\ [r EXCEPT !.pc = pc].pc = pc
         /\ [r EXCEPT !.pc = pc].login = r.login
         /\ [r EXCEPT !.pc = pc].alive = r.alive
         /\ [r EXCEPT !.pc = pc].conn = r.conn
         /\ [r EXCEPT !.pc = pc].gen = r.gen
BY DEF Op

Because(r, pc, why) == [r EXCEPT !.pc = pc, !.why = why]

LEMMA BecauseType ==
  ASSUME NEW r \in Op, NEW pc \in Points, NEW why \in Reasons
  PROVE  /\ Because(r, pc, why) \in Op
         /\ Because(r, pc, why).pc = pc
         /\ Because(r, pc, why).login = r.login
         /\ Because(r, pc, why).alive = r.alive
         /\ Because(r, pc, why).conn = r.conn
         /\ Because(r, pc, why).gen = r.gen
BY DEF Op, Because

LEMMA LatestType ==
  ASSUME NEW r \in Op, auth \in Auth
  PROVE  /\ Latest(r) \in Op /\ Latest(r).login = r.login
         /\ Latest(r).alive = r.alive /\ Latest(r).conn = r.conn
         /\ Latest(r).pc \in {"task.send", "end.Disconnected"}
         /\ Latest(r).gen \in {r.gen, auth.gen}
<1>1. "task.send" \in Points /\ "end.Disconnected" \in Points
  BY DEF Points, Awaits, Ends
<1>2. "none" \in Reasons
  BY DEF Reasons
<1>3. auth.gen \in Nat /\ auth.rev \in Nat /\ auth.cred \in Creds
  BY DEF Auth
<1> QED
  BY <1>1, <1>2, <1>3, NoCredType DEF Latest, Op

\* Where a task with a subscription, or one that asks for it, can be.
Signed == Subscribed \cup
  {"task.send", "task.lock", "refresh.request", "refresh.granted",
   "refresh.check", "refresh.save", "clear.begin", "clear.store", "clear.cancel"}

\* Where an invocation holds a generation of the connection.
Connecting == {"connect.register", "connect.publish", "connect.go",
               "stop.publish", "disconnect.publish"}

\* An invocation goes on to r within its session.
Onward(a, r) ==
  /\ r \in Op /\ r.gen <= auth'.gen
  /\ r.pc \notin Connecting \cup {"task.wait"}
  /\ r.conn \in {0, op[a].conn}
  /\ a \in Tasks =>
       /\ op[a].pc \notin {"idle", "task.wait"}
       /\ \/ r = Idle
          \/ /\ r.pc # "idle"
             /\ r.alive = op[a].alive /\ r.login = op[a].login
             /\ r.pc \in Signed => op[a].pc \in Signed \/ auth.gen = r.login

LEMMA RefreshFailedType ==
  ASSUME TypeOK, NEW a \in Actors,
         NEW kind \in {"transient", "definitive", "permanent"},
         op[a].pc \in {"refresh.request", "refresh.granted", "refresh.check"},
         op[a].gen <= auth.gen, auth' = auth
  PROVE  Onward(a, RefreshFailed(a, kind))
<1> DEFINE r == op[a]
<1>1. r \in Op /\ auth \in Auth /\ r.gen \in Nat /\ auth.gen \in Nat
  BY DEF TypeOK, Op, Auth
<1>2. {"clear.begin", "end.Error", "task.down"} \subseteq Points
  BY DEF Points, Ends
<1>3. {"invalid", "definitive"} \subseteq Reasons
  BY DEF Reasons
<1>4. /\ r.pc \in Signed /\ r.pc \notin {"idle", "task.wait"}
      /\ a \in Commands => a \notin Tasks
      /\ a \in Commands \/ a \in Tasks
  BY ActorKinds DEF Signed
<1>5. ASSUME NEW why \in Reasons PROVE Onward(a, Because(r, "clear.begin", why))
  BY <1>1, <1>2, <1>4, BecauseType DEF Onward, Connecting
<1>6. ASSUME NEW pc \in {"end.Error", "task.down"}
      PROVE  Onward(a, [r EXCEPT !.pc = pc])
  BY <1>1, <1>2, <1>4, PcType DEF Onward, Connecting
<1>7. CASE a \in Commands
  <2>1. Onward(a, Idle)
    BY <1>1, <1>4, <1>7, IdleType DEF Onward, Connecting, Idle
  <2>2. \/ RefreshFailed(a, kind) = Idle
        \/ RefreshFailed(a, kind) = Because(r, "clear.begin", "invalid")
    BY <1>7 DEF RefreshFailed, Because
  <2> QED
    BY <1>3, <1>5, <2>1, <2>2
<1>8. CASE a \in Tasks
  <2>1. Onward(a, Latest(r))
    <3>1. /\ Latest(r) \in Op /\ Latest(r).login = r.login
          /\ Latest(r).alive = r.alive /\ Latest(r).conn = r.conn
          /\ Latest(r).pc \in {"task.send", "end.Disconnected"}
          /\ Latest(r).gen \in {r.gen, auth.gen}
      BY <1>1, LatestType
    <3>2. Latest(r).gen <= auth'.gen
      BY <1>1, <3>1
    <3> QED
      BY <1>4, <3>1, <3>2 DEF Onward, Connecting
  <2>2. \/ RefreshFailed(a, kind) = Latest(r)
        \/ RefreshFailed(a, kind) = Because(r, "clear.begin", "definitive")
        \/ \E pc \in {"end.Error", "task.down"} :
             RefreshFailed(a, kind) = [r EXCEPT !.pc = pc]
    BY <1>4, <1>8 DEF RefreshFailed, Because
  <2> QED
    BY <1>3, <1>5, <1>6, <2>1, <2>2
<1> QED
  BY <1>4, <1>7, <1>8

-----------------------------------------------------------------------------
(***************************************************************************)
(* What the steps of the login do to auth.                                 *)
(***************************************************************************)
Pending == [gen : Nat, polling : BOOLEAN]

LEMMA AuthFields ==
  ASSUME TypeOK
  PROVE  /\ auth \in Auth /\ auth.gen \in Nat /\ auth.rev \in Nat
         /\ auth.cred \in Creds /\ auth.pending \in Pending
         /\ auth.pending.gen \in {0, auth.gen}
BY DEF TypeOK, Auth, Pending

LEMMA OpFields ==
  ASSUME TypeOK, NEW a \in Actors
  PROVE  /\ op \in [Actors -> Op]
         /\ op[a] \in Op /\ op[a].pc \in Points /\ op[a].gen \in Nat
         /\ op[a].rev \in Nat /\ op[a].cred \in Creds /\ op[a].fresh \in Creds
         /\ op[a].login \in Nat /\ op[a].conn \in Nat
         /\ op[a].alive \in BOOLEAN /\ op[a].why \in Reasons
BY DEF TypeOK, Op

LEMMA NoPendingType == NoPending \in Pending /\ NoPending.gen = 0
BY DEF NoPending, Pending

LEMMA InvalidatedType ==
  ASSUME NEW s \in Auth
  PROVE  /\ Invalidated(s) \in Auth /\ Invalidated(s).gen = s.gen + 1
         /\ Invalidated(s).rev = s.rev /\ Invalidated(s).cred = s.cred
         /\ Invalidated(s).pending = NoPending
<1>1. s.gen \in Nat /\ s.gen + 1 \in Nat
  BY DEF Auth
<1>2. NoPending \in [gen : Nat, polling : BOOLEAN]
  BY DEF NoPending
<1> QED
  BY <1>1, <1>2 DEF Invalidated, Auth

LEMMA ForgottenType ==
  ASSUME NEW s \in Auth
  PROVE  /\ Forgotten(s) \in Auth /\ Forgotten(s).gen = s.gen + 1
         /\ Forgotten(s).rev = s.rev + 1 /\ Forgotten(s).cred = NoCred
         /\ Forgotten(s).pending = NoPending
<1>1. /\ Invalidated(s) \in Auth /\ Invalidated(s).gen = s.gen + 1
      /\ Invalidated(s).rev = s.rev /\ Invalidated(s).pending = NoPending
  BY InvalidatedType
<1>2. Invalidated(s).rev + 1 \in Nat
  BY <1>1 DEF Auth
<1> QED
  BY <1>1, <1>2, NoCredType DEF Forgotten, Auth

LEMMA PollingType ==
  ASSUME NEW s \in Auth, NEW b \in BOOLEAN
  PROVE  /\ [s EXCEPT !.pending.polling = b] \in Auth
         /\ [s EXCEPT !.pending.polling = b].gen = s.gen
         /\ [s EXCEPT !.pending.polling = b].pending.gen = s.pending.gen
BY DEF Auth

\* The types of the state other than that of invocations and the connection.
LoginTyped ==
  /\ auth \in Auth /\ auth.pending.gen \in {0, auth.gen}
  /\ store \in Creds /\ job \in [Actors -> Job]
  /\ update \in Actors \cup {NoActor}
  /\ calls \in 0 .. MaxCalls
  /\ issued \in Creds /\ valid \subseteq Creds
  /\ loggedOut \in Creds /\ spoiled \subseteq Creds
  /\ storeFault \in BOOLEAN

GenerationsKnown == \A a \in Actors : op[a].gen <= auth.gen

\* A step of an invocation that goes on, and disturbs nobody else's.
GoesOn(a) ==
  /\ LoginTyped' /\ auth'.gen >= auth.gen
  /\ \E r : Onward(a, r) /\ op' = Put(a, r)

\* The guard of the update lock stays with an actor, or with nobody.
LEMMA BecomeType ==
  ASSUME NEW o, NEW holder \in Actors \cup {NoActor}, Become(o, holder)
  PROVE  op' = o /\ update' \in Actors \cup {NoActor}
BY DEF Become

LEMMA ReleasedType ==
  ASSUME TypeOK, NEW a \in Actors
  PROVE  Released(a) \in Actors \cup {NoActor} /\ update \in Actors \cup {NoActor}
BY DEF Released, TypeOK

LEMMA OnwardIdle ==
  ASSUME TypeOK, NEW a \in Actors, auth'.gen \in Nat,
         a \in Tasks => op[a].pc \notin {"idle", "task.wait"}
  PROVE  Onward(a, Idle)
BY IdleType DEF Onward, Connecting, Idle

LEMMA OnwardTo ==
  ASSUME TypeOK, NEW a \in Actors, op[a].gen <= auth'.gen,
         NEW pc \in Points \ (Connecting \cup {"task.wait", "idle"}),
         a \in Tasks => /\ op[a].pc \notin {"idle", "task.wait"}
                        /\ pc \in Signed => op[a].pc \in Signed
  PROVE  Onward(a, [op[a] EXCEPT !.pc = pc])
BY OpFields, PcType DEF Onward

LEMMA OnwardCommand ==
  ASSUME NEW c \in Commands, NEW r \in Op, r.gen <= auth'.gen,
         r.pc \notin Connecting \cup {"task.wait"}, r.conn \in {0, op[c].conn}
  PROVE  Onward(c, r)
BY ActorKinds DEF Onward

LEMMA JobTypes ==
  ASSUME TypeOK, NEW a \in Actors
  PROVE  /\ Collected(a) \in [Actors -> Job]
         /\ \A kind \in {"save", "clear"}, gen \in Nat, rev \in Nat, cred \in Creds :
              Queued(a, kind, gen, rev, cred) \in [Actors -> Job]
<1>1. NoJob \in Job
  BY NoCredType DEF NoJob, Job
<1>2. job \in [Actors -> Job]
  BY DEF TypeOK
<1>3. ASSUME NEW kind \in {"save", "clear"}, NEW gen \in Nat, NEW rev \in Nat,
             NEW cred \in Creds
      PROVE  [kind |-> kind, gen |-> gen, rev |-> rev, cred |-> cred,
              state |-> "queued"] \in Job
  BY DEF Job
<1> QED
  BY <1>1, <1>2, <1>3 DEF Collected, Queued

-----------------------------------------------------------------------------
(***************************************************************************)
(* The steps of the login go on, or end.                                   *)
(***************************************************************************)
LEMMA LoginStepsGoOn ==
  ASSUME TypeOK, GenerationsKnown, NEW c \in Commands, LoginStep(c)
  PROVE  GoesOn(c)
<1>1. c \in Actors /\ c \notin Tasks
  BY ActorKinds
<1>2. /\ op[c] \in Op /\ op[c].gen \in Nat /\ op[c].gen <= auth.gen
      /\ op[c].cred \in Creds /\ op[c].fresh \in Creds
  BY <1>1, OpFields DEF GenerationsKnown
<1>3. /\ auth \in Auth /\ auth.gen \in Nat /\ auth.rev \in Nat
      /\ auth.cred \in Creds /\ auth.pending.gen \in {0, auth.gen}
      /\ auth.pending \in [gen : Nat, polling : BOOLEAN]
  BY AuthFields DEF Pending
<1>4. LoginTyped
  BY DEF LoginTyped, TypeOK
<1>5. ASSUME auth'.gen \in Nat, Finish(c)
      PROVE  /\ update' \in Actors \cup {NoActor}
             /\ \E r : Onward(c, r) /\ op' = Put(c, r)
  BY <1>1, <1>5, OnwardIdle, BecomeType, ReleasedType DEF Finish
<1>6. ASSUME auth'.gen = auth.gen,
             NEW pc \in Points \ (Connecting \cup {"task.wait", "idle"}),
             Goto(c, pc)
      PROVE  /\ update' \in Actors \cup {NoActor}
             /\ \E r : Onward(c, r) /\ op' = Put(c, r)
  BY <1>1, <1>2, <1>3, <1>6, OnwardTo, BecomeType, ReleasedType DEF Goto
<1>7. CASE StartReply(c)
  <2>1. \/ auth' = auth
        \/ /\ op[c].gen = auth.gen
           /\ auth' = [auth EXCEPT !.cred = NoCred,
                          !.pending = [gen |-> op[c].gen, polling |-> FALSE]]
    BY <1>7 DEF StartReply
  <2> DEFINE code == [gen |-> op[c].gen, polling |-> FALSE]
  <2>2. auth' \in Auth /\ auth'.gen = auth.gen /\ auth'.pending.gen \in {0, auth.gen}
    <3>1. code \in [gen : Nat, polling : BOOLEAN] /\ code.gen = op[c].gen
      BY <1>2
    <3>2. \/ auth' = auth
          \/ /\ op[c].gen = auth.gen
             /\ auth' = [auth EXCEPT !.cred = NoCred, !.pending = code]
      BY <2>1
    <3> HIDE DEF code
    <3> QED
      BY <1>3, <3>1, <3>2, NoCredType DEF Auth
  <2> QED
    BY <1>3, <1>4, <1>5, <1>7, <2>2 DEF StartReply, GoesOn, LoginTyped, ghostVars
<1>8. CASE PollGranted(c)
  <2> DEFINE r == [op[c] EXCEPT !.pc = "poll.check", !.fresh = issued + 1]
  <2>1. issued' \in Creds /\ valid' \subseteq Creds /\ issued + 1 \in Creds
    BY <1>4, <1>8, TwitchAssumption DEF PollGranted, LoginTyped, Creds
  <2>2. ASSUME Become(Put(c, r), update)
        PROVE  /\ update' \in Actors \cup {NoActor}
               /\ \E s : Onward(c, s) /\ op' = Put(c, s)
    <3>1. "poll.check" \in Points
      BY DEF Points
    <3>2. r \in Op /\ r.gen = op[c].gen /\ r.conn = op[c].conn /\ r.pc = "poll.check"
      BY <1>2, <2>1, <3>1 DEF Op
    <3>3. auth' = auth
      BY <1>8 DEF PollGranted
    <3>4. Onward(c, r)
      BY <1>2, <3>2, <3>3, OnwardCommand DEF Connecting
    <3> QED
      BY <1>1, <2>2, <3>4, BecomeType, ReleasedType
  <2>3. Finish(c) \/ Become(Put(c, r), update)
    BY <1>8 DEF PollGranted
  <2> QED
    BY <1>3, <1>4, <1>5, <1>8, <2>1, <2>2, <2>3
       DEF PollGranted, GoesOn, LoginTyped, ghostVars
<1>9. CASE PollPending(c) \/ PollRefused(c) \/ PollCheckFailed(c) \/ PollScopeMissing(c)
  <2>1. auth' \in {auth, [auth EXCEPT !.pending.polling = FALSE],
                   [auth EXCEPT !.pending = NoPending],
                   [auth EXCEPT !.pending = NoPending, !.cred = NoCred]}
    BY <1>9 DEF PollPending, PollRefused, PollCheckFailed, PollScopeMissing
  <2>2. auth' \in Auth /\ auth'.gen = auth.gen /\ auth'.pending.gen \in {0, auth.gen}
    <3>1. CASE auth' = [auth EXCEPT !.pending.polling = FALSE]
      BY <1>3, <3>1, PollingType
    <3>2. CASE auth' \in {auth, [auth EXCEPT !.pending = NoPending],
                         [auth EXCEPT !.pending = NoPending, !.cred = NoCred]}
      BY <1>3, <3>2, NoCredType, NoPendingType DEF Auth, Pending
    <3> QED
      BY <2>1, <3>1, <3>2
  <2>3. Finish(c) /\ UNCHANGED <<store, job, chatVars, calls, issued, valid, ghostVars>>
    BY <1>9 DEF PollPending, PollRefused, PollCheckFailed, PollScopeMissing
  <2> QED
    BY <1>3, <1>4, <1>5, <2>2, <2>3 DEF GoesOn, LoginTyped, ghostVars
<1>10. CASE LogIn(c)
  <2>1. CASE UNCHANGED <<auth, job>> /\ Finish(c)
    BY <1>3, <1>4, <1>5, <1>10, <2>1 DEF LogIn, GoesOn, LoginTyped, ghostVars
  <2>2. CASE /\ auth' = [auth EXCEPT !.pending = NoPending, !.rev = @ + 1,
                                     !.cred = op[c].fresh]
             /\ job' = Queued(c, "save", auth.gen, auth.rev + 1, op[c].fresh)
             /\ Goto(c, "poll.save")
    <3>1. auth.rev + 1 \in Nat
      BY <1>3
    <3>2. auth' \in Auth /\ auth'.gen = auth.gen /\ auth'.pending.gen \in {0, auth.gen}
      BY <1>2, <1>3, <2>2, <3>1, NoPendingType DEF Auth, Pending
    <3>3. job' \in [Actors -> Job]
      BY <1>1, <1>2, <1>3, <2>2, <3>1, JobTypes
    <3>4. "poll.save" \in Points \ (Connecting \cup {"task.wait", "idle"})
      BY DEF Points, Connecting
    <3> QED
      BY <1>3, <1>4, <1>6, <1>10, <2>2, <3>2, <3>3, <3>4
         DEF LogIn, GoesOn, LoginTyped, ghostVars
  <2> QED
    BY <1>10, <2>1, <2>2 DEF LogIn
<1>11. CASE SaveReturned(c)
  <2>1. auth' = auth /\ Finish(c) /\ job' = Collected(c)
    BY <1>11 DEF SaveReturned
  <2>2. job' \in [Actors -> Job]
    BY <1>1, <2>1, JobTypes
  <2> QED
    BY <1>3, <1>4, <1>5, <1>11, <2>1, <2>2
       DEF SaveReturned, GoesOn, LoginTyped, ghostVars
<1>12. CASE ValidateLocked(c)
  <2> DEFINE r == [op[c] EXCEPT !.pc = "validate.reply", !.gen = auth.gen,
                                !.rev = auth.rev, !.cred = auth.cred]
  <2>1. auth' = auth
    BY <1>12 DEF ValidateLocked
  <2>2. ASSUME Become(Put(c, r), c)
        PROVE  /\ update' \in Actors \cup {NoActor}
               /\ \E s : Onward(c, s) /\ op' = Put(c, s)
    <3>1. "validate.reply" \in Points
      BY DEF Points
    <3>2. r \in Op /\ r.gen = auth.gen /\ r.conn = op[c].conn /\ r.pc = "validate.reply"
      BY <1>2, <1>3, <3>1 DEF Op
    <3>3. r.gen <= auth'.gen
      BY <1>3, <2>1, <3>2
    <3> HIDE DEF r
    <3>4. Onward(c, r)
      BY <3>2, <3>3, OnwardCommand DEF Connecting
    <3> QED
      BY <1>1, <2>2, <3>4, BecomeType
  <2>3. Finish(c) \/ Become(Put(c, r), c)
    BY <1>12 DEF ValidateLocked
  <2> QED
    BY <1>3, <1>4, <1>5, <1>12, <2>1, <2>2, <2>3
       DEF ValidateLocked, GoesOn, LoginTyped, ghostVars
<1>13. CASE ValidateAccepted(c)
  <2>1. "validate.save" \in Points \ (Connecting \cup {"task.wait", "idle"})
    BY DEF Points, Connecting
  <2>2. job' \in [Actors -> Job]
    BY <1>1, <1>3, <1>4, <1>13, JobTypes, SMTT(30) DEF ValidateAccepted, LoginTyped
  <2> QED
    BY <1>3, <1>4, <1>5, <1>6, <1>13, <2>1, <2>2
       DEF ValidateAccepted, GoesOn, LoginTyped, ghostVars
<1>14. CASE ValidateScopeMissing(c)
  <2>1. "clear.begin" \in Points /\ "invalid" \in Reasons
    BY DEF Points, Reasons
  <2>2. Become(Put(c, Because(op[c], "clear.begin", "invalid")), update)
    BY <1>14 DEF ValidateScopeMissing, Because
  <2>3. auth' = auth
    BY <1>14 DEF ValidateScopeMissing
  <2>4. Onward(c, Because(op[c], "clear.begin", "invalid"))
    BY <1>2, <2>1, <2>3, BecauseType, OnwardCommand DEF Connecting
  <2> QED
    BY <1>1, <1>3, <1>4, <1>14, <2>2, <2>4, BecomeType, ReleasedType
       DEF ValidateScopeMissing, GoesOn, LoginTyped, ghostVars
<1>15. CASE ValidateFailed(c)
  <2>1. "refresh.request" \in Points \ (Connecting \cup {"task.wait", "idle"})
    BY DEF Points, Connecting, Awaits
  <2> QED
    BY <1>3, <1>4, <1>6, <1>15, <2>1
       DEF ValidateFailed, GoesOn, LoginTyped, ghostVars
<1> QED
  BY <1>7, <1>8, <1>9, <1>10, <1>11, <1>12, <1>13, <1>14, <1>15 DEF LoginStep

-----------------------------------------------------------------------------
(***************************************************************************)
(* The steps of the refresh, of the clear and of the disconnect.           *)
(***************************************************************************)
LEMMA OnwardLatest ==
  ASSUME TypeOK, NEW a \in Tasks, op[a].gen <= auth.gen,
         auth'.gen = auth.gen, op[a].pc \in Signed
  PROVE  Onward(a, Latest(op[a]))
<1>1. a \in Actors
  BY ActorKinds
<1>2. op[a] \in Op /\ auth \in Auth /\ auth.gen \in Nat
  BY <1>1, OpFields, AuthFields
<1>3. /\ Latest(op[a]) \in Op /\ Latest(op[a]).login = op[a].login
      /\ Latest(op[a]).alive = op[a].alive /\ Latest(op[a]).conn = op[a].conn
      /\ Latest(op[a]).pc \in {"task.send", "end.Disconnected"}
      /\ Latest(op[a]).gen \in {op[a].gen, auth.gen}
  BY <1>2, LatestType
<1>4. Latest(op[a]).gen <= auth'.gen
  BY <1>2, <1>3
<1>5. op[a].pc \notin {"idle", "task.wait"}
  BY DEF Signed, Subscribed
<1> QED
  BY <1>3, <1>4, <1>5 DEF Onward, Connecting

LEMMA OnwardClearReturned ==
  ASSUME TypeOK, NEW a \in Actors, op[a].gen <= auth.gen,
         auth'.gen = auth.gen, op[a].pc \in {"clear.begin", "clear.store", "clear.cancel"},
         NEW result
  PROVE  Onward(a, ClearReturned(a, result))
<1>1. auth.gen \in Nat /\ op[a].gen \in Nat
  BY AuthFields, OpFields
<1>2. op[a].pc \in Signed /\ op[a].pc \notin {"idle", "task.wait"}
  BY DEF Signed
<1>3. CASE a \in Commands
  <2>1. ClearReturned(a, result) = Idle
    BY <1>3 DEF ClearReturned
  <2> QED
    BY <1>1, <1>2, <2>1, OnwardIdle
<1>4. CASE a \in Tasks
  <2>1. \/ ClearReturned(a, result) = Latest(op[a])
        \/ \E pc \in Ends \cup {"task.down"} :
             ClearReturned(a, result) = [op[a] EXCEPT !.pc = pc]
    BY <1>4, ActorKinds DEF ClearReturned, Ends
  <2>2. Ends \cup {"task.down"} \subseteq Points \ (Connecting \cup {"task.wait", "idle"})
    BY DEF Points, Connecting, Ends
  <2> QED
    BY <1>1, <1>2, <1>4, <2>1, <2>2, OnwardLatest, OnwardTo
<1> QED
  BY <1>3, <1>4, ActorKinds

LEMMA LeaveRefreshGoesOn ==
  ASSUME TypeOK, NEW a \in Actors, NEW r, Onward(a, r), LeaveRefresh(a, r)
  PROVE  /\ update' \in Actors \cup {NoActor}
         /\ \E s : Onward(a, s) /\ op' = Put(a, s)
BY BecomeType, ReleasedType DEF LeaveRefresh

LEMMA RefreshStepsGoOn ==
  ASSUME TypeOK, GenerationsKnown, NEW a \in Actors, RefreshStep(a)
  PROVE  GoesOn(a)
<1>1. /\ op[a] \in Op /\ op[a].gen \in Nat /\ op[a].gen <= auth.gen
      /\ op[a].cred \in Creds /\ op[a].fresh \in Creds
  BY OpFields DEF GenerationsKnown
<1>2. /\ auth \in Auth /\ auth.gen \in Nat /\ auth.rev \in Nat
      /\ auth.cred \in Creds /\ auth.pending.gen \in {0, auth.gen}
  BY AuthFields
<1>3. LoginTyped
  BY DEF LoginTyped, TypeOK
<1>4. /\ op[a].pc \in Signed /\ op[a].pc \notin {"idle", "task.wait"}
      /\ op[a].pc \in {"refresh.request", "refresh.granted", "refresh.check",
                       "refresh.save"}
  BY DEF RefreshStep, TwitchRotates, RefreshReplied, RefreshLost, RefreshRefused,
    RefreshCheckFailed, RefreshScopeMissing, RefreshCommit, RefreshSaved, Signed
<1>5. ASSUME NEW r \in Op, r.gen <= auth'.gen, r.conn = op[a].conn,
             r.alive = op[a].alive, r.login = op[a].login,
             r.pc \notin Connecting \cup {"task.wait", "idle"},
             Become(Put(a, r), update)
      PROVE  /\ update' \in Actors \cup {NoActor}
             /\ \E s : Onward(a, s) /\ op' = Put(a, s)
  <2>1. Onward(a, r)
    BY <1>4, <1>5 DEF Onward
  <2> QED
    BY <1>5, <2>1, BecomeType, ReleasedType
<1>6. ASSUME auth' = auth, NEW kind \in {"transient", "definitive", "permanent"},
             op[a].pc # "refresh.save", LeaveRefresh(a, RefreshFailed(a, kind))
      PROVE  /\ update' \in Actors \cup {NoActor}
             /\ \E s : Onward(a, s) /\ op' = Put(a, s)
  BY <1>1, <1>4, <1>6, RefreshFailedType, LeaveRefreshGoesOn
<1>7. spoiled \cup {op[a].cred} \subseteq Creds
  BY <1>1, <1>3 DEF LoginTyped
<1>8. CASE TwitchRotates(a)
  <2> DEFINE r == [op[a] EXCEPT !.pc = "refresh.granted", !.fresh = issued + 1]
  <2>1. issued' \in Creds /\ valid' \subseteq Creds /\ issued + 1 \in Creds
    BY <1>3, <1>8, TwitchAssumption DEF TwitchRotates, LoginTyped, Creds
  <2>2. "refresh.granted" \in Points \ (Connecting \cup {"task.wait", "idle"})
    BY DEF Points, Awaits, Connecting
  <2>3. /\ r \in Op /\ r.gen = op[a].gen /\ r.conn = op[a].conn
        /\ r.alive = op[a].alive /\ r.login = op[a].login /\ r.pc = "refresh.granted"
    BY <1>1, <2>1, <2>2 DEF Op
  <2>4. auth' = auth /\ Become(Put(a, r), update)
    BY <1>8 DEF TwitchRotates
  <2> HIDE DEF r
  <2>5. r.gen <= auth'.gen
    BY <1>1, <2>3, <2>4
  <2>6. /\ update' \in Actors \cup {NoActor}
        /\ \E s : Onward(a, s) /\ op' = Put(a, s)
    BY <1>5, <2>2, <2>3, <2>4, <2>5
  <2> QED
    BY <1>2, <1>3, <1>8, <2>1, <2>6 DEF TwitchRotates, GoesOn, LoginTyped, ghostVars
<1>9. CASE RefreshReplied(a)
  <2>1. "refresh.check" \in Points \ (Connecting \cup {"task.wait", "idle"})
    BY DEF Points, Awaits, Connecting
  <2>2. auth' = auth /\ Become(Put(a, [op[a] EXCEPT !.pc = "refresh.check"]), update)
    BY <1>9 DEF RefreshReplied, Goto
  <2>3. Onward(a, [op[a] EXCEPT !.pc = "refresh.check"])
    BY <1>1, <1>4, <2>1, <2>2, OnwardTo
  <2>4. /\ update' \in Actors \cup {NoActor}
        /\ \E s : Onward(a, s) /\ op' = Put(a, s)
    BY <2>2, <2>3, BecomeType, ReleasedType
  <2> QED
    BY <1>2, <1>3, <1>9, <2>4 DEF RefreshReplied, GoesOn, LoginTyped, ghostVars
<1>10. CASE RefreshLost(a) \/ RefreshRefused(a) \/ RefreshCheckFailed(a)
  <2>1. /\ UNCHANGED <<auth, store, job, calls, issued, valid, loggedOut, storeFault>>
        /\ spoiled' \in {spoiled, spoiled \cup {op[a].cred}}
        /\ op[a].pc # "refresh.save"
        /\ \E kind \in {"transient", "definitive", "permanent"} :
             LeaveRefresh(a, RefreshFailed(a, kind))
    BY <1>10 DEF RefreshLost, RefreshRefused, RefreshCheckFailed, ghostVars
  <2> QED
    BY <1>2, <1>3, <1>6, <1>7, <2>1 DEF GoesOn, LoginTyped
<1>11. CASE RefreshScopeMissing(a)
  <2>1. /\ UNCHANGED <<auth, store, job, calls, issued, valid, loggedOut, storeFault>>
        /\ spoiled' = spoiled \cup {op[a].cred}
        /\ op[a].pc # "refresh.save"
        /\ \/ LeaveRefresh(a, RefreshFailed(a, "transient"))
           \/ \E why \in {"invalid", "missing"} :
                LeaveRefresh(a, Because(op[a], "clear.begin", why))
    BY <1>11 DEF RefreshScopeMissing, Because
  <2>2. ASSUME NEW why \in {"invalid", "missing"}
        PROVE  Onward(a, Because(op[a], "clear.begin", why))
    <3>1. "clear.begin" \in Points /\ why \in Reasons
      BY DEF Points, Reasons
    <3> QED
      BY <1>1, <1>2, <1>4, <2>1, <3>1, BecauseType DEF Onward, Connecting
  <2>3. /\ update' \in Actors \cup {NoActor}
        /\ \E s : Onward(a, s) /\ op' = Put(a, s)
    BY <1>6, <2>1, <2>2, LeaveRefreshGoesOn
  <2> QED
    BY <1>2, <1>3, <1>7, <2>1, <2>3 DEF GoesOn, LoginTyped
<1>12. CASE RefreshCommit(a)
  <2> DEFINE r == [op[a] EXCEPT !.pc = "refresh.save", !.rev = auth.rev + 1,
                                !.cred = op[a].fresh]
  <2>1. CASE Matches(op[a])
    <3>1. auth.rev + 1 \in Nat
      BY <1>2
    <3>2. /\ auth' = [auth EXCEPT !.rev = @ + 1, !.cred = op[a].fresh]
          /\ job' = Queued(a, "save", auth.gen, auth.rev + 1, op[a].fresh)
          /\ Become(Put(a, r), update)
          /\ UNCHANGED <<store, calls, issued, valid, loggedOut, storeFault, spoiled>>
      BY <1>12, <2>1 DEF RefreshCommit
    <3>3. auth' \in Auth /\ auth'.gen = auth.gen /\ auth'.pending.gen \in {0, auth.gen}
      BY <1>1, <1>2, <3>1, <3>2 DEF Auth
    <3>4. job' \in [Actors -> Job]
      BY <1>1, <1>2, <3>1, <3>2, JobTypes
    <3>5. "refresh.save" \in Points \ (Connecting \cup {"task.wait", "idle"})
      BY DEF Points, Awaits, Connecting
    <3>6. /\ r \in Op /\ r.gen = op[a].gen /\ r.conn = op[a].conn
          /\ r.alive = op[a].alive /\ r.login = op[a].login /\ r.pc = "refresh.save"
      BY <1>1, <3>1, <3>5 DEF Op
    <3> HIDE DEF r
    <3>7. r.gen <= auth'.gen
      BY <1>1, <3>3, <3>6
    <3>8. /\ update' \in Actors \cup {NoActor}
          /\ \E s : Onward(a, s) /\ op' = Put(a, s)
      BY <1>5, <3>2, <3>5, <3>6, <3>7
    <3> QED
      BY <1>2, <1>3, <3>2, <3>3, <3>4, <3>8 DEF GoesOn, LoginTyped
  <2>2. CASE ~Matches(op[a])
    <3>1. /\ UNCHANGED <<auth, store, job, calls, issued, valid, loggedOut, storeFault>>
          /\ spoiled' = spoiled \cup {op[a].cred}
          /\ op[a].pc # "refresh.save"
          /\ \/ LeaveRefresh(a, RefreshFailed(a, "transient"))
             \/ LeaveRefresh(a, [op[a] EXCEPT !.pc = "task.down"])
      BY <1>12, <2>2 DEF RefreshCommit
    <3>2. "task.down" \in Points \ (Connecting \cup {"task.wait", "idle"})
      BY DEF Points, Connecting
    <3>3. Onward(a, [op[a] EXCEPT !.pc = "task.down"])
      BY <1>1, <1>4, <3>1, <3>2, OnwardTo
    <3>4. /\ update' \in Actors \cup {NoActor}
          /\ \E s : Onward(a, s) /\ op' = Put(a, s)
      BY <1>6, <3>1, <3>3, LeaveRefreshGoesOn
    <3> QED
      BY <1>2, <1>3, <1>7, <3>1, <3>4 DEF GoesOn, LoginTyped
  <2> QED
    BY <2>1, <2>2
<1>13. CASE RefreshSaved(a)
  <2>1. /\ auth' = auth /\ job' = Collected(a)
        /\ LeaveRefresh(a, IF a \in Commands THEN Idle ELSE Latest(op[a]))
    BY <1>13 DEF RefreshSaved
  <2>2. Onward(a, IF a \in Commands THEN Idle ELSE Latest(op[a]))
    <3>1. CASE a \in Commands
      BY <1>2, <1>4, <2>1, <3>1, OnwardIdle
    <3>2. CASE a \notin Commands
      BY <1>1, <1>4, <2>1, <3>2, OnwardLatest, ActorKinds
    <3> QED
      BY <3>1, <3>2
  <2>3. /\ update' \in Actors \cup {NoActor}
        /\ \E s : Onward(a, s) /\ op' = Put(a, s)
    BY <2>1, <2>2, LeaveRefreshGoesOn
  <2>4. job' \in [Actors -> Job]
    BY <2>1, JobTypes
  <2> QED
    BY <1>2, <1>3, <1>13, <2>1, <2>3, <2>4 DEF RefreshSaved, GoesOn, LoginTyped, ghostVars
<1> QED
  BY <1>8, <1>9, <1>10, <1>11, <1>12, <1>13 DEF RefreshStep

LEMMA RestoredType ==
  ASSUME TypeOK, NEW a \in Actors
  PROVE  /\ Restored(op[a]) \in Auth /\ Restored(op[a]).gen = auth.gen
         /\ Restored(op[a]).pending.gen \in {0, auth.gen}
BY AuthFields, OpFields, NoPendingType DEF Restored, Auth, Pending

LEMMA ClearStepsGoOn ==
  ASSUME TypeOK, GenerationsKnown, NEW a \in Actors,
         ClearBegin(a) \/ ClearStored(a)
  PROVE  GoesOn(a)
<1>1. /\ op[a] \in Op /\ op[a].gen \in Nat /\ op[a].gen <= auth.gen
      /\ op[a].cred \in Creds
  BY OpFields DEF GenerationsKnown
<1>2. /\ auth \in Auth /\ auth.gen \in Nat /\ auth.rev \in Nat
      /\ auth.gen + 1 \in Nat /\ auth.rev + 1 \in Nat
      /\ auth.cred \in Creds /\ auth.pending.gen \in {0, auth.gen}
  BY AuthFields
<1>3. LoginTyped
  BY DEF LoginTyped, TypeOK
<1>4. /\ op[a].pc \in Signed /\ op[a].pc \notin {"idle", "task.wait"}
      /\ op[a].pc \in {"clear.begin", "clear.store"}
  BY DEF ClearBegin, ClearStored, Signed
<1>5. ASSUME auth'.gen = auth.gen, NEW result,
             LeaveRefresh(a, ClearReturned(a, result))
      PROVE  /\ update' \in Actors \cup {NoActor}
             /\ \E s : Onward(a, s) /\ op' = Put(a, s)
  BY <1>1, <1>4, <1>5, OnwardClearReturned, LeaveRefreshGoesOn
<1>6. CASE ClearBegin(a) /\ Matches(op[a])
  <2> DEFINE r == [op[a] EXCEPT !.pc = "clear.store", !.gen = auth.gen + 1,
                                !.rev = auth.rev + 1]
  <2>1. /\ auth' = Forgotten(auth)
        /\ job' = Queued(a, "clear", auth.gen + 1, auth.rev + 1, NoCred)
        /\ Become(Put(a, r), update)
        /\ UNCHANGED <<store, calls, issued, valid, loggedOut, storeFault, spoiled>>
    BY <1>6 DEF ClearBegin, ghostVars
  <2>2. /\ auth' \in Auth /\ auth'.gen = auth.gen + 1 /\ auth'.pending.gen = 0
    BY <1>2, <2>1, ForgottenType, NoPendingType
  <2>3. job' \in [Actors -> Job]
    BY <1>2, <2>1, JobTypes, NoCredType
  <2>4. "clear.store" \in Points \ (Connecting \cup {"task.wait", "idle"})
    BY DEF Points, Awaits, Connecting
  <2>5. /\ r \in Op /\ r.gen = auth.gen + 1 /\ r.conn = op[a].conn
        /\ r.alive = op[a].alive /\ r.login = op[a].login /\ r.pc = "clear.store"
    BY <1>1, <1>2, <2>4 DEF Op
  <2> HIDE DEF r
  <2>6. r.gen <= auth'.gen
    BY <1>2, <2>2, <2>5
  <2>7. Onward(a, r)
    BY <1>4, <2>4, <2>5, <2>6 DEF Onward
  <2>8. /\ update' \in Actors \cup {NoActor}
        /\ \E s : Onward(a, s) /\ op' = Put(a, s)
    BY <2>1, <2>7, BecomeType, ReleasedType
  <2> QED
    BY <1>2, <1>3, <2>1, <2>2, <2>3, <2>8 DEF GoesOn, LoginTyped
<1>7. CASE ClearBegin(a) /\ ~Matches(op[a])
  <2>1. /\ UNCHANGED <<auth, store, job, calls, issued, valid, loggedOut, storeFault, spoiled>>
        /\ LeaveRefresh(a, ClearReturned(a, "false"))
    BY <1>7 DEF ClearBegin, ghostVars
  <2> QED
    BY <1>2, <1>3, <1>5, <2>1 DEF GoesOn, LoginTyped
<1>8. CASE ClearStored(a)
  <2>1. /\ auth' \in {auth, Restored(op[a])} /\ job' = Collected(a)
        /\ \/ Goto(a, "clear.cancel")
           \/ LeaveRefresh(a, ClearReturned(a, "false"))
           \/ LeaveRefresh(a, ClearReturned(a, "error"))
        /\ UNCHANGED <<store, calls, issued, valid, loggedOut, storeFault, spoiled>>
    BY <1>8 DEF ClearStored, ghostVars
  <2>2. auth' \in Auth /\ auth'.gen = auth.gen /\ auth'.pending.gen \in {0, auth.gen}
    BY <1>2, <2>1, RestoredType
  <2>3. job' \in [Actors -> Job]
    BY <2>1, JobTypes
  <2>4. "clear.cancel" \in Points \ (Connecting \cup {"task.wait", "idle"})
    BY DEF Points, Connecting
  <2>5. ASSUME Goto(a, "clear.cancel")
        PROVE  /\ update' \in Actors \cup {NoActor}
               /\ \E s : Onward(a, s) /\ op' = Put(a, s)
    <3>1. Onward(a, [op[a] EXCEPT !.pc = "clear.cancel"])
      BY <1>1, <1>4, <2>2, <2>4, OnwardTo
    <3> QED
      BY <2>5, <3>1, BecomeType, ReleasedType DEF Goto
  <2>6. /\ update' \in Actors \cup {NoActor}
        /\ \E s : Onward(a, s) /\ op' = Put(a, s)
    BY <1>5, <2>1, <2>2, <2>5
  <2> QED
    BY <1>2, <1>3, <2>1, <2>2, <2>3, <2>6 DEF GoesOn, LoginTyped
<1> QED
  BY <1>6, <1>7, <1>8

\* The commands of the login as they begin, and what is left of disconnect,
\* connect and stop when the connection is not theirs to change.
Plain(c) ==
  \/ LoginCall(c) \/ Connect(c) \/ StopPublish(c)
  \/ DisconnectLocked(c) \/ DisconnectStored(c) \/ DisconnectPublish(c)

LEMMA PlainStepsGoOn ==
  ASSUME TypeOK, GenerationsKnown, NEW c \in Commands, Plain(c)
  PROVE  GoesOn(c)
<1>1. c \in Actors /\ c \notin Tasks
  BY ActorKinds
<1>2. /\ op[c] \in Op /\ op[c].gen \in Nat /\ op[c].rev \in Nat
      /\ op[c].gen <= auth.gen /\ op[c].cred \in Creds
  BY <1>1, OpFields DEF GenerationsKnown
<1>3. /\ auth \in Auth /\ auth.gen \in Nat /\ auth.rev \in Nat
      /\ auth.gen + 1 \in Nat /\ auth.rev + 1 \in Nat
      /\ auth.cred \in Creds /\ auth.pending.gen \in {0, auth.gen}
      /\ auth.pending.gen \in Nat /\ auth.pending.gen <= auth.gen
  BY AuthFields DEF Pending
<1>4. LoginTyped
  BY DEF LoginTyped, TypeOK
<1>5. calls < MaxCalls => calls + 1 \in 0 .. MaxCalls
  BY <1>4, TwitchAssumption DEF LoginTyped
<1>6. ASSUME auth'.gen \in Nat, Finish(c)
      PROVE  /\ update' \in Actors \cup {NoActor}
             /\ \E r : Onward(c, r) /\ op' = Put(c, r)
  BY <1>1, <1>6, OnwardIdle, BecomeType, ReleasedType DEF Finish
<1>7. ASSUME NEW r \in Op, r.gen <= auth'.gen, r.conn \in {0, op[c].conn},
             r.pc \notin Connecting \cup {"task.wait"},
             NEW holder \in {update, c, Released(c)}, Become(Put(c, r), holder)
      PROVE  /\ update' \in Actors \cup {NoActor}
             /\ \E s : Onward(c, s) /\ op' = Put(c, s)
  <2>1. Onward(c, r)
    BY <1>7, OnwardCommand
  <2> QED
    BY <1>1, <1>7, <2>1, BecomeType, ReleasedType
<1>8. CASE StartAuth(c)
  <2> DEFINE r == [Idle EXCEPT !.pc = "start.reply", !.gen = auth.gen + 1]
  <2>1. /\ auth' = [Invalidated(auth) EXCEPT !.rev = @ + 1]
        /\ Become(Put(c, r), update) /\ calls' = calls + 1 /\ calls < MaxCalls
        /\ UNCHANGED <<store, job, issued, valid, loggedOut, storeFault, spoiled>>
    BY <1>8 DEF StartAuth, Call, ghostVars
  <2>2. /\ auth' \in Auth /\ auth'.gen = auth.gen + 1 /\ auth'.pending.gen = 0
    <3>1. /\ Invalidated(auth) \in Auth /\ Invalidated(auth).gen = auth.gen + 1
          /\ Invalidated(auth).pending = NoPending
          /\ Invalidated(auth).rev = auth.rev
      BY <1>3, InvalidatedType
    <3>2. Invalidated(auth).rev + 1 \in Nat
      BY <1>3, <3>1
    <3> QED
      BY <2>1, <3>1, <3>2, NoPendingType DEF Auth
  <2>3. "start.reply" \in Points \ (Connecting \cup {"task.wait"})
    BY DEF Points, Connecting
  <2>4. r \in Op /\ r.gen = auth.gen + 1 /\ r.conn = 0 /\ r.pc = "start.reply"
    BY <1>3, <2>3, IdleType DEF Op
  <2> HIDE DEF r
  <2>5. r.gen <= auth'.gen
    BY <1>3, <2>2, <2>4
  <2>6. /\ update' \in Actors \cup {NoActor}
        /\ \E s : Onward(c, s) /\ op' = Put(c, s)
    BY <1>7, <2>1, <2>3, <2>4, <2>5
  <2> QED
    BY <1>3, <1>4, <1>5, <2>1, <2>2, <2>6 DEF GoesOn, LoginTyped
<1>9. CASE PollAuth(c)
  <2> DEFINE r == [Idle EXCEPT !.pc = "poll.reply", !.gen = auth.pending.gen]
  <2>1. /\ auth' = [auth EXCEPT !.pending.polling = TRUE]
        /\ Become(Put(c, r), update) /\ calls' = calls + 1 /\ calls < MaxCalls
        /\ UNCHANGED <<store, job, issued, valid, loggedOut, storeFault, spoiled>>
    BY <1>9 DEF PollAuth, Call, ghostVars
  <2>2. auth' \in Auth /\ auth'.gen = auth.gen /\ auth'.pending.gen \in {0, auth.gen}
    BY <1>3, <2>1, PollingType
  <2>3. "poll.reply" \in Points \ (Connecting \cup {"task.wait"})
    BY DEF Points, Connecting
  <2>4. r \in Op /\ r.gen = auth.pending.gen /\ r.conn = 0 /\ r.pc = "poll.reply"
    BY <1>3, <2>3, IdleType DEF Op
  <2> HIDE DEF r
  <2>5. r.gen <= auth'.gen
    BY <1>3, <2>2, <2>4
  <2>6. /\ update' \in Actors \cup {NoActor}
        /\ \E s : Onward(c, s) /\ op' = Put(c, s)
    BY <1>7, <2>1, <2>3, <2>4, <2>5
  <2> QED
    BY <1>3, <1>4, <1>5, <2>1, <2>2, <2>6 DEF GoesOn, LoginTyped
<1>10. CASE ValidateAuth(c)
  <2> DEFINE r == [op[c] EXCEPT !.pc = "validate.lock"]
  <2>1. /\ auth' = auth
        /\ Become(Put(c, r), update) /\ calls' = calls + 1 /\ calls < MaxCalls
        /\ UNCHANGED <<store, job, issued, valid, loggedOut, storeFault, spoiled>>
    BY <1>10 DEF ValidateAuth, Call, Goto, ghostVars
  <2>2. "validate.lock" \in Points \ (Connecting \cup {"task.wait"})
    BY DEF Points, Connecting
  <2>3. r \in Op /\ r.gen = op[c].gen /\ r.conn = op[c].conn /\ r.pc = "validate.lock"
    BY <1>2, <2>2, PcType
  <2> HIDE DEF r
  <2>4. r.gen <= auth'.gen
    BY <1>2, <2>1, <2>3
  <2>5. /\ update' \in Actors \cup {NoActor}
        /\ \E s : Onward(c, s) /\ op' = Put(c, s)
    BY <1>7, <2>1, <2>2, <2>3, <2>4
  <2> QED
    BY <1>3, <1>4, <1>5, <2>1, <2>5 DEF GoesOn, LoginTyped
<1>11. CASE Disconnect(c)
  <2> DEFINE r == [Idle EXCEPT !.pc = "disconnect.lock", !.gen = auth.gen + 1,
                               !.rev = auth.rev + 1, !.cred = auth.cred]
  <2>1. /\ auth' = Forgotten(auth)
        /\ Become(Put(c, r), update) /\ calls' = calls + 1 /\ calls < MaxCalls
        /\ UNCHANGED <<store, job, issued, valid, loggedOut, storeFault, spoiled>>
    BY <1>11 DEF Disconnect, Call, ghostVars
  <2>2. /\ auth' \in Auth /\ auth'.gen = auth.gen + 1 /\ auth'.pending.gen = 0
    BY <1>3, <2>1, ForgottenType, NoPendingType
  <2>3. "disconnect.lock" \in Points \ (Connecting \cup {"task.wait"})
    BY DEF Points, Connecting
  <2>4. r \in Op /\ r.gen = auth.gen + 1 /\ r.conn = 0 /\ r.pc = "disconnect.lock"
    BY <1>3, <2>3, IdleType DEF Op
  <2> HIDE DEF r
  <2>5. r.gen <= auth'.gen
    BY <1>3, <2>2, <2>4
  <2>6. /\ update' \in Actors \cup {NoActor}
        /\ \E s : Onward(c, s) /\ op' = Put(c, s)
    BY <1>7, <2>1, <2>3, <2>4, <2>5
  <2> QED
    BY <1>3, <1>4, <1>5, <2>1, <2>2, <2>6 DEF GoesOn, LoginTyped
<1>12. CASE Connect(c)
  <2> DEFINE r == [Idle EXCEPT !.pc = "connect.reserve", !.login = auth.gen]
  <2>1. /\ auth' = auth
        /\ Become(Put(c, r), update) /\ calls' = calls + 1 /\ calls < MaxCalls
        /\ UNCHANGED <<store, job, issued, valid, loggedOut, storeFault, spoiled>>
    BY <1>12 DEF Connect, Call, ghostVars, loginVars
  <2>2. "connect.reserve" \in Points \ (Connecting \cup {"task.wait"})
    BY DEF Points, Connecting
  <2>3. r \in Op /\ r.gen = 0 /\ r.conn = 0 /\ r.pc = "connect.reserve"
    BY <1>3, <2>2, IdleType DEF Op, Idle
  <2> HIDE DEF r
  <2>4. r.gen <= auth'.gen
    BY <1>3, <2>1, <2>3
  <2>5. /\ update' \in Actors \cup {NoActor}
        /\ \E s : Onward(c, s) /\ op' = Put(c, s)
    BY <1>7, <2>1, <2>2, <2>3, <2>4
  <2> QED
    BY <1>3, <1>4, <1>5, <2>1, <2>5 DEF GoesOn, LoginTyped
<1>13. CASE StopPublish(c) \/ DisconnectPublish(c)
  <2>1. /\ UNCHANGED <<auth, store, job, calls, issued, valid, loggedOut, storeFault, spoiled>>
        /\ Finish(c)
    BY <1>13 DEF StopPublish, DisconnectPublish, ghostVars, loginVars
  <2> QED
    BY <1>3, <1>4, <1>6, <2>1 DEF GoesOn, LoginTyped
<1>14. CASE DisconnectLocked(c)
  <2> DEFINE r == [op[c] EXCEPT !.pc = "disconnect.store"]
  <2>1. /\ auth' = auth /\ job' = Queued(c, "clear", op[c].gen, op[c].rev, NoCred)
        /\ Become(Put(c, r), c)
        /\ UNCHANGED <<store, calls, issued, valid, loggedOut, storeFault, spoiled>>
    BY <1>14 DEF DisconnectLocked, ghostVars
  <2>2. "disconnect.store" \in Points \ (Connecting \cup {"task.wait"})
    BY DEF Points, Connecting
  <2>3. r \in Op /\ r.gen = op[c].gen /\ r.conn = op[c].conn /\ r.pc = "disconnect.store"
    BY <1>2, <2>2, PcType
  <2> HIDE DEF r
  <2>4. r.gen <= auth'.gen
    BY <1>2, <2>1, <2>3
  <2>5. /\ update' \in Actors \cup {NoActor}
        /\ \E s : Onward(c, s) /\ op' = Put(c, s)
    BY <1>7, <2>1, <2>2, <2>3, <2>4
  <2>6. job' \in [Actors -> Job]
    BY <1>1, <1>2, <2>1, JobTypes, NoCredType
  <2> QED
    BY <1>3, <1>4, <2>1, <2>5, <2>6 DEF GoesOn, LoginTyped
<1>15. CASE DisconnectStored(c)
  <2> DEFINE r == [op[c] EXCEPT !.pc = "disconnect.cancel"]
  <2>1. /\ auth' \in {auth, Restored(op[c])} /\ job' = Collected(c)
        /\ Finish(c) \/ Become(Put(c, r), Released(c))
        /\ UNCHANGED <<store, calls, issued, valid, loggedOut, storeFault, spoiled>>
    BY <1>15 DEF DisconnectStored, ghostVars
  <2>2. auth' \in Auth /\ auth'.gen = auth.gen /\ auth'.pending.gen \in {0, auth.gen}
    BY <1>1, <1>3, <2>1, RestoredType
  <2>3. "disconnect.cancel" \in Points \ (Connecting \cup {"task.wait"})
    BY DEF Points, Connecting
  <2>4. r \in Op /\ r.gen = op[c].gen /\ r.conn = op[c].conn /\ r.pc = "disconnect.cancel"
    BY <1>2, <2>3, PcType
  <2> HIDE DEF r
  <2>5. r.gen <= auth'.gen
    BY <1>2, <2>2, <2>4
  <2>6. /\ update' \in Actors \cup {NoActor}
        /\ \E s : Onward(c, s) /\ op' = Put(c, s)
    BY <1>3, <1>6, <1>7, <2>1, <2>2, <2>3, <2>4, <2>5
  <2>7. job' \in [Actors -> Job]
    BY <1>1, <2>1, JobTypes
  <2> QED
    BY <1>3, <1>4, <2>1, <2>2, <2>6, <2>7 DEF GoesOn, LoginTyped
<1> QED
  BY <1>8, <1>9, <1>10, <1>11, <1>12, <1>13, <1>14, <1>15 DEF Plain, LoginCall

-----------------------------------------------------------------------------
(***************************************************************************)
(* The steps of an EventSub task, and of the jobs on blocking threads.     *)
(***************************************************************************)
\* A task publishes a status under its own generation, and one that ends the
\* connection only as it ends itself.
ChatOf(g) ==
  \/ chat' = chat
  \/ \E status \in Statuses :
       /\ chat' = Recorded(g, status)
       /\ status \in LiveStatuses \/ op'[g].pc = "idle"

HeardFrom(g) == heard' \in {0, heard} \/ (heard' = g /\ owner.conn = g)

TaskGoesOn(g) ==
  /\ GoesOn(g) /\ ChatOf(g) /\ HeardFrom(g)
  /\ owner' = owner /\ ended' = ended

LEMMA TaskStepsGoOn ==
  ASSUME TypeOK, GenerationsKnown, NEW g \in Tasks, TaskStep(g)
  PROVE  TaskGoesOn(g)
<1> DEFINE r == op[g]
           Rest == UNCHANGED <<auth, store, job, owner, calls, issued, valid,
                               loggedOut, ended, spoiled, storeFault>>
           Inner == Points \ (Connecting \cup {"task.wait", "idle"})
<1>1. g \in Actors /\ g \notin Commands
  BY ActorKinds
<1>2. /\ r \in Op /\ r.gen \in Nat /\ r.gen <= auth.gen
  BY <1>1, OpFields DEF GenerationsKnown
<1>3. /\ auth \in Auth /\ auth.gen \in Nat /\ auth.rev \in Nat
      /\ auth.cred \in Creds /\ auth.pending.gen \in {0, auth.gen}
  BY AuthFields
<1>4. LoginTyped
  BY DEF LoginTyped, TypeOK
<1>5. ASSUME NEW s, Onward(g, s), NEW holder \in {update, g}, Rest,
             Become(Put(g, s), holder)
      PROVE  GoesOn(g)
  <2>1. op' = Put(g, s) /\ update' \in Actors \cup {NoActor}
    BY <1>1, <1>5, BecomeType, ReleasedType
  <2> QED
    BY <1>3, <1>4, <1>5, <2>1 DEF GoesOn, LoginTyped
<1>6. ASSUME NEW pc \in Inner, r.pc \notin {"idle", "task.wait"}, Rest,
             pc \in Signed => r.pc \in Signed, Goto(g, pc)
      PROVE  GoesOn(g)
  <2>1. Onward(g, [r EXCEPT !.pc = pc])
    BY <1>1, <1>2, <1>6, OnwardTo
  <2> QED
    BY <1>5, <1>6, <2>1 DEF Goto
<1>7. ASSUME r.pc \notin {"idle", "task.wait"}, Rest, Finish(g)
      PROVE  GoesOn(g)
  <2>1. Onward(g, Idle)
    BY <1>1, <1>3, <1>7, OnwardIdle
  <2> QED
    BY <1>5, <1>7, <2>1 DEF Finish
<1>8. /\ LiveStatuses \subseteq Statuses
      /\ {"task.begin", "task.lookup", "task.found", "task.socket", "task.down", "task.sleep",
          "task.send", "task.lock", "task.connected", "task.live", "task.frame",
          "task.overlap", "task.switch", "task.handover", "end.Error",
          "end.AuthRequired", "end.Disconnected", "refresh.request"} \subseteq Inner
  BY DEF LiveStatuses, Statuses, Points, Awaits, Ends, Connecting
<1>9. {"task.send", "task.lock", "task.connected", "task.live", "task.frame",
       "task.overlap", "task.switch", "task.handover", "refresh.request"} \subseteq Signed
  BY DEF Signed, Subscribed
<1>10. /\ "idle" \notin Signed
       /\ {"task.begin", "task.found", "task.socket", "task.down", "task.sleep",
           "task.lookup", "task.wait", "end.Error", "end.AuthRequired",
           "end.Disconnected"} \cap Signed = {}
  BY DEF Signed, Subscribed
<1> HIDE DEF r, Inner
<1>11. ASSUME NEW from, NEW to \in Inner, Moves(g, from, to),
              from \notin {"idle", "task.wait"}, to \in Signed => from \in Signed
       PROVE  TaskGoesOn(g)
  <2>1. Goto(g, to) /\ Rest /\ chat' = chat /\ heard' = heard /\ r.pc = from
    BY <1>11 DEF Moves, loginVars, chatVars, ghostVars, r
  <2> QED
    BY <1>6, <1>11, <2>1 DEF TaskGoesOn, ChatOf, HeardFrom
<1>12. ASSUME NEW from, NEW to \in Inner, NEW status \in LiveStatuses,
              Publishes(g, from, status, to),
              from \notin {"idle", "task.wait"}, to \in Signed => from \in Signed
       PROVE  TaskGoesOn(g)
  <2>1. Goto(g, to) /\ Rest /\ chat' = Recorded(g, status) /\ heard' = heard /\ r.pc = from
    BY <1>12 DEF Publishes, loginVars, ghostVars, r
  <2> QED
    BY <1>6, <1>8, <1>12, <2>1 DEF TaskGoesOn, ChatOf, HeardFrom
<1>13. ASSUME TaskLookup(g) \/ TaskSocketFails(g) \/ TaskRevoked(g)
              \/ TaskSwitched(g) \/ TaskDrops(g) \/ TaskAwakes(g)
       PROVE  TaskGoesOn(g)
  BY <1>8, <1>9, <1>10, <1>11, <1>13 DEF TaskLookup, TaskSocketFails, TaskRevoked,
    TaskSwitched, TaskDrops, TaskAwakes
<1>14. ASSUME TaskBegin(g) \/ TaskConnected(g) \/ TaskSwitch(g) \/ TaskDown(g)
       PROVE  TaskGoesOn(g)
  <2>1. {"Connecting", "Connected", "Reconnecting"} \subseteq LiveStatuses
    BY DEF LiveStatuses
  <2>2. CASE TaskBegin(g)
    BY <1>8, <1>10, <1>12, <2>1, <2>2 DEF TaskBegin
  <2>3. CASE TaskConnected(g)
    BY <1>8, <1>9, <1>12, <2>1, <2>3 DEF TaskConnected
  <2>4. CASE TaskSwitch(g)
    BY <1>8, <1>9, <1>11, <1>12, <2>1, <2>4 DEF TaskSwitch
  <2>5. CASE TaskDown(g)
    BY <1>8, <1>10, <1>12, <2>1, <2>5 DEF TaskDown
  <2> QED
    BY <1>14, <2>2, <2>3, <2>4, <2>5
<1>15. CASE TaskEnd(g)
  <2>1. PICK terminal \in {<<"end.Error", "Error">>,
                   <<"end.AuthRequired", "AuthRequired">>,
                   <<"end.Disconnected", "Disconnected">>} :
          Publishes(g, terminal[1], terminal[2], "idle")
    BY <1>15 DEF TaskEnd
  <2>2. /\ Goto(g, "idle") /\ Rest /\ chat' = Recorded(g, terminal[2]) /\ heard' = heard
        /\ r.pc = terminal[1] /\ terminal[2] \in Statuses
        /\ r.pc \notin {"idle", "task.wait"}
    BY <2>1 DEF Publishes, loginVars, ghostVars, Statuses, r
  <2>3. Put(g, [op[g] EXCEPT !.pc = "idle"]) = Put(g, Idle)
    <3>1. [op[g] EXCEPT !.pc = "idle"].pc = "idle"
      BY <1>2 DEF r, Op
    <3>2. Advance([op[g] EXCEPT !.pc = "idle"]) = Idle /\ Advance(Idle) = Idle
      BY <3>1, IdleType DEF Advance
    <3> QED
      BY <3>2 DEF Put
  <2>4. Finish(g)
    BY <2>2, <2>3 DEF Goto, Finish
  <2>5. GoesOn(g)
    BY <1>7, <2>2, <2>4
  <2>6. op'[g].pc = "idle"
    <3>1. op' = Put(g, Idle)
      BY <1>1, <2>4, BecomeType, ReleasedType DEF Finish
    <3>2. Arrived(Put(g, Idle)[g], Idle)
      BY <1>1, IdleType, PutType, OpFields
    <3> QED
      BY <3>1, <3>2, IdleType DEF Arrived
  <2> QED
    BY <2>2, <2>5, <2>6 DEF TaskGoesOn, ChatOf, HeardFrom
<1>16. CASE TaskFound(g)
  <2>1. /\ Goto(g, "task.begin") \/ Finish(g)
        /\ Rest /\ chat' = chat /\ heard' = heard /\ r.pc = "task.found"
    BY <1>16 DEF TaskFound, loginVars, chatVars, ghostVars, r
  <2> QED
    BY <1>6, <1>7, <1>8, <1>10, <2>1 DEF TaskGoesOn, ChatOf, HeardFrom
<1>17. ASSUME TaskFrame(g) \/ Dispatch(g)
       PROVE  TaskGoesOn(g)
  <2>1. /\ \/ r.pc = "task.live" /\ Goto(g, "task.frame")
           \/ r.pc = "task.handover" /\ Goto(g, "task.overlap")
           \/ r.pc = "task.frame" /\ Goto(g, "task.live")
           \/ r.pc = "task.overlap" /\ Goto(g, "task.handover")
        /\ Rest /\ chat' = chat /\ HeardFrom(g)
    BY <1>17 DEF TaskFrame, Dispatch, loginVars, chatVars, r, HeardFrom
  <2>2. GoesOn(g)
    BY <1>6, <1>8, <1>9, <2>1
  <2> QED
    BY <2>1, <2>2 DEF TaskGoesOn, ChatOf
<1>18. CASE TaskWelcome(g)
  <2> DEFINE s == [r EXCEPT !.pc = "task.send", !.gen = auth.gen, !.rev = auth.rev,
                            !.cred = auth.cred, !.second = FALSE]
  <2>1. /\ r.pc = "task.socket"
        /\ Rest /\ chat' = chat /\ heard' = heard
        /\ \/ Goto(g, "task.down") \/ Goto(g, "end.Disconnected")
           \/ auth.gen = r.login /\ Become(Put(g, s), update)
    BY <1>18 DEF TaskWelcome, loginVars, chatVars, ghostVars, Goto, r
  <2>2. ASSUME auth.gen = r.login, Become(Put(g, s), update)
        PROVE  GoesOn(g)
    <3>1. /\ s \in Op /\ s.gen = auth.gen /\ s.conn = r.conn /\ s.pc = "task.send"
          /\ s.alive = r.alive /\ s.login = r.login
      BY <1>2, <1>3, <1>8 DEF Op, Inner
    <3> HIDE DEF s
    <3>2. s.gen <= auth'.gen
      BY <1>3, <2>1, <3>1
    <3>3. Onward(g, s)
      BY <2>1, <2>2, <3>1, <3>2 DEF Onward, Connecting, r
    <3> QED
      BY <1>5, <2>1, <2>2, <3>3
  <2>3. GoesOn(g)
    BY <1>6, <1>8, <1>10, <2>1, <2>2
  <2> QED
    BY <2>1, <2>3 DEF TaskGoesOn, ChatOf, HeardFrom
<1>19. CASE TaskSent(g)
  <2> DEFINE rejected == Because(r, "clear.begin", "rejected")
  <2>1. /\ r.pc = "task.send"
        /\ Rest /\ chat' = chat /\ heard' = heard
        /\ \/ Become(Put(g, rejected), update)
           \/ \E pc \in {"task.connected", "end.Error", "task.down", "task.lock"} : Goto(g, pc)
    BY <1>19 DEF TaskSent, loginVars, chatVars, ghostVars, Goto, Because, r
  <2>2. Onward(g, rejected)
    <3>1. "clear.begin" \in Points /\ "rejected" \in Reasons
      BY DEF Points, Reasons
    <3>2. rejected \in Op /\ rejected.gen = r.gen /\ rejected.conn = r.conn
          /\ rejected.pc = "clear.begin" /\ rejected.alive = r.alive
          /\ rejected.login = r.login
      BY <1>2, <3>1, BecauseType
    <3> HIDE DEF rejected
    <3> QED
      BY <1>2, <1>9, <2>1, <3>2 DEF Onward, Connecting, r
  <2>3. GoesOn(g)
    BY <1>5, <1>6, <1>8, <1>9, <2>1, <2>2
  <2> QED
    BY <2>1, <2>3 DEF TaskGoesOn, ChatOf, HeardFrom
<1>20. CASE TaskLocked(g)
  <2>1. /\ r.pc = "task.lock"
        /\ Rest /\ chat' = chat /\ heard' = heard
        /\ \/ Goto(g, "task.down") \/ Goto(g, "end.Disconnected")
           \/ Become(Put(g, Latest(op[g])), update)
           \/ Become(Put(g, [op[g] EXCEPT !.pc = "refresh.request"]), g)
    BY <1>20 DEF TaskLocked, loginVars, chatVars, ghostVars, r
  <2>2. Onward(g, Latest(op[g])) /\ Onward(g, [op[g] EXCEPT !.pc = "refresh.request"])
    BY <1>1, <1>2, <1>8, <1>9, <2>1, OnwardLatest, OnwardTo DEF r, Inner
  <2>3. GoesOn(g)
    BY <1>5, <1>6, <1>8, <1>9, <2>1, <2>2
  <2> QED
    BY <2>1, <2>3 DEF TaskGoesOn, ChatOf, HeardFrom
<1> QED
  BY <1>13, <1>14, <1>15, <1>16, <1>17, <1>18, <1>19, <1>20 DEF TaskStep

LEMMA JobStepsKeepTypes ==
  ASSUME TypeOK, NEW a \in Actors, JobStep(a)
  PROVE  LoginTyped' /\ UNCHANGED <<auth, op, owner, chat, ended, heard>>
<1>1. /\ job \in [Actors -> Job] /\ NoCred \in Creds /\ job[a] \in Job
      /\ job[a].cred \in Creds
  BY NoCredType DEF TypeOK, Job
<1>2. LoginTyped
  BY DEF LoginTyped, TypeOK
<1>3. \A state \in {"writing", "written"} \cup Results :
        [job EXCEPT ![a].state = state] \in [Actors -> Job]
  <2> TAKE state \in {"writing", "written"} \cup Results
  <2>1. [job[a] EXCEPT !.state = state] \in Job
    BY <1>1 DEF Job
  <2> QED
    BY <1>1, <2>1
<1>4. \A result \in Results : JobEnds(a, result) \in [Actors -> Job]
  <2> TAKE result \in Results
  <2>1. NoJob \in Job /\ [job[a] EXCEPT !.state = result] \in Job
    BY <1>1 DEF Job, NoJob
  <2> QED
    BY <1>1, <2>1 DEF JobEnds
<1>5. {"stale", "failed", "saved", "cleared"} \subseteq Results
  BY DEF Results
<1>6. /\ job' \in [Actors -> Job] /\ store' \in Creds /\ storeFault' \in BOOLEAN
      /\ loggedOut' \in Creds
      /\ UNCHANGED <<auth, op, owner, chat, ended, heard, update, calls, issued,
                     valid, spoiled>>
  <2>1. CASE JobStart(a)
    BY <1>2, <1>3, <1>4, <1>5, <2>1 DEF JobStart, chatVars, ghostVars, LoginTyped
  <2>2. CASE JobWrite(a)
    BY <1>1, <1>2, <1>3, <1>4, <1>5, <2>2 DEF JobWrite, chatVars, ghostVars, LoginTyped
  <2>3. CASE JobFault(a)
    BY <1>1, <1>2, <1>3, <1>4, <1>5, <2>3 DEF JobFault, chatVars, ghostVars, LoginTyped
  <2>4. CASE JobEnd(a)
    BY <1>1, <1>2, <1>3, <1>4, <1>5, <2>4 DEF JobEnd, chatVars, ghostVars, LoginTyped
  <2> QED
    BY <2>1, <2>2, <2>3, <2>4 DEF JobStep
<1> QED
  BY <1>2, <1>6 DEF LoginTyped

\* The login never touches the connection: only a published status does.
LEMMA LoginLeavesChat ==
  ASSUME NEW a,
         LoginStep(a) \/ RefreshStep(a) \/ ClearBegin(a) \/ ClearStored(a) \/ Plain(a)
  PROVE  /\ UNCHANGED <<owner, ended, heard>>
         /\ \/ chat' = chat
            \/ /\ op[a].pc \in {"stop.publish", "disconnect.publish"}
               /\ chat' = Recorded(op[a].conn, "Disconnected")
<1>1. CASE LoginStep(a)
  BY <1>1 DEF LoginStep, StartReply, PollGranted, PollPending, PollRefused,
    PollCheckFailed, PollScopeMissing, LogIn, SaveReturned, ValidateLocked,
    ValidateAccepted, ValidateScopeMissing, ValidateFailed, chatVars, ghostVars
<1>2. CASE RefreshStep(a)
  BY <1>2 DEF RefreshStep, TwitchRotates, RefreshReplied, RefreshLost, RefreshRefused,
    RefreshCheckFailed, RefreshScopeMissing, RefreshCommit, RefreshSaved,
    chatVars, ghostVars
<1>3. CASE ClearBegin(a) \/ ClearStored(a)
  BY <1>3 DEF ClearBegin, ClearStored, chatVars, ghostVars
<1>4. CASE Plain(a)
  BY <1>4 DEF Plain, LoginCall, StartAuth, PollAuth, ValidateAuth, Disconnect,
    Connect, StopPublish, DisconnectLocked, DisconnectStored, DisconnectPublish,
    chatVars, ghostVars
<1> QED
  BY <1>1, <1>2, <1>3, <1>4

-----------------------------------------------------------------------------
(***************************************************************************)
(* The invariant of the connection.  A generation is handed out once; its  *)
(* task waits until its command has registered it, runs only while it owns *)
(* the connection, and is not alive once another generation is.            *)
(***************************************************************************)
TaskInv(g) ==
  /\ op[g].pc # "idle" => g <= owner.gen
  /\ Runs(g) => owner.conn = g
  /\ op[g].pc \notin Connecting
  \* Its status is final only when it has ended.
  /\ owner.conn = g /\ chat.gen = g /\ op[g].pc # "idle" =>
       chat.status \in LiveStatuses

CommandInv(c) ==
  LET g == op[c].conn IN
  op[c].pc \in Connecting =>
    /\ g # 0 /\ g <= owner.gen
    /\ \A d \in Commands \ {c} : op[d].pc \in Connecting => op[d].conn # g
    \* Before it is registered, nothing is said in its name, and it waits.
    /\ op[c].pc = "connect.register" =>
         /\ owner.conn # g /\ chat.gen # g
         /\ g \in Tasks => op[g].pc \in {"idle", "task.wait"}
    \* Once it is registered, it waits only while it is the owner.
    /\ op[c].pc \in {"connect.publish", "connect.go"} =>
         (g \in Tasks /\ op[g].pc = "task.wait" => owner.conn = g)
    /\ op[c].pc \in {"stop.publish", "disconnect.publish"} => owner.conn # g

ConnectionInv ==
  /\ owner.conn \in {0, owner.gen}
  /\ \A g \in Tasks : TaskInv(g)
  /\ \A c \in Commands : CommandInv(c)

\* No session is of a login that a disconnect has ended.
SessionInv ==
  /\ ended <= auth.gen
  /\ \A g \in Tasks : op[g].alive /\ op[g].pc \in Signed => op[g].login >= ended

ChatInv == TypeOK /\ GenerationsKnown /\ ConnectionInv /\ SessionInv

LEMMA ConnectionFields ==
  ASSUME TypeOK
  PROVE  /\ owner \in Owner /\ owner.gen \in Nat /\ owner.conn \in Nat
         /\ chat \in Status /\ chat.gen \in Nat /\ chat.gen <= owner.gen
         /\ ended \in Nat /\ heard \in Nat /\ auth.gen \in Nat
BY AuthFields DEF TypeOK, Owner, Status

LEMMA TypesTogether ==
  ASSUME LoginTyped', op' \in [Actors -> Op], owner' \in Owner,
         chat' \in Status, chat'.gen <= owner'.gen, ended' \in Nat, heard' \in Nat
  PROVE  TypeOK'
BY DEF TypeOK, LoginTyped

LEMMA RecordedType ==
  ASSUME TypeOK, NEW gen \in Nat, gen <= owner.gen, NEW status \in Statuses,
         chat' = Recorded(gen, status)
  PROVE  /\ chat' \in Status /\ chat'.gen <= owner.gen
         /\ \/ chat' = chat
            \/ chat'.gen = gen /\ chat'.status = status /\ gen >= chat.gen
<1>1. chat \in Status /\ chat.gen \in Nat /\ chat.gen <= owner.gen
      /\ chat.active \in BOOLEAN
  BY ConnectionFields DEF Status
<1> DEFINE lives == \/ status = "Connected"
                    \/ gen = chat.gen /\ chat.active /\ status # "Disconnected"
<1>2. chat' = chat \/ (gen >= chat.gen /\
        chat' = [gen |-> gen, status |-> status, active |-> lives])
  BY <1>1 DEF Recorded
<1>3. lives \in BOOLEAN
  BY <1>1
<1> HIDE DEF lives
<1> QED
  BY <1>1, <1>2, <1>3 DEF Status

\* What a step that goes on does to the invocations.
LEMMA GoesOnEffect ==
  ASSUME TypeOK, NEW a \in Actors, GoesOn(a)
  PROVE  /\ op' \in [Actors -> Op]
         /\ op'[a].gen <= auth'.gen
         /\ op'[a].pc \notin Connecting \cup {"task.wait"}
         /\ \A b \in Actors \ {a} : op'[b] = op[b]
         /\ a \in Tasks =>
              /\ op[a].pc \notin {"idle", "task.wait"}
              /\ op'[a].pc # "idle" =>
                   /\ op'[a].alive = op[a].alive /\ op'[a].login = op[a].login
                   /\ op'[a].pc \in Signed =>
                        op[a].pc \in Signed \/ auth.gen = op[a].login
<1>1. PICK r : Onward(a, r) /\ op' = Put(a, r)
  BY DEF GoesOn
<1>2. r \in Op /\ op \in [Actors -> Op] /\ auth'.gen \in Nat
  BY <1>1, OpFields DEF Onward, GoesOn, LoginTyped, Auth
<1>3. /\ op' \in [Actors -> Op] /\ Arrived(op'[a], r)
      /\ \A b \in Actors \ {a} : op'[b] = op[b]
  BY <1>1, <1>2, PutType
<1>4. Idle.gen = 0 /\ Bare(r).gen = 0 /\ "idle" \notin Connecting
  BY DEF Idle, Bare, Connecting
<1>5. op'[a].gen <= auth'.gen
  BY <1>1, <1>2, <1>3, <1>4 DEF Arrived, Onward
<1>6. op'[a] = Idle \/ (op'[a].pc = r.pc /\ op'[a].login = r.login /\ op'[a].alive = r.alive)
  BY <1>3 DEF Arrived
<1> QED
  BY <1>1, <1>3, <1>4, <1>5, <1>6, IdleType DEF Onward

LEMMA GoesOnKeeps ==
  ASSUME ChatInv, NEW a \in Actors, GoesOn(a), heard' \in Nat,
         UNCHANGED <<owner, ended>>,
         \/ chat' = chat
         \/ a \in Tasks /\ ChatOf(a)
         \/ /\ a \in Commands
            /\ op[a].pc \in {"stop.publish", "disconnect.publish"}
            /\ chat' = Recorded(op[a].conn, "Disconnected")
  PROVE  ChatInv'
<1>1. /\ TypeOK /\ GenerationsKnown /\ ConnectionInv /\ SessionInv
      /\ owner \in Owner /\ owner.gen \in Nat /\ owner.conn \in Nat
      /\ chat \in Status /\ chat.gen \in Nat /\ chat.gen <= owner.gen
      /\ ended \in Nat /\ auth.gen \in Nat /\ auth'.gen \in Nat
      /\ auth'.gen >= auth.gen
  BY ConnectionFields DEF ChatInv, GoesOn, LoginTyped, Auth
<1>2. /\ op' \in [Actors -> Op]
      /\ op'[a].gen <= auth'.gen
      /\ op'[a].pc \notin Connecting \cup {"task.wait"}
      /\ \A b \in Actors \ {a} : op'[b] = op[b]
      /\ a \in Tasks =>
           /\ op[a].pc \notin {"idle", "task.wait"}
           /\ op'[a].pc # "idle" =>
                /\ op'[a].alive = op[a].alive /\ op'[a].login = op[a].login
                /\ op'[a].pc \in Signed =>
                     op[a].pc \in Signed \/ auth.gen = op[a].login
  BY <1>1, GoesOnEffect
\* A status that changes is that of the task, or of a command that took the
\* connection away.
<1>3. /\ chat' \in Status /\ chat'.gen <= owner.gen
      /\ \/ chat' = chat
         \/ /\ a \in Tasks /\ chat'.gen = a
            /\ op'[a].pc # "idle" => chat'.status \in LiveStatuses
         \/ /\ a \in Commands /\ op[a].pc \in Connecting
            /\ chat'.gen = op[a].conn /\ owner.conn # op[a].conn
  <2>1. CASE a \in Tasks /\ ChatOf(a)
    <3>1. a \in Nat /\ a <= owner.gen
      BY <1>1, <1>2, <2>1, ActorKinds DEF ConnectionInv, TaskInv
    <3> QED
      BY <1>1, <2>1, <3>1, RecordedType DEF ChatOf
  <2>2. CASE /\ a \in Commands
             /\ op[a].pc \in {"stop.publish", "disconnect.publish"}
             /\ chat' = Recorded(op[a].conn, "Disconnected")
    <3>1. op[a].pc \in Connecting /\ "Disconnected" \in Statuses
      BY <2>2 DEF Connecting, Statuses
    <3>2. op[a].conn \in Nat /\ op[a].conn <= owner.gen /\ owner.conn # op[a].conn
      BY <1>1, <2>2, <3>1, OpFields DEF ConnectionInv, CommandInv
    <3> QED
      BY <1>1, <2>2, <3>1, <3>2, RecordedType
  <2> QED
    BY <1>1, <2>1, <2>2
<1>4. TypeOK'
  BY <1>1, <1>2, <1>3, TypesTogether DEF GoesOn
<1>5. GenerationsKnown'
  <2>1. \A b \in Actors : op'[b].gen <= auth'.gen
    BY <1>1, <1>2, OpFields DEF GenerationsKnown
  <2> QED
    BY <2>1 DEF GenerationsKnown
<1>6. ASSUME NEW g \in Tasks
      PROVE  TaskInv(g)'
  <2>1. g \in Actors /\ TaskInv(g)
    BY <1>1, ActorKinds DEF ConnectionInv
  <2>2. /\ op'[g].pc # "idle" => op[g].pc # "idle"
        /\ Runs(g)' => Runs(g)
        /\ op'[g].pc \notin Connecting
    BY <1>2, <2>1 DEF TaskInv, Runs
  <2>3. owner'.conn = g /\ chat'.gen = g /\ op'[g].pc # "idle" =>
          chat'.status \in LiveStatuses
    <3>1. CASE chat' = chat
      BY <2>1, <2>2, <3>1 DEF TaskInv
    <3>2. CASE chat' # chat
      BY <1>3, <3>2
    <3> QED
      BY <3>1, <3>2
  <2> QED
    BY <2>1, <2>2, <2>3 DEF TaskInv
<1>7. ASSUME NEW c \in Commands
      PROVE  CommandInv(c)'
  <2> SUFFICES ASSUME op'[c].pc \in Connecting PROVE CommandInv(c)'
    BY DEF CommandInv
  <2>1. c \in Actors /\ c # a /\ op'[c] = op[c] /\ op[c].pc \in Connecting /\ CommandInv(c)
    BY <1>1, <1>2, ActorKinds DEF ConnectionInv
  <2> DEFINE g == op[c].conn
  <2>2. g # 0 /\ g <= owner.gen
    BY <2>1 DEF CommandInv
  <2>3. \A d \in Commands \ {c} : op'[d].pc \in Connecting => op'[d].conn # g
    <3> TAKE d \in Commands \ {c}
    <3>1. d \in Actors /\ (op'[d].pc \in Connecting => op'[d] = op[d])
      BY <1>2, ActorKinds
    <3> QED
      BY <2>1, <3>1 DEF CommandInv
  <2>4. op[c].pc = "connect.register" =>
          /\ owner.conn # g /\ chat'.gen # g
          /\ g \in Tasks => op'[g].pc \in {"idle", "task.wait"}
    <3> SUFFICES ASSUME op[c].pc = "connect.register"
                 PROVE  /\ owner.conn # g /\ chat'.gen # g
                        /\ g \in Tasks => op'[g].pc \in {"idle", "task.wait"}
      OBVIOUS
    <3>1. /\ owner.conn # g /\ chat.gen # g
          /\ g \in Tasks => op[g].pc \in {"idle", "task.wait"}
      BY <2>1 DEF CommandInv
    <3>2. a # g
      BY <1>2, <3>1, ActorKinds, OpFields, <1>1, <2>1
    <3>3. a \in Commands /\ op[a].pc \in Connecting => op[a].conn # g
      BY <2>1 DEF CommandInv
    <3> QED
      BY <1>2, <1>3, <3>1, <3>2, <3>3, ActorKinds
  <2>5. op[c].pc \in {"connect.publish", "connect.go"} =>
          (g \in Tasks /\ op'[g].pc = "task.wait" => owner.conn = g)
    <3>1. g \in Tasks /\ op'[g].pc = "task.wait" => g \in Actors /\ op[g].pc = "task.wait"
      BY <1>2, ActorKinds
    <3> QED
      BY <2>1, <3>1 DEF CommandInv
  <2>6. op[c].pc \in {"stop.publish", "disconnect.publish"} => owner.conn # g
    BY <2>1 DEF CommandInv
  <2> QED
    BY <2>1, <2>2, <2>3, <2>4, <2>5, <2>6 DEF CommandInv
<1>8. ConnectionInv'
  BY <1>1, <1>6, <1>7 DEF ConnectionInv
<1>9. SessionInv'
  <2>1. ASSUME NEW g \in Tasks, op'[g].alive, op'[g].pc \in Signed
        PROVE  op'[g].login >= ended
    <3>1. g \in Actors /\ "idle" \notin Signed
      BY ActorKinds DEF Signed, Subscribed
    <3>2. CASE g = a
      <4>1. /\ op[a].alive /\ op'[a].login = op[a].login
            /\ op[a].pc \in Signed \/ auth.gen = op[a].login
        BY <1>2, <2>1, <3>1, <3>2
      <4> QED
        BY <1>1, <2>1, <3>2, <4>1 DEF SessionInv
    <3>3. CASE g # a
      BY <1>1, <1>2, <2>1, <3>1, <3>3 DEF SessionInv
    <3> QED
      BY <3>2, <3>3
  <2> QED
    BY <1>1, <2>1 DEF SessionInv
<1> QED
  BY <1>4, <1>5, <1>8, <1>9 DEF ChatInv

-----------------------------------------------------------------------------
(***************************************************************************)
(* Taking the connection away: connect, stop, disconnect and a clear.      *)
(***************************************************************************)
\* Afterwards no task is alive but one that waits for its start.
LEMMA AbortedEffect ==
  ASSUME ChatInv, NEW a \in Actors, NEW s \in Op,
         s.gen <= auth.gen, s.pc # "task.wait",
         a \in Tasks => /\ op[a].pc \notin {"idle", "task.wait"}
                        /\ s.pc \notin Connecting
                        /\ s.alive = op[a].alive,
         NEW o, o = Aborted(Put(a, s), owner.conn)
  PROVE  /\ o \in [Actors -> Op]
         /\ \A b \in Actors : o[b].gen <= auth.gen
         /\ \A g \in Tasks :
              /\ o[g].pc \in {"idle", "task.wait"} \/ ~o[g].alive
              /\ o[g].pc # "idle" => op[g].pc # "idle"
              /\ o[g].pc \notin Connecting
              /\ o[g].pc = "task.wait" => op[g].pc = "task.wait" /\ g # owner.conn
              /\ op[g].pc \in {"idle", "task.wait"} => o[g].pc \in {"idle", "task.wait"}
         /\ \A d \in Commands : o[d] = Put(a, s)[d]
         /\ \A d \in Commands \ {a} : o[d] = op[d]
<1>1. /\ TypeOK /\ GenerationsKnown /\ ConnectionInv
      /\ owner.conn \in Nat /\ auth.gen \in Nat
  BY ConnectionFields DEF ChatInv
<1> DEFINE p == Put(a, s)
<1>2. /\ p \in [Actors -> Op] /\ Arrived(p[a], s)
      /\ \A b \in Actors \ {a} : p[b] = op[b]
  BY <1>1, PutType, OpFields
<1> HIDE DEF p
<1> DEFINE q == Aborted(p, owner.conn)
<1>3. /\ q \in [Actors -> Op]
      /\ \A b \in Actors : (b # owner.conn \/ b = NoConnection) => q[b] = p[b]
      /\ owner.conn # NoConnection /\ owner.conn \in Actors =>
           \/ q[owner.conn] = Idle /\ p[owner.conn].pc \in Awaits
           \/ q[owner.conn] = p[owner.conn] /\ p[owner.conn].pc = "idle"
           \/ /\ p[owner.conn].pc \notin Awaits /\ p[owner.conn].pc # "idle"
              /\ q[owner.conn] = [p[owner.conn] EXCEPT !.alive = FALSE]
  BY <1>2, AbortedType
<1>12. o = q
  BY DEF p
<1> HIDE DEF q
<1>4. "idle" \notin Connecting /\ Idle.gen = 0 /\ Bare(s).gen = 0 /\ "task.wait" \in Awaits
  BY DEF Connecting, Idle, Bare, Awaits
\* Before the abort, the only task alive owns the connection.
<1>5. ASSUME NEW g \in Tasks
      PROVE  /\ p[g].pc \in {"idle", "task.wait"} \/ ~p[g].alive \/ g = owner.conn
             /\ p[g].pc # "idle" => op[g].pc # "idle"
             /\ p[g].pc \notin Connecting
             /\ p[g].pc = "task.wait" => op[g].pc = "task.wait"
             /\ op[g].pc \in {"idle", "task.wait"} => p[g].pc \in {"idle", "task.wait"}
  <2>1. g \in Actors /\ TaskInv(g)
    BY <1>1, ActorKinds DEF ConnectionInv
  <2>2. CASE g = a
    <3>1. \/ p[g] = Idle
          \/ p[g].pc = s.pc /\ p[g].alive = op[g].alive
      BY <1>2, <2>2 DEF Arrived
    <3> QED
      BY <1>4, <2>1, <2>2, <3>1, IdleType DEF TaskInv, Runs
  <2>3. CASE g # a
    BY <1>2, <2>1, <2>3 DEF TaskInv, Runs
  <2> QED
    BY <2>2, <2>3
<1>6. \A b \in Actors : p[b].gen <= auth.gen
  <2>1. p[a].gen <= auth.gen
    BY <1>1, <1>2, <1>4 DEF Arrived
  <2> QED
    BY <1>1, <1>2, <2>1 DEF GenerationsKnown
<1>7. ASSUME NEW b \in Actors, b = owner.conn, b # NoConnection
      PROVE  \/ q[b] = Idle /\ p[b].pc \in Awaits
             \/ q[b] = p[b] /\ p[b].pc = "idle"
             \/ /\ p[b].pc \notin Awaits /\ p[b].pc # "idle"
                /\ q[b].pc = p[b].pc /\ q[b].gen = p[b].gen /\ ~q[b].alive
  <2>1. p[b] \in Op
    BY <1>2
  <2> QED
    BY <1>3, <1>7, <2>1 DEF Op
<1>8. \A b \in Actors : q[b].gen <= auth.gen
  BY <1>1, <1>3, <1>4, <1>6, <1>7
<1>9. ASSUME NEW g \in Tasks
      PROVE  /\ q[g].pc \in {"idle", "task.wait"} \/ ~q[g].alive
             /\ q[g].pc # "idle" => op[g].pc # "idle"
             /\ q[g].pc \notin Connecting
             /\ q[g].pc = "task.wait" => op[g].pc = "task.wait" /\ g # owner.conn
             /\ op[g].pc \in {"idle", "task.wait"} => q[g].pc \in {"idle", "task.wait"}
  <2>1. g \in Actors /\ g # NoConnection
    BY ActorKinds
  <2>2. CASE g = owner.conn
    BY <1>4, <1>5, <1>7, <2>1, <2>2, IdleType
  <2>3. CASE g # owner.conn
    BY <1>3, <1>5, <2>1, <2>3
  <2> QED
    BY <2>2, <2>3
<1>10. \A d \in Commands : d \in Actors /\ q[d] = p[d]
  BY <1>1, <1>3, ActorKinds
<1>11. \A d \in Commands \ {a} : q[d] = op[d]
  BY <1>2, <1>10
<1> QED
  BY <1>3, <1>8, <1>9, <1>10, <1>11, <1>12 DEF p

LEMMA CancelKeeps ==
  ASSUME ChatInv, NEW a \in Actors, LoginTyped', auth' = auth, chat' = chat,
         owner' = Advanced, heard' = heard, ended' \in Nat, ended' <= auth.gen,
         op' \in [Actors -> Op], \A b \in Actors : op'[b].gen <= auth.gen,
         \A g \in Tasks :
           /\ op'[g].pc \in {"idle", "task.wait"} \/ ~op'[g].alive
           /\ op'[g].pc # "idle" => g <= owner.gen + 1
           /\ op'[g].pc \notin Connecting
           /\ op'[g].pc = "task.wait" /\ g <= owner.gen =>
                op[g].pc = "task.wait" /\ g # owner.conn
           /\ op[g].pc \in {"idle", "task.wait"} /\ g <= owner.gen =>
                op'[g].pc \in {"idle", "task.wait"},
         \A d \in Commands \ {a} : op'[d] = op[d],
         a \in Commands /\ op'[a].pc \in Connecting =>
           /\ op'[a].conn = owner.gen + 1
           /\ op'[a].pc \notin {"connect.publish", "connect.go"}
           /\ op'[a].pc = "connect.register" /\ owner.gen + 1 \in Tasks =>
                op'[owner.gen + 1].pc \in {"idle", "task.wait"}
  PROVE  ChatInv'
<1>1. /\ TypeOK /\ ConnectionInv
      /\ owner \in Owner /\ owner.gen \in Nat /\ owner.conn \in Nat
      /\ chat \in Status /\ chat.gen \in Nat /\ chat.gen <= owner.gen
      /\ heard \in Nat /\ auth.gen \in Nat
  BY ConnectionFields DEF ChatInv
<1>2. owner' \in Owner /\ owner'.gen = owner.gen + 1 /\ owner'.conn = 0
  BY <1>1 DEF Advanced, Owner, NoConnection
<1>3. TypeOK'
  <2>1. chat'.gen <= owner'.gen
    BY <1>1, <1>2
  <2> QED
    BY <1>1, <1>2, <2>1, TypesTogether
<1>4. GenerationsKnown'
  BY DEF GenerationsKnown
<1>5. ASSUME NEW g \in Tasks
      PROVE  TaskInv(g)'
  <2>1. ~Runs(g)' /\ g # 0
    BY TwitchAssumption DEF Runs, Tasks
  <2> QED
    BY <1>2, <2>1 DEF TaskInv
<1>6. ASSUME NEW c \in Commands
      PROVE  CommandInv(c)'
  <2> SUFFICES ASSUME op'[c].pc \in Connecting PROVE CommandInv(c)'
    BY DEF CommandInv
  \* Whoever took a generation before took an older one.
  <2>1. ASSUME NEW d \in Commands \ {a}, op'[d].pc \in Connecting
        PROVE  /\ op'[d] = op[d] /\ CommandInv(d) /\ op[d].conn \in Nat
               /\ op[d].conn # 0 /\ op[d].conn <= owner.gen
    <3>1. op'[d] = op[d] /\ d \in Actors /\ CommandInv(d)
      BY <1>1, <2>1, ActorKinds DEF ConnectionInv
    <3> QED
      BY <1>1, <2>1, <3>1, OpFields DEF CommandInv
  <2>2. CASE c = a
    <3>1. /\ op'[c].conn = owner.gen + 1
          /\ op'[c].pc \notin {"connect.publish", "connect.go"}
          /\ op'[c].pc = "connect.register" /\ owner.gen + 1 \in Tasks =>
               op'[owner.gen + 1].pc \in {"idle", "task.wait"}
      BY <2>2
    <3>2. \A d \in Commands \ {c} : op'[d].pc \in Connecting => op'[d].conn # owner.gen + 1
      BY <1>1, <2>1, <2>2
    <3>3. owner.gen + 1 # 0 /\ owner.gen + 1 <= owner'.gen /\ chat'.gen # owner.gen + 1
          /\ owner'.conn # owner.gen + 1
      BY <1>1, <1>2
    <3> QED
      BY <3>1, <3>2, <3>3 DEF CommandInv
  <2>3. CASE c # a
    <3> DEFINE g == op[c].conn
    <3>1. /\ op'[c] = op[c] /\ CommandInv(c) /\ op[c].pc \in Connecting
          /\ g \in Nat /\ g # 0 /\ g <= owner.gen
      BY <2>1, <2>3
    <3>2. \A d \in Commands \ {c} : op'[d].pc \in Connecting => op'[d].conn # g
      <4> TAKE d \in Commands \ {c}
      <4> SUFFICES ASSUME op'[d].pc \in Connecting PROVE op'[d].conn # g
        OBVIOUS
      <4>1. CASE d = a
        BY <1>1, <3>1, <4>1
      <4>2. CASE d # a
        BY <2>1, <3>1, <4>2 DEF CommandInv
      <4> QED
        BY <4>1, <4>2
    <3>3. op[c].pc = "connect.register" =>
            /\ chat.gen # g
            /\ g \in Tasks => op'[g].pc \in {"idle", "task.wait"}
      BY <3>1 DEF CommandInv
    <3>4. op[c].pc \in {"connect.publish", "connect.go"} /\ g \in Tasks =>
            op'[g].pc # "task.wait"
      BY <3>1 DEF CommandInv
    <3>5. g <= owner'.gen /\ owner'.conn # g
      BY <1>1, <1>2, <3>1
    <3> QED
      BY <3>1, <3>2, <3>3, <3>4, <3>5 DEF CommandInv
  <2> QED
    BY <2>2, <2>3
<1>7. ConnectionInv'
  BY <1>2, <1>5, <1>6 DEF ConnectionInv
<1>8. SessionInv'
  <2>1. "idle" \notin Signed /\ "task.wait" \notin Signed
    BY DEF Signed, Subscribed
  <2> QED
    BY <1>1, <2>1 DEF SessionInv
<1> QED
  BY <1>3, <1>4, <1>7, <1>8 DEF ChatInv

LEMMA SpoiledType ==
  ASSUME TypeOK, NEW o
  PROVE  spoiled \cup SpoiledBy(o) \subseteq Creds
<1>1. \A g \in Tasks : op[g].cred \in Creds
  BY OpFields, ActorKinds
<1> QED
  BY <1>1 DEF SpoiledBy, TypeOK

\* The command that takes the connection away, as it goes on to r.
Taking(c, r) == Aborted(Put(c, r), owner.conn)

LEMMA CancelStepsKeep ==
  ASSUME ChatInv, NEW a \in Actors,
         \/ ClearCancel(a)
         \/ a \in Commands /\ (DisconnectCancel(a) \/ Stop(a) \/ ConnectReserve(a))
  PROVE  ChatInv'
<1>1. /\ TypeOK /\ GenerationsKnown /\ ConnectionInv /\ SessionInv
      /\ owner.gen \in Nat /\ owner.gen + 1 \in Nat
      /\ ended \in Nat /\ auth.gen \in Nat /\ auth \in Auth
  BY ConnectionFields, AuthFields DEF ChatInv
<1>2. LoginTyped
  BY <1>1 DEF LoginTyped, TypeOK
<1>3. /\ op[a] \in Op /\ op[a].gen \in Nat /\ op[a].login \in Nat
      /\ op[a].gen <= auth.gen
  BY <1>1, OpFields DEF GenerationsKnown
<1>4. {"connect.register", "stop.publish", "disconnect.publish", "task.wait",
       "end.AuthRequired"} \subseteq Points
  BY DEF Points, Awaits, Ends
\* All but connect.
<1>5. ASSUME NEW r \in Op, r.gen <= auth.gen, r.pc # "task.wait",
             a \in Tasks => /\ op[a].pc \notin {"idle", "task.wait"}
                            /\ r.pc \notin Connecting /\ r.alive = op[a].alive,
             r.pc \in Connecting =>
               /\ r.conn = owner.gen + 1
               /\ r.pc \in {"stop.publish", "disconnect.publish"},
             op' = Taking(a, r), LoginTyped', auth' = auth, chat' = chat,
             owner' = Advanced, heard' = heard, ended' \in Nat, ended' <= auth.gen
      PROVE  ChatInv'
  <2>1. /\ op' \in [Actors -> Op]
        /\ \A b \in Actors : op'[b].gen <= auth.gen
        /\ \A g \in Tasks :
             /\ op'[g].pc \in {"idle", "task.wait"} \/ ~op'[g].alive
             /\ op'[g].pc # "idle" => op[g].pc # "idle"
             /\ op'[g].pc \notin Connecting
             /\ op'[g].pc = "task.wait" => op[g].pc = "task.wait" /\ g # owner.conn
             /\ op[g].pc \in {"idle", "task.wait"} => op'[g].pc \in {"idle", "task.wait"}
        /\ \A d \in Commands : op'[d] = Put(a, r)[d]
        /\ \A d \in Commands \ {a} : op'[d] = op[d]
    BY <1>5, AbortedEffect DEF Taking
  <2>2. \A g \in Tasks : op'[g].pc # "idle" => g <= owner.gen + 1
    <3> TAKE g \in Tasks
    <3>1. g \in Nat /\ (op[g].pc # "idle" => g <= owner.gen)
      BY <1>1, ActorKinds DEF ConnectionInv, TaskInv
    <3> QED
      BY <1>1, <2>1, <3>1
  <2>3. a \in Commands /\ op'[a].pc \in Connecting =>
          /\ op'[a].conn = owner.gen + 1
          /\ op'[a].pc \notin {"connect.publish", "connect.go", "connect.register"}
    <3>1. Arrived(Put(a, r)[a], r)
      BY <1>1, <1>5, PutType, OpFields
    <3>2. "idle" \notin Connecting /\ Connecting \cap Between = {}
      BY DEF Connecting, Between, Ends
    <3> QED
      BY <1>5, <2>1, <3>1, <3>2, IdleType DEF Arrived
  <2> QED
    BY <1>5, <2>1, <2>2, <2>3, CancelKeeps
<1>6. CASE ClearCancel(a)
  <2> DEFINE r == ClearReturned(a, "true")
  <2>1. /\ op[a].pc = "clear.cancel" /\ owner' = Advanced
        /\ Become(Taking(a, r), Released(a))
        /\ spoiled' = spoiled \cup SpoiledBy(Taking(a, r))
        /\ UNCHANGED <<auth, store, job, chat, calls, issued, valid, loggedOut,
                       ended, storeFault, heard>>
    BY <1>6 DEF ClearCancel, Taking
  <2>2. LoginTyped' /\ op' = Taking(a, r)
    BY <1>1, <1>2, <2>1, BecomeType, ReleasedType, SpoiledType DEF LoginTyped
  <2>3. /\ r \in Op /\ r.gen <= auth.gen
        /\ r.pc \notin Connecting \cup {"task.wait"}
        /\ a \in Tasks => r.alive = op[a].alive
    <3>1. CASE a \in Commands
      <4>1. r = Idle /\ "idle" \notin Connecting /\ Idle.gen = 0 /\ a \notin Tasks
        BY <3>1, ActorKinds DEF ClearReturned, Idle, Connecting
      <4> QED
        BY <1>1, <4>1, IdleType
    <3>2. CASE a \notin Commands
      <4>1. r = [op[a] EXCEPT !.pc = "end.AuthRequired"]
        BY <3>2 DEF ClearReturned
      <4>2. "end.AuthRequired" \notin Connecting \cup {"task.wait"}
        BY DEF Connecting
      <4> HIDE DEF r
      <4>3. /\ r \in Op /\ r.gen = op[a].gen /\ r.pc = "end.AuthRequired"
            /\ r.alive = op[a].alive
        <5>1. "end.AuthRequired" \in Points
          BY <1>4
        <5> QED
          BY <1>3, <4>1, <5>1, PcType
      <4> QED
        BY <1>3, <4>2, <4>3
    <3> QED
      BY <3>1, <3>2
  <2> HIDE DEF r
  <2> QED
    BY <1>1, <1>5, <2>1, <2>2, <2>3 DEF SessionInv
<1>7. CASE a \in Commands /\ DisconnectCancel(a)
  <2> DEFINE r == [op[a] EXCEPT !.pc = "disconnect.publish", !.conn = owner.gen + 1]
  <2>1. /\ op[a].pc = "disconnect.cancel" /\ owner' = Advanced
        /\ Become(Taking(a, r), update)
        /\ ended' = IF op[a].gen > ended THEN op[a].gen ELSE ended
        /\ spoiled' = spoiled \cup SpoiledBy(Taking(a, r))
        /\ UNCHANGED <<auth, store, job, chat, calls, issued, valid, loggedOut,
                       storeFault, heard>>
    BY <1>7 DEF DisconnectCancel, Taking
  <2>2. LoginTyped' /\ op' = Taking(a, r)
    BY <1>1, <1>2, <2>1, BecomeType, ReleasedType, SpoiledType DEF LoginTyped
  <2>3. /\ r \in Op /\ r.gen = op[a].gen /\ r.conn = owner.gen + 1
        /\ r.pc = "disconnect.publish"
    BY <1>1, <1>3, <1>4 DEF Op
  <2>4. ended' \in Nat /\ ended' <= auth.gen
    BY <1>1, <1>3, <2>1 DEF SessionInv
  <2> HIDE DEF r
  <2> QED
    BY <1>3, <1>5, <1>7, <2>1, <2>2, <2>3, <2>4, ActorKinds
<1>8. CASE a \in Commands /\ Stop(a)
  <2> DEFINE r == [Idle EXCEPT !.pc = "stop.publish", !.conn = owner.gen + 1]
  <2>1. /\ owner' = Advanced /\ calls < MaxCalls /\ calls' = calls + 1
        /\ Become(Taking(a, r), update)
        /\ spoiled' = spoiled \cup SpoiledBy(Taking(a, r))
        /\ UNCHANGED <<auth, store, job, chat, issued, valid, loggedOut,
                       storeFault, ended, heard>>
    BY <1>8 DEF Stop, Call, loginVars, Taking
  <2>2. LoginTyped' /\ op' = Taking(a, r)
    <3>1. calls' \in 0 .. MaxCalls
      BY <1>2, <2>1, TwitchAssumption DEF LoginTyped
    <3> QED
      BY <1>1, <1>2, <2>1, <3>1, BecomeType, ReleasedType, SpoiledType DEF LoginTyped
  <2>3. /\ r \in Op /\ r.gen = 0 /\ r.conn = owner.gen + 1 /\ r.pc = "stop.publish"
    BY <1>1, <1>4, IdleType DEF Op, Idle
  <2>4. ended' \in Nat /\ ended' <= auth.gen
    BY <1>1, <2>1 DEF SessionInv
  <2> HIDE DEF r
  <2> QED
    BY <1>1, <1>5, <1>8, <2>1, <2>2, <2>3, <2>4, ActorKinds
<1>9. CASE a \in Commands /\ ConnectReserve(a)
  <2> DEFINE g == owner.gen + 1
             r == [op[a] EXCEPT !.pc = "connect.register", !.conn = g]
             o == Taking(a, r)
             task == [Idle EXCEPT !.pc = "task.wait", !.login = op[a].login]
  <2>1. /\ op[a].pc = "connect.reserve" /\ owner' = Advanced
        /\ Become([o EXCEPT ![g] = task], update)
        /\ spoiled' = spoiled \cup SpoiledBy(o)
        /\ UNCHANGED <<auth, store, job, chat, calls, issued, valid, loggedOut,
                       storeFault, ended, heard>>
    BY <1>9 DEF ConnectReserve, loginVars, Taking
  <2>2. /\ r \in Op /\ r.gen = op[a].gen /\ r.conn = g /\ r.pc = "connect.register"
    BY <1>1, <1>3, <1>4 DEF Op
  <2>3. task \in Op /\ task.gen = 0 /\ task.pc = "task.wait"
    BY <1>3, <1>4, IdleType DEF Op, Idle
  <2>4. LoginTyped' /\ op' = [o EXCEPT ![g] = task]
    BY <1>1, <1>2, <2>1, BecomeType, ReleasedType, SpoiledType DEF LoginTyped
  <2> HIDE DEF r, task, o
  <2>5. /\ o \in [Actors -> Op]
        /\ \A b \in Actors : o[b].gen <= auth.gen
        /\ \A h \in Tasks :
             /\ o[h].pc \in {"idle", "task.wait"} \/ ~o[h].alive
             /\ o[h].pc # "idle" => op[h].pc # "idle"
             /\ o[h].pc \notin Connecting
             /\ o[h].pc = "task.wait" => op[h].pc = "task.wait" /\ h # owner.conn
             /\ op[h].pc \in {"idle", "task.wait"} => o[h].pc \in {"idle", "task.wait"}
        /\ \A d \in Commands : o[d] = Put(a, r)[d]
        /\ \A d \in Commands \ {a} : o[d] = op[d]
    <3>1. r.gen <= auth.gen /\ r.pc # "task.wait" /\ a \notin Tasks
      BY <1>3, <1>9, <2>2, ActorKinds
    <3>2. o = Aborted(Put(a, r), owner.conn)
      BY DEF o, Taking
    <3> QED
      BY <2>2, <3>1, <3>2, AbortedEffect
  <2>6. g \notin Commands /\ g \in Nat
    BY <1>1, ActorKinds
  <2>7. /\ op' \in [Actors -> Op]
        /\ \A b \in Actors : b # g => op'[b] = o[b]
        /\ g \in Tasks => op'[g] = task
    BY <2>3, <2>4, <2>5, ActorKinds
  <2>8. /\ \A b \in Actors : op'[b].gen <= auth.gen
        /\ \A d \in Commands \ {a} : op'[d] = op[d]
    BY <1>1, <2>3, <2>5, <2>6, <2>7, ActorKinds
  <2>9. ASSUME NEW h \in Tasks
        PROVE  /\ op'[h].pc \in {"idle", "task.wait"} \/ ~op'[h].alive
               /\ op'[h].pc # "idle" => h <= owner.gen + 1
               /\ op'[h].pc \notin Connecting
               /\ op'[h].pc = "task.wait" /\ h <= owner.gen =>
                    op[h].pc = "task.wait" /\ h # owner.conn
               /\ op[h].pc \in {"idle", "task.wait"} /\ h <= owner.gen =>
                    op'[h].pc \in {"idle", "task.wait"}
    <3>1. h \in Nat /\ h \in Actors /\ (op[h].pc # "idle" => h <= owner.gen)
      BY <1>1, ActorKinds DEF ConnectionInv, TaskInv
    <3>2. CASE h = g
      BY <1>1, <2>3, <2>7, <3>1, <3>2 DEF Connecting
    <3>3. CASE h # g
      BY <1>1, <2>5, <2>7, <3>1, <3>3
    <3> QED
      BY <3>2, <3>3
  <2>10. /\ op'[a].pc \in Connecting =>
              op'[a].conn = g /\ op'[a].pc = "connect.register"
    <3>1. Arrived(Put(a, r)[a], r)
      BY <1>1, <2>2, PutType, OpFields
    <3>2. op'[a] = Put(a, r)[a] /\ "idle" \notin Connecting
      BY <1>9, <2>5, <2>6, <2>7 DEF Connecting
    <3>3. "connect.register" \notin Between
      BY DEF Between, Ends
    <3> QED
      BY <2>2, <3>1, <3>2, <3>3, IdleType DEF Arrived
  <2>11. ended' \in Nat /\ ended' <= auth.gen
    BY <1>1, <2>1 DEF SessionInv
  <2> QED
    BY <1>9, <2>1, <2>3, <2>4, <2>7, <2>8, <2>9, <2>10, <2>11, CancelKeeps
<1> QED
  BY <1>6, <1>7, <1>8, <1>9

-----------------------------------------------------------------------------
(***************************************************************************)
(* The steps of connect after the reservation, and a restart.              *)
(***************************************************************************)
\* The steps that leave the login alone, and everybody's generation of it.
LEMMA SameLoginKeeps ==
  ASSUME TypeOK, GenerationsKnown, SessionInv, LoginTyped', auth' = auth, ended' = ended,
         op' \in [Actors -> Op],
         \A b \in Actors : op'[b].gen \in {0, op[b].gen},
         \A g \in Tasks : op'[g].alive /\ op'[g].pc \in Signed => op'[g] = op[g]
  PROVE  GenerationsKnown' /\ SessionInv'
<1>1. \A b \in Actors : op'[b].gen <= auth.gen
  BY AuthFields DEF GenerationsKnown
<1> QED
  BY <1>1 DEF GenerationsKnown, SessionInv

LEMMA ConnectPublishKeeps ==
  ASSUME ChatInv, NEW c \in Commands, ConnectPublish(c)
  PROVE  ChatInv'
<1> DEFINE g == op[c].conn
           r == [op[c] EXCEPT !.pc = "connect.go"]
<1>1. /\ TypeOK /\ GenerationsKnown /\ ConnectionInv /\ SessionInv
      /\ owner \in Owner /\ owner.gen \in Nat /\ owner.conn \in Nat
      /\ chat \in Status /\ chat.gen \in Nat /\ chat.gen <= owner.gen
      /\ ended \in Nat /\ heard \in Nat /\ auth.gen \in Nat
      /\ c \in Actors /\ c \notin Tasks /\ Tasks \subseteq Actors
  BY ConnectionFields, ActorKinds DEF ChatInv
<1>2. /\ op[c].pc = "connect.publish" /\ chat' = Recorded(g, "Connecting")
      /\ Become(Put(c, r), update)
      /\ UNCHANGED <<auth, store, job, issued, valid, owner, calls, loggedOut,
                     ended, spoiled, storeFault, heard>>
  BY DEF ConnectPublish, Goto, loginVars, ghostVars
<1>3. LoginTyped' /\ op' = Put(c, r)
  <2>1. LoginTyped
    BY <1>1 DEF LoginTyped, TypeOK
  <2> QED
    BY <1>1, <1>2, <2>1, BecomeType, ReleasedType DEF LoginTyped
<1>4. /\ r \in Op /\ r.pc = "connect.go" /\ r.conn = g /\ r.gen = op[c].gen
      /\ g \in Nat /\ op[c] \in Op
  BY <1>1, OpFields, PcType DEF Points
<1> HIDE DEF r
<1>5. /\ op' \in [Actors -> Op] /\ op'[c] \in {Idle, r}
      /\ \A b \in Actors \ {c} : op'[b] = op[b]
  <2>1. Arrived(Put(c, r)[c], r) /\ "connect.go" \notin Between
    BY <1>1, <1>4, PutType, OpFields DEF Between, Ends
  <2> QED
    BY <1>1, <1>3, <1>4, <2>1, PutType, OpFields DEF Arrived
<1>6. CommandInv(c) /\ op[c].pc \in Connecting
  BY <1>1, <1>2 DEF ConnectionInv, Connecting
<1>7. g # 0 /\ g <= owner.gen
      /\ \A d \in Commands \ {c} : op[d].pc \in Connecting => op[d].conn # g
  BY <1>6 DEF CommandInv
<1>8. /\ chat' \in Status /\ chat'.gen <= owner.gen
      /\ chat' = chat \/ (chat'.gen = g /\ chat'.status = "Connecting")
  BY <1>1, <1>2, <1>4, <1>7, RecordedType DEF Statuses
<1>9. TypeOK'
  BY <1>1, <1>2, <1>3, <1>5, <1>8, TypesTogether
<1>10. GenerationsKnown' /\ SessionInv'
  <2>1. \A b \in Actors : op'[b].gen \in {0, op[b].gen}
    BY <1>4, <1>5 DEF Idle
  <2> QED
    BY <1>1, <1>2, <1>3, <1>5, <2>1, SameLoginKeeps
<1>11. ASSUME NEW h \in Tasks
       PROVE  TaskInv(h)'
  <2>1. op'[h] = op[h] /\ TaskInv(h)
    BY <1>1, <1>5 DEF ConnectionInv
  <2>2. chat' = chat \/ chat'.status \in LiveStatuses
    BY <1>8 DEF LiveStatuses
  <2> QED
    BY <1>2, <2>1, <2>2 DEF TaskInv, Runs
<1>12. ASSUME NEW d \in Commands
       PROVE  CommandInv(d)'
  <2>1. d \in Actors /\ CommandInv(d) /\ Commands \subseteq Actors
    BY <1>1, ActorKinds DEF ConnectionInv
  <2>2. CASE d = c
    <3>1. ASSUME NEW e \in Commands \ {c}, op'[e].pc \in Connecting
          PROVE  op'[e].conn # g
      BY <1>5, <1>7, <2>1, <3>1
    <3>2. g \in Tasks /\ op'[g].pc = "task.wait" => owner.conn = g
      BY <1>1, <1>2, <1>5, <1>6 DEF CommandInv
    <3> QED
      BY <1>2, <1>4, <1>5, <1>7, <2>2, <3>1, <3>2, IdleType DEF CommandInv, Connecting
  <2>3. CASE d # c
    <3> SUFFICES ASSUME op'[d].pc \in Connecting PROVE CommandInv(d)'
      BY DEF CommandInv
    <3>1. op'[d] = op[d] /\ op[d].conn # g
      BY <1>5, <1>7, <2>1, <2>3
    <3>2. ASSUME NEW e \in Commands \ {d}, op'[e].pc \in Connecting
          PROVE  op'[e].conn # op[d].conn
      <4>1. CASE e = c
        BY <1>4, <1>5, <3>1, <3>2, <4>1, IdleType DEF Connecting
      <4>2. CASE e # c
        BY <1>5, <2>1, <3>1, <3>2, <4>2 DEF CommandInv
      <4> QED
        BY <4>1, <4>2
    <3>3. op[d].conn \in Tasks => op'[op[d].conn] = op[op[d].conn]
      BY <1>1, <1>5
    <3> QED
      BY <1>2, <1>8, <2>1, <3>1, <3>2, <3>3 DEF CommandInv
  <2> QED
    BY <2>2, <2>3
<1> QED
  BY <1>1, <1>2, <1>9, <1>10, <1>11, <1>12 DEF ChatInv, ConnectionInv

LEMMA ConnectGoKeeps ==
  ASSUME ChatInv, NEW c \in Commands, ConnectGo(c)
  PROVE  ChatInv'
<1> DEFINE g == op[c].conn
<1>1. /\ TypeOK /\ GenerationsKnown /\ ConnectionInv /\ SessionInv
      /\ owner \in Owner /\ owner.gen \in Nat /\ owner.conn \in Nat
      /\ chat \in Status /\ chat.gen \in Nat /\ chat.gen <= owner.gen
      /\ ended \in Nat /\ heard \in Nat /\ auth.gen \in Nat
      /\ c \in Actors /\ c \notin Tasks /\ Tasks \subseteq Actors
      /\ Commands \subseteq Actors /\ Commands \cap Tasks = {} /\ g \in Nat
  BY ConnectionFields, OpFields, ActorKinds DEF ChatInv
<1>2. /\ op[c].pc = "connect.go"
      /\ Become([op EXCEPT ![c] = Idle,
                           ![g].pc = IF @ = "task.wait" THEN "task.lookup" ELSE @], update)
      /\ UNCHANGED <<auth, store, job, issued, valid, owner, chat, calls, loggedOut,
                     ended, spoiled, storeFault, heard>>
  BY DEF ConnectGo, loginVars, chatVars, ghostVars
<1>3. /\ LoginTyped'
      /\ op' = [op EXCEPT ![c] = Idle,
                   ![g].pc = IF @ = "task.wait" THEN "task.lookup" ELSE @]
  <2>1. LoginTyped
    BY <1>1 DEF LoginTyped, TypeOK
  <2> QED
    BY <1>1, <1>2, <2>1, BecomeType, ReleasedType DEF LoginTyped
<1>4. CommandInv(c) /\ op[c].pc \in Connecting /\ g # c
  BY <1>1, <1>2, ActorKinds DEF ConnectionInv, Connecting
<1>5. /\ op' \in [Actors -> Op] /\ op'[c] = Idle
      /\ \A b \in Actors \ {c, g} : op'[b] = op[b]
      /\ g \in Tasks => \/ op'[g] = op[g] /\ op[g].pc # "task.wait"
                        \/ /\ op[g].pc = "task.wait" /\ op'[g].pc = "task.lookup"
                           /\ op'[g].alive = op[g].alive
                           /\ op'[g].gen = op[g].gen
  <2>1. op \in [Actors -> Op] /\ "task.lookup" \in Points
    BY <1>1, OpFields DEF Points, Awaits
  <2> DEFINE s == [op[g] EXCEPT !.pc = IF @ = "task.wait" THEN "task.lookup" ELSE @]
  <2>2. op' = [[op EXCEPT ![c] = Idle] EXCEPT ![g] = s]
    BY <1>3, <1>4, <2>1
  <2>3. CASE g \in Tasks
    <3>1. /\ s \in Op
          /\ \/ s = op[g] /\ op[g].pc # "task.wait"
             \/ /\ op[g].pc = "task.wait" /\ s.pc = "task.lookup"
                /\ s.alive = op[g].alive /\ s.gen = op[g].gen
      BY <1>1, <2>1, <2>3 DEF Op
    <3> HIDE DEF s
    <3> QED
      BY <1>1, <1>4, <2>1, <2>2, <2>3, <3>1, IdleType
  <2>4. CASE g \notin Tasks
    <3>1. g \notin Actors
      BY <1>1, <2>4, ActorKinds
    <3> HIDE DEF s
    <3> QED
      BY <1>1, <2>1, <2>2, <2>4, <3>1, IdleType
  <2> QED
    BY <2>3, <2>4
<1>6. g \in Tasks /\ op[g].pc = "task.wait" => owner.conn = g
  BY <1>2, <1>4 DEF CommandInv
<1>7. \A d \in Commands \ {c} :
        /\ op'[d] = op[d]
        /\ op[d].pc \in Connecting => op[d].conn # g
  <2>1. \A d \in Commands \ {c} : d # g /\ d \in Actors
    BY <1>1, ActorKinds
  <2> QED
    BY <1>4, <1>5, <2>1 DEF CommandInv
<1>8. TypeOK'
  BY <1>1, <1>2, <1>3, <1>5, TypesTogether
<1>9. GenerationsKnown' /\ SessionInv'
  <2>1. \A b \in Actors : op'[b].gen \in {0, op[b].gen}
    BY <1>1, <1>5, ActorKinds DEF Idle
  <2>2. \A h \in Tasks : op'[h].alive /\ op'[h].pc \in Signed => op'[h] = op[h]
    <3>1. "task.lookup" \notin Signed
      BY DEF Signed, Subscribed
    <3> QED
      BY <1>1, <1>5, <3>1
  <2> QED
    BY <1>1, <1>2, <1>3, <1>5, <2>1, <2>2, SameLoginKeeps
<1>10. ASSUME NEW h \in Tasks
       PROVE  TaskInv(h)'
  <2>1. h \in Actors /\ TaskInv(h) /\ h # c /\ "task.lookup" \notin Connecting
    BY <1>1 DEF ConnectionInv, Connecting
  <2> QED
    BY <1>2, <1>5, <1>6, <2>1 DEF TaskInv, Runs
<1>11. ASSUME NEW d \in Commands
       PROVE  CommandInv(d)'
  <2>1. CASE d = c
    BY <1>5, <2>1, IdleType DEF CommandInv, Connecting
  <2>2. CASE d # c
    <3> SUFFICES ASSUME op'[d].pc \in Connecting PROVE CommandInv(d)'
      BY DEF CommandInv
    <3>1. CommandInv(d) /\ op'[d] = op[d] /\ op[d].conn # g
      BY <1>1, <1>7, <2>2 DEF ConnectionInv
    <3>2. ASSUME NEW e \in Commands \ {d}, op'[e].pc \in Connecting
          PROVE  op'[e].conn # op[d].conn
      <4>1. e # c
        BY <1>5, <3>2, IdleType DEF Connecting
      <4> QED
        BY <1>7, <3>1, <3>2, <4>1 DEF CommandInv
    <3>3. op[d].conn \in Tasks => op'[op[d].conn] = op[op[d].conn]
      BY <1>1, <1>5, <3>1
    <3> QED
      BY <1>2, <3>1, <3>2, <3>3 DEF CommandInv
  <2> QED
    BY <2>1, <2>2
<1> QED
  BY <1>1, <1>2, <1>8, <1>9, <1>10, <1>11 DEF ChatInv, ConnectionInv

LEMMA ConnectRegisterKeeps ==
  ASSUME ChatInv, NEW c \in Commands, ConnectRegister(c)
  PROVE  ChatInv'
<1> DEFINE g == op[c].conn
           refused == owner.gen # g \/ owner.conn # NoConnection
           r == [op[c] EXCEPT !.pc = "connect.publish"]
<1>1. /\ TypeOK /\ GenerationsKnown /\ ConnectionInv /\ SessionInv
      /\ owner \in Owner /\ owner.gen \in Nat /\ owner.conn \in Nat
      /\ chat \in Status /\ chat.gen \in Nat /\ chat.gen <= owner.gen
      /\ ended \in Nat /\ heard \in Nat /\ auth.gen \in Nat
      /\ c \in Actors /\ c \notin Tasks /\ Tasks \subseteq Actors
      /\ Commands \subseteq Actors /\ Commands \cap Tasks = {}
      /\ g \in Nat /\ op[c] \in Op
  BY ConnectionFields, OpFields, ActorKinds DEF ChatInv
<1>2. /\ op[c].pc = "connect.register"
      /\ UNCHANGED <<auth, store, job, issued, valid, chat, calls, loggedOut,
                     ended, spoiled, storeFault, heard>>
      /\ \/ /\ refused /\ owner' = owner
            /\ Become(Aborted(Put(c, Idle), g), update)
         \/ /\ ~refused /\ owner' = [owner EXCEPT !.conn = g]
            /\ Become(Put(c, r), update)
  BY DEF ConnectRegister, Goto, loginVars, ghostVars
<1>3. CommandInv(c) /\ op[c].pc \in Connecting
  BY <1>1, <1>2 DEF ConnectionInv, Connecting
<1>4. /\ g # 0 /\ g <= owner.gen /\ owner.conn # g /\ chat.gen # g
      /\ g \in Tasks => op[g].pc \in {"idle", "task.wait"}
      /\ \A d \in Commands \ {c} : op[d].pc \in Connecting => op[d].conn # g
  BY <1>2, <1>3 DEF CommandInv
<1>5. /\ "idle" \notin Connecting /\ "task.wait" \in Awaits
      /\ Signed \cap {"idle", "task.wait"} = {}
  BY DEF Connecting, Awaits, Signed, Subscribed
\* Whoever waits, or took a generation, is as before, but for c and its task.
<1>6. ASSUME LoginTyped', op' \in [Actors -> Op], op'[c].gen \in {0, op[c].gen},
             \A b \in Actors \ {c, g} : op'[b] = op[b],
             g \in Tasks => op'[g] \in {op[g], Idle},
             owner' \in Owner, owner'.gen = owner.gen, owner'.conn \in {0, owner.gen},
             \A h \in Tasks : Runs(h) => owner'.conn = h,
             \/ owner'.conn = owner.conn
             \/ owner.conn = 0 /\ owner'.conn = g,
             op'[c] = Idle \/ /\ op'[c].pc = "connect.publish" /\ op'[c].conn = g
                              /\ owner'.conn = g
      PROVE  ChatInv'
  <2>1. TypeOK'
    BY <1>1, <1>2, <1>6, TypesTogether
  <2>2. GenerationsKnown' /\ SessionInv'
    <3>1. \A b \in Actors : op'[b].gen \in {0, op[b].gen}
      BY <1>1, <1>6, ActorKinds DEF Idle
    <3>2. \A h \in Tasks : op'[h].alive /\ op'[h].pc \in Signed => op'[h] = op[h]
      BY <1>1, <1>4, <1>5, <1>6, IdleType
    <3> QED
      BY <1>1, <1>2, <1>6, <3>1, <3>2, SameLoginKeeps
  <2>3. ASSUME NEW h \in Tasks
        PROVE  TaskInv(h)'
    <3>1. TaskInv(h) /\ h # c /\ op'[h] \in {op[h], Idle} /\ h # 0
      BY <1>1, <1>6, TwitchAssumption DEF ConnectionInv, Tasks
    <3>2. owner'.conn = h /\ chat.gen = h => owner.conn = h
      BY <1>4, <1>6
    <3> QED
      BY <1>2, <1>5, <1>6, <3>1, <3>2, IdleType DEF TaskInv, Runs
  <2>4. ASSUME NEW d \in Commands
        PROVE  CommandInv(d)'
    <3> SUFFICES ASSUME op'[d].pc \in Connecting PROVE CommandInv(d)'
      BY DEF CommandInv
    <3>1. CASE d = c
      <4>1. /\ op'[c].pc = "connect.publish" /\ op'[c].conn = g /\ owner'.conn = g
        BY <1>5, <1>6, <3>1, IdleType
      <4>2. ASSUME NEW e \in Commands \ {c}, op'[e].pc \in Connecting
            PROVE  op'[e].conn # g
        <5>1. e # g /\ e \in Actors
          BY <1>1, ActorKinds
        <5> QED
          BY <1>4, <1>6, <4>2, <5>1
      <4> QED
        BY <1>4, <1>6, <3>1, <4>1, <4>2 DEF CommandInv
    <3>2. CASE d # c
      <4>1. d # g /\ d \in Actors /\ CommandInv(d)
        BY <1>1, ActorKinds DEF ConnectionInv
      <4>2. op'[d] = op[d] /\ op[d].conn # g /\ op[d].conn # 0
        BY <1>4, <1>6, <3>2, <4>1 DEF CommandInv
      <4>3. ASSUME NEW e \in Commands \ {d}, op'[e].pc \in Connecting
            PROVE  op'[e].conn # op[d].conn
        <5>1. CASE e = c
          BY <1>5, <1>6, <4>2, <4>3, <5>1, IdleType
        <5>2. CASE e # c
          <6>1. e # g /\ e \in Actors
            BY <1>1, ActorKinds
          <6> QED
            BY <1>6, <4>1, <4>2, <4>3, <5>2, <6>1 DEF CommandInv
        <5> QED
          BY <5>1, <5>2
      <4>4. op[d].conn \in Tasks => op'[op[d].conn] = op[op[d].conn]
        BY <1>1, <1>6, <4>2
      <4>5. owner'.conn = op[d].conn => owner.conn = op[d].conn
        BY <1>6, <4>2
      <4>6. owner.conn = op[d].conn => owner'.conn = op[d].conn
        BY <1>6, <4>2
      <4> QED
        BY <1>2, <1>6, <4>1, <4>2, <4>3, <4>4, <4>5, <4>6 DEF CommandInv
    <3> QED
      BY <3>1, <3>2
  <2> QED
    BY <1>6, <2>1, <2>2, <2>3, <2>4 DEF ChatInv, ConnectionInv
<1>7. LoginTyped
  BY <1>1 DEF LoginTyped, TypeOK
<1>8. CASE refused /\ owner' = owner /\ Become(Aborted(Put(c, Idle), g), update)
  <2> DEFINE p == Put(c, Idle)
             o == Aborted(p, g)
  <2>1. LoginTyped' /\ op' = o
    BY <1>1, <1>2, <1>7, <1>8, BecomeType, ReleasedType DEF LoginTyped
  <2>2. /\ p \in [Actors -> Op] /\ p[c] = Idle
        /\ \A b \in Actors \ {c} : p[b] = op[b]
    BY <1>1, IdleType, PutType, OpFields DEF Arrived
  <2> HIDE DEF p
  <2>3. /\ o \in [Actors -> Op]
        /\ \A b \in Actors : b # g => o[b] = p[b]
        /\ g \in Actors =>
             \/ o[g] = Idle /\ p[g].pc \in Awaits
             \/ o[g] = p[g] /\ p[g].pc = "idle"
             \/ p[g].pc \notin Awaits /\ p[g].pc # "idle"
    <3>1. g # NoConnection
      BY <1>4 DEF NoConnection
    <3> HIDE DEF g
    <3>2. /\ o \in [Actors -> Op]
          /\ \A b \in Actors : (b # g \/ b = NoConnection) => o[b] = p[b]
          /\ g # NoConnection /\ g \in Actors =>
               \/ o[g] = Idle /\ p[g].pc \in Awaits
               \/ o[g] = p[g] /\ p[g].pc = "idle"
               \/ /\ p[g].pc \notin Awaits /\ p[g].pc # "idle"
                  /\ o[g] = [p[g] EXCEPT !.alive = FALSE]
      BY <2>2, AbortedType
    <3> HIDE DEF o
    <3> QED
      BY <3>1, <3>2
  <2>4. g # c
    BY <1>1, ActorKinds
  <2>5. op'[c] = Idle /\ (\A b \in Actors \ {c, g} : op'[b] = op[b])
    BY <1>1, <2>1, <2>2, <2>3, <2>4
  <2>6. g \in Tasks => op'[g] \in {op[g], Idle}
    BY <1>1, <1>4, <1>5, <2>1, <2>2, <2>3, <2>4
  <2>7. /\ owner' \in Owner /\ owner'.gen = owner.gen /\ owner'.conn = owner.conn
        /\ owner'.conn \in {0, owner.gen}
        /\ \A h \in Tasks : Runs(h) => owner'.conn = h
    BY <1>1, <1>8 DEF ConnectionInv, TaskInv
  <2> HIDE DEF g, o
  <2> QED
    BY <1>6, <2>1, <2>3, <2>5, <2>6, <2>7 DEF Idle
<1>9. CASE ~refused /\ owner' = [owner EXCEPT !.conn = g] /\ Become(Put(c, r), update)
  <2>1. LoginTyped' /\ op' = Put(c, r)
    BY <1>1, <1>2, <1>7, <1>9, BecomeType, ReleasedType DEF LoginTyped
  <2>2. r \in Op /\ r.pc = "connect.publish" /\ r.conn = g /\ r.gen = op[c].gen
    BY <1>1, PcType DEF Points
  <2>3. "connect.publish" \notin Between
    BY DEF Between, Ends
  <2> HIDE DEF r
  <2>4. /\ op' \in [Actors -> Op] /\ op'[c] \in {Idle, r}
        /\ \A b \in Actors \ {c} : op'[b] = op[b]
    BY <1>1, <2>1, <2>2, <2>3, PutType, OpFields DEF Arrived
  <2>5. /\ owner' \in Owner /\ owner'.gen = owner.gen /\ owner'.conn = g
        /\ owner.conn = 0 /\ g = owner.gen
    BY <1>1, <1>9 DEF Owner, NoConnection
  <2>6. \A h \in Tasks : ~Runs(h)
    BY <1>1, <2>5, TwitchAssumption DEF ConnectionInv, TaskInv, Tasks
  <2>7. g # c /\ (g \in Tasks => op'[g] = op[g])
    BY <1>1, <2>4, ActorKinds
  <2>8. op'[c].gen \in {0, op[c].gen}
    BY <2>2, <2>4 DEF Idle
  <2> HIDE DEF g
  <2> QED
    BY <1>6, <2>1, <2>2, <2>4, <2>5, <2>6, <2>7, <2>8
<1> QED
  BY <1>2, <1>8, <1>9

LEMMA NoInvocations ==
  /\ [a \in Actors |-> Idle] \in [Actors -> Op]
  /\ [a \in Actors |-> NoJob] \in [Actors -> Job]
BY IdleType, NoCredType DEF NoJob, Job

\* With nobody under way, and nothing owned, nothing is wrong.
LEMMA RestKeeps ==
  ASSUME TypeOK, op = [a \in Actors |-> Idle], owner.conn = 0, ended = 0
  PROVE  ChatInv
<1>1. auth.gen \in Nat /\ owner.gen \in Nat
  BY AuthFields, ConnectionFields
<1>2. /\ Idle.pc = "idle" /\ Idle.gen = 0
      /\ "idle" \notin Connecting /\ "idle" \notin Signed
      /\ \A a \in Actors : op[a] = Idle
  BY DEF Idle, Connecting, Signed, Subscribed
<1>3. Commands \subseteq Actors /\ Tasks \subseteq Actors
  BY ActorKinds
<1> QED
  BY <1>1, <1>2, <1>3 DEF ChatInv, GenerationsKnown, ConnectionInv, TaskInv,
    CommandInv, SessionInv, Runs

LEMMA InitialTypes ==
  ASSUME Init
  PROVE  ChatInv
<1>1. PICK c \in {NoCred, 1} :
        /\ auth = [gen |-> 0, rev |-> 0, cred |-> c, pending |-> NoPending]
        /\ store = c
        /\ job = [a \in Actors |-> NoJob] /\ update = NoActor
        /\ op = [a \in Actors |-> Idle]
        /\ owner = [gen |-> 0, conn |-> NoConnection]
        /\ chat = [gen |-> 0, status |-> "Disconnected", active |-> FALSE]
        /\ calls = 0 /\ issued = c /\ valid = {c} \ {NoCred}
        /\ loggedOut = NoCred /\ ended = 0 /\ spoiled = {}
        /\ storeFault = FALSE /\ heard = 0
  BY DEF Init
<1>2. c \in Creds /\ NoCred \in Creds /\ calls \in 0 .. MaxCalls
  BY <1>1, TwitchAssumption DEF Creds, NoCred
<1>3. auth \in Auth /\ auth.gen = 0 /\ auth.pending.gen = 0
  BY <1>1, <1>2, NoPendingType DEF Auth, Pending
<1>4. owner \in Owner /\ chat \in Status /\ chat.gen = 0 /\ owner.gen = 0 /\ owner.conn = 0
  BY <1>1 DEF Owner, Status, Statuses, NoConnection
<1>5. /\ store \in Creds /\ issued \in Creds /\ valid \subseteq Creds
      /\ loggedOut \in Creds /\ spoiled \subseteq Creds /\ storeFault \in BOOLEAN
      /\ update \in Actors \cup {NoActor} /\ ended \in Nat /\ heard \in Nat
  BY <1>1, <1>2
<1>6. TypeOK
  <2>1. chat.gen <= owner.gen
    BY <1>4
  <2>2. op \in [Actors -> Op] /\ job \in [Actors -> Job]
    BY <1>1, NoInvocations
  <2> QED
    BY <1>2, <1>3, <1>4, <1>5, <2>1, <2>2 DEF TypeOK
<1> QED
  BY <1>1, <1>4, <1>6, RestKeeps

LEMMA RestartKeeps ==
  ASSUME ChatInv, Restart
  PROVE  ChatInv'
<1>1. /\ auth' = [gen |-> 0, rev |-> 0, cred |-> store, pending |-> NoPending]
      /\ job' = [a \in Actors |-> NoJob] /\ update' = NoActor
      /\ op' = [a \in Actors |-> Idle]
      /\ owner' = [gen |-> 0, conn |-> NoConnection]
      /\ chat' = [gen |-> 0, status |-> "Disconnected", active |-> FALSE]
      /\ calls' = calls + 1 /\ calls < MaxCalls /\ ended' = 0 /\ heard' = 0
      /\ spoiled' = spoiled \cup ({store} \ (valid \cup {NoCred}))
      /\ UNCHANGED <<store, issued, valid, loggedOut, storeFault>>
  BY DEF Restart
<1>2. LoginTyped
  BY DEF ChatInv, LoginTyped, TypeOK
<1>3. calls' \in 0 .. MaxCalls /\ spoiled' \subseteq Creds
  BY <1>1, <1>2, TwitchAssumption DEF LoginTyped
<1>4. auth' \in Auth /\ auth'.gen = 0 /\ auth'.pending.gen = 0
  BY <1>1, <1>2, NoPendingType DEF Auth, Pending, LoginTyped
<1>5. /\ owner' \in Owner /\ chat' \in Status /\ chat'.gen = 0
      /\ owner'.gen = 0 /\ owner'.conn = 0
  BY <1>1 DEF Owner, Status, Statuses, NoConnection
<1>6. TypeOK'
  <2>1. LoginTyped'
    BY <1>1, <1>2, <1>3, <1>4, NoInvocations DEF LoginTyped
  <2>2. op' \in [Actors -> Op]
    BY <1>1, NoInvocations
  <2>3. chat'.gen <= owner'.gen
    BY <1>5
  <2> QED
    BY <1>1, <1>5, <2>1, <2>2, <2>3, TypesTogether
<1>7. op' = [a \in Actors |-> Idle] /\ owner'.conn = 0 /\ ended' = 0
  BY <1>1, <1>5
<1>8. ASSUME TypeOK', op' = [a \in Actors |-> Idle], owner'.conn = 0, ended' = 0
      PROVE  ChatInv'
  <2>1. auth'.gen \in Nat /\ owner'.gen \in Nat
    BY <1>4, <1>5
  <2>2. /\ Idle.pc = "idle" /\ Idle.gen = 0
        /\ "idle" \notin Connecting /\ "idle" \notin Signed
        /\ \A a \in Actors : op'[a] = Idle
    BY <1>8 DEF Idle, Connecting, Signed, Subscribed
  <2>3. Commands \subseteq Actors /\ Tasks \subseteq Actors
    BY ActorKinds
  <2> QED
    BY <1>8, <2>1, <2>2, <2>3 DEF ChatInv, GenerationsKnown, ConnectionInv, TaskInv,
      CommandInv, SessionInv, Runs
<1> QED
  BY <1>6, <1>7, <1>8

-----------------------------------------------------------------------------
(***************************************************************************)
(* Every step.                                                             *)
(***************************************************************************)
\* The disjuncts of Next, by what they do to the connection.
LEMMA NextSteps ==
  ASSUME Next
  PROVE  \/ \E a \in Actors : \/ RefreshStep(a) \/ ClearBegin(a) \/ ClearStored(a)
                              \/ ClearCancel(a) \/ JobStep(a)
         \/ \E c \in Commands : \/ LoginStep(c) \/ Plain(c)
                                \/ DisconnectCancel(c) \/ Stop(c) \/ ConnectReserve(c)
                                \/ ConnectRegister(c) \/ ConnectPublish(c) \/ ConnectGo(c)
         \/ \E g \in Tasks : TaskStep(g)
         \/ Restart
BY DEF Next, SessionCall, SessionStep, DisconnectStep, ClearStep, Plain

LEMMA StepKeeps ==
  ASSUME ChatInv, [Next]_vars
  PROVE  ChatInv'
<1>1. /\ TypeOK /\ GenerationsKnown /\ ConnectionInv /\ SessionInv
      /\ heard \in Nat /\ Commands \subseteq Actors /\ Tasks \subseteq Actors
      /\ Commands \cap Tasks = {} /\ Tasks \subseteq Nat
  BY ConnectionFields, ActorKinds DEF ChatInv
<1>2. CASE UNCHANGED vars
  BY <1>2 DEF vars, ChatInv, TypeOK, GenerationsKnown, ConnectionInv, SessionInv,
    TaskInv, CommandInv, Runs
<1>3. ASSUME NEW a \in Actors,
             RefreshStep(a) \/ ClearBegin(a) \/ ClearStored(a)
      PROVE  ChatInv'
  <2>1. GoesOn(a)
    BY <1>1, <1>3, RefreshStepsGoOn, ClearStepsGoOn
  <2>2. /\ UNCHANGED <<owner, ended, heard>>
        /\ chat' = chat \/ op[a].pc \in {"stop.publish", "disconnect.publish"}
    BY <1>3, LoginLeavesChat
  <2>3. op[a].pc \notin {"stop.publish", "disconnect.publish"}
    BY <1>3 DEF RefreshStep, TwitchRotates, RefreshReplied, RefreshLost, RefreshRefused,
      RefreshCheckFailed, RefreshScopeMissing, RefreshCommit, RefreshSaved,
      ClearBegin, ClearStored
  <2> QED
    BY <1>1, <2>1, <2>2, <2>3, GoesOnKeeps
<1>4. ASSUME NEW c \in Commands, LoginStep(c) \/ Plain(c)
      PROVE  ChatInv'
  <2>1. GoesOn(c) /\ c \in Actors
    BY <1>1, <1>4, LoginStepsGoOn, PlainStepsGoOn
  <2> QED
    BY <1>1, <1>4, <2>1, LoginLeavesChat, GoesOnKeeps
<1>5. ASSUME NEW g \in Tasks, TaskStep(g)
      PROVE  ChatInv'
  <2>1. GoesOn(g) /\ ChatOf(g) /\ HeardFrom(g) /\ owner' = owner /\ ended' = ended
    BY <1>1, <1>5, TaskStepsGoOn DEF TaskGoesOn
  <2>2. heard' \in Nat
    BY <1>1, <2>1 DEF HeardFrom
  <2> QED
    BY <1>1, <2>1, <2>2, GoesOnKeeps
<1>6. ASSUME NEW a \in Actors, JobStep(a)
      PROVE  ChatInv'
  <2>1. LoginTyped' /\ UNCHANGED <<auth, op, owner, chat, ended, heard>>
    BY <1>1, <1>6, JobStepsKeepTypes
  <2>2. TypeOK'
    BY <1>1, <2>1 DEF TypeOK, LoginTyped
  <2> QED
    BY <1>1, <2>1, <2>2 DEF ChatInv, GenerationsKnown, ConnectionInv, SessionInv,
      TaskInv, CommandInv, Runs
<1>7. CASE Next
  BY <1>1, <1>3, <1>4, <1>5, <1>6, <1>7, NextSteps, CancelStepsKeep, ConnectRegisterKeeps,
     ConnectPublishKeeps, ConnectGoKeeps, RestartKeeps
<1> QED
  BY <1>2, <1>7

\* What ChatInv says of the generations, of who owns the connection and of the
\* logins of its tasks holds whatever commands, tasks and restarts do.
THEOREM ChatInvariance == Spec => []ChatInv
<1>1. Init => ChatInv
  BY InitialTypes
<1>2. ChatInv /\ [Next]_vars => ChatInv'
  BY StepKeeps
<1> QED
  BY <1>1, <1>2, PTL DEF Spec

\* The login, the invocations, the connection and the retained status keep
\* their types; a pending authorization is of the current generation, and no
\* status is of a generation that was not handed out.
THEOREM TwitchTypes == Spec => []TypeOK
<1>1. ChatInv => TypeOK
  BY DEF ChatInv
<1> QED
  BY <1>1, ChatInvariance, PTL

\* However connect, stop, disconnect and the clears of tasks interleave, two
\* EventSub tasks are never alive side by side (chat_service.rs, reserve,
\* register and cancel).
THEOREM OneTaskIsAlive == Spec => []OneLiveTask
<1>1. ChatInv => OneLiveTask
  BY DEF ChatInv, ConnectionInv, TaskInv, OneLiveTask
<1> QED
  BY <1>1, ChatInvariance, PTL

\* After a disconnect has cancelled the chat, no task has a subscription of
\* the login it ended, nor gets one later.
THEOREM LogoutReachesChat == Spec => []LogoutEndsChat
<1>1. ChatInv => LogoutEndsChat
  BY DEF ChatInv, SessionInv, LogoutEndsChat, Signed
<1> QED
  BY <1>1, ChatInvariance, PTL

\* Only a task that owns the connection gives a message to the application.
LEMMA HeardFromOwner ==
  ASSUME ChatInv, Next, heard' \notin {0, heard}
  PROVE  \E g \in Tasks : heard' = g /\ owner.conn = g /\ op[g].pc # "idle"
<1>1. TypeOK /\ GenerationsKnown /\ Tasks \subseteq Actors
  BY ActorKinds DEF ChatInv
<1>2. PICK g \in Tasks : TaskStep(g)
  <2>1. ASSUME NEW a \in Actors,
               \/ RefreshStep(a) \/ ClearBegin(a) \/ ClearStored(a)
               \/ ClearCancel(a) \/ JobStep(a)
        PROVE  heard' = heard
    BY <1>1, <2>1, LoginLeavesChat, JobStepsKeepTypes DEF ClearCancel
  <2>2. ASSUME NEW c \in Commands,
               \/ LoginStep(c) \/ Plain(c)
               \/ DisconnectCancel(c) \/ Stop(c) \/ ConnectReserve(c)
               \/ ConnectRegister(c) \/ ConnectPublish(c) \/ ConnectGo(c)
        PROVE  heard' = heard
    <3>1. CASE LoginStep(c) \/ Plain(c)
      BY <3>1, LoginLeavesChat
    <3>2. CASE ~(LoginStep(c) \/ Plain(c))
      BY <2>2, <3>2 DEF DisconnectCancel, Stop, ConnectReserve, ConnectRegister,
        ConnectPublish, ConnectGo, ghostVars
    <3> QED
      BY <3>1, <3>2
  <2>3. ~Restart
    BY DEF Restart
  <2> QED
    BY <2>1, <2>2, <2>3, NextSteps
<1>3. TaskGoesOn(g)
  BY <1>1, <1>2, TaskStepsGoOn
<1>4. heard' = g /\ owner.conn = g
  BY <1>3 DEF TaskGoesOn, HeardFrom
<1>5. op[g].pc # "idle"
  BY <1>1, <1>3, GoesOnEffect DEF TaskGoesOn
<1> QED
  BY <1>4, <1>5

\* A message that reaches the UI and the speech queue comes from a connection
\* that the retained status has neither passed nor reported as ended.
THEOREM MessagesAreCurrent == Spec => NoChatBehindStatus
<1> DEFINE Fresh == heard' \notin {0, heard} =>
             /\ heard' >= chat.gen
             /\ heard' = chat.gen => chat.status \in LiveStatuses
<1>1. ASSUME ChatInv, Next PROVE Fresh
  <2> SUFFICES ASSUME heard' \notin {0, heard}
               PROVE  /\ heard' >= chat.gen
                      /\ heard' = chat.gen => chat.status \in LiveStatuses
    OBVIOUS
  <2>1. PICK g \in Tasks : heard' = g /\ owner.conn = g /\ op[g].pc # "idle"
    BY <1>1, HeardFromOwner
  <2>2. TaskInv(g) /\ owner.conn \in {0, owner.gen} /\ chat.gen <= owner.gen
    BY <1>1, ConnectionFields DEF ChatInv, ConnectionInv
  <2>3. g # 0
    BY TwitchAssumption DEF Tasks
  <2> QED
    BY <2>1, <2>2, <2>3 DEF TaskInv
<1>2. ChatInv /\ [Next]_vars => [Fresh]_vars
  BY <1>1
<1> QED
  BY <1>2, ChatInvariance, PTL DEF NoChatBehindStatus, Spec

=============================================================================
