------------------------- MODULE TwitchLoginProofs -------------------------
(***************************************************************************)
(* TwitchSession polls a device code from one command at a time, never     *)
(* brings back a credential that was logged out, never goes back to an     *)
(* older one, and presents a refresh token only while Twitch takes it.     *)
(* Device codes belong to generations of the authorization state: the      *)
(* first part of the proof follows, per generation, the pending            *)
(* authorization, the command that polls for it and the step that opened   *)
(* it.  The second follows the credentials: in memory, in the locals of    *)
(* the invocations, in the jobs of the blocking threads and in the         *)
(* keyring.  The third follows their refresh tokens: which of them Twitch  *)
(* takes, who is about to present one, and who holds its successor.  The   *)
(* fourth follows the keyring: what is installed is stored there, or will  *)
(* be when the jobs have ended.  The fifth joins login and chat: the       *)
(* status of the connection can be believed while somebody is logged in.   *)
(***************************************************************************)
EXTENDS TwitchChatProofs, FiniteSetTheorems

-----------------------------------------------------------------------------
(***************************************************************************)
(* Authorizations.                                                         *)
(***************************************************************************)
\* Where a command polls for the code of its generation, and where a step is
\* that began with a generation of its own.
Polls == {"poll.reply", "poll.check"}
Openers == {"start.reply", "disconnect.lock", "disconnect.store", "clear.store"}
Dated == Polls \cup Openers

Polling == [gen |-> auth.gen, polling |-> TRUE]
Waiting == [gen |-> auth.gen, polling |-> FALSE]

\* A poll of the current generation is the one the pending authorization knows
\* of; before the authorization there is none, and after a clear there is none
\* of its generation.
PollInv ==
  /\ auth.pending # NoPending => auth.pending.gen = auth.gen
  /\ \A a \in Actors : op[a].pc \in Polls /\ op[a].gen = auth.gen =>
       auth.pending = Polling
  /\ \A a \in Actors : op[a].pc \in Openers /\ op[a].gen = auth.gen =>
       auth.pending = NoPending
  /\ \A a, b \in Actors : op[a].pc \in Polls /\ op[b].pc \in Polls
                            /\ op[a].gen = op[b].gen => a = b
  /\ \A a, b \in Actors : op[a].pc \in Openers /\ op[b].pc \in Openers
                            /\ op[a].gen = op[b].gen => a = b

\* An invocation goes on with the poll or the clear it was at, or with neither.
NothingNew(b) ==
  /\ op'[b].pc \in Polls => op[b].pc \in Polls /\ op'[b].gen = op[b].gen
  /\ op'[b].pc \in Openers => op[b].pc \in Openers /\ op'[b].gen = op[b].gen

LEMMA QuietKeepsPolls ==
  ASSUME PollInv, auth'.gen = auth.gen, auth'.pending = auth.pending,
         \A b \in Actors : NothingNew(b)
  PROVE  PollInv'
BY DEF PollInv, NothingNew, Polling

\* A new generation begins with nothing pending, and with one step of its own.
LEMMA NewGenerationKeepsPolls ==
  ASSUME PollInv, GenerationsKnown, auth.gen \in Nat, op \in [Actors -> Op],
         NEW a \in Actors, auth'.gen = auth.gen + 1, auth'.pending = NoPending,
         op'[a].pc \in Openers => op'[a].gen = auth.gen + 1,
         op'[a].pc \notin Polls,
         \A b \in Actors \ {a} : op'[b] = op[b]
  PROVE  PollInv'
<1>1. \A b \in Actors : op[b].gen \in Nat /\ op[b].gen <= auth.gen
  BY DEF GenerationsKnown, Op
<1>2. \A b \in Actors \ {a} : op'[b].gen # auth'.gen
  BY <1>1
<1>3. \A b \in Actors : op'[b].pc \in Polls => b # a
  OBVIOUS
<1> QED
  BY <1>2, <1>3 DEF PollInv

\* The command that polls ends, and says what becomes of the authorization.
LEMMA PollEnds ==
  ASSUME PollInv, NEW c \in Actors, op[c].pc \in Polls, op[c].gen = auth.gen,
         auth'.gen = auth.gen, auth'.pending \in {NoPending, Waiting},
         op'[c].pc \notin Dated, \A b \in Actors \ {c} : op'[b] = op[b]
  PROVE  PollInv'
<1>1. auth.pending = Polling /\ Polling # NoPending
  BY DEF PollInv, Polling, NoPending
<1>2. \A b \in Actors : op[b].pc \in Polls /\ op[b].gen = auth.gen => b = c
  BY DEF PollInv
<1>3. \A b \in Actors : op[b].pc \in Openers => op[b].gen # auth.gen
  BY <1>1 DEF PollInv
<1>4. auth'.pending # NoPending => auth'.pending.gen = auth'.gen
  BY DEF Waiting
<1> QED
  BY <1>2, <1>3, <1>4 DEF PollInv, Dated

-----------------------------------------------------------------------------
(***************************************************************************)
(* Where the steps leave an invocation.                                    *)
(***************************************************************************)
LEMMA PutPoint ==
  ASSUME op \in [Actors -> Op], NEW a \in Actors, NEW r
  PROVE  /\ Put(a, r)[a].pc \in {"idle", r.pc}
         /\ r.pc \notin Between => Put(a, r)[a] \in {Idle, r}
         /\ \A b \in Actors \ {a} : Put(a, r)[b] = op[b]
<1>1. Put(a, r)[a] = Advance(r)
  BY DEF Put
<1>2. Advance(r).pc \in {"idle", r.pc}
  BY DEF Advance, Idle
<1>3. r.pc \notin Between => Advance(r) \in {Idle, r}
  BY DEF Advance, Between
<1>4. \A b \in Actors \ {a} : Put(a, r)[b] = op[b]
  BY DEF Put
<1> QED
  BY <1>1, <1>2, <1>3, <1>4

\* An invocation that moves to r, where it neither polls nor clears.
LEMMA MovedOn ==
  ASSUME op \in [Actors -> Op], NEW a \in Actors, NEW r, op' = Put(a, r),
         r.pc \notin Dated
  PROVE  /\ op'[a].pc \notin Dated
         /\ \A b \in Actors : NothingNew(b)
<1>1. /\ op'[a].pc \notin Dated
      /\ \A b \in Actors \ {a} : op'[b] = op[b]
  BY PutPoint DEF Dated, Polls, Openers
<1> QED
  BY <1>1 DEF NothingNew, Dated

LEMMA LeavesUndated ==
  ASSUME TypeOK, NEW a \in Actors
  PROVE  /\ Latest(op[a]).pc \notin Dated
         /\ \A kind \in {"transient", "definitive", "permanent"} :
              RefreshFailed(a, kind).pc \notin Dated
         /\ \A result : ClearReturned(a, result).pc \notin Dated
<1> DEFINE r == op[a]
<1>1. r \in Op /\ auth \in Auth
  BY OpFields, AuthFields
<1>2. Latest(r).pc \notin Dated
  BY <1>1, LatestType DEF Dated, Polls, Openers
<1>3. Idle.pc \notin Dated
  BY DEF Idle, Dated, Polls, Openers
<1>4. \A pc \in {"clear.begin", "end.Error", "end.AuthRequired", "end.Disconnected",
                 "task.down"} :
        /\ pc \notin Dated
        /\ [r EXCEPT !.pc = pc].pc = pc
        /\ \A why : [r EXCEPT !.pc = pc, !.why = why].pc = pc
  BY <1>1 DEF Op, Dated, Polls, Openers
<1> HIDE DEF r
<1>5. ASSUME NEW kind \in {"transient", "definitive", "permanent"}
      PROVE  RefreshFailed(a, kind).pc \notin Dated
  BY <1>2, <1>3, <1>4 DEF RefreshFailed, r
<1>6. ASSUME NEW result PROVE ClearReturned(a, result).pc \notin Dated
  BY <1>2, <1>3, <1>4 DEF ClearReturned, r
<1> QED
  BY <1>2, <1>5, <1>6 DEF r

-----------------------------------------------------------------------------
(***************************************************************************)
(* Every step keeps the authorizations in order.                           *)
(***************************************************************************)
\* The authorization and its generation stay as they are.
SamePending == auth'.gen = auth.gen /\ auth'.pending = auth.pending

LEMMA MovedOnKeepsPolls ==
  ASSUME TypeOK, PollInv, NEW a \in Actors, NEW r, op' = Put(a, r),
         r.pc \notin Dated, SamePending
  PROVE  PollInv'
BY OpFields, MovedOn, QuietKeepsPolls DEF SamePending

LEMMA IdleUndated == Idle.pc \notin Dated
BY DEF Idle, Dated, Polls, Openers

LEMMA StartReplyKeepsPolls ==
  ASSUME TypeOK, PollInv, NEW c \in Commands, StartReply(c)
  PROVE  PollInv'
<1>1. c \in Actors /\ op[c].pc = "start.reply" /\ op' = Put(c, Idle)
  BY ActorKinds DEF StartReply, Finish, Become
<1>2. CASE auth' = auth
  BY <1>1, <1>2, IdleUndated, MovedOnKeepsPolls DEF SamePending
<1>3. CASE auth.gen = op[c].gen /\ auth' = [auth EXCEPT !.cred = NoCred,
             !.pending = [gen |-> op[c].gen, polling |-> FALSE]]
  <2>1. auth'.gen = auth.gen /\ auth'.pending = Waiting
    BY <1>3, AuthFields DEF Auth, Waiting
  <2>2. /\ op'[c].pc \notin Dated
        /\ \A b \in Actors \ {c} : op'[b] = op[b]
    BY <1>1, OpFields, IdleUndated, PutPoint DEF Dated, Polls, Openers
  <2>3. auth.pending = NoPending
    BY <1>1, <1>3 DEF PollInv, Openers
  <2>4. \A b \in Actors : op[b].pc \in Polls => op[b].gen # auth.gen
    BY <2>3 DEF PollInv, Polling, NoPending
  <2>5. \A b \in Actors : op[b].pc \in Openers /\ op[b].gen = auth.gen => b = c
    BY <1>1, <1>3 DEF PollInv, Openers
  <2>6. auth'.pending.gen = auth'.gen
    BY <2>1 DEF Waiting
  <2> QED
    BY <2>1, <2>2, <2>4, <2>5, <2>6 DEF PollInv, Dated
<1> QED
  BY <1>2, <1>3 DEF StartReply

LEMMA PollAuthKeepsPolls ==
  ASSUME TypeOK, PollInv, NEW c \in Commands, PollAuth(c)
  PROVE  PollInv'
<1> DEFINE r == [Idle EXCEPT !.pc = "poll.reply", !.gen = auth.pending.gen]
<1>1. /\ c \in Actors /\ op[c].pc = "idle" /\ op' = Put(c, r)
      /\ auth.pending # NoPending /\ ~auth.pending.polling
      /\ auth' = [auth EXCEPT !.pending.polling = TRUE]
  BY ActorKinds DEF PollAuth, Call, Become
<1>2. auth.pending.gen = auth.gen
  BY <1>1 DEF PollInv
<1>3. auth'.gen = auth.gen /\ auth'.pending = Polling
  BY <1>1, <1>2, AuthFields DEF Auth, Polling
<1>4. r.pc = "poll.reply" /\ r.gen = auth.gen
  BY <1>2 DEF Idle
<1>5. /\ op'[c].pc \in {"idle", "poll.reply"}
      /\ op'[c].pc = "poll.reply" => op'[c].gen = auth.gen
      /\ \A b \in Actors \ {c} : op'[b] = op[b]
  <2>1. "poll.reply" \notin Between
    BY DEF Between, Ends
  <2> HIDE DEF r
  <2>2. op'[c] \in {Idle, r} /\ \A b \in Actors \ {c} : op'[b] = op[b]
    BY <1>1, <1>4, <2>1, OpFields, PutPoint
  <2> QED
    BY <1>4, <2>2, IdleType
<1>6. \A b \in Actors : op[b].pc \in Polls => op[b].gen # auth.gen
  BY <1>1 DEF PollInv, Polling
<1>7. \A b \in Actors : op[b].pc \in Openers => op[b].gen # auth.gen
  BY <1>1 DEF PollInv
<1>8. auth'.pending.gen = auth'.gen
  BY <1>3 DEF Polling
<1>9. Polling' = Polling
  BY <1>3 DEF Polling
<1> QED
  BY <1>1, <1>3, <1>5, <1>6, <1>7, <1>8, <1>9 DEF PollInv, Polls, Openers

LEMMA PollStepsKeepPolls ==
  ASSUME TypeOK, PollInv, NEW c \in Commands,
         \/ PollPending(c) \/ PollRefused(c) \/ PollCheckFailed(c)
         \/ PollScopeMissing(c) \/ LogIn(c)
  PROVE  PollInv'
<1>1. c \in Actors /\ op[c].pc \in Polls
  BY ActorKinds DEF Polls, PollPending, PollRefused, PollCheckFailed,
    PollScopeMissing, LogIn
<1>2. \E r : op' = Put(c, r) /\ r.pc \notin Dated
  <2>1. [op[c] EXCEPT !.pc = "poll.save"].pc \notin Dated
    BY <1>1, OpFields DEF Op, Dated, Polls, Openers
  <2> QED
    BY <2>1, IdleUndated DEF PollPending, PollRefused, PollCheckFailed,
      PollScopeMissing, LogIn, Finish, Goto, Become
<1>3. CASE op[c].gen = auth.gen
  <2>1. auth.pending = Polling
    BY <1>1, <1>3 DEF PollInv
  <2>2. PendingIsCurrent(op[c].gen)
    BY <1>3, <2>1 DEF PendingIsCurrent, Polling, NoPending
  <2>3. auth'.gen = auth.gen /\ auth'.pending \in {NoPending, Waiting}
    <3>1. auth \in Auth
      BY AuthFields
    <3>2. CASE auth' = [auth EXCEPT !.pending.polling = FALSE]
      <4>1. auth'.gen = auth.gen /\ auth'.pending = [auth.pending EXCEPT !.polling = FALSE]
        BY <3>1, <3>2 DEF Auth
      <4>2. auth.pending \in Pending /\ auth.pending.gen = auth.gen
        BY <2>1, AuthFields DEF Polling
      <4>3. /\ auth'.pending \in Pending /\ auth'.pending.gen = auth.gen
            /\ auth'.pending.polling = FALSE
        BY <4>1, <4>2 DEF Pending
      <4>4. auth'.pending = Waiting
        BY <4>3 DEF Pending, Waiting
      <4> QED
        BY <4>1, <4>4
    <3>3. CASE \/ auth' = [auth EXCEPT !.pending = NoPending]
               \/ auth' = [auth EXCEPT !.pending = NoPending, !.cred = NoCred]
               \/ auth' = [auth EXCEPT !.pending = NoPending, !.rev = @ + 1,
                                       !.cred = op[c].fresh]
      BY <3>1, <3>3 DEF Auth
    <3> QED
      BY <1>3, <2>2, <3>2, <3>3 DEF PollPending, PollRefused, PollCheckFailed,
        PollScopeMissing, LogIn
  <2>4. op'[c].pc \notin Dated /\ \A b \in Actors \ {c} : op'[b] = op[b]
    BY <1>1, <1>2, OpFields, MovedOn, PutPoint
  <2> QED
    BY <1>1, <1>3, <2>3, <2>4, PollEnds
<1>4. CASE op[c].gen # auth.gen
  <2>1. auth' = auth
    BY <1>4 DEF PendingIsCurrent, PollPending, PollRefused, PollCheckFailed,
      PollScopeMissing, LogIn
  <2> QED
    BY <1>1, <1>2, <2>1, MovedOnKeepsPolls DEF SamePending
<1> QED
  BY <1>3, <1>4

LEMMA PollGrantedKeepsPolls ==
  ASSUME TypeOK, PollInv, NEW c \in Commands, PollGranted(c)
  PROVE  PollInv'
<1> DEFINE r == [op[c] EXCEPT !.pc = "poll.check", !.fresh = issued + 1]
<1>1. c \in Actors /\ op[c].pc = "poll.reply" /\ auth' = auth
  BY ActorKinds DEF PollGranted
<1>2. CASE op' = Put(c, Idle)
  BY <1>1, <1>2, IdleUndated, MovedOnKeepsPolls DEF SamePending
<1>3. CASE op' = Put(c, r)
  <2>1. r.pc = "poll.check" /\ r.gen = op[c].gen
    BY <1>1, OpFields DEF Op
  <2>2. "poll.check" \notin Between
    BY DEF Between, Ends
  <2>3. \A b \in Actors : NothingNew(b)
    <3> HIDE DEF r
    <3>1. op'[c] \in {Idle, r} /\ \A b \in Actors \ {c} : op'[b] = op[b]
      BY <1>1, <1>3, <2>1, <2>2, OpFields, PutPoint
    <3> QED
      BY <1>1, <2>1, <3>1, IdleType DEF NothingNew, Polls, Openers
  <2> QED
    BY <1>1, <2>3, QuietKeepsPolls
<1> QED
  BY <1>2, <1>3 DEF PollGranted, Finish, Become

LEMMA LoginStepsKeepPolls ==
  ASSUME TypeOK, PollInv, NEW c \in Commands, LoginStep(c)
  PROVE  PollInv'
<1>1. CASE \/ SaveReturned(c) \/ ValidateLocked(c) \/ ValidateAccepted(c)
           \/ ValidateScopeMissing(c) \/ ValidateFailed(c)
  <2>1. c \in Actors /\ op[c] \in Op
    BY ActorKinds, OpFields
  <2>2. /\ [op[c] EXCEPT !.pc = "validate.reply", !.gen = auth.gen, !.rev = auth.rev,
                         !.cred = auth.cred].pc \notin Dated
        /\ [op[c] EXCEPT !.pc = "clear.begin", !.why = "invalid"].pc \notin Dated
        /\ [op[c] EXCEPT !.pc = "validate.save"].pc \notin Dated
        /\ [op[c] EXCEPT !.pc = "refresh.request"].pc \notin Dated
    BY <2>1 DEF Op, Dated, Polls, Openers
  <2>3. auth' = auth /\ \E r : op' = Put(c, r) /\ r.pc \notin Dated
    BY <1>1, <2>2, IdleUndated DEF SaveReturned, ValidateLocked, ValidateAccepted,
      ValidateScopeMissing, ValidateFailed, Finish, Goto, Become
  <2> QED
    BY <2>1, <2>3, MovedOnKeepsPolls DEF SamePending
<1> QED
  BY <1>1, StartReplyKeepsPolls, PollGrantedKeepsPolls, PollStepsKeepPolls DEF LoginStep


LEMMA RefreshStepsMoveOn ==
  ASSUME TypeOK, NEW a \in Actors, RefreshStep(a)
  PROVE  SamePending /\ \E r : op' = Put(a, r) /\ r.pc \notin Dated
<1>1. op[a] \in Op /\ auth \in Auth
  BY OpFields, AuthFields
<1>2. SamePending
  <2>1. [auth EXCEPT !.rev = @ + 1, !.cred = op[a].fresh].gen = auth.gen
    BY <1>1 DEF Auth
  <2>2. [auth EXCEPT !.rev = @ + 1, !.cred = op[a].fresh].pending = auth.pending
    BY <1>1 DEF Auth
  <2> QED
    BY <2>1, <2>2 DEF SamePending, RefreshStep, TwitchRotates, RefreshReplied,
      RefreshLost, RefreshRefused, RefreshCheckFailed, RefreshScopeMissing,
      RefreshCommit, RefreshSaved
<1>3. ASSUME NEW r, r.pc \notin Dated, LeaveRefresh(a, r)
      PROVE  \E s : op' = Put(a, s) /\ s.pc \notin Dated
  BY <1>3 DEF LeaveRefresh, Become
<1>4. \A kind \in {"transient", "definitive", "permanent"} :
        RefreshFailed(a, kind).pc \notin Dated
  BY LeavesUndated
<1>5. CASE TwitchRotates(a) \/ RefreshReplied(a)
  <2>1. /\ [op[a] EXCEPT !.pc = "refresh.granted", !.fresh = issued + 1].pc \notin Dated
        /\ [op[a] EXCEPT !.pc = "refresh.check"].pc \notin Dated
    BY <1>1 DEF Op, Dated, Polls, Openers
  <2> QED
    BY <1>2, <1>5, <2>1 DEF TwitchRotates, RefreshReplied, Goto, Become
<1>6. CASE RefreshLost(a) \/ RefreshRefused(a) \/ RefreshCheckFailed(a)
  BY <1>2, <1>3, <1>4, <1>6 DEF RefreshLost, RefreshRefused, RefreshCheckFailed
<1>7. CASE RefreshScopeMissing(a)
  <2>1. \A why : [op[a] EXCEPT !.pc = "clear.begin", !.why = why].pc \notin Dated
    BY <1>1 DEF Op, Dated, Polls, Openers
  <2> QED
    BY <1>2, <1>3, <1>4, <1>7, <2>1 DEF RefreshScopeMissing
<1>8. CASE RefreshCommit(a)
  <2>1. /\ [op[a] EXCEPT !.pc = "refresh.save", !.rev = auth.rev + 1,
                         !.cred = op[a].fresh].pc \notin Dated
        /\ [op[a] EXCEPT !.pc = "task.down"].pc \notin Dated
    BY <1>1 DEF Op, Dated, Polls, Openers
  <2> QED
    BY <1>2, <1>3, <1>4, <1>8, <2>1 DEF RefreshCommit, Become
<1>9. CASE RefreshSaved(a)
  BY <1>2, <1>3, <1>9, LeavesUndated, IdleUndated DEF RefreshSaved
<1> QED
  BY <1>5, <1>6, <1>7, <1>8, <1>9 DEF RefreshStep

\* A clear that could not be stored leaves nothing pending, as it found it.
LEMMA RestoredPending ==
  ASSUME TypeOK, PollInv, NEW a \in Actors, op[a].pc \in Openers,
         auth' \in {auth, Restored(op[a])}
  PROVE  SamePending
<1>1. auth \in Auth
  BY AuthFields
<1>2. CASE auth.gen = op[a].gen /\ auth.rev = op[a].rev
  <2>1. auth.pending = NoPending
    BY <1>2 DEF PollInv
  <2>2. /\ [auth EXCEPT !.cred = op[a].cred, !.pending = NoPending].gen = auth.gen
        /\ [auth EXCEPT !.cred = op[a].cred, !.pending = NoPending].pending = NoPending
    BY <1>1 DEF Auth
  <2> QED
    BY <1>2, <2>1, <2>2 DEF Restored, SamePending
<1>3. CASE ~(auth.gen = op[a].gen /\ auth.rev = op[a].rev)
  BY <1>3 DEF Restored, SamePending
<1> QED
  BY <1>2, <1>3

\* An invocation opens the next generation.
LEMMA OpensGeneration ==
  ASSUME TypeOK, GenerationsKnown, PollInv, NEW a \in Actors,
         NEW r \in Op, op' = Put(a, r), r.pc \in Openers, r.gen = auth.gen + 1,
         \/ auth' = Forgotten(auth)
         \/ auth' = [Invalidated(auth) EXCEPT !.rev = @ + 1]
  PROVE  PollInv'
<1>1. auth \in Auth /\ auth.gen \in Nat /\ op \in [Actors -> Op]
  BY AuthFields, OpFields
<1>2. auth'.gen = auth.gen + 1 /\ auth'.pending = NoPending
  BY <1>1 DEF Forgotten, Invalidated, Auth
<1>3. r.pc \notin Between \cup Polls
  BY DEF Between, Ends, Openers, Polls
<1>4. op'[a] \in {Idle, r} /\ \A b \in Actors \ {a} : op'[b] = op[b]
  BY <1>1, <1>3, PutPoint
<1>5. /\ op'[a].pc \notin Polls
      /\ op'[a].pc \in Openers => op'[a].gen = auth.gen + 1
  BY <1>3, <1>4, IdleUndated DEF Dated
<1> QED
  BY <1>1, <1>2, <1>4, <1>5, NewGenerationKeepsPolls

LEMMA ClearStepsKeepPolls ==
  ASSUME TypeOK, GenerationsKnown, PollInv, NEW a \in Actors,
         ClearBegin(a) \/ ClearStored(a)
  PROVE  PollInv'
<1>1. op[a] \in Op /\ auth \in Auth /\ auth.gen + 1 \in Nat /\ auth.rev + 1 \in Nat
  BY OpFields, AuthFields
<1>2. ASSUME NEW r, r.pc \notin Dated, SamePending,
             LeaveRefresh(a, r) \/ Become(Put(a, r), update)
      PROVE  PollInv'
  BY <1>2, MovedOnKeepsPolls DEF LeaveRefresh, Become
<1>3. CASE ClearBegin(a)
  <2> DEFINE r == [op[a] EXCEPT !.pc = "clear.store", !.gen = auth.gen + 1,
                                !.rev = auth.rev + 1]
  <2>1. CASE Matches(op[a])
    <3>1. r \in Op /\ r.pc \in Openers /\ r.gen = auth.gen + 1
      BY <1>1 DEF Op, Openers, Points, Awaits
    <3>2. op' = Put(a, r) /\ auth' = Forgotten(auth)
      BY <1>3, <2>1 DEF ClearBegin, Become
    <3> HIDE DEF r
    <3> QED
      BY <3>1, <3>2, OpensGeneration
  <2>2. CASE ~Matches(op[a])
    BY <1>2, <1>3, <2>2, LeavesUndated DEF ClearBegin, SamePending
  <2> QED
    BY <2>1, <2>2
<1>4. CASE ClearStored(a)
  <2>1. SamePending
    BY <1>4, RestoredPending DEF ClearStored, Openers
  <2>2. [op[a] EXCEPT !.pc = "clear.cancel"].pc \notin Dated
    BY <1>1 DEF Op, Dated, Polls, Openers
  <2>3. \/ Goto(a, "clear.cancel") \/ LeaveRefresh(a, ClearReturned(a, "false"))
        \/ LeaveRefresh(a, ClearReturned(a, "error"))
    BY <1>4 DEF ClearStored
  <2> QED
    BY <1>2, <2>1, <2>2, <2>3, LeavesUndated DEF Goto
<1> QED
  BY <1>3, <1>4

LEMMA PlainStepsKeepPolls ==
  ASSUME TypeOK, GenerationsKnown, PollInv, NEW c \in Commands, Plain(c)
  PROVE  PollInv'
<1>1. /\ c \in Actors /\ op[c] \in Op /\ auth \in Auth /\ auth.cred \in Creds
      /\ auth.gen + 1 \in Nat /\ auth.rev + 1 \in Nat
  BY ActorKinds, OpFields, AuthFields
<1>2. CASE StartAuth(c)
  <2> DEFINE r == [Idle EXCEPT !.pc = "start.reply", !.gen = auth.gen + 1]
  <2>1. r \in Op /\ r.pc \in Openers /\ r.gen = auth.gen + 1
    BY <1>1, IdleType DEF Idle, Op, Openers, Points
  <2>2. op' = Put(c, r) /\ auth' = [Invalidated(auth) EXCEPT !.rev = @ + 1]
    BY <1>2 DEF StartAuth, Become
  <2> HIDE DEF r
  <2> QED
    BY <1>1, <2>1, <2>2, OpensGeneration
<1>3. CASE Disconnect(c)
  <2> DEFINE r == [Idle EXCEPT !.pc = "disconnect.lock", !.gen = auth.gen + 1,
                               !.rev = auth.rev + 1, !.cred = auth.cred]
  <2>1. r \in Op /\ r.pc \in Openers /\ r.gen = auth.gen + 1
    BY <1>1, IdleType DEF Idle, Op, Openers, Points
  <2>2. op' = Put(c, r) /\ auth' = Forgotten(auth)
    BY <1>3 DEF Disconnect, Become
  <2> HIDE DEF r
  <2> QED
    BY <1>1, <2>1, <2>2, OpensGeneration
<1>4. CASE DisconnectLocked(c)
  <2> DEFINE r == [op[c] EXCEPT !.pc = "disconnect.store"]
  <2>1. r.pc = "disconnect.store" /\ r.gen = op[c].gen
    BY <1>1 DEF Op
  <2>2. op' = Put(c, r) /\ SamePending /\ op[c].pc = "disconnect.lock"
    BY <1>4 DEF DisconnectLocked, Become, SamePending
  <2>3. "disconnect.store" \notin Between
    BY DEF Between, Ends
  <2> HIDE DEF r
  <2>4. op'[c] \in {Idle, r} /\ \A b \in Actors \ {c} : op'[b] = op[b]
    BY <1>1, <2>1, <2>2, <2>3, OpFields, PutPoint
  <2>5. \A b \in Actors : NothingNew(b)
    BY <2>1, <2>2, <2>4, IdleType DEF NothingNew, Polls, Openers
  <2> QED
    BY <2>2, <2>5, QuietKeepsPolls DEF SamePending
<1>5. CASE DisconnectStored(c)
  <2>1. SamePending
    BY <1>1, <1>5, RestoredPending DEF DisconnectStored, Openers
  <2>2. [op[c] EXCEPT !.pc = "disconnect.cancel"].pc \notin Dated
    BY <1>1 DEF Op, Dated, Polls, Openers
  <2>3. \E r : op' = Put(c, r) /\ r.pc \notin Dated
    BY <1>5, <2>2, IdleUndated DEF DisconnectStored, Become, Finish
  <2> QED
    BY <1>1, <2>1, <2>3, MovedOnKeepsPolls
<1>6. CASE PollAuth(c)
  BY <1>6, PollAuthKeepsPolls
<1>7. CASE ValidateAuth(c) \/ Connect(c) \/ StopPublish(c) \/ DisconnectPublish(c)
  <2>1. /\ [op[c] EXCEPT !.pc = "validate.lock"].pc \notin Dated
        /\ [Idle EXCEPT !.pc = "connect.reserve", !.login = auth.gen].pc \notin Dated
    BY <1>1 DEF Op, Idle, Dated, Polls, Openers
  <2>2. auth' = auth /\ \E r : op' = Put(c, r) /\ r.pc \notin Dated
    BY <1>7, <2>1, IdleUndated DEF ValidateAuth, Connect, StopPublish, loginVars,
      DisconnectPublish, Finish, Goto, Become
  <2> QED
    BY <1>1, <2>2, MovedOnKeepsPolls DEF SamePending
<1> QED
  BY <1>2, <1>3, <1>4, <1>5, <1>6, <1>7 DEF Plain, LoginCall


LEMMA TaskStepsMoveOn ==
  ASSUME TypeOK, NEW g \in Tasks, TaskStep(g)
  PROVE  auth' = auth /\ \E r : op' = Put(g, r) /\ r.pc \notin Dated
<1> DEFINE r == op[g]

<1>1. g \in Actors /\ r \in Op
  BY ActorKinds, OpFields
<1>2. auth' = auth
  BY DEF TaskStep, TaskLookup, TaskFound, TaskBegin, TaskSocketFails, TaskWelcome,
    TaskSent, TaskLocked, TaskConnected, TaskFrame, Dispatch, TaskRevoked, TaskSwitch,
    TaskSwitched, TaskDrops, TaskDown, TaskAwakes, TaskEnd, Moves, Publishes, loginVars
<1>3. ASSUME NEW pc \in {"task.found", "end.Error", "task.begin", "task.socket",
               "task.down", "end.AuthRequired", "end.Disconnected", "task.connected",
               "task.live", "task.frame", "task.handover", "task.overlap",
               "task.switch", "task.sleep", "idle"},
             Goto(g, pc)
      PROVE  \E s : op' = Put(g, s) /\ s.pc \notin Dated
  <2>1. [r EXCEPT !.pc = pc].pc \notin Dated
    BY <1>1 DEF Op, Dated, Polls, Openers
  <2> QED
    BY <1>3, <2>1 DEF Goto, Become
<1>4. CASE \/ TaskLookup(g) \/ TaskBegin(g) \/ TaskSocketFails(g) \/ TaskConnected(g)
           \/ TaskFrame(g) \/ Dispatch(g)
  BY <1>2, <1>3, <1>4 DEF TaskLookup, TaskBegin, TaskSocketFails, TaskConnected,
    TaskFrame, Dispatch, Moves, Publishes
<1>5. CASE \/ TaskRevoked(g) \/ TaskSwitch(g) \/ TaskSwitched(g) \/ TaskDrops(g)
           \/ TaskDown(g) \/ TaskAwakes(g) \/ TaskEnd(g)
  BY <1>2, <1>3, <1>5 DEF TaskRevoked, TaskSwitch, TaskSwitched, TaskDrops, TaskDown,
    TaskAwakes, TaskEnd, Moves, Publishes
<1>6. CASE TaskFound(g)
  BY <1>2, <1>3, <1>6, IdleUndated DEF TaskFound, Finish, Become
<1>7. CASE TaskWelcome(g)
  <2>1. /\ [r EXCEPT !.pc = "task.down"].pc \notin Dated
        /\ [r EXCEPT !.pc = "end.Disconnected"].pc \notin Dated
        /\ [r EXCEPT !.pc = "task.send", !.gen = auth.gen, !.rev = auth.rev,
                     !.cred = auth.cred, !.second = FALSE].pc \notin Dated
    BY <1>1 DEF Op, Dated, Polls, Openers
  <2> QED
    BY <1>2, <1>7, <2>1 DEF TaskWelcome, Become
<1>8. CASE TaskSent(g)
  <2>1. /\ [r EXCEPT !.pc = "task.down"].pc \notin Dated
        /\ [r EXCEPT !.pc = "end.Error"].pc \notin Dated
        /\ [r EXCEPT !.pc = "task.lock"].pc \notin Dated
        /\ [r EXCEPT !.pc = "clear.begin", !.why = "rejected"].pc \notin Dated
    BY <1>1 DEF Op, Dated, Polls, Openers
  <2> QED
    BY <1>2, <1>3, <1>8, <2>1 DEF TaskSent, Become
<1>9. CASE TaskLocked(g)
  <2>1. [r EXCEPT !.pc = "refresh.request"].pc \notin Dated
    BY <1>1 DEF Op, Dated, Polls, Openers
  <2>2. Latest(r).pc \notin Dated
    BY <1>1, LeavesUndated
  <2> QED
    BY <1>2, <1>3, <1>9, <2>1, <2>2 DEF TaskLocked, Become
<1> QED
  BY <1>4, <1>5, <1>6, <1>7, <1>8, <1>9 DEF TaskStep

\* Aborting a task opens nothing.
LEMMA AbortingOpensNothing ==
  ASSUME TypeOK, PollInv, NEW a \in Actors, NEW r \in Op, NEW g,
         r.pc \notin Dated, auth' = auth,
         NEW o, o = Aborted(Put(a, r), g),
         \A b \in Actors : op'[b] = o[b] \/ op'[b].pc \notin Dated
  PROVE  PollInv'
<1>1. op \in [Actors -> Op]
  BY OpFields
<1>2. /\ Put(a, r) \in [Actors -> Op] /\ Put(a, r)[a].pc \notin Dated
      /\ \A b \in Actors \ {a} : Put(a, r)[b] = op[b]
  BY <1>1, PutType, PutPoint, IdleUndated, IdleType
<1>3. \A b \in Actors : o[b].pc \in Dated => o[b].pc = op[b].pc /\ o[b].gen = op[b].gen
  <2> TAKE b \in Actors
  <2> DEFINE p == Put(a, r)
  <2>1. p \in [Actors -> Op] /\ p[b] \in Op /\ o = Aborted(p, g)
    BY <1>2
  <2> HIDE DEF p
  <2>2. \/ o[b] = p[b] \/ o[b] = Idle \/ o[b] = [p[b] EXCEPT !.alive = FALSE]
    <3>1. /\ \A d \in Actors : (d # g \/ d = NoConnection) => Aborted(p, g)[d] = p[d]
          /\ g # NoConnection /\ g \in Actors =>
               \/ Aborted(p, g)[g] = Idle /\ p[g].pc \in Awaits
               \/ Aborted(p, g)[g] = p[g] /\ p[g].pc = "idle"
               \/ /\ p[g].pc \notin Awaits /\ p[g].pc # "idle"
                  /\ Aborted(p, g)[g] = [p[g] EXCEPT !.alive = FALSE]
      BY <2>1, AbortedType
    <3>2. CASE b # g \/ b = NoConnection
      BY <2>1, <3>1, <3>2
    <3>3. CASE b = g /\ b # NoConnection
      BY <2>1, <3>1, <3>3
    <3> QED
      BY <3>2, <3>3
  <2>3. \/ o[b].pc \notin Dated
        \/ o[b].pc = p[b].pc /\ o[b].gen = p[b].gen
    BY <2>1, <2>2, IdleUndated DEF Op
  <2> QED
    BY <1>2, <2>3 DEF p
<1>4. \A b \in Actors : NothingNew(b)
  BY <1>3 DEF NothingNew, Dated
<1> QED
  BY <1>4, QuietKeepsPolls

\* The steps of the connection touch no authorization.
LEMMA ChatStepsKeepPolls ==
  ASSUME TypeOK, PollInv, NEW a \in Actors,
         \/ ClearCancel(a)
         \/ /\ a \in Commands
            /\ \/ DisconnectCancel(a) \/ Stop(a) \/ ConnectReserve(a)
               \/ ConnectRegister(a) \/ ConnectPublish(a) \/ ConnectGo(a)
  PROVE  PollInv'
<1>1. /\ op[a] \in Op /\ owner.gen + 1 \in Nat /\ op[a].login \in Nat
      /\ op \in [Actors -> Op] /\ auth \in Auth
  BY OpFields, AuthFields, ConnectionFields
<1>2. auth' = auth
  BY DEF ClearCancel, DisconnectCancel, Stop, ConnectReserve, ConnectRegister,
    ConnectPublish, ConnectGo, loginVars
<1>3. CASE ConnectPublish(a)
  <2>1. [op[a] EXCEPT !.pc = "connect.go"].pc \notin Dated
    BY <1>1 DEF Op, Dated, Polls, Openers
  <2>2. op' = Put(a, [op[a] EXCEPT !.pc = "connect.go"])
    BY <1>3 DEF ConnectPublish, Goto, Become
  <2> QED
    BY <1>2, <2>1, <2>2, MovedOnKeepsPolls DEF SamePending
<1>4. ASSUME NEW r \in Op, r.pc \notin Dated, op' = Aborted(Put(a, r), owner.conn)
      PROVE  PollInv'
  BY <1>2, <1>4, AbortingOpensNothing
<1>5. CASE ClearCancel(a)
  <2>1. ClearReturned(a, "true") \in Op
    BY <1>1, IdleType, LatestType, PcType DEF ClearReturned, Points, Ends
  <2> QED
    BY <1>4, <1>5, <2>1, LeavesUndated DEF ClearCancel, Become
<1>6. CASE DisconnectCancel(a) \/ Stop(a)
  <2> DEFINE r == [op[a] EXCEPT !.pc = "disconnect.publish", !.conn = owner.gen + 1]
             s == [Idle EXCEPT !.pc = "stop.publish", !.conn = owner.gen + 1]
  <2>1. {"disconnect.publish", "stop.publish"} \subseteq Points \ Dated
    BY DEF Points, Dated, Polls, Openers
  <2>2. r \in Op /\ r.pc \notin Dated
    BY <1>1, <2>1 DEF Op
  <2>3. s \in Op /\ s.pc \notin Dated
    BY <1>1, <2>1, IdleType DEF Op
  <2>4. op' = Aborted(Put(a, r), owner.conn) \/ op' = Aborted(Put(a, s), owner.conn)
    BY <1>6 DEF DisconnectCancel, Stop, Become
  <2> HIDE DEF r, s
  <2> QED
    BY <1>4, <2>2, <2>3, <2>4
<1>7. CASE ConnectReserve(a)
  <2> DEFINE r == [op[a] EXCEPT !.pc = "connect.register", !.conn = owner.gen + 1]
             o == Aborted(Put(a, r), owner.conn)
             task == [Idle EXCEPT !.pc = "task.wait", !.login = op[a].login]
  <2>1. r \in Op /\ r.pc \notin Dated /\ task.pc \notin Dated
    BY <1>1 DEF Idle, Op, Points, Dated, Polls, Openers
  <2>2. op' = [o EXCEPT ![owner.gen + 1] = task]
    BY <1>7 DEF ConnectReserve, Become
  <2>3. o \in [Actors -> Op]
    <3> HIDE DEF r
    <3> QED
      BY <1>1, <2>1, PutType, AbortedType
  <2>4. \A b \in Actors : op'[b] = o[b] \/ op'[b].pc \notin Dated
    <3> HIDE DEF o, task
    <3> QED
      BY <2>1, <2>2, <2>3
  <2> HIDE DEF r
  <2> QED
    BY <1>2, <2>1, <2>4, AbortingOpensNothing
<1>8. CASE ConnectRegister(a)
  <2>1. [op[a] EXCEPT !.pc = "connect.publish"].pc \notin Dated
    BY <1>1 DEF Op, Dated, Polls, Openers
  <2>2. CASE op' = Put(a, [op[a] EXCEPT !.pc = "connect.publish"])
    BY <1>2, <2>1, <2>2, MovedOnKeepsPolls DEF SamePending
  <2>3. CASE op' = Aborted(Put(a, Idle), op[a].conn)
    BY <1>2, <2>3, IdleType, IdleUndated, AbortingOpensNothing
  <2> QED
    BY <1>8, <2>2, <2>3 DEF ConnectRegister, Goto, Become
<1>9. CASE a \in Commands /\ ConnectGo(a)
  <2> DEFINE g == op[a].conn
             s == [op[g] EXCEPT !.pc = IF @ = "task.wait" THEN "task.lookup" ELSE @]
  <2>1. op' = [op EXCEPT ![a] = Idle,
                         ![g].pc = IF @ = "task.wait" THEN "task.lookup" ELSE @]
    BY <1>9 DEF ConnectGo, Become
  <2>2. g # a
    BY <1>9, ActorKinds, OpFields DEF ConnectGo
  <2>3. op' = [[op EXCEPT ![a] = Idle] EXCEPT ![g] = s]
    BY <1>1, <2>1, <2>2
  <2>4. g \in Actors => s = op[g] \/ s.pc = "task.lookup"
    BY <1>1 DEF Op
  <2>5. "task.lookup" \notin Dated
    BY DEF Dated, Polls, Openers
  <2> HIDE DEF g, s
  <2>6. \A b \in Actors : op'[b] = op[b] \/ op'[b].pc \notin Dated
    BY <1>1, <2>3, <2>4, <2>5, IdleUndated
  <2>7. \A b \in Actors : NothingNew(b)
    BY <2>6 DEF NothingNew, Dated
  <2> QED
    BY <1>2, <2>7, QuietKeepsPolls
<1> QED
  BY <1>3, <1>5, <1>6, <1>7, <1>8, <1>9

\* A process that starts has nobody under way.
LEMMA RestartsWithoutPolls ==
  /\ Init => PollInv
  /\ Restart => PollInv'
<1>1. Idle.pc \notin Polls \cup Openers
  BY IdleUndated DEF Dated
<1>2. ASSUME Init PROVE PollInv
  <2>1. auth.pending = NoPending /\ \A a \in Actors : op[a] = Idle
    BY <1>2 DEF Init
  <2> QED
    BY <1>1, <2>1 DEF PollInv
<1>3. ASSUME Restart PROVE PollInv'
  <2>1. auth'.pending = NoPending /\ \A a \in Actors : op'[a] = Idle
    BY <1>3 DEF Restart
  <2> QED
    BY <1>1, <2>1 DEF PollInv
<1> QED
  BY <1>2, <1>3

LEMMA StepKeepsPolls ==
  ASSUME ChatInv, PollInv, [Next]_vars
  PROVE  PollInv'
<1>1. TypeOK /\ GenerationsKnown /\ Commands \subseteq Actors /\ Tasks \subseteq Actors
  BY ActorKinds DEF ChatInv
<1>2. CASE UNCHANGED vars
  BY <1>2 DEF vars, PollInv, Polling
<1>3. ASSUME NEW a \in Actors, RefreshStep(a) PROVE PollInv'
  BY <1>1, <1>3, RefreshStepsMoveOn, MovedOnKeepsPolls
<1>4. ASSUME NEW g \in Tasks, TaskStep(g) PROVE PollInv'
  BY <1>1, <1>4, TaskStepsMoveOn, MovedOnKeepsPolls DEF SamePending
<1>5. ASSUME NEW a \in Actors, JobStep(a) PROVE PollInv'
  <2>1. auth' = auth /\ op' = op
    BY <1>1, <1>5, JobStepsKeepTypes
  <2> QED
    BY <2>1 DEF PollInv, Polling
<1>6. CASE Next
  BY <1>1, <1>3, <1>4, <1>5, <1>6, NextSteps, LoginStepsKeepPolls, PlainStepsKeepPolls,
    ClearStepsKeepPolls, ChatStepsKeepPolls, RestartsWithoutPolls
<1> QED
  BY <1>2, <1>6

\* What PollInv says of pending authorizations, polls and clears holds
\* whatever commands, tasks and blocking jobs do, across restarts as well.
THEOREM PollInvariance == Spec => [](ChatInv /\ PollInv)
<1>1. Init => PollInv
  BY RestartsWithoutPolls
<1>2. ChatInv /\ PollInv /\ [Next]_vars => PollInv'
  BY StepKeepsPolls
<1> QED
  BY <1>1, <1>2, ChatInvariance, PTL DEF Spec

\* However many commands poll, a device code is polled by one of them at a
\* time (auth_service.rs, poll and the polling flag).
THEOREM OneCommandPolls == Spec => []OnePollPerCode
<1>1. PollInv => OnePollPerCode
  BY ActorKinds DEF PollInv, OnePollPerCode, Polls
<1> QED
  BY <1>1, PollInvariance, PTL

-----------------------------------------------------------------------------
(***************************************************************************)
(* Credentials.                                                            *)
(***************************************************************************)
\* Where a step holds the credential it dropped until the keyring has said yes,
\* where one works on a credential that it read, and where on a successor of it.
Tickets == {"disconnect.lock", "disconnect.store", "clear.store"}
Granted == {"refresh.granted", "refresh.check"}
Readers == Granted \cup {"validate.reply", "refresh.request", "clear.begin",
                         "task.send", "task.lock"}

\* A clear of the current generation is under way, on behalf of a or left
\* behind by it.
Clears(a) ==
  \/ op[a].pc \in Tickets /\ op[a].gen = auth.gen
  \/ job[a].kind = "clear" /\ job[a].gen = auth.gen

\* Nothing at or above x was logged out, and nothing above it was, or will be,
\* written to the keyring.
Floor(x) ==
  /\ x > loggedOut /\ x >= store
  /\ \A a \in Actors : job[a].kind = "save" => x >= job[a].cred

\* A clear has its generation to itself.
ClearInv(a) ==
  /\ auth.cred = NoCred /\ auth.pending = NoPending
  /\ \A b \in Actors :
       /\ op[b].pc \in Readers \cup Polls \cup {"start.reply"} => op[b].gen # auth.gen
       /\ job[b].kind = "save" => job[b].gen # auth.gen
       /\ Clears(b) => a = b

OpInv(a) ==
  LET r == op[a] IN
  /\ r.rev <= auth.rev /\ r.cred <= issued /\ r.fresh <= issued
  /\ r.pc \in Openers => r.gen # 0
  /\ r.pc \in Readers => r.cred # NoCred
  /\ r.pc \in Granted /\ Matches(r) => Floor(r.fresh) /\ r.fresh > r.cred
  /\ r.pc = "poll.check" /\ r.gen = auth.gen => Floor(r.fresh)
  /\ r.pc \in Tickets /\ r.gen = auth.gen /\ r.cred # NoCred
       /\ (r.pc = "disconnect.lock" \/ job[a].state # "cleared") => Floor(r.cred)
  /\ r.pc = "disconnect.lock" => job[a].gen # r.gen

JobInv(a) ==
  LET j == job[a] IN
  /\ j.gen <= auth.gen /\ j.rev <= auth.rev /\ j.cred <= issued
  /\ j.kind = "save" /\ JobIsCurrent(a) =>
       Floor(j.cred) /\ auth.cred \in {NoCred, j.cred}
  /\ j.kind = "save" /\ j.state = "writing" => j.cred > loggedOut /\ j.cred >= store
  /\ j.kind = "clear" /\ j.state = "written" => store = NoCred
  /\ j.kind = "save" /\ auth.gen = 0 /\ auth.rev = 0 => j.cred >= auth.cred
  /\ \A b \in Actors : {j.state, job[b].state} \subseteq {"writing", "written"} => a = b

LoginInv ==
  /\ \A a \in Actors : OpInv(a) /\ JobInv(a) /\ (Clears(a) => ClearInv(a))
  /\ auth.cred <= issued /\ store <= issued /\ loggedOut <= issued
  /\ auth.cred # NoCred => Floor(auth.cred)
  /\ auth.pending # NoPending => auth.cred = NoCred
  /\ store = NoCred \/ store > loggedOut
  /\ auth.gen = 0 /\ auth.rev = 0 => store = NoCred \/ store >= auth.cred

\* The numbers among the state.
LEMMA Numbers ==
  ASSUME TypeOK
  PROVE  /\ auth.gen \in Nat /\ auth.rev \in Nat /\ auth.cred \in Nat
         /\ store \in Nat /\ issued \in Nat /\ loggedOut \in Nat
         /\ \A a \in Actors :
              /\ op[a].gen \in Nat /\ op[a].rev \in Nat
              /\ op[a].cred \in Nat /\ op[a].fresh \in Nat
              /\ job[a] \in Job /\ job[a].gen \in Nat /\ job[a].rev \in Nat
              /\ job[a].cred \in Nat
<1>1. Creds \subseteq Nat
  BY TwitchAssumption DEF Creds
<1> QED
  BY <1>1 DEF TypeOK, Auth, Op, Job

LEMMA NumbersNext ==
  ASSUME TypeOK'
  PROVE  /\ auth'.gen \in Nat /\ auth'.rev \in Nat /\ auth'.cred \in Nat
         /\ store' \in Nat /\ issued' \in Nat /\ loggedOut' \in Nat
         /\ \A a \in Actors :
              /\ op'[a].gen \in Nat /\ op'[a].rev \in Nat
              /\ op'[a].cred \in Nat /\ op'[a].fresh \in Nat
              /\ job'[a] \in Job /\ job'[a].gen \in Nat /\ job'[a].rev \in Nat
              /\ job'[a].cred \in Nat
<1>1. Creds \subseteq Nat
  BY TwitchAssumption DEF Creds
<1> QED
  BY <1>1 DEF TypeOK, Auth, Op, Job

\* What CredentialsOnlyAdvance says of a step.
Advances ==
  /\ \/ auth'.cred = NoCred \/ auth'.cred >= auth.cred
     \/ auth'.gen < auth.gen \/ auth'.rev < auth.rev
  /\ store' = NoCred \/ store' >= store

\* Where an invocation may be next: out of the way, with the credential it had,
\* with the one that is installed, or with one that Twitch has just issued.
Reads(s) ==
  /\ s.pc \in Readers \ Granted /\ auth' = auth
  /\ s.gen = auth.gen /\ s.cred = auth.cred /\ auth.cred # NoCred

SameLogin(s, r) == s.gen = r.gen /\ s.rev = r.rev /\ s.cred = r.cred

Keeps(s, r) ==
  /\ SameLogin(s, r) /\ s.fresh = r.fresh
  /\ s.pc \in Granted => r.pc \in Granted
  /\ s.pc \in Readers => r.pc \in Readers
  /\ s.pc \in Dated => s.pc = r.pc

Receives(s, r) ==
  /\ SameLogin(s, r) /\ s.fresh = issued' /\ issued' > issued
  /\ \/ s.pc \in Granted /\ r.pc \in Readers
     \/ s.pc = "poll.check" /\ r.pc \in Polls

StartsPoll(s) ==
  s.pc = "poll.reply" /\ s.gen = auth.gen /\ auth.pending # NoPending

Carries(a, s) ==
  /\ s.rev <= auth.rev /\ s.cred <= issued /\ s.fresh <= issued'
  /\ s.pc \in Readers \cup Dated =>
       Reads(s) \/ Keeps(s, op[a]) \/ Receives(s, op[a]) \/ StartsPoll(s)

\* Jobs stay as they are, but for those that have returned and are collected.
JobsStay ==
  \A b \in Actors :
    job'[b] = job[b] \/ (job'[b] = NoJob /\ Returned(b) /\ op'[b].pc \notin Tickets)

\* The shapes that a step has for the login.  The installed credential and
\* those who work on it go on, or are dropped.
Carrying ==
  /\ auth'.gen = auth.gen /\ auth'.rev = auth.rev /\ auth'.cred \in {auth.cred, NoCred}
  /\ auth'.pending # NoPending =>
       \/ auth.pending # NoPending
       \/ \E c \in Actors : op[c].pc = "start.reply" /\ op[c].gen = auth.gen
  /\ JobsStay /\ \A b \in Actors : Carries(b, op'[b])

\* Whoever begins a clear, or an authorization, opens a generation.
ClearJob(gen, rev) ==
  [kind |-> "clear", gen |-> gen, rev |-> rev, cred |-> NoCred, state |-> "queued"]

Opens(a) ==
  LET s == op'[a] IN
  /\ auth'.gen = auth.gen + 1 /\ auth'.rev = auth.rev + 1 /\ auth'.pending = NoPending
  /\ \A b \in Actors \ {a} : op'[b] = op[b] /\ job'[b] = job[b]
  /\ s.pc = "idle" \/ s.gen = auth'.gen
  /\ \/ /\ s.pc \in {"start.reply", "idle"} /\ job' = job /\ "start" \in Enabled
     \/ /\ s.pc \in {"disconnect.lock", "idle"} /\ s.cred \in {auth.cred, NoCred}
        /\ job' = job /\ auth'.cred = NoCred
     \/ /\ s.pc \in {"clear.store", "idle"} /\ s.cred \in {auth.cred, NoCred}
        /\ s.pc = "idle" \/ s.rev = auth'.rev
        /\ job'[a] = ClearJob(auth'.gen, auth'.rev) /\ auth'.cred = NoCred

\* A login, a rotation or a validation has the credential it installs saved.
Saves(a) ==
  /\ auth'.gen = auth.gen
  /\ auth' = auth \/ auth'.rev = auth.rev + 1
  /\ \/ op[a].pc = "poll.check" /\ op[a].gen = auth.gen
     \/ op[a].pc \in Readers /\ Matches(op[a])
  /\ \A b \in Actors \ {a} : op'[b] = op[b] /\ job'[b] = job[b]
  /\ job'[a] = [kind |-> "save", gen |-> auth'.gen, rev |-> auth'.rev,
                cred |-> auth'.cred, state |-> "queued"]
  /\ op'[a].pc \notin Readers \cup Dated

\* A clear whose job failed puts its credential back.
Restores(a) ==
  /\ op[a].pc \in {"disconnect.store", "clear.store"} /\ job[a].state = "failed"
  /\ op[a].gen = auth.gen /\ op[a].rev = auth.rev
  /\ auth' = [auth EXCEPT !.cred = op[a].cred, !.pending = NoPending]
  /\ \A b \in Actors \ {a} : op'[b] = op[b] /\ job'[b] = job[b]
  /\ job'[a] = NoJob /\ op'[a].pc \notin Readers \cup Dated

\* A disconnect that got the lock has its clear queued.
QueuesClear(a) ==
  /\ auth' = auth /\ op[a].pc = "disconnect.lock"
  /\ \A b \in Actors \ {a} : op'[b] = op[b] /\ job'[b] = job[b]
  /\ op'[a] = [op[a] EXCEPT !.pc = "disconnect.store"]
  /\ job'[a] = ClearJob(op[a].gen, op[a].rev)

LoginMove ==
  \/ /\ store' = store /\ storeFault' = storeFault
     /\ Carrying \/ \E a \in Actors : Opens(a) \/ Saves(a) \/ Restores(a) \/ QueuesClear(a)
  \/ (\E a \in Actors : JobStep(a)) \/ Restart

LEMMA KindsOfPoints ==
  /\ Readers \cap Dated = {} /\ Granted \subseteq Readers /\ Tickets \subseteq Openers
  /\ "poll.check" \in Polls /\ Polls \cap Openers = {}
  /\ "start.reply" \in Openers \ Tickets /\ "disconnect.lock" \in Tickets
  /\ "poll.check" \notin Readers /\ "poll.reply" \notin Readers \cup Tickets
BY DEF Readers, Dated, Granted, Tickets, Openers, Polls

LEMMA NoJobCarries ==
  /\ NoJob.kind = "none" /\ NoJob.gen = 0 /\ NoJob.rev = 0 /\ NoJob.cred = 0
  /\ NoJob.state = "none"
BY DEF NoJob, NoCred

\* Floor after the step.
FloorNext(x) ==
  /\ x > loggedOut' /\ x >= store'
  /\ \A a \in Actors : job'[a].kind = "save" => x >= job'[a].cred

\* OpInv after the step, with what a step brings it from.
LEMMA OpInvNext ==
  ASSUME NEW a \in Actors,
         op'[a].rev <= auth'.rev, op'[a].cred <= issued', op'[a].fresh <= issued',
         op'[a].pc \in Openers => op'[a].gen # 0,
         op'[a].pc \in Readers => op'[a].cred # NoCred,
         op'[a].pc \in Granted /\ op'[a].gen = auth'.gen /\ op'[a].rev = auth'.rev
           /\ op'[a].cred = auth'.cred =>
             FloorNext(op'[a].fresh) /\ op'[a].fresh > op'[a].cred,
         op'[a].pc = "poll.check" /\ op'[a].gen = auth'.gen => FloorNext(op'[a].fresh),
         op'[a].pc \in Tickets /\ op'[a].gen = auth'.gen /\ op'[a].cred # NoCred
           /\ (op'[a].pc = "disconnect.lock" \/ job'[a].state # "cleared") =>
             FloorNext(op'[a].cred),
         op'[a].pc = "disconnect.lock" => job'[a].gen # op'[a].gen
  PROVE  OpInv(a)'
BY DEF OpInv, Floor, FloorNext, Matches

\* JobInv after the step.
LEMMA JobInvNext ==
  ASSUME NEW a \in Actors,
         job'[a].gen <= auth'.gen, job'[a].rev <= auth'.rev, job'[a].cred <= issued',
         job'[a].kind = "save" /\ job'[a].gen = auth'.gen /\ job'[a].rev = auth'.rev =>
           FloorNext(job'[a].cred) /\ auth'.cred \in {NoCred, job'[a].cred},
         job'[a].kind = "save" /\ job'[a].state = "writing" =>
           job'[a].cred > loggedOut' /\ job'[a].cred >= store',
         job'[a].kind = "clear" /\ job'[a].state = "written" => store' = NoCred,
         job'[a].kind = "save" /\ auth'.gen = 0 /\ auth'.rev = 0 =>
           job'[a].cred >= auth'.cred,
         \A b \in Actors :
           {job'[a].state, job'[b].state} \subseteq {"writing", "written"} => a = b
  PROVE  JobInv(a)'
BY DEF JobInv, JobIsCurrent, Floor, FloorNext

\* LoginInv after the step.
LEMMA LoginInvNext ==
  ASSUME \A a \in Actors : OpInv(a)' /\ JobInv(a)' /\ (Clears(a)' => ClearInv(a)'),
         auth'.cred <= issued', store' <= issued', loggedOut' <= issued',
         auth'.cred # NoCred => FloorNext(auth'.cred),
         auth'.pending # NoPending => auth'.cred = NoCred,
         store' = NoCred \/ store' > loggedOut',
         auth'.gen = 0 /\ auth'.rev = 0 => store' = NoCred \/ store' >= auth'.cred
  PROVE  LoginInv'
BY DEF LoginInv, Floor, FloorNext

\* What OpInv says now.
LEMMA OpInvNow ==
  ASSUME NEW a \in Actors, OpInv(a)
  PROVE  /\ op[a].rev <= auth.rev /\ op[a].cred <= issued /\ op[a].fresh <= issued
         /\ op[a].pc \in Openers => op[a].gen # 0
         /\ op[a].pc \in Readers => op[a].cred # NoCred
         /\ op[a].pc \in Granted /\ Matches(op[a]) =>
              Floor(op[a].fresh) /\ op[a].fresh > op[a].cred
         /\ op[a].pc = "poll.check" /\ op[a].gen = auth.gen => Floor(op[a].fresh)
         /\ op[a].pc \in Tickets /\ op[a].gen = auth.gen /\ op[a].cred # NoCred
              /\ (op[a].pc = "disconnect.lock" \/ job[a].state # "cleared") =>
                Floor(op[a].cred)
         /\ op[a].pc = "disconnect.lock" => job[a].gen # op[a].gen
BY DEF OpInv

\* A floor stays one while nothing is logged out and nothing new is written.
LEMMA FloorStays ==
  ASSUME JobsStay, store' = store, loggedOut' = loggedOut
  PROVE  \A x : Floor(x) => FloorNext(x)
BY NoJobCarries DEF Floor, FloorNext, JobsStay

\* A credential that Twitch has just issued is above everything.
LEMMA IssuedIsFloor ==
  ASSUME TypeOK, TypeOK', LoginInv, JobsStay, store' = store, loggedOut' = loggedOut,
         issued' > issued
  PROVE  FloorNext(issued')
<1>1. /\ issued \in Nat /\ issued' \in Nat /\ store \in Nat /\ loggedOut \in Nat
      /\ \A b \in Actors : job[b].cred \in Nat /\ job[b].cred <= issued
  BY Numbers, NumbersNext DEF LoginInv, JobInv
<1>2. store <= issued /\ loggedOut <= issued
  BY DEF LoginInv
<1>3. \A b \in Actors : job'[b].kind = "save" => issued' >= job'[b].cred
  BY <1>1, NoJobCarries DEF JobsStay
<1>4. issued' > loggedOut' /\ issued' >= store'
  BY <1>1, <1>2
<1> QED
  BY <1>3, <1>4 DEF FloorNext

\* A step that leaves generation and revision as they are keeps the invariant
\* if every invocation goes on in one of these ways.
LEMMA CarryingKeeps ==
  ASSUME TypeOK, TypeOK', LoginInv, JobsStay,
         store' = store, storeFault' = storeFault, loggedOut' = loggedOut, issued' >= issued,
         auth'.gen = auth.gen, auth'.rev = auth.rev, auth'.cred \in {auth.cred, NoCred},
         auth'.pending # NoPending =>
           auth'.cred = NoCred /\ \A b \in Actors : ~Clears(b),
         auth'.pending # NoPending =>
           \/ auth.pending # NoPending
           \/ \E c \in Actors : op[c].pc = "start.reply" /\ op[c].gen = auth.gen,
         \A b \in Actors : Carries(b, op'[b])
  PROVE  LoginInv' /\ Advances /\ LoginMove
<1>0. LoginMove
  BY DEF LoginMove, Carrying
<1> USE DEF NoCred
<1>1. /\ issued \in Nat /\ issued' \in Nat /\ auth.cred \in Nat /\ auth.rev \in Nat
      /\ auth.gen \in Nat /\ store \in Nat /\ loggedOut \in Nat
  BY Numbers, NumbersNext
<1>2. \A b \in Actors : OpInv(b) /\ JobInv(b) /\ (Clears(b) => ClearInv(b))
  BY DEF LoginInv
<1>3. \A x : Floor(x) => FloorNext(x)
  BY FloorStays
<1>4. issued' > issued => FloorNext(issued')
  BY IssuedIsFloor
<1>5. ASSUME NEW b \in Actors PROVE OpInv(b)'
  <2> DEFINE r == op[b]
             s == op'[b]
  <2>1. /\ s.rev \in Nat /\ s.cred \in Nat /\ s.fresh \in Nat
        /\ r.rev \in Nat /\ r.cred \in Nat /\ r.fresh \in Nat
    BY Numbers, NumbersNext
  <2>2. /\ r.rev <= auth.rev /\ r.cred <= issued /\ r.fresh <= issued
        /\ r.pc \in Openers => r.gen # 0
        /\ r.pc \in Readers => r.cred # NoCred
        /\ r.pc \in Granted /\ Matches(r) => Floor(r.fresh) /\ r.fresh > r.cred
        /\ r.pc = "poll.check" /\ r.gen = auth.gen => Floor(r.fresh)
        /\ r.pc \in Tickets /\ r.gen = auth.gen /\ r.cred # NoCred
             /\ (r.pc = "disconnect.lock" \/ job[b].state # "cleared") => Floor(r.cred)
        /\ r.pc = "disconnect.lock" => job[b].gen # r.gen
    BY <1>2, OpInvNow
  <2> HIDE DEF r
  <2>3. /\ s.rev <= auth'.rev /\ s.cred <= issued' /\ s.fresh <= issued'
        /\ s.pc \in Readers \cup Dated =>
             Reads(s) \/ Keeps(s, r) \/ Receives(s, r) \/ StartsPoll(s)
    BY <1>1, <2>1 DEF Carries, r
  <2> HIDE DEF s
  <2>4. s.pc \in Openers => Keeps(s, r) /\ s.pc = r.pc
    BY <2>3, KindsOfPoints DEF Reads, Receives, StartsPoll, Keeps, Dated, Polls, Openers
  <2>5. s.pc \in Readers => s.cred # NoCred
    BY <2>2, <2>3, KindsOfPoints DEF Reads, Keeps, Receives, StartsPoll, SameLogin
  <2>6. ASSUME s.pc \in Granted, s.gen = auth'.gen, s.rev = auth'.rev, s.cred = auth'.cred
        PROVE  FloorNext(s.fresh) /\ s.fresh > s.cred
    <3>1. Keeps(s, r) \/ Receives(s, r)
      BY <2>3, <2>6, KindsOfPoints DEF Reads, StartsPoll
    <3>2. CASE Keeps(s, r)
      <4>1. r.pc \in Granted /\ s.cred # NoCred
        BY <2>5, <2>6, <3>2, KindsOfPoints DEF Keeps
      <4>2. Matches(r)
        BY <2>6, <3>2, <4>1 DEF Keeps, SameLogin, Matches
      <4> QED
        BY <1>3, <2>2, <3>2, <4>1, <4>2 DEF Keeps, SameLogin
    <3>3. CASE Receives(s, r)
      BY <1>1, <1>4, <2>1, <2>2, <3>3 DEF Receives, SameLogin
    <3> QED
      BY <3>1, <3>2, <3>3
  <2>7. ASSUME s.pc = "poll.check", s.gen = auth'.gen
        PROVE  FloorNext(s.fresh)
    <3>1. (Keeps(s, r) /\ s.pc = r.pc) \/ Receives(s, r)
      BY <2>3, <2>7, KindsOfPoints DEF Reads, StartsPoll, Dated, Keeps
    <3> QED
      BY <1>3, <1>4, <2>2, <2>7, <3>1 DEF Keeps, SameLogin, Receives
  <2>8. s.pc \in Tickets => r.pc = s.pc /\ SameLogin(s, r) /\ job'[b] = job[b]
    BY <2>4, KindsOfPoints DEF Keeps, JobsStay, s
  <2>9. /\ s.pc \in Openers => s.gen # 0
        /\ s.pc = "disconnect.lock" => job'[b].gen # s.gen
        /\ s.pc \in Tickets /\ s.gen = auth'.gen /\ s.cred # NoCred
             /\ (s.pc = "disconnect.lock" \/ job'[b].state # "cleared") => FloorNext(s.cred)
    BY <1>3, <2>2, <2>4, <2>8, KindsOfPoints DEF Keeps, SameLogin
  <2> QED
    BY <2>3, <2>5, <2>6, <2>7, <2>9, OpInvNext DEF s
<1>6. ASSUME NEW b \in Actors PROVE JobInv(b)'
  <2>1. /\ job[b].gen <= auth.gen /\ job[b].rev <= auth.rev /\ job[b].cred <= issued
        /\ job[b].kind = "save" /\ JobIsCurrent(b) =>
             Floor(job[b].cred) /\ auth.cred \in {NoCred, job[b].cred}
        /\ job[b].kind = "save" /\ job[b].state = "writing" =>
             job[b].cred > loggedOut /\ job[b].cred >= store
        /\ job[b].kind = "clear" /\ job[b].state = "written" => store = NoCred
        /\ job[b].kind = "save" /\ auth.gen = 0 /\ auth.rev = 0 =>
             job[b].cred >= auth.cred
        /\ job[b].cred \in Nat
    BY <1>2, Numbers DEF JobInv
  <2>2. \A c \in Actors : {job'[b].state, job'[c].state} \subseteq {"writing", "written"} => b = c
    BY <1>2, NoJobCarries DEF JobInv, JobsStay
  <2>3. CASE job'[b] = job[b]
    <3>1. job[b].kind = "save" /\ job[b].gen = auth'.gen /\ job[b].rev = auth'.rev =>
            FloorNext(job[b].cred) /\ auth'.cred \in {NoCred, job[b].cred}
      BY <1>3, <2>1 DEF JobIsCurrent
    <3>2. /\ job[b].cred <= issued'
          /\ job[b].kind = "save" /\ auth'.gen = 0 /\ auth'.rev = 0 =>
               job[b].cred >= auth'.cred
      BY <1>1, <2>1
    <3> QED
      BY <2>1, <2>2, <2>3, <3>1, <3>2, JobInvNext
  <2>4. CASE job'[b] = NoJob
    <3>1. 0 <= auth'.gen /\ 0 <= auth'.rev /\ 0 <= issued'
      BY <1>1, NumbersNext
    <3> QED
      BY <2>2, <2>4, <3>1, NoJobCarries, JobInvNext
  <2> QED
    BY <2>3, <2>4 DEF JobsStay
<1>7. ASSUME NEW b \in Actors, Clears(b)' PROVE ClearInv(b)'
  <2>1. \A c \in Actors : Clears(c)' => Clears(c)
    <3> TAKE c \in Actors
    <3>1. op'[c].pc \in Tickets => op'[c].pc = op[c].pc /\ op'[c].gen = op[c].gen
      BY KindsOfPoints DEF Carries, Reads, Receives, StartsPoll, Keeps, SameLogin, Dated
    <3> QED
      BY <3>1, NoJobCarries DEF Clears, JobsStay
  <2>2. Clears(b) /\ ClearInv(b)
    BY <1>2, <1>7, <2>1
  <2>3. auth'.cred = NoCred /\ auth'.pending = NoPending
    BY <2>2 DEF ClearInv
  <2>4. ASSUME NEW c \in Actors, op'[c].pc \in Readers \cup Polls \cup {"start.reply"}
        PROVE  op'[c].gen # auth.gen
    <3>1. Keeps(op'[c], op[c]) \/ Receives(op'[c], op[c])
      BY <2>2, <2>4, KindsOfPoints DEF ClearInv, Carries, Reads, StartsPoll, Dated
    <3>2. op'[c].gen = op[c].gen /\ op[c].pc \in Readers \cup Polls \cup {"start.reply"}
      BY <2>4, <3>1, KindsOfPoints DEF Keeps, Receives, SameLogin, Dated
    <3> QED
      BY <2>2, <3>2 DEF ClearInv
  <2>5. \A c \in Actors : job'[c].kind = "save" => job'[c].gen # auth.gen
    BY <2>2, NoJobCarries DEF ClearInv, JobsStay
  <2>6. \A c \in Actors : Clears(c)' => b = c
    BY <2>1, <2>2 DEF ClearInv
  <2> QED
    BY <2>3, <2>4, <2>5, <2>6 DEF ClearInv
<1>8. Advances
  BY <1>1 DEF Advances
<1>9. /\ auth'.cred <= issued' /\ store' <= issued' /\ loggedOut' <= issued'
      /\ auth'.cred # NoCred => FloorNext(auth'.cred)
      /\ auth'.pending # NoPending => auth'.cred = NoCred
      /\ store' = NoCred \/ store' > loggedOut'
      /\ auth'.gen = 0 /\ auth'.rev = 0 => store' = NoCred \/ store' >= auth'.cred
  <2>1. auth.cred <= issued /\ store <= issued /\ loggedOut <= issued
    BY DEF LoginInv
  <2>2. auth'.cred # NoCred => auth'.cred = auth.cred /\ FloorNext(auth'.cred)
    BY <1>3 DEF LoginInv
  <2>3. /\ store = NoCred \/ store > loggedOut
        /\ auth.gen = 0 /\ auth.rev = 0 => store = NoCred \/ store >= auth.cred
    BY DEF LoginInv
  <2>4. auth'.cred <= issued' /\ store' <= issued' /\ loggedOut' <= issued'
    BY <1>1, <2>1
  <2>5. auth'.gen = 0 /\ auth'.rev = 0 => store' = NoCred \/ store' >= auth'.cred
    BY <1>1, <2>3
  <2> QED
    BY <2>2, <2>3, <2>4, <2>5
<1> QED
  BY <1>0, <1>5, <1>6, <1>7, <1>8, <1>9, LoginInvNext

-----------------------------------------------------------------------------
(***************************************************************************)
(* Steps that change the revision, the jobs or the keyring.                *)
(***************************************************************************)
\* What LoginInv says now.
LEMMA LoginInvNow ==
  ASSUME LoginInv
  PROVE  /\ \A a \in Actors : OpInv(a) /\ JobInv(a) /\ (Clears(a) => ClearInv(a))
         /\ auth.cred <= issued /\ store <= issued /\ loggedOut <= issued
         /\ auth.cred # NoCred => Floor(auth.cred)
         /\ auth.pending # NoPending => auth.cred = NoCred
         /\ store = NoCred \/ store > loggedOut
         /\ auth.gen = 0 /\ auth.rev = 0 => store = NoCred \/ store >= auth.cred
BY DEF LoginInv

\* What JobInv says now.
LEMMA JobInvNow ==
  ASSUME NEW a \in Actors, JobInv(a)
  PROVE  /\ job[a].gen <= auth.gen /\ job[a].rev <= auth.rev /\ job[a].cred <= issued
         /\ job[a].kind = "save" /\ JobIsCurrent(a) =>
              Floor(job[a].cred) /\ auth.cred \in {NoCred, job[a].cred}
         /\ job[a].kind = "save" /\ job[a].state = "writing" =>
              job[a].cred > loggedOut /\ job[a].cred >= store
         /\ job[a].kind = "clear" /\ job[a].state = "written" => store = NoCred
         /\ job[a].kind = "save" /\ auth.gen = 0 /\ auth.rev = 0 =>
              job[a].cred >= auth.cred
         /\ \A b \in Actors :
              {job[a].state, job[b].state} \subseteq {"writing", "written"} => a = b
BY DEF JobInv

\* A clear has its generation to itself: nobody there works on a credential,
\* polls, or saves.
LEMMA ClearsAlone ==
  ASSUME LoginInv, NEW a \in Actors, Clears(a)
  PROVE  /\ auth.cred = NoCred /\ auth.pending = NoPending
         /\ \A b \in Actors :
              /\ op[b].gen = auth.gen =>
                   op[b].pc \notin Readers \cup Polls \cup {"start.reply"}
              /\ job[b].kind = "save" => job[b].gen # auth.gen
              /\ Clears(b) => a = b
BY DEF LoginInv, ClearInv

\* Only the job of a is another one, and nobody writes to the keyring for a.
JobsBut(a) ==
  /\ \A b \in Actors \ {a} : job'[b] = job[b]
  /\ job'[a] = job[a] \/ job'[a].state \in {"queued", "none"}

LEMMA OneWriter ==
  ASSUME LoginInv, NEW a \in Actors, JobsBut(a)
  PROVE  \A b, c \in Actors :
           {job'[b].state, job'[c].state} \subseteq {"writing", "written"} => b = c
BY DEF LoginInv, JobInv, JobsBut

\* An invocation, and a job, that the step does not concern.
LEMMA Unconcerned ==
  ASSUME TypeOK, TypeOK', LoginInv, NEW a \in Actors, NEW b \in Actors, a # b,
         JobsBut(a), op'[b] = op[b],
         store' = store, loggedOut' = loggedOut, issued' = issued,
         auth'.gen >= auth.gen, auth'.rev >= auth.rev, auth'.gen # 0 \/ auth'.rev # 0,
         op[b].pc \in {"poll.check"} \cup Tickets => op[b].gen # auth'.gen,
         op[b].pc \in Granted => op[b].gen # auth'.gen \/ op[b].rev # auth'.rev,
         job[b].kind = "save" => job[b].gen # auth'.gen \/ job[b].rev # auth'.rev
  PROVE  OpInv(b)' /\ JobInv(b)'
<1>1. /\ auth.gen \in Nat /\ auth.rev \in Nat /\ auth'.gen \in Nat /\ auth'.rev \in Nat
      /\ op[b].rev \in Nat /\ op[b].gen \in Nat /\ job[b].gen \in Nat /\ job[b].rev \in Nat
  BY Numbers, NumbersNext
<1>2. /\ job'[b] = job[b] /\ OpInv(b) /\ JobInv(b)
  BY LoginInvNow DEF JobsBut
<1>3. OpInv(b)'
  <2>1. /\ op[b].rev <= auth.rev /\ op[b].cred <= issued /\ op[b].fresh <= issued
        /\ op[b].pc \in Openers => op[b].gen # 0
        /\ op[b].pc \in Readers => op[b].cred # NoCred
        /\ op[b].pc = "disconnect.lock" => job[b].gen # op[b].gen
    BY <1>2, OpInvNow
  <2>2. op[b].rev <= auth'.rev
    BY <1>1, <2>1
  <2> QED
    BY <1>2, <2>1, <2>2, OpInvNext
<1>4. JobInv(b)'
  <2>1. /\ job[b].gen <= auth.gen /\ job[b].rev <= auth.rev /\ job[b].cred <= issued
        /\ job[b].kind = "save" /\ job[b].state = "writing" =>
             job[b].cred > loggedOut /\ job[b].cred >= store
        /\ job[b].kind = "clear" /\ job[b].state = "written" => store = NoCred
    BY <1>2, JobInvNow
  <2>2. job[b].gen <= auth'.gen /\ job[b].rev <= auth'.rev
    BY <1>1, <2>1
  <2>3. \A c \in Actors :
          {job'[b].state, job'[c].state} \subseteq {"writing", "written"} => b = c
    BY OneWriter
  <2> QED
    BY <1>2, <2>1, <2>2, <2>3, JobInvNext
<1> QED
  BY <1>3, <1>4

\* A step that advances the revision leaves the invocations and the jobs of
\* the others behind.
LEMMA LeavesBehind ==
  ASSUME TypeOK, TypeOK', LoginInv, NEW a \in Actors, NEW b \in Actors, a # b,
         JobsBut(a), op'[b] = op[b],
         store' = store, loggedOut' = loggedOut, issued' = issued,
         auth'.gen >= auth.gen, auth'.rev > auth.rev,
         op[b].pc \in {"poll.check"} \cup Tickets => op[b].gen # auth'.gen
  PROVE  OpInv(b)' /\ JobInv(b)'
<1>1. /\ auth.rev \in Nat /\ auth'.rev \in Nat
      /\ op[b].rev \in Nat /\ op[b].rev <= auth.rev
      /\ job[b].rev \in Nat /\ job[b].rev <= auth.rev
  BY Numbers, NumbersNext, LoginInvNow, OpInvNow, JobInvNow
<1>2. op[b].rev # auth'.rev /\ job[b].rev # auth'.rev /\ auth'.rev # 0
      /\ auth'.rev >= auth.rev
  BY <1>1
<1> QED
  BY <1>2, Unconcerned

\* A new generation: a new authorization, or the beginning of a clear.
LEMMA NewGenerationKeeps ==
  ASSUME TypeOK, TypeOK', LoginInv, GenerationsKnown, NEW a \in Actors,
         store' = store, storeFault' = storeFault, loggedOut' = loggedOut, issued' = issued,
         auth'.gen = auth.gen + 1, auth'.rev = auth.rev + 1,
         auth'.cred \in {auth.cred, NoCred}, auth'.pending = NoPending,
         \A b \in Actors \ {a} : op'[b] = op[b], JobsBut(a),
         \/ /\ op'[a].pc \in {"start.reply", "idle"} /\ op'[a].cred = NoCred
            /\ op'[a].gen \in {0, auth'.gen} /\ job' = job
            /\ "start" \in Enabled
         \/ /\ op'[a].pc \in {"disconnect.lock", "idle"} /\ op'[a].cred \in {auth.cred, NoCred}
            /\ op'[a].gen \in {0, auth'.gen} /\ job' = job /\ auth'.cred = NoCred
         \/ /\ op'[a].pc \in {"clear.store", "idle"} /\ op'[a].cred \in {auth.cred, NoCred}
            /\ op'[a].gen \in {0, auth'.gen} /\ auth'.cred = NoCred
            /\ op'[a].pc = "idle" \/ op'[a].rev = auth'.rev
            /\ job'[a] = [kind |-> "clear", gen |-> auth'.gen, rev |-> auth'.rev,
                          cred |-> NoCred, state |-> "queued"],
         op'[a].rev <= auth'.rev, op'[a].fresh <= issued',
         op'[a].pc # "idle" => op'[a].gen = auth'.gen
  PROVE  LoginInv' /\ Advances /\ LoginMove
<1>0. LoginMove
  <2>1. Opens(a)
    BY DEF Opens, ClearJob, JobsBut
  <2> QED
    BY <2>1 DEF LoginMove
<1> USE DEF NoCred
<1>1. /\ auth.gen \in Nat /\ auth.rev \in Nat /\ auth'.gen \in Nat /\ auth'.rev \in Nat
      /\ auth.cred \in Nat /\ store \in Nat /\ issued \in Nat
      /\ \A b \in Actors : op[b].gen \in Nat /\ job[b].gen \in Nat
  BY Numbers, NumbersNext
<1>2. /\ \A b \in Actors : OpInv(b) /\ JobInv(b)
      /\ auth.cred <= issued /\ store <= issued /\ loggedOut <= issued
      /\ auth.cred # NoCred => Floor(auth.cred)
      /\ store = NoCred \/ store > loggedOut
  BY LoginInvNow
<1>3. \A b \in Actors : op[b].gen # auth'.gen /\ job[b].gen # auth'.gen
  <2>1. \A b \in Actors : op[b].gen <= auth.gen /\ job[b].gen <= auth.gen
    BY <1>2, JobInvNow DEF GenerationsKnown
  <2> QED
    BY <1>1, <2>1
<1>4. job'[a] = job[a] \/ job'[a].kind = "clear"
  OBVIOUS
<1>5. \A x : Floor(x) => FloorNext(x)
  BY <1>4 DEF Floor, FloorNext, JobsBut
<1>6. \A b \in Actors \ {a} : OpInv(b)' /\ JobInv(b)'
  BY <1>1, <1>3, LeavesBehind
<1>7. OpInv(a)'
  <2>1. /\ op'[a].cred <= issued'
        /\ op'[a].cred # NoCred => FloorNext(op'[a].cred)
    BY <1>1, <1>2, <1>5
  <2>2. op'[a].pc \notin Readers \cup {"poll.check"}
    BY DEF Readers, Granted
  <2>3. op'[a].pc \in Openers => op'[a].gen # 0
    BY <1>1 DEF Openers
  <2>4. op'[a].pc = "disconnect.lock" => job'[a].gen # op'[a].gen
    BY <1>3
  <2> QED
    BY <2>1, <2>2, <2>3, <2>4, OpInvNext, KindsOfPoints
<1>8. JobInv(a)'
  <2>1. \A c \in Actors :
          {job'[a].state, job'[c].state} \subseteq {"writing", "written"} => a = c
    BY OneWriter
  <2>2. CASE job'[a] = job[a]
    <3>1. /\ job[a].gen <= auth.gen /\ job[a].rev <= auth.rev /\ job[a].cred <= issued
          /\ job[a].kind = "save" /\ job[a].state = "writing" =>
               job[a].cred > loggedOut /\ job[a].cred >= store
          /\ job[a].kind = "clear" /\ job[a].state = "written" => store = NoCred
          /\ job[a].gen \in Nat /\ job[a].rev \in Nat
      BY <1>2, JobInvNow, Numbers
    <3>2. job[a].gen <= auth'.gen /\ job[a].rev <= auth'.rev /\ auth'.gen # 0
      BY <1>1, <3>1
    <3> QED
      BY <1>3, <2>1, <2>2, <3>1, <3>2, JobInvNext
  <2>3. CASE job'[a] = [kind |-> "clear", gen |-> auth'.gen, rev |-> auth'.rev,
                        cred |-> NoCred, state |-> "queued"]
    <3>1. /\ job'[a].kind = "clear" /\ job'[a].gen <= auth'.gen
          /\ job'[a].rev <= auth'.rev /\ job'[a].cred <= issued'
          /\ job'[a].state = "queued"
      BY <1>1, <2>3
    <3> QED
      BY <2>1, <3>1, JobInvNext
  <2> QED
    BY <2>2, <2>3
<1>9. ASSUME NEW b \in Actors, Clears(b)' PROVE ClearInv(b)'
  <2>1. \A c \in Actors \ {a} : op'[c].gen # auth'.gen /\ job'[c].gen # auth'.gen
    BY <1>3 DEF JobsBut
  <2>2. \A c \in Actors : Clears(c)' => c = a
    BY <2>1 DEF Clears
  <2>3. op'[a].pc # "start.reply" /\ auth'.cred = NoCred
    BY <1>3, <1>9, <2>2 DEF Clears, Tickets
  <2>4. op'[a].pc \notin Readers \cup Polls \cup {"start.reply"}
    BY <2>3 DEF Readers, Granted, Polls
  <2>5. job'[a].kind = "save" => job'[a].gen # auth'.gen
    BY <1>3
  <2> QED
    BY <1>9, <2>1, <2>2, <2>3, <2>4, <2>5 DEF ClearInv
<1>10. Advances
  BY <1>1 DEF Advances
<1>11. /\ auth'.cred <= issued'
       /\ auth'.cred # NoCred => FloorNext(auth'.cred)
       /\ auth'.gen # 0
  BY <1>1, <1>2, <1>5
<1>12. \A b \in Actors : OpInv(b)' /\ JobInv(b)' /\ (Clears(b)' => ClearInv(b)')
  BY <1>6, <1>7, <1>8, <1>9
<1>13. LoginInv'
  BY <1>2, <1>11, <1>12, LoginInvNext
<1> QED
  BY <1>0, <1>10, <1>13

\* A login or a rotation is installed, and its save is queued.
LEMMA InstallKeeps ==
  ASSUME TypeOK, TypeOK', LoginInv, PollInv, NEW a \in Actors,
         store' = store, storeFault' = storeFault, loggedOut' = loggedOut, issued' = issued,
         auth'.gen = auth.gen, auth'.rev = auth.rev + 1, auth'.cred = op[a].fresh,
         auth'.pending \in {auth.pending, NoPending},
         \/ op[a].pc = "poll.check" /\ op[a].gen = auth.gen /\ auth'.pending = NoPending
         \/ op[a].pc = "refresh.check" /\ Matches(op[a]),
         \A b \in Actors \ {a} : op'[b] = op[b] /\ job'[b] = job[b],
         job'[a] = [kind |-> "save", gen |-> auth'.gen, rev |-> auth'.rev,
                    cred |-> op[a].fresh, state |-> "queued"],
         op'[a].pc \notin Readers \cup Dated,
         op'[a].rev <= auth'.rev, op'[a].cred <= issued', op'[a].fresh <= issued'
  PROVE  LoginInv' /\ Advances /\ LoginMove
<1>0. LoginMove
  <2>1. Saves(a)
    BY DEF Saves, Matches, Readers, Granted
  <2> QED
    BY <2>1 DEF LoginMove
<1> DEFINE x == op[a].fresh
<1>1. /\ auth.gen \in Nat /\ auth.rev \in Nat /\ auth.cred \in Nat /\ x \in Nat
      /\ op[a].cred \in Nat /\ loggedOut \in Nat
  BY Numbers
<1>2. /\ \A b \in Actors : OpInv(b) /\ JobInv(b)
      /\ store <= issued /\ loggedOut <= issued
      /\ auth.pending # NoPending => auth.cred = NoCred
      /\ store = NoCred \/ store > loggedOut
  BY LoginInvNow
<1>3. /\ Floor(x) /\ x <= issued
      /\ op[a].gen = auth.gen /\ op[a].pc \in Readers \cup Polls
  BY <1>2, OpInvNow DEF Matches, Readers, Granted, Polls
<1>4. auth'.pending = NoPending /\ auth.cred <= x
  <2>1. CASE op[a].pc = "poll.check"
    <3>1. auth.pending = Polling /\ Polling # NoPending
      BY <1>3, <2>1 DEF PollInv, Polls, Polling, NoPending
    <3> QED
      BY <1>1, <1>2, <2>1, <3>1 DEF NoCred
  <2>2. CASE op[a].pc = "refresh.check"
    <3>1. op[a].cred # NoCred /\ op[a].cred = auth.cred /\ x > op[a].cred
      BY <1>2, <2>2, OpInvNow DEF Readers, Granted, Matches
    <3> QED
      BY <1>1, <1>2, <3>1
  <2> QED
    BY <2>1, <2>2
<1>5. \A b \in Actors : ~Clears(b)
  BY <1>3, ClearsAlone
<1>6. \A b \in Actors \ {a} :
        op[b].pc \in {"poll.check"} \cup Tickets => op[b].gen # auth.gen
  <2> TAKE b \in Actors \ {a}
  <2>1. op[b].pc \in Tickets => op[b].gen # auth.gen
    BY <1>5 DEF Clears
  <2>2. CASE op[a].pc = "poll.check"
    BY <1>3, <2>1, <2>2 DEF PollInv, Polls
  <2>3. CASE op[a].pc = "refresh.check"
    <3>1. auth.cred # NoCred
      BY <1>2, <2>3, OpInvNow DEF Readers, Granted, Matches
    <3>2. auth.pending = NoPending
      BY <1>2, <3>1
    <3>3. op[b].pc \in Polls => op[b].gen # auth.gen
      BY <3>2 DEF PollInv, Polling, NoPending
    <3> QED
      BY <2>1, <3>3 DEF Polls
  <2> QED
    BY <2>2, <2>3
<1>7. JobsBut(a)
  BY DEF JobsBut
<1>8. \A b \in Actors \ {a} : OpInv(b)' /\ JobInv(b)'
  <2> TAKE b \in Actors \ {a}
  <2>1. auth'.gen >= auth.gen /\ auth'.rev > auth.rev
    BY <1>1
  <2> QED
    BY <1>6, <1>7, <2>1, LeavesBehind
<1>9. FloorNext(x)
  <2>1. job'[a].cred = x /\ x >= x
    BY <1>1
  <2> QED
    BY <1>3, <2>1 DEF Floor, FloorNext
<1>10. OpInv(a)'
  <2>1. op'[a].pc \notin Granted \cup Openers \cup Tickets \cup {"poll.check", "disconnect.lock"}
    BY KindsOfPoints DEF Dated
  <2> QED
    BY <2>1, OpInvNext
<1>11. JobInv(a)'
  <2>1. /\ job'[a].gen <= auth'.gen /\ job'[a].rev <= auth'.rev /\ job'[a].cred <= issued'
        /\ job'[a].state = "queued" /\ job'[a].cred = x /\ auth'.rev # 0
        /\ job'[a].kind = "save"
    BY <1>1, <1>3, NumbersNext
  <2>2. \A c \in Actors :
          {job'[a].state, job'[c].state} \subseteq {"writing", "written"} => a = c
    BY <1>7, OneWriter
  <2> QED
    BY <1>9, <2>1, <2>2, JobInvNext
<1>12. \A b \in Actors : ~Clears(b)'
  <2>1. op'[a].pc \notin Tickets /\ job'[a].kind = "save"
    BY KindsOfPoints DEF Dated
  <2> QED
    BY <1>5, <2>1 DEF Clears
<1>13. Advances
  BY <1>1, <1>4, NumbersNext DEF Advances
<1>14. auth'.rev # 0
  BY <1>1
<1>15. LoginInv'
  BY <1>2, <1>3, <1>4, <1>8, <1>9, <1>10, <1>11, <1>12, <1>14, LoginInvNext
<1> QED
  BY <1>0, <1>13, <1>15

\* A validated credential is saved again.
LEMMA SavesAgainKeeps ==
  ASSUME TypeOK, TypeOK', LoginInv, PollInv, NEW a \in Actors,
         store' = store, storeFault' = storeFault,
         loggedOut' = loggedOut, issued' = issued, auth' = auth,
         op[a].pc = "validate.reply", Matches(op[a]),
         \A b \in Actors \ {a} : op'[b] = op[b] /\ job'[b] = job[b],
         job'[a] = [kind |-> "save", gen |-> auth.gen, rev |-> auth.rev,
                    cred |-> auth.cred, state |-> "queued"],
         op'[a].pc \notin Readers \cup Dated,
         op'[a].rev <= auth.rev, op'[a].cred <= issued, op'[a].fresh <= issued
  PROVE  LoginInv' /\ Advances /\ LoginMove
<1>0. LoginMove
  <2>1. Saves(a)
    BY DEF Saves, Readers
  <2> QED
    BY <2>1 DEF LoginMove
<1> DEFINE x == auth.cred
<1>1. /\ auth.gen \in Nat /\ auth.rev \in Nat /\ x \in Nat /\ store \in Nat
      /\ \A b \in Actors : op[b].cred \in Nat /\ op[b].fresh \in Nat
  BY Numbers
<1>2. /\ \A b \in Actors : OpInv(b) /\ JobInv(b)
      /\ x <= issued /\ store <= issued /\ loggedOut <= issued
      /\ x # NoCred => Floor(x)
      /\ auth.pending # NoPending => x = NoCred
      /\ store = NoCred \/ store > loggedOut
      /\ auth.gen = 0 /\ auth.rev = 0 => store = NoCred \/ store >= x
  BY LoginInvNow
<1>3. /\ op[a].cred = x /\ op[a].gen = auth.gen /\ op[a].pc \in Readers
      /\ x # NoCred /\ auth.pending = NoPending /\ Floor(x)
  BY <1>2, OpInvNow DEF Matches, Readers
<1>4. \A b \in Actors : ~Clears(b)
  BY <1>3, ClearsAlone
<1>5. \A y \in Nat : Floor(y) /\ y >= x => FloorNext(y)
  BY DEF Floor, FloorNext
<1>6. JobsBut(a)
  BY DEF JobsBut
<1>7. \A b, c \in Actors :
        {job'[b].state, job'[c].state} \subseteq {"writing", "written"} => b = c
  BY <1>6, OneWriter
<1>8. ASSUME NEW b \in Actors \ {a} PROVE OpInv(b)' /\ JobInv(b)'
  <2>1. OpInv(b)'
    <3>1. /\ op[b].rev <= auth.rev /\ op[b].cred <= issued /\ op[b].fresh <= issued
          /\ op[b].pc \in Openers => op[b].gen # 0
          /\ op[b].pc \in Readers => op[b].cred # NoCred
          /\ op[b].pc \in Granted /\ Matches(op[b]) =>
               Floor(op[b].fresh) /\ op[b].fresh > op[b].cred
          /\ op[b].pc = "disconnect.lock" => job[b].gen # op[b].gen
      BY <1>2, OpInvNow
    <3>2. op[b].pc \in Tickets \cup {"poll.check"} => op[b].gen # auth.gen
      BY <1>3, <1>4 DEF Clears, PollInv, Polls, Polling, NoPending
    <3>3. op[b].pc \in Granted /\ op[b].gen = auth.gen /\ op[b].rev = auth.rev
            /\ op[b].cred = x => FloorNext(op[b].fresh) /\ op[b].fresh > op[b].cred
      <4>1. op[b].fresh > x => op[b].fresh >= x
        BY <1>1
      <4> QED
        BY <1>1, <1>5, <3>1, <4>1 DEF Matches
    <3> QED
      BY <3>1, <3>2, <3>3, OpInvNext
  <2>2. JobInv(b)'
    <3>1. /\ job[b].gen <= auth.gen /\ job[b].rev <= auth.rev /\ job[b].cred <= issued
          /\ job[b].kind = "save" /\ JobIsCurrent(b) =>
               Floor(job[b].cred) /\ x \in {NoCred, job[b].cred}
          /\ job[b].kind = "save" /\ job[b].state = "writing" =>
               job[b].cred > loggedOut /\ job[b].cred >= store
          /\ job[b].kind = "clear" /\ job[b].state = "written" => store = NoCred
          /\ job[b].kind = "save" /\ auth.gen = 0 /\ auth.rev = 0 =>
               job[b].cred >= x
      BY <1>2, JobInvNow
    <3>2. job[b].kind = "save" /\ job[b].gen = auth.gen /\ job[b].rev = auth.rev =>
            FloorNext(job[b].cred) /\ x \in {NoCred, job[b].cred}
      BY <1>1, <1>3, <1>5, <3>1 DEF JobIsCurrent
    <3> QED
      BY <1>7, <3>1, <3>2, JobInvNext
  <2> QED
    BY <2>1, <2>2
<1>9. FloorNext(x)
  BY <1>1, <1>3, <1>5
<1>10. OpInv(a)'
  <2>1. op'[a].pc \notin Granted \cup Openers \cup Tickets \cup {"poll.check", "disconnect.lock"}
    BY KindsOfPoints DEF Dated
  <2>2. op'[a].pc \notin Readers
    OBVIOUS
  <2> QED
    BY <2>1, <2>2, OpInvNext
<1>11. JobInv(a)'
  <2>1. /\ job'[a].gen <= auth.gen /\ job'[a].rev <= auth.rev /\ job'[a].cred <= issued
        /\ job'[a].state = "queued" /\ job'[a].cred = x /\ job'[a].cred >= x
        /\ job'[a].kind = "save"
    BY <1>1, <1>2
  <2> QED
    BY <1>7, <1>9, <2>1, JobInvNext
<1>12. \A b \in Actors : ~Clears(b)'
  <2>1. op'[a].pc \notin Tickets /\ job'[a].kind = "save"
    BY KindsOfPoints DEF Dated
  <2> QED
    BY <1>4, <2>1 DEF Clears
<1>13. Advances
  BY <1>1 DEF Advances
<1>14. LoginInv'
  BY <1>2, <1>3, <1>8, <1>9, <1>10, <1>11, <1>12, LoginInvNext
<1> QED
  BY <1>0, <1>13, <1>14

\* A clear that could not be stored puts its credential back.
LEMMA RestoreKeeps ==
  ASSUME TypeOK, TypeOK', LoginInv, NEW a \in Actors,
         store' = store, storeFault' = storeFault, loggedOut' = loggedOut, issued' = issued,
         op[a].pc \in {"disconnect.store", "clear.store"},
         op[a].gen = auth.gen, op[a].rev = auth.rev, job[a].state = "failed",
         auth' = [auth EXCEPT !.cred = op[a].cred, !.pending = NoPending],
         \A b \in Actors \ {a} : op'[b] = op[b] /\ job'[b] = job[b],
         job'[a] = NoJob,
         op'[a].pc \notin Readers \cup Dated,
         op'[a].rev <= auth.rev, op'[a].cred <= issued, op'[a].fresh <= issued
  PROVE  LoginInv' /\ Advances /\ LoginMove
<1>0. LoginMove
  <2>1. Restores(a)
    BY DEF Restores
  <2> QED
    BY <2>1 DEF LoginMove
<1> DEFINE x == op[a].cred
<1>1. /\ auth.gen \in Nat /\ auth.rev \in Nat /\ auth.cred \in Nat /\ x \in Nat
      /\ store \in Nat /\ issued \in Nat
      /\ auth'.gen = auth.gen /\ auth'.rev = auth.rev
      /\ auth'.cred = x /\ auth'.pending = NoPending
  BY Numbers, AuthFields DEF Auth
<1>2. /\ \A b \in Actors : OpInv(b) /\ JobInv(b)
      /\ store <= issued /\ loggedOut <= issued
      /\ store = NoCred \/ store > loggedOut
  BY LoginInvNow
<1>3. Clears(a) /\ op[a].pc \in Tickets /\ op[a].pc \in Openers
  BY DEF Clears, Tickets, Openers
<1>4. /\ auth.gen # 0 /\ x <= issued
      /\ x # NoCred => Floor(x)
  BY <1>2, <1>3, OpInvNow
<1>5. /\ auth.cred = NoCred
      /\ \A b \in Actors : op[b].gen = auth.gen => op[b].pc \notin Readers \cup Polls
      /\ \A b \in Actors : job[b].kind = "save" => job[b].gen # auth.gen
      /\ \A b \in Actors : Clears(b) => a = b
  BY <1>3, ClearsAlone
<1>6. JobsBut(a)
  BY NoJobCarries DEF JobsBut
<1>7. ASSUME NEW b \in Actors \ {a} PROVE OpInv(b)' /\ JobInv(b)'
  <2>1. /\ op[b].pc \in {"poll.check"} \cup Tickets => op[b].gen # auth'.gen
        /\ op[b].pc \in Granted => op[b].gen # auth'.gen
        /\ job[b].kind = "save" => job[b].gen # auth'.gen
    BY <1>1, <1>5, KindsOfPoints DEF Clears
  <2>2. auth'.gen >= auth.gen /\ auth'.rev >= auth.rev /\ auth'.gen # 0
    BY <1>1, <1>4
  <2> QED
    BY <1>6, <2>1, <2>2, Unconcerned
<1>8. x # NoCred => FloorNext(x)
  BY <1>4, NoJobCarries DEF Floor, FloorNext
<1>9. OpInv(a)'
  <2>1. op'[a].pc \notin Granted \cup Openers \cup Tickets \cup {"poll.check", "disconnect.lock"}
    BY KindsOfPoints DEF Dated
  <2>2. op'[a].pc \notin Readers
    OBVIOUS
  <2> QED
    BY <1>1, <2>1, <2>2, OpInvNext
<1>10. JobInv(a)'
  <2>1. 0 <= auth'.gen /\ 0 <= auth'.rev /\ 0 <= issued'
    BY <1>1
  <2>2. \A c \in Actors :
          {job'[a].state, job'[c].state} \subseteq {"writing", "written"} => a = c
    BY <1>6, OneWriter
  <2> QED
    BY <2>1, <2>2, NoJobCarries, JobInvNext
<1>11. \A b \in Actors : ~Clears(b)'
  <2>1. op'[a].pc \notin Tickets /\ job'[a].kind = "none"
    BY KindsOfPoints, NoJobCarries DEF Dated
  <2> QED
    BY <1>1, <1>5, <2>1 DEF Clears
<1>12. Advances
  BY <1>1, <1>5 DEF Advances, NoCred
<1>13. LoginInv'
  BY <1>1, <1>2, <1>4, <1>7, <1>8, <1>9, <1>10, <1>11, LoginInvNext
<1> QED
  BY <1>0, <1>12, <1>13

\* A disconnect that got the lock has its clear queued.
LEMMA QueuesClearKeeps ==
  ASSUME TypeOK, TypeOK', LoginInv, NEW a \in Actors,
         store' = store, storeFault' = storeFault,
         loggedOut' = loggedOut, issued' = issued, auth' = auth,
         op[a].pc = "disconnect.lock",
         \A b \in Actors \ {a} : op'[b] = op[b] /\ job'[b] = job[b],
         job'[a] = [kind |-> "clear", gen |-> op[a].gen, rev |-> op[a].rev,
                    cred |-> NoCred, state |-> "queued"],
         op'[a] = [op[a] EXCEPT !.pc = "disconnect.store"], op[a].gen <= auth.gen
  PROVE  LoginInv' /\ Advances /\ LoginMove
<1>0. LoginMove
  <2>1. QueuesClear(a)
    BY DEF QueuesClear, ClearJob
  <2> QED
    BY <2>1 DEF LoginMove
<1>1. /\ auth.gen \in Nat /\ auth.rev \in Nat /\ auth.cred \in Nat /\ store \in Nat
      /\ issued \in Nat
  BY Numbers
<1>2. /\ \A b \in Actors : OpInv(b) /\ JobInv(b) /\ (Clears(b) => ClearInv(b))
      /\ auth.cred <= issued /\ store <= issued /\ loggedOut <= issued
      /\ auth.cred # NoCred => Floor(auth.cred)
      /\ auth.pending # NoPending => auth.cred = NoCred
      /\ store = NoCred \/ store > loggedOut
      /\ auth.gen = 0 /\ auth.rev = 0 => store = NoCred \/ store >= auth.cred
  BY LoginInvNow
<1>3. /\ op'[a].pc = "disconnect.store" /\ op'[a].gen = op[a].gen
      /\ op'[a].rev = op[a].rev /\ op'[a].cred = op[a].cred /\ op'[a].fresh = op[a].fresh
  BY OpFields DEF Op
<1>4. \A x : Floor(x) => FloorNext(x)
  BY DEF Floor, FloorNext
<1>5. \A b, c \in Actors :
        {job'[b].state, job'[c].state} \subseteq {"writing", "written"} => b = c
  BY OneWriter DEF JobsBut
<1>6. ASSUME NEW b \in Actors PROVE OpInv(b)'
  <2>1. /\ op[b].rev <= auth.rev /\ op[b].cred <= issued /\ op[b].fresh <= issued
        /\ op[b].pc \in Openers => op[b].gen # 0
        /\ op[b].pc \in Readers => op[b].cred # NoCred
        /\ op[b].pc \in Granted /\ Matches(op[b]) =>
             Floor(op[b].fresh) /\ op[b].fresh > op[b].cred
        /\ op[b].pc = "poll.check" /\ op[b].gen = auth.gen => Floor(op[b].fresh)
        /\ op[b].pc \in Tickets /\ op[b].gen = auth.gen /\ op[b].cred # NoCred
             /\ (op[b].pc = "disconnect.lock" \/ job[b].state # "cleared") =>
               Floor(op[b].cred)
        /\ op[b].pc = "disconnect.lock" => job[b].gen # op[b].gen
    BY <1>2, OpInvNow
  <2>2. CASE b = a
    <3>1. op[a].pc \in Openers /\ op[a].pc \in Tickets
      BY DEF Openers, Tickets
    <3>2. "disconnect.store" \notin Readers \cup {"poll.check"}
      BY DEF Readers, Granted
    <3> QED
      BY <1>3, <1>4, <2>1, <2>2, <3>1, <3>2, KindsOfPoints, OpInvNext
  <2>3. CASE b # a
    BY <1>4, <2>1, <2>3, OpInvNext DEF Matches
  <2> QED
    BY <2>2, <2>3
<1>7. ASSUME NEW b \in Actors PROVE JobInv(b)'
  <2>1. CASE b = a
    <3>1. /\ job'[a].kind = "clear" /\ job'[a].gen <= auth.gen /\ job'[a].rev <= auth.rev
          /\ job'[a].cred <= issued /\ job'[a].state = "queued"
      BY <1>1, <1>2, OpInvNow DEF NoCred
    <3> QED
      BY <1>5, <2>1, <3>1, JobInvNext
  <2>2. CASE b # a
    <3>1. /\ job[b].gen <= auth.gen /\ job[b].rev <= auth.rev /\ job[b].cred <= issued
          /\ job[b].kind = "save" /\ JobIsCurrent(b) =>
               Floor(job[b].cred) /\ auth.cred \in {NoCred, job[b].cred}
          /\ job[b].kind = "save" /\ job[b].state = "writing" =>
               job[b].cred > loggedOut /\ job[b].cred >= store
          /\ job[b].kind = "clear" /\ job[b].state = "written" => store = NoCred
          /\ job[b].kind = "save" /\ auth.gen = 0 /\ auth.rev = 0 =>
               job[b].cred >= auth.cred
      BY <1>2, JobInvNow
    <3> QED
      BY <1>4, <1>5, <2>2, <3>1, JobInvNext DEF JobIsCurrent
  <2> QED
    BY <2>1, <2>2
<1>8. ASSUME NEW b \in Actors, Clears(b)' PROVE ClearInv(b)'
  <2>1. \A c \in Actors : Clears(c)' => Clears(c)
    <3> TAKE c \in Actors
    <3>1. CASE c = a
      <4>1. Clears(a)' => op[a].gen = auth.gen
        BY <1>3 DEF Clears
      <4> QED
        BY <3>1, <4>1 DEF Clears, Tickets
    <3>2. CASE c # a
      BY <3>2 DEF Clears
    <3> QED
      BY <3>1, <3>2
  <2>2. /\ auth.cred = NoCred /\ auth.pending = NoPending
        /\ \A c \in Actors :
             /\ op[c].gen = auth.gen =>
                  op[c].pc \notin Readers \cup Polls \cup {"start.reply"}
             /\ job[c].kind = "save" => job[c].gen # auth.gen
             /\ Clears(c) => b = c
    BY <1>8, <2>1, ClearsAlone
  <2>3. "disconnect.store" \notin Readers \cup Polls \cup {"start.reply"}
    BY DEF Readers, Granted, Polls
  <2>4. \A c \in Actors :
          op'[c].pc \in Readers \cup Polls \cup {"start.reply"} => op'[c].gen # auth.gen
    <3> TAKE c \in Actors
    <3>1. CASE c = a
      BY <1>3, <2>3, <3>1
    <3>2. CASE c # a
      BY <2>2, <3>2
    <3> QED
      BY <3>1, <3>2
  <2> QED
    BY <2>1, <2>2, <2>4 DEF ClearInv
<1>9. Advances
  BY <1>1 DEF Advances
<1>10. LoginInv'
  BY <1>2, <1>4, <1>6, <1>7, <1>8, LoginInvNext
<1> QED
  BY <1>0, <1>9, <1>10

\* A process that starts has the keyring's credential, and nothing under way.
LEMMA StartsWithStored ==
  /\ Init => LoginInv
  /\ TypeOK /\ LoginInv /\ Restart => LoginInv' /\ Advances /\ LoginMove
<1>1. /\ Idle.pc = "idle" /\ Idle.gen = 0 /\ Idle.rev = 0 /\ Idle.cred = 0 /\ Idle.fresh = 0
      /\ "idle" \notin Readers \cup Dated \cup Tickets \cup Granted \cup Openers \cup Polls
  BY DEF Idle, NoCred, Readers, Granted, Dated, Polls, Openers, Tickets
<1>2. ASSUME Init PROVE LoginInv
  <2>1. PICK c \in {NoCred, 1} :
          /\ auth = [gen |-> 0, rev |-> 0, cred |-> c, pending |-> NoPending]
          /\ store = c /\ issued = c /\ loggedOut = NoCred
          /\ \A a \in Actors : job[a] = NoJob /\ op[a] = Idle
    BY <1>2 DEF Init
  <2>2. /\ auth.gen = 0 /\ auth.rev = 0 /\ auth.cred = c /\ auth.pending = NoPending
        /\ c \in {0, 1} /\ loggedOut = 0
    BY <2>1 DEF NoCred
  <2>3. \A a \in Actors : OpInv(a)
    BY <1>1, <2>1, <2>2, KindsOfPoints DEF OpInv
  <2>4. \A a \in Actors : JobInv(a)
    BY <2>1, <2>2, NoJobCarries DEF JobInv
  <2>5. \A a \in Actors : ~Clears(a)
    BY <1>1, <2>1, NoJobCarries DEF Clears
  <2>6. auth.cred # NoCred => Floor(auth.cred)
    BY <2>1, <2>2, NoJobCarries DEF Floor, NoCred
  <2> QED
    BY <2>1, <2>2, <2>3, <2>4, <2>5, <2>6 DEF LoginInv, NoCred
<1>3. ASSUME TypeOK, LoginInv, Restart PROVE LoginInv' /\ Advances /\ LoginMove
  <2>1. /\ auth' = [gen |-> 0, rev |-> 0, cred |-> store, pending |-> NoPending]
        /\ store' = store /\ issued' = issued /\ loggedOut' = loggedOut
        /\ \A a \in Actors : job'[a] = NoJob /\ op'[a] = Idle
    BY <1>3 DEF Restart
  <2>2. /\ auth'.gen = 0 /\ auth'.rev = 0 /\ auth'.cred = store
        /\ auth'.pending = NoPending
    BY <2>1
  <2>3. /\ auth.gen \in Nat /\ auth.rev \in Nat /\ auth.cred \in Nat
        /\ store \in Nat /\ issued \in Nat
    BY <1>3, Numbers
  <2>4. /\ store <= issued /\ loggedOut <= issued
        /\ store = NoCred \/ store > loggedOut
        /\ auth.gen = 0 /\ auth.rev = 0 => store = NoCred \/ store >= auth.cred
    BY <1>3, LoginInvNow
  <2>5. \A a \in Actors : OpInv(a)'
    BY <1>1, <2>1, <2>2, <2>3, KindsOfPoints, OpInvNext
  <2>6. \A a \in Actors : JobInv(a)'
    BY <2>1, <2>2, <2>3, NoJobCarries, JobInvNext
  <2>7. \A a \in Actors : ~Clears(a)'
    BY <1>1, <2>1, NoJobCarries DEF Clears
  <2>8. store # NoCred => FloorNext(store)
    BY <2>1, <2>3, <2>4, NoJobCarries DEF FloorNext
  <2>9. store >= store
    BY <2>3
  <2>10. LoginInv'
    BY <2>1, <2>2, <2>4, <2>5, <2>6, <2>7, <2>8, <2>9, LoginInvNext
  <2>11. Advances
    BY <2>1, <2>2, <2>3, <2>4, <2>9 DEF Advances
  <2>12. LoginMove
    BY <1>3 DEF LoginMove
  <2> QED
    BY <2>10, <2>11, <2>12
<1> QED
  BY <1>2, <1>3

-----------------------------------------------------------------------------
(***************************************************************************)
(* The keyring, on blocking threads.                                       *)
(***************************************************************************)
\* What a job stands for does not change while it runs.
JobRuns(a, state) ==
  /\ op' = op /\ auth' = auth /\ issued' = issued
  /\ \A b \in Actors \ {a} : job'[b] = job[b]
  /\ \/ job'[a] = [job[a] EXCEPT !.state = state]
     \/ job'[a] = NoJob /\ op[a].pc = "idle"

\* OpInv over a step of a job, with the floors that go on being floors.
LEMMA JobRunsOps ==
  ASSUME TypeOK, LoginInv, NEW a \in Actors, NEW state, JobRuns(a, state),
         NEW b \in Actors,
         op[b].pc \in Granted /\ Matches(op[b]) /\ Floor(op[b].fresh) =>
           FloorNext(op[b].fresh),
         op[b].pc = "poll.check" /\ op[b].gen = auth.gen /\ Floor(op[b].fresh) =>
           FloorNext(op[b].fresh),
         op[b].pc \in Tickets /\ op[b].gen = auth.gen /\ op[b].cred # NoCred
           /\ (op[b].pc = "disconnect.lock" \/ job'[b].state # "cleared") =>
             FloorNext(op[b].cred)
  PROVE  OpInv(b)'
<1>1. /\ op[b].rev <= auth.rev /\ op[b].cred <= issued /\ op[b].fresh <= issued
      /\ op[b].pc \in Openers => op[b].gen # 0
      /\ op[b].pc \in Readers => op[b].cred # NoCred
      /\ op[b].pc \in Granted /\ Matches(op[b]) =>
           Floor(op[b].fresh) /\ op[b].fresh > op[b].cred
      /\ op[b].pc = "poll.check" /\ op[b].gen = auth.gen => Floor(op[b].fresh)
      /\ op[b].pc = "disconnect.lock" => job[b].gen # op[b].gen
  BY LoginInvNow, OpInvNow
<1>2. job'[b].gen = job[b].gen \/ op[b].pc = "idle"
  BY Numbers DEF JobRuns, Job
<1> QED
  BY <1>1, <1>2, OpInvNext DEF JobRuns, Matches

\* JobInv over a step of another's job.
LEMMA JobRunsBeside ==
  ASSUME TypeOK, LoginInv, NEW a \in Actors, NEW state, JobRuns(a, state),
         NEW b \in Actors \ {a},
         job[b].kind = "save" /\ JobIsCurrent(b) /\ Floor(job[b].cred) =>
           FloorNext(job[b].cred),
         job[b].state \in {"writing", "written"} => store' = store /\ loggedOut' = loggedOut,
         \A c \in Actors :
           {job'[b].state, job'[c].state} \subseteq {"writing", "written"} => b = c
  PROVE  JobInv(b)'
<1>1. /\ job[b].gen <= auth.gen /\ job[b].rev <= auth.rev /\ job[b].cred <= issued
      /\ job[b].kind = "save" /\ JobIsCurrent(b) =>
           Floor(job[b].cred) /\ auth.cred \in {NoCred, job[b].cred}
      /\ job[b].kind = "save" /\ job[b].state = "writing" =>
           job[b].cred > loggedOut /\ job[b].cred >= store
      /\ job[b].kind = "clear" /\ job[b].state = "written" => store = NoCred
      /\ job[b].kind = "save" /\ auth.gen = 0 /\ auth.rev = 0 =>
           job[b].cred >= auth.cred
  BY LoginInvNow, JobInvNow
<1> QED
  BY <1>1, JobInvNext DEF JobRuns, JobIsCurrent

\* A clear that runs on is the same one, and has its generation to itself.
LEMMA JobRunsClears ==
  ASSUME TypeOK, LoginInv, NEW a \in Actors, NEW state, JobRuns(a, state)
  PROVE  \A b \in Actors : Clears(b)' => ClearInv(b)'
<1>1. \A c \in Actors : /\ job'[c].kind = job[c].kind \/ job'[c].kind = "none"
                        /\ job'[c].gen = job[c].gen \/ job'[c].kind = "none"
  BY Numbers, NoJobCarries DEF JobRuns, Job
<1>2. \A c \in Actors : Clears(c)' => Clears(c)
  BY <1>1 DEF Clears, JobRuns
<1> TAKE b \in Actors
<1> SUFFICES ASSUME Clears(b)' PROVE ClearInv(b)'
  OBVIOUS
<1>3. /\ auth.cred = NoCred /\ auth.pending = NoPending
      /\ \A c \in Actors :
           /\ op[c].gen = auth.gen =>
                op[c].pc \notin Readers \cup Polls \cup {"start.reply"}
           /\ job[c].kind = "save" => job[c].gen # auth.gen
           /\ Clears(c) => b = c
  BY <1>2, ClearsAlone
<1>4. /\ auth'.cred = NoCred /\ auth'.pending = NoPending
      /\ \A c \in Actors :
           /\ op'[c].pc \in Readers \cup Polls \cup {"start.reply"} =>
                op'[c].gen # auth'.gen
           /\ job'[c].kind = "save" => job'[c].gen # auth'.gen
           /\ Clears(c)' => b = c
  BY <1>1, <1>2, <1>3 DEF JobRuns
<1> QED
  BY <1>4 DEF ClearInv

LEMMA JobStartKeeps ==
  ASSUME TypeOK, TypeOK', LoginInv, NEW a \in Actors, JobStart(a)
  PROVE  LoginInv' /\ Advances /\ LoginMove
<1>1. /\ store' = store /\ loggedOut' = loggedOut /\ issued' = issued
      /\ auth' = auth /\ op' = op
      /\ job[a].state = "queued"
      /\ \A b \in Actors : job[b].state \notin {"writing", "written"}
  BY DEF JobStart, ghostVars
<1>2. /\ job \in [Actors -> Job] /\ job[a] \in Job
      /\ auth.cred \in Nat /\ store \in Nat /\ auth.gen \in Nat /\ auth.rev \in Nat
      /\ issued \in Nat
  BY Numbers DEF TypeOK
<1>3. \/ JobRuns(a, "writing") /\ JobIsCurrent(a)
         /\ job'[a] = [job[a] EXCEPT !.state = "writing"]
      \/ JobRuns(a, "stale")
  BY <1>1, <1>2 DEF JobStart, JobEnds, JobRuns
<1>4. PICK state \in {"writing", "stale"} : JobRuns(a, state)
  BY <1>3
<1>5. /\ job'[a] = [job[a] EXCEPT !.state = state] \/ job'[a] = NoJob
      /\ job'[a].state = "writing" => JobIsCurrent(a)
      /\ \A b \in Actors \ {a} : job'[b] = job[b]
  BY <1>2, <1>3, <1>4, NoJobCarries DEF JobRuns, Job
<1>6. /\ job'[a].kind \in {job[a].kind, "none"}
      /\ job'[a].kind # "none" =>
           job'[a].cred = job[a].cred /\ job'[a].gen = job[a].gen /\ job'[a].rev = job[a].rev
      /\ job'[a].state \in {"writing", "stale", "none"}
  BY <1>2, <1>5, NoJobCarries DEF Job
<1>7. \A x : Floor(x) => FloorNext(x)
  BY <1>1, <1>5, <1>6 DEF Floor, FloorNext
<1>8. /\ \A b \in Actors : OpInv(b) /\ JobInv(b)
      /\ auth.cred <= issued /\ store <= issued /\ loggedOut <= issued
      /\ auth.cred # NoCred => Floor(auth.cred)
      /\ auth.pending # NoPending => auth.cred = NoCred
      /\ store = NoCred \/ store > loggedOut
      /\ auth.gen = 0 /\ auth.rev = 0 => store = NoCred \/ store >= auth.cred
  BY LoginInvNow
<1>9. \A b, c \in Actors :
        {job'[b].state, job'[c].state} \subseteq {"writing", "written"} => b = c
  BY <1>1, <1>5
<1>10. ASSUME NEW b \in Actors PROVE OpInv(b)'
  <2>1. job[b].state # "cleared" \/ job'[b].state = "cleared"
    BY <1>1, <1>5
  <2> QED
    BY <1>4, <1>7, <1>8, <2>1, OpInvNow, JobRunsOps
<1>11. ASSUME NEW b \in Actors \ {a} PROVE JobInv(b)'
  BY <1>1, <1>4, <1>7, <1>9, JobRunsBeside
<1>12. JobInv(a)'
  <2>1. /\ job[a].gen <= auth.gen /\ job[a].rev <= auth.rev /\ job[a].cred <= issued
        /\ job[a].kind = "save" /\ JobIsCurrent(a) =>
             Floor(job[a].cred) /\ auth.cred \in {NoCred, job[a].cred}
        /\ job[a].kind = "save" /\ auth.gen = 0 /\ auth.rev = 0 =>
             job[a].cred >= auth.cred
    BY <1>8, JobInvNow
  <2>2. job'[a].gen <= auth.gen /\ job'[a].rev <= auth.rev /\ job'[a].cred <= issued
    <3>1. CASE job'[a] = NoJob
      BY <1>2, <3>1, NoJobCarries
    <3>2. CASE job'[a] = [job[a] EXCEPT !.state = state]
      <4>1. /\ job'[a].gen = job[a].gen /\ job'[a].rev = job[a].rev
            /\ job'[a].cred = job[a].cred
        BY <1>2, <3>2 DEF Job
      <4> QED
        BY <2>1, <4>1
    <3> QED
      BY <1>5, <3>1, <3>2
  <2>3. job'[a].kind = "save" /\ job'[a].gen = auth.gen /\ job'[a].rev = auth.rev =>
          FloorNext(job'[a].cred) /\ auth.cred \in {NoCred, job'[a].cred}
    BY <1>6, <1>7, <2>1 DEF JobIsCurrent
  <2>4. job'[a].kind = "save" /\ job'[a].state = "writing" =>
          job'[a].cred > loggedOut /\ job'[a].cred >= store
    BY <1>1, <1>5, <1>6, <2>1 DEF Floor
  <2> QED
    BY <1>1, <1>6, <1>9, <2>1, <2>2, <2>3, <2>4, JobInvNext
<1>13. Advances
  BY <1>1, <1>2 DEF Advances
<1>14. \A b \in Actors : Clears(b)' => ClearInv(b)'
  BY <1>4, JobRunsClears
<1>15. LoginInv'
  BY <1>1, <1>7, <1>8, <1>10, <1>11, <1>12, <1>14, LoginInvNext
<1>16. LoginMove
  BY DEF LoginMove, JobStep
<1> QED
  BY <1>13, <1>15, <1>16

LEMMA JobWritesKeep ==
  ASSUME TypeOK, TypeOK', LoginInv, NEW a \in Actors, JobWrite(a) \/ JobFault(a)
  PROVE  LoginInv' /\ Advances /\ LoginMove
<1>1. /\ loggedOut' = loggedOut /\ issued' = issued /\ auth' = auth /\ op' = op
      /\ job[a].state = "writing"
  BY DEF JobWrite, JobFault
<1>2. /\ job \in [Actors -> Job] /\ job[a] \in Job /\ job[a].cred \in Nat
      /\ auth.cred \in Nat /\ store \in Nat /\ auth.gen \in Nat /\ auth.rev \in Nat
      /\ issued \in Nat /\ loggedOut \in Nat /\ store' \in Nat
      /\ \A b \in Actors : job[b].cred \in Nat /\ op[b].cred \in Nat /\ op[b].fresh \in Nat
  BY Numbers, NumbersNext DEF TypeOK
<1>3. PICK state \in {"written", "failed"} :
        /\ JobRuns(a, state)
        /\ state = "failed" => job[a].kind # "save"
        /\ \/ job[a].kind = "save" /\ store' = job[a].cred
           \/ job[a].kind # "save" /\ store' = NoCred
           \/ (job[a].kind = "save" \/ state = "failed") /\ store' = store
  <2>1. CASE JobWrite(a)
    <3>1. JobRuns(a, "written")
      BY <1>1, <1>2, <2>1 DEF JobWrite, JobRuns
    <3> QED
      BY <2>1, <3>1 DEF JobWrite
  <2>2. CASE JobFault(a) /\ job[a].kind = "save"
    <3>1. JobRuns(a, "written")
      BY <1>1, <1>2, <2>2 DEF JobFault, JobRuns
    <3> QED
      BY <2>2, <3>1 DEF JobFault
  <2>3. CASE JobFault(a) /\ job[a].kind # "save"
    <3>1. JobRuns(a, "failed")
      BY <1>1, <1>2, <2>3 DEF JobFault, JobEnds, JobRuns
    <3> QED
      BY <2>3, <3>1 DEF JobFault
  <2> QED
    BY <2>1, <2>2, <2>3
<1>4. /\ job'[a] = [job[a] EXCEPT !.state = state] \/ job'[a] = NoJob
      /\ \A b \in Actors \ {a} : job'[b] = job[b]
  BY <1>3 DEF JobRuns
<1>5. /\ job'[a].kind \in {job[a].kind, "none"}
      /\ job'[a].kind # "none" =>
           /\ job'[a].cred = job[a].cred /\ job'[a].gen = job[a].gen
           /\ job'[a].rev = job[a].rev /\ job'[a].state = state
      /\ job'[a].state \in {state, "none"}
  BY <1>2, <1>4, NoJobCarries DEF Job
<1>6. /\ \A b \in Actors : OpInv(b) /\ JobInv(b)
      /\ auth.cred <= issued /\ store <= issued /\ loggedOut <= issued
      /\ auth.cred # NoCred => Floor(auth.cred)
      /\ auth.pending # NoPending => auth.cred = NoCred
      /\ store = NoCred \/ store > loggedOut
      /\ auth.gen = 0 /\ auth.rev = 0 => store = NoCred \/ store >= auth.cred
  BY LoginInvNow
<1>7. /\ job[a].gen <= auth.gen /\ job[a].rev <= auth.rev /\ job[a].cred <= issued
      /\ job[a].kind = "save" /\ JobIsCurrent(a) =>
           Floor(job[a].cred) /\ auth.cred \in {NoCred, job[a].cred}
      /\ job[a].kind = "save" => job[a].cred > loggedOut /\ job[a].cred >= store
      /\ job[a].kind = "save" /\ auth.gen = 0 /\ auth.rev = 0 =>
           job[a].cred >= auth.cred
      /\ \A b \in Actors : job[b].state \in {"writing", "written"} => a = b
  BY <1>1, <1>6, JobInvNow
<1>8. \A x \in Nat : Floor(x) => FloorNext(x)
  <2> TAKE x \in Nat
  <2> SUFFICES ASSUME Floor(x) PROVE FloorNext(x)
    OBVIOUS
  <2>1. \A b \in Actors : job'[b].kind = "save" => x >= job'[b].cred
    BY <1>4, <1>5 DEF Floor
  <2>2. x >= store'
    BY <1>3, <1>1 DEF Floor, NoCred
  <2> QED
    BY <1>1, <2>1, <2>2 DEF FloorNext, Floor
<1>9. \A b, c \in Actors :
        {job'[b].state, job'[c].state} \subseteq {"writing", "written"} => b = c
  <2>1. \A b \in Actors \ {a} : job'[b].state \notin {"writing", "written"}
    BY <1>4, <1>7
  <2> QED
    BY <2>1
<1>10. ASSUME NEW b \in Actors PROVE OpInv(b)'
  <2>1. job[b].state # "cleared"
        \/ job'[b].state = "cleared"
    BY <1>1, <1>4
  <2>2. op[b].fresh \in Nat /\ op[b].cred \in Nat
    BY <1>2
  <2> QED
    BY <1>3, <1>6, <1>8, <2>1, <2>2, OpInvNow, JobRunsOps
<1>11. ASSUME NEW b \in Actors \ {a} PROVE JobInv(b)'
  <2>1. job[b].state \notin {"writing", "written"} /\ job[b].cred \in Nat
    BY <1>2, <1>7
  <2> QED
    BY <1>3, <1>8, <1>9, <2>1, JobRunsBeside
<1>12. JobInv(a)'
  <2>1. job'[a].gen <= auth.gen /\ job'[a].rev <= auth.rev /\ job'[a].cred <= issued
    <3>1. CASE job'[a] = NoJob
      BY <1>2, <3>1, NoJobCarries
    <3>2. CASE job'[a] = [job[a] EXCEPT !.state = state]
      <4>1. /\ job'[a].gen = job[a].gen /\ job'[a].rev = job[a].rev
            /\ job'[a].cred = job[a].cred
        BY <1>2, <3>2 DEF Job
      <4> QED
        BY <1>7, <4>1
    <3> QED
      BY <1>4, <3>1, <3>2
  <2>2. job'[a].kind = "save" /\ job'[a].gen = auth.gen /\ job'[a].rev = auth.rev =>
          FloorNext(job'[a].cred) /\ auth.cred \in {NoCred, job'[a].cred}
    BY <1>2, <1>5, <1>7, <1>8 DEF JobIsCurrent
  <2>3. job'[a].state # "writing"
    BY <1>5
  <2>4. job'[a].kind = "clear" /\ job'[a].state = "written" => store' = NoCred
    BY <1>3, <1>5
  <2>5. job'[a].kind = "save" /\ auth.gen = 0 /\ auth.rev = 0 => job'[a].cred >= auth.cred
    BY <1>5, <1>7
  <2> QED
    BY <1>1, <1>9, <2>1, <2>2, <2>3, <2>4, <2>5, JobInvNext
<1>13. /\ store' <= issued
       /\ store' = NoCred \/ store' > loggedOut
       /\ store' = NoCred \/ store' >= store
       /\ auth.gen = 0 /\ auth.rev = 0 => store' = NoCred \/ store' >= auth.cred
  BY <1>2, <1>3, <1>6, <1>7 DEF NoCred
<1>14. Advances
  BY <1>1, <1>2, <1>13 DEF Advances
<1>15. \A b \in Actors : Clears(b)' => ClearInv(b)'
  BY <1>3, JobRunsClears
<1>16. LoginInv'
  BY <1>1, <1>2, <1>6, <1>8, <1>10, <1>11, <1>12, <1>13, <1>15, LoginInvNext
<1>17. LoginMove
  BY DEF LoginMove, JobStep
<1> QED
  BY <1>14, <1>16, <1>17

LEMMA JobEndKeeps ==
  ASSUME TypeOK, TypeOK', LoginInv, NEW a \in Actors, JobEnd(a)
  PROVE  LoginInv' /\ Advances /\ LoginMove
<1> DEFINE clears == JobIsCurrent(a) /\ job[a].kind = "clear"
<1>1. /\ store' = store /\ issued' = issued /\ auth' = auth /\ op' = op
      /\ job[a].state = "written"
      /\ loggedOut' = IF clears THEN issued ELSE loggedOut
  BY DEF JobEnd
<1>2. /\ job \in [Actors -> Job] /\ job[a] \in Job
      /\ auth.cred \in Nat /\ store \in Nat /\ auth.gen \in Nat /\ auth.rev \in Nat
      /\ issued \in Nat /\ loggedOut \in Nat
  BY Numbers DEF TypeOK
<1>3. PICK state \in {"stale", "saved", "cleared"} :
        JobRuns(a, state) /\ (state = "cleared" => JobIsCurrent(a) /\ job[a].kind # "save")
          /\ (clears => state = "cleared")
  BY <1>1, <1>2 DEF JobEnd, JobEnds, JobRuns
<1>4. /\ job'[a] = [job[a] EXCEPT !.state = state] \/ (job'[a] = NoJob /\ op[a].pc = "idle")
      /\ \A b \in Actors \ {a} : job'[b] = job[b]
  BY <1>3 DEF JobRuns
<1>5. /\ job'[a].kind \in {job[a].kind, "none"}
      /\ job'[a].kind # "none" =>
           /\ job'[a].cred = job[a].cred /\ job'[a].gen = job[a].gen
           /\ job'[a].rev = job[a].rev /\ job'[a].state = state
      /\ job'[a].state = state \/ (job'[a].state = "none" /\ op[a].pc = "idle")
  BY <1>2, <1>4, NoJobCarries DEF Job
<1>6. /\ \A b \in Actors : OpInv(b) /\ JobInv(b)
      /\ auth.cred <= issued /\ store <= issued /\ loggedOut <= issued
      /\ auth.cred # NoCred => Floor(auth.cred)
      /\ auth.pending # NoPending => auth.cred = NoCred
      /\ store = NoCred \/ store > loggedOut
      /\ auth.gen = 0 /\ auth.rev = 0 => store = NoCred \/ store >= auth.cred
  BY LoginInvNow
<1>7. /\ job[a].gen <= auth.gen /\ job[a].rev <= auth.rev /\ job[a].cred <= issued
      /\ job[a].kind = "save" /\ JobIsCurrent(a) =>
           Floor(job[a].cred) /\ auth.cred \in {NoCred, job[a].cred}
      /\ job[a].kind = "save" /\ auth.gen = 0 /\ auth.rev = 0 =>
           job[a].cred >= auth.cred
      /\ job[a].kind = "clear" => store = NoCred
      /\ \A b \in Actors : job[b].state \in {"writing", "written"} => a = b
  BY <1>1, <1>6, JobInvNow
<1>8. ~clears => \A x : Floor(x) => FloorNext(x)
  BY <1>1, <1>4, <1>5 DEF Floor, FloorNext
<1>9. clears =>
        /\ auth.cred = NoCred /\ store = NoCred
        /\ \A b \in Actors : op[b].gen = auth.gen => op[b].pc \notin Readers \cup Polls
        /\ \A b \in Actors : job[b].kind = "save" => job[b].gen # auth.gen
        /\ \A b \in Actors : Clears(b) => a = b
  <2>1. clears => Clears(a)
    BY DEF Clears, JobIsCurrent
  <2> HIDE DEF clears
  <2> QED
    BY <1>7, <2>1, ClearsAlone DEF clears
<1>10. \A b, c \in Actors :
         {job'[b].state, job'[c].state} \subseteq {"writing", "written"} => b = c
  <2>1. \A b \in Actors \ {a} : job'[b].state \notin {"writing", "written"}
    BY <1>4, <1>7
  <2> QED
    BY <2>1
<1>11. ASSUME NEW b \in Actors PROVE OpInv(b)'
  <2> HIDE DEF clears
  <2>1. CASE clears
    <3>1. op[b].pc \in Granted \cup {"poll.check"} => op[b].gen # auth.gen
      BY <1>9, <2>1, KindsOfPoints
    <3>2. ASSUME op[b].pc \in Tickets, op[b].gen = auth.gen
          PROVE  op[b].pc # "disconnect.lock" /\ job'[b].state = "cleared"
      <4>1. a = b
        BY <1>9, <2>1, <3>2 DEF Clears
      <4>2. job[a].gen = auth.gen
        BY <2>1 DEF clears, JobIsCurrent
      <4>3. op[b].pc # "disconnect.lock"
        BY <1>6, <3>2, <4>1, <4>2, OpInvNow
      <4>4. op[b].pc # "idle"
        BY <3>2 DEF Tickets
      <4> QED
        BY <1>3, <1>5, <2>1, <4>1, <4>3, <4>4
    <3> QED
      BY <1>3, <3>1, <3>2, JobRunsOps DEF Matches
  <2>2. CASE ~clears
    <3>1. job[b].state # "cleared" \/ job'[b].state = "cleared"
      BY <1>1, <1>4
    <3> QED
      BY <1>3, <1>6, <1>8, <2>2, <3>1, OpInvNow, JobRunsOps
  <2> QED
    BY <2>1, <2>2
<1>12. ASSUME NEW b \in Actors \ {a} PROVE JobInv(b)'
  <2> HIDE DEF clears
  <2>1. job[b].state \notin {"writing", "written"}
    BY <1>7
  <2>2. job[b].kind = "save" /\ JobIsCurrent(b) /\ Floor(job[b].cred) =>
          FloorNext(job[b].cred)
    BY <1>8, <1>9 DEF JobIsCurrent
  <2> QED
    BY <1>3, <1>10, <2>1, <2>2, JobRunsBeside
<1>13. JobInv(a)'
  <2>1. job'[a].gen <= auth.gen /\ job'[a].rev <= auth.rev /\ job'[a].cred <= issued
    <3>1. CASE job'[a] = NoJob
      BY <1>2, <3>1, NoJobCarries
    <3>2. CASE job'[a] = [job[a] EXCEPT !.state = state]
      <4>1. /\ job'[a].gen = job[a].gen /\ job'[a].rev = job[a].rev
            /\ job'[a].cred = job[a].cred
        BY <1>2, <3>2 DEF Job
      <4> QED
        BY <1>7, <4>1
    <3> QED
      BY <1>4, <3>1, <3>2
  <2>2. job'[a].kind = "save" /\ job'[a].gen = auth.gen /\ job'[a].rev = auth.rev =>
          FloorNext(job'[a].cred) /\ auth.cred \in {NoCred, job'[a].cred}
    BY <1>5, <1>7, <1>8 DEF JobIsCurrent
  <2>3. job'[a].state \notin {"writing", "written"}
    BY <1>5
  <2>4. job'[a].kind = "save" /\ auth.gen = 0 /\ auth.rev = 0 => job'[a].cred >= auth.cred
    BY <1>5, <1>7
  <2> QED
    BY <1>1, <1>10, <2>1, <2>2, <2>3, <2>4, JobInvNext
<1>14. /\ loggedOut' <= issued
       /\ store = NoCred \/ store > loggedOut'
       /\ auth.cred # NoCred => FloorNext(auth.cred)
  BY <1>1, <1>2, <1>6, <1>8, <1>9
<1>15. Advances
  BY <1>1, <1>2 DEF Advances
<1>16. \A b \in Actors : Clears(b)' => ClearInv(b)'
  BY <1>3, JobRunsClears
<1>17. LoginInv'
  BY <1>1, <1>6, <1>11, <1>12, <1>13, <1>14, <1>16, LoginInvNext
<1>18. LoginMove
  BY DEF LoginMove, JobStep
<1> QED
  BY <1>15, <1>17, <1>18

LEMMA JobStepsKeepLogin ==
  ASSUME TypeOK, TypeOK', LoginInv, NEW a \in Actors, JobStep(a)
  PROVE  LoginInv' /\ Advances /\ LoginMove
BY JobStartKeeps, JobWritesKeep, JobEndKeeps DEF JobStep

-----------------------------------------------------------------------------
(***************************************************************************)
(* The other steps carry credentials on, or drop them.                     *)
(***************************************************************************)
LEMMA IdleHarmless ==
  /\ Idle.pc = "idle" /\ Idle.gen = 0 /\ Idle.rev = 0 /\ Idle.cred = 0 /\ Idle.fresh = 0
  /\ \A r : Bare(r).pc = r.pc /\ Bare(r).rev = 0 /\ Bare(r).cred = 0 /\ Bare(r).fresh = 0
  /\ "idle" \notin Readers \cup Dated
  /\ Between \cap (Readers \cup Dated) = {}
BY DEF Idle, NoCred, Bare, Between, Ends, Readers, Granted, Dated, Polls, Openers

\* An invocation that neither works on a credential nor polls.
LEMMA HarmlessCarries ==
  ASSUME NEW a, NEW s, s.pc \notin Readers \cup Dated,
         s.rev <= auth.rev, s.cred <= issued, s.fresh <= issued'
  PROVE  Carries(a, s)
BY DEF Carries

\* An invocation that has stayed where it was, or was left behind.
LEMMA StayingCarries ==
  ASSUME TypeOK, TypeOK', LoginInv, issued' >= issued, NEW b \in Actors
  PROVE  /\ Carries(b, op[b]) /\ Carries(b, Idle) /\ Carries(b, [op[b] EXCEPT !.alive = FALSE])
         /\ \A r : r.pc \in Between => Carries(b, Bare(r))
<1>1. /\ issued \in Nat /\ issued' \in Nat /\ auth.rev \in Nat /\ op[b].fresh \in Nat
      /\ op[b] \in Op
  BY Numbers, NumbersNext, OpFields
<1>2. op[b].rev <= auth.rev /\ op[b].cred <= issued /\ op[b].fresh <= issued
  BY LoginInvNow, OpInvNow
<1>3. op[b].fresh <= issued'
  BY <1>1, <1>2
<1>4. Carries(b, op[b])
  BY <1>2, <1>3 DEF Carries, Keeps, SameLogin
<1>5. Carries(b, [op[b] EXCEPT !.alive = FALSE])
  BY <1>1, <1>2, <1>3 DEF Carries, Keeps, SameLogin, Op
<1>6. Carries(b, Idle)
  BY <1>1, IdleHarmless, HarmlessCarries
<1>7. \A r : r.pc \in Between => Carries(b, Bare(r))
  BY <1>1, IdleHarmless, HarmlessCarries
<1> QED
  BY <1>4, <1>5, <1>6, <1>7

\* An invocation that goes on with the credential it has.
LEMMA KeepingCarries ==
  ASSUME TypeOK, TypeOK', LoginInv, issued' >= issued, NEW a \in Actors, NEW s,
         SameLogin(s, op[a]), s.fresh = op[a].fresh, s.pc \notin Dated,
         s.pc \in Readers => op[a].pc \in Readers,
         s.pc \in Granted => op[a].pc \in Granted
  PROVE  Carries(a, s)
<1>1. issued \in Nat /\ issued' \in Nat /\ op[a].fresh \in Nat
  BY Numbers, NumbersNext
<1>2. op[a].rev <= auth.rev /\ op[a].cred <= issued /\ op[a].fresh <= issued
  BY LoginInvNow, OpInvNow
<1>3. op[a].fresh <= issued'
  BY <1>1, <1>2
<1> QED
  BY <1>2, <1>3 DEF Carries, Keeps, SameLogin

LEMMA MovingCarries ==
  ASSUME TypeOK, TypeOK', LoginInv, issued' >= issued, NEW a \in Actors,
         NEW pc, pc \notin Dated, pc \in Readers => op[a].pc \in Readers,
         pc \in Granted => op[a].pc \in Granted
  PROVE  /\ Carries(a, [op[a] EXCEPT !.pc = pc])
         /\ \A why : Carries(a, [op[a] EXCEPT !.pc = pc, !.why = why])
         /\ \A conn : Carries(a, [op[a] EXCEPT !.pc = pc, !.conn = conn])
<1>1. op[a] \in Op
  BY OpFields
<1>2. /\ [op[a] EXCEPT !.pc = pc].pc = pc /\ SameLogin([op[a] EXCEPT !.pc = pc], op[a])
      /\ [op[a] EXCEPT !.pc = pc].fresh = op[a].fresh
  BY <1>1 DEF Op, SameLogin
<1>3. ASSUME NEW why
      PROVE  /\ [op[a] EXCEPT !.pc = pc, !.why = why].pc = pc
             /\ SameLogin([op[a] EXCEPT !.pc = pc, !.why = why], op[a])
             /\ [op[a] EXCEPT !.pc = pc, !.why = why].fresh = op[a].fresh
  BY <1>1 DEF Op, SameLogin
<1>4. ASSUME NEW conn
      PROVE  /\ [op[a] EXCEPT !.pc = pc, !.conn = conn].pc = pc
             /\ SameLogin([op[a] EXCEPT !.pc = pc, !.conn = conn], op[a])
             /\ [op[a] EXCEPT !.pc = pc, !.conn = conn].fresh = op[a].fresh
  BY <1>1 DEF Op, SameLogin
<1>5. Carries(a, [op[a] EXCEPT !.pc = pc])
  BY <1>2, KeepingCarries
<1>6. ASSUME NEW why PROVE Carries(a, [op[a] EXCEPT !.pc = pc, !.why = why])
  BY <1>3, KeepingCarries
<1>7. ASSUME NEW conn PROVE Carries(a, [op[a] EXCEPT !.pc = pc, !.conn = conn])
  BY <1>4, KeepingCarries
<1> QED
  BY <1>5, <1>6, <1>7

\* An EventSub task that looks for the latest credential of its login.
LEMMA LatestCarries ==
  ASSUME TypeOK, TypeOK', LoginInv, issued' >= issued, auth' = auth, NEW a \in Actors
  PROVE  Carries(a, Latest(op[a]))
<1> DEFINE s == [op[a] EXCEPT !.pc = "task.send", !.gen = auth.gen, !.rev = auth.rev,
                   !.cred = auth.cred, !.fresh = NoCred, !.second = TRUE, !.why = "none"]
<1>1. op[a] \in Op /\ auth.rev \in Nat /\ issued' \in Nat
  BY OpFields, Numbers, NumbersNext
<1>2. /\ s.pc = "task.send" /\ s.gen = auth.gen /\ s.rev = auth.rev
      /\ s.cred = auth.cred /\ s.fresh = 0
  BY <1>1 DEF Op, NoCred
<1>3. auth.cred <= issued /\ "task.send" \in Readers \ Granted /\ auth.rev <= auth.rev
  BY <1>1, LoginInvNow DEF Readers, Granted
<1>4. "end.Disconnected" \notin Readers \cup Dated
  BY DEF Readers, Granted, Dated, Polls, Openers
<1>5. Carries(a, [op[a] EXCEPT !.pc = "end.Disconnected"])
  BY <1>4, MovingCarries, KindsOfPoints
<1> HIDE DEF s
<1>6. auth.cred # NoCred => Carries(a, s)
  BY <1>1, <1>2, <1>3 DEF Carries, Reads
<1> QED
  BY <1>5, <1>6 DEF Latest, s

\* Steps of one invocation that leave generation and revision as they are.
LEMMA PutKeepsLogin ==
  ASSUME TypeOK, TypeOK', LoginInv, NEW a \in Actors, NEW r,
         op' = Put(a, r), Carries(a, r),
         job' = job \/ (job' = Collected(a) /\ Returned(a) /\ r.pc \notin Dated),
         store' = store, storeFault' = storeFault, loggedOut' = loggedOut, issued' >= issued,
         auth'.gen = auth.gen, auth'.rev = auth.rev, auth'.cred \in {auth.cred, NoCred},
         auth'.pending # NoPending =>
           \/ auth.pending # NoPending
           \/ op[a].pc = "start.reply" /\ op[a].gen = auth.gen /\ auth'.cred = NoCred
  PROVE  LoginInv' /\ Advances /\ LoginMove
<1>1. /\ op'[a] \in {Idle, r} \/ (op'[a] = Bare(r) /\ r.pc \in Between)
      /\ \A b \in Actors \ {a} : op'[b] = op[b]
  <2>1. op \in [Actors -> Op]
    BY OpFields
  <2> QED
    BY <2>1 DEF Put, Advance, Bare, Between
<1>2. \A b \in Actors : Carries(b, op'[b])
  BY <1>1, StayingCarries
<1>3. JobsStay
  <2>1. CASE job' = job
    BY <2>1 DEF JobsStay
  <2>2. CASE job' = Collected(a) /\ Returned(a) /\ r.pc \notin Dated
    <3>1. op'[a].pc \notin Tickets
      BY <1>1, <2>2, IdleHarmless, KindsOfPoints DEF Dated
    <3>2. job \in [Actors -> Job]
      BY DEF TypeOK
    <3> QED
      BY <2>2, <3>1, <3>2 DEF JobsStay, Collected
  <2> QED
    BY <2>1, <2>2
<1>4. auth'.pending # NoPending =>
        auth'.cred = NoCred /\ \A b \in Actors : ~Clears(b)
  <2>1. \A b \in Actors : Clears(b) =>
          auth.pending = NoPending /\ (op[a].gen = auth.gen => op[a].pc # "start.reply")
    BY ClearsAlone
  <2> QED
    BY <2>1, LoginInvNow
<1> QED
  BY <1>2, <1>3, <1>4, CarryingKeeps

\* Where a failed refresh, or a clear that returned, leaves its caller.
LEMMA FailuresCarry ==
  ASSUME TypeOK, TypeOK', LoginInv, issued' >= issued, auth' = auth, NEW a \in Actors
  PROVE  /\ op[a].pc \in Readers =>
              \A kind \in {"transient", "definitive", "permanent"} :
                Carries(a, RefreshFailed(a, kind))
         /\ \A result : Carries(a, ClearReturned(a, result))
<1>1. Carries(a, Idle) /\ Carries(a, Latest(op[a]))
  BY StayingCarries, LatestCarries
<1>2. /\ {"end.Error", "end.AuthRequired", "end.Disconnected", "task.down"}
           \cap (Readers \cup Dated) = {}
      /\ "clear.begin" \in Readers \ (Granted \cup Dated)
  BY DEF Readers, Granted, Dated, Polls, Openers
<1>3. \A pc \in {"end.Error", "end.AuthRequired", "end.Disconnected", "task.down"} :
        Carries(a, [op[a] EXCEPT !.pc = pc])
  BY <1>2, MovingCarries, KindsOfPoints
<1>4. op[a].pc \in Readers =>
        \A why : Carries(a, [op[a] EXCEPT !.pc = "clear.begin", !.why = why])
  BY <1>2, MovingCarries
<1>5. ASSUME op[a].pc \in Readers, NEW kind \in {"transient", "definitive", "permanent"}
      PROVE  Carries(a, RefreshFailed(a, kind))
  BY <1>1, <1>3, <1>4, <1>5 DEF RefreshFailed
<1>6. ASSUME NEW result PROVE Carries(a, ClearReturned(a, result))
  <2>1. Carries(a, [op[a] EXCEPT !.pc = IF auth.gen = op[a].login /\ auth.cred # NoCred
                                        THEN "task.down" ELSE "end.Disconnected"])
    BY <1>3
  <2> QED
    BY <1>1, <1>3, <2>1 DEF ClearReturned
<1> QED
  BY <1>5, <1>6

LEMMA RefreshStepsKeepLogin ==
  ASSUME TypeOK, TypeOK', LoginInv, PollInv, NEW a \in Actors, RefreshStep(a)
  PROVE  LoginInv' /\ Advances /\ LoginMove
<1> DEFINE r == op[a]
<1>1. /\ r \in Op /\ auth \in Auth /\ issued \in Nat /\ issued' \in Nat /\ auth.rev \in Nat
      /\ issued >= issued
  BY OpFields, AuthFields, Numbers, NumbersNext
<1>2. r.rev <= auth.rev /\ r.cred <= issued /\ r.fresh <= issued
  BY LoginInvNow, OpInvNow
<1>3. ASSUME NEW s, LeaveRefresh(a, s) \/ Become(Put(a, s), update)
      PROVE  op' = Put(a, s)
  BY <1>3 DEF LeaveRefresh, Become
<1>4. ASSUME NEW s, Carries(a, s), op' = Put(a, s), auth' = auth, issued' >= issued,
             store' = store, storeFault' = storeFault, loggedOut' = loggedOut,
             job' = job \/ (job' = Collected(a) /\ Returned(a) /\ s.pc \notin Dated)
      PROVE  LoginInv' /\ Advances /\ LoginMove
  BY <1>4, PutKeepsLogin
<1>5. \A kind \in {"transient", "definitive", "permanent"} :
        /\ issued' = issued /\ auth' = auth /\ r.pc \in Readers =>
             Carries(a, RefreshFailed(a, kind))
        /\ RefreshFailed(a, kind).pc \notin Dated
  BY <1>1, FailuresCarry, LeavesUndated
<1>6. CASE TwitchRotates(a)
  <2> DEFINE s == [r EXCEPT !.pc = "refresh.granted", !.fresh = issued + 1]
  <2>1. /\ s.pc = "refresh.granted" /\ SameLogin(s, r) /\ s.fresh = issued + 1
    BY <1>1 DEF Op, SameLogin
  <2>2. /\ r.pc \in Readers /\ s.pc \in Granted /\ issued' = issued + 1
        /\ issued' > issued /\ issued' >= issued /\ s.fresh <= issued'
    BY <1>1, <1>6, <2>1 DEF TwitchRotates, Readers, Granted
  <2>3. op' = Put(a, s) /\ auth' = auth /\ store' = store /\ storeFault' = storeFault
        /\ loggedOut' = loggedOut /\ job' = job
    BY <1>6 DEF TwitchRotates, Become, ghostVars
  <2> HIDE DEF s
  <2>4. Carries(a, s)
    BY <1>2, <2>1, <2>2 DEF Carries, Receives, SameLogin
  <2> QED
    BY <1>4, <2>2, <2>3, <2>4
<1>7. CASE RefreshReplied(a)
  <2>1. /\ issued' = issued /\ auth' = auth /\ store' = store /\ storeFault' = storeFault
        /\ loggedOut' = loggedOut
        /\ job' = job /\ op' = Put(a, [r EXCEPT !.pc = "refresh.check"])
        /\ r.pc = "refresh.granted"
    BY <1>7 DEF RefreshReplied, Goto, Become, ghostVars
  <2>2. /\ r.pc \in Granted \cap Readers
        /\ "refresh.check" \in (Granted \cap Readers) \ Dated
    BY <2>1 DEF Readers, Granted, Dated, Polls, Openers
  <2>3. Carries(a, [r EXCEPT !.pc = "refresh.check"])
    BY <1>1, <2>1, <2>2, MovingCarries
  <2> QED
    BY <1>1, <1>4, <2>1, <2>3
<1>8. CASE RefreshLost(a) \/ RefreshRefused(a) \/ RefreshCheckFailed(a)
  <2>1. /\ issued' = issued /\ auth' = auth /\ store' = store /\ storeFault' = storeFault
        /\ loggedOut' = loggedOut
        /\ job' = job /\ r.pc \in Readers
    BY <1>8 DEF RefreshLost, RefreshRefused, RefreshCheckFailed, ghostVars, Readers, Granted
  <2>2. PICK kind \in {"transient", "definitive", "permanent"} :
          LeaveRefresh(a, RefreshFailed(a, kind))
    BY <1>8 DEF RefreshLost, RefreshRefused, RefreshCheckFailed
  <2> QED
    BY <1>1, <1>3, <1>4, <1>5, <2>1, <2>2
<1>9. CASE RefreshScopeMissing(a)
  <2>1. /\ issued' = issued /\ auth' = auth /\ store' = store /\ storeFault' = storeFault
        /\ loggedOut' = loggedOut
        /\ job' = job /\ r.pc \in Readers
    BY <1>9 DEF RefreshScopeMissing, Readers, Granted
  <2>2. "clear.begin" \in Readers \ (Granted \cup Dated)
    BY DEF Readers, Granted, Dated, Polls, Openers
  <2>3. \A why : Carries(a, [r EXCEPT !.pc = "clear.begin", !.why = why])
    BY <1>1, <2>1, <2>2, MovingCarries
  <2>4. \E s : LeaveRefresh(a, s) /\ Carries(a, s)
    BY <1>5, <1>9, <2>1, <2>3 DEF RefreshScopeMissing
  <2> QED
    BY <1>1, <1>3, <1>4, <2>1, <2>4
<1>10. CASE RefreshCommit(a) /\ ~Matches(r)
  <2>1. /\ issued' = issued /\ auth' = auth /\ store' = store /\ storeFault' = storeFault
        /\ loggedOut' = loggedOut
        /\ job' = job /\ r.pc \in Readers
    BY <1>10 DEF RefreshCommit, Readers, Granted
  <2>2. "task.down" \notin Readers \cup Granted \cup Dated
    BY DEF Readers, Granted, Dated, Polls, Openers
  <2>3. Carries(a, [r EXCEPT !.pc = "task.down"])
    BY <1>1, <2>1, <2>2, MovingCarries
  <2>4. \E s : LeaveRefresh(a, s) /\ Carries(a, s)
    BY <1>5, <1>10, <2>1, <2>3 DEF RefreshCommit
  <2> QED
    BY <1>1, <1>3, <1>4, <2>1, <2>4
<1>11. CASE RefreshCommit(a) /\ Matches(r)
  <2> DEFINE s == [r EXCEPT !.pc = "refresh.save", !.rev = auth.rev + 1, !.cred = r.fresh]
  <2>1. /\ issued' = issued /\ store' = store /\ storeFault' = storeFault /\ loggedOut' = loggedOut
        /\ auth' = [auth EXCEPT !.rev = @ + 1, !.cred = r.fresh]
        /\ job' = Queued(a, "save", auth.gen, auth.rev + 1, r.fresh)
        /\ op' = Put(a, s) /\ r.pc = "refresh.check"
    BY <1>11 DEF RefreshCommit, Become
  <2>2. /\ auth'.gen = auth.gen /\ auth'.rev = auth.rev + 1 /\ auth'.cred = r.fresh
        /\ auth'.pending = auth.pending
    BY <1>1, <2>1 DEF Auth
  <2>3. /\ job'[a] = [kind |-> "save", gen |-> auth'.gen, rev |-> auth'.rev,
                      cred |-> r.fresh, state |-> "queued"]
        /\ \A b \in Actors \ {a} : job'[b] = job[b]
    BY <2>1, <2>2 DEF Queued, TypeOK
  <2>4. /\ s.pc = "refresh.save" /\ s.rev = auth.rev + 1 /\ s.cred = r.fresh
        /\ s.fresh = r.fresh
    BY <1>1 DEF Op
  <2>5. "refresh.save" \notin Readers \cup Dated \cup Between
    BY DEF Readers, Granted, Dated, Polls, Openers, Between, Ends
  <2> HIDE DEF s
  <2>6. op'[a] \in {Idle, s} /\ \A b \in Actors \ {a} : op'[b] = op[b]
    BY <2>1, <2>4, <2>5, OpFields, PutPoint
  <2>7. /\ op'[a].pc \notin Readers \cup Dated /\ op'[a].rev <= auth'.rev
        /\ op'[a].cred <= issued' /\ op'[a].fresh <= issued'
    BY <1>1, <1>2, <2>1, <2>2, <2>4, <2>5, <2>6, IdleHarmless
  <2> QED
    BY <1>11, <2>1, <2>2, <2>3, <2>6, <2>7, InstallKeeps
<1>12. CASE RefreshSaved(a)
  <2>1. /\ issued' = issued /\ auth' = auth /\ store' = store /\ storeFault' = storeFault
        /\ loggedOut' = loggedOut
        /\ job' = Collected(a) /\ Returned(a)
        /\ LeaveRefresh(a, Idle) \/ LeaveRefresh(a, Latest(r))
    BY <1>12 DEF RefreshSaved, ghostVars
  <2>2. /\ Carries(a, Idle) /\ Carries(a, Latest(r))
        /\ Idle.pc \notin Dated /\ Latest(r).pc \notin Dated
    BY <1>1, <2>1, StayingCarries, LatestCarries, LeavesUndated, IdleUndated
  <2> QED
    BY <1>1, <1>3, <1>4, <2>1, <2>2
<1> QED
  BY <1>6, <1>7, <1>8, <1>9, <1>10, <1>11, <1>12 DEF RefreshStep

LEMMA LoginStepsKeepLogin ==
  ASSUME TypeOK, TypeOK', LoginInv, PollInv, GenerationsKnown,
         NEW c \in Commands, LoginStep(c)
  PROVE  LoginInv' /\ Advances /\ LoginMove
<1> DEFINE r == op[c]
<1>1. /\ c \in Actors /\ r \in Op /\ auth \in Auth /\ issued \in Nat /\ issued' \in Nat
      /\ auth.rev \in Nat /\ issued >= issued /\ auth.rev <= auth.rev
  BY ActorKinds, OpFields, AuthFields, Numbers, NumbersNext
<1>2. /\ r.rev <= auth.rev /\ r.cred <= issued /\ r.fresh <= issued
      /\ auth.cred <= issued
  BY <1>1, LoginInvNow, OpInvNow
<1>3. /\ store' = store /\ storeFault' = storeFault /\ loggedOut' = loggedOut
      /\ issued' = issued \/ PollGranted(c)
  BY DEF LoginStep, StartReply, PollGranted, PollPending, PollRefused, PollCheckFailed,
    PollScopeMissing, LogIn, SaveReturned, ValidateLocked, ValidateAccepted,
    ValidateScopeMissing, ValidateFailed, ghostVars
<1>4. ASSUME NEW s, Carries(c, s), op' = Put(c, s), auth' = auth, issued' >= issued,
             job' = job \/ (job' = Collected(c) /\ Returned(c) /\ s.pc \notin Dated)
      PROVE  LoginInv' /\ Advances /\ LoginMove
  BY <1>1, <1>3, <1>4, PutKeepsLogin
<1>5. issued' >= issued => Carries(c, Idle)
  BY <1>1, StayingCarries
<1>6. CASE StartReply(c)
  <2>1. op' = Put(c, Idle) /\ job' = job /\ issued' = issued /\ op[c].pc = "start.reply"
    BY <1>6 DEF StartReply, Finish, Become
  <2>2. CASE auth' = auth
    BY <1>1, <1>4, <1>5, <2>1, <2>2
  <2>3. CASE auth.gen = r.gen /\ auth' = [auth EXCEPT !.cred = NoCred,
               !.pending = [gen |-> r.gen, polling |-> FALSE]]
    <3>1. auth'.gen = auth.gen /\ auth'.rev = auth.rev /\ auth'.cred = NoCred
      BY <1>1, <2>3 DEF Auth
    <3> QED
      BY <1>1, <1>3, <1>5, <2>1, <2>3, <3>1, PutKeepsLogin
  <2> QED
    BY <1>6, <2>2, <2>3 DEF StartReply
<1>7. CASE PollGranted(c)
  <2> DEFINE s == [r EXCEPT !.pc = "poll.check", !.fresh = issued + 1]
  <2>1. /\ auth' = auth /\ job' = job /\ issued' = issued + 1 /\ r.pc = "poll.reply"
        /\ op' = Put(c, Idle) \/ op' = Put(c, s)
    BY <1>7 DEF PollGranted, Finish, Become
  <2>2. issued' > issued /\ issued' >= issued /\ issued + 1 <= issued'
    BY <1>1, <2>1
  <2>3. s.pc = "poll.check" /\ SameLogin(s, r) /\ s.fresh = issued + 1
    BY <1>1 DEF Op, SameLogin
  <2> HIDE DEF s
  <2>4. Carries(c, s)
    BY <1>2, <2>1, <2>2, <2>3 DEF Carries, Receives, SameLogin, Polls
  <2> QED
    BY <1>4, <1>5, <2>1, <2>2, <2>4
<1>8. CASE PollPending(c) \/ PollRefused(c) \/ PollCheckFailed(c) \/ PollScopeMissing(c)
  <2>1. /\ op' = Put(c, Idle) /\ job' = job /\ issued' = issued
        /\ r.pc \in Polls
        /\ \/ auth' = auth
           \/ PendingIsCurrent(r.gen) /\ auth' = [auth EXCEPT !.pending.polling = FALSE]
           \/ auth' = [auth EXCEPT !.pending = NoPending]
           \/ auth' = [auth EXCEPT !.pending = NoPending, !.cred = NoCred]
    BY <1>8 DEF PollPending, PollRefused, PollCheckFailed, PollScopeMissing, Finish,
      Become, Polls
  <2>2. /\ auth'.gen = auth.gen /\ auth'.rev = auth.rev
        /\ auth'.cred \in {auth.cred, NoCred}
        /\ auth'.pending # NoPending => auth.pending # NoPending
    BY <1>1, <2>1 DEF Auth, PendingIsCurrent
  <2> QED
    BY <1>1, <1>3, <1>5, <2>1, <2>2, PutKeepsLogin
<1>9. CASE LogIn(c)
  <2>1. r.pc = "poll.check" /\ issued' = issued
    BY <1>9 DEF LogIn
  <2>2. CASE auth.gen # r.gen
    BY <1>1, <1>4, <1>5, <1>9, <2>1, <2>2 DEF LogIn, Finish, Become
  <2>3. CASE auth.gen = r.gen
    <3> DEFINE s == [r EXCEPT !.pc = "poll.save"]
    <3>1. /\ auth' = [auth EXCEPT !.pending = NoPending, !.rev = @ + 1, !.cred = r.fresh]
          /\ job' = Queued(c, "save", auth.gen, auth.rev + 1, r.fresh)
          /\ op' = Put(c, s)
      BY <1>9, <2>3 DEF LogIn, Goto, Become
    <3>2. /\ auth'.gen = auth.gen /\ auth'.rev = auth.rev + 1 /\ auth'.cred = r.fresh
          /\ auth'.pending = NoPending
      BY <1>1, <3>1 DEF Auth
    <3>3. /\ job'[c] = [kind |-> "save", gen |-> auth'.gen, rev |-> auth'.rev,
                        cred |-> r.fresh, state |-> "queued"]
          /\ \A b \in Actors \ {c} : job'[b] = job[b]
      BY <1>1, <3>1, <3>2 DEF Queued, TypeOK
    <3>4. s.pc = "poll.save" /\ s.rev = r.rev /\ s.cred = r.cred /\ s.fresh = r.fresh
      BY <1>1 DEF Op
    <3>5. "poll.save" \notin Readers \cup Dated \cup Between
      BY DEF Readers, Granted, Dated, Polls, Openers, Between, Ends
    <3> HIDE DEF s
    <3>6. op'[c] \in {Idle, s} /\ \A b \in Actors \ {c} : op'[b] = op[b]
      BY <1>1, <3>1, <3>4, <3>5, OpFields, PutPoint
    <3>7. /\ op'[c].pc \notin Readers \cup Dated /\ op'[c].rev <= auth'.rev
          /\ op'[c].cred <= issued' /\ op'[c].fresh <= issued'
      BY <1>1, <1>2, <2>1, <3>2, <3>4, <3>5, <3>6, IdleHarmless, OpFields
    <3> QED
      BY <1>1, <1>3, <2>1, <2>3, <3>2, <3>3, <3>6, <3>7, InstallKeeps
  <2> QED
    BY <2>2, <2>3
<1>10. CASE SaveReturned(c)
  <2>1. /\ op' = Put(c, Idle) /\ job' = Collected(c) /\ Returned(c)
        /\ issued' = issued /\ auth' = auth
    BY <1>10 DEF SaveReturned, Finish, Become
  <2> QED
    BY <1>1, <1>4, <1>5, <2>1, IdleUndated
<1>11. CASE ValidateLocked(c)
  <2> DEFINE s == [r EXCEPT !.pc = "validate.reply", !.gen = auth.gen, !.rev = auth.rev,
                            !.cred = auth.cred]
  <2>1. /\ job' = job /\ issued' = issued /\ auth' = auth
        /\ op' = Put(c, Idle) \/ (op' = Put(c, s) /\ auth.cred # NoCred)
    BY <1>11 DEF ValidateLocked, Finish, Become
  <2>2. /\ s.pc = "validate.reply" /\ s.gen = auth.gen /\ s.rev = auth.rev
        /\ s.cred = auth.cred /\ s.fresh = r.fresh
    BY <1>1 DEF Op
  <2>3. "validate.reply" \in Readers \ Granted
    BY DEF Readers, Granted
  <2> HIDE DEF s
  <2>4. auth.cred # NoCred => Carries(c, s)
    BY <1>1, <1>2, <2>1, <2>2, <2>3 DEF Carries, Reads
  <2> QED
    BY <1>1, <1>4, <1>5, <2>1, <2>4
<1>12. CASE ValidateAccepted(c)
  <2>1. r.pc = "validate.reply" /\ issued' = issued /\ auth' = auth
    BY <1>12 DEF ValidateAccepted
  <2>2. CASE ~Matches(r)
    BY <1>1, <1>4, <1>5, <1>12, <2>1, <2>2 DEF ValidateAccepted, Finish, Become
  <2>3. CASE Matches(r)
    <3> DEFINE s == [r EXCEPT !.pc = "validate.save"]
    <3>1. /\ job' = Queued(c, "save", auth.gen, auth.rev, auth.cred) /\ op' = Put(c, s)
      BY <1>12, <2>3 DEF ValidateAccepted, Goto, Become
    <3>2. /\ job'[c] = [kind |-> "save", gen |-> auth.gen, rev |-> auth.rev,
                        cred |-> auth.cred, state |-> "queued"]
          /\ \A b \in Actors \ {c} : job'[b] = job[b]
      BY <1>1, <3>1 DEF Queued, TypeOK
    <3>3. s.pc = "validate.save" /\ s.rev = r.rev /\ s.cred = r.cred /\ s.fresh = r.fresh
      BY <1>1 DEF Op
    <3>4. "validate.save" \notin Readers \cup Dated \cup Between
      BY DEF Readers, Granted, Dated, Polls, Openers, Between, Ends
    <3> HIDE DEF s
    <3>5. op'[c] \in {Idle, s} /\ \A b \in Actors \ {c} : op'[b] = op[b]
      BY <1>1, <3>1, <3>3, <3>4, OpFields, PutPoint
    <3>6. /\ op'[c].pc \notin Readers \cup Dated /\ op'[c].rev <= auth.rev
          /\ op'[c].cred <= issued /\ op'[c].fresh <= issued
      BY <1>1, <1>2, <3>3, <3>4, <3>5, IdleHarmless
    <3> QED
      BY <1>1, <1>3, <2>1, <2>3, <3>2, <3>5, <3>6, SavesAgainKeeps
  <2> QED
    BY <2>2, <2>3
<1>13. CASE ValidateScopeMissing(c) \/ ValidateFailed(c)
  <2>1. /\ r.pc = "validate.reply" /\ issued' = issued /\ auth' = auth /\ job' = job
        /\ \/ op' = Put(c, [r EXCEPT !.pc = "clear.begin", !.why = "invalid"])
           \/ op' = Put(c, [r EXCEPT !.pc = "refresh.request"])
    BY <1>13 DEF ValidateScopeMissing, ValidateFailed, Goto, Become
  <2>2. /\ r.pc \in Readers
        /\ {"clear.begin", "refresh.request"} \cap (Granted \cup Dated) = {}
    BY <2>1 DEF Readers, Granted, Dated, Polls, Openers
  <2>3. /\ Carries(c, [r EXCEPT !.pc = "clear.begin", !.why = "invalid"])
        /\ Carries(c, [r EXCEPT !.pc = "refresh.request"])
    BY <1>1, <2>1, <2>2, MovingCarries
  <2> QED
    BY <1>1, <1>4, <2>1, <2>3
<1> QED
  BY <1>6, <1>7, <1>8, <1>9, <1>10, <1>11, <1>12, <1>13 DEF LoginStep

LEMMA ClearStepsKeepLogin ==
  ASSUME TypeOK, TypeOK', LoginInv, PollInv, GenerationsKnown, NEW a \in Actors,
         ClearBegin(a) \/ ClearStored(a)
  PROVE  LoginInv' /\ Advances /\ LoginMove
<1> DEFINE r == op[a]
<1>1. /\ r \in Op /\ auth \in Auth /\ issued \in Nat /\ issued' \in Nat
      /\ auth.rev \in Nat /\ auth.gen \in Nat
      /\ issued >= issued /\ auth.rev <= auth.rev
      /\ store' = store /\ storeFault' = storeFault /\ loggedOut' = loggedOut /\ issued' = issued
      /\ job \in [Actors -> Job]
  BY OpFields, AuthFields, Numbers, NumbersNext DEF ClearBegin, ClearStored, ghostVars, TypeOK
<1>2. /\ r.rev <= auth.rev /\ r.cred <= issued /\ r.fresh <= issued
      /\ auth.cred <= issued
  BY LoginInvNow, OpInvNow
<1>3. ASSUME NEW s, Carries(a, s), LeaveRefresh(a, s) \/ Become(Put(a, s), update),
             auth' = auth, job' = job \/ (job' = Collected(a) /\ Returned(a) /\ s.pc \notin Dated)
      PROVE  LoginInv' /\ Advances /\ LoginMove
  <2>1. op' = Put(a, s)
    BY <1>3 DEF LeaveRefresh, Become
  <2> QED
    BY <1>1, <1>3, <2>1, PutKeepsLogin
<1>4. auth' = auth => \A result : Carries(a, ClearReturned(a, result))
  BY <1>1, FailuresCarry
<1>5. \A result : ClearReturned(a, result).pc \notin Dated
  BY LeavesUndated
<1>6. CASE ClearBegin(a) /\ ~Matches(r)
  BY <1>3, <1>4, <1>6 DEF ClearBegin
<1>7. CASE ClearBegin(a) /\ Matches(r)
  <2> DEFINE s == [r EXCEPT !.pc = "clear.store", !.gen = auth.gen + 1, !.rev = auth.rev + 1]
  <2>1. /\ auth' = Forgotten(auth) /\ op' = Put(a, s)
        /\ job' = Queued(a, "clear", auth.gen + 1, auth.rev + 1, NoCred)
        /\ r.cred = auth.cred
    BY <1>7 DEF ClearBegin, Become, Matches
  <2>2. /\ auth'.gen = auth.gen + 1 /\ auth'.rev = auth.rev + 1
        /\ auth'.cred = NoCred /\ auth'.pending = NoPending
    BY <1>1, <2>1, ForgottenType
  <2>3. /\ job'[a] = [kind |-> "clear", gen |-> auth'.gen, rev |-> auth'.rev,
                      cred |-> NoCred, state |-> "queued"]
        /\ \A b \in Actors \ {a} : job'[b] = job[b]
    BY <1>1, <2>1, <2>2 DEF Queued
  <2>4. /\ s.pc = "clear.store" /\ s.gen = auth.gen + 1 /\ s.rev = auth.rev + 1
        /\ s.cred = r.cred /\ s.fresh = r.fresh
    BY <1>1 DEF Op
  <2>5. "clear.store" \notin Between
    BY DEF Between, Ends
  <2> HIDE DEF s
  <2>6. op'[a] \in {Idle, s} /\ \A b \in Actors \ {a} : op'[b] = op[b]
    BY <2>1, <2>4, <2>5, OpFields, PutPoint
  <2>7. /\ op'[a].pc \in {"clear.store", "idle"} /\ op'[a].cred \in {auth.cred, NoCred}
        /\ op'[a].gen \in {0, auth'.gen} /\ op'[a].rev <= auth'.rev
        /\ op'[a].fresh <= issued'
        /\ op'[a].pc # "idle" => op'[a].gen = auth'.gen /\ op'[a].rev = auth'.rev
    BY <1>1, <1>2, <2>1, <2>2, <2>4, <2>6, IdleHarmless DEF NoCred
  <2>8. JobsBut(a)
    BY <2>3 DEF JobsBut
  <2> QED
    BY <1>1, <2>2, <2>3, <2>6, <2>7, <2>8, NewGenerationKeeps
<1>8. CASE ClearStored(a)
  <2>1. /\ r.pc = "clear.store" /\ job' = Collected(a) /\ Returned(a)
        /\ auth' = auth \/ (job[a].state = "failed" /\ auth' = Restored(r))
        /\ \/ LeaveRefresh(a, [r EXCEPT !.pc = "clear.cancel"])
           \/ Goto(a, "clear.cancel")
           \/ job[a].state # "failed" /\ LeaveRefresh(a, ClearReturned(a, "false"))
           \/ LeaveRefresh(a, ClearReturned(a, "error"))
        /\ job[a].state = "failed" => LeaveRefresh(a, ClearReturned(a, "error"))
    BY <1>8 DEF ClearStored
  <2>2. "clear.cancel" \notin Readers \cup Granted \cup Dated
    BY DEF Readers, Granted, Dated, Polls, Openers
  <2>3. [r EXCEPT !.pc = "clear.cancel"].pc \notin Dated
    BY <1>1, <2>2 DEF Op
  <2>4. CASE auth' = auth
    <3>1. Carries(a, [r EXCEPT !.pc = "clear.cancel"])
      BY <1>1, <2>2, MovingCarries
    <3>2. \E s : /\ Carries(a, s) /\ s.pc \notin Dated
                 /\ LeaveRefresh(a, s) \/ Become(Put(a, s), update)
      BY <1>4, <1>5, <2>1, <2>3, <2>4, <3>1 DEF Goto
    <3> QED
      BY <1>3, <2>1, <2>4, <3>2
  <2>5. CASE auth' # auth
    <3>1. /\ job[a].state = "failed" /\ auth.gen = r.gen /\ auth.rev = r.rev
          /\ auth' = [auth EXCEPT !.cred = r.cred, !.pending = NoPending]
          /\ LeaveRefresh(a, ClearReturned(a, "error"))
      BY <2>1, <2>5 DEF Restored
    <3> DEFINE s == ClearReturned(a, "error")
    <3>2. s = Idle \/ s = [r EXCEPT !.pc = "task.down"]
      BY DEF ClearReturned
    <3>3. op' = Put(a, s)
      BY <3>1 DEF LeaveRefresh, Become
    <3>4. /\ s.pc \notin Readers \cup Dated /\ s.rev <= auth.rev
          /\ s.cred <= issued /\ s.fresh <= issued
      <4>1. "task.down" \notin Readers \cup Dated
        BY DEF Readers, Granted, Dated, Polls, Openers
      <4> QED
        BY <1>1, <1>2, <3>2, <4>1, IdleHarmless DEF Op
    <3> HIDE DEF s
    <3>5. /\ op'[a] \in {Idle, s} \/ (op'[a] = Bare(s) /\ s.pc \in Between)
          /\ \A b \in Actors \ {a} : op'[b] = op[b]
      <4>1. op \in [Actors -> Op]
        BY OpFields
      <4> QED
        BY <3>3, <4>1 DEF Put, Advance, Bare, Between
    <3>6. /\ op'[a].pc \notin Readers \cup Dated /\ op'[a].rev <= auth.rev
          /\ op'[a].cred <= issued /\ op'[a].fresh <= issued
      BY <1>1, <3>4, <3>5, IdleHarmless
    <3>7. job'[a] = NoJob /\ \A b \in Actors \ {a} : job'[b] = job[b]
      BY <1>1, <2>1 DEF Collected
    <3> QED
      BY <1>1, <2>1, <3>1, <3>5, <3>6, <3>7, RestoreKeeps
  <2> QED
    BY <2>4, <2>5
<1> QED
  BY <1>6, <1>7, <1>8

LEMMA PlainStepsKeepLogin ==
  ASSUME TypeOK, TypeOK', LoginInv, PollInv, GenerationsKnown,
         NEW c \in Commands, Plain(c)
  PROVE  LoginInv' /\ Advances /\ LoginMove
<1> DEFINE r == op[c]
<1>1. /\ c \in Actors /\ r \in Op /\ auth \in Auth /\ issued \in Nat /\ issued' \in Nat
      /\ auth.rev \in Nat /\ auth.gen \in Nat
      /\ issued >= issued /\ auth.rev <= auth.rev
      /\ job \in [Actors -> Job]
  BY ActorKinds, OpFields, AuthFields, Numbers, NumbersNext DEF TypeOK
<1>2. store' = store /\ storeFault' = storeFault /\ loggedOut' = loggedOut /\ issued' = issued
  BY DEF Plain, LoginCall, StartAuth, PollAuth, ValidateAuth, Disconnect, Connect, loginVars,
    StopPublish, DisconnectLocked, DisconnectStored, DisconnectPublish, ghostVars
<1>3. /\ r.rev <= auth.rev /\ r.cred <= issued /\ r.fresh <= issued
      /\ auth.cred <= issued
  BY <1>1, LoginInvNow, OpInvNow
<1>4. ASSUME NEW s, Carries(c, s), op' = Put(c, s), auth' = auth,
             job' = job \/ (job' = Collected(c) /\ Returned(c) /\ s.pc \notin Dated)
      PROVE  LoginInv' /\ Advances /\ LoginMove
  BY <1>1, <1>2, <1>4, PutKeepsLogin
<1>5. Carries(c, Idle)
  BY <1>1, <1>2, StayingCarries
<1>6. CASE StartAuth(c) \/ Disconnect(c)
  <2> DEFINE s == [Idle EXCEPT !.pc = "start.reply", !.gen = auth.gen + 1]
             t == [Idle EXCEPT !.pc = "disconnect.lock", !.gen = auth.gen + 1,
                               !.rev = auth.rev + 1, !.cred = auth.cred]
  <2>1. /\ job' = job
        /\ \/ /\ StartAuth(c) /\ op' = Put(c, s) /\ "start" \in Enabled
              /\ auth' = [Invalidated(auth) EXCEPT !.rev = @ + 1]
           \/ Disconnect(c) /\ op' = Put(c, t) /\ auth' = Forgotten(auth)
    BY <1>6 DEF StartAuth, Disconnect, Become, Call
  <2>2. /\ auth'.gen = auth.gen + 1 /\ auth'.rev = auth.rev + 1
        /\ auth'.cred \in {auth.cred, NoCred} /\ auth'.pending = NoPending
        /\ Disconnect(c) => auth'.cred = NoCred \/ op' = Put(c, s)
    <3>1. CASE auth' = Forgotten(auth)
      BY <1>1, <3>1, ForgottenType
    <3>2. CASE op' = Put(c, s) /\ auth' = [Invalidated(auth) EXCEPT !.rev = @ + 1]
      <4>1. /\ Invalidated(auth) \in Auth /\ Invalidated(auth).gen = auth.gen + 1
            /\ Invalidated(auth).rev = auth.rev /\ Invalidated(auth).cred = auth.cred
            /\ Invalidated(auth).pending = NoPending
        BY <1>1, InvalidatedType
      <4> QED
        BY <1>1, <3>2, <4>1 DEF Auth
    <3> QED
      BY <2>1, <3>1, <3>2
  <2>3. /\ s.pc = "start.reply" /\ s.gen = auth.gen + 1 /\ s.rev = 0 /\ s.cred = 0 /\ s.fresh = 0
        /\ t.pc = "disconnect.lock" /\ t.gen = auth.gen + 1 /\ t.rev = auth.rev + 1
        /\ t.cred = auth.cred /\ t.fresh = 0
    BY DEF Idle, NoCred
  <2>4. {"start.reply", "disconnect.lock"} \cap Between = {}
    BY DEF Between, Ends
  <2> HIDE DEF s, t
  <2>5. \A b \in Actors \ {c} : op'[b] = op[b]
    BY <1>1, <2>1, OpFields, PutPoint
  <2>6. \/ op' = Put(c, s) /\ op'[c] \in {Idle, s} /\ "start" \in Enabled
        \/ op' = Put(c, t) /\ op'[c] \in {Idle, t} /\ auth' = Forgotten(auth)
    BY <1>1, <2>1, <2>3, <2>4, OpFields, PutPoint
  <2>7. \/ /\ op'[c].pc \in {"start.reply", "idle"} /\ op'[c].cred = NoCred
           /\ op'[c].gen \in {0, auth'.gen} /\ "start" \in Enabled
        \/ /\ op'[c].pc \in {"disconnect.lock", "idle"}
           /\ op'[c].cred \in {auth.cred, NoCred}
           /\ op'[c].gen \in {0, auth'.gen} /\ auth'.cred = NoCred
    BY <1>1, <2>2, <2>3, <2>6, ForgottenType, IdleHarmless DEF NoCred
  <2>8. /\ op'[c].rev <= auth'.rev /\ op'[c].fresh <= issued'
        /\ op'[c].pc # "idle" => op'[c].gen = auth'.gen
    BY <1>1, <2>2, <2>3, <2>6, IdleHarmless
  <2>9. JobsBut(c)
    BY <2>1 DEF JobsBut
  <2> QED
    BY <1>1, <1>2, <2>1, <2>2, <2>5, <2>7, <2>8, <2>9, NewGenerationKeeps
<1>7. CASE PollAuth(c)
  <2> DEFINE s == [Idle EXCEPT !.pc = "poll.reply", !.gen = auth.pending.gen]
  <2>1. /\ auth.pending # NoPending /\ auth' = [auth EXCEPT !.pending.polling = TRUE]
        /\ op' = Put(c, s) /\ job' = job
    BY <1>7 DEF PollAuth, Become
  <2>2. auth'.gen = auth.gen /\ auth'.rev = auth.rev /\ auth'.cred = auth.cred
    BY <1>1, <2>1 DEF Auth
  <2>3. /\ s.pc = "poll.reply" /\ s.gen = auth.gen /\ s.rev = 0 /\ s.cred = 0 /\ s.fresh = 0
    BY <2>1 DEF Idle, NoCred, PollInv
  <2> HIDE DEF s
  <2>4. Carries(c, s)
    BY <1>1, <1>2, <2>1, <2>3 DEF Carries, StartsPoll
  <2> QED
    BY <1>1, <1>2, <2>1, <2>2, <2>4, PutKeepsLogin
<1>8. CASE ValidateAuth(c) \/ Connect(c) \/ StopPublish(c) \/ DisconnectPublish(c)
  <2> DEFINE s == [Idle EXCEPT !.pc = "connect.reserve", !.login = auth.gen]
  <2>1. /\ auth' = auth /\ job' = job
        /\ op' \in {Put(c, Idle), Put(c, s), Put(c, [r EXCEPT !.pc = "validate.lock"])}
    BY <1>8 DEF ValidateAuth, Connect, StopPublish, DisconnectPublish, loginVars, Finish,
      Goto, Become
  <2>2. /\ s.pc = "connect.reserve" /\ s.rev = 0 /\ s.cred = 0 /\ s.fresh = 0
    BY DEF Idle, NoCred
  <2>3. {"connect.reserve", "validate.lock"} \cap (Readers \cup Granted \cup Dated) = {}
    BY DEF Readers, Granted, Dated, Polls, Openers
  <2> HIDE DEF s
  <2>4. Carries(c, s)
    BY <1>1, <1>2, <2>2, <2>3, HarmlessCarries
  <2>5. Carries(c, [r EXCEPT !.pc = "validate.lock"])
    BY <1>1, <1>2, <2>3, MovingCarries
  <2> QED
    BY <1>4, <1>5, <2>1, <2>4, <2>5
<1>9. CASE DisconnectLocked(c)
  <2> DEFINE s == [r EXCEPT !.pc = "disconnect.store"]
  <2>1. /\ auth' = auth /\ r.pc = "disconnect.lock" /\ op' = Put(c, s)
        /\ job' = Queued(c, "clear", r.gen, r.rev, NoCred)
    BY <1>9 DEF DisconnectLocked, Become
  <2>2. /\ job'[c] = [kind |-> "clear", gen |-> r.gen, rev |-> r.rev,
                      cred |-> NoCred, state |-> "queued"]
        /\ \A b \in Actors \ {c} : job'[b] = job[b]
    BY <1>1, <2>1 DEF Queued
  <2>3. /\ op'[c] = s /\ \A b \in Actors \ {c} : op'[b] = op[b]
    <3>1. s.pc = "disconnect.store" /\ op \in [Actors -> Op]
      BY <1>1, OpFields DEF Op
    <3>2. "disconnect.store" \notin Awaits \cup Between
      BY DEF Awaits, Between, Ends
    <3> HIDE DEF s
    <3> QED
      BY <1>1, <2>1, <3>1, <3>2 DEF Put, Advance, Between
  <2>4. r.gen <= auth.gen
    BY <1>1 DEF GenerationsKnown
  <2> QED
    BY <1>1, <1>2, <2>1, <2>2, <2>3, <2>4, QueuesClearKeeps
<1>10. CASE DisconnectStored(c)
  <2>1. /\ r.pc = "disconnect.store" /\ job' = Collected(c) /\ Returned(c)
        /\ auth' = auth \/ (job[c].state = "failed" /\ auth' = Restored(r))
        /\ op' = Put(c, Idle) \/ op' = Put(c, [r EXCEPT !.pc = "disconnect.cancel"])
        /\ job[c].state = "failed" => op' = Put(c, Idle)
    BY <1>10 DEF DisconnectStored, Finish, Become
  <2>2. "disconnect.cancel" \notin Readers \cup Granted \cup Dated
    BY DEF Readers, Granted, Dated, Polls, Openers
  <2>3. CASE auth' = auth
    <3>1. /\ Carries(c, [r EXCEPT !.pc = "disconnect.cancel"])
          /\ [r EXCEPT !.pc = "disconnect.cancel"].pc \notin Dated
      BY <1>1, <1>2, <2>2, MovingCarries DEF Op
    <3> QED
      BY <1>4, <1>5, <2>1, <2>3, <3>1, IdleUndated
  <2>4. CASE auth' # auth
    <3>1. /\ job[c].state = "failed" /\ auth.gen = r.gen /\ auth.rev = r.rev
          /\ op' = Put(c, Idle)
          /\ auth' = [auth EXCEPT !.cred = r.cred, !.pending = NoPending]
      BY <2>1, <2>4 DEF Restored
    <3>2. op'[c] = Idle /\ \A b \in Actors \ {c} : op'[b] = op[b]
      BY <1>1, <3>1, OpFields, IdleType, PutPoint DEF Between, Ends
    <3>3. job'[c] = NoJob /\ \A b \in Actors \ {c} : job'[b] = job[b]
      BY <1>1, <2>1 DEF Collected
    <3>4. /\ op'[c].pc \notin Readers \cup Dated /\ op'[c].rev <= auth.rev
          /\ op'[c].cred <= issued /\ op'[c].fresh <= issued
      BY <1>1, <3>2, IdleHarmless
    <3> QED
      BY <1>1, <1>2, <2>1, <3>1, <3>2, <3>3, <3>4, RestoreKeeps
  <2> QED
    BY <2>3, <2>4
<1> QED
  BY <1>6, <1>7, <1>8, <1>9, <1>10 DEF Plain, LoginCall

LEMMA TaskStepsKeepLogin ==
  ASSUME TypeOK, TypeOK', LoginInv, NEW g \in Tasks, TaskStep(g)
  PROVE  LoginInv' /\ Advances /\ LoginMove
<1> DEFINE r == op[g]
<1>1. /\ g \in Actors /\ r \in Op /\ issued \in Nat /\ auth.rev \in Nat
      /\ issued >= issued /\ auth.rev <= auth.rev
  BY ActorKinds, OpFields, Numbers
<1>2. /\ auth' = auth /\ store' = store /\ storeFault' = storeFault /\ job' = job /\ issued' = issued
      /\ loggedOut' = loggedOut
  BY DEF TaskStep, TaskLookup, TaskFound, TaskBegin, TaskSocketFails, TaskWelcome,
    TaskSent, TaskLocked, TaskConnected, TaskFrame, Dispatch, TaskRevoked, TaskSwitch,
    TaskSwitched, TaskDrops, TaskDown, TaskAwakes, TaskEnd, Moves, Publishes, loginVars,
    ghostVars
<1>3. /\ r.rev <= auth.rev /\ r.cred <= issued /\ r.fresh <= issued
      /\ auth.cred <= issued
  BY <1>1, LoginInvNow, OpInvNow
<1> DEFINE Calm == {"task.found", "end.Error", "task.begin", "task.socket",
             "task.down", "end.AuthRequired", "end.Disconnected", "task.connected",
             "task.live", "task.frame", "task.handover", "task.overlap",
             "task.switch", "task.sleep", "idle"}
<1>4. ASSUME NEW s, Carries(g, s), op' = Put(g, s)
      PROVE  LoginInv' /\ Advances /\ LoginMove
  BY <1>1, <1>2, <1>4, PutKeepsLogin
<1>5. \A pc \in Calm : Carries(g, [r EXCEPT !.pc = pc])
  <2>1. Calm \cap (Readers \cup Granted \cup Dated) = {}
    BY DEF Readers, Granted, Dated, Polls, Openers
  <2> HIDE DEF Calm
  <2> QED
    BY <1>1, <1>2, <2>1, MovingCarries
<1>6. ASSUME NEW pc \in Calm, Goto(g, pc) PROVE LoginInv' /\ Advances /\ LoginMove
  <2>1. op' = Put(g, [r EXCEPT !.pc = pc])
    BY <1>6 DEF Goto, Become
  <2> QED
    BY <1>4, <1>5, <2>1
<1>7. Carries(g, Idle)
  BY <1>1, <1>2, StayingCarries
<1>8. CASE \/ TaskLookup(g) \/ TaskBegin(g) \/ TaskSocketFails(g) \/ TaskConnected(g)
           \/ TaskFrame(g) \/ Dispatch(g)
  BY <1>6, <1>8 DEF TaskLookup, TaskBegin, TaskSocketFails, TaskConnected,
    TaskFrame, Dispatch, Moves, Publishes
<1>9. CASE \/ TaskRevoked(g) \/ TaskSwitch(g) \/ TaskSwitched(g) \/ TaskDrops(g)
           \/ TaskDown(g) \/ TaskAwakes(g) \/ TaskEnd(g)
  BY <1>6, <1>9 DEF TaskRevoked, TaskSwitch, TaskSwitched, TaskDrops, TaskDown,
    TaskAwakes, TaskEnd, Moves, Publishes
<1>10. CASE TaskFound(g)
  BY <1>4, <1>6, <1>7, <1>10 DEF TaskFound, Finish, Become
<1>11. CASE TaskWelcome(g)
  <2> DEFINE s == [r EXCEPT !.pc = "task.send", !.gen = auth.gen, !.rev = auth.rev,
                            !.cred = auth.cred, !.second = FALSE]
  <2>1. /\ s.pc = "task.send" /\ s.gen = auth.gen /\ s.rev = auth.rev
        /\ s.cred = auth.cred /\ s.fresh = r.fresh
    BY <1>1 DEF Op
  <2>2. "task.send" \in Readers \ Granted
    BY DEF Readers, Granted
  <2>3. \/ op' = Put(g, [r EXCEPT !.pc = "task.down"])
        \/ op' = Put(g, [r EXCEPT !.pc = "end.Disconnected"])
        \/ op' = Put(g, s) /\ auth.cred # NoCred
    BY <1>11 DEF TaskWelcome, Become
  <2> HIDE DEF s
  <2>4. auth.cred # NoCred => Carries(g, s)
    BY <1>1, <1>2, <1>3, <2>1, <2>2 DEF Carries, Reads
  <2> QED
    BY <1>4, <1>5, <2>3, <2>4
<1>12. CASE TaskSent(g)
  <2>1. r.pc \in Readers /\ {"task.lock", "clear.begin"} \cap (Granted \cup Dated) = {}
    BY <1>12 DEF TaskSent, Readers, Granted, Dated, Polls, Openers
  <2>2. /\ Carries(g, [r EXCEPT !.pc = "task.lock"])
        /\ Carries(g, [r EXCEPT !.pc = "clear.begin", !.why = "rejected"])
    BY <1>1, <1>2, <2>1, MovingCarries
  <2>3. op' \in {Put(g, [r EXCEPT !.pc = "task.connected"]),
                 Put(g, [r EXCEPT !.pc = "end.Error"]),
                 Put(g, [r EXCEPT !.pc = "task.down"]),
                 Put(g, [r EXCEPT !.pc = "task.lock"]),
                 Put(g, [r EXCEPT !.pc = "clear.begin", !.why = "rejected"])}
    BY <1>12 DEF TaskSent, Goto, Become
  <2> QED
    BY <1>4, <1>5, <2>2, <2>3
<1>13. CASE TaskLocked(g)
  <2>1. r.pc \in Readers /\ "refresh.request" \notin Granted \cup Dated
    BY <1>13 DEF TaskLocked, Readers, Granted, Dated, Polls, Openers
  <2>2. Carries(g, [r EXCEPT !.pc = "refresh.request"]) /\ Carries(g, Latest(r))
    BY <1>1, <1>2, <2>1, MovingCarries, LatestCarries
  <2>3. op' \in {Put(g, [r EXCEPT !.pc = "task.down"]),
                 Put(g, [r EXCEPT !.pc = "end.Disconnected"]),
                 Put(g, [r EXCEPT !.pc = "refresh.request"]), Put(g, Latest(r))}
    BY <1>13 DEF TaskLocked, Goto, Become
  <2> QED
    BY <1>4, <1>5, <2>2, <2>3
<1> QED
  BY <1>8, <1>9, <1>10, <1>11, <1>12, <1>13 DEF TaskStep

\* Steps that leave auth, jobs and keyring alone, and whose invocations go on.
LEMMA AllCarryingKeeps ==
  ASSUME TypeOK, TypeOK', LoginInv,
         auth' = auth, job' = job, store' = store, storeFault' = storeFault,
         loggedOut' = loggedOut, issued' = issued,
         \A b \in Actors : Carries(b, op'[b])
  PROVE  LoginInv' /\ Advances /\ LoginMove
<1>1. issued' >= issued
  BY Numbers
<1>2. JobsStay
  BY DEF JobsStay
<1>3. auth'.pending # NoPending =>
        auth'.cred = NoCred /\ \A b \in Actors : ~Clears(b)
  BY LoginInvNow DEF ClearInv
<1> QED
  BY <1>1, <1>2, <1>3, CarryingKeeps

\* Aborting a task drops what it was at, or leaves it for the next await.
LEMMA AbortingCarries ==
  ASSUME TypeOK, TypeOK', LoginInv, issued' = issued, NEW a \in Actors, NEW s \in Op,
         Carries(a, s), s.pc \notin Readers \cup Dated, NEW g
  PROVE  \A b \in Actors : Carries(b, Aborted(Put(a, s), g)[b])
<1> DEFINE p == Put(a, s)
<1>1. issued' >= issued
  BY Numbers
<1>2. /\ p \in [Actors -> Op]
      /\ p[a] \in {Idle, s} \/ (p[a] = Bare(s) /\ s.pc \in Between)
      /\ \A b \in Actors \ {a} : p[b] = op[b]
  <2>1. op \in [Actors -> Op]
    BY OpFields
  <2>2. p[a] \in {Idle, s} \/ (p[a] = Bare(s) /\ s.pc \in Between)
    BY <2>1 DEF Put, Advance, Bare, Between
  <2> QED
    BY <2>1, <2>2, PutType
<1>3. /\ p[a].pc \notin Readers \cup Dated /\ p[a].rev <= auth.rev
      /\ p[a].cred <= issued /\ p[a].fresh <= issued'
  BY <1>2, StayingCarries, IdleHarmless, Numbers, NumbersNext DEF Carries
<1> HIDE DEF p
<1>4. \A b \in Actors : Carries(b, p[b]) /\ Carries(b, [p[b] EXCEPT !.alive = FALSE])
  <2> TAKE b \in Actors
  <2>1. CASE b = a
    <3>1. p[a] \in Op
      BY <1>2
    <3>2. /\ [p[a] EXCEPT !.alive = FALSE].pc = p[a].pc
          /\ [p[a] EXCEPT !.alive = FALSE].rev = p[a].rev
          /\ [p[a] EXCEPT !.alive = FALSE].cred = p[a].cred
          /\ [p[a] EXCEPT !.alive = FALSE].fresh = p[a].fresh
      BY <3>1 DEF Op
    <3> QED
      BY <1>3, <2>1, <3>2, HarmlessCarries
  <2>2. CASE b # a
    BY <1>1, <1>2, <2>2, StayingCarries
  <2> QED
    BY <2>1, <2>2
<1>5. \A b \in Actors : Aborted(p, g)[b] \in {Idle, p[b], [p[b] EXCEPT !.alive = FALSE]}
  <2> TAKE b \in Actors
  <2> DEFINE t == IF p[g].pc \in Awaits THEN Idle
                  ELSE IF p[g].pc = "idle" THEN p[g]
                  ELSE [p[g] EXCEPT !.alive = FALSE]
  <2>1. t \in {Idle, p[g], [p[g] EXCEPT !.alive = FALSE]}
    OBVIOUS
  <2>2. Aborted(p, g) = p \/ Aborted(p, g) = [p EXCEPT ![g] = t]
    BY DEF Aborted
  <2> HIDE DEF t
  <2>3. Aborted(p, g)[b] = p[b] \/ (b = g /\ Aborted(p, g)[b] = t)
    BY <1>2, <2>2
  <2> QED
    BY <2>1, <2>3
<1> QED
  BY <1>1, <1>4, <1>5, StayingCarries DEF p

\* The steps of the connection leave credentials alone.
LEMMA ChatStepsKeepLogin ==
  ASSUME TypeOK, TypeOK', LoginInv, NEW a \in Actors,
         \/ ClearCancel(a)
         \/ /\ a \in Commands
            /\ \/ DisconnectCancel(a) \/ Stop(a) \/ ConnectReserve(a)
               \/ ConnectRegister(a) \/ ConnectPublish(a) \/ ConnectGo(a)
  PROVE  LoginInv' /\ Advances /\ LoginMove
<1>1. /\ op[a] \in Op /\ owner.gen + 1 \in Nat /\ op[a].login \in Nat
      /\ op \in [Actors -> Op] /\ auth.rev \in Nat /\ issued \in Nat /\ issued >= issued
  BY OpFields, ConnectionFields, Numbers
<1>2. /\ auth' = auth /\ job' = job /\ store' = store /\ storeFault' = storeFault
      /\ loggedOut' = loggedOut
      /\ issued' = issued
  BY DEF ClearCancel, DisconnectCancel, Stop, ConnectReserve, ConnectRegister,
    ConnectPublish, ConnectGo, loginVars, ghostVars
<1>3. \A b \in Actors : Carries(b, op[b]) /\ Carries(b, Idle)
  BY <1>1, <1>2, StayingCarries
<1>4. /\ {"clear.cancel", "disconnect.publish", "stop.publish", "connect.register",
          "connect.publish", "connect.go", "end.AuthRequired", "task.wait",
          "task.lookup"} \cap (Readers \cup Granted \cup Dated) = {}
      /\ {"disconnect.publish", "stop.publish", "connect.register",
          "end.AuthRequired"} \subseteq Points
  BY DEF Readers, Granted, Dated, Polls, Openers, Points, Ends
<1>5. ASSUME \A b \in Actors : Carries(b, op'[b]) PROVE LoginInv' /\ Advances /\ LoginMove
  BY <1>2, <1>5, AllCarryingKeeps
<1>6. ASSUME NEW s \in Op, Carries(a, s), s.pc \notin Readers \cup Dated, NEW g
      PROVE  \A b \in Actors : Carries(b, Aborted(Put(a, s), g)[b])
  BY <1>2, <1>6, AbortingCarries
<1>7. CASE ConnectPublish(a)
  <2>1. op' = Put(a, [op[a] EXCEPT !.pc = "connect.go"])
    BY <1>7 DEF ConnectPublish, Goto, Become
  <2>2. Carries(a, [op[a] EXCEPT !.pc = "connect.go"])
    BY <1>1, <1>2, <1>4, MovingCarries
  <2> QED
    BY <1>1, <1>2, <2>1, <2>2, PutKeepsLogin
<1>8. CASE ClearCancel(a)
  <2> DEFINE s == ClearReturned(a, "true")
  <2>1. s = Idle \/ s = [op[a] EXCEPT !.pc = "end.AuthRequired"]
    BY DEF ClearReturned
  <2>2. s \in Op /\ s.pc \notin Readers \cup Dated
    <3>1. [op[a] EXCEPT !.pc = "end.AuthRequired"] \in Op
      BY <1>1, <1>4 DEF Op
    <3>2. [op[a] EXCEPT !.pc = "end.AuthRequired"].pc = "end.AuthRequired"
      BY <1>1 DEF Op
    <3> QED
      BY <1>4, <2>1, <3>1, <3>2, IdleType, IdleHarmless
  <2>3. Carries(a, s)
    BY <1>1, <1>2, FailuresCarry
  <2>4. op' = Aborted(Put(a, s), owner.conn)
    BY <1>8 DEF ClearCancel, Become
  <2> HIDE DEF s
  <2> QED
    BY <1>5, <1>6, <2>2, <2>3, <2>4
<1>9. CASE DisconnectCancel(a) \/ Stop(a)
  <2> DEFINE r == [op[a] EXCEPT !.pc = "disconnect.publish", !.conn = owner.gen + 1]
             s == [Idle EXCEPT !.pc = "stop.publish", !.conn = owner.gen + 1]
  <2>1. r \in Op /\ r.pc = "disconnect.publish"
    BY <1>1, <1>4 DEF Op
  <2>2. /\ s \in Op /\ s.pc = "stop.publish" /\ s.rev = 0 /\ s.cred = 0 /\ s.fresh = 0
    BY <1>1, <1>4, IdleType, IdleHarmless DEF Op
  <2>3. Carries(a, r)
    BY <1>1, <1>2, <1>4, MovingCarries
  <2>4. op' = Aborted(Put(a, r), owner.conn) \/ op' = Aborted(Put(a, s), owner.conn)
    BY <1>9 DEF DisconnectCancel, Stop, Become
  <2> HIDE DEF r, s
  <2>5. Carries(a, s)
    BY <1>1, <1>2, <1>4, <2>2, HarmlessCarries
  <2> QED
    BY <1>4, <1>5, <1>6, <2>1, <2>2, <2>3, <2>4, <2>5
<1>10. CASE ConnectReserve(a)
  <2> DEFINE r == [op[a] EXCEPT !.pc = "connect.register", !.conn = owner.gen + 1]
             o == Aborted(Put(a, r), owner.conn)
             task == [Idle EXCEPT !.pc = "task.wait", !.login = op[a].login]
  <2>1. r \in Op /\ r.pc = "connect.register"
    BY <1>1, <1>4 DEF Op
  <2>2. task.pc = "task.wait" /\ task.rev = 0 /\ task.cred = 0 /\ task.fresh = 0
    BY DEF Idle, NoCred
  <2>3. Carries(a, r)
    BY <1>1, <1>2, <1>4, MovingCarries
  <2>4. op' = [o EXCEPT ![owner.gen + 1] = task]
    BY <1>10 DEF ConnectReserve, Become
  <2>5. o \in [Actors -> Op]
    <3> HIDE DEF r
    <3> QED
      BY <1>1, <2>1, PutType, AbortedType
  <2> HIDE DEF task
  <2>6. \A b \in Actors : Carries(b, task)
    BY <1>1, <1>2, <1>4, <2>2, HarmlessCarries
  <2>7. \A b \in Actors : Carries(b, o[b])
    <3> HIDE DEF r
    <3> QED
      BY <1>4, <1>6, <2>1, <2>3
  <2> HIDE DEF o
  <2>8. \A b \in Actors : op'[b] = o[b] \/ op'[b] = task
    BY <2>4, <2>5
  <2> QED
    BY <1>5, <2>6, <2>7, <2>8
<1>11. CASE ConnectRegister(a)
  <2>1. Carries(a, [op[a] EXCEPT !.pc = "connect.publish"])
    BY <1>1, <1>2, <1>4, MovingCarries
  <2>2. CASE op' = Put(a, [op[a] EXCEPT !.pc = "connect.publish"])
    BY <1>1, <1>2, <2>1, <2>2, PutKeepsLogin
  <2>3. CASE op' = Aborted(Put(a, Idle), op[a].conn)
    BY <1>3, <1>5, <1>6, <2>3, IdleType, IdleHarmless
  <2> QED
    BY <1>11, <2>2, <2>3 DEF ConnectRegister, Goto, Become
<1>12. CASE a \in Commands /\ ConnectGo(a)
  <2> DEFINE g == op[a].conn
             s == [op[g] EXCEPT !.pc = IF @ = "task.wait" THEN "task.lookup" ELSE @]
  <2>1. op' = [op EXCEPT ![a] = Idle,
                         ![g].pc = IF @ = "task.wait" THEN "task.lookup" ELSE @]
    BY <1>12 DEF ConnectGo, Become
  <2>2. g # a
    BY <1>12, ActorKinds, OpFields DEF ConnectGo
  <2>3. op' = [[op EXCEPT ![a] = Idle] EXCEPT ![g] = s]
    BY <1>1, <2>1, <2>2
  <2>4. g \in Actors => s = op[g] \/ s = [op[g] EXCEPT !.pc = "task.lookup"]
    BY <1>1 DEF Op
  <2>5. \A b \in Actors : Carries(b, [op[b] EXCEPT !.pc = "task.lookup"])
    BY <1>1, <1>2, <1>4, MovingCarries
  <2> HIDE DEF s
  <2>6. g \in Actors => Carries(g, s)
    BY <1>3, <2>4, <2>5
  <2> HIDE DEF g
  <2>7. \A b \in Actors : op'[b] \in {op[b], Idle} \/ (b = g /\ op'[b] = s)
    BY <1>1, <2>3
  <2> QED
    BY <1>3, <1>5, <2>6, <2>7
<1> QED
  BY <1>7, <1>8, <1>9, <1>10, <1>11, <1>12

LEMMA StepKeepsLogin ==
  ASSUME ChatInv, PollInv, LoginInv, [Next]_vars
  PROVE  LoginInv' /\ [Advances]_vars /\ [LoginMove]_vars
<1>1. TypeOK /\ TypeOK' /\ GenerationsKnown /\ Tasks \subseteq Actors
  BY StepKeeps, ActorKinds DEF ChatInv
<1>2. CASE UNCHANGED vars
  BY <1>2 DEF vars, LoginInv, OpInv, JobInv, ClearInv, Clears, Floor, Matches, JobIsCurrent
<1>3. CASE Next
  <2>1. LoginInv' /\ Advances /\ LoginMove
    BY <1>1, <1>3, NextSteps, JobStepsKeepLogin, RefreshStepsKeepLogin, LoginStepsKeepLogin,
      ClearStepsKeepLogin, PlainStepsKeepLogin, TaskStepsKeepLogin, ChatStepsKeepLogin,
      StartsWithStored, ActorKinds
  <2> QED
    BY <2>1
<1> QED
  BY <1>2, <1>3

\* What LoginInv says of credentials, of those who work on them and of the
\* jobs that write them holds whatever happens, across restarts as well.
THEOREM LoginInvariance == Spec => [](ChatInv /\ PollInv /\ LoginInv)
<1>1. Init => LoginInv
  BY StartsWithStored
<1>2. ChatInv /\ PollInv /\ LoginInv /\ [Next]_vars => LoginInv'
  BY StepKeepsLogin
<1> QED
  BY <1>1, <1>2, PollInvariance, PTL DEF Spec

\* However polls, refreshes, validations, saves and clears cross, a credential
\* that a successful clear removed is never installed or stored again
\* (auth_store.rs, save_if_current_sync and clear_if_current_sync).
THEOREM LogoutIsFinal == Spec => []LoggedOutStaysOut
<1>1. LoginInv => LoggedOutStaysOut
  BY DEF LoginInv, Floor, LoggedOutStaysOut
<1> QED
  BY <1>1, LoginInvariance, PTL

\* Neither memory nor the keyring ever goes back to an older credential
\* (auth_service.rs, persist_credential_rotation and the revisions).
THEOREM NoCredentialReturns == Spec => CredentialsOnlyAdvance
<1>1. ChatInv /\ PollInv /\ LoginInv /\ [Next]_vars => [Advances]_vars
  BY StepKeepsLogin
<1> QED
  BY <1>1, LoginInvariance, PTL DEF Spec, CredentialsOnlyAdvance, Advances

-----------------------------------------------------------------------------
(***************************************************************************)
(* Refresh tokens.                                                         *)
(***************************************************************************)
\* Where an invocation is about to present a refresh token, where it holds the
\* update lock for it, and where it holds a successor that is not installed.
Requests == {"validate.reply", "refresh.request"}
Locked == Requests \cup Granted
Successors == Granted \cup {"poll.check"}
Watched == Locked \cup Successors \cup Tickets

\* Twitch still takes x, or is known not to because its successor was lost, or
\* a refresh that spent x is under way.
Kept(x) ==
  \/ x \in valid \cup spoiled
  \/ \E b \in Actors : op[b].pc \in Granted /\ op[b].cred = x

\* Nobody but a knows of x.
Unseen(x, a) ==
  /\ x # NoCred /\ auth.cred # x
  /\ \A b \in Actors : op[b].cred # x
  /\ \A b \in Actors \ {a} : op[b].pc \in Successors => op[b].fresh # x

TokenInv(a) ==
  LET r == op[a] IN
  /\ r.pc \in Locked => update = a
  /\ r.pc \in Granted \cup {"refresh.request"} => r.alive
  /\ r.pc \in Requests => r.cred \in valid \cup spoiled
  /\ r.pc \in Tickets /\ r.gen = auth.gen /\ r.cred # NoCred => Kept(r.cred)
  /\ r.pc \in Successors => r.fresh \in valid /\ Unseen(r.fresh, a)

SpentInv ==
  /\ auth.cred # NoCred => Kept(auth.cred)
  /\ \A a \in Actors : TokenInv(a)

LEMMA KindsOfTokenPoints ==
  /\ Granted \subseteq Locked \cap Successors \cap Awaits /\ Granted \subseteq Readers
  /\ Requests \subseteq Locked /\ Locked \cup Successors \cup Tickets = Watched
  /\ Watched \cap Between = {} /\ "idle" \notin Watched
  /\ Requests \cap (Successors \cup Tickets) = {} /\ Successors \cap Tickets = {}
  /\ "refresh.request" \in Requests \cap Awaits /\ "poll.check" \notin Locked
BY DEF Requests, Locked, Successors, Watched, Granted, Tickets, Awaits, Between, Ends, Readers

\* What TokenInv says now.
LEMMA TokenInvNow ==
  ASSUME SpentInv, NEW a \in Actors
  PROVE  /\ op[a].pc \in Locked => update = a
         /\ op[a].pc \in Granted \cup {"refresh.request"} => op[a].alive
         /\ op[a].pc \in Requests => op[a].cred \in valid \cup spoiled
         /\ op[a].pc \in Tickets /\ op[a].gen = auth.gen /\ op[a].cred # NoCred =>
              Kept(op[a].cred)
         /\ op[a].pc \in Successors => op[a].fresh \in valid /\ Unseen(op[a].fresh, a)
BY DEF SpentInv, TokenInv

\* Kept after the step.
KeptNext(x) ==
  \/ x \in valid' \cup spoiled'
  \/ \E b \in Actors : op'[b].pc \in Granted /\ op'[b].cred = x

\* Where an invocation may be next.  It knows the credential it had, or the one
\* that is installed; a successor it holds it held before, or Twitch has just
\* issued it; and it does not let go of a rotation without a trace.
Handles(b, s) ==
  /\ s.cred \in {op[b].cred, auth.cred, NoCred}
  /\ s.pc \in Requests => s.cred \in valid' \cup spoiled'
  /\ s.pc \in Tickets /\ s.gen = auth'.gen =>
       \/ op[b].pc \in Tickets /\ op[b].gen = auth.gen /\ s.cred = op[b].cred
       \/ s.cred \in {auth.cred, NoCred}
  /\ s.pc \in Successors =>
       \/ op[b].pc \in Successors /\ s.fresh = op[b].fresh
       \/ s.fresh = issued' /\ issued' > issued /\ issued' \in valid'
  /\ op[b].pc \in Granted =>
       \/ s.pc \in Granted /\ s.cred = op[b].cred
       \/ op[b].cred \in spoiled'

LEMMA HandlingKeeps ==
  ASSUME TypeOK, TypeOK', LoginInv, SpentInv, issued' >= issued,
         spoiled \subseteq spoiled', \A x \in valid : KeptNext(x),
         \A b \in Actors : op[b].pc \in Successors => op[b].fresh \in valid',
         \/ auth'.cred \in {auth.cred, NoCred}
         \/ \E b \in Actors : /\ op[b].pc \in Tickets /\ op[b].gen = auth.gen
                              /\ auth'.cred = op[b].cred,
         \A b \in Actors : Handles(b, op'[b]),
         \A b \in Actors : op'[b].pc \in Locked => update' = b,
         \A b \in Actors : op'[b].pc \in Granted \cup {"refresh.request"} => op'[b].alive,
         \A b, c \in Actors : (/\ op'[b].pc \in Successors /\ op'[c].pc \in Successors
                               /\ op'[b].fresh > issued /\ op'[c].fresh > issued) => b = c
  PROVE  SpentInv'
<1>1. /\ auth.cred \in Nat /\ issued \in Nat /\ issued' \in Nat
      /\ auth.cred <= issued
      /\ \A b \in Actors : /\ op[b].cred \in Nat /\ op[b].cred <= issued
                           /\ op[b].fresh \in Nat /\ op[b].fresh <= issued
                           /\ op'[b].fresh \in Nat
  BY Numbers, NumbersNext, LoginInvNow, OpInvNow
<1>2. ASSUME NEW x, Kept(x) PROVE KeptNext(x)
  <2>1. CASE x \in valid \cup spoiled
    BY <2>1 DEF KeptNext
  <2>2. CASE \E b \in Actors : op[b].pc \in Granted /\ op[b].cred = x
    BY <2>2 DEF KeptNext, Handles
  <2> QED
    BY <1>2, <2>1, <2>2 DEF Kept
<1>3. auth.cred # NoCred => Kept(auth.cred)
  BY DEF SpentInv
<1>4. auth'.cred # NoCred => KeptNext(auth'.cred)
  BY <1>2, <1>3, TokenInvNow
\* Nobody else has come to know a successor.
<1>5. ASSUME NEW b \in Actors, op[b].pc \in Successors, NEW x, x = op[b].fresh
      PROVE  /\ x # NoCred /\ auth.cred # x /\ auth'.cred # x
             /\ \A c \in Actors : op'[c].cred # x
             /\ \A c \in Actors \ {b} : op'[c].pc \in Successors => op'[c].fresh # x
  <2>1. /\ x # NoCred /\ auth.cred # x
        /\ \A c \in Actors : op[c].cred # x
        /\ \A c \in Actors \ {b} : op[c].pc \in Successors => op[c].fresh # x
    BY <1>5, TokenInvNow DEF Unseen
  <2>2. auth'.cred # x
    BY <2>1
  <2>3. \A c \in Actors : op'[c].cred # x
    BY <2>1 DEF Handles
  <2>4. \A c \in Actors \ {b} : op'[c].pc \in Successors => op'[c].fresh # x
    BY <1>1, <1>5, <2>1 DEF Handles
  <2> QED
    BY <2>1, <2>2, <2>3, <2>4
\* Nobody knew the one that Twitch has just issued.
<1>6. ASSUME NEW b \in Actors, op'[b].pc \in Successors, op'[b].fresh = issued',
             issued' > issued, NEW x, x = issued'
      PROVE  /\ x # NoCred /\ auth'.cred # x
             /\ \A c \in Actors : op'[c].cred # x
             /\ \A c \in Actors \ {b} : op'[c].pc \in Successors => op'[c].fresh # x
  <2>1. x \in Nat /\ x > 0 /\ x > auth.cred /\ \A c \in Actors : x > op[c].cred
    BY <1>1, <1>6
  <2>2. x # NoCred /\ auth'.cred # x
    BY <1>1, <2>1 DEF NoCred
  <2>3. \A c \in Actors : op'[c].cred # x
    BY <1>1, <2>1, <2>2 DEF Handles, NoCred
  <2> QED
    BY <1>6, <2>2, <2>3
<1>7. ASSUME NEW a \in Actors PROVE TokenInv(a)'
  <2>1. op'[a].pc \in Successors =>
          /\ op'[a].fresh \in valid' /\ op'[a].fresh # NoCred /\ auth'.cred # op'[a].fresh
          /\ \A c \in Actors : op'[c].cred # op'[a].fresh
          /\ \A c \in Actors \ {a} :
               op'[c].pc \in Successors => op'[c].fresh # op'[a].fresh
    BY <1>5, <1>6 DEF Handles
  <2>2. op'[a].pc \in Requests => op'[a].cred \in valid' \cup spoiled'
    BY DEF Handles
  <2>3. op'[a].pc \in Tickets /\ op'[a].gen = auth'.gen /\ op'[a].cred # NoCred =>
          KeptNext(op'[a].cred)
    BY <1>2, <1>3, TokenInvNow DEF Handles
  <2> QED
    BY <2>1, <2>2, <2>3 DEF TokenInv, Unseen, Kept, KeptNext
<1> QED
  BY <1>4, <1>7 DEF SpentInv, Kept, KeptNext

\* Whoever holds the update lock for a refresh keeps it when another one moves.
LEMMA LockStays ==
  ASSUME TypeOK, SpentInv, NEW a \in Actors, NEW holder, NEW o, Become(o, holder),
         holder \in {update, Released(a)} \/ update = NoActor,
         NEW b \in Actors, op[b].pc \in Locked, o[b].pc = op[b].pc, b # a
  PROVE  update' = b
<1>1. update = b /\ b # NoActor
  BY TokenInvNow, TwitchAssumption
<1>2. holder = b
  BY <1>1 DEF Released
<1>3. o[b].pc # "idle"
  BY KindsOfTokenPoints DEF Watched
<1> QED
  BY <1>1, <1>2, <1>3 DEF Become

\* Steps of one invocation that leave the credentials Twitch takes, and the
\* generation of those who drop one, as they are.
LEMMA PutKeepsTokens ==
  ASSUME TypeOK, TypeOK', LoginInv, SpentInv, NEW a \in Actors, NEW r, NEW holder,
         Become(Put(a, r), holder), Handles(a, r),
         holder \in {update, Released(a)} \/ update = NoActor,
         r.pc \in Locked => holder = a,
         r.pc \in Granted => r.alive,
         issued' >= issued, spoiled \subseteq spoiled', \A x \in valid : KeptNext(x),
         \A b \in Actors : op[b].pc \in Successors => op[b].fresh \in valid',
         \A b \in Actors : op[b].pc \in Requests /\ a # b =>
           op[b].cred \in valid' \cup spoiled',
         \A b \in Actors : op[b].pc \in Tickets /\ op[b].gen = auth'.gen =>
           op[b].gen = auth.gen,
         \/ auth'.cred \in {auth.cred, NoCred}
         \/ op[a].pc \in Tickets /\ op[a].gen = auth.gen /\ auth'.cred = op[a].cred
  PROVE  SpentInv'
<1>1. op \in [Actors -> Op] /\ op' = Put(a, r)
  BY OpFields DEF Become
<1>2. /\ op'[a] = Advance(r)
      /\ \A b \in Actors \ {a} : op'[b] = op[b]
  BY <1>1 DEF Put
<1>3. /\ op'[a] \in {Idle, r} \/ (op'[a] = Bare(r) /\ r.pc \in Between)
      /\ r.pc \in Granted => op'[a] = r
      /\ op'[a] = r /\ r.pc \in Awaits => r.alive
  <2>1. r.pc \in Granted => r.pc # "idle" /\ r.pc \notin Between
    BY KindsOfTokenPoints DEF Watched
  <2>2. "idle" \notin Awaits
    BY DEF Awaits
  <2> QED
    BY <1>2, <2>1, <2>2, IdleType DEF Advance, Bare, Between
<1>4. op'[a].pc \in Watched => op'[a] = r
  BY <1>3, KindsOfTokenPoints, IdleHarmless
<1>5. ASSUME NEW b \in Actors PROVE Handles(b, op'[b])
  <2>1. CASE b = a
    <3>1. op'[a] \in {Idle, r} \/ (op'[a] = Bare(r) /\ r.pc \in Between)
      BY <1>3
    <3>2. op'[a].cred \in {r.cred, NoCred}
      BY <3>1, IdleHarmless DEF NoCred
    <3>3. op[a].pc \in Granted =>
            \/ op'[a].pc \in Granted /\ op'[a].cred = op[a].cred
            \/ op[a].cred \in spoiled'
      BY <1>3 DEF Handles
    <3> QED
      BY <1>4, <2>1, <3>2, <3>3, KindsOfTokenPoints DEF Handles
  <2>2. CASE b # a
    BY <1>2, <2>2, TokenInvNow DEF Handles
  <2> QED
    BY <2>1, <2>2
<1>6. ASSUME NEW b \in Actors, op'[b].pc \in Locked PROVE update' = b
  <2>1. CASE b = a
    <3>1. r.pc \in Locked /\ op'[a].pc # "idle"
      BY <1>4, <1>6, <2>1, KindsOfTokenPoints
    <3> QED
      BY <1>1, <2>1, <3>1 DEF Become
  <2>2. CASE b # a
    BY <1>1, <1>2, <1>6, <2>2, LockStays
  <2> QED
    BY <2>1, <2>2
<1>7. ASSUME NEW b \in Actors, op'[b].pc \in Granted \cup {"refresh.request"}
      PROVE  op'[b].alive
  <2>1. CASE b = a
    <3>1. op'[a] = r /\ r.pc \in Awaits
      BY <1>4, <1>7, <2>1, KindsOfTokenPoints
    <3> QED
      BY <1>3, <2>1, <3>1
  <2>2. CASE b # a
    BY <1>2, <1>7, <2>2, TokenInvNow
  <2> QED
    BY <2>1, <2>2
<1>8. ASSUME NEW b \in Actors, op'[b].pc \in Successors, op'[b].fresh > issued
      PROVE  b = a
  <2>1. \A c \in Actors : op[c].fresh <= issued /\ op[c].fresh \in Nat /\ issued \in Nat
    BY Numbers, LoginInvNow, OpInvNow
  <2> QED
    BY <1>2, <1>8, <2>1
<1>9. \/ auth'.cred \in {auth.cred, NoCred}
      \/ \E b \in Actors : /\ op[b].pc \in Tickets /\ op[b].gen = auth.gen
                           /\ auth'.cred = op[b].cred
  OBVIOUS
<1>10. \A b, c \in Actors : (/\ op'[b].pc \in Successors /\ op'[c].pc \in Successors
                             /\ op'[b].fresh > issued /\ op'[c].fresh > issued) => b = c
  BY <1>8
<1> QED
  BY <1>5, <1>6, <1>7, <1>9, <1>10, HandlingKeeps

\* Twitch takes what it took, and no trace of a spent token is lost.
TokensStay == valid \subseteq valid' /\ spoiled \subseteq spoiled' /\ issued' >= issued

LEMMA QuietPutKeepsTokens ==
  ASSUME TypeOK, TypeOK', GenerationsKnown, LoginInv, SpentInv, TokensStay,
         NEW a \in Actors, NEW r, NEW holder, Become(Put(a, r), holder), Handles(a, r),
         holder \in {update, Released(a)} \/ update = NoActor,
         r.pc \in Locked => holder = a,
         r.pc \in Granted => r.alive,
         auth'.gen >= auth.gen,
         \/ auth'.cred \in {auth.cred, NoCred}
         \/ op[a].pc \in Tickets /\ op[a].gen = auth.gen /\ auth'.cred = op[a].cred
  PROVE  SpentInv'
<1>1. /\ issued' >= issued /\ spoiled \subseteq spoiled' /\ \A x \in valid : KeptNext(x)
      /\ \A b \in Actors : op[b].pc \in Successors => op[b].fresh \in valid'
      /\ \A b \in Actors : op[b].pc \in Requests => op[b].cred \in valid' \cup spoiled'
  BY TokenInvNow DEF TokensStay, KeptNext
<1>2. \A b \in Actors : op[b].gen = auth'.gen => op[b].gen = auth.gen
  <2>1. /\ auth.gen \in Nat /\ auth'.gen \in Nat
        /\ \A b \in Actors : op[b].gen \in Nat /\ op[b].gen <= auth.gen
    BY Numbers, NumbersNext DEF GenerationsKnown
  <2> QED
    BY <2>1
<1> QED
  BY <1>1, <1>2, PutKeepsTokens

LEMMA ElsewhereHandles ==
  ASSUME NEW a, NEW r, r.pc \notin Watched, r.cred \in {op[a].cred, auth.cred, NoCred},
         op[a].pc \in Granted => op[a].cred \in spoiled'
  PROVE  Handles(a, r)
BY KindsOfTokenPoints DEF Handles

\* An invocation that moves to where no token is at stake.
LEMMA MovingKeepsTokens ==
  ASSUME TypeOK, TypeOK', GenerationsKnown, LoginInv, SpentInv, TokensStay,
         NEW a \in Actors, NEW r, NEW holder, Become(Put(a, r), holder),
         r.pc \notin Watched, r.cred \in {op[a].cred, auth.cred, NoCred},
         holder \in {update, Released(a)} \/ update = NoActor,
         op[a].pc \in Granted => op[a].cred \in spoiled',
         auth'.gen >= auth.gen,
         \/ auth'.cred \in {auth.cred, NoCred}
         \/ op[a].pc \in Tickets /\ op[a].gen = auth.gen /\ auth'.cred = op[a].cred
  PROVE  SpentInv'
BY ElsewhereHandles, QuietPutKeepsTokens, KindsOfTokenPoints

\* Where a failed refresh, or a clear that returned, leaves its caller.
LEMMA LeavesUnwatched ==
  ASSUME TypeOK, NEW a \in Actors
  PROVE  /\ Latest(op[a]).pc \notin Watched
         /\ Latest(op[a]).cred \in {op[a].cred, auth.cred, NoCred}
         /\ \A kind \in {"transient", "definitive", "permanent"} :
              /\ RefreshFailed(a, kind).pc \notin Watched
              /\ RefreshFailed(a, kind).cred \in {op[a].cred, auth.cred, NoCred}
         /\ \A result :
              /\ ClearReturned(a, result).pc \notin Watched
              /\ ClearReturned(a, result).cred \in {op[a].cred, auth.cred, NoCred}
<1> DEFINE r == op[a]
           Fine(s) == s.pc \notin Watched /\ s.cred \in {r.cred, auth.cred, NoCred}
<1>1. r \in Op
  BY OpFields
<1>2. Fine(Idle)
  BY IdleHarmless, KindsOfTokenPoints DEF NoCred
<1>3. {"clear.begin", "end.Error", "end.AuthRequired", "end.Disconnected", "task.down",
       "task.send"} \cap Watched = {}
  BY DEF Watched, Locked, Requests, Successors, Granted, Tickets
<1>4. \A pc \in {"clear.begin", "end.Error", "end.AuthRequired", "end.Disconnected",
                 "task.down"} :
        /\ Fine([r EXCEPT !.pc = pc])
        /\ \A why : Fine([r EXCEPT !.pc = pc, !.why = why])
  BY <1>1, <1>3 DEF Op
<1>5. Fine([r EXCEPT !.pc = "task.send", !.gen = auth.gen, !.rev = auth.rev,
                     !.cred = auth.cred, !.fresh = NoCred, !.second = TRUE, !.why = "none"])
  BY <1>1, <1>3 DEF Op
<1> HIDE DEF r, Fine
<1>6. Fine(Latest(r))
  BY <1>4, <1>5 DEF Latest
<1>7. ASSUME NEW kind \in {"transient", "definitive", "permanent"}
      PROVE  Fine(RefreshFailed(a, kind))
  BY <1>2, <1>4, <1>6 DEF RefreshFailed, r
<1>8. ASSUME NEW result PROVE Fine(ClearReturned(a, result))
  BY <1>2, <1>4, <1>6 DEF ClearReturned, r
<1> QED
  BY <1>6, <1>7, <1>8 DEF Fine, r

-----------------------------------------------------------------------------
(***************************************************************************)
(* Every step keeps the tokens in order.                                   *)
(***************************************************************************)
\* A credential is installed by the one who held it, and no clear is under way.
LEMMA InstallKeepsTokens ==
  ASSUME TypeOK, TypeOK', LoginInv, SpentInv, NEW a \in Actors,
         op[a].pc \in Successors, auth'.gen = auth.gen, auth'.cred = op[a].fresh,
         valid' = valid, spoiled' = spoiled, op'[a].pc \notin Watched,
         op'[a].cred \in {op[a].cred, op[a].fresh, NoCred},
         \A b \in Actors \ {a} : op'[b] = op[b],
         \A b \in Actors \ {a} : op[b].pc \in Locked => update' = b,
         \A b \in Actors : op[b].pc \in Tickets => op[b].gen # auth.gen
  PROVE  SpentInv'
<1>1. op[a].fresh \in valid /\ Unseen(op[a].fresh, a)
  BY TokenInvNow
<1>2. auth'.cred \in valid'
  BY <1>1
<1>3. ASSUME NEW b \in Actors, b # a PROVE TokenInv(b)'
  <2>1. op[b].pc \in Successors =>
          /\ op[b].fresh \in valid /\ op[b].fresh # NoCred /\ auth'.cred # op[b].fresh
          /\ \A c \in Actors : op'[c].cred # op[b].fresh
          /\ \A c \in Actors \ {b} : op'[c].pc \in Successors => op'[c].fresh # op[b].fresh
    BY <1>1, <1>3, TokenInvNow, KindsOfTokenPoints DEF Unseen
  <2>2. op[b].pc \in Tickets => op[b].gen # auth'.gen
    BY <1>3
  <2>3. op[b].pc \in Locked => update' = b
    BY <1>3
  <2> QED
    BY <1>3, <2>1, <2>2, <2>3, TokenInvNow DEF TokenInv, Unseen
<1>4. TokenInv(a)'
  BY KindsOfTokenPoints DEF TokenInv
<1> QED
  BY <1>2, <1>3, <1>4 DEF SpentInv, Kept

\* Nobody is between the request of a refresh and its answer while the update
\* lock is free, so what is installed is taken by Twitch or known to be spent.
LEMMA FreeLockMeansTaken ==
  ASSUME TypeOK, SpentInv, update = NoActor, auth.cred # NoCred
  PROVE  auth.cred \in valid \cup spoiled
<1>1. \A b \in Actors : op[b].pc \notin Granted
  BY TokenInvNow, TwitchAssumption, KindsOfTokenPoints
<1> QED
  BY <1>1 DEF SpentInv, Kept

LEMMA LoginStepsKeepTokens ==
  ASSUME TypeOK, TypeOK', GenerationsKnown, LoginInv, SpentInv,
         NEW c \in Commands, LoginStep(c)
  PROVE  SpentInv'
<1> DEFINE r == op[c]
<1>1. /\ c \in Actors /\ r \in Op /\ auth \in Auth /\ auth.gen \in Nat
      /\ issued \in Nat /\ issued >= issued /\ auth.gen >= auth.gen
  BY ActorKinds, OpFields, AuthFields, Numbers
<1>2. /\ {"start.reply", "poll.reply", "poll.check", "poll.save", "validate.save",
          "validate.lock", "validate.reply"} \cap (Granted \cup Tickets) = {}
      /\ {"clear.begin", "poll.save", "validate.save"} \cap Watched = {}
      /\ {"validate.reply", "refresh.request"} = Requests
      /\ Idle.pc \notin Watched /\ Idle.cred = NoCred
  BY IdleHarmless, KindsOfTokenPoints
    DEF Watched, Locked, Requests, Successors, Granted, Tickets, NoCred
<1>3. ~PollGranted(c) => TokensStay
  BY <1>1 DEF TokensStay, LoginStep, StartReply, PollPending, PollRefused, PollCheckFailed,
    PollScopeMissing, LogIn, SaveReturned, ValidateLocked, ValidateAccepted,
    ValidateScopeMissing, ValidateFailed, ghostVars
<1>4. r.pc \notin Granted
  BY <1>2 DEF LoginStep, StartReply, PollGranted, PollPending, PollRefused, PollCheckFailed,
    PollScopeMissing, LogIn, SaveReturned, ValidateLocked, ValidateAccepted,
    ValidateScopeMissing, ValidateFailed
<1>5. ASSUME NEW s, s.pc \notin Watched, s.cred \in {r.cred, NoCred}, TokensStay,
             Become(Put(c, s), update), auth'.gen = auth.gen,
             auth'.cred \in {auth.cred, NoCred}
      PROVE  SpentInv'
  BY <1>1, <1>4, <1>5, MovingKeepsTokens
<1>6. CASE \/ StartReply(c) \/ PollPending(c) \/ PollRefused(c) \/ PollCheckFailed(c)
           \/ PollScopeMissing(c) \/ SaveReturned(c)
  <2>1. /\ Become(Put(c, Idle), update)
        /\ \/ auth' = auth
           \/ auth' = [auth EXCEPT !.cred = NoCred,
                         !.pending = [gen |-> r.gen, polling |-> FALSE]]
           \/ auth' = [auth EXCEPT !.pending.polling = FALSE]
           \/ auth' = [auth EXCEPT !.pending = NoPending]
           \/ auth' = [auth EXCEPT !.pending = NoPending, !.cred = NoCred]
    BY <1>6 DEF StartReply, PollPending, PollRefused, PollCheckFailed,
      PollScopeMissing, SaveReturned, Finish
  <2>2. auth'.gen = auth.gen /\ auth'.cred \in {auth.cred, NoCred}
    BY <1>1, <2>1 DEF Auth
  <2>3. ~PollGranted(c)
    BY <1>1, <1>6 DEF StartReply, PollPending, PollRefused, PollCheckFailed,
      PollScopeMissing, SaveReturned, PollGranted
  <2> QED
    BY <1>2, <1>3, <1>5, <2>1, <2>2, <2>3
<1>7. CASE PollGranted(c)
  <2> DEFINE s == [r EXCEPT !.pc = "poll.check", !.fresh = issued + 1]
  <2>1. /\ issued' = issued + 1 /\ valid' = valid \cup {issued + 1} /\ spoiled' = spoiled
        /\ auth' = auth
        /\ Become(Put(c, Idle), update) \/ Become(Put(c, s), update)
    BY <1>7 DEF PollGranted, Finish, ghostVars
  <2>2. TokensStay /\ issued' > issued /\ issued' \in valid'
    BY <1>1, <2>1 DEF TokensStay
  <2>3. CASE Become(Put(c, Idle), update)
    BY <1>2, <1>5, <2>1, <2>2, <2>3
  <2>4. CASE Become(Put(c, s), update)
    <3>1. s.pc = "poll.check" /\ s.fresh = issued' /\ s.cred = r.cred
      BY <1>1, <2>1 DEF Op
    <3> HIDE DEF s
    <3>2. Handles(c, s) /\ s.pc \notin Locked
      BY <1>4, <2>2, <3>1, KindsOfTokenPoints DEF Handles, Successors
    <3> QED
      BY <1>1, <2>1, <2>2, <2>4, <3>2, QuietPutKeepsTokens, KindsOfTokenPoints
  <2> QED
    BY <2>1, <2>3, <2>4
<1>8. CASE LogIn(c)
  <2>1. r.pc = "poll.check" /\ ~PollGranted(c) /\ valid' = valid /\ spoiled' = spoiled
    BY <1>8 DEF LogIn, PollGranted, ghostVars
  <2>2. CASE auth.gen # r.gen
    BY <1>1, <1>2, <1>3, <1>5, <1>8, <2>1, <2>2 DEF LogIn, Finish
  <2>3. CASE auth.gen = r.gen
    <3> DEFINE s == [r EXCEPT !.pc = "poll.save"]
    <3>1. /\ auth' = [auth EXCEPT !.pending = NoPending, !.rev = @ + 1, !.cred = r.fresh]
          /\ Become(Put(c, s), update)
      BY <1>8, <2>3 DEF LogIn, Goto
    <3>2. auth'.gen = auth.gen /\ auth'.cred = r.fresh
      BY <1>1, <3>1 DEF Auth
    <3>3. s.pc = "poll.save" /\ s.cred = r.cred
      BY <1>1 DEF Op
    <3>4. "poll.save" \notin Between
      BY DEF Between, Ends
    <3> HIDE DEF s
    <3>5. op' = Put(c, s)
      BY <3>1 DEF Become
    <3>6. op'[c] \in {Idle, s} /\ \A b \in Actors \ {c} : op'[b] = op[b]
      BY <1>1, <3>3, <3>4, <3>5, OpFields, PutPoint
    <3>7. op'[c].pc \notin Watched /\ op'[c].cred \in {r.cred, r.fresh, NoCred}
      BY <1>2, <3>3, <3>6
    <3>8. \A b \in Actors \ {c} : op[b].pc \in Locked => update' = b
      BY <1>1, <3>1, <3>5, <3>6, LockStays
    <3>9. \A b \in Actors : op[b].pc \in Tickets => op[b].gen # auth.gen
      BY <1>1, <2>1, <2>3, ClearsAlone DEF Clears, Polls
    <3> QED
      BY <1>1, <2>1, <3>2, <3>6, <3>7, <3>8, <3>9, InstallKeepsTokens DEF Successors
  <2> QED
    BY <2>2, <2>3
<1>9. CASE ValidateLocked(c)
  <2> DEFINE s == [r EXCEPT !.pc = "validate.reply", !.gen = auth.gen, !.rev = auth.rev,
                            !.cred = auth.cred]
  <2>1. /\ r.pc = "validate.lock" /\ update = NoActor /\ auth' = auth
        /\ valid' = valid /\ spoiled' = spoiled
        /\ \/ Become(Put(c, Idle), update)
           \/ auth.cred # NoCred /\ Become(Put(c, s), c)
    BY <1>9 DEF ValidateLocked, Finish, ghostVars
  <2>2. TokensStay
    BY <1>3, <2>1 DEF PollGranted
  <2>3. CASE Become(Put(c, Idle), update)
    BY <1>2, <1>5, <2>1, <2>2, <2>3
  <2>4. CASE auth.cred # NoCred /\ Become(Put(c, s), c)
    <3>1. s.pc = "validate.reply" /\ s.cred = auth.cred
      BY <1>1 DEF Op
    <3>2. auth.cred \in valid' \cup spoiled'
      BY <2>1, <2>4, FreeLockMeansTaken
    <3> HIDE DEF s
    <3>3. s.pc \notin Tickets \cup Successors
      BY <1>2, <3>1, KindsOfTokenPoints
    <3>4. Handles(c, s)
      BY <1>4, <3>1, <3>2, <3>3 DEF Handles
    <3> QED
      BY <1>1, <2>1, <2>2, <2>4, <3>3, <3>4, QuietPutKeepsTokens, KindsOfTokenPoints
  <2> QED
    BY <2>1, <2>3, <2>4
<1>10. CASE ValidateAccepted(c) \/ ValidateScopeMissing(c)
  <2>1. /\ r.pc = "validate.reply" /\ auth' = auth
        /\ \/ Become(Put(c, Idle), update)
           \/ Become(Put(c, [r EXCEPT !.pc = "validate.save"]), update)
           \/ Become(Put(c, [r EXCEPT !.pc = "clear.begin", !.why = "invalid"]), update)
    BY <1>10 DEF ValidateAccepted, ValidateScopeMissing, Finish, Goto
  <2>2. TokensStay
    BY <1>3, <2>1 DEF PollGranted
  <2>3. /\ [r EXCEPT !.pc = "validate.save"].pc \notin Watched
        /\ [r EXCEPT !.pc = "validate.save"].cred = r.cred
        /\ [r EXCEPT !.pc = "clear.begin", !.why = "invalid"].pc \notin Watched
        /\ [r EXCEPT !.pc = "clear.begin", !.why = "invalid"].cred = r.cred
    BY <1>1, <1>2 DEF Op
  <2> QED
    BY <1>2, <1>5, <2>1, <2>2, <2>3
<1>11. CASE ValidateFailed(c)
  <2> DEFINE s == [r EXCEPT !.pc = "refresh.request"]
  <2>1. /\ r.pc = "validate.reply" /\ auth' = auth /\ Become(Put(c, s), update)
        /\ valid' = valid /\ spoiled' = spoiled
    BY <1>11 DEF ValidateFailed, Goto, ghostVars
  <2>2. TokensStay
    BY <1>3, <2>1 DEF PollGranted
  <2>3. s.pc = "refresh.request" /\ s.cred = r.cred
    BY <1>1 DEF Op
  <2>4. r.cred \in valid' \cup spoiled' /\ update = c
    BY <1>1, <1>2, <2>1, TokenInvNow, KindsOfTokenPoints
  <2> HIDE DEF s
  <2>5. s.pc \notin Tickets \cup Successors
    BY <1>2, <2>3, KindsOfTokenPoints
  <2>6. Handles(c, s)
    BY <1>4, <2>3, <2>4, <2>5 DEF Handles
  <2> QED
    BY <1>1, <2>1, <2>2, <2>4, <2>5, <2>6, QuietPutKeepsTokens, KindsOfTokenPoints
<1> QED
  BY <1>6, <1>7, <1>8, <1>9, <1>10, <1>11 DEF LoginStep

LEMMA RefreshStepsKeepTokens ==
  ASSUME TypeOK, TypeOK', GenerationsKnown, LoginInv, SpentInv,
         NEW a \in Actors, RefreshStep(a)
  PROVE  SpentInv'
<1> DEFINE r == op[a]
<1>1. /\ r \in Op /\ auth \in Auth /\ auth.gen \in Nat /\ issued \in Nat
      /\ issued >= issued /\ auth.gen >= auth.gen
  BY OpFields, AuthFields, Numbers
<1>2. /\ "refresh.save" \notin Watched \cup Between
      /\ {"clear.begin", "task.down"} \cap Watched = {}
      /\ "refresh.check" \in Granted /\ "refresh.granted" \in Granted
      /\ "refresh.request" \in Requests \ Granted
      /\ Idle.pc \notin Watched /\ Idle.cred = NoCred
  BY IdleHarmless, KindsOfTokenPoints
    DEF Watched, Locked, Requests, Successors, Granted, Tickets, NoCred, Between, Ends
<1>3. ASSUME NEW s, LeaveRefresh(a, s), s.pc \notin Watched,
             s.cred \in {r.cred, auth.cred, NoCred}, auth' = auth, valid' = valid,
             issued' = issued, spoiled \subseteq spoiled',
             r.pc \in Granted => r.cred \in spoiled'
      PROVE  SpentInv'
  <2>1. PICK holder \in {update, Released(a)} : Become(Put(a, s), holder)
    BY <1>3 DEF LeaveRefresh
  <2>2. TokensStay
    BY <1>1, <1>3 DEF TokensStay
  <2> QED
    BY <1>1, <1>3, <2>1, <2>2, MovingKeepsTokens
<1>4. \A kind \in {"transient", "definitive", "permanent"} :
        /\ RefreshFailed(a, kind).pc \notin Watched
        /\ RefreshFailed(a, kind).cred \in {r.cred, auth.cred, NoCred}
  BY LeavesUnwatched
<1>5. CASE TwitchRotates(a)
  <2> DEFINE s == [r EXCEPT !.pc = "refresh.granted", !.fresh = issued + 1]
  <2>1. /\ r.pc = "refresh.request" /\ r.cred \in valid
        /\ issued' = issued + 1 /\ valid' = (valid \ {r.cred}) \cup {issued + 1}
        /\ spoiled' = spoiled /\ auth' = auth /\ Become(Put(a, s), update)
    BY <1>5 DEF TwitchRotates, ghostVars
  <2>2. s.pc = "refresh.granted" /\ s.fresh = issued + 1 /\ s.cred = r.cred /\ s.alive = r.alive
    BY <1>1 DEF Op
  <2>3. issued' > issued /\ issued' >= issued /\ issued' \in valid'
    BY <1>1, <2>1
  <2> HIDE DEF s
  <2>4. r.alive /\ update = a
    BY <1>2, <2>1, TokenInvNow, KindsOfTokenPoints
  <2>5. s.pc \in Granted /\ s.pc \notin Requests \cup Tickets
    BY <1>2, <2>2, KindsOfTokenPoints
  <2>6. Handles(a, s)
    BY <1>2, <2>1, <2>2, <2>3, <2>5 DEF Handles, Requests, Granted
  <2>7. op'[a].pc \in Granted /\ op'[a].cred = r.cred
    <3>1. Advance(s) = s
      BY <2>2, <2>4, <2>5 DEF Advance, Ends
    <3> QED
      BY <2>1, <2>2, <2>5, <3>1, OpFields DEF Become, Put
  <2>8. \A x \in valid : KeptNext(x)
    BY <2>1, <2>7 DEF KeptNext
  \* The successors of others are not the token that is spent.
  <2>9. \A b \in Actors : op[b].pc \in Successors => op[b].fresh \in valid'
    BY <2>1, TokenInvNow DEF Unseen
  \* Nobody else is about to present one.
  <2>10. \A b \in Actors : op[b].pc \in Requests => b = a
    BY <2>4, TokenInvNow, KindsOfTokenPoints
  <2> QED
    BY <1>1, <2>1, <2>2, <2>3, <2>4, <2>5, <2>6, <2>8, <2>9, <2>10, PutKeepsTokens
<1>6. CASE RefreshReplied(a)
  <2> DEFINE s == [r EXCEPT !.pc = "refresh.check"]
  <2>1. /\ r.pc = "refresh.granted" /\ auth' = auth /\ valid' = valid /\ issued' = issued
        /\ spoiled' = spoiled /\ Become(Put(a, s), update)
    BY <1>6 DEF RefreshReplied, Goto, ghostVars
  <2>2. s.pc = "refresh.check" /\ s.fresh = r.fresh /\ s.cred = r.cred /\ s.alive = r.alive
    BY <1>1 DEF Op
  <2>3. TokensStay
    BY <1>1, <2>1 DEF TokensStay
  <2>4. r.alive /\ update = a
    BY <1>2, <2>1, TokenInvNow, KindsOfTokenPoints
  <2> HIDE DEF s
  <2>5. s.pc \in Granted /\ s.pc \notin Requests \cup Tickets /\ s.pc \in Successors
    BY <1>2, <2>2, KindsOfTokenPoints
  <2>6. Handles(a, s)
    BY <1>2, <2>1, <2>2, <2>5, KindsOfTokenPoints DEF Handles
  <2> QED
    BY <1>1, <2>1, <2>2, <2>3, <2>4, <2>6, QuietPutKeepsTokens
<1>7. CASE RefreshLost(a) \/ RefreshCheckFailed(a) \/ RefreshRefused(a)
  <2>1. /\ auth' = auth /\ valid' = valid /\ issued' = issued
        /\ spoiled \subseteq spoiled'
        /\ r.pc \in Granted => r.cred \in spoiled'
    BY <1>2, <1>7 DEF RefreshLost, RefreshCheckFailed, RefreshRefused, ghostVars
  <2>2. PICK kind \in {"transient", "definitive", "permanent"} :
          LeaveRefresh(a, RefreshFailed(a, kind))
    BY <1>7 DEF RefreshLost, RefreshCheckFailed, RefreshRefused
  <2> QED
    BY <1>3, <1>4, <2>1, <2>2
<1>8. CASE RefreshScopeMissing(a)
  <2>1. /\ auth' = auth /\ valid' = valid /\ issued' = issued
        /\ spoiled \subseteq spoiled' /\ r.cred \in spoiled'
    BY <1>8 DEF RefreshScopeMissing
  <2>2. \A why : /\ [r EXCEPT !.pc = "clear.begin", !.why = why].pc \notin Watched
                 /\ [r EXCEPT !.pc = "clear.begin", !.why = why].cred = r.cred
    BY <1>1, <1>2 DEF Op
  <2>3. \/ LeaveRefresh(a, RefreshFailed(a, "transient"))
        \/ \E why : LeaveRefresh(a, [r EXCEPT !.pc = "clear.begin", !.why = why])
    BY <1>8 DEF RefreshScopeMissing
  <2> QED
    BY <1>3, <1>4, <2>1, <2>2, <2>3
<1>9. CASE RefreshCommit(a) /\ ~Matches(r)
  <2>1. /\ auth' = auth /\ valid' = valid /\ issued' = issued
        /\ spoiled \subseteq spoiled' /\ r.cred \in spoiled'
    BY <1>9 DEF RefreshCommit
  <2>2. /\ [r EXCEPT !.pc = "task.down"].pc \notin Watched
        /\ [r EXCEPT !.pc = "task.down"].cred = r.cred
    BY <1>1, <1>2 DEF Op
  <2>3. \/ LeaveRefresh(a, RefreshFailed(a, "transient"))
        \/ LeaveRefresh(a, [r EXCEPT !.pc = "task.down"])
    BY <1>9 DEF RefreshCommit
  <2> QED
    BY <1>3, <1>4, <2>1, <2>2, <2>3
<1>10. CASE RefreshCommit(a) /\ Matches(r)
  <2> DEFINE s == [r EXCEPT !.pc = "refresh.save", !.rev = auth.rev + 1, !.cred = r.fresh]
  <2>1. /\ r.pc = "refresh.check" /\ valid' = valid /\ spoiled' = spoiled
        /\ auth' = [auth EXCEPT !.rev = @ + 1, !.cred = r.fresh]
        /\ Become(Put(a, s), update)
    BY <1>10 DEF RefreshCommit
  <2>2. auth'.gen = auth.gen /\ auth'.cred = r.fresh
    BY <1>1, <2>1 DEF Auth
  <2>3. s.pc = "refresh.save" /\ s.cred = r.fresh
    BY <1>1 DEF Op
  <2> HIDE DEF s
  <2>4. op' = Put(a, s)
    BY <2>1 DEF Become
  <2>5. op'[a] \in {Idle, s} /\ \A b \in Actors \ {a} : op'[b] = op[b]
    BY <1>2, <2>3, <2>4, OpFields, PutPoint
  <2>6. op'[a].pc \notin Watched /\ op'[a].cred \in {r.cred, r.fresh, NoCred}
    BY <1>2, <2>3, <2>5
  <2>7. \A b \in Actors \ {a} : op[b].pc \in Locked => update' = b
    BY <2>1, <2>4, <2>5, LockStays
  <2>8. \A b \in Actors : op[b].pc \in Tickets => op[b].gen # auth.gen
    <3>1. r.pc \in Readers /\ r.gen = auth.gen
      BY <1>2, <1>10, <2>1, KindsOfTokenPoints DEF Matches
    <3> QED
      BY <3>1, ClearsAlone DEF Clears
  <2> QED
    BY <1>2, <2>1, <2>2, <2>5, <2>6, <2>7, <2>8, InstallKeepsTokens, KindsOfTokenPoints
<1>11. CASE RefreshSaved(a)
  <2>1. /\ auth' = auth /\ valid' = valid /\ issued' = issued /\ spoiled' = spoiled
        /\ r.pc \notin Granted
        /\ LeaveRefresh(a, Idle) \/ LeaveRefresh(a, Latest(r))
    BY <1>2, <1>11 DEF RefreshSaved, ghostVars, Granted
  <2> QED
    BY <1>2, <1>3, <2>1, LeavesUnwatched
<1> QED
  BY <1>5, <1>6, <1>7, <1>8, <1>9, <1>10, <1>11 DEF RefreshStep

LEMMA ClearStepsKeepTokens ==
  ASSUME TypeOK, TypeOK', GenerationsKnown, LoginInv, SpentInv,
         NEW a \in Actors, ClearBegin(a) \/ ClearStored(a)
  PROVE  SpentInv'
<1> DEFINE r == op[a]
<1>1. /\ r \in Op /\ auth \in Auth /\ auth.gen \in Nat /\ issued \in Nat
      /\ issued >= issued /\ auth.gen >= auth.gen
  BY OpFields, AuthFields, Numbers
<1>2. /\ {"clear.begin", "clear.store"} \cap Granted = {}
      /\ "clear.store" \in Tickets /\ "clear.cancel" \notin Watched
  BY DEF Watched, Locked, Requests, Successors, Granted, Tickets
<1>3. TokensStay /\ r.pc \notin Granted
  BY <1>1, <1>2 DEF ClearBegin, ClearStored, ghostVars, TokensStay
<1>4. ASSUME NEW s, LeaveRefresh(a, s) \/ Become(Put(a, s), update), s.pc \notin Watched,
             s.cred \in {r.cred, auth.cred, NoCred}, auth'.gen = auth.gen,
             \/ auth'.cred \in {auth.cred, NoCred}
             \/ op[a].pc \in Tickets /\ op[a].gen = auth.gen /\ auth'.cred = op[a].cred
      PROVE  SpentInv'
  <2>1. PICK holder \in {update, Released(a)} : Become(Put(a, s), holder)
    BY <1>4 DEF LeaveRefresh
  <2> QED
    BY <1>1, <1>3, <1>4, <2>1, MovingKeepsTokens
<1>5. \A result : /\ ClearReturned(a, result).pc \notin Watched
                  /\ ClearReturned(a, result).cred \in {r.cred, auth.cred, NoCred}
  BY LeavesUnwatched
<1>6. CASE ClearBegin(a) /\ ~Matches(r)
  BY <1>4, <1>5, <1>6 DEF ClearBegin
<1>7. CASE ClearBegin(a) /\ Matches(r)
  <2> DEFINE s == [r EXCEPT !.pc = "clear.store", !.gen = auth.gen + 1, !.rev = auth.rev + 1]
  <2>1. /\ auth' = Forgotten(auth) /\ Become(Put(a, s), update) /\ r.cred = auth.cred
    BY <1>7 DEF ClearBegin, Matches
  <2>2. auth'.gen = auth.gen + 1 /\ auth'.gen >= auth.gen /\ auth'.cred = NoCred
    BY <1>1, <2>1, ForgottenType
  <2>3. s.pc = "clear.store" /\ s.cred = auth.cred
    BY <1>1, <2>1 DEF Op
  <2> HIDE DEF s
  <2>4. s.pc \notin Locked \cup Successors
    BY <2>3 DEF Locked, Requests, Granted, Successors
  <2>5. Handles(a, s)
    BY <1>3, <2>3, <2>4, KindsOfTokenPoints DEF Handles
  <2> QED
    BY <1>1, <1>3, <2>1, <2>2, <2>4, <2>5, QuietPutKeepsTokens, KindsOfTokenPoints
<1>8. CASE ClearStored(a)
  <2>1. /\ r.pc \in Tickets
        /\ auth' = auth \/ auth' = Restored(r)
        /\ \/ Become(Put(a, [r EXCEPT !.pc = "clear.cancel"]), update)
           \/ \E result : LeaveRefresh(a, ClearReturned(a, result))
    BY <1>2, <1>8 DEF ClearStored, Goto
  <2>2. /\ auth'.gen = auth.gen
        /\ \/ auth'.cred \in {auth.cred, NoCred}
           \/ r.pc \in Tickets /\ r.gen = auth.gen /\ auth'.cred = r.cred
    BY <1>1, <2>1 DEF Restored, Auth
  <2>3. /\ [r EXCEPT !.pc = "clear.cancel"].pc \notin Watched
        /\ [r EXCEPT !.pc = "clear.cancel"].cred = r.cred
    BY <1>1, <1>2 DEF Op
  <2> QED
    BY <1>4, <1>5, <2>1, <2>2, <2>3
<1> QED
  BY <1>6, <1>7, <1>8

LEMMA PlainStepsKeepTokens ==
  ASSUME TypeOK, TypeOK', GenerationsKnown, LoginInv, SpentInv,
         NEW c \in Commands, Plain(c)
  PROVE  SpentInv'
<1> DEFINE r == op[c]
<1>1. /\ c \in Actors /\ r \in Op /\ auth \in Auth /\ auth.gen \in Nat /\ issued \in Nat
      /\ issued >= issued /\ auth.gen >= auth.gen
  BY ActorKinds, OpFields, AuthFields, Numbers
<1>2. /\ {"start.reply", "poll.reply", "validate.lock", "connect.reserve",
          "disconnect.cancel"} \cap Watched = {}
      /\ {"disconnect.lock", "disconnect.store"} \subseteq Tickets
      /\ {"disconnect.lock", "disconnect.store", "stop.publish", "disconnect.publish",
          "idle"} \cap (Locked \cup Successors) = {}
      /\ Idle.pc \notin Watched /\ Idle.cred = NoCred
  BY IdleHarmless, KindsOfTokenPoints
    DEF Watched, Locked, Requests, Successors, Granted, Tickets, NoCred
<1>3. TokensStay /\ r.pc \notin Granted
  BY <1>1, <1>2, KindsOfTokenPoints DEF Plain, LoginCall, StartAuth, PollAuth, ValidateAuth,
    Disconnect, Connect, StopPublish, DisconnectLocked, DisconnectStored, DisconnectPublish,
    Call, loginVars, ghostVars, TokensStay
<1>4. ASSUME NEW s, NEW holder \in {update, Released(c)}, Become(Put(c, s), holder),
             s.pc \notin Watched, s.cred \in {r.cred, auth.cred, NoCred},
             auth'.gen >= auth.gen,
             \/ auth'.cred \in {auth.cred, NoCred}
             \/ r.pc \in Tickets /\ r.gen = auth.gen /\ auth'.cred = r.cred
      PROVE  SpentInv'
  BY <1>1, <1>3, <1>4, MovingKeepsTokens
<1>5. CASE StartAuth(c)
  <2> DEFINE s == [Idle EXCEPT !.pc = "start.reply", !.gen = auth.gen + 1]
  <2>1. auth' = [Invalidated(auth) EXCEPT !.rev = @ + 1] /\ Become(Put(c, s), update)
    BY <1>5 DEF StartAuth
  <2>2. auth'.gen >= auth.gen /\ auth'.cred = auth.cred
    <3>1. /\ Invalidated(auth) \in Auth /\ Invalidated(auth).gen = auth.gen + 1
          /\ Invalidated(auth).cred = auth.cred
      BY <1>1, InvalidatedType
    <3> QED
      BY <1>1, <2>1, <3>1 DEF Auth
  <2>3. s.pc = "start.reply" /\ s.cred = NoCred
    BY DEF Idle
  <2> QED
    BY <1>2, <1>4, <2>1, <2>2, <2>3
<1>6. CASE Disconnect(c)
  <2> DEFINE s == [Idle EXCEPT !.pc = "disconnect.lock", !.gen = auth.gen + 1,
                               !.rev = auth.rev + 1, !.cred = auth.cred]
  <2>1. auth' = Forgotten(auth) /\ Become(Put(c, s), update)
    BY <1>6 DEF Disconnect
  <2>2. auth'.gen >= auth.gen /\ auth'.cred = NoCred
    BY <1>1, <2>1, ForgottenType
  <2>3. s.pc = "disconnect.lock" /\ s.cred = auth.cred
    BY DEF Idle
  <2> HIDE DEF s
  <2>4. s.pc \notin Locked \cup Successors
    BY <1>2, <2>3
  <2>5. Handles(c, s)
    BY <1>3, <2>3, <2>4, KindsOfTokenPoints DEF Handles
  <2> QED
    BY <1>1, <1>3, <2>1, <2>2, <2>4, <2>5, QuietPutKeepsTokens, KindsOfTokenPoints
<1>7. CASE PollAuth(c)
  <2> DEFINE s == [Idle EXCEPT !.pc = "poll.reply", !.gen = auth.pending.gen]
  <2>1. auth' = [auth EXCEPT !.pending.polling = TRUE] /\ Become(Put(c, s), update)
    BY <1>7 DEF PollAuth
  <2>2. auth'.gen = auth.gen /\ auth'.cred = auth.cred
    BY <1>1, <2>1 DEF Auth
  <2>3. s.pc = "poll.reply" /\ s.cred = NoCred
    BY DEF Idle
  <2> QED
    BY <1>1, <1>2, <1>4, <2>1, <2>2, <2>3
<1>8. CASE ValidateAuth(c) \/ Connect(c) \/ StopPublish(c) \/ DisconnectPublish(c)
  <2> DEFINE s == [Idle EXCEPT !.pc = "connect.reserve", !.login = auth.gen]
             t == [r EXCEPT !.pc = "validate.lock"]
  <2>1. /\ auth' = auth
        /\ \/ Become(Put(c, Idle), update) \/ Become(Put(c, s), update)
           \/ Become(Put(c, t), update)
    BY <1>8 DEF ValidateAuth, Connect, StopPublish, DisconnectPublish, loginVars, Finish, Goto
  <2>2. /\ s.pc = "connect.reserve" /\ s.cred = NoCred
        /\ t.pc = "validate.lock" /\ t.cred = r.cred
    BY <1>1 DEF Idle, Op
  <2> HIDE DEF s, t
  <2> QED
    BY <1>1, <1>2, <1>4, <2>1, <2>2
<1>9. CASE DisconnectLocked(c)
  <2> DEFINE s == [r EXCEPT !.pc = "disconnect.store"]
  <2>1. auth' = auth /\ r.pc = "disconnect.lock" /\ update = NoActor /\ Become(Put(c, s), c)
    BY <1>9 DEF DisconnectLocked
  <2>2. s.pc = "disconnect.store" /\ s.cred = r.cred /\ s.gen = r.gen
    BY <1>1 DEF Op
  <2> HIDE DEF s
  <2>3. s.pc \notin Locked \cup Successors
    BY <1>2, <2>2
  <2>4. Handles(c, s)
    BY <1>2, <1>3, <2>1, <2>2, <2>3, KindsOfTokenPoints DEF Handles
  <2> QED
    BY <1>1, <1>3, <2>1, <2>3, <2>4, QuietPutKeepsTokens, KindsOfTokenPoints
<1>10. CASE DisconnectStored(c)
  <2>1. /\ r.pc \in Tickets
        /\ auth' = auth \/ auth' = Restored(r)
        /\ \/ Become(Put(c, [r EXCEPT !.pc = "disconnect.cancel"]), Released(c))
           \/ Become(Put(c, Idle), update)
    BY <1>2, <1>10 DEF DisconnectStored, Finish
  <2>2. /\ auth'.gen = auth.gen
        /\ \/ auth'.cred \in {auth.cred, NoCred}
           \/ r.pc \in Tickets /\ r.gen = auth.gen /\ auth'.cred = r.cred
    BY <1>1, <2>1 DEF Restored, Auth
  <2>3. /\ [r EXCEPT !.pc = "disconnect.cancel"].pc \notin Watched
        /\ [r EXCEPT !.pc = "disconnect.cancel"].cred = r.cred
    BY <1>1, <1>2 DEF Op
  <2> QED
    BY <1>1, <1>2, <1>4, <2>1, <2>2, <2>3
<1> QED
  BY <1>5, <1>6, <1>7, <1>8, <1>9, <1>10 DEF Plain, LoginCall

LEMMA TaskStepsKeepTokens ==
  ASSUME TypeOK, TypeOK', GenerationsKnown, LoginInv, SpentInv,
         NEW g \in Tasks, TaskStep(g)
  PROVE  SpentInv'
<1> DEFINE r == op[g]
<1>1. /\ g \in Actors /\ r \in Op /\ auth.gen \in Nat /\ auth'.gen \in Nat /\ issued \in Nat
      /\ issued >= issued /\ auth.gen >= auth.gen
  BY ActorKinds, OpFields, Numbers, NumbersNext
<1>2. /\ auth' = auth /\ valid' = valid /\ issued' = issued /\ spoiled' = spoiled
      /\ r.pc \notin Granted
  BY DEF TaskStep, TaskLookup, TaskFound, TaskBegin, TaskSocketFails, TaskWelcome,
    TaskSent, TaskLocked, TaskConnected, TaskFrame, Dispatch, TaskRevoked, TaskSwitch,
    TaskSwitched, TaskDrops, TaskDown, TaskAwakes, TaskEnd, Moves, Publishes, loginVars,
    ghostVars, Granted
<1>3. TokensStay
  BY <1>1, <1>2 DEF TokensStay
<1> DEFINE Calm == {"task.found", "end.Error", "task.begin", "task.socket",
             "task.down", "end.AuthRequired", "end.Disconnected", "task.connected",
             "task.live", "task.frame", "task.handover", "task.overlap",
             "task.switch", "task.sleep", "idle", "task.lock", "clear.begin"}
<1>4. ASSUME NEW s, Become(Put(g, s), update), s.pc \notin Watched,
             s.cred \in {r.cred, auth.cred, NoCred}
      PROVE  SpentInv'
  BY <1>1, <1>2, <1>3, <1>4, MovingKeepsTokens
<1>5. \A pc \in Calm : /\ [r EXCEPT !.pc = pc].pc \notin Watched
                       /\ [r EXCEPT !.pc = pc].cred = r.cred
  <2>1. Calm \cap Watched = {}
    BY DEF Watched, Locked, Requests, Successors, Granted, Tickets
  <2> HIDE DEF Calm
  <2> QED
    BY <1>1, <2>1 DEF Op
<1>6. ASSUME NEW pc \in Calm, Goto(g, pc) PROVE SpentInv'
  <2>1. Become(Put(g, [r EXCEPT !.pc = pc]), update)
    BY <1>6 DEF Goto
  <2> HIDE DEF Calm
  <2> QED
    BY <1>4, <1>5, <2>1
<1>7. CASE \/ TaskLookup(g) \/ TaskBegin(g) \/ TaskSocketFails(g) \/ TaskConnected(g)
           \/ TaskFrame(g) \/ Dispatch(g)
  BY <1>6, <1>7 DEF TaskLookup, TaskBegin, TaskSocketFails, TaskConnected,
    TaskFrame, Dispatch, Moves, Publishes
<1>8. CASE \/ TaskRevoked(g) \/ TaskSwitch(g) \/ TaskSwitched(g) \/ TaskDrops(g)
           \/ TaskDown(g) \/ TaskAwakes(g) \/ TaskEnd(g)
  BY <1>6, <1>8 DEF TaskRevoked, TaskSwitch, TaskSwitched, TaskDrops, TaskDown,
    TaskAwakes, TaskEnd, Moves, Publishes
<1>9. CASE TaskFound(g)
  <2>1. Idle.pc \notin Watched /\ Idle.cred = NoCred
    BY IdleHarmless, KindsOfTokenPoints DEF NoCred
  <2> QED
    BY <1>4, <1>6, <1>9, <2>1 DEF TaskFound, Finish
<1>10. CASE TaskWelcome(g)
  <2> DEFINE s == [r EXCEPT !.pc = "task.send", !.gen = auth.gen, !.rev = auth.rev,
                            !.cred = auth.cred, !.second = FALSE]
  <2>1. s.pc = "task.send" /\ s.cred = auth.cred
    BY <1>1 DEF Op
  <2>2. "task.send" \notin Watched
    BY DEF Watched, Locked, Requests, Successors, Granted, Tickets
  <2>3. \/ Become(Put(g, [r EXCEPT !.pc = "task.down"]), update)
        \/ Become(Put(g, [r EXCEPT !.pc = "end.Disconnected"]), update)
        \/ Become(Put(g, s), update)
    BY <1>10 DEF TaskWelcome
  <2>4. ASSUME NEW pc \in Calm, Become(Put(g, [r EXCEPT !.pc = pc]), update)
        PROVE  SpentInv'
    <3> HIDE DEF Calm
    <3> QED
      BY <1>4, <1>5, <2>4
  <2> HIDE DEF s
  <2>5. CASE Become(Put(g, s), update)
    BY <1>4, <2>1, <2>2, <2>5
  <2> QED
    BY <2>3, <2>4, <2>5
<1>11. CASE TaskSent(g)
  <2>1. \/ \E pc \in Calm : Become(Put(g, [r EXCEPT !.pc = pc]), update)
        \/ Become(Put(g, [r EXCEPT !.pc = "clear.begin", !.why = "rejected"]), update)
    BY <1>11 DEF TaskSent, Goto
  <2>2. /\ [r EXCEPT !.pc = "clear.begin", !.why = "rejected"].pc \notin Watched
        /\ [r EXCEPT !.pc = "clear.begin", !.why = "rejected"].cred = r.cred
    BY <1>1 DEF Op, Watched, Locked, Requests, Successors, Granted, Tickets
  <2> HIDE DEF Calm
  <2> QED
    BY <1>4, <1>5, <2>1, <2>2
<1>12. CASE TaskLocked(g)
  <2> DEFINE s == [r EXCEPT !.pc = "refresh.request"]
  <2>1. /\ update = NoActor
        /\ \/ Become(Put(g, [r EXCEPT !.pc = "task.down"]), update)
           \/ Become(Put(g, [r EXCEPT !.pc = "end.Disconnected"]), update)
           \/ Become(Put(g, Latest(r)), update)
           \/ Become(Put(g, s), g) /\ Matches(r) /\ auth.cred # NoCred
    BY <1>12 DEF TaskLocked, Goto
  <2>2. CASE Become(Put(g, s), g) /\ Matches(r) /\ auth.cred # NoCred
    <3>1. s.pc = "refresh.request" /\ s.cred = auth.cred
      BY <1>1, <2>2 DEF Op, Matches
    <3>2. auth.cred \in valid' \cup spoiled'
      BY <1>2, <2>1, <2>2, FreeLockMeansTaken
    <3> HIDE DEF s
    <3>3. s.pc \notin Tickets \cup Successors
      BY <3>1, KindsOfTokenPoints
    <3>4. Handles(g, s)
      BY <1>2, <3>1, <3>2, <3>3 DEF Handles
    <3> QED
      BY <1>1, <1>2, <1>3, <2>1, <2>2, <3>3, <3>4, QuietPutKeepsTokens, KindsOfTokenPoints
  <2> HIDE DEF s
  <2> QED
    BY <1>1, <1>4, <1>5, <2>1, <2>2, LeavesUnwatched
<1> QED
  BY <1>7, <1>8, <1>9, <1>10, <1>11, <1>12 DEF TaskStep

\* An invocation that leaves to where no token is at stake, and one that stays
\* where it is, though perhaps aborted.
Leaves(b, s) ==
  /\ s.pc \notin Watched /\ s.cred \in {op[b].cred, auth.cred, NoCred}
  /\ op[b].pc \in Granted => op[b].cred \in spoiled'

Stays(b, s) ==
  /\ s.pc = op[b].pc /\ s.gen = op[b].gen /\ s.cred = op[b].cred /\ s.fresh = op[b].fresh
  /\ s.alive = op[b].alive \/ s.pc \notin Awaits

LEMMA LeavingKeepsTokens ==
  ASSUME TypeOK, TypeOK', LoginInv, SpentInv, NEW a \in Actors,
         auth' = auth, valid' = valid, issued' = issued, spoiled \subseteq spoiled',
         NEW holder \in {update, Released(a)}, Become(op', holder),
         \A b \in Actors : Leaves(b, op'[b]) \/ (b # a /\ Stays(b, op'[b]))
  PROVE  SpentInv'
<1>1. /\ issued \in Nat /\ issued' >= issued
      /\ \A b \in Actors : op[b].fresh \in Nat /\ op[b].fresh <= issued
  BY Numbers, LoginInvNow, OpInvNow
<1>2. ASSUME NEW b \in Actors PROVE Handles(b, op'[b])
  <2>1. CASE Leaves(b, op'[b])
    BY <2>1, ElsewhereHandles DEF Leaves
  <2>2. CASE Stays(b, op'[b])
    BY <2>2, TokenInvNow DEF Handles, Stays
  <2> QED
    BY <1>2, <2>1, <2>2
<1>3. ASSUME NEW b \in Actors, op'[b].pc \in Watched PROVE b # a /\ Stays(b, op'[b])
  BY <1>3 DEF Leaves
<1>4. ASSUME NEW b \in Actors, op'[b].pc \in Locked PROVE update' = b
  BY <1>3, <1>4, KindsOfTokenPoints, LockStays DEF Stays
<1>5. ASSUME NEW b \in Actors, op'[b].pc \in Granted \cup {"refresh.request"}
      PROVE  op'[b].alive
  BY <1>3, <1>5, KindsOfTokenPoints, TokenInvNow DEF Stays
<1>6. ASSUME NEW b \in Actors, op'[b].pc \in Successors PROVE ~(op'[b].fresh > issued)
  BY <1>1, <1>3, <1>6, KindsOfTokenPoints DEF Stays
<1>7. \A x \in valid : KeptNext(x)
  BY DEF KeptNext
<1>8. \A b \in Actors : op[b].pc \in Successors => op[b].fresh \in valid'
  BY TokenInvNow
<1>9. auth'.cred \in {auth.cred, NoCred}
  OBVIOUS
<1>10. \A b, c \in Actors : (/\ op'[b].pc \in Successors /\ op'[c].pc \in Successors
                             /\ op'[b].fresh > issued /\ op'[c].fresh > issued) => b = c
  BY <1>6
<1> QED
  BY <1>1, <1>2, <1>4, <1>5, <1>7, <1>8, <1>9, <1>10, HandlingKeeps

\* An aborted task that was at an await is dropped there; Twitch's answer to a
\* refresh that it dropped is lost.
LEMMA AbortingLeaves ==
  ASSUME TypeOK, NEW a \in Actors, NEW s \in Op, op[a].pc \notin Granted,
         s.pc \notin Watched, s.cred \in {op[a].cred, auth.cred, NoCred},
         NEW g \in Nat, NEW o, o = Aborted(Put(a, s), g), SpoiledBy(o) \subseteq spoiled'
  PROVE  /\ o \in [Actors -> Op]
         /\ \A b \in Actors : Leaves(b, o[b]) \/ (b # a /\ Stays(b, o[b]))
<1> DEFINE p == Put(a, s)
<1>1. /\ p \in [Actors -> Op] /\ Arrived(p[a], s)
      /\ \A b \in Actors \ {a} : p[b] = op[b]
  BY OpFields, PutType
<1>2. /\ p[a].pc \notin Watched /\ p[a].cred \in {op[a].cred, auth.cred, NoCred}
  BY <1>1, IdleHarmless, KindsOfTokenPoints DEF Arrived, NoCred
<1> HIDE DEF p
<1> DEFINE t == IF p[g].pc \in Awaits THEN Idle
                ELSE IF p[g].pc = "idle" THEN p[g]
                ELSE [p[g] EXCEPT !.alive = FALSE]
<1>3. /\ o = p \/ o = [p EXCEPT ![g] = t]
      /\ \/ t \in {Idle, p[g]}
         \/ p[g].pc \notin Awaits /\ t = [p[g] EXCEPT !.alive = FALSE]
      /\ g \in Actors => t \in Op
  <2>1. o = p \/ o = [p EXCEPT ![g] = t]
    BY DEF Aborted, p
  <2>2. \/ t \in {Idle, p[g]}
        \/ p[g].pc \notin Awaits /\ t = [p[g] EXCEPT !.alive = FALSE]
    OBVIOUS
  <2>3. g \in Actors => t \in Op
    BY <1>1, IdleType DEF Op
  <2> QED
    BY <2>1, <2>2, <2>3
<1> HIDE DEF t
<1>4. /\ o \in [Actors -> Op]
      /\ \A b \in Actors :
           \/ o[b] = p[b]
           \/ b \in Tasks /\ o[b] = Idle
           \/ p[b].pc \notin Awaits /\ o[b] = [p[b] EXCEPT !.alive = FALSE]
  <2>1. g \in Actors => g \in Tasks
    BY ActorKinds
  <2>2. \A b \in Actors : o[b] = p[b] \/ (b = g /\ o[b] = t)
    BY <1>1, <1>3
  <2>3. o \in [Actors -> Op]
    BY <1>1, <1>3
  <2> QED
    BY <1>3, <2>1, <2>2, <2>3
<1>5. \A b \in Actors : /\ [p[b] EXCEPT !.alive = FALSE].pc = p[b].pc
                        /\ [p[b] EXCEPT !.alive = FALSE].gen = p[b].gen
                        /\ [p[b] EXCEPT !.alive = FALSE].cred = p[b].cred
                        /\ [p[b] EXCEPT !.alive = FALSE].fresh = p[b].fresh
  BY <1>1 DEF Op
<1>6. Leaves(a, o[a])
  <2>1. o[a].pc \in {p[a].pc, "idle"} /\ o[a].cred \in {p[a].cred, NoCred}
    BY <1>4, <1>5, IdleHarmless DEF NoCred
  <2> QED
    BY <1>2, <2>1, KindsOfTokenPoints DEF Leaves
<1>7. ASSUME NEW b \in Actors, b # a PROVE Leaves(b, o[b]) \/ Stays(b, o[b])
  <2>1. p[b] = op[b]
    BY <1>1, <1>7
  <2>2. CASE b \in Tasks /\ o[b] = Idle
    <3>1. op[b].pc \in Granted => op[b].cred \in SpoiledBy(o)
      BY <2>2, IdleHarmless DEF SpoiledBy, Granted
    <3> QED
      BY <2>2, <3>1, IdleHarmless, KindsOfTokenPoints DEF Leaves, NoCred
  <2>3. CASE o[b] = p[b]
    BY <2>1, <2>3 DEF Stays
  <2>4. CASE p[b].pc \notin Awaits /\ o[b] = [p[b] EXCEPT !.alive = FALSE]
    BY <1>5, <2>1, <2>4 DEF Stays
  <2> QED
    BY <1>4, <2>2, <2>3, <2>4
<1> QED
  BY <1>4, <1>6, <1>7

\* The steps that take the connection away, or hand it out.
LEMMA ChatStepsKeepTokens ==
  ASSUME ChatInv, TypeOK', LoginInv, SpentInv, NEW a \in Actors,
         \/ ClearCancel(a)
         \/ /\ a \in Commands
            /\ \/ DisconnectCancel(a) \/ Stop(a) \/ ConnectReserve(a)
               \/ ConnectRegister(a) \/ ConnectPublish(a) \/ ConnectGo(a)
  PROVE  SpentInv'
<1>1. /\ TypeOK /\ GenerationsKnown /\ ConnectionInv
      /\ op[a] \in Op /\ op \in [Actors -> Op] /\ op[a].conn \in Nat
      /\ owner.gen \in Nat /\ owner.gen + 1 \in Nat /\ owner.conn \in Nat
      /\ issued \in Nat /\ issued >= issued /\ auth.gen \in Nat /\ auth.gen >= auth.gen
  BY OpFields, ConnectionFields, Numbers DEF ChatInv
<1>2. auth' = auth /\ valid' = valid /\ issued' = issued /\ spoiled \subseteq spoiled'
  BY DEF ClearCancel, DisconnectCancel, Stop, ConnectReserve, ConnectRegister,
    ConnectPublish, ConnectGo, loginVars, ghostVars
<1>3. op[a].pc \notin Granted
  BY DEF ClearCancel, DisconnectCancel, Stop, Call, ConnectReserve, ConnectRegister,
    ConnectPublish, ConnectGo, Granted
<1>4. /\ {"disconnect.publish", "stop.publish", "connect.register", "connect.publish",
          "connect.go", "task.wait", "task.lookup"} \cap Watched = {}
      /\ {"disconnect.publish", "stop.publish", "connect.register",
          "end.AuthRequired"} \subseteq Points
  BY DEF Watched, Locked, Requests, Successors, Granted, Tickets, Points, Ends
<1>5. Leaves(a, Idle) /\ Idle \in Op
  BY <1>3, IdleType, IdleHarmless, KindsOfTokenPoints DEF Leaves, NoCred
<1>6. ASSUME NEW s \in Op, s.pc \notin Watched, s.cred \in {op[a].cred, auth.cred, NoCred},
             NEW g \in Nat, NEW o, o = Aborted(Put(a, s), g), SpoiledBy(o) \subseteq spoiled'
      PROVE  /\ o \in [Actors -> Op]
             /\ \A b \in Actors : Leaves(b, o[b]) \/ (b # a /\ Stays(b, o[b]))
  BY <1>1, <1>3, <1>6, AbortingLeaves
<1>7. ASSUME NEW holder \in {update, Released(a)}, Become(op', holder),
             \A b \in Actors : Leaves(b, op'[b]) \/ (b # a /\ Stays(b, op'[b]))
      PROVE  SpentInv'
  BY <1>1, <1>2, <1>7, LeavingKeepsTokens
<1>8. ASSUME NEW s \in Op, s.pc \notin Watched, s.cred \in {op[a].cred, auth.cred, NoCred},
             NEW holder \in {update, Released(a)},
             Become(Aborted(Put(a, s), owner.conn), holder),
             SpoiledBy(Aborted(Put(a, s), owner.conn)) \subseteq spoiled'
      PROVE  SpentInv'
  <2> DEFINE o == Aborted(Put(a, s), owner.conn)
  <2>1. \A b \in Actors : Leaves(b, o[b]) \/ (b # a /\ Stays(b, o[b]))
    BY <1>1, <1>6, <1>8
  <2>2. Become(op', holder) /\ op' = o
    BY <1>8 DEF Become
  <2> HIDE DEF o
  <2> QED
    BY <1>7, <2>1, <2>2
<1>9. CASE ClearCancel(a)
  <2> DEFINE s == ClearReturned(a, "true")
  <2>1. s.pc \notin Watched /\ s.cred \in {op[a].cred, auth.cred, NoCred}
    BY <1>1, LeavesUnwatched
  <2>2. s \in Op
    <3>1. s = Idle \/ s = [op[a] EXCEPT !.pc = "end.AuthRequired"]
      BY DEF ClearReturned
    <3>2. [op[a] EXCEPT !.pc = "end.AuthRequired"] \in Op
      BY <1>1, <1>4 DEF Op
    <3> QED
      BY <1>5, <3>1, <3>2
  <2>3. /\ Become(Aborted(Put(a, s), owner.conn), Released(a))
        /\ SpoiledBy(Aborted(Put(a, s), owner.conn)) \subseteq spoiled'
    BY <1>9 DEF ClearCancel
  <2> HIDE DEF s
  <2> QED
    BY <1>8, <2>1, <2>2, <2>3
<1>10. CASE DisconnectCancel(a)
  <2> DEFINE s == [op[a] EXCEPT !.pc = "disconnect.publish", !.conn = owner.gen + 1]
  <2>1. s \in Op /\ s.pc = "disconnect.publish" /\ s.cred = op[a].cred
    BY <1>1, <1>4 DEF Op
  <2>2. /\ Become(Aborted(Put(a, s), owner.conn), update)
        /\ SpoiledBy(Aborted(Put(a, s), owner.conn)) \subseteq spoiled'
    BY <1>10 DEF DisconnectCancel
  <2> HIDE DEF s
  <2> QED
    BY <1>4, <1>8, <2>1, <2>2
<1>11. CASE Stop(a)
  <2> DEFINE s == [Idle EXCEPT !.pc = "stop.publish", !.conn = owner.gen + 1]
  <2>1. s \in Op /\ s.pc = "stop.publish" /\ s.cred = NoCred
    BY <1>1, <1>4, <1>5, IdleHarmless DEF Op, NoCred
  <2>2. /\ Become(Aborted(Put(a, s), owner.conn), update)
        /\ SpoiledBy(Aborted(Put(a, s), owner.conn)) \subseteq spoiled'
    BY <1>11 DEF Stop
  <2> HIDE DEF s
  <2> QED
    BY <1>4, <1>8, <2>1, <2>2
\* The new task was not there before.
<1>12. CASE ConnectReserve(a)
  <2> DEFINE g == owner.gen + 1
             s == [op[a] EXCEPT !.pc = "connect.register", !.conn = g]
             o == Aborted(Put(a, s), owner.conn)
             task == [Idle EXCEPT !.pc = "task.wait", !.login = op[a].login]
  <2>1. s \in Op /\ s.pc = "connect.register" /\ s.cred = op[a].cred
    BY <1>1, <1>4 DEF Op
  <2>2. task.pc = "task.wait" /\ task.cred = NoCred
    BY DEF Idle
  <2>3. Become([o EXCEPT ![g] = task], update) /\ SpoiledBy(o) \subseteq spoiled'
    BY <1>12 DEF ConnectReserve
  <2> HIDE DEF task, s
  <2>4. /\ o \in [Actors -> Op]
        /\ \A b \in Actors : Leaves(b, o[b]) \/ (b # a /\ Stays(b, o[b]))
    BY <1>1, <1>4, <1>6, <2>1, <2>3
  <2> HIDE DEF o
  <2>5. ASSUME NEW b \in Actors, b = g PROVE Leaves(b, task)
    <3>1. b \in Tasks
      BY <1>1, <2>5, ActorKinds
    <3>2. op[b].pc = "idle"
      BY <1>1, <2>5, <3>1 DEF ConnectionInv, TaskInv
    <3> QED
      BY <1>4, <2>2, <3>2, KindsOfTokenPoints DEF Leaves
  <2>6. Become(op', update) /\ op' = [o EXCEPT ![g] = task]
    BY <2>3 DEF Become
  <2>7. \A b \in Actors : op'[b] = o[b] \/ (b = g /\ op'[b] = task)
    BY <2>4, <2>6
  <2> QED
    BY <1>7, <2>4, <2>5, <2>6, <2>7
<1>13. CASE a \in Commands /\ ConnectRegister(a)
  <2> DEFINE g == op[a].conn
             o == Aborted(Put(a, Idle), g)
  <2>1. CASE Goto(a, "connect.publish")
    <3>1. /\ [op[a] EXCEPT !.pc = "connect.publish"].pc = "connect.publish"
          /\ [op[a] EXCEPT !.pc = "connect.publish"].cred = op[a].cred
      BY <1>1 DEF Op
    <3> QED
      BY <1>1, <1>2, <1>3, <1>4, <2>1, <3>1, MovingKeepsTokens DEF Goto, TokensStay
  <2>2. CASE Become(o, update)
    <3>1. g \in Tasks => op[g].pc \in {"idle", "task.wait"}
      BY <1>1, <1>13 DEF ConnectionInv, CommandInv, Connecting, ConnectRegister
    <3>2. ASSUME NEW t \in Tasks, op[t].pc \in Granted PROVE o[t].pc = op[t].pc
      <4>1. t # g /\ t # a /\ t \in Actors
        BY <1>13, <3>1, <3>2, ActorKinds DEF Granted
      <4> DEFINE p == Put(a, Idle)
      <4>2. p \in [Actors -> Op] /\ p[t] = op[t] /\ o = Aborted(p, g)
        BY <1>1, <1>5, <4>1, PutType
      <4> HIDE DEF p, o, g
      <4>3. Aborted(p, g)[t] = p[t]
        BY <4>1, <4>2 DEF Aborted
      <4> QED
        BY <4>2, <4>3
    <3>3. SpoiledBy(o) = {}
      BY <3>2 DEF SpoiledBy, Granted
    <3>4. SpoiledBy(o) \subseteq spoiled'
      BY <3>3
    <3> HIDE DEF o
    <3>5. Become(op', update) /\ op' = o
      BY <2>2 DEF Become
    <3>6. \A b \in Actors : Leaves(b, o[b]) \/ (b # a /\ Stays(b, o[b]))
      BY <1>1, <1>5, <1>6, <3>4, IdleHarmless, KindsOfTokenPoints DEF o, NoCred
    <3> QED
      BY <1>7, <3>5, <3>6
  <2> QED
    BY <1>13, <2>1, <2>2 DEF ConnectRegister
<1>14. CASE ConnectPublish(a)
  <2>1. /\ [op[a] EXCEPT !.pc = "connect.go"].pc = "connect.go"
        /\ [op[a] EXCEPT !.pc = "connect.go"].cred = op[a].cred
    BY <1>1 DEF Op
  <2>2. Become(Put(a, [op[a] EXCEPT !.pc = "connect.go"]), update)
    BY <1>14 DEF ConnectPublish, Goto
  <2> QED
    BY <1>1, <1>2, <1>3, <1>4, <2>1, <2>2, MovingKeepsTokens DEF TokensStay
\* The task goes from its start gate to the lookup.
<1>15. CASE a \in Commands /\ ConnectGo(a)
  <2> DEFINE g == op[a].conn
             s == [op[g] EXCEPT !.pc = IF @ = "task.wait" THEN "task.lookup" ELSE @]
  <2>1. /\ Become(op', update)
        /\ op' = [op EXCEPT ![a] = Idle,
                            ![g].pc = IF @ = "task.wait" THEN "task.lookup" ELSE @]
    BY <1>15 DEF ConnectGo, Become
  <2>2. g # a
    BY <1>1, <1>15, ActorKinds
  <2>3. op' = [[op EXCEPT ![a] = Idle] EXCEPT ![g] = s]
    BY <1>1, <2>1, <2>2
  <2>4. ASSUME g \in Actors
        PROVE  \/ s = op[g]
               \/ op[g].pc = "task.wait" /\ s.pc = "task.lookup" /\ s.cred = op[g].cred
    BY <1>1, <2>4 DEF Op
  <2> HIDE DEF s
  <2>5. ASSUME g \in Actors PROVE Leaves(g, s) \/ (g # a /\ Stays(g, s))
    <3>1. CASE s = op[g]
      BY <2>2, <3>1 DEF Stays
    <3>2. CASE op[g].pc = "task.wait" /\ s.pc = "task.lookup" /\ s.cred = op[g].cred
      BY <1>4, <3>2 DEF Leaves, Granted
    <3> QED
      BY <2>4, <2>5, <3>1, <3>2
  <2> HIDE DEF g
  <2>6. \A b \in Actors : \/ b = a /\ op'[b] = Idle
                          \/ b # a /\ op'[b] = op[b]
                          \/ b = g /\ op'[b] = s
    BY <1>1, <2>3
  <2>7. \A b \in Actors : Stays(b, op[b])
    BY DEF Stays
  <2> QED
    BY <1>5, <1>7, <2>1, <2>5, <2>6, <2>7
<1> QED
  BY <1>9, <1>10, <1>11, <1>12, <1>13, <1>14, <1>15

LEMMA JobStepsKeepTokens ==
  ASSUME TypeOK, SpentInv, NEW a \in Actors, JobStep(a)
  PROVE  SpentInv'
<1>1. auth' = auth /\ op' = op
  BY JobStepsKeepTypes
<1>2. update' = update /\ valid' = valid /\ spoiled' = spoiled
  BY DEF JobStep, JobStart, JobWrite, JobFault, JobEnd, ghostVars
<1> QED
  BY <1>1, <1>2 DEF SpentInv, TokenInv, Kept, Unseen

\* What a restart finds in the keyring is taken by Twitch, or known not to be.
LEMMA StartsWithToken ==
  /\ Init => SpentInv
  /\ Restart => SpentInv'
<1>1. Idle.pc \notin Watched
  BY IdleHarmless, KindsOfTokenPoints
<1>2. ASSUME Init PROVE SpentInv
  <2>1. /\ auth.cred # NoCred => auth.cred \in valid
        /\ \A a \in Actors : op[a] = Idle
    BY <1>2 DEF Init
  <2>2. \A a \in Actors : op[a].pc \notin Watched
    BY <1>1, <2>1
  <2>3. \A a \in Actors : TokenInv(a)
    BY <2>2, KindsOfTokenPoints DEF TokenInv
  <2> QED
    BY <2>1, <2>3 DEF SpentInv, Kept
<1>3. ASSUME Restart PROVE SpentInv'
  <2>1. /\ auth'.cred # NoCred => auth'.cred \in valid' \cup spoiled'
        /\ \A a \in Actors : op'[a] = Idle
    BY <1>3 DEF Restart
  <2>2. \A a \in Actors : op'[a].pc \notin Watched
    BY <1>1, <2>1
  <2>3. \A a \in Actors : TokenInv(a)'
    BY <2>2, KindsOfTokenPoints DEF TokenInv
  <2> QED
    BY <2>1, <2>3 DEF SpentInv, Kept
<1> QED
  BY <1>2, <1>3

LEMMA StepKeepsTokens ==
  ASSUME ChatInv, PollInv, LoginInv, SpentInv, [Next]_vars
  PROVE  SpentInv'
<1>1. TypeOK /\ TypeOK' /\ GenerationsKnown /\ Tasks \subseteq Actors /\ Commands \subseteq Actors
  BY StepKeeps, ActorKinds DEF ChatInv
<1>2. CASE UNCHANGED vars
  BY <1>2 DEF vars, SpentInv, TokenInv, Kept, Unseen
<1>3. CASE Next
  BY <1>1, <1>3, NextSteps, LoginStepsKeepTokens, RefreshStepsKeepTokens,
    ClearStepsKeepTokens, PlainStepsKeepTokens, TaskStepsKeepTokens,
    ChatStepsKeepTokens, JobStepsKeepTokens, StartsWithToken
<1> QED
  BY <1>2, <1>3

\* What SpentInv says of the refresh tokens that Twitch takes, and of those
\* who present one or hold its successor, holds whatever happens
\* (subscription.rs, refresh_eventsub_access_token; oauth.rs,
\* refresh_and_validate; auth_service.rs, persist_credential_rotation).
THEOREM TokenInvariance == Spec => [](ChatInv /\ PollInv /\ LoginInv /\ SpentInv)
<1>1. Init => SpentInv
  BY StartsWithToken
<1>2. ChatInv /\ PollInv /\ LoginInv /\ SpentInv /\ [Next]_vars => SpentInv'
  BY StepKeepsTokens
<1> QED
  BY <1>1, <1>2, LoginInvariance, PTL DEF Spec

\* However commands and EventSub tasks race for it, a refresh token is only
\* presented while Twitch takes it, unless the answer that replaced it was
\* lost (subscription.rs, refresh_eventsub_access_token).
THEOREM RefreshTokensAreSpentOnce == Spec => []RefreshTokenSpentOnce
<1>1. SpentInv => RefreshTokenSpentOnce
  <2>1. "refresh.request" \in Requests
    BY DEF Requests
  <2> QED
    BY <2>1, TokenInvNow DEF RefreshTokenSpentOnce
<1> QED
  BY <1>1, TokenInvariance, PTL

-----------------------------------------------------------------------------
(***************************************************************************)
(* The keyring, at rest.                                                   *)
(***************************************************************************)
\* A job is of the clear that waits for it, and a disconnect that waits for
\* the lock has left its former job behind.
JobsInv ==
  \A a \in Actors :
    /\ job[a].kind = "none" => job[a].state = "none"
    /\ op[a].pc = "disconnect.lock" => job[a].gen < op[a].gen
    /\ op[a].pc \in {"disconnect.store", "clear.store"} =>
         job[a].kind = "clear" /\ job[a].gen = op[a].gen /\ job[a].rev = op[a].rev

\* A job that will write what is installed, and a clear that is to put back
\* what it could not remove.
WillSave(a) ==
  job[a].kind = "save" /\ job[a].state \in {"queued", "writing"} /\ JobIsCurrent(a)
Failed(a) ==
  job[a].kind = "clear" /\ job[a].state = "failed" /\ JobIsCurrent(a)

\* What is installed is in the keyring, or will be; so also when an older job
\* is writing there.
SavedInv ==
  /\ auth.cred # NoCred =>
       store = auth.cred \/ storeFault \/ \E a \in Actors : WillSave(a)
  /\ \A a \in Actors : job[a].state = "writing" /\ ~JobIsCurrent(a) /\ auth.cred # NoCred =>
       \E b \in Actors : WillSave(b)
  /\ \A a \in Actors : Failed(a) =>
       storeFault /\ \A b \in Actors : job[b].state # "writing"

\* What JobsInv says of one invocation.
JobOf(a) ==
  /\ job[a].kind = "none" => job[a].state = "none"
  /\ op[a].pc = "disconnect.lock" => job[a].gen < op[a].gen
  /\ op[a].pc \in {"disconnect.store", "clear.store"} =>
       job[a].kind = "clear" /\ job[a].gen = op[a].gen /\ job[a].rev = op[a].rev

LEMMA JobsByActor ==
  /\ JobsInv <=> \A a \in Actors : JobOf(a)
  /\ JobsInv' <=> \A a \in Actors : JobOf(a)'
BY DEF JobsInv, JobOf

\* An invocation and its job that stay as they are, and one without either.
LEMMA StayingKeepsJob ==
  ASSUME NEW a \in Actors, JobOf(a)
  PROVE  /\ op'[a] = op[a] /\ job'[a] = job[a] => JobOf(a)'
         /\ op'[a].pc \notin Tickets /\ job'[a] \in {NoJob, job[a]} => JobOf(a)'
BY NoJobCarries DEF JobOf, Tickets

\* A step of a job leaves everything else to do with the login as it is.
LEMMA JobStepRuns ==
  ASSUME TypeOK, NEW a \in Actors, JobStep(a)
  PROVE  \E state \in {"writing", "written"} \cup Results :
           /\ JobRuns(a, state) /\ job[a].state \in {"queued", "writing", "written"}
           /\ state = "cleared" => job[a].state = "written" /\ JobIsCurrent(a) /\ job[a].kind # "save"
           /\ state = "failed" => job[a].state = "writing" /\ storeFault'
           /\ state = "writing" => JobStart(a) /\ JobIsCurrent(a)
           /\ job[a].state = "writing" => JobWrite(a) \/ JobFault(a)
<1>1. job \in [Actors -> Job] /\ Results = {"saved", "cleared", "stale", "failed"}
  BY DEF TypeOK, Results
<1>2. CASE JobStart(a)
  <2>1. CASE JobIsCurrent(a)
    <3>1. JobRuns(a, "writing")
      BY <1>1, <1>2, <2>1 DEF JobStart, JobRuns
    <3> QED
      BY <1>2, <2>1, <3>1 DEF JobStart
  <2>2. CASE ~JobIsCurrent(a)
    <3>1. JobRuns(a, "stale")
      BY <1>1, <1>2, <2>2 DEF JobStart, JobEnds, JobRuns
    <3> QED
      BY <1>1, <1>2, <3>1 DEF JobStart
  <2> QED
    BY <2>1, <2>2
<1>3. CASE JobWrite(a) \/ (JobFault(a) /\ job[a].kind = "save")
  <2>1. JobRuns(a, "written")
    BY <1>1, <1>3 DEF JobWrite, JobFault, JobRuns
  <2> QED
    BY <1>3, <2>1 DEF JobWrite, JobFault
<1>4. CASE JobFault(a) /\ job[a].kind # "save"
  <2>1. JobRuns(a, "failed")
    BY <1>1, <1>4 DEF JobFault, JobEnds, JobRuns
  <2>2. storeFault' /\ job[a].state = "writing"
    BY <1>4 DEF JobFault
  <2> QED
    BY <1>1, <1>4, <2>1, <2>2
<1>5. CASE JobEnd(a)
  <2> DEFINE state == IF ~JobIsCurrent(a) THEN "stale"
                      ELSE IF job[a].kind = "save" THEN "saved" ELSE "cleared"
  <2>1. JobRuns(a, state)
    BY <1>1, <1>5 DEF JobEnd, JobEnds, JobRuns
  <2>2. job[a].state = "written"
    BY <1>5 DEF JobEnd
  <2>3. /\ state \in {"stale", "saved", "cleared"}
        /\ state = "cleared" => JobIsCurrent(a) /\ job[a].kind # "save"
    OBVIOUS
  <2> HIDE DEF state
  <2> QED
    BY <1>1, <2>1, <2>2, <2>3
<1> QED
  BY <1>2, <1>3, <1>4, <1>5 DEF JobStep

\* Steps that carry the login on, and every other step, keep JobsInv.
LEMMA CarryingKeepsJobs ==
  ASSUME TypeOK, LoginInv, JobsInv, Carrying
  PROVE  JobsInv'
<1> SUFFICES ASSUME NEW a \in Actors PROVE JobOf(a)'
  BY JobsByActor
<1>1. JobOf(a) /\ Carries(a, op'[a])
  BY JobsByActor DEF Carrying
<1>2. op'[a].pc \in Tickets =>
        /\ op'[a].pc = op[a].pc /\ op'[a].gen = op[a].gen /\ op'[a].rev = op[a].rev
        /\ job'[a] = job[a]
  <2>1. op'[a].pc \in Tickets => Keeps(op'[a], op[a])
    BY <1>1, KindsOfPoints DEF Carries, Reads, Receives, StartsPoll, Dated
  <2> QED
    BY <2>1, KindsOfPoints DEF Keeps, SameLogin, Carrying, JobsStay, Dated
<1>3. job'[a] \in {NoJob, job[a]}
  BY DEF Carrying, JobsStay
<1> QED
  BY <1>1, <1>2, <1>3, StayingKeepsJob DEF JobOf, Tickets

LEMMA MoveKeepsJobs ==
  ASSUME TypeOK, TypeOK', ChatInv, LoginInv, JobsInv, LoginMove
  PROVE  JobsInv'
<1>1. /\ auth.gen \in Nat /\ auth'.gen \in Nat
      /\ \A b \in Actors : /\ op[b].gen \in Nat /\ job[b].gen \in Nat /\ job[b].gen <= auth.gen
                           /\ op[b].gen <= auth.gen /\ op[b] \in Op /\ job[b] \in Job
  BY Numbers, NumbersNext, LoginInvNow, JobInvNow, OpFields DEF ChatInv, GenerationsKnown
<1>2. CASE Carrying
  BY <1>2, CarryingKeepsJobs
<1>3. ASSUME NEW a \in Actors, JobOf(a)', \A b \in Actors \ {a} : op'[b] = op[b] /\ job'[b] = job[b]
      PROVE  JobsInv'
  BY <1>3, JobsByActor, StayingKeepsJob
<1>4. \A a \in Actors : JobOf(a)
  BY JobsByActor
<1>5. ASSUME NEW a \in Actors, Opens(a) PROVE JobsInv'
  <2>1. CASE op'[a].pc \in {"start.reply", "idle"} /\ job' = job
    BY <1>3, <1>4, <1>5, <2>1, StayingKeepsJob DEF Opens, Tickets
  <2>2. CASE op'[a].pc = "disconnect.lock" /\ job' = job
    <3>1. op'[a].gen = auth.gen + 1 /\ job'[a].gen < op'[a].gen
      BY <1>1, <1>5, <2>2 DEF Opens
    <3> QED
      BY <1>3, <1>4, <1>5, <2>2, <3>1 DEF Opens, JobOf
  <2>3. CASE op'[a].pc \in {"clear.store", "idle"} /\ job'[a] = ClearJob(auth'.gen, auth'.rev)
                /\ (op'[a].pc = "idle" \/ op'[a].rev = auth'.rev)
    <3>1. job'[a].kind = "clear" /\ job'[a].gen = auth'.gen /\ job'[a].rev = auth'.rev
      BY <2>3 DEF ClearJob
    <3>2. JobOf(a)'
      BY <1>5, <2>3, <3>1 DEF Opens, JobOf
    <3> QED
      BY <1>3, <1>5, <3>2 DEF Opens
  <2> QED
    BY <1>5, <2>1, <2>2, <2>3 DEF Opens
<1>6. ASSUME NEW a \in Actors, Saves(a) \/ Restores(a) PROVE JobsInv'
  <2>1. /\ op'[a].pc \notin Tickets
        /\ job'[a].kind = "none" => job'[a].state = "none"
    BY <1>6, KindsOfPoints, NoJobCarries DEF Saves, Restores, Dated
  <2>2. JobOf(a)'
    BY <2>1 DEF JobOf, Tickets
  <2> QED
    BY <1>3, <1>6, <2>2 DEF Saves, Restores
<1>7. ASSUME NEW a \in Actors, QueuesClear(a) PROVE JobsInv'
  <2>1. /\ op'[a].pc = "disconnect.store" /\ op'[a].gen = op[a].gen /\ op'[a].rev = op[a].rev
        /\ job'[a].kind = "clear" /\ job'[a].gen = op[a].gen /\ job'[a].rev = op[a].rev
    BY <1>1, <1>7 DEF QueuesClear, ClearJob, Op
  <2>2. JobOf(a)'
    BY <2>1 DEF JobOf
  <2> QED
    BY <1>3, <1>7, <2>2 DEF QueuesClear
<1>8. ASSUME NEW a \in Actors, JobStep(a) PROVE JobsInv'
  <2>1. PICK state : JobRuns(a, state) /\ job[a].state # "none"
    BY <1>8, JobStepRuns
  <2>2. /\ op' = op /\ \A b \in Actors \ {a} : job'[b] = job[b]
    BY <2>1 DEF JobRuns
  <2>3. JobOf(a)'
    <3>1. CASE job'[a] = NoJob /\ op[a].pc = "idle"
      BY <1>4, <2>2, <3>1, StayingKeepsJob DEF Tickets
    <3>2. CASE job'[a] = [job[a] EXCEPT !.state = state]
      <4>1. job'[a].kind = job[a].kind /\ job'[a].gen = job[a].gen /\ job'[a].rev = job[a].rev
        BY <1>1, <3>2 DEF Job
      <4>2. job[a].kind # "none"
        BY <1>4, <2>1 DEF JobOf
      <4> QED
        BY <1>4, <2>2, <4>1, <4>2 DEF JobOf
    <3> QED
      BY <2>1, <3>1, <3>2 DEF JobRuns
  <2> QED
    BY <1>3, <2>2, <2>3
<1>9. CASE Restart
  <2>1. \A a \in Actors : op'[a] = Idle /\ job'[a] = NoJob
    BY <1>9 DEF Restart
  <2>2. \A a \in Actors : op'[a].pc \notin Tickets
    BY <2>1, IdleHarmless, KindsOfPoints DEF Dated
  <2> QED
    BY <1>4, <2>1, <2>2, JobsByActor, StayingKeepsJob
<1> QED
  BY <1>2, <1>5, <1>6, <1>7, <1>8, <1>9 DEF LoginMove

\* What SavedInv says after a step.
CurrentNext(a) == auth'.gen = job'[a].gen /\ auth'.rev = job'[a].rev
WillSaveNext(a) ==
  job'[a].kind = "save" /\ job'[a].state \in {"queued", "writing"} /\ CurrentNext(a)
FailedNext(a) ==
  job'[a].kind = "clear" /\ job'[a].state = "failed" /\ CurrentNext(a)

\* SavedInv of the next state, from its three parts.
LEMMA SavedInvNext ==
  ASSUME auth'.cred # NoCred =>
           store' = auth'.cred \/ storeFault' \/ \E a \in Actors : WillSaveNext(a),
         \A a \in Actors : job'[a].state = "writing" /\ ~CurrentNext(a) /\ auth'.cred # NoCred =>
           \E b \in Actors : WillSaveNext(b),
         \A a \in Actors : FailedNext(a) =>
           storeFault' /\ \A b \in Actors : job'[b].state # "writing"
  PROVE  SavedInv'
BY DEF SavedInv, WillSave, Failed, JobIsCurrent, WillSaveNext, FailedNext, CurrentNext

\* A step that carries the login on does not touch the keyring.
LEMMA CarryingKeepsSaved ==
  ASSUME SavedInv, Carrying, store' = store, storeFault' = storeFault
  PROVE  SavedInv'
<1>1. \A a \in Actors : job[a].state \in {"queued", "writing"} => job'[a] = job[a]
  BY DEF Carrying, JobsStay, Returned, Results
<1>2. \A a \in Actors : WillSave(a) => WillSaveNext(a)
  BY <1>1 DEF WillSave, JobIsCurrent, Carrying, WillSaveNext, CurrentNext
<1>3. \A a \in Actors : job'[a].state = "writing" => job'[a] = job[a]
  BY NoJobCarries DEF Carrying, JobsStay
<1>4. \A a \in Actors : FailedNext(a) => Failed(a)
  BY NoJobCarries DEF Failed, JobIsCurrent, Carrying, JobsStay, FailedNext, CurrentNext
<1>5. /\ auth.cred # NoCred =>
           store = auth.cred \/ storeFault \/ \E a \in Actors : WillSave(a)
      /\ \A a \in Actors : job[a].state = "writing" /\ ~JobIsCurrent(a) /\ auth.cred # NoCred =>
           \E b \in Actors : WillSave(b)
      /\ \A a \in Actors : Failed(a) =>
           storeFault /\ \A b \in Actors : job[b].state # "writing"
  BY DEF SavedInv
<1>6. auth'.cred # NoCred => auth'.cred = auth.cred
  BY DEF Carrying
<1>7. \A a \in Actors : CurrentNext(a) <=> job'[a].gen = auth.gen /\ job'[a].rev = auth.rev
  BY DEF JobIsCurrent, Carrying, CurrentNext
<1>8. \A a \in Actors : job'[a].state = "writing" /\ ~CurrentNext(a) =>
        job[a].state = "writing" /\ ~JobIsCurrent(a)
  BY <1>3, <1>7 DEF JobIsCurrent, CurrentNext
<1> QED
  BY <1>2, <1>3, <1>4, <1>5, <1>6, <1>8, SavedInvNext

\* A job of an earlier generation, or revision, is not current any more.
LEMMA OthersLeftBehind ==
  ASSUME TypeOK, TypeOK', LoginInv, NEW b \in Actors, job'[b] = job[b],
         \/ auth'.gen = auth.gen + 1
         \/ auth'.rev = auth.rev + 1
  PROVE  ~CurrentNext(b)
<1>1. /\ auth.gen \in Nat /\ auth.rev \in Nat /\ job[b].gen \in Nat /\ job[b].rev \in Nat
      /\ job[b].gen <= auth.gen /\ job[b].rev <= auth.rev
  BY Numbers, LoginInvNow, JobInvNow
<1>2. job[b].gen # auth'.gen \/ job[b].rev # auth'.rev
  BY <1>1
<1> QED
  BY <1>2 DEF JobIsCurrent, CurrentNext

\* A write of an older job is followed by that of a newer one; a clear that
\* fails is the only job of its generation.
LEMMA JobStepKeepsSaved ==
  ASSUME TypeOK, LoginInv, JobsInv, SavedInv, NEW a \in Actors, JobStep(a)
  PROVE  SavedInv'
<1>1. /\ auth.cred # NoCred =>
           store = auth.cred \/ storeFault \/ \E b \in Actors : WillSave(b)
      /\ \A b \in Actors : job[b].state = "writing" /\ ~JobIsCurrent(b) /\ auth.cred # NoCred =>
           \E c \in Actors : WillSave(c)
      /\ \A b \in Actors : Failed(b) =>
           storeFault /\ \A c \in Actors : job[c].state # "writing"
  BY DEF SavedInv
<1>2. PICK state \in {"writing", "written"} \cup Results :
        /\ JobRuns(a, state) /\ job[a].state \in {"queued", "writing", "written"}
        /\ state = "failed" => job[a].state = "writing" /\ storeFault'
        /\ state = "writing" => JobStart(a) /\ JobIsCurrent(a)
        /\ job[a].state = "writing" => JobWrite(a) \/ JobFault(a)
  BY JobStepRuns
<1>3. /\ auth' = auth /\ \A b \in Actors \ {a} : job'[b] = job[b]
      /\ job'[a] = [job[a] EXCEPT !.state = state] \/ job'[a] = NoJob
      /\ job[a] \in Job
  BY <1>2, Numbers DEF JobRuns
<1>4. /\ job'[a].kind = job[a].kind /\ job'[a].gen = job[a].gen /\ job'[a].rev = job[a].rev
           /\ job'[a].state = state
      \/ job'[a] = NoJob
  BY <1>3 DEF Job
<1>5. job[a].state \in {"writing", "written"} =>
        \A b \in Actors : job[b].state \in {"writing", "written"} => a = b
  BY LoginInvNow, JobInvNow
<1>6. \A b \in Actors \ {a} :
        /\ WillSave(b) => WillSaveNext(b)
        /\ FailedNext(b) => Failed(b)
        /\ CurrentNext(b) <=> JobIsCurrent(b)
  BY <1>3 DEF WillSave, Failed, JobIsCurrent, WillSaveNext, FailedNext, CurrentNext
<1>7. CASE job[a].state = "queued"
  <2>1. /\ store' = store /\ storeFault' = storeFault
        /\ \A b \in Actors : job[b].state \notin {"writing", "written"}
        /\ JobIsCurrent(a) => job'[a] = [job[a] EXCEPT !.state = "writing"]
        /\ ~JobIsCurrent(a) => job'[a].state # "writing"
    <3>1. JobStart(a)
      BY <1>7 DEF JobStep, JobStart, JobWrite, JobFault, JobEnd
    <3>2. job \in [Actors -> Job]
      BY DEF TypeOK
    <3>3. ~JobIsCurrent(a) => state # "writing"
      BY <1>2
    <3> QED
      BY <1>4, <3>1, <3>2, <3>3, NoJobCarries DEF JobStart, ghostVars
  <2>2. WillSave(a) => WillSaveNext(a)
    BY <1>3, <2>1 DEF WillSave, JobIsCurrent, Job, WillSaveNext, CurrentNext
  <2>3. job'[a].state = "writing" =>
          JobIsCurrent(a) /\ CurrentNext(a) /\ (WillSaveNext(a) \/ job[a].kind = "clear")
    <3>1. ASSUME job'[a].state = "writing" PROVE JobIsCurrent(a)
      BY <2>1, <3>1
    <3>2. job[a].kind \in {"save", "clear"}
      BY <1>3, <1>7 DEF Job, JobsInv
    <3> QED
      BY <1>3, <2>1, <3>1, <3>2 DEF WillSave, JobIsCurrent, Job, WillSaveNext, CurrentNext
  <2>4. ~FailedNext(a)
    <3>1. job'[a].state \in {"writing", "stale", "none"}
      <4>1. JobStart(a)
        BY <1>7 DEF JobStep, JobStart, JobWrite, JobFault, JobEnd
      <4>2. job \in [Actors -> Job]
        BY DEF TypeOK
      <4> QED
        BY <4>1, <4>2, NoJobCarries DEF JobStart, JobEnds, Job
    <3> QED
      BY <3>1 DEF Failed, FailedNext, CurrentNext
  <2>5. ASSUME NEW b \in Actors, FailedNext(b) PROVE job'[a].state # "writing"
    <3>1. b # a /\ Failed(b) /\ Clears(b)
      BY <1>6, <2>4, <2>5 DEF Failed, Clears, JobIsCurrent, FailedNext, CurrentNext
    <3>2. /\ job[a].kind = "save" => job[a].gen # auth.gen
          /\ Clears(a) => b = a
      BY <3>1, ClearsAlone
    <3>3. job[a].kind = "clear" => job[a].gen # auth.gen
      BY <3>1, <3>2 DEF Clears
    <3>4. job[a].kind \in {"save", "clear"}
      BY <1>3, <1>7 DEF Job, JobsInv
    <3> QED
      BY <2>3, <3>2, <3>3, <3>4 DEF JobIsCurrent
  <2>6. \A b \in Actors : WillSave(b) => WillSaveNext(b)
    BY <1>6, <2>2
  <2>7. auth'.cred # NoCred =>
          store' = auth'.cred \/ storeFault' \/ \E b \in Actors : WillSaveNext(b)
    BY <1>1, <1>3, <2>1, <2>6
  <2>8. \A b \in Actors : job'[b].state = "writing" => CurrentNext(b)
    BY <1>3, <2>1, <2>3
  <2>9. \A b \in Actors : FailedNext(b) =>
          storeFault' /\ \A c \in Actors : job'[c].state # "writing"
    BY <1>1, <1>3, <1>6, <2>1, <2>4, <2>5
  <2> QED
    BY <2>7, <2>8, <2>9, SavedInvNext
<1>8. CASE job[a].state = "writing"
  <2>1. \A b \in Actors : job'[b].state # "writing"
    <3>1. state # "writing"
      BY <1>2, <1>8 DEF JobStart
    <3> QED
      BY <1>3, <1>4, <1>5, <1>8, <3>1, NoJobCarries
  <2>2. \A b \in Actors : ~Failed(b)
    BY <1>1, <1>8
  <2>3. CASE JobFault(a)
    <3>1. storeFault'
      BY <2>3 DEF JobFault
    <3> QED
      BY <2>1, <3>1, SavedInvNext
  <2>4. CASE JobWrite(a)
    <3>1. /\ store' = IF job[a].kind = "save" THEN job[a].cred ELSE NoCred
          /\ job'[a].state = "written"
      <4>1. job \in [Actors -> Job]
        BY DEF TypeOK
      <4> QED
        BY <2>4, <4>1 DEF JobWrite, Job
    <3>2. \A b \in Actors : ~FailedNext(b)
      BY <1>6, <2>2, <3>1 DEF Failed, FailedNext, CurrentNext
    <3>3. ASSUME auth.cred # NoCred, JobIsCurrent(a) PROVE store' = auth.cred
      <4>1. job[a].kind # "clear"
        <5>1. job[a].kind = "clear" => Clears(a)
          BY <3>3 DEF Clears, JobIsCurrent, CurrentNext
        <5> QED
          BY <3>3, <5>1, ClearsAlone
      <4>2. job[a].kind = "save"
        BY <1>3, <1>8, <4>1 DEF Job, JobsInv
      <4>3. auth.cred \in {NoCred, job[a].cred}
        BY <3>3, <4>2, LoginInvNow, JobInvNow
      <4> QED
        BY <3>1, <3>3, <4>2, <4>3
    <3>4. ASSUME auth.cred # NoCred, ~JobIsCurrent(a) PROVE \E b \in Actors : WillSaveNext(b)
      <4>1. PICK b \in Actors : WillSave(b)
        BY <1>1, <1>8, <3>4
      <4>2. b # a
        BY <3>4, <4>1 DEF WillSave, WillSaveNext, CurrentNext
      <4> QED
        BY <1>6, <4>1, <4>2
    <3> QED
      BY <1>3, <2>1, <3>2, <3>3, <3>4, SavedInvNext
  <2> QED
    BY <1>2, <1>8, <2>3, <2>4
<1>9. CASE job[a].state = "written"
  <2>1. JobEnd(a)
    BY <1>9 DEF JobStep, JobStart, JobWrite, JobFault, JobEnd
  <2>2. /\ store' = store /\ storeFault' = storeFault
    BY <2>1 DEF JobEnd
  <2>3. state \notin {"writing", "failed"}
    BY <1>2, <1>9 DEF JobStart
  <2>4. ~WillSave(a) /\ ~FailedNext(a) /\ job'[a].state # "writing"
    BY <1>4, <1>9, <2>3, NoJobCarries DEF WillSave, Failed, WillSaveNext, FailedNext, CurrentNext
  <2>5. /\ \A b \in Actors : WillSave(b) => WillSaveNext(b)
        /\ \A b \in Actors : FailedNext(b) => Failed(b)
        /\ \A b \in Actors : job'[b].state = "writing" => job[b].state = "writing"
        /\ \A b \in Actors : job'[b].state = "writing" /\ ~CurrentNext(b) =>
             job[b].state = "writing" /\ ~JobIsCurrent(b)
    BY <1>3, <1>6, <2>4
  <2> QED
    BY <1>1, <1>3, <2>2, <2>5, SavedInvNext
<1> QED
  BY <1>2, <1>7, <1>8, <1>9

\* Without a new login nothing is installed but with a save of its own, or by
\* a clear that failed and left the keyring at fault.
LEMMA MoveKeepsSaved ==
  ASSUME TypeOK, TypeOK', ChatInv, LoginInv, JobsInv, "start" \notin Enabled, SavedInv, LoginMove
  PROVE  SavedInv'
<1>1. /\ auth.cred # NoCred =>
           store = auth.cred \/ storeFault \/ \E a \in Actors : WillSave(a)
      /\ \A a \in Actors : job[a].state = "writing" /\ ~JobIsCurrent(a) /\ auth.cred # NoCred =>
           \E b \in Actors : WillSave(b)
      /\ \A a \in Actors : Failed(a) =>
           storeFault /\ \A b \in Actors : job[b].state # "writing"
  BY DEF SavedInv
<1>2. CASE Carrying /\ store' = store /\ storeFault' = storeFault
  BY <1>2, CarryingKeepsSaved
<1>3. ASSUME NEW a \in Actors, Opens(a) PROVE SavedInv'
  <2>1. auth'.cred = NoCred \/ op'[a].pc = "idle"
    BY <1>3 DEF Opens
  <2>2. auth'.cred = NoCred /\ auth'.gen = auth.gen + 1
    BY <1>3 DEF Opens
  <2>3. \A b \in Actors : FailedNext(b) => FALSE
    <3> TAKE b \in Actors
    <3>1. CASE job'[b] = job[b]
      BY <2>2, <3>1, OthersLeftBehind DEF Failed, FailedNext, CurrentNext
    <3>2. CASE job'[b] # job[b]
      <4>1. job'[b].state = "queued"
        BY <1>3, <3>2 DEF Opens, ClearJob
      <4> QED
        BY <4>1 DEF Failed, FailedNext, CurrentNext
    <3> QED
      BY <3>1, <3>2
  <2> QED
    BY <2>2, <2>3, SavedInvNext
<1>4. ASSUME NEW a \in Actors, Saves(a) PROVE SavedInv'
  <2>1. /\ job'[a].kind = "save" /\ job'[a].state = "queued"
        /\ job'[a].gen = auth'.gen /\ job'[a].rev = auth'.rev
    BY <1>4 DEF Saves
  <2>2. WillSaveNext(a)
    BY <2>1 DEF WillSave, JobIsCurrent, WillSaveNext, CurrentNext
  <2>3. ASSUME NEW b \in Actors, FailedNext(b)
        PROVE  FALSE
    <3>1. b # a /\ job'[b] = job[b]
      BY <1>4, <2>1, <2>3 DEF Failed, Saves, FailedNext, CurrentNext
    <3>2. auth' = auth
      BY <1>4, <2>3, <3>1, OthersLeftBehind DEF Failed, Saves, FailedNext, CurrentNext
    <3>3. Clears(b)
      BY <2>3, <3>1, <3>2 DEF Failed, JobIsCurrent, Clears, FailedNext, CurrentNext
    <3>4. op[a].gen = auth.gen /\ op[a].pc \in Readers \cup Polls
      BY <1>4 DEF Saves, Matches, Polls
    <3> QED
      BY <3>3, <3>4, ClearsAlone
  <2> QED
    BY <2>2, <2>3, SavedInvNext
<1>5. ASSUME NEW a \in Actors, Restores(a), storeFault' = storeFault PROVE SavedInv'
  <2>1. Failed(a)
    BY <1>5 DEF Restores, JobsInv, Failed, JobIsCurrent, FailedNext, CurrentNext
  <2>2. storeFault' /\ \A b \in Actors : job'[b].state # "writing"
    BY <1>1, <1>5, <2>1, NoJobCarries DEF Restores
  <2> QED
    BY <2>2, SavedInvNext
<1>6. ASSUME NEW a \in Actors, QueuesClear(a), store' = store, storeFault' = storeFault
      PROVE  SavedInv'
  <2>1. /\ auth' = auth /\ op[a].pc = "disconnect.lock"
        /\ \A b \in Actors \ {a} : job'[b] = job[b]
        /\ job'[a].state = "queued"
    BY <1>6 DEF QueuesClear, ClearJob
  <2>2. ~WillSave(a)
    <3>1. job[a].gen < op[a].gen /\ op[a].gen <= auth.gen
      BY <2>1 DEF JobsInv, ChatInv, GenerationsKnown
    <3>2. job[a].gen # auth.gen
      BY <3>1, Numbers
    <3> QED
      BY <3>2 DEF WillSave, JobIsCurrent, WillSaveNext, CurrentNext
  <2>3. \A b \in Actors : WillSave(b) => WillSaveNext(b)
    BY <2>1, <2>2 DEF WillSave, JobIsCurrent, WillSaveNext, CurrentNext
  <2>4. \A b \in Actors : job'[b].state = "writing" /\ ~CurrentNext(b) =>
          job[b].state = "writing" /\ ~JobIsCurrent(b)
    BY <2>1 DEF JobIsCurrent, CurrentNext
  <2>5. \A b \in Actors : FailedNext(b) => Failed(b)
    BY <2>1 DEF Failed, JobIsCurrent, FailedNext, CurrentNext
  <2>6. \A b \in Actors : job'[b].state = "writing" => job[b].state = "writing"
    BY <2>1
  <2> QED
    BY <1>1, <1>6, <2>1, <2>3, <2>4, <2>5, <2>6, SavedInvNext
<1>7. ASSUME NEW a \in Actors, JobStep(a) PROVE SavedInv'
  BY <1>7, JobStepKeepsSaved
<1>8. CASE Restart
  <2>1. /\ auth'.cred = store /\ store' = store
        /\ \A a \in Actors : job'[a].state = "none"
    BY <1>8, NoJobCarries DEF Restart
  <2>2. \A a \in Actors : ~FailedNext(a)
    BY <2>1 DEF Failed, FailedNext, CurrentNext
  <2> QED
    BY <2>1, <2>2, SavedInvNext
<1> QED
  BY <1>2, <1>3, <1>4, <1>5, <1>6, <1>7, <1>8 DEF LoginMove

\* What JobsInv and SavedInv say holds from the start.
LEMMA StartsSaved == Init => JobsInv /\ SavedInv
<1> SUFFICES ASSUME Init PROVE JobsInv /\ SavedInv
  OBVIOUS
<1>1. PICK c \in {NoCred, 1} :
        /\ auth = [gen |-> 0, rev |-> 0, cred |-> c, pending |-> NoPending]
        /\ store = c
        /\ \A a \in Actors : job[a] = NoJob /\ op[a] = Idle
  BY DEF Init
<1>2. /\ auth.cred = store
      /\ \A a \in Actors : job[a].state = "none" /\ op[a].pc = "idle"
  BY <1>1, NoJobCarries, IdleHarmless
<1> QED
  BY <1>2 DEF JobsInv, SavedInv, Failed

\* Every step of the system keeps both.
LEMMA StepKeepsSaved ==
  ASSUME ChatInv, PollInv, LoginInv, JobsInv, [Next]_vars
  PROVE  JobsInv' /\ ("start" \notin Enabled /\ SavedInv => SavedInv')
<1>1. TypeOK /\ TypeOK' /\ [LoginMove]_vars
  BY StepKeeps, StepKeepsLogin DEF ChatInv
<1>2. CASE UNCHANGED vars
  BY <1>2 DEF vars, JobsInv, SavedInv, WillSave, Failed, JobIsCurrent
<1>3. CASE LoginMove
  BY <1>1, <1>3, MoveKeepsJobs, MoveKeepsSaved
<1> QED
  BY <1>1, <1>2, <1>3

\* As long as nobody begins a new login, what is installed is in the keyring or
\* a save is under way that will bring it there, however jobs, refreshes and
\* clears cross.
THEOREM SavedInvariance ==
  Spec => [](ChatInv /\ PollInv /\ LoginInv /\ JobsInv /\ ("start" \notin Enabled => SavedInv))
<1>1. Init => JobsInv /\ ("start" \notin Enabled => SavedInv)
  BY StartsSaved
<1>2. /\ ChatInv /\ PollInv /\ LoginInv /\ JobsInv /\ ("start" \notin Enabled => SavedInv)
      /\ [Next]_vars
      => JobsInv' /\ ("start" \notin Enabled => SavedInv')
  BY StepKeepsSaved
<1>3. ("start" \notin Enabled => SavedInv)' <=> ("start" \notin Enabled => SavedInv')
  OBVIOUS
<1> QED
  BY <1>1, <1>2, <1>3, LoginInvariance, PTL DEF Spec

\* When nothing is under way, the credential TwitchAuthState holds is the one in
\* the keyring, unless the keyring has failed (auth_service.rs, auth_store.rs):
\* for every number of commands, restarts and faults, as long as no command
\* begins a new login.
THEOREM InstalledIsStored == Spec => []("start" \notin Enabled => InstalledIsSaved)
<1>1. TypeOK /\ ("start" \notin Enabled => SavedInv) => ("start" \notin Enabled => InstalledIsSaved)
  BY DEF SavedInv, InstalledIsSaved, Quiet, WillSave
<1> QED
  BY <1>1, SavedInvariance, PTL DEF ChatInv

-----------------------------------------------------------------------------
(***************************************************************************)
(* The connection and its status.                                          *)
(***************************************************************************)
\* A task that waits to be started, and the command that will start it.
Waits(g) == g \in Tasks /\ op[g].pc = "task.wait" /\ op[g].alive
Starts(c, g) == op[c].pc \in {"connect.publish", "connect.go"} /\ op[c].conn = g

\* A connect that has the latest generation finds its task waiting, before it
\* is registered and after.
RegisterInv(c) ==
  op[c].pc = "connect.register" /\ op[c].conn = owner.gen =>
    owner.conn = 0 /\ Waits(owner.gen)

StartInv(c) ==
  op[c].pc \in {"connect.publish", "connect.go"} =>
    op[c].conn < owner.gen \/ (op[c].conn = owner.conn /\ Waits(owner.conn))

\* While nobody owns the connection, no live status is of its generation.
FreeInv ==
  owner.conn = 0 =>
    /\ owner.gen \in Tasks => op[owner.gen].pc \in {"idle", "task.wait"}
    /\ chat.gen = owner.gen => chat.status \notin LiveStatuses

\* The owner waits for somebody who will start it, or has said that it ended.
OwnedInv ==
  owner.conn # 0 =>
    /\ owner.conn \in Tasks /\ op[owner.conn].alive
    /\ op[owner.conn].pc = "task.wait" => \E c \in Commands : Starts(c, owner.conn)
    /\ op[owner.conn].pc = "idle" =>
         chat.gen = owner.conn /\ chat.status \notin LiveStatuses

ReachInv ==
  /\ \A c \in Commands : RegisterInv(c) /\ StartInv(c)
  /\ FreeInv /\ OwnedInv

-----------------------------------------------------------------------------
(***************************************************************************)
(* Steps that leave the owner of the connection as it is.                  *)
(***************************************************************************)
Held == Connecting \cup {"task.wait"}

\* An invocation goes on; only a task says something, and one that was not
\* aborted ends only with a status that says so.
Goes(a) ==
  /\ owner' = owner /\ \A b \in Actors \ {a} : op'[b] = op[b]
  /\ op[a].pc \notin Held /\ op'[a].pc \notin Held
  /\ op'[a].pc = "clear.cancel" =>
       op[a].pc = "clear.store" /\ job[a].state = "cleared"
  /\ op[a].pc \in Ends => op'[a].pc = "idle"
  /\ a \in Tasks /\ op[a].alive => op'[a].alive
  /\ \/ op[a].pc # "idle" /\ op'[a].pc # "connect.reserve" /\ calls' = calls
     \/ a \in Commands /\ calls' = calls + 1
  /\ \/ /\ chat' = chat
        /\ a \in Tasks /\ op[a].alive => op'[a].pc # "idle" \/ owner.conn # a
     \/ /\ a \in Tasks
        /\ \E status \in Statuses :
             /\ chat' = Recorded(a, status)
             /\ op'[a].pc = "idle" /\ op[a].alive => status \notin LiveStatuses

\* Where an invocation goes on to: a task does not end there.
Calm(a, r) ==
  /\ r.pc \notin {"connect.reserve", "clear.cancel"}
  /\ a \in Tasks => r.pc # "idle" /\ r.alive = op[a].alive

LEMMA Comes ==
  ASSUME op \in [Actors -> Op], NEW a \in Actors, NEW r, op' = Put(a, r)
  PROVE  /\ op'[a].pc \in {r.pc, "idle"}
         /\ r.alive /\ r.pc # "idle" => op'[a].pc = r.pc /\ op'[a].alive
         /\ r.pc = "idle" => op'[a] = Idle
BY DEF Put, Advance, Idle

LEMMA CalmPoints ==
  ASSUME TypeOK, NEW a \in Actors
  PROVE  /\ \A pc \in Points \ {"connect.reserve", "clear.cancel", "idle"} :
              Calm(a, [op[a] EXCEPT !.pc = pc])
         /\ a \in Commands => Calm(a, Idle)
         /\ Calm(a, Latest(op[a]))
         /\ \A why \in Reasons : Calm(a, Because(op[a], "clear.begin", why))
<1>1. op[a] \in Op /\ auth \in Auth /\ "clear.begin" \in Points
  BY OpFields, AuthFields DEF Points
<1>2. \A pc \in Points \ {"connect.reserve", "clear.cancel", "idle"} :
        Calm(a, [op[a] EXCEPT !.pc = pc])
  BY <1>1, PcType DEF Calm
<1>3. a \in Commands => Calm(a, Idle)
  BY ActorKinds DEF Calm, Idle
<1>4. Calm(a, Latest(op[a]))
  BY <1>1, LatestType DEF Calm
<1>5. \A why \in Reasons : Calm(a, Because(op[a], "clear.begin", why))
  BY <1>1, BecauseType DEF Calm
<1> QED
  BY <1>2, <1>3, <1>4, <1>5

LEMMA CalmFailures ==
  ASSUME TypeOK, NEW a \in Actors,
         NEW kind \in {"transient", "definitive", "permanent"}
  PROVE  Calm(a, RefreshFailed(a, kind))
<1>1. /\ {"end.Error", "task.down"} \subseteq Points
      /\ {"invalid", "definitive"} \subseteq Reasons
  BY DEF Points, Ends, Reasons
<1>2. CASE a \in Commands
  <2>1. \/ RefreshFailed(a, kind) = Idle
        \/ RefreshFailed(a, kind) = Because(op[a], "clear.begin", "invalid")
    BY <1>2 DEF RefreshFailed, Because
  <2> QED
    BY <1>1, <1>2, <2>1, CalmPoints
<1>3. CASE a \notin Commands
  <2>1. \/ RefreshFailed(a, kind) = Latest(op[a])
        \/ RefreshFailed(a, kind) = Because(op[a], "clear.begin", "definitive")
        \/ \E pc \in {"end.Error", "task.down"} :
             RefreshFailed(a, kind) = [op[a] EXCEPT !.pc = pc]
    BY <1>3 DEF RefreshFailed, Because
  <2> QED
    BY <1>1, <2>1, CalmPoints
<1> QED
  BY <1>2, <1>3

LEMMA CalmClears ==
  ASSUME TypeOK, NEW a \in Actors, NEW result \in {"false", "error"}
  PROVE  Calm(a, ClearReturned(a, result))
<1>1. Ends \cup {"task.down"} \subseteq Points \ {"connect.reserve", "clear.cancel", "idle"}
  BY DEF Points, Ends
<1>2. CASE a \in Commands
  BY <1>2, CalmPoints DEF ClearReturned
<1>3. CASE a \notin Commands
  <2>1. \/ ClearReturned(a, result) = Latest(op[a])
        \/ \E pc \in Ends \cup {"task.down"} :
             ClearReturned(a, result) = [op[a] EXCEPT !.pc = pc]
    BY <1>3 DEF ClearReturned, Ends
  <2> QED
    BY <1>1, <2>1, CalmPoints
<1> QED
  BY <1>2, <1>3

\* The login's steps: a clear that has succeeded goes on to cancel the chat,
\* everybody else is calm.
LoginGoesOn(a) ==
  RefreshStep(a) \/ ClearBegin(a) \/ ClearStored(a) \/
  (a \in Commands /\ (LoginStep(a) \/ DisconnectLocked(a) \/ DisconnectStored(a)))

Within == Points \ (Held \cup Ends \cup {"idle"})

LEMMA LoginPoints ==
  ASSUME TypeOK, NEW a \in Actors, LoginGoesOn(a)
  PROVE  /\ calls' = calls /\ op[a].pc \in Within
         /\ \E r : /\ op' = Put(a, r)
                   /\ \/ Calm(a, r)
                      \/ /\ op[a].pc = "clear.store" /\ job[a].state = "cleared"
                         /\ r = [op[a] EXCEPT !.pc = "clear.cancel"]
<1> DEFINE Onwards == \E r : /\ op' = Put(a, r)
                             /\ \/ Calm(a, r)
                                \/ /\ op[a].pc = "clear.store" /\ job[a].state = "cleared"
                                   /\ r = [op[a] EXCEPT !.pc = "clear.cancel"]
<1>1. op[a] \in Op /\ op[a].pc \in Points
  BY OpFields
<1>2. ASSUME NEW r, Calm(a, r), NEW holder, Become(Put(a, r), holder) PROVE Onwards
  BY <1>2 DEF Become
<1>3. ASSUME NEW pc \in Points \ {"connect.reserve", "clear.cancel", "idle"}, Goto(a, pc)
      PROVE  Onwards
  BY <1>2, <1>3, CalmPoints DEF Goto
<1>4. ASSUME a \in Commands, Finish(a) PROVE Onwards
  BY <1>2, <1>4, CalmPoints DEF Finish
<1>5. ASSUME NEW r, Calm(a, r), LeaveRefresh(a, r) PROVE Onwards
  BY <1>2, <1>5 DEF LeaveRefresh
<1>6. ASSUME NEW r, r.pc \in Points \ {"connect.reserve", "clear.cancel", "idle"},
             r.alive = op[a].alive, NEW holder, Become(Put(a, r), holder)
      PROVE  Onwards
  <2>1. Calm(a, r)
    BY <1>6 DEF Calm
  <2> QED
    BY <1>2, <1>6, <2>1
<1>7. {"poll.check", "poll.save", "validate.reply", "validate.save", "clear.begin",
       "refresh.request", "refresh.granted", "refresh.check", "refresh.save",
       "clear.store", "task.down", "disconnect.store", "disconnect.cancel"}
        \subseteq Points \ {"connect.reserve", "clear.cancel", "idle"}
  BY DEF Points, Awaits
<1>8. "invalid" \in Reasons /\ "missing" \in Reasons
  BY DEF Reasons
<1> HIDE DEF Onwards
<1>9. CASE a \in Commands /\ LoginStep(a)
  <2>1. calls' = calls
    BY <1>9 DEF LoginStep, StartReply, PollGranted, PollPending, PollRefused,
      PollCheckFailed, PollScopeMissing, LogIn, SaveReturned, ValidateLocked,
      ValidateAccepted, ValidateScopeMissing, ValidateFailed
  <2>2. op[a].pc \in {"start.reply", "poll.reply", "poll.check", "poll.save",
                      "validate.lock", "validate.reply", "validate.save"}
    BY <1>9 DEF LoginStep, StartReply, PollGranted, PollPending, PollRefused,
      PollCheckFailed, PollScopeMissing, LogIn, SaveReturned, ValidateLocked,
      ValidateAccepted, ValidateScopeMissing, ValidateFailed
  <2>3. ASSUME PollGranted(a)
        PROVE  Onwards
    <3>1. \/ Finish(a)
          \/ Become(Put(a, [op[a] EXCEPT !.pc = "poll.check", !.fresh = issued + 1]), update)
      BY <2>3 DEF PollGranted
    <3>2. /\ [op[a] EXCEPT !.pc = "poll.check", !.fresh = issued + 1].pc = "poll.check"
          /\ [op[a] EXCEPT !.pc = "poll.check", !.fresh = issued + 1].alive = op[a].alive
      BY <1>1 DEF Op
    <3> QED
      BY <1>4, <1>6, <1>7, <1>9, <3>1, <3>2
  <2>4. ASSUME ValidateLocked(a)
        PROVE  Onwards
    <3> DEFINE r == [op[a] EXCEPT !.pc = "validate.reply", !.gen = auth.gen,
                                  !.rev = auth.rev, !.cred = auth.cred]
    <3>1. Finish(a) \/ Become(Put(a, r), a)
      BY <2>4 DEF ValidateLocked
    <3>2. r.pc = "validate.reply" /\ r.alive = op[a].alive
      BY <1>1 DEF Op
    <3> HIDE DEF r
    <3> QED
      BY <1>4, <1>6, <1>7, <1>9, <3>1, <3>2
  <2>5. ASSUME ValidateScopeMissing(a)
        PROVE  Onwards
    <3>1. Become(Put(a, Because(op[a], "clear.begin", "invalid")), update)
      BY <2>5 DEF ValidateScopeMissing, Because
    <3> QED
      BY <1>2, <1>8, <3>1, CalmPoints
  <2>6. ASSUME \/ StartReply(a) \/ PollPending(a) \/ PollRefused(a) \/ PollCheckFailed(a)
               \/ PollScopeMissing(a) \/ LogIn(a) \/ SaveReturned(a)
               \/ ValidateAccepted(a) \/ ValidateFailed(a)
        PROVE  Onwards
    <3>1. \/ Finish(a)
          \/ \E pc \in {"poll.save", "validate.save", "refresh.request"} : Goto(a, pc)
      BY <2>6 DEF StartReply, PollPending, PollRefused, PollCheckFailed,
        PollScopeMissing, LogIn, SaveReturned, ValidateAccepted, ValidateFailed
    <3> QED
      BY <1>3, <1>4, <1>7, <1>9, <3>1
  <2>7. Onwards
    BY <1>9, <2>3, <2>4, <2>5, <2>6 DEF LoginStep
  <2>8. op[a].pc \in Within
    BY <1>1, <2>2 DEF Within, Held, Connecting, Ends
  <2> QED
    BY <2>1, <2>7, <2>8 DEF Onwards
<1>10. CASE RefreshStep(a)
  <2>1. calls' = calls
    BY <1>10 DEF RefreshStep, TwitchRotates, RefreshReplied, RefreshLost, RefreshRefused,
      RefreshCheckFailed, RefreshScopeMissing, RefreshCommit, RefreshSaved
  <2>2. op[a].pc \in {"refresh.request", "refresh.granted", "refresh.check", "refresh.save"}
    BY <1>10 DEF RefreshStep, TwitchRotates, RefreshReplied, RefreshLost, RefreshRefused,
      RefreshCheckFailed, RefreshScopeMissing, RefreshCommit, RefreshSaved
  <2>3. ASSUME NEW kind \in {"transient", "definitive", "permanent"},
               LeaveRefresh(a, RefreshFailed(a, kind))
        PROVE  Onwards
    BY <1>5, <2>3, CalmFailures
  <2>4. ASSUME TwitchRotates(a)
        PROVE  Onwards
    <3> DEFINE r == [op[a] EXCEPT !.pc = "refresh.granted", !.fresh = issued + 1]
    <3>1. Become(Put(a, r), update)
      BY <2>4 DEF TwitchRotates
    <3>2. r.pc = "refresh.granted" /\ r.alive = op[a].alive
      BY <1>1 DEF Op
    <3> HIDE DEF r
    <3> QED
      BY <1>6, <1>7, <3>1, <3>2
  <2>5. ASSUME RefreshReplied(a)
        PROVE  Onwards
    BY <1>3, <1>7, <2>5 DEF RefreshReplied
  <2>6. ASSUME RefreshLost(a) \/ RefreshRefused(a) \/ RefreshCheckFailed(a)
        PROVE  Onwards
    <3>1. \E kind \in {"transient", "definitive", "permanent"} :
            LeaveRefresh(a, RefreshFailed(a, kind))
      BY <2>6 DEF RefreshLost, RefreshRefused, RefreshCheckFailed
    <3> QED
      BY <2>3, <3>1
  <2>7. ASSUME RefreshScopeMissing(a)
        PROVE  Onwards
    <3>1. \/ LeaveRefresh(a, RefreshFailed(a, "transient"))
          \/ \E why \in {"invalid", "missing"} :
               LeaveRefresh(a, Because(op[a], "clear.begin", why))
      BY <2>7 DEF RefreshScopeMissing, Because
    <3> QED
      BY <1>5, <1>8, <2>3, <3>1, CalmPoints
  <2>8. ASSUME RefreshCommit(a)
        PROVE  Onwards
    <3> DEFINE r == [op[a] EXCEPT !.pc = "refresh.save", !.rev = auth.rev + 1,
                                  !.cred = op[a].fresh]
    <3>1. \/ Become(Put(a, r), update)
          \/ LeaveRefresh(a, [op[a] EXCEPT !.pc = "task.down"])
          \/ LeaveRefresh(a, RefreshFailed(a, "transient"))
      BY <2>8 DEF RefreshCommit
    <3>2. r.pc = "refresh.save" /\ r.alive = op[a].alive
      BY <1>1 DEF Op
    <3> HIDE DEF r
    <3> QED
      BY <1>5, <1>6, <1>7, <2>3, <3>1, <3>2, CalmPoints
  <2>9. ASSUME RefreshSaved(a)
        PROVE  Onwards
    <3>1. LeaveRefresh(a, IF a \in Commands THEN Idle ELSE Latest(op[a]))
      BY <2>9 DEF RefreshSaved
    <3> QED
      BY <1>5, <3>1, CalmPoints
  <2>10. Onwards
    BY <1>10, <2>4, <2>5, <2>6, <2>7, <2>8, <2>9 DEF RefreshStep
  <2>11. op[a].pc \in Within
    BY <1>1, <2>2 DEF Within, Held, Connecting, Ends
  <2> QED
    BY <2>1, <2>10, <2>11 DEF Onwards
<1>11. CASE ClearBegin(a)
  <2> DEFINE r == [op[a] EXCEPT !.pc = "clear.store", !.gen = auth.gen + 1,
                                !.rev = auth.rev + 1]
  <2>1. /\ calls' = calls /\ op[a].pc = "clear.begin"
        /\ Become(Put(a, r), update) \/ LeaveRefresh(a, ClearReturned(a, "false"))
    BY <1>11 DEF ClearBegin
  <2>2. r.pc = "clear.store" /\ r.alive = op[a].alive
    BY <1>1 DEF Op
  <2> HIDE DEF r
  <2>3. Onwards
    BY <1>5, <1>6, <1>7, <2>1, <2>2, CalmClears
  <2>4. op[a].pc \in Within
    BY <1>1, <2>1 DEF Within, Held, Connecting, Ends
  <2> QED
    BY <2>1, <2>3, <2>4 DEF Onwards
<1>12. CASE ClearStored(a)
  <2>1. /\ calls' = calls /\ op[a].pc = "clear.store"
        /\ \/ job[a].state = "cleared" /\ Goto(a, "clear.cancel")
           \/ LeaveRefresh(a, ClearReturned(a, "false"))
           \/ LeaveRefresh(a, ClearReturned(a, "error"))
    BY <1>12 DEF ClearStored
  <2>2. ASSUME job[a].state = "cleared" /\ Goto(a, "clear.cancel")
        PROVE  Onwards
    BY <2>1, <2>2 DEF Goto, Become, Onwards
  <2>3. Onwards
    BY <1>5, <2>1, <2>2, CalmClears
  <2>4. op[a].pc \in Within
    BY <1>1, <2>1 DEF Within, Held, Connecting, Ends
  <2> QED
    BY <2>1, <2>3, <2>4 DEF Onwards
<1>13. CASE a \in Commands /\ (DisconnectLocked(a) \/ DisconnectStored(a))
  <2>1. /\ calls' = calls /\ op[a].pc \in {"disconnect.lock", "disconnect.store"}
        /\ \/ Finish(a)
           \/ \E pc \in {"disconnect.store", "disconnect.cancel"}, holder \in {a, Released(a)} :
                Become(Put(a, [op[a] EXCEPT !.pc = pc]), holder)
    BY <1>13 DEF DisconnectLocked, DisconnectStored
  <2>2. Onwards
    BY <1>2, <1>4, <1>7, <1>13, <2>1, CalmPoints
  <2>3. op[a].pc \in Within
    BY <1>1, <2>1 DEF Within, Held, Connecting, Ends
  <2> QED
    BY <2>1, <2>2, <2>3 DEF Onwards
<1> QED
  BY <1>9, <1>10, <1>11, <1>12, <1>13 DEF LoginGoesOn

LEMMA LoginGoes ==
  ASSUME ChatInv, NEW a \in Actors, LoginGoesOn(a)
  PROVE  Goes(a)
<1>1. /\ TypeOK /\ GenerationsKnown /\ op \in [Actors -> Op]
      /\ a \in Commands => a \notin Tasks
  BY OpFields, ActorKinds DEF ChatInv
<1>2. GoesOn(a)
  BY <1>1, LoginStepsGoOn, RefreshStepsGoOn, ClearStepsGoOn, PlainStepsGoOn
     DEF LoginGoesOn, Plain
<1>3. /\ op'[a].pc \notin Held
      /\ \A b \in Actors \ {a} : op'[b] = op[b]
  BY <1>1, <1>2, GoesOnEffect DEF Held
<1>4. /\ calls' = calls /\ op[a].pc \in Within
      /\ \E r : /\ op' = Put(a, r)
                /\ \/ Calm(a, r)
                   \/ /\ op[a].pc = "clear.store" /\ job[a].state = "cleared"
                      /\ r = [op[a] EXCEPT !.pc = "clear.cancel"]
  BY <1>1, LoginPoints
<1>5. op[a].pc \notin Held \cup Ends \cup {"idle"}
  BY <1>4 DEF Within
<1>6. owner' = owner /\ chat' = chat
  BY <1>5, LoginLeavesChat DEF LoginGoesOn, Plain, Held, Connecting
<1>7. /\ op'[a].pc # "connect.reserve"
      /\ op'[a].pc = "clear.cancel" => op[a].pc = "clear.store" /\ job[a].state = "cleared"
      /\ a \in Tasks /\ op[a].alive => op'[a].alive /\ op'[a].pc # "idle"
  <2>1. PICK r : /\ op' = Put(a, r)
                 /\ \/ Calm(a, r)
                    \/ /\ op[a].pc = "clear.store" /\ job[a].state = "cleared"
                       /\ r = [op[a] EXCEPT !.pc = "clear.cancel"]
    BY <1>4
  <2>2. /\ op'[a].pc \in {r.pc, "idle"}
        /\ r.alive /\ r.pc # "idle" => op'[a].pc = r.pc /\ op'[a].alive
    BY <1>1, <2>1, Comes
  <2>3. CASE Calm(a, r)
    BY <2>2, <2>3 DEF Calm
  <2>4. CASE /\ op[a].pc = "clear.store" /\ job[a].state = "cleared"
             /\ r = [op[a] EXCEPT !.pc = "clear.cancel"]
    <3>1. r.pc = "clear.cancel" /\ r.alive = op[a].alive
      BY <1>1, <2>4, OpFields DEF Op
    <3> QED
      BY <2>2, <2>4, <3>1
  <2> QED
    BY <2>1, <2>3, <2>4
<1> QED
  BY <1>3, <1>4, <1>5, <1>6, <1>7 DEF Goes

LEMMA CallGoes ==
  ASSUME ChatInv, NEW c \in Commands, LoginCall(c) \/ Connect(c)
  PROVE  Goes(c)
<1>1. /\ TypeOK /\ GenerationsKnown /\ op \in [Actors -> Op]
      /\ c \in Actors /\ c \notin Tasks
  BY OpFields, ActorKinds DEF ChatInv
<1>2. Plain(c) /\ op[c].pc = "idle" /\ calls' = calls + 1
  BY DEF Plain, LoginCall, StartAuth, PollAuth, ValidateAuth, Disconnect, Connect, Call
<1>3. GoesOn(c)
  BY <1>1, <1>2, PlainStepsGoOn
<1>4. /\ op'[c].pc \notin Held
      /\ \A b \in Actors \ {c} : op'[b] = op[b]
  BY <1>1, <1>3, GoesOnEffect DEF Held
<1>5. "idle" \notin Held \cup Ends
  BY DEF Held, Connecting, Ends
<1>6. owner' = owner /\ chat' = chat
  BY <1>2, LoginLeavesChat
<1>7. op'[c].pc # "clear.cancel"
  <2>1. \E r : op' = Put(c, r) /\ r.pc # "clear.cancel"
    <3>1. CASE StartAuth(c) \/ PollAuth(c) \/ Disconnect(c) \/ Connect(c)
      <4>1. CASE StartAuth(c)
        <5> DEFINE r == [Idle EXCEPT !.pc = "start.reply", !.gen = auth.gen + 1]
        <5>1. op' = Put(c, r)
          BY <4>1 DEF StartAuth, Become
        <5>2. r.pc = "start.reply"
          BY DEF Idle
        <5> QED
          BY <5>1, <5>2
      <4>2. CASE PollAuth(c)
        <5> DEFINE r == [Idle EXCEPT !.pc = "poll.reply", !.gen = auth.pending.gen]
        <5>1. op' = Put(c, r)
          BY <4>2 DEF PollAuth, Become
        <5>2. r.pc = "poll.reply"
          BY DEF Idle
        <5> QED
          BY <5>1, <5>2
      <4>3. CASE Disconnect(c)
        <5> DEFINE r == [Idle EXCEPT !.pc = "disconnect.lock", !.gen = auth.gen + 1,
                            !.rev = auth.rev + 1, !.cred = auth.cred]
        <5>1. op' = Put(c, r)
          BY <4>3 DEF Disconnect, Become
        <5>2. r.pc = "disconnect.lock"
          BY DEF Idle
        <5> QED
          BY <5>1, <5>2
      <4>4. CASE Connect(c)
        <5> DEFINE r == [Idle EXCEPT !.pc = "connect.reserve", !.login = auth.gen]
        <5>1. op' = Put(c, r)
          BY <4>4 DEF Connect, Become
        <5>2. r.pc = "connect.reserve"
          BY DEF Idle
        <5> QED
          BY <5>1, <5>2
      <4> QED
        BY <3>1, <4>1, <4>2, <4>3, <4>4
    <3>2. CASE ValidateAuth(c)
      <4>1. op' = Put(c, [op[c] EXCEPT !.pc = "validate.lock"])
        BY <3>2 DEF ValidateAuth, Goto, Become
      <4>2. [op[c] EXCEPT !.pc = "validate.lock"].pc = "validate.lock"
        BY <1>1, OpFields DEF Op
      <4> QED
        BY <4>1, <4>2
    <3> QED
      BY <3>1, <3>2 DEF LoginCall
  <2> QED
    BY <1>1, <2>1, Comes
<1> QED
  BY <1>1, <1>2, <1>4, <1>5, <1>6, <1>7 DEF Goes

\* A task goes on, unless it no longer owns the connection or ends with a
\* status that says so.
LEMMA TaskPoints ==
  ASSUME TypeOK, NEW g \in Tasks, TaskStep(g)
  PROVE  /\ calls' = calls
         /\ \/ op[g].pc \notin Ends /\ (\E r : op' = Put(g, r) /\ Calm(g, r))
            \/ op[g].pc = "task.found" /\ owner.conn # g /\ op' = Put(g, Idle)
            \/ \E status \in Statuses \ LiveStatuses : \E r :
                 chat' = Recorded(g, status) /\ op' = Put(g, r) /\ r.pc = "idle"
<1> DEFINE Onwards == \E r : op' = Put(g, r) /\ Calm(g, r)
           Inner == Points \ {"connect.reserve", "clear.cancel", "idle"}
<1>1. g \in Actors /\ g \notin Commands
  BY ActorKinds
<1>2. op[g] \in Op
  BY <1>1, OpFields
<1>3. ASSUME NEW pc \in Inner, Goto(g, pc) PROVE Onwards
  BY <1>1, <1>3, CalmPoints DEF Goto, Become
<1>4. ASSUME NEW pc \in Inner, NEW from, Moves(g, from, pc) PROVE Onwards
  BY <1>3, <1>4 DEF Moves
<1>5. ASSUME NEW pc \in Inner, NEW from, NEW status, Publishes(g, from, status, pc)
      PROVE  Onwards
  BY <1>3, <1>5 DEF Publishes
<1>6. {"task.found", "task.begin", "task.socket", "task.down", "task.send", "task.lock",
       "task.connected", "task.live", "task.frame", "task.overlap", "task.switch",
       "task.handover", "task.sleep", "end.Error", "end.AuthRequired",
       "end.Disconnected", "refresh.request"} \subseteq Inner
  BY DEF Points, Awaits, Ends
<1> HIDE DEF Onwards, Inner
<1>7. calls' = calls
  BY DEF TaskStep, TaskLookup, TaskFound, TaskBegin, TaskSocketFails,
    TaskWelcome, TaskSent, TaskLocked, TaskConnected, TaskFrame, Dispatch, TaskRevoked,
    TaskSwitch, TaskSwitched, TaskDrops, TaskDown, TaskAwakes, TaskEnd, Moves, Publishes
<1>8. CASE TaskEnd(g)
  <2>1. PICK status \in {"Error", "AuthRequired", "Disconnected"} :
          chat' = Recorded(g, status) /\ Goto(g, "idle")
    BY <1>8 DEF TaskEnd, Publishes
  <2>2. status \in Statuses \ LiveStatuses
    BY DEF Statuses, LiveStatuses
  <2>3. op' = Put(g, [op[g] EXCEPT !.pc = "idle"])
    BY <2>1 DEF Goto, Become
  <2>4. [op[g] EXCEPT !.pc = "idle"].pc = "idle"
    BY <1>2 DEF Op
  <2> QED
    BY <1>7, <2>1, <2>2, <2>3, <2>4
<1>9. CASE TaskFound(g)
  <2>1. /\ op[g].pc = "task.found" /\ "task.found" \notin Ends
        /\ Goto(g, "task.begin") \/ (owner.conn # g /\ Finish(g))
    BY <1>9 DEF TaskFound, Ends
  <2>2. Finish(g) => op' = Put(g, Idle)
    BY DEF Finish, Become
  <2>3. Goto(g, "task.begin") => Onwards
    BY <1>3, <1>6
  <2> QED
    BY <1>7, <2>1, <2>2, <2>3 DEF Onwards
<1>10. CASE TaskWelcome(g)
  <2> DEFINE r == [op[g] EXCEPT !.pc = "task.send", !.gen = auth.gen, !.rev = auth.rev,
                                !.cred = auth.cred, !.second = FALSE]
  <2>1. /\ op[g].pc = "task.socket" /\ "task.socket" \notin Ends
        /\ \/ op' = Put(g, [op[g] EXCEPT !.pc = "task.down"])
           \/ op' = Put(g, [op[g] EXCEPT !.pc = "end.Disconnected"])
           \/ op' = Put(g, r)
    BY <1>10 DEF TaskWelcome, Become, Ends
  <2>2. Calm(g, r)
    BY <1>2 DEF Op, Calm
  <2> HIDE DEF r
  <2>3. Onwards
    BY <1>1, <1>6, <2>1, <2>2, CalmPoints DEF Onwards, Inner
  <2> QED
    BY <1>7, <2>1, <2>3 DEF Onwards
<1>11. CASE TaskSent(g)
  <2>1. /\ op[g].pc = "task.send" /\ "task.send" \notin Ends
        /\ \/ Goto(g, "task.connected")
           \/ \E pc \in {"end.Error", "task.down", "task.lock"} :
                op' = Put(g, [op[g] EXCEPT !.pc = pc])
           \/ op' = Put(g, Because(op[g], "clear.begin", "rejected"))
    BY <1>11 DEF TaskSent, Become, Ends, Because
  <2>2. "rejected" \in Reasons
    BY DEF Reasons
  <2>3. Onwards
    BY <1>1, <1>3, <1>6, <2>1, <2>2, CalmPoints DEF Onwards, Inner
  <2> QED
    BY <1>7, <2>1, <2>3 DEF Onwards
<1>12. CASE TaskLocked(g)
  <2>1. /\ op[g].pc = "task.lock" /\ "task.lock" \notin Ends
        /\ \/ \E pc \in {"task.down", "end.Disconnected"} : Goto(g, pc)
           \/ op' = Put(g, Latest(op[g]))
           \/ op' = Put(g, [op[g] EXCEPT !.pc = "refresh.request"])
    BY <1>12 DEF TaskLocked, Become, Ends
  <2>2. Onwards
    BY <1>1, <1>3, <1>6, <2>1, CalmPoints DEF Onwards, Inner
  <2> QED
    BY <1>7, <2>1, <2>2 DEF Onwards
<1>13. CASE \/ TaskLookup(g) \/ TaskBegin(g) \/ TaskSocketFails(g) \/ TaskConnected(g)
            \/ TaskFrame(g) \/ Dispatch(g) \/ TaskRevoked(g) \/ TaskSwitch(g)
            \/ TaskSwitched(g) \/ TaskDrops(g) \/ TaskDown(g) \/ TaskAwakes(g)
  <2>1. op[g].pc \notin Ends
    BY <1>13 DEF TaskLookup, TaskBegin, TaskSocketFails, TaskConnected, TaskFrame,
      Dispatch, TaskRevoked, TaskSwitch, TaskSwitched, TaskDrops, TaskDown, TaskAwakes,
      Moves, Publishes, Ends
  <2>2. \/ \E from : \E pc \in {"task.found", "task.begin", "task.down", "task.switch",
                                 "task.connected", "end.Error", "end.AuthRequired"} :
             Moves(g, from, pc)
        \/ \E from, status :
             \E pc \in {"task.socket", "task.live", "task.handover", "task.sleep"} :
               Publishes(g, from, status, pc)
        \/ \E pc \in {"task.frame", "task.overlap", "task.live", "task.handover"} : Goto(g, pc)
    BY <1>13 DEF TaskLookup, TaskBegin, TaskSocketFails, TaskConnected, TaskFrame,
      Dispatch, TaskRevoked, TaskSwitch, TaskSwitched, TaskDrops, TaskDown, TaskAwakes
  <2>3. Onwards
    BY <1>3, <1>4, <1>5, <1>6, <2>2
  <2> QED
    BY <1>7, <2>1, <2>3 DEF Onwards
<1> QED
  BY <1>8, <1>9, <1>10, <1>11, <1>12, <1>13 DEF TaskStep

LEMMA TaskGoes ==
  ASSUME ChatInv, NEW g \in Tasks, TaskStep(g)
  PROVE  Goes(g)
<1>1. /\ TypeOK /\ GenerationsKnown /\ op \in [Actors -> Op]
      /\ g \in Actors /\ g \notin Commands
      /\ op[g].pc \notin Connecting
  BY OpFields, ActorKinds DEF ChatInv, ConnectionInv, TaskInv
<1>2. GoesOn(g) /\ ChatOf(g) /\ owner' = owner
  BY <1>1, TaskStepsGoOn DEF TaskGoesOn
<1>3. /\ op[g].pc \notin Held \cup {"idle"} /\ op'[g].pc \notin Held
      /\ \A b \in Actors \ {g} : op'[b] = op[b]
  BY <1>1, <1>2, GoesOnEffect DEF Held
<1>4. /\ calls' = calls
      /\ \/ op[g].pc \notin Ends /\ (\E r : op' = Put(g, r) /\ Calm(g, r))
         \/ op[g].pc = "task.found" /\ owner.conn # g /\ op' = Put(g, Idle)
         \/ \E status \in Statuses \ LiveStatuses : \E r :
              chat' = Recorded(g, status) /\ op' = Put(g, r) /\ r.pc = "idle"
  BY <1>1, TaskPoints
<1>5. chat' = chat \/ \E status \in Statuses : chat' = Recorded(g, status)
  BY <1>2 DEF ChatOf
<1>6. CASE op[g].pc \notin Ends /\ (\E r : op' = Put(g, r) /\ Calm(g, r))
  <2>1. PICK r : op' = Put(g, r) /\ Calm(g, r)
    BY <1>6
  <2>2. /\ op'[g].pc \in {r.pc, "idle"}
        /\ r.alive /\ r.pc # "idle" => op'[g].pc = r.pc /\ op'[g].alive
    BY <1>1, <2>1, Comes
  <2>3. /\ op'[g].pc \notin {"connect.reserve", "clear.cancel"}
        /\ op[g].alive => op'[g].alive /\ op'[g].pc # "idle"
    BY <2>1, <2>2 DEF Calm
  <2> QED
    BY <1>1, <1>2, <1>3, <1>4, <1>5, <1>6, <2>3 DEF Goes
<1>7. CASE op[g].pc = "task.found" /\ owner.conn # g /\ op' = Put(g, Idle)
  <2>1. Idle.pc = "idle" /\ Idle.alive
    BY DEF Idle
  <2>2. op'[g] = Idle
    BY <1>1, <1>7, <2>1, Comes
  <2>3. chat' = chat
    BY <1>7 DEF TaskStep, TaskLookup, TaskFound, TaskBegin, TaskSocketFails,
      TaskWelcome, TaskSent, TaskLocked, TaskConnected, TaskFrame, Dispatch, TaskRevoked,
      TaskSwitch, TaskSwitched, TaskDrops, TaskDown, TaskAwakes, TaskEnd, Moves,
      Publishes, chatVars
  <2> QED
    BY <1>1, <1>2, <1>3, <1>4, <1>7, <2>1, <2>2, <2>3 DEF Goes
<1>8. ASSUME NEW status \in Statuses \ LiveStatuses, NEW r,
             chat' = Recorded(g, status), op' = Put(g, r), r.pc = "idle"
      PROVE  Goes(g)
  <2>1. op'[g] = Idle
    BY <1>1, <1>8, Comes
  <2>2. Idle.pc = "idle" /\ Idle.alive
    BY DEF Idle
  <2> QED
    BY <1>1, <1>2, <1>3, <1>4, <1>8, <2>1, <2>2 DEF Goes
<1> QED
  BY <1>4, <1>6, <1>7, <1>8

-----------------------------------------------------------------------------
(***************************************************************************)
(* Steps that take the connection, tell its status, or start its task.     *)
(***************************************************************************)
\* What ChatInv says of the generations and of who took them.
LEMMA ConnectionNow ==
  ASSUME ChatInv
  PROVE  /\ owner.gen \in Nat /\ owner.conn \in {0, owner.gen}
         /\ chat.gen \in Nat /\ chat.gen <= owner.gen
         /\ \A g \in Tasks : /\ g \in Nat /\ g # 0 /\ op[g].pc \notin Connecting
                             /\ op[g].pc # "idle" => g <= owner.gen
         /\ \A c \in Commands :
              /\ op[c].conn \in Nat
              /\ op[c].pc \in Connecting => op[c].conn # 0 /\ op[c].conn <= owner.gen
              /\ op[c].pc \in {"connect.register", "stop.publish", "disconnect.publish"} =>
                   owner.conn # op[c].conn
         /\ \A c, d \in Commands :
              op[c].pc \in Connecting /\ op[d].pc \in Connecting /\ op[c].conn = op[d].conn =>
                c = d
<1>1. /\ TypeOK /\ ConnectionInv /\ owner.gen \in Nat /\ chat.gen \in Nat
      /\ chat.gen <= owner.gen
  BY ConnectionFields DEF ChatInv
<1>2. \A g \in Tasks : /\ g \in Nat /\ g # 0 /\ op[g].pc \notin Connecting
                       /\ op[g].pc # "idle" => g <= owner.gen
  BY <1>1, ActorKinds DEF ConnectionInv, TaskInv, NoConnection
<1>3. \A c \in Commands : op[c].conn \in Nat
  BY <1>1, OpFields, ActorKinds DEF Op
<1>4. \A c \in Commands :
        /\ op[c].pc \in Connecting => op[c].conn # 0 /\ op[c].conn <= owner.gen
        /\ op[c].pc \in {"connect.register", "stop.publish", "disconnect.publish"} =>
             owner.conn # op[c].conn
  BY <1>1 DEF ConnectionInv, CommandInv, Connecting
<1>5. \A c, d \in Commands :
        op[c].pc \in Connecting /\ op[d].pc \in Connecting /\ op[c].conn = op[d].conn =>
          c = d
  BY <1>1 DEF ConnectionInv, CommandInv
<1> QED
  BY <1>1, <1>2, <1>3, <1>4, <1>5 DEF ConnectionInv

LEMMA RecordedCases ==
  ASSUME TypeOK, NEW gen \in Nat, NEW status, chat' = Recorded(gen, status)
  PROVE  /\ gen < chat.gen => chat' = chat
         /\ gen >= chat.gen => chat'.gen = gen /\ chat'.status = status
         /\ chat'.gen \in Nat /\ chat'.gen >= chat.gen
<1>1. chat.gen \in Nat
  BY ConnectionFields
<1>2. gen < chat.gen => chat' = chat
  BY <1>1 DEF Recorded
<1>3. gen >= chat.gen => chat'.gen = gen /\ chat'.status = status
  BY <1>1 DEF Recorded
<1> QED
  BY <1>1, <1>2, <1>3

\* A connect, a stop, a disconnect or a clear has taken the connection.
Takes(a) ==
  /\ owner' = Advanced /\ chat' = chat
  /\ \A c \in Commands \ {a} : op'[c] = op[c]
  /\ \A g \in Tasks \ {a, owner.gen + 1} : op'[g].pc \in {op[g].pc, "idle"}
  /\ \/ /\ a \in Commands /\ op[a].pc = "connect.reserve" /\ calls' = calls
        /\ op'[a].pc = "connect.register" /\ op'[a].conn = owner.gen + 1
        /\ owner.gen + 1 \in Tasks =>
             op'[owner.gen + 1].pc = "task.wait" /\ op'[owner.gen + 1].alive
     \/ /\ owner.gen + 1 \in Tasks => op'[owner.gen + 1].pc = "idle"
        /\ \/ /\ a \in Commands /\ op[a].pc = "idle" /\ calls' = calls + 1
              /\ op'[a].pc = "stop.publish" /\ op'[a].conn = owner.gen + 1
           \/ /\ a \in Commands /\ op[a].pc = "disconnect.cancel" /\ calls' = calls
              /\ op'[a].pc = "disconnect.publish" /\ op'[a].conn = owner.gen + 1
           \/ /\ op[a].pc = "clear.cancel" /\ calls' = calls
              /\ op'[a].pc \in Ends \cup {"idle"}

\* A command says in the name of its generation where the connection stands.
Tells(c) ==
  /\ owner' = owner /\ calls' = calls /\ \A b \in Actors \ {c} : op'[b] = op[b]
  /\ \/ /\ op[c].pc \in {"stop.publish", "disconnect.publish"} /\ op'[c].pc = "idle"
        /\ chat' = Recorded(op[c].conn, "Disconnected")
     \/ /\ op[c].pc = "connect.publish" /\ op'[c].pc = "connect.go"
        /\ op'[c].conn = op[c].conn /\ chat' = Recorded(op[c].conn, "Connecting")

\* It starts its task, which has waited for it.
Started(b) ==
  op[b].pc = "task.wait" /\ op'[b].pc = "task.lookup" /\ op'[b].alive = op[b].alive

Sends(c) ==
  /\ owner' = owner /\ calls' = calls /\ chat' = chat
  /\ op[c].pc = "connect.go" /\ op'[c].pc = "idle"
  /\ \A b \in Actors \ {c} :
       \/ op'[b] = op[b] /\ ~(b = op[c].conn /\ op[b].pc = "task.wait")
       \/ b = op[c].conn /\ Started(b)

\* It is registered as the owner, or refused together with its task.
Registers(c) ==
  /\ calls' = calls /\ chat' = chat /\ op[c].pc = "connect.register"
  /\ \/ /\ owner.gen # op[c].conn \/ owner.conn # 0
        /\ owner' = owner /\ op'[c].pc = "idle"
        /\ \A b \in Actors \ {c} :
             op'[b] = op[b] \/ (b = op[c].conn /\ op'[b].pc \in {op[b].pc, "idle"})
     \/ /\ owner.gen = op[c].conn /\ owner.conn = 0
        /\ owner'.gen = owner.gen /\ owner'.conn = op[c].conn
        /\ op'[c].pc = "connect.publish" /\ op'[c].conn = op[c].conn
        /\ \A b \in Actors \ {c} : op'[b] = op[b]

\* Where a command goes on that has taken a generation.
Announcing == {"connect.register", "stop.publish", "disconnect.publish"}

\* Who takes the connection away aborts its task, and no other.
LEMMA TakingEffect ==
  ASSUME ChatInv, NEW a \in Actors, NEW s \in Op
  PROVE  /\ Taking(a, s) \in [Actors -> Op]
         /\ \A c \in Commands \ {a} : Taking(a, s)[c] = op[c]
         /\ \A g \in Tasks \ {a} : Taking(a, s)[g].pc \in {op[g].pc, "idle"}
         /\ Taking(a, s)[a].pc \in {s.pc, "idle"}
         /\ a \in Commands /\ s.pc \in Announcing => Taking(a, s)[a] = s
<1> DEFINE p == Put(a, s)
           o == Taking(a, s)
<1>1. op \in [Actors -> Op] /\ Commands \subseteq Actors /\ Tasks \subseteq Actors
  BY OpFields, ActorKinds DEF ChatInv
<1>2. /\ p \in [Actors -> Op] /\ Arrived(p[a], s)
      /\ \A b \in Actors \ {a} : p[b] = op[b]
  BY <1>1, PutType
<1>3. o = Aborted(p, owner.conn)
  BY DEF Taking
<1> HIDE DEF p, o
<1>4. /\ o \in [Actors -> Op]
      /\ \A b \in Actors : (b # owner.conn \/ b = NoConnection) => o[b] = p[b]
      /\ owner.conn # NoConnection /\ owner.conn \in Actors =>
           \/ o[owner.conn] = Idle
           \/ o[owner.conn] = p[owner.conn]
           \/ o[owner.conn] = [p[owner.conn] EXCEPT !.alive = FALSE]
  BY <1>2, <1>3, AbortedType
<1>5. \A b \in Actors : o[b].pc \in {p[b].pc, "idle"}
  <2> TAKE b \in Actors
  <2>1. p[b] \in Op
    BY <1>2
  <2>2. [p[b] EXCEPT !.alive = FALSE].pc = p[b].pc
    BY <2>1 DEF Op
  <2> QED
    BY <1>4, <2>2, IdleType
<1>6. owner.conn \notin Commands \/ owner.conn = NoConnection
  BY ActorKinds, ConnectionNow
<1>7. \A c \in Commands : o[c] = p[c]
  BY <1>1, <1>4, <1>6
<1>8. p[a].pc \in {s.pc, "idle"}
  BY <1>2, IdleType DEF Arrived
<1>9. s.pc \in Announcing => p[a] = s
  <2>1. Announcing \cap (Awaits \cup Between \cup {"idle"}) = {}
    BY DEF Announcing, Between, Ends, Awaits
  <2>2. s.pc \in Announcing => s.pc \notin Awaits \cup Between \cup {"idle"}
    BY <2>1
  <2> QED
    BY <1>1, <2>2 DEF p, Put, Advance, Between
<1> QED
  BY <1>1, <1>2, <1>4, <1>5, <1>7, <1>8, <1>9 DEF o

LEMMA TakeSteps ==
  ASSUME ChatInv, NEW a \in Actors,
         \/ ClearCancel(a)
         \/ a \in Commands /\ (DisconnectCancel(a) \/ Stop(a) \/ ConnectReserve(a))
  PROVE  Takes(a)
<1> DEFINE g == owner.gen + 1
<1>1. /\ TypeOK /\ op[a] \in Op /\ Tasks \subseteq Actors /\ Commands \cap Tasks = {}
      /\ owner.gen \in Nat /\ g \in Nat /\ g \notin Commands
  BY OpFields, ActorKinds, ConnectionNow DEF ChatInv
<1>2. /\ \A h \in Tasks : op[h].pc # "idle" => h # g
      /\ Announcing \subseteq Points
  <2>1. \A h \in Tasks : op[h].pc # "idle" => h # g
    BY <1>1, ConnectionNow
  <2> QED
    BY <2>1 DEF Announcing, Points
\* Nobody has the next generation yet, and the others are as AbortedEffect says.
<1>3. ASSUME NEW s \in Op, NEW o, o = Taking(a, s)
      PROVE  /\ o \in [Actors -> Op]
             /\ \A c \in Commands \ {a} : o[c] = op[c]
             /\ \A h \in Tasks \ {a} : o[h].pc \in {op[h].pc, "idle"}
             /\ o[a].pc \in {s.pc, "idle"}
             /\ g \in Tasks /\ a # g => o[g].pc = "idle"
             /\ a \in Commands /\ s.pc \in Announcing => o[a] = s
  <2>1. g \in Tasks => op[g].pc = "idle"
    BY <1>2
  <2>2. /\ o \in [Actors -> Op]
        /\ \A c \in Commands \ {a} : o[c] = op[c]
        /\ \A h \in Tasks \ {a} : o[h].pc \in {op[h].pc, "idle"}
        /\ o[a].pc \in {s.pc, "idle"}
        /\ a \in Commands /\ s.pc \in Announcing => o[a] = s
    <3>1. /\ Taking(a, s) \in [Actors -> Op]
          /\ \A c \in Commands \ {a} : Taking(a, s)[c] = op[c]
          /\ \A h \in Tasks \ {a} : Taking(a, s)[h].pc \in {op[h].pc, "idle"}
          /\ Taking(a, s)[a].pc \in {s.pc, "idle"}
          /\ a \in Commands /\ s.pc \in Announcing => Taking(a, s)[a] = s
      BY TakingEffect
    <3> QED
      BY <1>3, <3>1
  <2>3. g \in Tasks /\ a # g => o[g].pc = "idle"
    BY <2>1, <2>2
  <2> QED
    BY <2>2, <2>3
<1>4. g # a
  <2>1. a \notin Commands => op[a].pc # "idle"
    BY DEF ClearCancel
  <2> QED
    BY <1>1, <1>2, <2>1 DEF Actors
<1>5. CASE ClearCancel(a)
  <2> DEFINE s == ClearReturned(a, "true")
  <2>1. /\ op[a].pc = "clear.cancel" /\ owner' = Advanced /\ op' = Taking(a, s)
        /\ chat' = chat /\ calls' = calls
    BY <1>5 DEF ClearCancel, Become, Taking
  <2>2. s \in Op /\ s.pc \in Ends \cup {"idle"}
    <3>1. s = Idle \/ s = [op[a] EXCEPT !.pc = "end.AuthRequired"]
      BY DEF ClearReturned
    <3>2. "end.AuthRequired" \in Ends /\ "end.AuthRequired" \in Points
      BY DEF Ends, Points
    <3>3. /\ [op[a] EXCEPT !.pc = "end.AuthRequired"] \in Op
          /\ [op[a] EXCEPT !.pc = "end.AuthRequired"].pc = "end.AuthRequired"
      BY <1>1, <3>2, PcType
    <3> QED
      BY <3>1, <3>2, <3>3, IdleType
  <2> HIDE DEF s
  <2> QED
    BY <1>3, <1>4, <2>1, <2>2 DEF Takes
<1>6. CASE a \in Commands /\ DisconnectCancel(a)
  <2> DEFINE s == [op[a] EXCEPT !.pc = "disconnect.publish", !.conn = owner.gen + 1]
  <2>1. /\ op[a].pc = "disconnect.cancel" /\ owner' = Advanced /\ op' = Taking(a, s)
        /\ chat' = chat /\ calls' = calls
    BY <1>6 DEF DisconnectCancel, Become, Taking
  <2>2. s \in Op /\ s.pc = "disconnect.publish" /\ s.conn = owner.gen + 1
    BY <1>1, <1>2 DEF Op, Announcing
  <2> HIDE DEF s
  <2>3. op'[a] = s
    BY <1>3, <1>6, <2>1, <2>2 DEF Announcing
  <2> QED
    BY <1>3, <1>4, <1>6, <2>1, <2>2, <2>3 DEF Takes
<1>7. CASE a \in Commands /\ Stop(a)
  <2> DEFINE s == [Idle EXCEPT !.pc = "stop.publish", !.conn = owner.gen + 1]
  <2>1. /\ op[a].pc = "idle" /\ owner' = Advanced /\ op' = Taking(a, s)
        /\ chat' = chat /\ calls' = calls + 1
    BY <1>7 DEF Stop, Call, Become, Taking
  <2>2. s \in Op /\ s.pc = "stop.publish" /\ s.conn = owner.gen + 1
    BY <1>1, <1>2, IdleType DEF Op, Announcing
  <2> HIDE DEF s
  <2>3. op'[a] = s
    BY <1>3, <1>7, <2>1, <2>2 DEF Announcing
  <2> QED
    BY <1>3, <1>4, <1>7, <2>1, <2>2, <2>3 DEF Takes
<1>8. CASE a \in Commands /\ ConnectReserve(a)
  <2> DEFINE s == [op[a] EXCEPT !.pc = "connect.register", !.conn = owner.gen + 1]
             task == [Idle EXCEPT !.pc = "task.wait", !.login = op[a].login]
             o == Taking(a, s)
  <2>1. /\ op[a].pc = "connect.reserve" /\ owner' = Advanced /\ op' = [o EXCEPT ![g] = task]
        /\ chat' = chat /\ calls' = calls
    BY <1>8 DEF ConnectReserve, Become, Taking
  <2>2. s \in Op /\ s.pc = "connect.register" /\ s.conn = owner.gen + 1
    BY <1>1, <1>2 DEF Op, Announcing
  <2>3. task.pc = "task.wait" /\ task.alive
    BY DEF Idle
  <2> HIDE DEF s, task
  <2>4. /\ o \in [Actors -> Op] /\ o[a] = s
        /\ \A c \in Commands \ {a} : o[c] = op[c]
        /\ \A h \in Tasks \ {a} : o[h].pc \in {op[h].pc, "idle"}
    BY <1>3, <1>8, <2>2 DEF Announcing
  <2> HIDE DEF o
  <2>5. /\ \A b \in Actors : b # g => op'[b] = o[b]
        /\ g \in Tasks => op'[g] = task
    BY <1>1, <2>1, <2>4
  <2>6. /\ op'[a] = s
        /\ \A c \in Commands \ {a} : op'[c] = op[c]
        /\ \A h \in Tasks \ {a, g} : op'[h].pc \in {op[h].pc, "idle"}
    BY <1>1, <1>4, <2>4, <2>5, ActorKinds
  <2> QED
    BY <1>8, <2>1, <2>2, <2>3, <2>5, <2>6 DEF Takes
<1> QED
  BY <1>5, <1>6, <1>7, <1>8

\* Steps of a command that has taken a generation.
LEMMA TellSteps ==
  ASSUME ChatInv, NEW c \in Commands, StopPublish(c) \/ DisconnectPublish(c) \/ ConnectPublish(c)
  PROVE  Tells(c)
<1>1. c \in Actors /\ op \in [Actors -> Op] /\ op[c] \in Op
  BY OpFields, ActorKinds DEF ChatInv
<1>2. /\ Advance(Idle) = Idle /\ Idle.pc = "idle"
      /\ \A r : r.pc = "connect.go" => Advance(r) = r
  BY DEF Advance, Idle, Awaits, Ends
<1>3. CASE StopPublish(c) \/ DisconnectPublish(c)
  <2>1. /\ op[c].pc \in {"stop.publish", "disconnect.publish"} /\ op' = Put(c, Idle)
        /\ chat' = Recorded(op[c].conn, "Disconnected") /\ owner' = owner /\ calls' = calls
    BY <1>3 DEF StopPublish, DisconnectPublish, Finish, Become
  <2>2. op'[c] = Idle /\ \A b \in Actors \ {c} : op'[b] = op[b]
    BY <1>1, <1>2, <2>1 DEF Put
  <2> QED
    BY <1>2, <2>1, <2>2 DEF Tells
<1>4. CASE ConnectPublish(c)
  <2> DEFINE r == [op[c] EXCEPT !.pc = "connect.go"]
  <2>1. /\ op[c].pc = "connect.publish" /\ op' = Put(c, r)
        /\ chat' = Recorded(op[c].conn, "Connecting") /\ owner' = owner /\ calls' = calls
    BY <1>4 DEF ConnectPublish, Goto, Become
  <2>2. r.pc = "connect.go" /\ r.conn = op[c].conn
    BY <1>1 DEF Op
  <2> HIDE DEF r
  <2>3. op'[c] = r /\ \A b \in Actors \ {c} : op'[b] = op[b]
    BY <1>1, <1>2, <2>1, <2>2 DEF Put
  <2> QED
    BY <2>1, <2>2, <2>3 DEF Tells
<1> QED
  BY <1>3, <1>4

LEMMA SendSteps ==
  ASSUME ChatInv, NEW c \in Commands, ConnectGo(c)
  PROVE  Sends(c)
<1> DEFINE g == op[c].conn
<1>1. /\ c \in Actors /\ op \in [Actors -> Op] /\ g \in Nat /\ g # c
      /\ \A b \in Actors : op[b] \in Op
  BY OpFields, ActorKinds, ConnectionNow DEF ChatInv
<1>2. /\ op[c].pc = "connect.go" /\ owner' = owner /\ chat' = chat /\ calls' = calls
      /\ op' = [op EXCEPT ![c] = Idle,
                          ![g].pc = IF @ = "task.wait" THEN "task.lookup" ELSE @]
  BY DEF ConnectGo, Become, chatVars
<1>3. op'[c].pc = "idle"
  BY <1>1, <1>2, IdleType
<1>4. ASSUME NEW b \in Actors \ {c}
      PROVE  \/ op'[b] = op[b] /\ ~(b = g /\ op[b].pc = "task.wait")
             \/ b = g /\ Started(b)
  <2>1. CASE b = g
    <3>1. op'[b] = [op[b] EXCEPT !.pc = IF @ = "task.wait" THEN "task.lookup" ELSE @]
      BY <1>1, <1>2, <2>1
    <3>2. CASE op[b].pc = "task.wait"
      <4>1. op'[b] = [op[b] EXCEPT !.pc = "task.lookup"]
        BY <3>1, <3>2
      <4> QED
        BY <1>1, <2>1, <3>2, <4>1 DEF Started, Op
    <3>3. CASE op[b].pc # "task.wait"
      BY <1>1, <3>1, <3>3 DEF Op
    <3> QED
      BY <3>2, <3>3
  <2>2. CASE b # g
    BY <1>1, <1>2, <2>2
  <2> QED
    BY <2>1, <2>2
<1> QED
  BY <1>2, <1>3, <1>4 DEF Sends

LEMMA RegisterSteps ==
  ASSUME ChatInv, NEW c \in Commands, ConnectRegister(c)
  PROVE  Registers(c)
<1> DEFINE g == op[c].conn
           r == [op[c] EXCEPT !.pc = "connect.publish"]
<1>1. /\ c \in Actors /\ op \in [Actors -> Op] /\ op[c] \in Op /\ owner \in Owner
  BY OpFields, ActorKinds, ConnectionFields DEF ChatInv
<1>2. /\ Advance(Idle) = Idle /\ Idle.pc = "idle"
      /\ \A s : s.pc = "connect.publish" => Advance(s) = s
  BY DEF Advance, Idle, Awaits, Ends
<1>3. /\ op[c].pc = "connect.register" /\ chat' = chat /\ calls' = calls
      /\ \/ /\ owner.gen # g \/ owner.conn # 0
            /\ owner' = owner /\ op' = Aborted(Put(c, Idle), g)
         \/ /\ owner.gen = g /\ owner.conn = 0
            /\ owner' = [owner EXCEPT !.conn = g] /\ op' = Put(c, r)
  BY DEF ConnectRegister, Goto, Become, NoConnection
<1>4. CASE /\ owner.gen # g \/ owner.conn # 0
           /\ owner' = owner /\ op' = Aborted(Put(c, Idle), g)
  <2> DEFINE p == Put(c, Idle)
  <2>1. /\ p \in [Actors -> Op] /\ p[c] = Idle /\ \A b \in Actors \ {c} : p[b] = op[b]
    BY <1>1, <1>2, IdleType DEF Put
  <2>2. op' = Aborted(p, g) /\ g # c
    BY <1>4, ConnectionNow, ActorKinds
  <2> HIDE DEF p, g
  <2>3. /\ \A b \in Actors : (b # g \/ b = NoConnection) => Aborted(p, g)[b] = p[b]
        /\ g # NoConnection /\ g \in Actors =>
             \/ Aborted(p, g)[g] = Idle
             \/ Aborted(p, g)[g] = p[g]
             \/ Aborted(p, g)[g] = [p[g] EXCEPT !.alive = FALSE]
    <3>1. /\ Aborted(p, g) \in [Actors -> Op]
          /\ \A b \in Actors : (b # g \/ b = NoConnection) => Aborted(p, g)[b] = p[b]
          /\ g # NoConnection /\ g \in Actors =>
               \/ Aborted(p, g)[g] = Idle /\ p[g].pc \in Awaits
               \/ Aborted(p, g)[g] = p[g] /\ p[g].pc = "idle"
               \/ /\ p[g].pc \notin Awaits /\ p[g].pc # "idle"
                  /\ Aborted(p, g)[g] = [p[g] EXCEPT !.alive = FALSE]
      BY <2>1, AbortedType
    <3> QED
      BY <3>1
  <2>4. op'[c].pc = "idle"
    BY <1>1, <1>2, <2>1, <2>2, <2>3
  <2>5. ASSUME NEW b \in Actors \ {c}
        PROVE  op'[b] = op[b] \/ (b = g /\ op'[b].pc \in {op[b].pc, "idle"})
    <3>1. CASE b = g /\ b # NoConnection
      <4>1. [op[b] EXCEPT !.alive = FALSE].pc = op[b].pc
        BY <1>1 DEF Op
      <4> QED
        BY <1>2, <2>1, <2>2, <2>3, <3>1, <4>1
    <3>2. CASE b # g \/ b = NoConnection
      BY <2>1, <2>2, <2>3, <3>2
    <3> QED
      BY <3>1, <3>2
  <2> QED
    BY <1>3, <1>4, <2>4, <2>5 DEF Registers, g
<1>5. CASE /\ owner.gen = g /\ owner.conn = 0
           /\ owner' = [owner EXCEPT !.conn = g] /\ op' = Put(c, r)
  <2>1. r.pc = "connect.publish" /\ r.conn = g
    BY <1>1 DEF Op
  <2>2. owner'.gen = owner.gen /\ owner'.conn = g
    BY <1>1, <1>5 DEF Owner
  <2> HIDE DEF r
  <2>3. op'[c] = r /\ \A b \in Actors \ {c} : op'[b] = op[b]
    BY <1>1, <1>2, <1>5, <2>1 DEF Put
  <2> QED
    BY <1>3, <1>5, <2>1, <2>2, <2>3 DEF Registers
<1> QED
  BY <1>3, <1>4, <1>5

\* The shapes a step has for the connection.
Steady == owner' = owner /\ chat' = chat /\ op' = op /\ calls' = calls

ChatMove ==
  \/ \E a \in Actors : Goes(a) \/ Takes(a)
  \/ \E c \in Commands : Tells(c) \/ Sends(c) \/ Registers(c)
  \/ Steady \/ Restart

LEMMA NextMoves ==
  ASSUME ChatInv, Next
  PROVE  ChatMove
<1>1. Commands \subseteq Actors /\ Tasks \subseteq Actors
  BY ActorKinds
<1>2. ASSUME NEW a \in Actors, RefreshStep(a) \/ ClearBegin(a) \/ ClearStored(a)
      PROVE  ChatMove
  <2>1. LoginGoesOn(a)
    BY <1>2 DEF LoginGoesOn
  <2> QED
    BY <2>1, LoginGoes DEF ChatMove
<1>3. ASSUME NEW a \in Actors, ClearCancel(a) PROVE ChatMove
  BY <1>3, TakeSteps DEF ChatMove
<1>4. ASSUME NEW a \in Actors, JobStep(a) PROVE ChatMove
  BY <1>4 DEF ChatMove, Steady, JobStep, JobStart, JobWrite, JobFault, JobEnd, chatVars
<1>5. ASSUME NEW c \in Commands, LoginStep(c) \/ DisconnectLocked(c) \/ DisconnectStored(c)
      PROVE  ChatMove
  <2>1. LoginGoesOn(c)
    BY <1>5 DEF LoginGoesOn
  <2> QED
    BY <1>1, <2>1, LoginGoes DEF ChatMove
<1>6. ASSUME NEW c \in Commands, LoginCall(c) \/ Connect(c) PROVE ChatMove
  BY <1>1, <1>6, CallGoes DEF ChatMove
<1>7. ASSUME NEW c \in Commands, StopPublish(c) \/ DisconnectPublish(c) \/ ConnectPublish(c)
      PROVE  ChatMove
  BY <1>7, TellSteps DEF ChatMove
<1>8. ASSUME NEW c \in Commands, DisconnectCancel(c) \/ Stop(c) \/ ConnectReserve(c)
      PROVE  ChatMove
  BY <1>1, <1>8, TakeSteps DEF ChatMove
<1>9. ASSUME NEW c \in Commands, ConnectRegister(c) \/ ConnectGo(c) PROVE ChatMove
  BY <1>9, RegisterSteps, SendSteps DEF ChatMove
<1>10. ASSUME NEW g \in Tasks, TaskStep(g) PROVE ChatMove
  BY <1>1, <1>10, TaskGoes DEF ChatMove
<1>11. ASSUME NEW c \in Commands, Plain(c) PROVE ChatMove
  BY <1>5, <1>6, <1>7, <1>11 DEF Plain
<1>12. Restart => ChatMove
  BY DEF ChatMove
<1> QED
  BY <1>2, <1>3, <1>4, <1>5, <1>7, <1>8, <1>9, <1>10, <1>11, <1>12, NextSteps

-----------------------------------------------------------------------------
(***************************************************************************)
(* Whoever owns the connection can be told from its status.                *)
(***************************************************************************)
\* Waits, after the step.
WaitsNext(g) == g \in Tasks /\ op'[g].pc = "task.wait" /\ op'[g].alive

LEMMA GoesKeepsReach ==
  ASSUME ChatInv, ReachInv, NEW a \in Actors, Goes(a)
  PROVE  ReachInv'
<1>1. /\ TypeOK /\ Commands \subseteq Actors /\ Tasks \subseteq Actors
      /\ Commands \cap Tasks = {}
      /\ owner.gen \in Nat /\ owner.conn \in {0, owner.gen}
      /\ chat.gen \in Nat /\ chat.gen <= owner.gen
  BY ActorKinds, ConnectionNow DEF ChatInv
<1>2. /\ owner' = owner /\ \A b \in Actors \ {a} : op'[b] = op[b]
      /\ op[a].pc \notin Held /\ op'[a].pc \notin Held
      /\ a \in Tasks /\ op[a].alive => op'[a].alive
      /\ a \in Tasks => op[a].pc # "idle"
  BY <1>1 DEF Goes
\* Who says something is a task that was started, and not of a later generation.
<1>3. \/ /\ chat' = chat
         /\ a \in Tasks /\ op[a].alive => op'[a].pc # "idle" \/ owner.conn # a
      \/ /\ a \in Tasks /\ a \in Nat /\ a <= owner.gen
         /\ \E status \in Statuses :
              /\ chat' = Recorded(a, status)
              /\ op'[a].pc = "idle" /\ op[a].alive => status \notin LiveStatuses
  <2>1. a \in Tasks => a \in Nat /\ a <= owner.gen
    BY <1>2, ConnectionNow
  <2> QED
    BY <2>1 DEF Goes
<1>4. Held = Connecting \cup {"task.wait"} /\ "connect.register" \in Connecting
      /\ "connect.publish" \in Connecting /\ "connect.go" \in Connecting
  BY DEF Held, Connecting
<1>5. ASSUME NEW b \in Actors, op[b].pc \in Held PROVE b # a /\ op'[b] = op[b]
  BY <1>2, <1>5
<1>6. ASSUME NEW c \in Commands PROVE RegisterInv(c)'
  <2> SUFFICES ASSUME op'[c].pc = "connect.register", op'[c].conn = owner'.gen
               PROVE  owner'.conn = 0 /\ WaitsNext(owner'.gen)
    BY DEF RegisterInv, Waits, WaitsNext
  <2>1. c # a /\ op'[c] = op[c]
    BY <1>1, <1>2, <1>4
  <2>2. owner.conn = 0 /\ Waits(owner.gen)
    BY <1>2, <2>1 DEF ReachInv, RegisterInv
  <2>3. op'[owner.gen] = op[owner.gen]
    BY <1>1, <1>4, <1>5, <2>2 DEF Waits
  <2> QED
    BY <1>2, <2>2, <2>3 DEF Waits, WaitsNext
<1>7. ASSUME NEW c \in Commands PROVE StartInv(c)'
  <2> SUFFICES ASSUME op'[c].pc \in {"connect.publish", "connect.go"}
               PROVE  \/ op'[c].conn < owner'.gen
                      \/ op'[c].conn = owner'.conn /\ WaitsNext(owner'.conn)
    BY DEF StartInv, Waits, WaitsNext
  <2>1. c # a /\ op'[c] = op[c]
    BY <1>1, <1>2, <1>4
  <2>2. op[c].conn < owner.gen \/ (op[c].conn = owner.conn /\ Waits(owner.conn))
    BY <2>1 DEF ReachInv, StartInv
  <2>3. Waits(owner.conn) => op'[owner.conn] = op[owner.conn]
    BY <1>1, <1>4, <1>5 DEF Waits
  <2> QED
    BY <1>2, <2>1, <2>2, <2>3 DEF Waits, WaitsNext
<1>8. FreeInv'
  <2> SUFFICES ASSUME owner.conn = 0
               PROVE  /\ owner.gen \in Tasks => op'[owner.gen].pc \in {"idle", "task.wait"}
                      /\ chat'.gen = owner.gen => chat'.status \notin LiveStatuses
    BY <1>2 DEF FreeInv
  <2>1. /\ owner.gen \in Tasks => op[owner.gen].pc \in {"idle", "task.wait"}
        /\ chat.gen = owner.gen => chat.status \notin LiveStatuses
    BY DEF ReachInv, FreeInv
  <2>2. ~(a \in Tasks /\ a = owner.gen)
    BY <1>2, <1>4, <2>1
  <2>3. owner.gen \in Tasks => op'[owner.gen].pc \in {"idle", "task.wait"}
    BY <1>1, <1>2, <2>1, <2>2
  <2>4. chat'.gen = owner.gen => chat'.status \notin LiveStatuses
    <3>1. CASE chat' = chat
      BY <2>1, <3>1
    <3>2. ASSUME a \in Tasks, a \in Nat, NEW status \in Statuses, chat' = Recorded(a, status)
          PROVE  chat' = chat \/ chat'.gen = a
      BY <1>1, <3>2, RecordedCases
    <3> QED
      BY <1>3, <2>1, <2>2, <3>1, <3>2
  <2> QED
    BY <2>3, <2>4
<1>9. OwnedInv'
  <2> SUFFICES ASSUME owner.conn # 0
               PROVE  /\ owner.conn \in Tasks /\ op'[owner.conn].alive
                      /\ op'[owner.conn].pc = "task.wait" =>
                           \E c \in Commands : Starts(c, owner.conn)'
                      /\ op'[owner.conn].pc = "idle" =>
                           chat'.gen = owner.conn /\ chat'.status \notin LiveStatuses
    BY <1>2 DEF OwnedInv, Starts
  <2>1. /\ owner.conn \in Tasks /\ op[owner.conn].alive
        /\ op[owner.conn].pc = "task.wait" => \E c \in Commands : Starts(c, owner.conn)
        /\ op[owner.conn].pc = "idle" =>
             chat.gen = owner.conn /\ chat.status \notin LiveStatuses
    BY DEF ReachInv, OwnedInv
  <2>2. op'[owner.conn].alive
    BY <1>1, <1>2, <2>1
  <2>3. ASSUME op'[owner.conn].pc = "task.wait"
        PROVE  \E c \in Commands : Starts(c, owner.conn)'
    <3>1. owner.conn # a /\ op[owner.conn].pc = "task.wait"
      BY <1>1, <1>2, <1>4, <2>1, <2>3
    <3>2. PICK c \in Commands : Starts(c, owner.conn)
      BY <2>1, <3>1
    <3>3. op'[c] = op[c]
      BY <1>1, <1>4, <1>5, <3>2 DEF Starts
    <3> QED
      BY <1>2, <3>2, <3>3 DEF Starts
  <2>4. ASSUME op'[owner.conn].pc = "idle"
        PROVE  chat'.gen = owner.conn /\ chat'.status \notin LiveStatuses
    <3>1. owner.conn = owner.gen
      BY <1>1
    <3>2. CASE owner.conn = a
      <4>1. PICK status \in Statuses :
              /\ a \in Nat /\ a >= chat.gen
              /\ chat' = Recorded(a, status) /\ status \notin LiveStatuses
        BY <1>1, <1>3, <2>1, <2>4, <3>1, <3>2
      <4>2. chat'.gen = a /\ chat'.status = status
        BY <1>1, <4>1, RecordedCases
      <4> QED
        BY <3>2, <4>1, <4>2
    <3>3. CASE owner.conn # a
      <4>1. chat.gen = owner.conn /\ chat.status \notin LiveStatuses
        BY <1>1, <1>2, <2>1, <2>4, <3>3
      <4>2. ASSUME a \in Nat, a <= owner.gen, NEW status \in Statuses,
                   chat' = Recorded(a, status)
            PROVE  chat' = chat
        <5>1. a < chat.gen
          BY <1>1, <3>1, <3>3, <4>1, <4>2
        <5> QED
          BY <1>1, <4>2, <5>1, RecordedCases
      <4> QED
        BY <1>3, <4>1, <4>2
    <3> QED
      BY <3>2, <3>3
  <2> QED
    BY <2>1, <2>2, <2>3, <2>4
<1> QED
  BY <1>6, <1>7, <1>8, <1>9 DEF ReachInv

LEMMA TakesKeepsReach ==
  ASSUME ChatInv, ReachInv, NEW a \in Actors, Takes(a),
         op[a].pc = "connect.reserve" => owner.gen + 1 \in Tasks
  PROVE  ReachInv'
<1> DEFINE g == owner.gen + 1
<1>1. /\ TypeOK /\ owner.gen \in Nat /\ chat.gen \in Nat /\ chat.gen <= owner.gen
      /\ owner'.gen = g /\ owner'.conn = 0 /\ chat' = chat
      /\ g \in Nat /\ g > owner.gen
  BY ConnectionNow DEF ChatInv, Takes, Advanced, NoConnection
<1>2. /\ \A c \in Commands \ {a} : op'[c] = op[c]
      /\ \A c \in Commands : op[c].pc \in Connecting => op[c].conn < g
      /\ {"connect.register", "connect.publish", "connect.go"} \subseteq Connecting
  BY <1>1, ConnectionNow DEF Takes, Connecting
<1>3. ASSUME NEW c \in Commands PROVE RegisterInv(c)'
  <2> SUFFICES ASSUME op'[c].pc = "connect.register", op'[c].conn = g
               PROVE  WaitsNext(g)
    BY <1>1 DEF RegisterInv, Waits, WaitsNext
  <2>1. c = a
    BY <1>1, <1>2
  <2>2. g \in Tasks /\ op'[g].pc = "task.wait" /\ op'[g].alive
    BY <2>1 DEF Takes, Ends
  <2> QED
    BY <2>2 DEF WaitsNext
<1>4. ASSUME NEW c \in Commands PROVE StartInv(c)'
  <2> SUFFICES ASSUME op'[c].pc \in {"connect.publish", "connect.go"}
               PROVE  op'[c].conn < g
    BY <1>1 DEF StartInv
  <2>1. c # a
    BY DEF Takes, Ends
  <2> QED
    BY <1>2, <2>1
<1>5. FreeInv'
  <2>1. g \in Tasks => op'[g].pc \in {"idle", "task.wait"}
    BY DEF Takes
  <2>2. chat'.gen # g
    BY <1>1
  <2> QED
    BY <1>1, <2>1, <2>2 DEF FreeInv
<1>6. OwnedInv'
  BY <1>1 DEF OwnedInv
<1> QED
  BY <1>3, <1>4, <1>5, <1>6 DEF ReachInv

LEMMA TellsKeepsReach ==
  ASSUME ChatInv, ReachInv, NEW c \in Commands, Tells(c)
  PROVE  ReachInv'
<1> DEFINE g == op[c].conn
<1>1. /\ TypeOK /\ Commands \subseteq Actors /\ Tasks \subseteq Actors
      /\ Commands \cap Tasks = {}
      /\ owner.gen \in Nat /\ owner.conn \in {0, owner.gen}
      /\ chat.gen \in Nat /\ chat.gen <= owner.gen
  BY ActorKinds, ConnectionNow DEF ChatInv
<1>2. /\ owner' = owner /\ \A b \in Actors \ {c} : op'[b] = op[b]
      /\ op'[c].pc \in {"idle", "connect.go"}
      /\ op'[c].pc = "connect.go" => op[c].pc = "connect.publish" /\ op'[c].conn = g
      /\ op[c].pc \in {"stop.publish", "disconnect.publish", "connect.publish"}
      /\ op[c].pc # "connect.publish" =>
           chat' = Recorded(g, "Disconnected")
      /\ op[c].pc = "connect.publish" =>
           chat' = Recorded(g, "Connecting") /\ op'[c].pc = "connect.go"
  BY DEF Tells
<1>3. \A b \in Tasks : op'[b] = op[b]
  BY <1>1, <1>2
<1>4. g \in Nat /\ g # 0 /\ g <= owner.gen
  BY <1>2, ConnectionNow DEF Connecting
<1>5. /\ op[c].pc # "connect.publish" =>
           chat' = chat \/ (chat'.gen = g /\ chat'.status = "Disconnected")
      /\ op[c].pc = "connect.publish" =>
           chat' = chat \/ (chat'.gen = g /\ chat'.status = "Connecting")
      /\ chat'.gen \in Nat /\ chat'.gen >= chat.gen
  BY <1>1, <1>2, <1>4, RecordedCases
<1>6. /\ \A d \in Commands : RegisterInv(d) /\ StartInv(d)
      /\ owner.conn = 0 =>
           /\ owner.gen \in Tasks => op[owner.gen].pc \in {"idle", "task.wait"}
           /\ chat.gen = owner.gen => chat.status \notin LiveStatuses
      /\ owner.conn # 0 =>
           /\ owner.conn \in Tasks /\ op[owner.conn].alive
           /\ op[owner.conn].pc = "task.wait" => \E d \in Commands : Starts(d, owner.conn)
           /\ op[owner.conn].pc = "idle" =>
                chat.gen = owner.conn /\ chat.status \notin LiveStatuses
  BY DEF ReachInv, FreeInv, OwnedInv
<1>7. ASSUME NEW d \in Commands PROVE RegisterInv(d)'
  <2> SUFFICES ASSUME op'[d].pc = "connect.register", op'[d].conn = owner.gen
               PROVE  owner.conn = 0 /\ WaitsNext(owner.gen)
    BY <1>2 DEF RegisterInv, Waits, WaitsNext
  <2>1. op'[d] = op[d]
    BY <1>1, <1>2
  <2> QED
    BY <1>3, <1>6, <2>1 DEF RegisterInv, Waits, WaitsNext
<1>8. ASSUME NEW d \in Commands PROVE StartInv(d)'
  <2> SUFFICES ASSUME op'[d].pc \in {"connect.publish", "connect.go"}
               PROVE  op'[d].conn < owner.gen \/ (op'[d].conn = owner.conn /\ WaitsNext(owner.conn))
    BY <1>2 DEF StartInv, Waits, WaitsNext
  <2>1. op'[d].conn = op[d].conn /\ op[d].pc \in {"connect.publish", "connect.go"}
    BY <1>1, <1>2
  <2> QED
    BY <1>3, <1>6, <2>1 DEF StartInv, Waits, WaitsNext
<1>9. FreeInv'
  <2> SUFFICES ASSUME owner.conn = 0
               PROVE  /\ owner.gen \in Tasks => op'[owner.gen].pc \in {"idle", "task.wait"}
                      /\ chat'.gen = owner.gen => chat'.status \notin LiveStatuses
    BY <1>2 DEF FreeInv
  <2>1. op[c].pc = "connect.publish" => g < owner.gen
    BY <1>4, <1>6 DEF StartInv
  <2>2. "Disconnected" \notin LiveStatuses
    BY DEF LiveStatuses
  <2> QED
    BY <1>1, <1>2, <1>3, <1>4, <1>5, <1>6, <2>1, <2>2
<1>10. OwnedInv'
  <2> SUFFICES ASSUME owner.conn # 0
               PROVE  /\ owner.conn \in Tasks /\ op'[owner.conn].alive
                      /\ op'[owner.conn].pc = "task.wait" =>
                           \E d \in Commands : Starts(d, owner.conn)'
                      /\ op'[owner.conn].pc = "idle" =>
                           chat'.gen = owner.conn /\ chat'.status \notin LiveStatuses
    BY <1>2 DEF OwnedInv, Starts
  <2>1. owner.conn = owner.gen /\ op'[owner.conn] = op[owner.conn]
    BY <1>1, <1>3, <1>6
  <2>2. ASSUME NEW d \in Commands, Starts(d, owner.conn) PROVE Starts(d, owner.conn)'
    <3>1. op'[d] = op[d] \/ (d = c /\ op'[c].pc = "connect.go" /\ op'[c].conn = op[c].conn)
      BY <1>1, <1>2, <2>2 DEF Starts
    <3> QED
      BY <1>2, <2>2, <3>1 DEF Starts
  <2>3. ASSUME op[owner.conn].pc = "idle"
        PROVE  chat'.gen = owner.conn /\ chat'.status \notin LiveStatuses
    <3>1. chat.gen = owner.gen /\ chat.status \notin LiveStatuses
      BY <1>6, <2>1, <2>3
    <3>2. op[c].pc = "connect.publish" => g < owner.gen
      BY <1>2, <1>6, <2>3 DEF StartInv, Waits
    <3>3. "Disconnected" \notin LiveStatuses
      BY DEF LiveStatuses
    <3>4. op[c].pc = "connect.publish" => chat' = chat
      BY <1>1, <1>4, <1>5, <3>1, <3>2
    <3> QED
      BY <1>1, <1>4, <1>5, <2>1, <3>1, <3>3, <3>4
  <2> QED
    BY <1>6, <2>1, <2>2, <2>3
<1> QED
  BY <1>7, <1>8, <1>9, <1>10 DEF ReachInv

LEMMA SendsKeepsReach ==
  ASSUME ChatInv, ReachInv, NEW c \in Commands, Sends(c)
  PROVE  ReachInv'
<1> DEFINE g == op[c].conn
<1>1. /\ Commands \subseteq Actors /\ Tasks \subseteq Actors /\ Commands \cap Tasks = {}
      /\ owner.gen \in Nat /\ owner.conn \in {0, owner.gen}
  BY ActorKinds, ConnectionNow
<1>2. /\ owner' = owner /\ chat' = chat /\ op[c].pc = "connect.go" /\ op'[c].pc = "idle"
      /\ \A b \in Actors \ {c} :
           \/ op'[b] = op[b] /\ ~(b = g /\ op[b].pc = "task.wait")
           \/ b = g /\ Started(b)
  BY DEF Sends
<1>3. /\ g \in Nat /\ g # 0 /\ g <= owner.gen /\ g \notin Commands
      /\ \A d \in Commands \ {c} : op[d].pc \in Connecting => op[d].conn # g
      /\ {"connect.register", "connect.publish", "connect.go"} \subseteq Connecting
  BY <1>2, ConnectionNow, ActorKinds DEF Connecting
<1>4. /\ \A d \in Commands \ {c} : op'[d] = op[d]
      /\ \A b \in Tasks \ {g} : op'[b] = op[b]
      /\ \A b \in Tasks : op'[b].alive = op[b].alive /\ (op'[b].pc = "idle" => op[b].pc = "idle")
      /\ g \in Tasks => op'[g].pc # "task.wait"
  BY <1>1, <1>2, <1>3 DEF Started
<1>5. /\ \A d \in Commands : RegisterInv(d) /\ StartInv(d)
      /\ FreeInv /\ OwnedInv
  BY DEF ReachInv
<1>6. ASSUME NEW d \in Commands PROVE RegisterInv(d)'
  <2> SUFFICES ASSUME op'[d].pc = "connect.register", op'[d].conn = owner.gen
               PROVE  owner.conn = 0 /\ WaitsNext(owner.gen)
    BY <1>2 DEF RegisterInv, Waits, WaitsNext
  <2>1. d # c /\ op'[d] = op[d] /\ op[d].conn # g
    BY <1>2, <1>3, <1>4
  <2>2. owner.conn = 0 /\ Waits(owner.gen)
    BY <1>5, <2>1 DEF RegisterInv
  <2>3. op'[owner.gen] = op[owner.gen]
    BY <1>4, <2>1, <2>2 DEF Waits
  <2> QED
    BY <2>2, <2>3 DEF Waits, WaitsNext
<1>7. ASSUME NEW d \in Commands PROVE StartInv(d)'
  <2> SUFFICES ASSUME op'[d].pc \in {"connect.publish", "connect.go"}
               PROVE  op'[d].conn < owner.gen \/ (op'[d].conn = owner.conn /\ WaitsNext(owner.conn))
    BY <1>2 DEF StartInv, Waits, WaitsNext
  <2>1. d # c /\ op'[d] = op[d] /\ op[d].conn # g
    BY <1>2, <1>3, <1>4
  <2>2. op[d].conn < owner.gen \/ (op[d].conn = owner.conn /\ Waits(owner.conn))
    BY <1>5, <2>1 DEF StartInv
  <2>3. Waits(owner.conn) /\ op[d].conn = owner.conn => op'[owner.conn] = op[owner.conn]
    BY <1>4, <2>1 DEF Waits
  <2> QED
    BY <2>1, <2>2, <2>3 DEF Waits, WaitsNext
<1>8. FreeInv'
  <2>1. owner.conn = 0 => g < owner.gen
    BY <1>2, <1>3, <1>5 DEF StartInv
  <2>2. owner.conn = 0 => op'[owner.gen] = op[owner.gen] \/ owner.gen \notin Tasks
    BY <1>1, <1>3, <1>4, <2>1
  <2> QED
    BY <1>2, <1>5, <2>2 DEF FreeInv
<1>9. OwnedInv'
  <2> SUFFICES ASSUME owner.conn # 0
               PROVE  /\ owner.conn \in Tasks /\ op'[owner.conn].alive
                      /\ op'[owner.conn].pc = "task.wait" =>
                           \E d \in Commands : Starts(d, owner.conn)'
                      /\ op'[owner.conn].pc = "idle" =>
                           chat.gen = owner.conn /\ chat.status \notin LiveStatuses
    BY <1>2 DEF OwnedInv, Starts
  <2>1. /\ owner.conn \in Tasks /\ op'[owner.conn].alive
        /\ op'[owner.conn].pc = "idle" =>
             chat.gen = owner.conn /\ chat.status \notin LiveStatuses
    BY <1>4, <1>5 DEF OwnedInv
  <2>2. ASSUME op'[owner.conn].pc = "task.wait"
        PROVE  \E d \in Commands : Starts(d, owner.conn)'
    <3>1. owner.conn # g /\ op[owner.conn].pc = "task.wait"
      BY <1>4, <2>1, <2>2
    <3>2. PICK d \in Commands : Starts(d, owner.conn)
      BY <1>5, <3>1 DEF OwnedInv
    <3>3. d # c
      BY <3>1, <3>2 DEF Starts
    <3> QED
      BY <1>2, <1>4, <3>2, <3>3 DEF Starts
  <2> QED
    BY <2>1, <2>2
<1> QED
  BY <1>6, <1>7, <1>8, <1>9 DEF ReachInv

LEMMA RegistersKeepsReach ==
  ASSUME ChatInv, ReachInv, NEW c \in Commands, Registers(c)
  PROVE  ReachInv'
<1> DEFINE g == op[c].conn
<1>1. /\ Commands \subseteq Actors /\ Tasks \subseteq Actors /\ Commands \cap Tasks = {}
      /\ owner.gen \in Nat /\ owner.conn \in {0, owner.gen}
  BY ActorKinds, ConnectionNow
<1>2. /\ chat' = chat /\ op[c].pc = "connect.register"
      /\ g \in Nat /\ g # 0 /\ g <= owner.gen /\ g \notin Commands /\ owner.conn # g
      /\ \A d \in Commands \ {c} : op[d].pc \in Connecting => op[d].conn # g
      /\ {"connect.register", "connect.publish", "connect.go"} \subseteq Connecting
  BY ConnectionNow, ActorKinds DEF Registers, Connecting
<1>3. /\ \A d \in Commands : RegisterInv(d) /\ StartInv(d)
      /\ FreeInv /\ OwnedInv
  BY DEF ReachInv
<1>4. CASE /\ owner' = owner /\ op'[c].pc = "idle"
           /\ \A b \in Actors \ {c} :
                op'[b] = op[b] \/ (b = g /\ op'[b].pc \in {op[b].pc, "idle"})
  <2>1. /\ \A d \in Commands \ {c} : op'[d] = op[d]
        /\ \A b \in Tasks \ {g} : op'[b] = op[b]
        /\ \A b \in Tasks : op'[b].pc \in {op[b].pc, "idle"}
    BY <1>1, <1>2, <1>4
  <2>2. ASSUME NEW d \in Commands PROVE RegisterInv(d)'
    <3> SUFFICES ASSUME op'[d].pc = "connect.register", op'[d].conn = owner.gen
                 PROVE  owner.conn = 0 /\ WaitsNext(owner.gen)
      BY <1>4 DEF RegisterInv, Waits, WaitsNext
    <3>1. d # c /\ op'[d] = op[d] /\ op[d].conn # g
      BY <1>2, <1>4, <2>1
    <3>2. owner.conn = 0 /\ Waits(owner.gen)
      BY <1>3, <3>1 DEF RegisterInv
    <3> QED
      BY <2>1, <3>1, <3>2 DEF Waits, WaitsNext
  <2>3. ASSUME NEW d \in Commands PROVE StartInv(d)'
    <3> SUFFICES ASSUME op'[d].pc \in {"connect.publish", "connect.go"}
                 PROVE  \/ op'[d].conn < owner.gen
                        \/ op'[d].conn = owner.conn /\ WaitsNext(owner.conn)
      BY <1>4 DEF StartInv, Waits, WaitsNext
    <3>1. d # c /\ op'[d] = op[d]
      BY <1>4, <2>1
    <3>2. op[d].conn < owner.gen \/ (op[d].conn = owner.conn /\ Waits(owner.conn))
      BY <1>3, <3>1 DEF StartInv
    <3> QED
      BY <1>2, <2>1, <3>1, <3>2 DEF Waits, WaitsNext
  <2>4. FreeInv'
    BY <1>2, <1>3, <1>4, <2>1 DEF FreeInv
  <2>5. OwnedInv'
    <3> SUFFICES ASSUME owner.conn # 0
                 PROVE  /\ owner.conn \in Tasks /\ op'[owner.conn].alive
                        /\ op'[owner.conn].pc = "task.wait" =>
                             \E d \in Commands : Starts(d, owner.conn)'
                        /\ op'[owner.conn].pc = "idle" =>
                             chat.gen = owner.conn /\ chat.status \notin LiveStatuses
      BY <1>2, <1>4 DEF OwnedInv, Starts
    <3>1. owner.conn \in Tasks /\ op'[owner.conn] = op[owner.conn]
      BY <1>2, <1>3, <2>1 DEF OwnedInv
    <3>2. ASSUME NEW d \in Commands, Starts(d, owner.conn) PROVE Starts(d, owner.conn)'
      BY <1>2, <1>4, <2>1, <3>2 DEF Starts
    <3> QED
      BY <1>3, <3>1, <3>2 DEF OwnedInv
  <2> QED
    BY <2>2, <2>3, <2>4, <2>5 DEF ReachInv
<1>5. CASE /\ owner.gen = g /\ owner.conn = 0
           /\ owner'.gen = owner.gen /\ owner'.conn = g
           /\ op'[c].pc = "connect.publish" /\ op'[c].conn = g
           /\ \A b \in Actors \ {c} : op'[b] = op[b]
  <2>1. /\ \A d \in Commands \ {c} : op'[d] = op[d]
        /\ \A b \in Tasks : op'[b] = op[b]
        /\ Waits(g)
    BY <1>1, <1>2, <1>3, <1>5 DEF RegisterInv
  <2>2. ASSUME NEW d \in Commands PROVE RegisterInv(d)'
    <3> SUFFICES ASSUME op'[d].pc = "connect.register", op'[d].conn = g PROVE FALSE
      BY <1>5 DEF RegisterInv
    <3> QED
      BY <1>2, <1>5, <2>1
  <2>3. ASSUME NEW d \in Commands PROVE StartInv(d)'
    <3> SUFFICES ASSUME op'[d].pc \in {"connect.publish", "connect.go"}
                 PROVE  op'[d].conn < g \/ (op'[d].conn = g /\ WaitsNext(g))
      BY <1>5 DEF StartInv, Waits, WaitsNext
    <3>1. CASE d = c
      BY <1>5, <2>1, <3>1 DEF Waits, WaitsNext
    <3>2. CASE d # c
      <4>1. op'[d] = op[d] /\ op[d].conn # 0
        BY <1>2, <2>1, <3>2, ConnectionNow
      <4> QED
        BY <1>3, <1>5, <4>1 DEF StartInv
    <3> QED
      BY <3>1, <3>2
  <2>4. FreeInv'
    BY <1>2, <1>5 DEF FreeInv
  <2>5. OwnedInv'
    <3>1. Starts(c, owner.conn)'
      BY <1>5 DEF Starts
    <3>2. g \in Tasks /\ op'[g].alive /\ op'[g].pc = "task.wait"
      BY <2>1 DEF Waits
    <3> QED
      BY <1>5, <3>1, <3>2 DEF OwnedInv
  <2> QED
    BY <2>2, <2>3, <2>4, <2>5 DEF ReachInv
<1> QED
  BY <1>4, <1>5 DEF Registers

LEMMA StartsReach ==
  /\ Init => ReachInv
  /\ Restart => ReachInv'
<1>1. "Disconnected" \notin LiveStatuses
  BY DEF LiveStatuses
<1>2. ASSUME Init PROVE ReachInv
  <2>1. /\ \A a \in Actors : op[a] = Idle
        /\ owner.gen = 0 /\ owner.conn = 0 /\ chat.gen = 0 /\ chat.status = "Disconnected"
    BY <1>2 DEF Init, NoConnection
  <2> QED
    BY <1>1, <2>1, IdleType, ActorKinds
      DEF ReachInv, RegisterInv, StartInv, FreeInv, OwnedInv
<1>3. ASSUME Restart PROVE ReachInv'
  <2>1. /\ \A a \in Actors : op'[a] = Idle
        /\ owner'.gen = 0 /\ owner'.conn = 0 /\ chat'.gen = 0 /\ chat'.status = "Disconnected"
    BY <1>3 DEF Restart, NoConnection
  <2> QED
    BY <1>1, <2>1, IdleType, ActorKinds
      DEF ReachInv, RegisterInv, StartInv, FreeInv, OwnedInv
<1> QED
  BY <1>2, <1>3

-----------------------------------------------------------------------------
(***************************************************************************)
(* Generations.  A command hands out at most two: one for itself, and one  *)
(* for a clear by the task it has started.                                 *)
(***************************************************************************)
\* Who may still hand one out, or start a task that does, and who may do both.
Owing == {a \in Actors : op[a].pc \notin Connecting \cup Ends \cup {"idle"}}
Reserving == {a \in Actors : op[a].pc = "connect.reserve"}

CountInv == owner.gen + Cardinality(Owing) + Cardinality(Reserving) <= 2 * calls

LEMMA FiniteActors == IsFiniteSet(Actors)
<1>1. IsFiniteSet(1 .. MaxConnection)
  <2>1. 1 \in Int /\ MaxConnection \in Int
    BY TwitchAssumption
  <2> QED
    BY <2>1, FS_Interval
<1> QED
  BY <1>1, FS_Union, TwitchAssumption DEF Actors, Tasks

\* How many there are, when some leave or one comes.
LEMMA Fewer ==
  ASSUME NEW S \in SUBSET Actors, NEW T \in SUBSET S
  PROVE  /\ Cardinality(S) \in Nat /\ Cardinality(T) \in Nat
         /\ Cardinality(T) <= Cardinality(S)
<1>1. IsFiniteSet(S)
  BY FiniteActors, FS_Subset
<1> QED
  BY <1>1, FS_Subset, FS_CardinalityType

LEMMA OneLess ==
  ASSUME NEW S \in SUBSET Actors, NEW a \in S, NEW T \in SUBSET (S \ {a})
  PROVE  /\ Cardinality(S) \in Nat /\ Cardinality(T) \in Nat
         /\ Cardinality(T) + 1 <= Cardinality(S)
<1>1. IsFiniteSet(S)
  BY FiniteActors, FS_Subset
<1>2. Cardinality(S) \in Nat /\ Cardinality(S \ {a}) = Cardinality(S) - 1
  BY <1>1, FS_RemoveElement, FS_CardinalityType
<1>3. /\ Cardinality(S \ {a}) \in Nat /\ Cardinality(T) \in Nat
      /\ Cardinality(T) <= Cardinality(S \ {a})
  <2>1. S \ {a} \in SUBSET Actors
    OBVIOUS
  <2> QED
    BY <2>1, Fewer
<1> QED
  BY <1>2, <1>3

LEMMA OneMore ==
  ASSUME NEW S \in SUBSET Actors, NEW a \in Actors, NEW T \in SUBSET (S \cup {a})
  PROVE  /\ Cardinality(S) \in Nat /\ Cardinality(T) \in Nat
         /\ Cardinality(T) <= Cardinality(S) + 1
<1>1. IsFiniteSet(S)
  BY FiniteActors, FS_Subset
<1>2. Cardinality(S) \in Nat /\ Cardinality(S \cup {a}) \in {Cardinality(S), Cardinality(S) + 1}
  BY <1>1, FS_AddElement, FS_CardinalityType
<1>3. Cardinality(T) \in Nat /\ Cardinality(T) <= Cardinality(S \cup {a})
  <2>1. S \cup {a} \in SUBSET Actors
    OBVIOUS
  <2> QED
    BY <2>1, Fewer
<1> QED
  BY <1>2, <1>3

LEMMA Exchanged ==
  ASSUME NEW S \in SUBSET Actors, NEW a \in S, NEW b \in Actors,
         NEW T \in SUBSET ((S \ {a}) \cup {b})
  PROVE  /\ Cardinality(S) \in Nat /\ Cardinality(T) \in Nat
         /\ Cardinality(T) <= Cardinality(S)
<1>1. S \ {a} \in SUBSET Actors /\ S \ {a} \in SUBSET (S \ {a})
  OBVIOUS
<1>2. /\ Cardinality(S) \in Nat /\ Cardinality(S \ {a}) \in Nat
      /\ Cardinality(S \ {a}) + 1 <= Cardinality(S)
  BY <1>1, OneLess
<1>3. Cardinality(T) \in Nat /\ Cardinality(T) <= Cardinality(S \ {a}) + 1
  BY <1>1, OneMore
<1> QED
  BY <1>2, <1>3

\* The sets after the step.
OwingNext == {a \in Actors : op'[a].pc \notin Connecting \cup Ends \cup {"idle"}}
ReservingNext == {a \in Actors : op'[a].pc = "connect.reserve"}

LEMMA CountNext ==
  /\ CountInv' <=>
       owner'.gen + Cardinality(OwingNext) + Cardinality(ReservingNext) <= 2 * calls'
  /\ Owing \in SUBSET Actors /\ Reserving \in SUBSET Actors
  /\ OwingNext \in SUBSET Actors /\ ReservingNext \in SUBSET Actors
BY DEF CountInv, Owing, Reserving, OwingNext, ReservingNext

\* Nobody new owes a generation.
LEMMA NobodyNewKeepsCount ==
  ASSUME ChatInv, CountInv, OwingNext \subseteq Owing, ReservingNext \subseteq Reserving,
         \/ owner'.gen = owner.gen /\ calls' = calls
         \/ owner'.gen = owner.gen + 1 /\ calls' = calls + 1
  PROVE  CountInv'
<1>1. owner.gen \in Nat /\ calls \in Nat
  BY ConnectionNow, TwitchAssumption DEF ChatInv, TypeOK
<1>2. /\ Cardinality(Owing) \in Nat /\ Cardinality(OwingNext) \in Nat
      /\ Cardinality(OwingNext) <= Cardinality(Owing)
  BY CountNext, Fewer
<1>3. /\ Cardinality(Reserving) \in Nat /\ Cardinality(ReservingNext) \in Nat
      /\ Cardinality(ReservingNext) <= Cardinality(Reserving)
  BY CountNext, Fewer
<1>4. owner.gen + Cardinality(Owing) + Cardinality(Reserving) <= 2 * calls
  BY DEF CountInv
<1> QED
  BY <1>1, <1>2, <1>3, <1>4, CountNext

LEMMA GoesKeepsCount ==
  ASSUME ChatInv, CountInv, NEW a \in Actors, Goes(a)
  PROVE  CountInv'
<1>1. owner.gen \in Nat /\ calls \in Nat
  BY ConnectionNow, TwitchAssumption DEF ChatInv, TypeOK
<1>2. /\ owner' = owner /\ \A b \in Actors \ {a} : op'[b] = op[b]
      /\ op[a].pc \notin Connecting
      /\ op[a].pc \in Ends => op'[a].pc = "idle"
      /\ \/ op[a].pc # "idle" /\ op'[a].pc # "connect.reserve" /\ calls' = calls
         \/ calls' = calls + 1
  BY DEF Goes, Held
<1>3. CASE op[a].pc # "idle" /\ op'[a].pc # "connect.reserve" /\ calls' = calls
  <2>1. OwingNext \subseteq Owing /\ ReservingNext \subseteq Reserving
    BY <1>2, <1>3 DEF OwingNext, Owing, ReservingNext, Reserving
  <2> QED
    BY <1>2, <1>3, <2>1, NobodyNewKeepsCount
<1>4. CASE calls' = calls + 1
  <2>1. OwingNext \subseteq Owing \cup {a} /\ ReservingNext \subseteq Reserving \cup {a}
    BY <1>2 DEF OwingNext, Owing, ReservingNext, Reserving
  <2>2. /\ Cardinality(Owing) \in Nat /\ Cardinality(OwingNext) \in Nat
        /\ Cardinality(OwingNext) <= Cardinality(Owing) + 1
    BY <2>1, CountNext, OneMore
  <2>3. /\ Cardinality(Reserving) \in Nat /\ Cardinality(ReservingNext) \in Nat
        /\ Cardinality(ReservingNext) <= Cardinality(Reserving) + 1
    BY <2>1, CountNext, OneMore
  <2>4. owner.gen + Cardinality(Owing) + Cardinality(Reserving) <= 2 * calls
    BY DEF CountInv
  <2> QED
    BY <1>1, <1>2, <1>4, <2>2, <2>3, <2>4, CountNext
<1> QED
  BY <1>2, <1>3, <1>4

LEMMA TakesKeepsCount ==
  ASSUME ChatInv, CountInv, NEW a \in Actors, Takes(a),
         op[a].pc = "connect.reserve" => owner.gen + 1 \in Tasks
  PROVE  CountInv'
<1> DEFINE g == owner.gen + 1
<1>1. /\ owner.gen \in Nat /\ calls \in Nat /\ owner'.gen = g
      /\ Actors = Commands \cup Tasks
  BY ConnectionNow, TwitchAssumption DEF ChatInv, TypeOK, Takes, Advanced, Actors
<1>2. /\ "idle" \notin Connecting \cup Ends
      /\ {"connect.register", "stop.publish", "disconnect.publish"} \subseteq Connecting
      /\ "connect.reserve" \notin Connecting \cup Ends
      /\ "disconnect.cancel" \notin Connecting \cup Ends
      /\ "clear.cancel" \notin Connecting \cup Ends
      /\ "connect.reserve" \notin Ends
  BY DEF Connecting, Ends
<1>3. owner.gen + Cardinality(Owing) + Cardinality(Reserving) <= 2 * calls
  BY DEF CountInv
<1>4. /\ \A c \in Commands \ {a} : op'[c] = op[c]
      /\ \A h \in Tasks \ {a, g} : op'[h].pc \in {op[h].pc, "idle"}
  BY DEF Takes
<1>5. CASE /\ op[a].pc = "connect.reserve" /\ calls' = calls
           /\ op'[a].pc = "connect.register"
           /\ g \in Tasks => op'[g].pc = "task.wait"
  <2>1. /\ g \in Tasks /\ g \in Actors /\ op'[g].pc = "task.wait"
        /\ a \in Owing /\ a \in Reserving
    BY <1>1, <1>2, <1>5 DEF Owing, Reserving
  <2>2. OwingNext \subseteq (Owing \ {a}) \cup {g}
    BY <1>1, <1>2, <1>4, <1>5 DEF OwingNext, Owing
  <2>3. ReservingNext \subseteq Reserving \ {a}
    BY <1>1, <1>4, <1>5, <2>1 DEF ReservingNext, Reserving
  <2>4. /\ Cardinality(Owing) \in Nat /\ Cardinality(OwingNext) \in Nat
        /\ Cardinality(OwingNext) <= Cardinality(Owing)
    BY <2>1, <2>2, CountNext, Exchanged
  <2>5. /\ Cardinality(Reserving) \in Nat /\ Cardinality(ReservingNext) \in Nat
        /\ Cardinality(ReservingNext) + 1 <= Cardinality(Reserving)
    BY <2>1, <2>3, CountNext, OneLess
  <2> QED
    BY <1>1, <1>3, <1>5, <2>4, <2>5, CountNext
<1>6. CASE /\ op[a].pc = "idle" /\ calls' = calls + 1 /\ op'[a].pc = "stop.publish"
           /\ g \in Tasks => op'[g].pc = "idle"
  <2>1. OwingNext \subseteq Owing /\ ReservingNext \subseteq Reserving
    BY <1>1, <1>2, <1>4, <1>6 DEF OwingNext, Owing, ReservingNext, Reserving
  <2> QED
    BY <1>1, <1>6, <2>1, NobodyNewKeepsCount
<1>7. CASE /\ op[a].pc \in {"disconnect.cancel", "clear.cancel"} /\ calls' = calls
           /\ op'[a].pc \in Ends \cup {"idle", "disconnect.publish"}
           /\ g \in Tasks => op'[g].pc = "idle"
  <2>1. /\ a \in Owing /\ OwingNext \subseteq Owing \ {a}
        /\ ReservingNext \subseteq Reserving
    BY <1>1, <1>2, <1>4, <1>7 DEF OwingNext, Owing, ReservingNext, Reserving
  <2>2. /\ Cardinality(Owing) \in Nat /\ Cardinality(OwingNext) \in Nat
        /\ Cardinality(OwingNext) + 1 <= Cardinality(Owing)
    BY <2>1, CountNext, OneLess
  <2>3. /\ Cardinality(Reserving) \in Nat /\ Cardinality(ReservingNext) \in Nat
        /\ Cardinality(ReservingNext) <= Cardinality(Reserving)
    BY <2>1, CountNext, Fewer
  <2> QED
    BY <1>1, <1>3, <1>7, <2>2, <2>3, CountNext
<1> QED
  BY <1>5, <1>6, <1>7 DEF Takes

LEMMA CommandsKeepCount ==
  ASSUME ChatInv, CountInv, NEW c \in Commands, Tells(c) \/ Sends(c) \/ Registers(c)
  PROVE  CountInv'
<1>1. owner'.gen = owner.gen /\ calls' = calls
  BY DEF Tells, Sends, Registers
<1>2. /\ {"connect.go", "connect.publish"} \subseteq Connecting
      /\ "task.wait" \notin Connecting \cup Ends \cup {"idle"}
  BY DEF Connecting, Ends
<1>3. op'[c].pc \in {"idle", "connect.go", "connect.publish"}
  BY DEF Tells, Sends, Registers
<1>4. \A b \in Actors \ {c} :
        op'[b].pc \in {op[b].pc, "idle"} \/ (op[b].pc = "task.wait" /\ op'[b].pc = "task.lookup")
  BY DEF Tells, Sends, Started, Registers
<1>5. OwingNext \subseteq Owing /\ ReservingNext \subseteq Reserving
  BY <1>2, <1>3, <1>4 DEF OwingNext, Owing, ReservingNext, Reserving
<1> QED
  BY <1>1, <1>5, NobodyNewKeepsCount

LEMMA StartsCount ==
  /\ Init => CountInv
  /\ TypeOK /\ Restart => CountInv'
<1>1. Cardinality({}) = 0
  BY FS_EmptySet
<1>2. ASSUME Init PROVE CountInv
  <2>1. Owing = {} /\ Reserving = {} /\ owner.gen = 0 /\ calls = 0
    BY <1>2, IdleType DEF Init, Owing, Reserving
  <2> QED
    BY <1>1, <2>1 DEF CountInv
<1>3. ASSUME TypeOK, Restart PROVE CountInv'
  <2>1. OwingNext = {} /\ ReservingNext = {} /\ owner'.gen = 0 /\ calls' = calls + 1
    BY <1>3, IdleType DEF Restart, OwingNext, ReservingNext
  <2>2. calls \in Nat
    BY <1>3, TwitchAssumption DEF TypeOK
  <2> QED
    BY <1>1, <2>1, <2>2, CountNext
<1> QED
  BY <1>2, <1>3

\* The generation that a connect takes has a task.
LEMMA EnoughTasks ==
  ASSUME ChatInv, CountInv, NEW a \in Actors, op[a].pc = "connect.reserve"
  PROVE  owner.gen + 1 \in Tasks
<1>1. /\ owner.gen \in Nat /\ calls \in Nat /\ calls <= MaxCalls
      /\ MaxCalls \in Nat /\ MaxConnection \in Nat /\ MaxConnection >= 2 * MaxCalls
  BY ConnectionNow, TwitchAssumption DEF ChatInv, TypeOK
<1>2. a \in Owing /\ a \in Reserving
  BY DEF Owing, Reserving, Connecting, Ends
<1>3. {} \in SUBSET (Owing \ {a}) /\ {} \in SUBSET (Reserving \ {a}) /\ Cardinality({}) = 0
  BY FS_EmptySet
<1>4. Cardinality(Owing) \in Nat /\ Cardinality(Owing) >= 1
  BY <1>2, <1>3, CountNext, OneLess
<1>5. Cardinality(Reserving) \in Nat /\ Cardinality(Reserving) >= 1
  BY <1>2, <1>3, CountNext, OneLess
<1>6. owner.gen + 2 <= 2 * calls
  BY <1>1, <1>4, <1>5 DEF CountInv
<1> QED
  BY <1>1, <1>6 DEF Tasks

-----------------------------------------------------------------------------
(***************************************************************************)
(* A credential that is gone.  A clear cancels the chat without a word     *)
(* about its status only when nothing that is under way can bring a        *)
(* credential back.                                                        *)
(***************************************************************************)
\* A clear of the current generation has nothing that it could put back.
Spent(a) ==
  op[a].pc \in Openers /\ op[a].gen = auth.gen =>
    /\ op[a].pc # "start.reply"
    /\ op[a].cred = NoCred \/ (op[a].pc # "disconnect.lock" /\ job[a].state = "cleared")

Gone ==
  /\ auth.cred = NoCred /\ auth.pending = NoPending
  /\ \A a \in Actors : Spent(a)

\* The same after the step.
SpentNext(a) ==
  op'[a].pc \in Openers /\ op'[a].gen = auth'.gen =>
    /\ op'[a].pc # "start.reply"
    /\ op'[a].cred = NoCred \/ (op'[a].pc # "disconnect.lock" /\ job'[a].state = "cleared")

GoneNext ==
  /\ auth'.cred = NoCred /\ auth'.pending = NoPending
  /\ \A a \in Actors : SpentNext(a)

\* A clear that has succeeded, and one that cancels the chat.
Done(a) == op[a].pc = "clear.store" /\ job[a].state = "cleared"
DoneInv == \A a \in Actors : Done(a) => Gone

DoneNext(a) == op'[a].pc = "clear.store" /\ job'[a].state = "cleared"

LEMMA GoneAfter ==
  /\ Gone' <=> GoneNext
  /\ DoneInv' <=> \A a \in Actors : DoneNext(a) => GoneNext
BY DEF Gone, GoneNext, Spent, SpentNext, DoneInv, Done, DoneNext

\* Whoever stays as it is was spent, and had not succeeded, before.
LEMMA StayingSpent ==
  ASSUME auth'.gen = auth.gen, NEW a \in Actors, op'[a] = op[a], job'[a] = job[a]
  PROVE  (Spent(a) => SpentNext(a)) /\ (DoneNext(a) => Done(a))
BY DEF Spent, SpentNext, DoneNext, Done

LEMMA CarryingStaysGone ==
  ASSUME Carrying
  PROVE  /\ Gone => GoneNext
         /\ \A a \in Actors : DoneNext(a) => Done(a)
<1>1. ASSUME NEW a \in Actors, op'[a].pc \in Openers
      PROVE  /\ op'[a].pc = op[a].pc /\ SameLogin(op'[a], op[a])
             /\ job'[a] = job[a] \/ op'[a].pc = "start.reply"
  <2>1. Carries(a, op'[a]) /\ op'[a].pc \in Dated
    BY <1>1 DEF Carrying, Dated
  <2>2. Keeps(op'[a], op[a])
    BY <1>1, <2>1, KindsOfPoints DEF Carries, Reads, Receives, StartsPoll, Polls, Openers
  <2>3. op'[a].pc \in Tickets \/ op'[a].pc = "start.reply"
    BY <1>1 DEF Openers, Tickets
  <2> QED
    BY <2>1, <2>2, <2>3 DEF Keeps, Carrying, JobsStay
<1>2. ASSUME Gone PROVE GoneNext
  <2>1. auth'.cred = NoCred /\ auth'.gen = auth.gen
    BY <1>2 DEF Gone, Carrying
  <2>2. auth'.pending = NoPending
    <3>1. \A c \in Actors : ~(op[c].pc = "start.reply" /\ op[c].gen = auth.gen)
      BY <1>2 DEF Gone, Spent, Openers
    <3> QED
      BY <1>2, <3>1 DEF Gone, Carrying
  <2>3. ASSUME NEW a \in Actors PROVE SpentNext(a)
    <3> SUFFICES ASSUME op'[a].pc \in Openers, op'[a].gen = auth'.gen
                 PROVE  /\ op'[a].pc # "start.reply"
                        /\ op'[a].cred = NoCred
                             \/ (op'[a].pc # "disconnect.lock" /\ job'[a].state = "cleared")
      BY DEF SpentNext
    <3>1. /\ op'[a].pc = op[a].pc /\ SameLogin(op'[a], op[a])
          /\ job'[a] = job[a] \/ op'[a].pc = "start.reply"
      BY <1>1
    <3> QED
      BY <1>2, <2>1, <3>1 DEF Gone, Spent, SameLogin
  <2> QED
    BY <2>1, <2>2, <2>3 DEF GoneNext
<1>3. ASSUME NEW a \in Actors, DoneNext(a) PROVE Done(a)
  BY <1>1, <1>3 DEF DoneNext, Done, Openers
<1> QED
  BY <1>2, <1>3

\* A new generation begins with a clear that has nothing to put back.
LEMMA OpeningStaysGone ==
  ASSUME TypeOK, GenerationsKnown, "start" \notin Enabled, NEW a \in Actors, Opens(a)
  PROVE  /\ Gone => GoneNext
         /\ \A b \in Actors : DoneNext(b) => Done(b)
<1>1. /\ auth.gen \in Nat /\ auth'.gen = auth.gen + 1 /\ auth'.cred = NoCred
      /\ auth'.pending = NoPending
      /\ \A b \in Actors : op[b].gen \in Nat /\ op[b].gen <= auth.gen
  BY Numbers DEF Opens, GenerationsKnown
<1>2. \A b \in Actors \ {a} : op'[b] = op[b] /\ job'[b] = job[b] /\ op'[b].gen # auth'.gen
  BY <1>1 DEF Opens
<1>3. /\ op'[a].pc \in {"disconnect.lock", "clear.store", "idle"}
      /\ op'[a].cred \in {auth.cred, NoCred}
      /\ op'[a].pc = "clear.store" => job'[a].state = "queued"
  BY DEF Opens, ClearJob
<1>4. ASSUME Gone PROVE GoneNext
  <2>1. \A b \in Actors : SpentNext(b)
    BY <1>2, <1>3, <1>4 DEF Gone, SpentNext
  <2> QED
    BY <1>1, <2>1 DEF GoneNext
<1>5. \A b \in Actors : DoneNext(b) => Done(b)
  BY <1>2, <1>3 DEF DoneNext, Done
<1> QED
  BY <1>4, <1>5

\* Nothing can be installed, and a failed clear has nothing to put back.
LEMMA InstallingStaysGone ==
  ASSUME TypeOK, PollInv, LoginInv, NEW a \in Actors,
         Saves(a) \/ Restores(a) \/ QueuesClear(a)
  PROVE  /\ Gone => GoneNext
         /\ \A b \in Actors : DoneNext(b) => Done(b)
<1>1. op[a] \in Op /\ auth \in Auth
  BY OpFields, AuthFields
<1>2. \A b \in Actors \ {a} : op'[b] = op[b] /\ job'[b] = job[b]
  BY DEF Saves, Restores, QueuesClear
<1>3. op'[a].pc # "clear.store"
  <2>1. ASSUME Saves(a) \/ Restores(a) PROVE op'[a].pc # "clear.store"
    BY <2>1 DEF Saves, Restores, Dated, Openers
  <2>2. ASSUME QueuesClear(a) PROVE op'[a].pc # "clear.store"
    BY <1>1, <2>2 DEF QueuesClear, Op
  <2> QED
    BY <2>1, <2>2
<1>4. \A b \in Actors : DoneNext(b) => Done(b)
  BY <1>2, <1>3 DEF DoneNext, Done
<1>5. ASSUME Gone, Saves(a) PROVE FALSE
  <2>1. CASE op[a].pc = "poll.check" /\ op[a].gen = auth.gen
    <3>1. auth.pending = Polling
      BY <2>1 DEF PollInv, Polls
    <3> QED
      BY <1>5, <3>1 DEF Gone, Polling, NoPending
  <2>2. CASE op[a].pc \in Readers /\ Matches(op[a])
    BY <1>5, <2>2, LoginInvNow, OpInvNow DEF Gone, Matches
  <2> QED
    BY <1>5, <2>1, <2>2 DEF Saves
<1>6. ASSUME Gone, Restores(a) PROVE GoneNext
  <2>1. /\ op[a].pc \in {"disconnect.store", "clear.store"} /\ job[a].state = "failed"
        /\ op[a].gen = auth.gen
        /\ auth' = [auth EXCEPT !.cred = op[a].cred, !.pending = NoPending]
    BY <1>6 DEF Restores
  <2>2. op[a].cred = NoCred
    BY <1>6, <2>1 DEF Gone, Spent, Openers
  <2>3. auth'.gen = auth.gen /\ auth'.cred = NoCred /\ auth'.pending = NoPending
    BY <1>1, <2>1, <2>2 DEF Auth
  <2>4. SpentNext(a)
    BY <1>6 DEF Restores, SpentNext, Dated
  <2>5. \A b \in Actors \ {a} : SpentNext(b)
    BY <1>2, <1>6, <2>3, StayingSpent DEF Gone
  <2> QED
    BY <2>3, <2>4, <2>5 DEF GoneNext
<1>7. ASSUME Gone, QueuesClear(a) PROVE GoneNext
  <2>1. /\ auth' = auth /\ op[a].pc = "disconnect.lock"
        /\ op'[a].pc = "disconnect.store" /\ op'[a].gen = op[a].gen /\ op'[a].cred = op[a].cred
    BY <1>1, <1>7 DEF QueuesClear, Op
  <2>2. SpentNext(a)
    BY <1>7, <2>1 DEF Gone, Spent, SpentNext, Openers
  <2>3. \A b \in Actors \ {a} : SpentNext(b)
    BY <1>2, <1>7, <2>1, StayingSpent DEF Gone
  <2> QED
    BY <1>7, <2>1, <2>2, <2>3 DEF Gone, GoneNext
<1> QED
  BY <1>4, <1>5, <1>6, <1>7

\* The clear that succeeds has its generation to itself.
LEMMA JobStaysGone ==
  ASSUME TypeOK, LoginInv, JobsInv, DoneInv, NEW a \in Actors, JobStep(a)
  PROVE  /\ Gone => GoneNext
         /\ \A b \in Actors : DoneNext(b) => GoneNext
<1>1. PICK state \in {"writing", "written"} \cup Results :
        /\ JobRuns(a, state) /\ job[a].state \in {"queued", "writing", "written"}
        /\ state = "cleared" => JobIsCurrent(a) /\ job[a].kind # "save"
  BY JobStepRuns
<1>2. /\ op' = op /\ auth' = auth /\ job[a] \in Job
      /\ \A b \in Actors \ {a} : job'[b] = job[b]
      /\ job'[a] = [job[a] EXCEPT !.state = state] \/ (job'[a] = NoJob /\ op[a].pc = "idle")
  BY <1>1, Numbers DEF JobRuns
<1>3. \A b \in Actors : Spent(b) => SpentNext(b)
  BY <1>1, <1>2 DEF Spent, SpentNext, Openers
<1>4. ASSUME Gone PROVE GoneNext
  BY <1>2, <1>3, <1>4 DEF Gone, GoneNext
<1>5. ASSUME NEW b \in Actors, DoneNext(b) PROVE GoneNext
  <2>1. CASE b # a
    BY <1>2, <1>4, <1>5, <2>1 DEF DoneNext, DoneInv, Done
  <2>2. CASE b = a
    <3>1. op[a].pc = "clear.store" /\ job'[a].state = "cleared" /\ state = "cleared"
      BY <1>2, <1>5, <2>2 DEF DoneNext, Job
    <3>2. JobIsCurrent(a) /\ job[a].gen = op[a].gen
      BY <1>1, <3>1 DEF JobsInv
    <3>3. Clears(a)
      BY <3>1, <3>2 DEF Clears, JobIsCurrent, Tickets
    <3>4. /\ auth.cred = NoCred /\ auth.pending = NoPending
          /\ \A d \in Actors : /\ op[d].gen = auth.gen => op[d].pc # "start.reply"
                               /\ Clears(d) => a = d
      BY <3>3, ClearsAlone
    <3>5. ASSUME NEW d \in Actors PROVE SpentNext(d)
      <4> SUFFICES ASSUME op[d].pc \in Openers, op[d].gen = auth.gen
                   PROVE  /\ op[d].pc # "start.reply"
                          /\ op[d].pc # "disconnect.lock" /\ job'[d].state = "cleared"
        BY <1>2 DEF SpentNext
      <4>1. op[d].pc \in Tickets
        BY <3>4 DEF Openers, Tickets
      <4>2. d = a
        BY <3>4, <4>1 DEF Clears
      <4> QED
        BY <3>1, <4>2
    <3> QED
      BY <1>2, <3>4, <3>5 DEF GoneNext
  <2> QED
    BY <2>1, <2>2
<1> QED
  BY <1>4, <1>5

LEMMA MoveStaysGone ==
  ASSUME TypeOK, GenerationsKnown, PollInv, LoginInv, JobsInv, DoneInv,
         "start" \notin Enabled, LoginMove, ~Restart
  PROVE  (Gone => Gone') /\ DoneInv'
<1>1. /\ Gone => GoneNext
      /\ \A b \in Actors : DoneNext(b) => Done(b) \/ GoneNext
  BY CarryingStaysGone, OpeningStaysGone, InstallingStaysGone, JobStaysGone DEF LoginMove
<1> QED
  BY <1>1, GoneAfter DEF DoneInv

\* Who has the latest generation and will say where it stands.
Answers(c) ==
  /\ op[c].pc \in {"connect.register", "connect.publish", "stop.publish", "disconnect.publish"}
  /\ op[c].conn = owner.gen

\* The status is behind only if somebody answers, or the credential is gone.
GoneInv ==
  /\ DoneInv
  /\ \A a \in Actors : op[a].pc = "clear.cancel" => Gone
  /\ chat.gen < owner.gen => Gone \/ \E c \in Commands : Answers(c)

LEMMA GoesKeepsGone ==
  ASSUME ChatInv, GoneInv, NEW a \in Actors, Goes(a)
  PROVE  /\ \A b \in Actors : op'[b].pc = "clear.cancel" => Gone
         /\ chat'.gen < owner'.gen => Gone \/ \E c \in Commands : Answers(c)'
<1>1. /\ owner' = owner /\ \A b \in Actors \ {a} : op'[b] = op[b]
      /\ op[a].pc \notin Held
      /\ op'[a].pc = "clear.cancel" => op[a].pc = "clear.store" /\ job[a].state = "cleared"
      /\ chat' = chat \/ (a \in Tasks /\ \E status \in Statuses : chat' = Recorded(a, status))
  BY DEF Goes
<1>2. chat'.gen >= chat.gen /\ chat.gen \in Nat /\ owner.gen \in Nat
  <2>1. chat.gen \in Nat /\ owner.gen \in Nat /\ \A g \in Tasks : g \in Nat
    BY ConnectionNow
  <2>2. ASSUME a \in Tasks, NEW status \in Statuses, chat' = Recorded(a, status)
        PROVE  chat'.gen >= chat.gen
    BY <2>1, <2>2, RecordedCases DEF ChatInv
  <2> QED
    BY <1>1, <2>1, <2>2
<1>3. ASSUME NEW b \in Actors, op'[b].pc = "clear.cancel" PROVE Gone
  BY <1>1, <1>3 DEF GoneInv, DoneInv, Done
<1>4. ASSUME chat'.gen < owner'.gen PROVE Gone \/ \E c \in Commands : Answers(c)'
  <2>1. chat'.gen \in Nat
    BY <1>1, ConnectionNow, RecordedCases DEF ChatInv
  <2>2. chat.gen < owner.gen
    BY <1>1, <1>2, <1>4, <2>1
  <2>3. ASSUME NEW c \in Commands, Answers(c) PROVE Answers(c)'
    <3>1. c # a /\ c \in Actors
      BY <1>1, <2>3, ActorKinds DEF Answers, Held, Connecting
    <3> QED
      BY <1>1, <2>3, <3>1 DEF Answers
  <2> QED
    BY <2>2, <2>3 DEF GoneInv
<1> QED
  BY <1>3, <1>4

LEMMA TakesKeepsGone ==
  ASSUME ChatInv, GoneInv, NEW a \in Actors, Takes(a)
  PROVE  /\ \A b \in Actors : op'[b].pc = "clear.cancel" => Gone
         /\ chat'.gen < owner'.gen => Gone \/ \E c \in Commands : Answers(c)'
<1>1. /\ Actors = Commands \cup Tasks
      /\ owner'.gen = owner.gen + 1
      /\ "clear.cancel" \notin Ends
  BY DEF Actors, Takes, Advanced, Ends
<1>2. ASSUME NEW b \in Actors, op'[b].pc = "clear.cancel" PROVE Gone
  <2>1. op[b].pc = "clear.cancel"
    BY <1>1, <1>2 DEF Takes
  <2> QED
    BY <2>1 DEF GoneInv
<1>3. Gone \/ \E c \in Commands : Answers(c)'
  <2>1. CASE op[a].pc = "clear.cancel"
    BY <2>1 DEF GoneInv
  <2>2. CASE op[a].pc # "clear.cancel"
    <3>1. a \in Commands /\ op'[a].conn = owner.gen + 1
          /\ op'[a].pc \in {"connect.register", "stop.publish", "disconnect.publish"}
      BY <2>2 DEF Takes
    <3> QED
      BY <1>1, <3>1 DEF Answers
  <2> QED
    BY <2>1, <2>2
<1> QED
  BY <1>2, <1>3

LEMMA CommandsKeepGone ==
  ASSUME ChatInv, ReachInv, GoneInv, NEW c \in Commands, Tells(c) \/ Sends(c) \/ Registers(c)
  PROVE  /\ \A b \in Actors : op'[b].pc = "clear.cancel" => Gone
         /\ chat'.gen < owner'.gen => Gone \/ \E d \in Commands : Answers(d)'
<1>1. /\ owner.gen \in Nat /\ chat.gen \in Nat /\ owner'.gen = owner.gen
      /\ op[c].conn \in Nat /\ c \in Actors
      /\ \A d \in Commands : d \in Actors /\ d \notin Tasks /\ op[d].conn \in Nat
  BY ConnectionNow, ActorKinds DEF Tells, Sends, Registers
<1>2. ASSUME NEW b \in Actors, op'[b].pc = "clear.cancel" PROVE Gone
  <2>1. op[b].pc = "clear.cancel"
    BY <1>2 DEF Tells, Sends, Started, Registers
  <2> QED
    BY <2>1 DEF GoneInv
<1>3. ASSUME NEW d \in Commands \ {c}, Answers(d), op'[d] = op[d] PROVE Answers(d)'
  BY <1>1, <1>3 DEF Answers
<1>4. chat.gen < owner.gen => Gone \/ \E d \in Commands : Answers(d)
  BY DEF GoneInv
<1>5. ASSUME Tells(c), chat'.gen < owner'.gen
      PROVE  Gone \/ \E d \in Commands : Answers(d)'
  <2>1. \E status : chat' = Recorded(op[c].conn, status)
    BY <1>5 DEF Tells
  <2>2. /\ op[c].conn >= chat.gen => chat'.gen = op[c].conn
        /\ op[c].conn < chat.gen => chat' = chat
        /\ chat'.gen \in Nat /\ chat'.gen >= chat.gen
    BY <1>1, <2>1, RecordedCases DEF ChatInv
  <2>3. chat.gen < owner.gen /\ ~Answers(c)
    BY <1>1, <1>5, <2>2 DEF Answers
  <2>4. \A d \in Commands \ {c} : op'[d] = op[d]
    BY <1>1, <1>5 DEF Tells
  <2> QED
    BY <1>3, <1>4, <2>3, <2>4
<1>6. ASSUME Sends(c), chat'.gen < owner'.gen
      PROVE  Gone \/ \E d \in Commands : Answers(d)'
  <2>1. chat.gen < owner.gen /\ ~Answers(c)
    BY <1>1, <1>6 DEF Sends, Answers
  <2>2. ASSUME NEW d \in Commands \ {c}, Answers(d) PROVE Answers(d)'
    <3>1. op'[d] = op[d]
      BY <1>1, <1>6, <2>2 DEF Sends, Started, Answers
    <3> QED
      BY <1>3, <2>2, <3>1
  <2> QED
    BY <1>4, <2>1, <2>2
<1>7. ASSUME Registers(c), chat'.gen < owner'.gen
      PROVE  Gone \/ \E d \in Commands : Answers(d)'
  <2>1. chat.gen < owner.gen
    BY <1>1, <1>7 DEF Registers
  <2>2. ASSUME NEW d \in Commands \ {c}, Answers(d) PROVE Answers(d)'
    <3>1. d # op[c].conn
      BY <1>1, <1>7, ConnectionNow, ActorKinds
    <3>2. op'[d] = op[d]
      BY <1>1, <1>7, <3>1 DEF Registers
    <3> QED
      BY <1>3, <2>2, <3>2
  <2>3. ASSUME Answers(c) PROVE Answers(c)'
    <3>1. op[c].pc = "connect.register" /\ op[c].conn = owner.gen
      BY <1>7, <2>3 DEF Registers, Answers
    <3>2. owner.conn = 0
      BY <3>1 DEF ReachInv, RegisterInv
    <3>3. op'[c].pc = "connect.publish" /\ op'[c].conn = owner'.gen
      BY <1>1, <1>7, <3>1, <3>2 DEF Registers
    <3> QED
      BY <3>3 DEF Answers
  <2> QED
    BY <1>4, <2>1, <2>2, <2>3
<1> QED
  BY <1>2, <1>5, <1>6, <1>7

LEMMA StartsGone ==
  /\ Init => GoneInv
  /\ Restart => GoneInv'
<1>1. ASSUME Init PROVE GoneInv
  <2>1. chat.gen = 0 /\ owner.gen = 0 /\ \A a \in Actors : op[a].pc = "idle"
    BY <1>1, IdleType DEF Init
  <2> QED
    BY <2>1 DEF GoneInv, DoneInv, Done
<1>2. ASSUME Restart PROVE GoneInv'
  <2>1. chat'.gen = 0 /\ owner'.gen = 0 /\ \A a \in Actors : op'[a].pc = "idle"
    BY <1>2, IdleType DEF Restart
  <2>2. DoneInv'
    BY <2>1 DEF DoneInv, Done
  <2> QED
    BY <2>1, <2>2 DEF GoneInv
<1> QED
  BY <1>1, <1>2

LEMMA MovesKeepGone ==
  ASSUME ChatInv, ReachInv, GoneInv, ChatMove, ~Restart, Gone => Gone', DoneInv'
  PROVE  GoneInv'
<1>1. /\ \A b \in Actors : op'[b].pc = "clear.cancel" => Gone
      /\ chat'.gen < owner'.gen => Gone \/ \E c \in Commands : Answers(c)'
  <2>1. CASE Steady
    <3>1. \A c \in Commands : Answers(c) => Answers(c)'
      BY <2>1 DEF Steady, Answers
    <3> QED
      BY <2>1, <3>1 DEF Steady, GoneInv
  <2> QED
    BY <2>1, GoesKeepsGone, TakesKeepsGone, CommandsKeepGone DEF ChatMove
<1> QED
  BY <1>1 DEF GoneInv

-----------------------------------------------------------------------------
(***************************************************************************)
(* The status can be believed while somebody is logged in.                 *)
(***************************************************************************)
StatusInv == ReachInv /\ CountInv /\ ("start" \notin Enabled => GoneInv)

LEMMA StepKeepsStatus ==
  ASSUME ChatInv, PollInv, LoginInv, JobsInv, StatusInv, [Next]_vars
  PROVE  ReachInv' /\ CountInv' /\ ("start" \notin Enabled => GoneInv')
<1>1. /\ TypeOK /\ GenerationsKnown /\ [LoginMove]_vars
      /\ ReachInv /\ CountInv /\ ("start" \notin Enabled => GoneInv)
  BY StepKeepsLogin DEF ChatInv, StatusInv
<1>2. CASE UNCHANGED vars
  <2>1. ReachInv'
    BY <1>1, <1>2 DEF vars, ReachInv, RegisterInv, StartInv, FreeInv, OwnedInv, Waits, Starts
  <2>2. CountInv'
    BY <1>1, <1>2 DEF vars, CountInv, Owing, Reserving
  <2>3. (Gone => Gone') /\ (DoneInv => DoneInv')
    BY <1>2 DEF vars, Gone, Spent, DoneInv, Done
  <2>4. GoneInv => GoneInv'
    BY <1>2, <2>3 DEF vars, GoneInv, Answers
  <2> QED
    BY <1>1, <2>1, <2>2, <2>4
<1>3. CASE Next /\ Restart
  BY <1>1, <1>3, StartsReach, StartsCount, StartsGone
<1>4. CASE Next /\ ~Restart /\ LoginMove
  <2>1. ChatMove
    BY <1>4, NextMoves
  <2>2. ReachInv' /\ CountInv'
    <3>1. ASSUME NEW a \in Actors, Goes(a) PROVE ReachInv' /\ CountInv'
      BY <1>1, <3>1, GoesKeepsReach, GoesKeepsCount
    <3>2. ASSUME NEW a \in Actors, Takes(a) PROVE ReachInv' /\ CountInv'
      BY <1>1, <3>2, EnoughTasks, TakesKeepsReach, TakesKeepsCount
    <3>3. ASSUME NEW c \in Commands, Tells(c) \/ Sends(c) \/ Registers(c)
          PROVE  ReachInv' /\ CountInv'
      BY <1>1, <3>3, TellsKeepsReach, SendsKeepsReach, RegistersKeepsReach, CommandsKeepCount
    <3>4. CASE Steady
      <4>1. ReachInv'
        BY <1>1, <3>4
           DEF Steady, ReachInv, RegisterInv, StartInv, FreeInv, OwnedInv, Waits, Starts
      <4>2. CountInv'
        BY <1>1, <3>4 DEF Steady, CountInv, Owing, Reserving
      <4> QED
        BY <4>1, <4>2
    <3> QED
      BY <1>4, <2>1, <3>1, <3>2, <3>3, <3>4 DEF ChatMove
  <2>3. ASSUME "start" \notin Enabled PROVE GoneInv'
    <3>1. GoneInv /\ DoneInv
      BY <1>1, <2>3 DEF GoneInv
    <3>2. (Gone => Gone') /\ DoneInv'
      BY <1>1, <1>4, <2>3, <3>1, MoveStaysGone
    <3> QED
      BY <1>1, <1>4, <2>1, <3>1, <3>2, MovesKeepGone
  <2> QED
    BY <2>2, <2>3
<1> QED
  BY <1>1, <1>2, <1>3, <1>4

\* Whoever owns the connection can be told from the retained status and from
\* the commands under way, a command hands out at most two generations, and,
\* as long as nobody begins a new login, a status is left behind only by a
\* clear whose credential nothing can bring back.
THEOREM ConnectionInvariance ==
  Spec => [](ChatInv /\ PollInv /\ LoginInv /\ JobsInv /\ StatusInv)
<1>1. Init => StatusInv
  BY StartsReach, StartsCount, StartsGone DEF StatusInv
<1>2. ChatInv /\ PollInv /\ LoginInv /\ JobsInv /\ StatusInv /\ [Next]_vars => StatusInv'
  BY StepKeepsStatus DEF StatusInv
<1> QED
  BY <1>1, <1>2, SavedInvariance, PTL DEF Spec

\* At rest and with a credential installed, a retained chat status that says
\* connected, connecting or reconnecting belongs to a connection that exists
\* and whose task runs (chat_service.rs, connect and stop; app_events/mod.rs,
\* record_twitch_status): for every number of commands, restarts and faults,
\* as long as no command begins a new login.
THEOREM StatusIsTrue == Spec => []("start" \notin Enabled => StatusWhileLoggedIn)
<1>1. ASSUME ChatInv, StatusInv, "start" \notin Enabled PROVE StatusWhileLoggedIn
  <2> SUFFICES ASSUME Quiet, chat.status \in LiveStatuses, auth.cred # NoCred
               PROVE  HasTask
    BY DEF StatusWhileLoggedIn
  <2>1. /\ owner.gen \in Nat /\ chat.gen \in Nat /\ chat.gen <= owner.gen
        /\ owner.conn \in {0, owner.gen}
    BY <1>1, ConnectionNow
  <2>2. \A c \in Commands : op[c].pc = "idle"
    BY DEF Quiet
  <2>3. chat.gen = owner.gen
    <3>1. ~(chat.gen < owner.gen)
      BY <1>1, <2>2 DEF StatusInv, GoneInv, Gone, Answers
    <3> QED
      BY <2>1, <3>1
  <2>4. owner.conn # 0
    BY <1>1, <2>3 DEF StatusInv, ReachInv, FreeInv
  <2>5. /\ owner.conn \in Tasks /\ op[owner.conn].alive
        /\ op[owner.conn].pc # "task.wait" /\ op[owner.conn].pc # "idle"
    BY <1>1, <2>2, <2>4 DEF StatusInv, ReachInv, OwnedInv, Starts
  <2> QED
    BY <2>1, <2>3, <2>4, <2>5 DEF HasTask, Runs
<1>2. ChatInv /\ StatusInv => ("start" \notin Enabled => StatusWhileLoggedIn)
  BY <1>1
<1> QED
  BY <1>2, ConnectionInvariance, PTL
=============================================================================
