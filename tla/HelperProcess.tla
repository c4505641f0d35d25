---------------------------- MODULE HelperProcess ----------------------------
(***************************************************************************)
(* run_bounded: a helper process with piped output, a deadline and a limit *)
(* on what is kept of each stream.  One task waits for the child and two   *)
(* read its pipes; the caller may go away, the child may hang, write more  *)
(* than is kept, or leave a process behind that holds the pipes open.      *)
(***************************************************************************)
EXTENDS Naturals, FiniteSets

CONSTANTS
  Runs,        \* the calls of run_bounded
  Streams,     \* stdout and stderr
  Unreadable,  \* those whose reading may fail
  Limit,       \* how much is kept of a stream
  PipeSize,    \* how much the operating system buffers of a stream
  Scripts      \* what children do: how much they write to each stream, whether
               \* they never exit, whether a process of theirs keeps the pipes

ASSUME HelperAssumption ==
  /\ Limit \in Nat /\ PipeSize \in Nat \ {0}
  /\ Scripts \subseteq [writes : [Streams -> Nat], hangs : BOOLEAN, leaves : BOOLEAN]

VARIABLE helper     \* the state of each call: its task, its child, its readers

NoScript == [writes |-> [s \in Streams |-> 0], hangs |-> FALSE, leaves |-> FALSE]
NoHelper ==
  [stage |-> "none", child |-> "none", script |-> NoScript,
   pipe |-> [s \in Streams |-> 0], kept |-> [s \in Streams |-> 0],
   reader |-> [s \in Streams |-> "none"], outcome |-> "none"]

HelperInit == helper = [r \in Runs |-> NoHelper]

Stage(r) == helper[r].stage
Watched(r) == Stage(r) \in {"waiting", "joining"}
Settled(r) == \A s \in Streams : helper[r].reader[s] # "reading"
Exceeded(r) == \E s \in Streams : helper[r].kept[s] > Limit

SetHelper(r, record) == helper' = [helper EXCEPT ![r] = record]

Spawn(r) ==
  /\ Stage(r) = "none"
  /\ \/ SetHelper(r, [NoHelper EXCEPT !.stage = "ended", !.outcome = "failed"])
     \/ \E script \in Scripts :
          SetHelper(r, [NoHelper EXCEPT
                       !.stage = "waiting", !.child = "alive", !.script = script,
                       !.reader = [s \in Streams |-> "reading"]])

-----------------------------------------------------------------------------
(* The child and the readers of its pipes. *)

\* A child writes as long as the pipe has room; without a reader its writes fail.
ChildWrites(r, s) ==
  /\ Watched(r) /\ helper[r].child = "alive" /\ helper[r].script.writes[s] > 0
  /\ IF helper[r].reader[s] = "reading"
     THEN /\ helper[r].pipe[s] < PipeSize
          /\ SetHelper(r, [helper[r] EXCEPT !.script.writes[s] = @ - 1,
                                            !.pipe[s] = @ + 1])
     ELSE SetHelper(r, [helper[r] EXCEPT !.script.writes[s] = 0])

ChildExits(r) ==
  /\ Watched(r) /\ helper[r].child = "alive" /\ ~helper[r].script.hangs
  /\ \A s \in Streams : helper[r].script.writes[s] = 0
  /\ SetHelper(r, [helper[r] EXCEPT !.child = "exited"])

\* A reader goes on reading what it no longer keeps; "Limit + 1" is "exceeded".
Kept(kept) == IF kept > Limit THEN kept ELSE kept + 1

\* Fault: a reader that has all it may keep stops reading.
ReadsUpToLimit(r, s) ==
  /\ Watched(r) /\ helper[r].reader[s] = "reading" /\ helper[r].pipe[s] > 0
  /\ helper[r].kept[s] < Limit
  /\ SetHelper(r, [helper[r] EXCEPT !.pipe[s] = @ - 1, !.kept[s] = @ + 1])

ReaderReads(r, s) ==
  /\ Watched(r) /\ helper[r].reader[s] = "reading" /\ helper[r].pipe[s] > 0
  /\ SetHelper(r, [helper[r] EXCEPT !.pipe[s] = @ - 1, !.kept[s] = Kept(@)])

\* A pipe ends when nobody can write to it any more.
ReaderEnds(r, s) ==
  /\ Watched(r) /\ helper[r].reader[s] = "reading" /\ helper[r].pipe[s] = 0
  /\ helper[r].child # "alive" /\ ~helper[r].script.leaves
  /\ SetHelper(r, [helper[r] EXCEPT !.reader[s] = "done"])

ReaderFails(r, s) ==
  /\ s \in Unreadable /\ Watched(r) /\ helper[r].reader[s] = "reading"
  /\ SetHelper(r, [helper[r] EXCEPT !.reader[s] = "failed"])

-----------------------------------------------------------------------------
(* run_child *)

ChildReaped(r) ==
  /\ Stage(r) = "waiting" /\ helper[r].child = "exited"
  /\ SetHelper(r, [helper[r] EXCEPT !.child = "reaped", !.stage = "joining"])

Outcome(r) ==
  IF \E s \in Streams : helper[r].reader[s] = "failed" THEN "failed"
  ELSE IF Exceeded(r) THEN "limit" ELSE "output"

ReadersJoined(r) ==
  /\ Stage(r) = "joining" /\ Settled(r)
  /\ SetHelper(r, [helper[r] EXCEPT !.stage = "ended", !.outcome = Outcome(r)])

\* The child cannot be waited for, the time is up, or the caller is gone.  What
\* the child still does until it is terminated is not seen by anybody.
GiveUp(r) ==
  /\ Watched(r)
  /\ SetHelper(r, [helper[r] EXCEPT !.stage = "terminating", !.outcome = "failed",
                                    !.script = NoScript])
WaitFails(r) == Stage(r) = "waiting" /\ GiveUp(r)
DeadlinePasses(r) == GiveUp(r)
CallerGone(r) == GiveUp(r)

\* The pipes of a terminated child get a moment to end; readers that still wait
\* then are aborted.
Finished(reader) == IF reader = "reading" THEN "aborted" ELSE reader

\* A child that could not be terminated is said to be unconfirmed.
Terminate(r) ==
  /\ Stage(r) = "terminating"
  /\ \E confirmed \in {TRUE, helper[r].child # "alive"} :
       SetHelper(r, [helper[r] EXCEPT
         !.stage = "ended",
         !.child = IF confirmed THEN "reaped" ELSE @,
         !.outcome = IF confirmed THEN @ ELSE "unconfirmed",
         !.reader = [s \in Streams |-> Finished(@[s])]])

\* What is left of a call that returned: a child it could not end, and readers
\* nobody waits for.
Forget(r) ==
  SetHelper(r, [NoHelper EXCEPT
    !.stage = "ended",
    !.child = IF helper[r].child = "alive" THEN "alive" ELSE "none",
    !.outcome = IF helper[r].outcome = "unconfirmed" THEN "unconfirmed" ELSE "none",
    !.reader = [s \in Streams |-> IF helper[r].reader[s] = "reading"
                                   THEN "reading" ELSE "none"]])

HelperStep(r) ==
  \/ ChildExits(r) \/ ChildReaped(r) \/ ReadersJoined(r)
  \/ WaitFails(r) \/ DeadlinePasses(r) \/ CallerGone(r)
  \/ Terminate(r)
  \/ \E s \in Streams :
       ChildWrites(r, s) \/ ReaderReads(r, s) \/ ReaderEnds(r, s) \/ ReaderFails(r, s)

\* What happens in time.  A child that neither hangs nor leaves a process behind
\* does not need the deadline to end the call.
HelperProgress(r) ==
  \/ ChildExits(r) \/ ChildReaped(r) \/ ReadersJoined(r) \/ Terminate(r)
  \/ (helper[r].script.hangs \/ helper[r].script.leaves) /\ DeadlinePasses(r)
  \/ \E s \in Streams : ChildWrites(r, s) \/ ReaderReads(r, s) \/ ReaderEnds(r, s)
=============================================================================
