---------------------------- MODULE LauncherPool ----------------------------
(***************************************************************************)
(* The launcher's commands and the bounded pool they share.  Every item is *)
(* resolved, and started or given an icon, on a blocking thread that cannot *)
(* be interrupted: the command stops waiting for it after a time, the      *)
(* thread keeps its permit until it returns.                               *)
(***************************************************************************)
EXTENDS HelperProcess

CONSTANTS
  Commands,     \* invocations of launcher commands
  Plans,        \* what commands come together: for each its kind, "launch"
                \* (launcher_launch and launcher_launch_all) or "add", and the
                \* number of its items, 0 when it is not given at all
  IconStream,   \* the stream of a helper that carries the icon
  Workers,      \* WORKERS: permits of the pool, and the items an add has in flight
  MaxItems      \* the items of a command, at most

ASSUME PoolAssumption ==
  /\ IconStream \in Streams
  /\ Workers \in Nat \ {0} /\ MaxItems \in Nat \ {0}
  /\ Runs = Commands \X (1 .. MaxItems)
  /\ Plans \subseteq [Commands -> [kind : {"launch", "add"}, size : 0 .. MaxItems]]

VARIABLES
  plan,         \* one of Plans
  permits,      \* what is free of worker_pool
  command,      \* the commands: "idle", "active", "done" or "gone"
  job           \* the items of each command

launcherVars == <<plan, permits, command, job>>
vars == <<launcherVars, helper>>

Indices == 1 .. MaxItems

\* wait: the command's side of an item; task: its blocking thread; late: whether
\* its LaunchContext is cancelled or past its deadline; told: what the command
\* says of it; starts: how many processes were created for it.
NoJob == [wait |-> "todo", task |-> "none", result |-> "none",
          late |-> FALSE, told |-> "none", starts |-> 0]

Init ==
  /\ plan \in Plans
  /\ permits = Workers
  /\ command = [c \in Commands |-> "idle"]
  /\ job = [c \in Commands |-> [i \in Indices |-> NoJob]]
  /\ HelperInit

Active(c) == command[c] = "active"
Items(c) == 1 .. plan[c].size
Launches(c) == plan[c].kind = "launch"
InFlight(c) == {i \in Items(c) : job[c][i].wait \in {"queued", "awaited"}}
SetJob(c, i, record) == job' = [job EXCEPT ![c][i] = record]
Failed(c) == \E i \in Items(c) : job[c][i].told \notin {"none", "prepared"}

\* Commands work on a snapshot of the registered items, or on the given paths.
BeginCommand(c) ==
  /\ command[c] = "idle" /\ plan[c].size > 0
  /\ command' = [command EXCEPT ![c] = "active"]
  /\ UNCHANGED <<plan, permits, job, helper>>

\* A launch takes its items one after the other, whatever became of the ones
\* before; an add has up to Workers in flight and stops at the first failure.
NextItem(c, i) ==
  /\ Active(c) /\ i \in Items(c) /\ job[c][i].wait = "todo"
  /\ \A k \in 1 .. i - 1 : job[c][k].wait # "todo"
  /\ IF Launches(c) THEN InFlight(c) = {}
     ELSE Cardinality(InFlight(c)) < Workers /\ ~Failed(c)
  /\ SetJob(c, i, [job[c][i] EXCEPT !.wait = "queued"])
  /\ UNCHANGED <<plan, permits, command, helper>>

\* The permit goes to the thread; its deadline starts with it.
AcquirePermit(c, i) ==
  /\ job[c][i].wait = "queued" /\ permits > 0
  /\ permits' = permits - 1
  /\ SetJob(c, i, [job[c][i] EXCEPT !.wait = "awaited", !.task = "begun"])
  /\ UNCHANGED <<plan, command, helper>>

\* What the thread answers later is of no interest.
Tell(c, i, what) ==
  SetJob(c, i, [job[c][i] EXCEPT !.wait = "settled", !.told = what,
                                 !.result = "none"])

AcquireTimesOut(c, i) ==
  /\ job[c][i].wait = "queued"
  /\ Tell(c, i, "not_sent")
  /\ UNCHANGED <<plan, permits, command, helper>>

-----------------------------------------------------------------------------
(* The blocking thread of an item. *)

Heard(c, i, result) == IF job[c][i].wait = "awaited" THEN result ELSE "none"

\* The thread returns and its permit with it.
TaskEnds(c, i, result) ==
  /\ SetJob(c, i, [job[c][i] EXCEPT
                     !.task = "ended", !.result = Heard(c, i, result),
                     !.starts = IF result = "started" THEN @ + 1 ELSE @])
  /\ permits' = permits + 1
  /\ UNCHANGED <<plan, command, helper>>

Proceed(c, i, stage) ==
  /\ SetJob(c, i, [job[c][i] EXCEPT !.task = stage])
  /\ UNCHANGED <<plan, permits, command, helper>>

\* LaunchContext::ensure_active
EnsureActive(c, i) == ~job[c][i].late

\* Fault: nothing looks at the deadline again once the thread has begun.
ChecksOnce(c, i, stage) == Launches(c) /\ stage = "begun" => EnsureActive(c, i)

\* Before it resolves, after it, and after a shortcut was read; the process is
\* created right after the last look at the deadline, which nothing interrupts.
MayGoOn(c, i, stage) == Launches(c) => EnsureActive(c, i)

TaskResolves(c, i) ==
  /\ job[c][i].task = "begun"
  /\ IF MayGoOn(c, i, "begun") THEN Proceed(c, i, "resolve") ELSE TaskEnds(c, i, "refused")

TaskResolved(c, i) ==
  /\ job[c][i].task = "resolve"
  /\ \/ TaskEnds(c, i, "refused")
     \/ /\ Launches(c)
        /\ IF MayGoOn(c, i, "resolve") THEN Proceed(c, i, "shortcut")
           ELSE TaskEnds(c, i, "refused")
     \/ /\ ~Launches(c)
        /\ Spawn(<<c, i>>)
        /\ SetJob(c, i, [job[c][i] EXCEPT !.task = "extract"])
        /\ UNCHANGED <<plan, permits, command>>

TaskReadsShortcut(c, i) ==
  /\ job[c][i].task = "shortcut"
  /\ \/ TaskEnds(c, i, "refused")
     \/ IF MayGoOn(c, i, "shortcut") THEN Proceed(c, i, "create")
        ELSE TaskEnds(c, i, "refused")

TaskCreates(c, i) ==
  /\ job[c][i].task = "create"
  /\ \E result \in {"started", "refused"} : TaskEnds(c, i, result)

\* An icon too large, or no picture, fails the item; one that could not be
\* extracted leaves it registered without an icon.
Extracted(h) ==
  IF h.outcome = "output" THEN {"prepared", "refused"}
  ELSE IF h.outcome = "limit" /\ h.kept[IconStream] > Limit THEN {"refused"}
  ELSE {"prepared"}

TaskExtracted(c, i) ==
  /\ job[c][i].task = "extract" /\ Stage(<<c, i>>) = "ended"
  /\ \E result \in Extracted(helper[<<c, i>>]) :
       SetJob(c, i, [job[c][i] EXCEPT !.task = "ended",
                                      !.result = Heard(c, i, result)])
  /\ permits' = permits + 1
  /\ Forget(<<c, i>>)
  /\ UNCHANGED <<plan, command>>

-----------------------------------------------------------------------------
(* What the command makes of it. *)

DeadlineOfJob(c, i) ==
  /\ Launches(c) /\ job[c][i].wait = "awaited" /\ ~job[c][i].late
  /\ SetJob(c, i, [job[c][i] EXCEPT !.late = TRUE])
  /\ UNCHANGED <<plan, permits, command, helper>>

\* Fault: the permit comes back with the timeout.
TimesOutWithPermit(c, i) ==
  /\ job[c][i].wait = "awaited" /\ job[c][i].task # "ended"
  /\ Launches(c) => job[c][i].late
  /\ Tell(c, i, "uncertain")
  /\ permits' = permits + 1
  /\ UNCHANGED <<plan, command, helper>>

\* A thread that returned in time is heard before the timer.
JobTimesOut(c, i) ==
  /\ job[c][i].wait = "awaited" /\ job[c][i].task # "ended"
  /\ Launches(c) => job[c][i].late
  /\ Tell(c, i, "uncertain")
  /\ UNCHANGED <<plan, permits, command, helper>>

JobReturns(c, i) ==
  /\ job[c][i].wait = "awaited" /\ job[c][i].task = "ended"
  /\ Tell(c, i, job[c][i].result)
  /\ UNCHANGED <<plan, permits, command, helper>>

\* An item nobody waits for any more leaves the queue of the pool or its thread
\* runs on; the LaunchContext of a launch is cancelled.  What became of the
\* items of an add is seen in its result only.
Left(c, i) ==
  IF i \in InFlight(c)
  THEN [job[c][i] EXCEPT !.wait = "settled", !.told = "dropped", !.result = "none",
                         !.late = Launches(c)]
  ELSE IF Launches(c) THEN job[c][i]
  ELSE [job[c][i] EXCEPT !.wait = "settled", !.told = "dropped"]

EndCommand(c) ==
  /\ Active(c)
  /\ \/ \A i \in Items(c) : job[c][i].told # "none"
     \/ ~Launches(c) /\ Failed(c)
  /\ command' = [command EXCEPT ![c] = "done"]
  /\ job' = [job EXCEPT ![c] = [i \in Indices |-> Left(c, i)]]
  /\ UNCHANGED <<plan, permits, helper>>

\* The future of a command may be dropped while it waits.
CommandDropped(c) ==
  /\ Active(c)
  /\ command' = [command EXCEPT ![c] = "gone"]
  /\ job' = [job EXCEPT ![c] = [i \in Indices |-> Left(c, i)]]
  /\ UNCHANGED <<plan, permits, helper>>

-----------------------------------------------------------------------------
TaskStep(c, i) ==
  \/ TaskResolves(c, i) \/ TaskResolved(c, i) \/ TaskReadsShortcut(c, i)
  \/ TaskCreates(c, i) \/ TaskExtracted(c, i)

CommandStep(c) ==
  \/ BeginCommand(c) \/ EndCommand(c) \/ CommandDropped(c)
  \/ \E i \in Indices :
       \/ NextItem(c, i) \/ AcquirePermit(c, i) \/ AcquireTimesOut(c, i)
       \/ DeadlineOfJob(c, i) \/ JobTimesOut(c, i) \/ JobReturns(c, i)

Next ==
  \/ \E c \in Commands : CommandStep(c) \/ \E i \in Indices : TaskStep(c, i)
  \/ \E r \in Runs : HelperStep(r) /\ UNCHANGED launcherVars

Spec == Init /\ [][Next]_vars

CommandProgress(c) ==
  \/ EndCommand(c)
  \/ \E i \in Indices :
       \/ NextItem(c, i) \/ AcquireTimesOut(c, i)
       \/ DeadlineOfJob(c, i) \/ JobTimesOut(c, i) \/ JobReturns(c, i)

ExtractionProgress(c, i) ==
  \/ TaskExtracted(c, i)
  \/ HelperProgress(<<c, i>>) /\ UNCHANGED launcherVars

\* Time passes, commands are polled and the tasks of a helper run; a thread that
\* resolves, reads a shortcut or creates a process may hang for ever.
Fairness ==
  \A c \in Commands :
    /\ WF_vars(CommandProgress(c))
    /\ \A i \in Indices : WF_vars(ExtractionProgress(c, i))

FairSpec == Spec /\ Fairness

-----------------------------------------------------------------------------
(* Properties. *)

Alive(c, i) == job[c][i].task \notin {"none", "ended"}

\* At most Workers threads are ever blocked, also by items nobody waits for any
\* more; a thread that returned left no child, no reader and no permit behind,
\* or says that it could not end its child.
PoolAccounted ==
  /\ permits + Cardinality({r \in Runs : Alive(r[1], r[2])}) = Workers
  /\ \A r \in Runs :
       job[r[1]][r[2]].task = "ended" =>
         /\ Settled(r)
         /\ helper[r].child = "alive" => helper[r].outcome = "unconfirmed"

\* What the user is told of a launch is so, then and later: "started" is one
\* process, "not sent" and "refused" are none, "uncertain" at most one; and an
\* item that was still being looked up when the user was told starts nothing.
LaunchAccounted ==
  [][\A r \in Runs :
       LET before == job[r[1]][r[2]]
           after == job'[r[1]][r[2]]
       IN  /\ after.starts <= 1
           /\ after.told = "started" => after.starts = 1
           /\ after.told \in {"not_sent", "refused"} => after.starts = 0
           /\ before.told # "none" /\ before.task \notin {"create", "ended"}
                => after.task # "create"]_vars

\* Every command ends and every thread that extracts an icon gives its permit
\* back, although other threads hang, helpers hang, write without end or leave
\* processes behind.  (A command is given once, so "in the end none" says it.)
LauncherEnds ==
  <>[](\A c \in Commands :
         ~Active(c) /\ \A i \in Indices : job[c][i].task # "extract")
=============================================================================
