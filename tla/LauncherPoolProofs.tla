------------------------- MODULE LauncherPoolProofs -------------------------
(***************************************************************************)
(* The bounded pool, for every number of workers, items and commands, and  *)
(* for whatever the helpers do: PoolInv is inductive, and PoolAccounted    *)
(* follows; LaunchInv is inductive beside it, and what the user is told of *)
(* a launch is so (LaunchAccounted).                                       *)
(***************************************************************************)
EXTENDS LauncherPool, FiniteSetTheorems, TLAPS

\* The record of a call has the fields of NoHelper, one reader per stream.
IsHelper(v) ==
  /\ v = [stage |-> v.stage, child |-> v.child, script |-> v.script,
          pipe |-> v.pipe, kept |-> v.kept, reader |-> v.reader,
          outcome |-> v.outcome]
  /\ v.reader = [s \in Streams |-> v.reader[s]]

HelpersShaped ==
  /\ helper = [r \in Runs |-> helper[r]]
  /\ \A r \in Runs : IsHelper(helper[r])

\* A call that has not begun or has returned left nobody reading, and a child
\* that lives only if it said so.
Clean(v) ==
  /\ \A s \in Streams : v.reader[s] # "reading"
  /\ v.child = "alive" => v.outcome = "unconfirmed"

HelperInv ==
  /\ HelpersShaped
  /\ \A r \in Runs :
       /\ Stage(r) = "joining" => helper[r].child # "alive"
       /\ Stage(r) \in {"none", "ended"} => Clean(helper[r])

-----------------------------------------------------------------------------
(* run_bounded *)

LEMMA HelperMoves ==
  ASSUME HelpersShaped, NEW r \in Runs, NEW v, IsHelper(v),
         helper' = [helper EXCEPT ![r] = v]
  PROVE  /\ HelpersShaped'
         /\ helper'[r] = v
         /\ \A q \in Runs \ {r} : helper'[q] = helper[q]
BY DEF HelpersShaped, IsHelper

\* What is told of a record when one of its fields is set.
Looks(v, stage, child, reader, outcome) ==
  /\ IsHelper(v)
  /\ v.stage = stage /\ v.child = child /\ v.reader = reader /\ v.outcome = outcome

LEMMA SetStage ==
  ASSUME NEW v, NEW stage, NEW child, NEW reader, NEW outcome,
         Looks(v, stage, child, reader, outcome), NEW x
  PROVE  Looks([v EXCEPT !.stage = x], x, child, reader, outcome)
<1>1. [v EXCEPT !.stage = x] =
        [stage |-> x, child |-> v.child, script |-> v.script, pipe |-> v.pipe,
         kept |-> v.kept, reader |-> v.reader, outcome |-> v.outcome]
  BY DEF Looks, IsHelper
<1>2. QED
  BY <1>1 DEF Looks, IsHelper

LEMMA SetChild ==
  ASSUME NEW v, NEW stage, NEW child, NEW reader, NEW outcome,
         Looks(v, stage, child, reader, outcome), NEW x
  PROVE  Looks([v EXCEPT !.child = x], stage, x, reader, outcome)
<1>1. [v EXCEPT !.child = x] =
        [stage |-> v.stage, child |-> x, script |-> v.script, pipe |-> v.pipe,
         kept |-> v.kept, reader |-> v.reader, outcome |-> v.outcome]
  BY DEF Looks, IsHelper
<1>2. QED
  BY <1>1 DEF Looks, IsHelper

LEMMA SetScript ==
  ASSUME NEW v, NEW stage, NEW child, NEW reader, NEW outcome,
         Looks(v, stage, child, reader, outcome), NEW x
  PROVE  Looks([v EXCEPT !.script = x], stage, child, reader, outcome)
<1>1. [v EXCEPT !.script = x] =
        [stage |-> v.stage, child |-> v.child, script |-> x, pipe |-> v.pipe,
         kept |-> v.kept, reader |-> v.reader, outcome |-> v.outcome]
  BY DEF Looks, IsHelper
<1>2. QED
  BY <1>1 DEF Looks, IsHelper

LEMMA SetPipe ==
  ASSUME NEW v, NEW stage, NEW child, NEW reader, NEW outcome,
         Looks(v, stage, child, reader, outcome), NEW x
  PROVE  Looks([v EXCEPT !.pipe = x], stage, child, reader, outcome)
<1>1. [v EXCEPT !.pipe = x] =
        [stage |-> v.stage, child |-> v.child, script |-> v.script, pipe |-> x,
         kept |-> v.kept, reader |-> v.reader, outcome |-> v.outcome]
  BY DEF Looks, IsHelper
<1>2. QED
  BY <1>1 DEF Looks, IsHelper

LEMMA SetKept ==
  ASSUME NEW v, NEW stage, NEW child, NEW reader, NEW outcome,
         Looks(v, stage, child, reader, outcome), NEW x
  PROVE  Looks([v EXCEPT !.kept = x], stage, child, reader, outcome)
<1>1. [v EXCEPT !.kept = x] =
        [stage |-> v.stage, child |-> v.child, script |-> v.script, pipe |-> v.pipe,
         kept |-> x, reader |-> v.reader, outcome |-> v.outcome]
  BY DEF Looks, IsHelper
<1>2. QED
  BY <1>1 DEF Looks, IsHelper

LEMMA SetOutcome ==
  ASSUME NEW v, NEW stage, NEW child, NEW reader, NEW outcome,
         Looks(v, stage, child, reader, outcome), NEW x
  PROVE  Looks([v EXCEPT !.outcome = x], stage, child, reader, x)
<1>1. [v EXCEPT !.outcome = x] =
        [stage |-> v.stage, child |-> v.child, script |-> v.script, pipe |-> v.pipe,
         kept |-> v.kept, reader |-> v.reader, outcome |-> x]
  BY DEF Looks, IsHelper
<1>2. QED
  BY <1>1 DEF Looks, IsHelper

LEMMA SetReader ==
  ASSUME NEW v, NEW stage, NEW child, NEW reader, NEW outcome,
         Looks(v, stage, child, reader, outcome), NEW x,
         x = [s \in Streams |-> x[s]]
  PROVE  Looks([v EXCEPT !.reader = x], stage, child, x, outcome)
<1>1. [v EXCEPT !.reader = x] =
        [stage |-> v.stage, child |-> v.child, script |-> v.script, pipe |-> v.pipe,
         kept |-> v.kept, reader |-> x, outcome |-> v.outcome]
  BY DEF Looks, IsHelper
<1>2. QED
  BY <1>1 DEF Looks, IsHelper

\* What is to be shown of a step of one call.
LEMMA HelperKeeps ==
  ASSUME HelperInv, NEW r \in Runs, NEW w, IsHelper(w),
         helper' = [helper EXCEPT ![r] = w],
         w.stage = "joining" => w.child # "alive",
         w.stage \in {"none", "ended"} => Clean(w)
  PROVE  /\ HelperInv'
         /\ helper'[r] = w
         /\ \A q \in Runs \ {r} : helper'[q] = helper[q]
<1>1. /\ HelpersShaped'
      /\ helper'[r] = w
      /\ \A q \in Runs \ {r} : helper'[q] = helper[q]
  BY HelperMoves DEF HelperInv
<1>2. QED
  BY <1>1 DEF HelperInv, Stage

\* Only a call that is under way steps, and none of its steps leaves a reader or
\* an unconfirmed child behind when it returns.
LEMMA HelperStepKeeps ==
  ASSUME HelperInv, NEW r \in Runs, HelperStep(r)
  PROVE  /\ HelperInv'
         /\ Stage(r) \notin {"none", "ended"}
         /\ \A q \in Runs \ {r} : helper'[q] = helper[q]
<1> DEFINE v == helper[r]
           Moves(w) == SetHelper(r, w)
           Goal == /\ HelperInv'
                   /\ Stage(r) \notin {"none", "ended"}
                   /\ \A q \in Runs \ {r} : helper'[q] = helper[q]
<1>1. /\ Looks(v, v.stage, v.child, v.reader, v.outcome)
      /\ v.reader = [s \in Streams |-> v.reader[s]]
      /\ v.stage = "joining" => v.child # "alive"
  BY DEF HelperInv, HelpersShaped, Stage, IsHelper, Looks
<1> HIDE DEF v
<1>2. ASSUME NEW w, NEW stage, NEW child, NEW reader, NEW outcome,
             SetHelper(r, w), Looks(w, stage, child, reader, outcome),
             v.stage \in {"waiting", "joining", "terminating"},
             stage = "joining" => child # "alive",
             stage \in {"none", "ended"} =>
               /\ \A s \in Streams : reader[s] # "reading"
               /\ child = "alive" => outcome = "unconfirmed"
      PROVE  Goal
  BY <1>2, HelperKeeps DEF Looks, SetHelper, Clean, Stage, v
<1>3. CASE ChildExits(r)
  <2> DEFINE w == [v EXCEPT !.child = "exited"]
  <2>1. /\ v.stage \in {"waiting", "joining"}
        /\ SetHelper(r, w)
    BY <1>1, <1>3 DEF ChildExits, Watched, Stage, v
  <2>2. Looks(w, v.stage, "exited", v.reader, v.outcome)
    BY <1>1, SetChild
  <2> HIDE DEF w
  <2>3. QED
    BY <1>1, <1>2, <2>1, <2>2
<1>4. CASE ChildReaped(r)
  <2> DEFINE w1 == [v EXCEPT !.child = "reaped"]
             w == [w1 EXCEPT !.stage = "joining"]
  <2>1. /\ v.stage \in {"waiting"}
        /\ SetHelper(r, w)
    BY <1>1, <1>4 DEF ChildReaped, Stage, v
  <2>2. Looks(w1, v.stage, "reaped", v.reader, v.outcome)
    BY <1>1, SetChild
  <2> HIDE DEF w1
  <2>3. Looks(w, "joining", "reaped", v.reader, v.outcome)
    BY <2>2, SetStage
  <2> HIDE DEF w
  <2>4. QED
    BY <1>1, <1>2, <2>1, <2>3
<1>5. CASE ReadersJoined(r)
  <2> DEFINE w1 == [v EXCEPT !.stage = "ended"]
             w == [w1 EXCEPT !.outcome = Outcome(r)]
  <2>1. /\ v.stage \in {"joining"}
        /\ SetHelper(r, w)
        /\ \A s \in Streams : v.reader[s] # "reading"
    BY <1>1, <1>5 DEF ReadersJoined, Settled, Stage, v
  <2>2. Looks(w1, "ended", v.child, v.reader, v.outcome)
    BY <1>1, SetStage
  <2> HIDE DEF w1
  <2>3. Looks(w, "ended", v.child, v.reader, Outcome(r))
    BY <2>2, SetOutcome
  <2> HIDE DEF w
  <2>4. QED
    BY <1>1, <1>2, <2>1, <2>3
<1>6. CASE GiveUp(r)
  <2> DEFINE w1 == [v EXCEPT !.stage = "terminating"]
             w2 == [w1 EXCEPT !.outcome = "failed"]
             w == [w2 EXCEPT !.script = NoScript]
  <2>1. /\ v.stage \in {"waiting", "joining"}
        /\ SetHelper(r, w)
    BY <1>1, <1>6 DEF GiveUp, Watched, Stage, v
  <2>2. Looks(w1, "terminating", v.child, v.reader, v.outcome)
    BY <1>1, SetStage
  <2> HIDE DEF w1
  <2>3. Looks(w2, "terminating", v.child, v.reader, "failed")
    BY <2>2, SetOutcome
  <2> HIDE DEF w2
  <2>4. Looks(w, "terminating", v.child, v.reader, "failed")
    BY <2>3, SetScript
  <2> HIDE DEF w
  <2>5. QED
    BY <1>1, <1>2, <2>1, <2>4
<1>7. ASSUME NEW s \in Streams, ReaderReads(r, s)
      PROVE  Goal
  <2> DEFINE w1 == [v EXCEPT !.pipe = [v.pipe EXCEPT ![s] = @ - 1]]
             w == [w1 EXCEPT !.kept = [v.kept EXCEPT ![s] = Kept(@)]]
  <2>1. /\ v.stage \in {"waiting", "joining"}
        /\ SetHelper(r, w)
    BY <1>1, <1>7 DEF ReaderReads, Watched, Stage, v
  <2>2. Looks(w1, v.stage, v.child, v.reader, v.outcome)
    BY <1>1, SetPipe
  <2> HIDE DEF w1
  <2>3. Looks(w, v.stage, v.child, v.reader, v.outcome)
    BY <2>2, SetKept
  <2> HIDE DEF w
  <2>4. QED
    BY <1>1, <1>2, <2>1, <2>3
<1>8. ASSUME NEW s \in Streams, ReaderEnds(r, s)
      PROVE  Goal
  <2> DEFINE w == [v EXCEPT !.reader = [v.reader EXCEPT ![s] = "done"]]
  <2>1. /\ v.stage \in {"waiting", "joining"}
        /\ SetHelper(r, w)
    BY <1>1, <1>8 DEF ReaderEnds, Watched, Stage, v
  <2>2. Looks(w, v.stage, v.child, [v.reader EXCEPT ![s] = "done"], v.outcome)
    BY <1>1, <2>1, SetReader
  <2> HIDE DEF w
  <2>3. QED
    BY <1>1, <1>2, <2>1, <2>2
<1>9. ASSUME NEW s \in Streams, ReaderFails(r, s)
      PROVE  Goal
  <2> DEFINE w == [v EXCEPT !.reader = [v.reader EXCEPT ![s] = "failed"]]
  <2>1. /\ v.stage \in {"waiting", "joining"}
        /\ SetHelper(r, w)
    BY <1>1, <1>9 DEF ReaderFails, Watched, Stage, v
  <2>2. Looks(w, v.stage, v.child, [v.reader EXCEPT ![s] = "failed"], v.outcome)
    BY <1>1, <2>1, SetReader
  <2> HIDE DEF w
  <2>3. QED
    BY <1>1, <1>2, <2>1, <2>2
<1>10. ASSUME NEW s \in Streams, ChildWrites(r, s)
      PROVE  Goal
  <2> DEFINE w1 == [v EXCEPT !.script.writes[s] = @ - 1]
             w2 == [w1 EXCEPT !.pipe[s] = @ + 1]
             w3 == [v EXCEPT !.script.writes[s] = 0]
  <2>1. /\ v.stage \in {"waiting"}
        /\ SetHelper(r, w2) \/ SetHelper(r, w3)
    BY <1>1, <1>10 DEF ChildWrites, Watched, Stage, v
  <2>2. Looks(w1, v.stage, v.child, v.reader, v.outcome)
    BY <1>1, SetScript
  <2>3. Looks(w3, v.stage, v.child, v.reader, v.outcome)
    BY <1>1, SetScript
  <2> HIDE DEF w1, w3
  <2>4. Looks(w2, v.stage, v.child, v.reader, v.outcome)
    BY <2>2, SetPipe
  <2> HIDE DEF w2
  <2>5. QED
    BY <1>1, <1>2, <2>1, <2>3, <2>4
<1>11. CASE Terminate(r)
  <2>1. PICK confirmed \in BOOLEAN :
          /\ v.stage = "terminating"
          /\ SetHelper(r, [v EXCEPT
               !.stage = "ended",
               !.child = IF confirmed THEN "reaped" ELSE @,
               !.outcome = IF confirmed THEN @ ELSE "unconfirmed",
               !.reader = [s \in Streams |-> Finished(@[s])]])
    BY <1>11 DEF Terminate, Stage, v
  <2> DEFINE w1 == [v EXCEPT !.stage = "ended"]
             w2 == [w1 EXCEPT !.child = IF confirmed THEN "reaped" ELSE @]
             w3 == [w2 EXCEPT !.outcome = IF confirmed THEN @ ELSE "unconfirmed"]
             w == [w3 EXCEPT !.reader = [s \in Streams |-> Finished(@[s])]]
             child == IF confirmed THEN "reaped" ELSE w1.child
             outcome == IF confirmed THEN w2.outcome ELSE "unconfirmed"
             reader == [s \in Streams |-> Finished(w3.reader[s])]
  <2>2. SetHelper(r, w)
    BY <2>1
  <2>3. Looks(w1, "ended", v.child, v.reader, v.outcome)
    BY <1>1, SetStage
  <2> HIDE DEF w1
  <2>4. Looks(w2, "ended", child, v.reader, v.outcome)
    BY <2>3, SetChild
  <2> HIDE DEF w2
  <2>5. Looks(w3, "ended", child, v.reader, outcome)
    BY <2>4, SetOutcome
  <2> HIDE DEF w3
  <2>6. Looks(w, "ended", child, reader, outcome)
    BY <2>5, SetReader
  <2>7. /\ \A s \in Streams : reader[s] # "reading"
        /\ child = "alive" => outcome = "unconfirmed"
    BY DEF Finished
  <2> HIDE DEF w, child, outcome, reader
  <2>8. QED
    BY <1>2, <2>1, <2>2, <2>6, <2>7
<1>12. QED
  BY <1>3, <1>4, <1>5, <1>6, <1>7, <1>8, <1>9, <1>10, <1>11
     DEF HelperStep, WaitFails, DeadlinePasses, CallerGone

\* A new call is under way, or has failed and left nothing.
LEMMA SpawnKeeps ==
  ASSUME HelperInv, NEW r \in Runs, Spawn(r)
  PROVE  /\ HelperInv'
         /\ \A q \in Runs \ {r} : helper'[q] = helper[q]
<1> DEFINE silent == [s \in Streams |-> "none"]
           reading == [s \in Streams |-> "reading"]
<1>1. Looks(NoHelper, "none", "none", silent, "none")
  BY DEF NoHelper, Looks, IsHelper
<1> HIDE DEF silent, reading
<1>2. CASE SetHelper(r, [NoHelper EXCEPT !.stage = "ended", !.outcome = "failed"])
  <2> DEFINE w1 == [NoHelper EXCEPT !.stage = "ended"]
             w == [w1 EXCEPT !.outcome = "failed"]
  <2>1. SetHelper(r, w)
    BY <1>2
  <2>2. Looks(w1, "ended", "none", silent, "none")
    BY <1>1, SetStage
  <2> HIDE DEF w1
  <2>3. Looks(w, "ended", "none", silent, "failed")
    BY <2>2, SetOutcome
  <2> HIDE DEF w
  <2>4. QED
    BY <2>1, <2>3, HelperKeeps DEF Looks, SetHelper, Clean, silent
<1>3. ASSUME NEW script,
             SetHelper(r, [NoHelper EXCEPT
               !.stage = "waiting", !.child = "alive", !.script = script,
               !.reader = reading])
      PROVE  /\ HelperInv'
             /\ \A q \in Runs \ {r} : helper'[q] = helper[q]
  <2> DEFINE w1 == [NoHelper EXCEPT !.stage = "waiting"]
             w2 == [w1 EXCEPT !.child = "alive"]
             w3 == [w2 EXCEPT !.script = script]
             w == [w3 EXCEPT !.reader = reading]
  <2>1. SetHelper(r, w)
    BY <1>3
  <2>2. Looks(w1, "waiting", "none", silent, "none")
    BY <1>1, SetStage
  <2> HIDE DEF w1
  <2>3. Looks(w2, "waiting", "alive", silent, "none")
    BY <2>2, SetChild
  <2> HIDE DEF w2
  <2>4. Looks(w3, "waiting", "alive", silent, "none")
    BY <2>3, SetScript
  <2> HIDE DEF w3
  <2>5. reading = [s \in Streams |-> reading[s]]
    BY DEF reading
  <2>6. Looks(w, "waiting", "alive", reading, "none")
    BY <2>4, <2>5, SetReader
  <2> HIDE DEF w
  <2>7. QED
    BY <2>1, <2>6, HelperKeeps DEF Looks, SetHelper
<1>4. QED
  BY <1>2, <1>3 DEF Spawn, reading

\* What is forgotten of a call that returned is not what the pool relies on.
LEMMA ForgetKeeps ==
  ASSUME HelperInv, NEW r \in Runs, Stage(r) = "ended", Forget(r)
  PROVE  /\ HelperInv'
         /\ Stage(r)' = "ended"
         /\ \A q \in Runs \ {r} : helper'[q] = helper[q]
<1> DEFINE v == helper[r]
           child == IF v.child = "alive" THEN "alive" ELSE "none"
           outcome == IF v.outcome = "unconfirmed" THEN "unconfirmed" ELSE "none"
           reader == [s \in Streams |-> IF v.reader[s] = "reading"
                                         THEN "reading" ELSE "none"]
           silent == [s \in Streams |-> "none"]
           w1 == [NoHelper EXCEPT !.stage = "ended"]
           w2 == [w1 EXCEPT !.child = child]
           w3 == [w2 EXCEPT !.outcome = outcome]
           w == [w3 EXCEPT !.reader = reader]
<1>1. SetHelper(r, w)
  BY DEF Forget
<1>2. Looks(NoHelper, "none", "none", silent, "none")
  BY DEF NoHelper, Looks, IsHelper
<1>3. /\ \A s \in Streams : reader[s] # "reading"
      /\ child = "alive" => outcome = "unconfirmed"
      /\ reader = [s \in Streams |-> reader[s]]
  BY DEF HelperInv, Clean
<1> HIDE DEF child, outcome, reader, silent
<1>4. Looks(w1, "ended", "none", silent, "none")
  BY <1>2, SetStage
<1> HIDE DEF w1
<1>5. Looks(w2, "ended", child, silent, "none")
  BY <1>4, SetChild
<1> HIDE DEF w2
<1>6. Looks(w3, "ended", child, silent, outcome)
  BY <1>5, SetOutcome
<1> HIDE DEF w3
<1>7. Looks(w, "ended", child, reader, outcome)
  BY <1>3, <1>6, SetReader
<1> HIDE DEF w
<1>8. /\ IsHelper(w) /\ w.stage = "ended" /\ Clean(w)
      /\ helper' = [helper EXCEPT ![r] = w]
  BY <1>1, <1>3, <1>7 DEF Looks, SetHelper, Clean
<1>9. QED
  BY <1>8, HelperKeeps DEF Stage
-----------------------------------------------------------------------------
(* The pool. *)

Tasks == {"none", "begun", "resolve", "extract", "shortcut", "create", "ended"}
Results == {"none", "refused", "started", "prepared"}

JobRecord ==
  [wait : {"todo", "queued", "awaited", "settled"}, task : Tasks,
   result : Results, late : BOOLEAN,
   told : Results \cup {"not_sent", "uncertain", "dropped"}, starts : Nat]

JobsTyped == job \in [Commands -> [Indices -> JobRecord]]

AliveJobs == {r \in Runs : Alive(r[1], r[2])}

\* The permits that are not free are those of the threads that have not returned.
PermitInv ==
  /\ permits \in Nat
  /\ IsFiniteSet(AliveJobs)
  /\ permits + Cardinality(AliveJobs) = Workers

\* An item that waits for its permit has no thread; a helper is under way for a
\* thread that extracts only.
TaskInv ==
  \A c \in Commands, i \in Indices :
    /\ job[c][i].wait \in {"todo", "queued"} => job[c][i].task = "none"
    /\ job[c][i].task # "extract" => Stage(<<c, i>>) \in {"none", "ended"}

PoolInv == JobsTyped /\ HelperInv /\ PermitInv /\ TaskInv

LEMMA RunsAreItems ==
  /\ \A c \in Commands, i \in Indices : <<c, i>> \in Runs
  /\ \A r \in Runs : r[1] \in Commands /\ r[2] \in Indices /\ r = <<r[1], r[2]>>
BY PoolAssumption DEF Indices

LEMMA JobMoves ==
  ASSUME JobsTyped, NEW c \in Commands, NEW i \in Indices,
         NEW v \in JobRecord, SetJob(c, i, v)
  PROVE  /\ JobsTyped'
         /\ job'[c][i] = v
         /\ \A d \in Commands, k \in Indices :
              <<d, k>> # <<c, i>> => job'[d][k] = job[d][k]
<1> HIDE DEF JobRecord
<1>1. QED
  BY DEF JobsTyped, SetJob

Live(task) == task \notin {"none", "ended"}

\* The permits follow the threads.
LEMMA PermitsFollow ==
  ASSUME PermitInv, NEW r \in Runs, NEW after \in BOOLEAN,
         Alive(r[1], r[2])' = after,
         \A q \in Runs \ {r} : Alive(q[1], q[2])' = Alive(q[1], q[2]),
         \/ after = Alive(r[1], r[2]) /\ permits' = permits
         \/ after /\ ~Alive(r[1], r[2]) /\ permits > 0 /\ permits' = permits - 1
         \/ ~after /\ Alive(r[1], r[2]) /\ permits' = permits + 1
  PROVE  PermitInv'
<1>1. /\ permits \in Nat /\ Workers \in Nat
      /\ IsFiniteSet(AliveJobs) /\ Cardinality(AliveJobs) \in Nat
      /\ permits + Cardinality(AliveJobs) = Workers
  BY PoolAssumption, FS_CardinalityType DEF PermitInv
<1>2. CASE after = Alive(r[1], r[2]) /\ permits' = permits
  <2>1. AliveJobs' = AliveJobs
    BY <1>2 DEF AliveJobs
  <2>2. QED
    BY <1>1, <1>2, <2>1 DEF PermitInv
<1>3. CASE after /\ ~Alive(r[1], r[2]) /\ permits > 0 /\ permits' = permits - 1
  <2>1. r \notin AliveJobs /\ AliveJobs' = AliveJobs \cup {r}
    BY <1>3 DEF AliveJobs
  <2>2. /\ IsFiniteSet(AliveJobs \cup {r})
        /\ Cardinality(AliveJobs \cup {r}) = Cardinality(AliveJobs) + 1
    BY <1>1, <2>1, FS_AddElement
  <2>3. QED
    BY <1>1, <1>3, <2>1, <2>2 DEF PermitInv
<1>4. CASE ~after /\ Alive(r[1], r[2]) /\ permits' = permits + 1
  <2>1. r \in AliveJobs /\ AliveJobs' = AliveJobs \ {r}
    BY <1>4 DEF AliveJobs
  <2>2. /\ IsFiniteSet(AliveJobs \ {r})
        /\ Cardinality(AliveJobs \ {r}) = Cardinality(AliveJobs) - 1
    BY <1>1, <2>1, FS_RemoveElement
  <2>3. QED
    BY <1>1, <1>4, <2>1, <2>2 DEF PermitInv
<1>5. QED
  BY <1>2, <1>3, <1>4

\* What is to be shown of a step that moves one item.
LEMMA PoolKeeps ==
  ASSUME PoolInv, NEW c \in Commands, NEW i \in Indices,
         NEW v \in JobRecord, SetJob(c, i, v),
         HelperInv', \A q \in Runs \ {<<c, i>>} : helper'[q] = helper[q],
         v.wait \in {"todo", "queued"} => v.task = "none",
         v.task # "extract" => Stage(<<c, i>>)' \in {"none", "ended"},
         \/ Live(v.task) = Live(job[c][i].task) /\ permits' = permits
         \/ Live(v.task) /\ ~Live(job[c][i].task) /\ permits > 0 /\ permits' = permits - 1
         \/ ~Live(v.task) /\ Live(job[c][i].task) /\ permits' = permits + 1
  PROVE  PoolInv'
<1>1. /\ JobsTyped'
      /\ job'[c][i] = v
      /\ \A d \in Commands, k \in Indices :
           <<d, k>> # <<c, i>> => job'[d][k] = job[d][k]
  BY JobMoves DEF PoolInv
<1>2. PermitInv'
  <2>1. /\ <<c, i>> \in Runs
        /\ Alive(c, i)' = Live(v.task) /\ Alive(c, i) = Live(job[c][i].task)
        /\ \A q \in Runs \ {<<c, i>>} : Alive(q[1], q[2])' = Alive(q[1], q[2])
    BY <1>1, RunsAreItems DEF Alive, Live
  <2>2. QED
    BY <2>1, PermitsFollow DEF PoolInv, Live
<1>3. TaskInv'
  <2>1. SUFFICES ASSUME NEW d \in Commands, NEW k \in Indices
                 PROVE  /\ job'[d][k].wait \in {"todo", "queued"} => job'[d][k].task = "none"
                        /\ job'[d][k].task # "extract" => Stage(<<d, k>>)' \in {"none", "ended"}
    BY DEF TaskInv
  <2>2. CASE <<d, k>> = <<c, i>>
    BY <1>1, <2>2
  <2>3. CASE <<d, k>> # <<c, i>>
    <3>1. job'[d][k] = job[d][k] /\ helper'[<<d, k>>] = helper[<<d, k>>]
      BY <1>1, <2>3, RunsAreItems
    <3>2. QED
      BY <3>1 DEF PoolInv, TaskInv, Stage
  <2>4. QED
    BY <2>2, <2>3
<1>4. QED
  BY <1>1, <1>2, <1>3 DEF PoolInv

\* The same for a step that leaves the helpers alone.
LEMMA QuietMove ==
  ASSUME PoolInv, NEW c \in Commands, NEW i \in Indices,
         NEW v \in JobRecord, SetJob(c, i, v), UNCHANGED helper,
         v.wait \in {"todo", "queued"} => v.task = "none",
         v.task # "extract" => job[c][i].task # "extract",
         \/ Live(v.task) = Live(job[c][i].task) /\ permits' = permits
         \/ Live(v.task) /\ ~Live(job[c][i].task) /\ permits > 0 /\ permits' = permits - 1
         \/ ~Live(v.task) /\ Live(job[c][i].task) /\ permits' = permits + 1
  PROVE  PoolInv'
<1>1. /\ HelperInv'
      /\ \A q \in Runs \ {<<c, i>>} : helper'[q] = helper[q]
  BY DEF PoolInv, HelperInv, HelpersShaped, Stage
<1>2. v.task # "extract" => Stage(<<c, i>>)' \in {"none", "ended"}
  BY DEF PoolInv, TaskInv, Stage
<1>3. QED
  BY <1>1, <1>2, PoolKeeps

\* What an item's step finds.
LEMMA ItemTyped ==
  ASSUME PoolInv, NEW c \in Commands, NEW i \in Indices
  PROVE  /\ job[c][i] \in JobRecord
         /\ job[c][i].wait \in {"todo", "queued"} => job[c][i].task = "none"
BY DEF PoolInv, JobsTyped, TaskInv

\* Waiting, giving up and being told leave the thread and its permit alone.
LEMMA CommandSideKeeps ==
  ASSUME PoolInv, NEW c \in Commands, NEW i \in Indices,
         \/ NextItem(c, i) \/ AcquireTimesOut(c, i) \/ DeadlineOfJob(c, i)
         \/ JobTimesOut(c, i) \/ JobReturns(c, i)
  PROVE  PoolInv'
<1> DEFINE v == job[c][i]
<1>1. /\ v \in JobRecord
      /\ v.wait \in {"todo", "queued"} => v.task = "none"
  BY ItemTyped
<1>2. CASE NextItem(c, i)
  <2> DEFINE w == [v EXCEPT !.wait = "queued"]
  <2>1. SetJob(c, i, w) /\ UNCHANGED <<permits, helper>> /\ v.wait = "todo"
    BY <1>2 DEF NextItem
  <2>2. w \in JobRecord /\ w.task = v.task /\ v.task = "none"
    BY <1>1, <2>1 DEF JobRecord
  <2> HIDE DEF w, v
  <2>3. QED
    BY <2>1, <2>2, QuietMove DEF v
<1>3. CASE DeadlineOfJob(c, i)
  <2> DEFINE w == [v EXCEPT !.late = TRUE]
  <2>1. SetJob(c, i, w) /\ UNCHANGED <<permits, helper>> /\ v.wait = "awaited"
    BY <1>3 DEF DeadlineOfJob
  <2>2. w \in JobRecord /\ w.task = v.task /\ w.wait = "awaited"
    BY <1>1, <2>1 DEF JobRecord
  <2> HIDE DEF w, v
  <2>3. QED
    BY <2>1, <2>2, QuietMove DEF v
<1>4. ASSUME NEW what \in Results \cup {"not_sent", "uncertain"}, Tell(c, i, what),
             UNCHANGED <<permits, helper>>
      PROVE  PoolInv'
  <2> DEFINE w == [v EXCEPT !.wait = "settled", !.told = what, !.result = "none"]
  <2>1. SetJob(c, i, w)
    BY <1>4 DEF Tell
  <2>2. w \in JobRecord /\ w.task = v.task /\ w.wait = "settled"
    BY <1>1 DEF JobRecord, Results
  <2> HIDE DEF w, v
  <2>3. QED
    BY <1>4, <2>1, <2>2, QuietMove DEF v
<1>5. CASE AcquireTimesOut(c, i)
  BY <1>4, <1>5 DEF AcquireTimesOut
<1>6. CASE JobTimesOut(c, i)
  BY <1>4, <1>6 DEF JobTimesOut
<1>7. CASE JobReturns(c, i)
  <2>1. v.result \in Results
    BY <1>1 DEF JobRecord
  <2>2. QED
    BY <1>4, <1>7, <2>1 DEF JobReturns
<1>8. QED
  BY <1>2, <1>3, <1>5, <1>6, <1>7

\* A permit goes to an item that has no thread yet.
LEMMA AcquireKeeps ==
  ASSUME PoolInv, NEW c \in Commands, NEW i \in Indices, AcquirePermit(c, i)
  PROVE  PoolInv'
<1> DEFINE v == job[c][i]
           w == [v EXCEPT !.wait = "awaited", !.task = "begun"]
<1>1. /\ v.wait = "queued" /\ permits > 0 /\ permits' = permits - 1
      /\ SetJob(c, i, w) /\ UNCHANGED helper
  BY DEF AcquirePermit
<1>2. v \in JobRecord /\ v.task = "none"
  BY <1>1, ItemTyped
<1>3. w \in JobRecord /\ w.wait = "awaited" /\ w.task = "begun"
  BY <1>2 DEF JobRecord, Tasks
<1> HIDE DEF w, v
<1>4. QED
  BY <1>1, <1>2, <1>3, QuietMove DEF Live, v

\* A thread that goes on keeps its permit, one that returns gives it back.
LEMMA ThreadKeeps ==
  ASSUME PoolInv, NEW c \in Commands, NEW i \in Indices,
         Live(job[c][i].task), job[c][i].task # "extract",
         \/ \E stage \in {"resolve", "shortcut", "create"} : Proceed(c, i, stage)
         \/ \E result \in {"started", "refused"} : TaskEnds(c, i, result)
  PROVE  PoolInv'
<1> DEFINE v == job[c][i]
<1>1. /\ v \in JobRecord /\ v.wait \notin {"todo", "queued"}
      /\ v.task \in Tasks \ {"none", "extract", "ended"}
  BY ItemTyped DEF Live, JobRecord
<1>2. ASSUME NEW stage \in {"resolve", "shortcut", "create"}, Proceed(c, i, stage)
      PROVE  PoolInv'
  <2> DEFINE w == [v EXCEPT !.task = stage]
  <2>1. SetJob(c, i, w) /\ UNCHANGED <<permits, helper>>
    BY <1>2 DEF Proceed
  <2>2. w \in JobRecord /\ w.task = stage /\ w.wait = v.wait
    BY <1>1 DEF JobRecord, Tasks
  <2> HIDE DEF w, v
  <2>3. QED
    BY <1>1, <2>1, <2>2, QuietMove DEF Live, v
<1>3. ASSUME NEW result \in {"started", "refused"}, TaskEnds(c, i, result)
      PROVE  PoolInv'
  <2> DEFINE starts == IF result = "started" THEN v.starts + 1 ELSE v.starts
             w == [v EXCEPT !.task = "ended", !.result = Heard(c, i, result),
                            !.starts = starts]
  <2>1. SetJob(c, i, w) /\ permits' = permits + 1 /\ UNCHANGED helper
    BY <1>3 DEF TaskEnds
  <2>2. starts \in Nat /\ Heard(c, i, result) \in Results
    BY <1>1 DEF JobRecord, Heard, Results
  <2> HIDE DEF starts
  <2>3. w \in JobRecord /\ w.task = "ended" /\ w.wait = v.wait
    BY <1>1, <2>2 DEF JobRecord, Tasks
  <2> HIDE DEF w, v
  <2>4. QED
    BY <1>1, <2>1, <2>3, QuietMove DEF Live, v
<1>4. QED
  BY <1>2, <1>3

\* A thread that begins to extract starts a helper and keeps its permit.
LEMMA ExtractionBegins ==
  ASSUME PoolInv, NEW c \in Commands, NEW i \in Indices,
         job[c][i].task = "resolve", Spawn(<<c, i>>),
         SetJob(c, i, [job[c][i] EXCEPT !.task = "extract"]), UNCHANGED permits
  PROVE  PoolInv'
<1> DEFINE v == job[c][i]
           w == [v EXCEPT !.task = "extract"]
<1>1. v \in JobRecord /\ v.wait \notin {"todo", "queued"}
  BY ItemTyped
<1>2. w \in JobRecord /\ w.task = "extract" /\ w.wait = v.wait
  BY <1>1 DEF JobRecord, Tasks
<1>3. /\ HelperInv'
      /\ \A q \in Runs \ {<<c, i>>} : helper'[q] = helper[q]
  BY RunsAreItems, SpawnKeeps DEF PoolInv
<1> HIDE DEF w
<1>4. SetJob(c, i, w) /\ Live(w.task) = Live(v.task)
  BY <1>2 DEF Live, w
<1> HIDE DEF v
<1>5. QED
  BY <1>1, <1>2, <1>3, <1>4, PoolKeeps DEF v

\* It returns when its helper has, and its permit comes back.
LEMMA ExtractionEnds ==
  ASSUME PoolInv, NEW c \in Commands, NEW i \in Indices, TaskExtracted(c, i)
  PROVE  PoolInv'
<1> DEFINE v == job[c][i]
<1>1. PICK result \in Extracted(helper[<<c, i>>]) :
        SetJob(c, i, [v EXCEPT !.task = "ended", !.result = Heard(c, i, result)])
  BY DEF TaskExtracted
<1> DEFINE w == [v EXCEPT !.task = "ended", !.result = Heard(c, i, result)]
<1>2. /\ v.task = "extract" /\ permits' = permits + 1
      /\ Stage(<<c, i>>) = "ended" /\ Forget(<<c, i>>)
  BY DEF TaskExtracted
<1>3. v \in JobRecord /\ v.wait \notin {"todo", "queued"}
  BY <1>2, ItemTyped
<1>4. Heard(c, i, result) \in Results
  BY DEF Heard, Extracted, Results
<1>5. w \in JobRecord /\ w.task = "ended" /\ w.wait = v.wait
  BY <1>3, <1>4 DEF JobRecord, Tasks
<1>6. /\ HelperInv'
      /\ Stage(<<c, i>>)' = "ended"
      /\ \A q \in Runs \ {<<c, i>>} : helper'[q] = helper[q]
  BY <1>2, RunsAreItems, ForgetKeeps DEF PoolInv
<1> HIDE DEF w
<1>7. SetJob(c, i, w) /\ ~Live(w.task) /\ Live(v.task)
  BY <1>1, <1>2, <1>5 DEF Live, w
<1> HIDE DEF v
<1>8. QED
  BY <1>2, <1>3, <1>5, <1>6, <1>7, PoolKeeps DEF v

\* A command that ends leaves its threads running, with their permits.
LEMMA LeavingKeeps ==
  ASSUME PoolInv, NEW c \in Commands, UNCHANGED <<plan, permits, helper>>,
         plan \in Plans,
         job' = [job EXCEPT ![c] = [i \in Indices |-> Left(c, i)]]
  PROVE  PoolInv'
<1>1. \A i \in Indices :
        /\ Left(c, i) \in JobRecord
        /\ Left(c, i).task = job[c][i].task
        /\ Left(c, i).wait \in {job[c][i].wait, "settled"}
  <2>1. SUFFICES ASSUME NEW i \in Indices
                 PROVE  /\ Left(c, i) \in JobRecord
                        /\ Left(c, i).task = job[c][i].task
                        /\ Left(c, i).wait \in {job[c][i].wait, "settled"}
    OBVIOUS
  <2> DEFINE v == job[c][i]
  <2>2. v \in JobRecord /\ Launches(c) \in BOOLEAN
    BY ItemTyped DEF Launches
  <2>3. Left(c, i) \in
          {v, [v EXCEPT !.wait = "settled", !.told = "dropped"],
           [v EXCEPT !.wait = "settled", !.told = "dropped", !.result = "none",
                     !.late = Launches(c)]}
    BY DEF Left
  <2> DEFINE late == Launches(c)
  <2>4. late \in BOOLEAN
    BY <2>2
  <2> HIDE DEF late, v
  <2>5. CASE Left(c, i) = v
    BY <2>2, <2>5 DEF v
  <2>6. CASE Left(c, i) = [v EXCEPT !.wait = "settled", !.told = "dropped"]
    <3>1. /\ Left(c, i) \in JobRecord /\ Left(c, i).task = v.task
          /\ Left(c, i).wait = "settled"
      BY <2>2, <2>6 DEF JobRecord
    <3>2. QED
      BY <3>1 DEF v
  <2>7. CASE Left(c, i) = [v EXCEPT !.wait = "settled", !.told = "dropped",
                                    !.result = "none", !.late = late]
    <3>1. /\ Left(c, i) \in JobRecord /\ Left(c, i).task = v.task
          /\ Left(c, i).wait = "settled"
      BY <2>2, <2>4, <2>7 DEF JobRecord, Results
    <3>2. QED
      BY <3>1 DEF v
  <2>8. QED
    BY <2>3, <2>5, <2>6, <2>7 DEF late
<1>2. JobsTyped'
  <2> HIDE DEF JobRecord
  <2>1. [i \in Indices |-> Left(c, i)] \in [Indices -> JobRecord]
    BY <1>1
  <2>2. QED
    BY <2>1 DEF PoolInv, JobsTyped
<1>3. \A d \in Commands, k \in Indices :
        /\ job'[d][k].task = job[d][k].task
        /\ job'[d][k].wait \in {job[d][k].wait, "settled"}
  <2>1. SUFFICES ASSUME NEW d \in Commands, NEW k \in Indices
                 PROVE  /\ job'[d][k].task = job[d][k].task
                        /\ job'[d][k].wait \in {job[d][k].wait, "settled"}
    OBVIOUS
  <2>2. job'[d] = IF d = c THEN [i \in Indices |-> Left(c, i)] ELSE job[d]
    BY DEF PoolInv, JobsTyped
  <2>3. CASE d = c
    <3>1. job'[d][k] = Left(c, k)
      BY <2>2, <2>3
    <3>2. QED
      BY <1>1, <2>3, <3>1
  <2>4. CASE d # c
    BY <2>2, <2>4
  <2>5. QED
    BY <2>3, <2>4
<1>4. PermitInv'
  <2>1. AliveJobs' = AliveJobs
    BY <1>3, RunsAreItems DEF AliveJobs, Alive
  <2>2. QED
    BY <2>1 DEF PoolInv, PermitInv
<1>5. TaskInv'
  BY <1>3 DEF PoolInv, TaskInv, Stage
<1>6. HelperInv'
  BY DEF PoolInv, HelperInv, HelpersShaped, Stage
<1>7. QED
  BY <1>2, <1>4, <1>5, <1>6 DEF PoolInv

\* A helper steps for a thread that extracts.
LEMMA HelpersKeep ==
  ASSUME PoolInv, NEW r \in Runs, HelperStep(r), UNCHANGED launcherVars
  PROVE  PoolInv'
<1>1. /\ HelperInv'
      /\ Stage(r) \notin {"none", "ended"}
      /\ \A q \in Runs \ {r} : helper'[q] = helper[q]
  BY HelperStepKeeps DEF PoolInv
<1>2. UNCHANGED <<permits, job>>
  BY DEF launcherVars
<1>3. JobsTyped' /\ PermitInv'
  BY <1>2 DEF PoolInv, JobsTyped, PermitInv, AliveJobs, Alive
<1>4. TaskInv'
  <2>1. SUFFICES ASSUME NEW d \in Commands, NEW k \in Indices
                 PROVE  /\ job[d][k].wait \in {"todo", "queued"} => job[d][k].task = "none"
                        /\ job[d][k].task # "extract" => Stage(<<d, k>>)' \in {"none", "ended"}
    BY <1>2 DEF TaskInv
  <2>2. CASE <<d, k>> = r
    BY <1>1, <2>2 DEF PoolInv, TaskInv
  <2>3. CASE <<d, k>> # r
    <3>1. helper'[<<d, k>>] = helper[<<d, k>>]
      BY <1>1, <2>3, RunsAreItems
    <3>2. QED
      BY <3>1 DEF PoolInv, TaskInv, Stage
  <2>4. QED
    BY <2>2, <2>3
<1>5. QED
  BY <1>1, <1>3, <1>4 DEF PoolInv

-----------------------------------------------------------------------------
(* The theorems. *)

LEMMA PoolBegins == Init => PoolInv
<1>1. SUFFICES ASSUME Init PROVE PoolInv
  OBVIOUS
<1>2. \A c \in Commands, i \in Indices : job[c][i] = NoJob
  BY <1>1 DEF Init
<1>3. JobsTyped
  <2>1. NoJob \in JobRecord
    BY DEF NoJob, JobRecord, Tasks, Results
  <2> HIDE DEF JobRecord
  <2>2. QED
    BY <1>1, <2>1 DEF Init, JobsTyped
<1>4. PermitInv
  <2>1. AliveJobs = {}
    BY <1>2, RunsAreItems DEF AliveJobs, Alive, NoJob
  <2>2. QED
    BY <1>1, <2>1, FS_EmptySet, PoolAssumption DEF PermitInv, Init
<1>5. /\ IsHelper(NoHelper) /\ Clean(NoHelper) /\ NoHelper.stage = "none"
  BY DEF IsHelper, Clean, NoHelper
<1>6. \A r \in Runs : helper[r] = NoHelper
  BY <1>1 DEF Init, HelperInit
<1>7. HelpersShaped
  BY <1>1, <1>5, <1>6 DEF HelpersShaped, Init, HelperInit
<1>8. HelperInv
  BY <1>5, <1>6, <1>7 DEF HelperInv, Stage
<1>9. TaskInv
  <2>1. \A r \in Runs : Stage(r) = "none"
    BY <1>5, <1>6 DEF Stage
  <2>2. NoJob.task = "none"
    BY DEF NoJob
  <2> HIDE DEF NoJob
  <2>3. QED
    BY <1>2, <2>1, <2>2, RunsAreItems DEF TaskInv
<1>10. QED
  BY <1>3, <1>4, <1>8, <1>9 DEF PoolInv

LEMMA ThreadSteps ==
  ASSUME PoolInv, NEW c \in Commands, NEW i \in Indices, TaskStep(c, i)
  PROVE  PoolInv'
<1>1. CASE TaskResolves(c, i)
  BY <1>1, ThreadKeeps DEF TaskResolves, Live
<1>2. CASE TaskResolved(c, i)
  <2>1. CASE Spawn(<<c, i>>) /\ SetJob(c, i, [job[c][i] EXCEPT !.task = "extract"])
             /\ UNCHANGED permits
    BY <1>2, <2>1, ExtractionBegins DEF TaskResolved
  <2>2. CASE TaskEnds(c, i, "refused") \/ Proceed(c, i, "shortcut")
    BY <1>2, <2>2, ThreadKeeps DEF TaskResolved, Live
  <2>3. QED
    BY <1>2, <2>1, <2>2 DEF TaskResolved
<1>3. CASE TaskReadsShortcut(c, i)
  BY <1>3, ThreadKeeps DEF TaskReadsShortcut, Live
<1>4. CASE TaskCreates(c, i)
  BY <1>4, ThreadKeeps DEF TaskCreates, Live
<1>5. CASE TaskExtracted(c, i)
  BY <1>5, ExtractionEnds
<1>6. QED
  BY <1>1, <1>2, <1>3, <1>4, <1>5 DEF TaskStep

LEMMA CommandSteps ==
  ASSUME PoolInv, NEW c \in Commands, CommandStep(c), plan \in Plans
  PROVE  PoolInv'
<1>1. CASE BeginCommand(c)
  BY <1>1 DEF BeginCommand, PoolInv, JobsTyped, HelperInv, HelpersShaped, Stage,
              PermitInv, AliveJobs, Alive, TaskInv
<1>2. CASE EndCommand(c)
  BY <1>2, LeavingKeeps DEF EndCommand
<1>3. CASE CommandDropped(c)
  BY <1>3, LeavingKeeps DEF CommandDropped
<1>4. ASSUME NEW i \in Indices,
             \/ NextItem(c, i) \/ AcquirePermit(c, i) \/ AcquireTimesOut(c, i)
             \/ DeadlineOfJob(c, i) \/ JobTimesOut(c, i) \/ JobReturns(c, i)
      PROVE  PoolInv'
  BY <1>4, CommandSideKeeps, AcquireKeeps
<1>5. QED
  BY <1>1, <1>2, <1>3, <1>4 DEF CommandStep

\* The invariant of the pool.
THEOREM PoolInvariant == Spec => [](PoolInv /\ plan \in Plans)
<1>1. Init => PoolInv /\ plan \in Plans
  BY PoolBegins DEF Init
<1>2. PoolInv /\ plan \in Plans /\ [Next]_vars => PoolInv' /\ (plan \in Plans)'
  <2>1. SUFFICES ASSUME PoolInv, plan \in Plans, [Next]_vars
                 PROVE  PoolInv' /\ plan' = plan
    OBVIOUS
  <2>2. CASE UNCHANGED vars
    BY <2>1, <2>2 DEF vars, launcherVars, PoolInv, JobsTyped, HelperInv,
                      HelpersShaped, Stage, PermitInv, AliveJobs, Alive, TaskInv
  <2>3. ASSUME NEW c \in Commands, CommandStep(c)
        PROVE  PoolInv' /\ plan' = plan
    <3>1. PoolInv'
      BY <2>1, <2>3, CommandSteps
    <3>2. plan' = plan
      BY <2>3 DEF CommandStep, BeginCommand, EndCommand, CommandDropped, NextItem,
                  AcquirePermit, AcquireTimesOut, DeadlineOfJob, JobTimesOut,
                  JobReturns
    <3>3. QED
      BY <3>1, <3>2
  <2>4. ASSUME NEW c \in Commands, NEW i \in Indices, TaskStep(c, i)
        PROVE  PoolInv' /\ plan' = plan
    <3>1. PoolInv'
      BY <2>1, <2>4, ThreadSteps
    <3>2. plan' = plan
      BY <2>4 DEF TaskStep, TaskResolves, TaskResolved, TaskReadsShortcut,
                  TaskCreates, TaskExtracted, TaskEnds, Proceed
    <3>3. QED
      BY <3>1, <3>2
  <2>5. ASSUME NEW r \in Runs, HelperStep(r), UNCHANGED launcherVars
        PROVE  PoolInv' /\ plan' = plan
    BY <2>1, <2>5, HelpersKeep DEF launcherVars
  <2>6. QED
    BY <2>1, <2>2, <2>3, <2>4, <2>5 DEF Next
<1>3. QED
  BY <1>1, <1>2, PTL DEF Spec

\* The permits that are not free are exactly those of the threads that have not
\* returned, also of the ones whose command gave up (run_blocking moves the permit
\* into the thread), and a thread that returned left no child behind that it does
\* not report (run_child), for every number of workers, items, commands and for
\* whatever the helpers do.
THEOREM PermitsAddUp == Spec => []PoolAccounted
<1>1. PoolInv => PoolAccounted
  <2>1. SUFFICES ASSUME PoolInv PROVE PoolAccounted
    OBVIOUS
  <2>2. permits + Cardinality({r \in Runs : Alive(r[1], r[2])}) = Workers
    BY <2>1 DEF PoolInv, PermitInv, AliveJobs
  <2>3. ASSUME NEW r \in Runs, job[r[1]][r[2]].task = "ended"
        PROVE  /\ Settled(r)
               /\ helper[r].child = "alive" => helper[r].outcome = "unconfirmed"
    <3>1. Stage(<<r[1], r[2]>>) \in {"none", "ended"} /\ r = <<r[1], r[2]>>
      BY <2>1, <2>3, RunsAreItems DEF PoolInv, TaskInv
    <3>2. Stage(r) \in {"none", "ended"}
      BY <3>1
    <3>3. QED
      BY <2>1, <3>2 DEF PoolInv, HelperInv, Clean, Settled
  <2>4. QED
    BY <2>2, <2>3 DEF PoolAccounted
<1>2. QED
  BY <1>1, PoolInvariant, PTL
-----------------------------------------------------------------------------
(* What the user is told. *)

\* The record of an item agrees with what its thread has done.  Nothing is told
\* while the command waits, a process is created by a thread as it returns, and
\* the thread of a launch that nobody waits for any more is late.
Accounted(item, launch) ==
  /\ item.starts \in {0, 1} /\ (item.starts = 1 => item.task = "ended")
  /\ item.wait # "settled" => item.told = "none"
  /\ item.wait \in {"todo", "queued"} => item.task = "none"
  /\ item.wait = "awaited" /\ item.task = "ended" =>
       (item.result = "started" <=> item.starts = 1)
  /\ item.told = "started" => item.starts = 1
  /\ item.told \in {"not_sent", "refused"} =>
       item.starts = 0 /\ item.task \in {"none", "ended"}
  /\ ~launch => item.task \notin {"shortcut", "create"}
  /\ launch /\ item.told # "none" /\ Live(item.task) => item.late

LaunchInv == \A c \in Commands, i \in Indices : Accounted(job[c][i], Launches(c))

\* A step of an item keeps the account, and after the user was told of it, a
\* thread does not come to the point where it creates a process.
Follows(before, after, launch) ==
  /\ Accounted(after, launch)
  /\ before.told # "none" /\ before.task \notin {"create", "ended"} =>
       after.task # "create"

AllFollow ==
  \A c \in Commands, i \in Indices : Follows(job[c][i], job'[c][i], Launches(c))

LEMMA OneFollows ==
  ASSUME JobsTyped, LaunchInv, NEW c \in Commands, NEW i \in Indices,
         NEW v \in JobRecord, SetJob(c, i, v),
         Follows(job[c][i], v, Launches(c))
  PROVE  AllFollow
<1>1. ASSUME NEW d \in Commands, NEW k \in Indices
      PROVE  Follows(job[d][k], job'[d][k], Launches(d))
  <2>1. CASE <<d, k>> = <<c, i>>
    BY <2>1, JobMoves
  <2>2. CASE <<d, k>> # <<c, i>>
    <3>1. job'[d][k] = job[d][k]
      BY <2>2, JobMoves
    <3>2. Accounted(job[d][k], Launches(d))
      BY DEF LaunchInv
    <3>3. QED
      BY <3>1, <3>2 DEF Follows, Accounted
  <2>3. QED
    BY <2>1, <2>2
<1>2. QED
  BY <1>1 DEF AllFollow

LEMMA NoneFollows ==
  ASSUME LaunchInv, UNCHANGED job
  PROVE  AllFollow
BY DEF LaunchInv, AllFollow, Follows, Accounted

\* The command's side of an item.
LEMMA TellingFollows ==
  ASSUME JobsTyped, LaunchInv, NEW c \in Commands, NEW i \in Indices,
         \/ NextItem(c, i) \/ AcquirePermit(c, i) \/ AcquireTimesOut(c, i)
         \/ DeadlineOfJob(c, i) \/ JobTimesOut(c, i) \/ JobReturns(c, i)
  PROVE  AllFollow
<1> DEFINE v == job[c][i]
<1>1. v \in JobRecord /\ Accounted(v, Launches(c))
  BY DEF JobsTyped, LaunchInv
<1>2. CASE NextItem(c, i)
  <2> DEFINE w == [v EXCEPT !.wait = "queued"]
  <2>1. SetJob(c, i, w) /\ v.wait = "todo"
    BY <1>2 DEF NextItem
  <2>2. w \in JobRecord /\ Follows(v, w, Launches(c))
    BY <1>1, <2>1 DEF JobRecord, Follows, Accounted, Live
  <2>3. QED
    BY <2>1, <2>2, OneFollows
<1>3. CASE AcquirePermit(c, i)
  <2> DEFINE w == [v EXCEPT !.wait = "awaited", !.task = "begun"]
  <2>1. SetJob(c, i, w) /\ v.wait = "queued"
    BY <1>3 DEF AcquirePermit
  <2>2. w \in JobRecord /\ Follows(v, w, Launches(c))
    BY <1>1, <2>1 DEF JobRecord, Follows, Accounted, Live, Tasks
  <2>3. QED
    BY <2>1, <2>2, OneFollows
<1>4. CASE DeadlineOfJob(c, i)
  <2> DEFINE w == [v EXCEPT !.late = TRUE]
  <2>1. SetJob(c, i, w) /\ v.wait = "awaited"
    BY <1>4 DEF DeadlineOfJob
  <2>2. w \in JobRecord /\ Follows(v, w, Launches(c))
    BY <1>1, <2>1 DEF JobRecord, Follows, Accounted, Live
  <2>3. QED
    BY <2>1, <2>2, OneFollows
<1>5. ASSUME NEW what \in Results \cup {"not_sent", "uncertain"}, Tell(c, i, what),
             \/ v.wait = "queued" /\ what = "not_sent"
             \/ /\ v.wait = "awaited" /\ v.task # "ended" /\ what = "uncertain"
                /\ Launches(c) => v.late
             \/ v.wait = "awaited" /\ v.task = "ended" /\ what = v.result
      PROVE  AllFollow
  <2> DEFINE w == [v EXCEPT !.wait = "settled", !.told = what, !.result = "none"]
  <2>1. SetJob(c, i, w)
    BY <1>5 DEF Tell
  <2>2. w \in JobRecord
    BY <1>1 DEF JobRecord, Results
  <2>3. Follows(v, w, Launches(c))
    BY <1>1, <1>5 DEF JobRecord, Follows, Accounted, Live, Results
  <2>4. QED
    BY <2>1, <2>2, <2>3, OneFollows
<1>6. CASE AcquireTimesOut(c, i)
  BY <1>5, <1>6 DEF AcquireTimesOut
<1>7. CASE JobTimesOut(c, i)
  BY <1>5, <1>7 DEF JobTimesOut
<1>8. CASE JobReturns(c, i)
  <2>1. v.result \in Results
    BY <1>1 DEF JobRecord
  <2>2. QED
    BY <1>5, <1>8, <2>1 DEF JobReturns
<1>9. QED
  BY <1>2, <1>3, <1>4, <1>6, <1>7, <1>8

\* A thread that goes on looks at the deadline of a launch first.
LEMMA ProceedFollows ==
  ASSUME JobsTyped, LaunchInv, NEW c \in Commands, NEW i \in Indices,
         NEW stage \in {"resolve", "shortcut", "create", "extract"},
         SetJob(c, i, [job[c][i] EXCEPT !.task = stage]),
         job[c][i].task \in {"begun", "resolve", "shortcut"},
         Launches(c) => EnsureActive(c, i),
         Launches(c) \/ stage \notin {"shortcut", "create"}
  PROVE  AllFollow
<1> DEFINE v == job[c][i]
           w == [v EXCEPT !.task = stage]
<1>1. v \in JobRecord /\ Accounted(v, Launches(c))
  BY DEF JobsTyped, LaunchInv
<1>2. w \in JobRecord
  BY <1>1 DEF JobRecord, Tasks
<1>3. v.told # "none" => ~Launches(c)
  BY <1>1 DEF Accounted, Live, EnsureActive
<1>4. Follows(v, w, Launches(c))
  BY <1>1, <1>3 DEF JobRecord, Follows, Accounted, Live
<1>5. QED
  BY <1>2, <1>4, OneFollows

\* A thread that returns, with a process created for it or none.
LEMMA ReturnFollows ==
  ASSUME JobsTyped, LaunchInv, NEW c \in Commands, NEW i \in Indices,
         NEW w \in JobRecord, SetJob(c, i, w), Live(job[c][i].task),
         w.task = "ended", w.wait = job[c][i].wait, w.told = job[c][i].told,
         w.starts \in {job[c][i].starts, job[c][i].starts + 1},
         w.wait = "awaited" =>
           (w.result = "started" <=> w.starts = job[c][i].starts + 1)
  PROVE  AllFollow
<1> DEFINE v == job[c][i]
<1>1. Accounted(v, Launches(c))
  BY DEF LaunchInv
<1>2. v.starts = 0 /\ v.told \notin {"started", "not_sent", "refused"}
  BY <1>1 DEF Accounted, Live
<1>3. v.wait \notin {"todo", "queued"}
  BY <1>1 DEF Accounted, Live
<1>4. Accounted(w, Launches(c))
  BY <1>1, <1>2, <1>3 DEF Accounted, Live
<1>5. Follows(v, w, Launches(c))
  BY <1>4 DEF Follows
<1>6. QED
  BY <1>5, OneFollows

LEMMA EndsFollows ==
  ASSUME JobsTyped, LaunchInv, NEW c \in Commands, NEW i \in Indices,
         NEW result \in {"refused", "started", "prepared"},
         TaskEnds(c, i, result), Live(job[c][i].task)
  PROVE  AllFollow
<1> DEFINE v == job[c][i]
           heard == Heard(c, i, result)
           starts == IF result = "started" THEN v.starts + 1 ELSE v.starts
           w == [v EXCEPT !.task = "ended", !.result = heard, !.starts = starts]
<1>1. v \in JobRecord
  BY DEF JobsTyped
<1>2. SetJob(c, i, w)
  BY DEF TaskEnds
<1>3. heard \in {"none", result} /\ (v.wait = "awaited" => heard = result)
  BY DEF Heard
<1>4. v.starts \in Nat
  BY <1>1 DEF JobRecord
<1>5. /\ starts \in {v.starts, v.starts + 1} /\ starts \in Nat
      /\ starts = v.starts + 1 <=> result = "started"
  BY <1>4
<1> HIDE DEF v, heard, starts
<1>6. /\ w \in JobRecord /\ w.task = "ended" /\ w.wait = v.wait /\ w.told = v.told
      /\ w.starts = starts /\ w.result = heard
  BY <1>1, <1>3, <1>5 DEF JobRecord, Tasks, Results
<1> HIDE DEF w
<1>7. QED
  BY <1>2, <1>3, <1>5, <1>6, ReturnFollows DEF v

LEMMA ExtractedFollows ==
  ASSUME JobsTyped, LaunchInv, NEW c \in Commands, NEW i \in Indices,
         TaskExtracted(c, i)
  PROVE  AllFollow
<1>1. PICK result \in {"prepared", "refused"} :
        SetJob(c, i, [job[c][i] EXCEPT !.task = "ended",
                                       !.result = Heard(c, i, result)])
  BY DEF TaskExtracted, Extracted
<1> DEFINE v == job[c][i]
           heard == Heard(c, i, result)
           w == [v EXCEPT !.task = "ended", !.result = heard]
<1>2. v \in JobRecord
  BY DEF JobsTyped
<1>3. SetJob(c, i, w) /\ Live(v.task)
  BY <1>1 DEF TaskExtracted, Live
<1>4. heard \in {"none", "prepared", "refused"}
  BY DEF Heard
<1>5. v.starts \in Nat
  BY <1>2 DEF JobRecord
<1> HIDE DEF v, heard
<1>6. /\ w \in JobRecord /\ w.task = "ended" /\ w.wait = v.wait /\ w.told = v.told
      /\ w.starts = v.starts /\ w.result = heard
  BY <1>2, <1>4 DEF JobRecord, Tasks, Results
<1> HIDE DEF w
<1>7. QED
  BY <1>3, <1>4, <1>5, <1>6, ReturnFollows DEF v

LEMMA ThreadFollows ==
  ASSUME JobsTyped, LaunchInv, NEW c \in Commands, NEW i \in Indices, TaskStep(c, i)
  PROVE  AllFollow
<1>1. CASE TaskResolves(c, i)
  BY <1>1, EndsFollows, ProceedFollows DEF TaskResolves, Proceed, MayGoOn, Live
<1>2. CASE TaskResolved(c, i)
  BY <1>2, EndsFollows, ProceedFollows DEF TaskResolved, Proceed, MayGoOn, Live
<1>3. CASE TaskReadsShortcut(c, i)
  <2>1. Launches(c)
    BY <1>3 DEF TaskReadsShortcut, LaunchInv, Accounted
  <2>2. QED
    BY <1>3, <2>1, EndsFollows, ProceedFollows
    DEF TaskReadsShortcut, Proceed, MayGoOn, Live
<1>4. CASE TaskCreates(c, i)
  BY <1>4, EndsFollows DEF TaskCreates, Live
<1>5. QED
  BY <1>1, <1>2, <1>3, <1>4, ExtractedFollows DEF TaskStep

\* A command that ends, or goes, cancels the launches it waited for.
LEMMA LeavingFollows ==
  ASSUME JobsTyped, LaunchInv, NEW c \in Commands,
         job' = [job EXCEPT ![c] = [i \in Indices |-> Left(c, i)]]
  PROVE  AllFollow
<1>1. ASSUME NEW i \in Indices PROVE Follows(job[c][i], Left(c, i), Launches(c))
  <2> DEFINE v == job[c][i]
             w == Left(c, i)
  <2>1. v \in JobRecord /\ Accounted(v, Launches(c))
    BY DEF JobsTyped, LaunchInv
  <2>2. i \in InFlight(c) => v.wait \in {"queued", "awaited"}
    BY DEF InFlight
  <2>3. /\ w.task = v.task /\ w.starts = v.starts
        /\ \/ w = v /\ Launches(c)
           \/ /\ w.wait = "settled" /\ w.told = "dropped"
              /\ Launches(c) => v.wait \in {"queued", "awaited"} /\ w.late
    <3> HIDE DEF v
    <3>1. CASE i \in InFlight(c)
      BY <2>1, <2>2, <3>1 DEF Left, JobRecord, v
    <3>2. CASE i \notin InFlight(c) /\ Launches(c)
      <4>1. w = v
        BY <3>2, Zenon DEF Left, v
      <4>2. QED
        BY <3>2, <4>1
    <3>3. CASE i \notin InFlight(c) /\ ~Launches(c)
      <4>1. w = [v EXCEPT !.wait = "settled", !.told = "dropped"]
        BY <3>3, Zenon DEF Left, v
      <4> HIDE DEF w
      <4>2. QED
        BY <2>1, <3>3, <4>1 DEF JobRecord
    <3>4. QED
      BY <3>1, <3>2, <3>3
  <2> HIDE DEF v, w
  <2>4. Accounted(w, Launches(c))
    BY <2>1, <2>3 DEF Accounted, Live
  <2>5. Follows(v, w, Launches(c))
    BY <2>3, <2>4 DEF Follows
  <2>6. QED
    BY <2>5 DEF v, w
<1>2. ASSUME NEW d \in Commands, NEW i \in Indices
      PROVE  Follows(job[d][i], job'[d][i], Launches(d))
  <2>1. CASE d = c
    BY <1>1, <2>1 DEF JobsTyped
  <2>2. CASE d # c
    <3>1. job'[d][i] = job[d][i]
      BY <2>2 DEF JobsTyped
    <3>2. Accounted(job[d][i], Launches(d))
      BY DEF LaunchInv
    <3>3. QED
      BY <3>1, <3>2 DEF Follows, Accounted
  <2>3. QED
    BY <2>1, <2>2
<1>3. QED
  BY <1>2 DEF AllFollow

LEMMA StepFollows ==
  ASSUME JobsTyped, LaunchInv, [Next]_vars
  PROVE  AllFollow
<1>1. CASE UNCHANGED job
  BY <1>1, NoneFollows
<1>2. ASSUME NEW c \in Commands, NEW i \in Indices, TaskStep(c, i) PROVE AllFollow
  BY <1>2, ThreadFollows
<1>3. ASSUME NEW c \in Commands, CommandStep(c) PROVE AllFollow
  BY <1>1, <1>3, TellingFollows, LeavingFollows
  DEF CommandStep, BeginCommand, EndCommand, CommandDropped
<1>4. QED
  BY <1>1, <1>2, <1>3 DEF Next, vars, launcherVars

LEMMA PlanStays == [Next]_vars => plan' = plan
<1>1. ASSUME NEW c \in Commands, CommandStep(c) PROVE plan' = plan
  BY <1>1 DEF CommandStep, BeginCommand, EndCommand, CommandDropped, NextItem,
              AcquirePermit, AcquireTimesOut, DeadlineOfJob, JobTimesOut, JobReturns
<1>2. ASSUME NEW c \in Commands, NEW i \in Indices, TaskStep(c, i)
      PROVE  plan' = plan
  <2>1. (\E result \in {"refused", "started"} : TaskEnds(c, i, result)) => plan' = plan
    BY DEF TaskEnds
  <2>2. (\E stage \in {"resolve", "shortcut", "create"} : Proceed(c, i, stage))
          => plan' = plan
    BY DEF Proceed
  <2>3. CASE TaskResolves(c, i) \/ TaskReadsShortcut(c, i) \/ TaskCreates(c, i)
    BY <2>1, <2>2, <2>3 DEF TaskResolves, TaskReadsShortcut, TaskCreates
  <2>4. CASE TaskResolved(c, i)
    BY <2>1, <2>2, <2>4 DEF TaskResolved
  <2>5. CASE TaskExtracted(c, i)
    BY <2>5 DEF TaskExtracted
  <2>6. QED
    BY <1>2, <2>3, <2>4, <2>5 DEF TaskStep
<1>3. QED
  BY <1>1, <1>2 DEF Next, vars, launcherVars

\* What launcher_launch and launcher_launch_all tell of an item is so, then and
\* later: a process was created, or none was, or it is uncertain and at most one
\* is; and an item that was still being looked up when the user was told starts
\* nothing, since its thread looks at its LaunchContext again before it goes on.
THEOREM LaunchesAreAccounted == Spec => LaunchAccounted
<1> DEFINE Inv == PoolInv /\ LaunchInv
           Honest == \A r \in Runs :
             LET before == job[r[1]][r[2]]
                 after == job'[r[1]][r[2]]
             IN  /\ after.starts <= 1
                 /\ after.told = "started" => after.starts = 1
                 /\ after.told \in {"not_sent", "refused"} => after.starts = 0
                 /\ before.told # "none" /\ before.task \notin {"create", "ended"}
                      => after.task # "create"
<1>1. Init => LaunchInv
  BY DEF Init, LaunchInv, Accounted, NoJob, Live
<1>2. LaunchInv /\ PoolInv /\ [Next]_vars /\ plan' = plan => LaunchInv' /\ Honest
  <2>1. SUFFICES ASSUME LaunchInv, PoolInv, [Next]_vars, plan' = plan
                 PROVE  LaunchInv' /\ Honest
    OBVIOUS
  <2>2. AllFollow
    BY <2>1, StepFollows DEF PoolInv
  <2>3. \A c \in Commands : Launches(c)' = Launches(c)
    BY <2>1 DEF Launches
  <2>4. LaunchInv'
    BY <2>2, <2>3 DEF AllFollow, Follows, LaunchInv
  <2>5. ASSUME NEW r \in Runs
        PROVE  Follows(job[r[1]][r[2]], job'[r[1]][r[2]], Launches(r[1]))
    BY <2>2, RunsAreItems DEF AllFollow
  <2>6. QED
    BY <2>4, <2>5 DEF Follows, Accounted
<1>3. [Next]_vars => plan' = plan
  BY PlanStays
<1>4. LaunchInv /\ PoolInv /\ [Next]_vars => LaunchInv' /\ [Honest]_vars
  BY <1>2, <1>3
<1>5. QED
  BY <1>1, <1>4, PoolInvariant, PTL DEF Spec, LaunchAccounted
=============================================================================
