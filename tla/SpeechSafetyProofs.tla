------------------------- MODULE SpeechSafetyProofs -------------------------
(***************************************************************************)
(* IInv of SpeechQueue is inductive, for every set of tasks, every limit   *)
(* and every number of ids.  Its types come first; its other parts and the *)
(* properties about silence follow.                                        *)
(***************************************************************************)
EXTENDS SpeechQueue, FiniteSetTheorems, SequenceTheorems, TLAPS

-----------------------------------------------------------------------------
(***************************************************************************)
(* Lemmas about the two sequences.                                         *)
(***************************************************************************)

\* Skipping an item leaves it an item with the same id.
LEMMA SkippedType ==
  ASSUME NEW item \in Item
  PROVE  Skipped(item) \in Item /\ Skipped(item).id = item.id
BY DEF Skipped, Item, Statuses

\* Cutting a sequence of items at the history limit leaves such a sequence.
LEMMA TruncatedType ==
  ASSUME NEW entries \in Seq(Item)
  PROVE  Truncated(entries) \in Seq(Item)
BY SpeechItemsAssumption DEF Truncated

\* An item put in front of a sequence of items.
LEMMA PrependType ==
  ASSUME NEW items \in Seq(Item), NEW item \in Item
  PROVE  /\ <<item>> \o items \in Seq(Item)
         /\ Len(<<item>> \o items) = Len(items) + 1
         /\ (<<item>> \o items)[1] = item
         /\ \A k \in 2..(Len(items) + 1) : (<<item>> \o items)[k] = items[k - 1]
OBVIOUS

\* push_history keeps the history a sequence of items.
LEMMA PushHistoryType ==
  ASSUME NEW entries \in Seq(Item), NEW item \in Item
  PROVE  PushHistory(entries, item) \in Seq(Item)
BY PrependType, TruncatedType DEF PushHistory

\* Skipping a whole sequence keeps it a sequence of items.
LEMMA AllSkippedType ==
  ASSUME NEW items \in Seq(Item)
  PROVE  AllSkipped(items) \in Seq(Item)
BY SkippedType DEF AllSkipped

\* Pushing a whole sequence keeps the history a sequence of items.
LEMMA PushAllType ==
  ASSUME NEW entries \in Seq(Item), NEW items \in Seq(Item)
  PROVE  PushAll(entries, items) \in Seq(Item)
<1>1. Reverse(items) \in Seq(Item)
  BY DEF Reverse
<1>2. Reverse(items) \o entries \in Seq(Item)
  BY <1>1
<1> QED
  BY <1>2, TruncatedType DEF PushAll

\* Removing a position keeps a sequence of items, and every element of the
\* shorter sequence is one of the longer, at the same place or one later.
LEMMA RemoveAtType ==
  ASSUME NEW items \in Seq(Item), NEW k \in 1..Len(items)
  PROVE  /\ RemoveAt(items, k) \in Seq(Item)
         /\ Len(RemoveAt(items, k)) = Len(items) - 1
         /\ \A j \in 1..Len(RemoveAt(items, k)) :
              RemoveAt(items, k)[j] = IF j < k THEN items[j] ELSE items[j + 1]
<1> DEFINE left == SubSeq(items, 1, k - 1)
           right == SubSeq(items, k + 1, Len(items))
<1>1. /\ left \in Seq(Item) /\ Len(left) = k - 1
      /\ \A j \in 1..(k - 1) : left[j] = items[j]
  OBVIOUS
<1>2. /\ right \in Seq(Item) /\ Len(right) = Len(items) - k
      /\ \A j \in 1..(Len(items) - k) : right[j] = items[k + j]
  OBVIOUS
<1>3. RemoveAt(items, k) = left \o right
  BY DEF RemoveAt
<1> HIDE DEF left, right
<1>4. /\ left \o right \in Seq(Item)
      /\ Len(left \o right) = Len(items) - 1
      /\ \A j \in 1..(Len(items) - 1) :
           (left \o right)[j] = IF j <= k - 1 THEN left[j] ELSE right[j - (k - 1)]
  <2>1. k \in Nat /\ Len(items) \in Nat
    OBVIOUS
  <2>2. /\ left \o right \in Seq(Item)
        /\ Len(left \o right) = Len(left) + Len(right)
        /\ \A j \in 1..(Len(left) + Len(right)) : (left \o right)[j] =
             IF j <= Len(left) THEN left[j] ELSE right[j - Len(left)]
    BY <1>1, <1>2, ConcatProperties, Zenon
  <2>3. Len(left) = k - 1 /\ Len(left) + Len(right) = Len(items) - 1
    BY <1>1, <1>2, <2>1
  <2> HIDE DEF left, right
  <2> QED
    BY <2>2, <2>3
<1>5. ASSUME NEW j \in 1..(Len(items) - 1)
      PROVE  (left \o right)[j] = IF j < k THEN items[j] ELSE items[j + 1]
  <2>1. CASE j < k
    BY <2>1, <1>1, <1>4
  <2>2. CASE ~(j < k)
    <3>1. j - (k - 1) \in 1..(Len(items) - k) /\ ~(j <= k - 1)
      BY <2>2
    <3>2. right[j - (k - 1)] = items[k + (j - (k - 1))]
      BY <1>2, <3>1
    <3>3. k + (j - (k - 1)) = j + 1
      OBVIOUS
    <3> QED
      BY <2>2, <3>1, <3>2, <3>3, <1>4
  <2> QED
    BY <2>1, <2>2
<1> QED
  BY <1>3, <1>4, <1>5

\* A fresh item is an item.
LEMMA NewItemType ==
  ASSUME NEW id \in Ids, NEW status \in Statuses
  PROVE  /\ NewItem(id, status) \in Item
         /\ NewItem(id, status).id = id
         /\ NewItem(id, status).delivery = "ready"
BY DEF NewItem, Item, DeliveryStates

\* None is not an item.
LEMMA NoItemIsNone == NoItem \notin Item /\ NoItem.id = 0
BY DEF NoItem, Item, Ids

-----------------------------------------------------------------------------
(***************************************************************************)
(* Type correctness.  That controlsInProgress never falls below zero needs *)
(* ControlsCounted, and that what a destination takes and what is settled  *)
(* are items needs RequestInv, so the three are proved together.           *)
(***************************************************************************)
TypeInv == TypeOK /\ ControlsCounted /\ RequestInv

\* Claiming the worker changes is_processing and the program counters only.
LEMMA ClaimType ==
  ASSUME TypeOK, ClaimWorker
  PROVE  /\ isProcessing' \in BOOLEAN
         /\ wpc' \in [Workers -> WorkerPc]
BY DEF TypeOK, ClaimWorker, Spawn, SpawnNothing, WorkerPc

\* The set of controls under way is finite, and its size is a number.
LEMMA BusyControls ==
  ASSUME NEW S, S \subseteq Controls
  PROVE  IsFiniteSet(S) /\ Cardinality(S) \in Nat
BY SpeechQueueAssumption, FS_Subset, FS_CardinalityType

\* A claim moves a task from "idle" to "next", and neither has a request.
LEMMA ClaimRequest ==
  ASSUME TypeOK, RequestInv, ClaimWorker, request' = request
  PROVE  RequestInv'
BY DEF RequestInv, TypeOK, ClaimWorker, Spawn, SpawnNothing

\* The operations of the chat and of the user keep the types.
LEMMA QueueStepType ==
  ASSUME TypeInv, QueueStep
  PROVE  TypeInv'
<1> USE DEF TypeInv
<1>0. ControlsCounted'
  <2>1. controlsInProgress' = controlsInProgress /\ cpc' = cpc
    BY DEF QueueStep, EnqueueRejected, EnqueueAccepted, RemoveItem,
           DismissHistoryItem, DismissHistory, RetryExhaustedItem, controlVars
  <2> QED
    BY <2>1 DEF ControlsCounted
<1>7. RequestInv'
  <2>1. CASE ClaimWorker /\ request' = request
    BY <2>1, ClaimRequest
  <2>2. CASE wpc' = wpc /\ request' = request
    BY <2>2 DEF RequestInv
  <2> QED
    BY <2>1, <2>2 DEF QueueStep, EnqueueRejected, EnqueueAccepted, RemoveItem,
      DismissHistoryItem, DismissHistory, RetryExhaustedItem, workerVars
<1>1. ASSUME NEW status \in {"skipped", "blocked"}, EnqueueRejected(status)
      PROVE  TypeOK'
  <2>1. nextId \in Ids
    BY <1>1 DEF EnqueueRejected, TypeOK, Ids
  <2>2. history' \in Seq(Item)
    BY <1>1, <2>1, NewItemType, PushHistoryType
    DEF EnqueueRejected, TypeOK, Statuses
  <2> QED
    BY <1>1, <2>2, SpeechItemsAssumption
    DEF EnqueueRejected, TypeOK, runtimeVars, workerVars, controlVars,
        destinationVars, askVars
<1>2. ASSUME EnqueueAccepted PROVE TypeOK'
  <2> DEFINE dropped == Overflow(Len(pending), InFlightCount(inFlight))
             kept == SubSeq(pending, dropped + 1, Len(pending))
             gone == SubSeq(pending, 1, dropped)
  <2>1. nextId \in Ids
    BY <1>2 DEF EnqueueAccepted, TypeOK, Ids
  <2>2. dropped \in 0..Len(pending)
    BY SpeechItemsAssumption DEF Overflow, InFlightCount, TypeOK
  <2>3. kept \in Seq(Item) /\ gone \in Seq(Item)
    BY <2>2 DEF TypeOK
  <2>4. history' = PushAll(history, AllSkipped(gone))
        /\ pending' = Append(kept, NewItem(nextId, "queued"))
    BY <1>2 DEF EnqueueAccepted
  <2> HIDE DEF kept, gone, dropped
  <2>5. history' \in Seq(Item)
    BY <2>3, <2>4, AllSkippedType, PushAllType DEF TypeOK
  <2>6. pending' \in Seq(Item)
    BY <2>1, <2>3, <2>4, NewItemType DEF Statuses
  <2>7. isProcessing' \in BOOLEAN /\ wpc' \in [Workers -> WorkerPc]
    BY <1>2, ClaimType DEF EnqueueAccepted
  <2>8. asked' \in [Ids -> Nat] /\ nextId' \in 1..(MaxId + 1)
    BY <1>2, <2>1, SpeechItemsAssumption, SMTT(30) DEF EnqueueAccepted, TypeOK, Ids
  <2>9. UNCHANGED <<inFlight, paused, controlsInProgress, dispatcher, active,
                    configured, request, adapter, result, cpc, command, target,
                    sounding, wire, accepted, unconfirmed, tries, lastStarted>>
    BY <1>2 DEF EnqueueAccepted, runtimeVars, controlVars, destinationVars
  <2> QED
    BY <2>5, <2>6, <2>7, <2>8, <2>9 DEF TypeOK
<1>3. ASSUME NEW i \in Ids, RemoveItem(i)
      PROVE  TypeOK'
  <2>1. CASE inFlight.id = i
    <3>1. inFlight \in Item
      BY <2>1, NoItemIsNone DEF TypeOK, Ids
    <3>2. history' \in Seq(Item) /\ inFlight' = NoItem /\ pending' = pending
      BY <1>3, <2>1, <3>1, SkippedType, PushHistoryType
      DEF RemoveItem, CancelInFlight, TypeOK
    <3> QED
      BY <1>3, <3>2
      DEF RemoveItem, TypeOK, runtimeVars, workerVars, controlVars,
          destinationVars, askVars
  <2>2. CASE inFlight.id # i
    <3>1. PICK k \in 1..Len(pending) :
            /\ pending' = RemoveAt(pending, k)
            /\ history' = PushHistory(history, Skipped(pending[k]))
      BY <1>3, <2>2 DEF RemoveItem
    <3>2. pending' \in Seq(Item)
      BY <3>1, RemoveAtType DEF TypeOK
    <3>3. history' \in Seq(Item)
      <4>1. pending[k] \in Item
        BY DEF TypeOK
      <4> QED
        BY <3>1, <4>1, SkippedType, PushHistoryType DEF TypeOK
    <3>4. UNCHANGED <<inFlight, nextId, isProcessing, paused,
                      controlsInProgress, runtimeVars, workerVars, controlVars,
                      destinationVars, askVars>>
      BY <1>3, <2>2 DEF RemoveItem
    <3> QED
      BY <3>2, <3>3, <3>4
      DEF TypeOK, runtimeVars, workerVars, controlVars, destinationVars, askVars
  <2> QED
    BY <2>1, <2>2
<1>4. ASSUME NEW i \in Ids, DismissHistoryItem(i)
      PROVE  TypeOK'
  <2>1. history' \in Seq(Item)
    BY <1>4, RemoveAtType DEF DismissHistoryItem, TypeOK
  <2> QED
    BY <1>4, <2>1
    DEF DismissHistoryItem, TypeOK, runtimeVars, workerVars, controlVars,
        destinationVars, askVars
<1>5. ASSUME DismissHistory PROVE TypeOK'
  BY <1>5
  DEF DismissHistory, TypeOK, runtimeVars, workerVars, controlVars,
      destinationVars, askVars
<1>6. ASSUME NEW i \in Ids, RetryExhaustedItem(i)
      PROVE  TypeOK'
  <2>1. history' \in Seq(Item)
    BY <1>6, RemoveAtType DEF RetryExhaustedItem, TypeOK
  <2>2. pending' \in Seq(Item)
    BY <1>6, NewItemType DEF RetryExhaustedItem, TypeOK, Statuses
  <2>3. isProcessing' \in BOOLEAN /\ wpc' \in [Workers -> WorkerPc]
    BY <1>6, ClaimType DEF RetryExhaustedItem
  <2>4. /\ asked' \in [Ids -> Nat] /\ tries' \in [Ids -> Nat]
        /\ accepted' \in [Ids -> Nat]
    BY <1>6, SMTT(30) DEF RetryExhaustedItem, TypeOK
  <2>5. UNCHANGED <<inFlight, nextId, paused, controlsInProgress, dispatcher,
                    active, configured, request, adapter, result, cpc, command,
                    target, sounding, wire, unconfirmed, lastStarted>>
    BY <1>6 DEF RetryExhaustedItem, runtimeVars, controlVars
  <2> QED
    BY <2>1, <2>2, <2>3, <2>4, <2>5 DEF TypeOK
<1> QED
  BY <1>0, <1>1, <1>2, <1>3, <1>4, <1>5, <1>6, <1>7 DEF QueueStep

\* The head and the rest of a sequence of items that is not empty.
LEMMA HeadTailType ==
  ASSUME NEW items \in Seq(Item), items # <<>>
  PROVE  /\ Head(items) \in Item /\ Head(items) = items[1]
         /\ Tail(items) \in Seq(Item)
         /\ Len(items) >= 1 /\ Len(Tail(items)) = Len(items) - 1
         /\ \A k \in 1..(Len(items) - 1) : Tail(items)[k] = items[k + 1]
OBVIOUS

\* The last status of the item in flight leaves an item in history.
LEMMA ConcludeType ==
  ASSUME TypeOK, inFlight # NoItem,
         NEW status \in Statuses, NEW retryCount \in 0..1,
         NEW delivery \in DeliveryStates,
         Conclude(status, retryCount, delivery)
  PROVE  /\ history' \in Seq(Item) /\ inFlight' = NoItem /\ pending' = pending
<1>1. [inFlight EXCEPT !.status = status, !.retryCount = retryCount,
                       !.delivery = delivery] \in Item
  BY DEF TypeOK, Item
<1> QED
  BY <1>1, PushHistoryType DEF Conclude, TypeOK

\* What skip_current and clear_pending leave behind are items.
LEMMA AppliedType ==
  ASSUME TypeOK, NEW c \in Controls, ApplyControl(c)
  PROVE  /\ pending' \in Seq(Item) /\ history' \in Seq(Item)
         /\ inFlight' \in Item \cup {NoItem} /\ paused' \in BOOLEAN
<1>1. CASE command[c] \in {"pause", "resume"}
  BY <1>1 DEF ApplyControl, TypeOK
<1>2. CASE command[c] = "skip"
  <2>1. SkipCurrent /\ paused' = paused
    BY <1>2 DEF ApplyControl
  <2>2. CASE inFlight # NoItem /\ CancelInFlight /\ pending' = pending
    BY <2>1, <2>2, SkippedType, PushHistoryType DEF CancelInFlight, TypeOK
  <2>3. CASE /\ pending # <<>> /\ pending' = Tail(pending)
             /\ history' = PushHistory(history, Skipped(Head(pending)))
             /\ inFlight' = inFlight
    BY <2>1, <2>3, HeadTailType, SkippedType, PushHistoryType DEF TypeOK
  <2>4. CASE pending' = pending /\ inFlight' = inFlight /\ history' = history
    BY <2>1, <2>4 DEF TypeOK
  <2> QED
    BY <2>1, <2>2, <2>3, <2>4 DEF SkipCurrent
<1>3. CASE command[c] = "clear"
  <2> DEFINE current == IF inFlight = NoItem THEN <<>> ELSE <<inFlight>>
  <2>1. ClearPending /\ paused' = paused
    BY <1>3 DEF ApplyControl
  <2>2. current \in Seq(Item)
    BY DEF TypeOK
  <2>3. current \o pending \in Seq(Item)
    BY <2>2 DEF TypeOK
  <2>4. history' = PushAll(history, AllSkipped(current \o pending))
    BY <2>1 DEF ClearPending
  <2> HIDE DEF current
  <2>5. history' \in Seq(Item)
    BY <2>3, <2>4, AllSkippedType, PushAllType DEF TypeOK
  <2>6. inFlight' = NoItem /\ pending' \in Seq(Item)
    BY <2>1 DEF ClearPending
  <2> QED
    BY <2>1, <2>5, <2>6 DEF TypeOK
<1> QED
  BY <1>1, <1>2, <1>3 DEF ApplyControl

\* Making the front item ready keeps a sequence of items.
LEMMA ActivatedType ==
  ASSUME NEW items \in Seq(Item), NEW id \in Nat
  PROVE  /\ Activated(items, id) \in Seq(Item)
         /\ Len(Activated(items, id)) = Len(items)
         /\ \A k \in 1..Len(items) :
              /\ Activated(items, id)[k].id = items[k].id
              /\ k # 1 => Activated(items, id)[k] = items[k]
<1>1. CASE /\ items # <<>> /\ Head(items).id = id
           /\ Head(items).delivery = "retryScheduled"
  <2>1. Activated(items, id) = [items EXCEPT ![1].delivery = "ready"]
    BY <1>1 DEF Activated
  <2>2. 1 \in 1..Len(items) /\ items[1] \in Item
    BY <1>1
  <2>3. [items[1] EXCEPT !.delivery = "ready"] \in Item
    BY <2>2 DEF Item, DeliveryStates
  <2> QED
    BY <2>1, <2>2, <2>3
<1>2. CASE ~(/\ items # <<>> /\ Head(items).id = id
             /\ Head(items).delivery = "retryScheduled")
  BY <1>2 DEF Activated
<1> QED
  BY <1>1, <1>2

\* The steps of a worker leave the controls and their barrier alone.
LEMMA WorkerStepCounted ==
  ASSUME ControlsCounted, NEW w \in Workers, WorkerStep(w)
  PROVE  ControlsCounted'
<1>1. cpc' = cpc /\ controlsInProgress' = controlsInProgress
  BY DEF WorkerStep, WorkerFindsControl, WorkerPassesBarrier, WorkerStops,
         WorkerReserves, WorkerSelects, WorkerSelectFails, SpeakAccepted,
         SpeakRefused, SpeakUncertain, PlaybackCompleted, PlaybackUnconfirmed,
         WorkerReconciles, SettleCompleted, SettleUnconfirmed, SettleWithRetry,
         SettleFailed, ActivateScheduledRetry, DropPlayback, controlVars, queueVars
<1> QED
  BY <1>1 DEF ControlsCounted

\* A worker that moves on keeps RequestInv when its new place and its request
\* agree.
LEMMA WorkerStepRequest ==
  ASSUME TypeOK, RequestInv, NEW w \in Workers, WorkerStep(w)
  PROVE  RequestInv'
<1> USE DEF workerVars
<1>1. PICK pc \in WorkerPc, id \in Nat :
        /\ wpc' = [wpc EXCEPT ![w] = pc]
        /\ request' = [request EXCEPT ![w] = id]
        /\ id = 0 <=> pc \in {"idle", "next", "barrier"}
  <2>1. CASE WorkerReserves(w)
    <3>1. Head(pending).id \in Ids
      BY <2>1, HeadTailType DEF WorkerReserves, MayReserve,
                                HasAutoProcessableItem, TypeOK, Item
    <3>2. Head(pending).id \in Nat /\ Head(pending).id # 0
      BY <3>1 DEF Ids
    <3>3. /\ wpc' = [wpc EXCEPT ![w] = "reserved"]
          /\ request' = [request EXCEPT ![w] = Head(pending).id]
      BY <2>1 DEF WorkerReserves
    <3> QED
      BY <3>2, <3>3 DEF WorkerPc
  <2>2. CASE DropPlayback(w)
    BY <2>2 DEF DropPlayback, WorkerPc
  <2>3. CASE request' = request /\ ~WorkerReserves(w) /\ ~DropPlayback(w)
    <3>1. request' = [request EXCEPT ![w] = request[w]] /\ request[w] \in Nat
      BY <2>3 DEF TypeOK, Ids
    <3>2. request[w] = 0 <=> wpc[w] \in {"idle", "next", "barrier"}
      BY DEF RequestInv
    <3> QED
      BY <2>3, <3>1, <3>2
      DEF WorkerStep, WorkerFindsControl, WorkerPassesBarrier, WorkerStops,
          WorkerSelects, WorkerSelectFails, SpeakAccepted, SpeakRefused,
          SpeakUncertain, PlaybackCompleted, PlaybackUnconfirmed,
          WorkerReconciles, SettleCompleted, SettleUnconfirmed,
          SettleWithRetry, SettleFailed, ActivateScheduledRetry, WorkerPc
  <2> QED
    BY <2>1, <2>2, <2>3
    DEF WorkerStep, WorkerFindsControl, WorkerPassesBarrier, WorkerStops,
        WorkerSelects, WorkerSelectFails, SpeakAccepted, SpeakRefused,
        SpeakUncertain, PlaybackCompleted, PlaybackUnconfirmed,
        WorkerReconciles, SettleCompleted, SettleUnconfirmed,
        SettleWithRetry, SettleFailed, ActivateScheduledRetry
<1> QED
  BY <1>1 DEF RequestInv, TypeOK

\* What a worker settles is an item, not None.
LEMMA SettledItem ==
  ASSUME TypeOK, RequestInv, NEW w \in Workers,
         wpc[w] = "settle", inFlight.id = request[w]
  PROVE  inFlight \in Item
BY NoItemIsNone DEF TypeOK, RequestInv, Ids

LEMMA WorkerStepType ==
  ASSUME TypeOK, RequestInv, NEW w \in Workers, WorkerStep(w)
  PROVE  TypeOK'
<1> USE DEF queueVars, runtimeVars, workerVars, controlVars, destinationVars, askVars
<1>1. ASSUME WorkerFindsControl(w) PROVE TypeOK'
  BY <1>1 DEF WorkerFindsControl, TypeOK, WorkerPc
<1>2. ASSUME WorkerPassesBarrier(w) PROVE TypeOK'
  BY <1>2 DEF WorkerPassesBarrier, TypeOK, WorkerPc
<1>3. ASSUME WorkerStops(w) PROVE TypeOK'
  BY <1>3 DEF WorkerStops, TypeOK, WorkerPc
<1>4. ASSUME WorkerReserves(w) PROVE TypeOK'
  <2>1. /\ Head(pending) \in Item /\ Tail(pending) \in Seq(Item)
        /\ Head(pending).id \in Ids
    BY <1>4, HeadTailType DEF WorkerReserves, MayReserve, HasAutoProcessableItem,
                              TypeOK, Item
  <2>2. inFlight' \in Item
    BY <1>4, <2>1 DEF WorkerReserves, Item, Statuses
  <2>3. /\ request' \in [Workers -> Ids \cup {0}] /\ tries' \in [Ids -> Nat]
        /\ lastStarted' \in Ids \cup {0} /\ wpc' \in [Workers -> WorkerPc]
    BY <1>4, <2>1, SMTT(30) DEF WorkerReserves, TypeOK, WorkerPc
  <2>4. /\ dispatcher' = w /\ pending' = Tail(pending)
        /\ UNCHANGED <<history, nextId, isProcessing, paused,
             controlsInProgress, active, configured, adapter, result,
             controlVars, destinationVars, asked>>
    BY <1>4 DEF WorkerReserves
  <2> QED
    BY <2>1, <2>2, <2>3, <2>4 DEF TypeOK
<1>5. ASSUME WorkerSelects(w) PROVE TypeOK'
  BY <1>5 DEF WorkerSelects, TypeOK, WorkerPc
<1>6. ASSUME WorkerSelectFails(w) PROVE TypeOK'
  BY <1>6 DEF WorkerSelectFails, TypeOK, WorkerPc, Results
<1>7. ASSUME Arrives(w), wpc[w] = "speaking"
      PROVE  sounding' \in [Adapters -> SUBSET Ids] /\ accepted' \in [Ids -> Nat]
  <2>1. request[w] \in Ids
    BY <1>7 DEF RequestInv, TypeOK
  <2>2. sounding' \in [Adapters -> SUBSET Ids]
    BY <1>7, <2>1 DEF Arrives, TypeOK
  <2>3. accepted' \in [Ids -> Nat]
    BY <1>7, <2>1 DEF Arrives, TypeOK
  <2> QED
    BY <2>2, <2>3
<1>8. ASSUME SpeakAccepted(w) PROVE TypeOK'
  BY <1>7, <1>8 DEF SpeakAccepted, TypeOK, WorkerPc
<1>9. ASSUME SpeakRefused(w) PROVE TypeOK'
  BY <1>9 DEF SpeakRefused, TypeOK, WorkerPc, Results
<1>10. ASSUME SpeakUncertain(w) PROVE TypeOK'
  <2>1. request[w] \in Ids
    BY <1>10 DEF SpeakUncertain, RequestInv, TypeOK
  <2>2. unconfirmed' \in SUBSET Ids
    BY <1>10, <2>1 DEF SpeakUncertain, TypeOK
  <2> QED
    BY <1>7, <1>10, <2>2
    DEF SpeakUncertain, TypeOK, WorkerPc, Results, WriteFailure
<1>11. ASSUME PlaybackCompleted(w) PROVE TypeOK'
  BY <1>11 DEF PlaybackCompleted, TypeOK, WorkerPc, Results
<1>12. ASSUME PlaybackUnconfirmed(w) PROVE TypeOK'
  BY <1>12 DEF PlaybackUnconfirmed, TypeOK, WorkerPc, Results, Sounding
<1>13. ASSUME WorkerReconciles(w) PROVE TypeOK'
  BY <1>13 DEF WorkerReconciles, TypeOK, WorkerPc
<1>14. ASSUME SettleCompleted(w) PROVE TypeOK'
  <2>1. history' \in Seq(Item) /\ pending' = pending
        /\ inFlight' \in Item \cup {NoItem}
    <3>1. CASE inFlight.id = request[w]
      <4>1. inFlight \in Item
        BY <1>14, <3>1, SettledItem DEF SettleCompleted
      <4>2. Conclude("spoken", inFlight.retryCount, inFlight.delivery)
        BY <1>14, <3>1 DEF SettleCompleted
      <4> QED
        BY <4>1, <4>2, ConcludeType, NoItemIsNone
        DEF Item, Statuses, DeliveryStates
    <3>2. CASE inFlight.id # request[w]
      BY <1>14, <3>2 DEF SettleCompleted, TypeOK
    <3> QED
      BY <3>1, <3>2
  <2> QED
    BY <1>14, <2>1 DEF SettleCompleted, TypeOK, WorkerPc
<1>15. ASSUME SettleUnconfirmed(w) PROVE TypeOK'
  <2>1. history' \in Seq(Item) /\ pending' = pending
        /\ inFlight' \in Item \cup {NoItem}
    <3>1. CASE inFlight.id = request[w]
      <4>1. inFlight \in Item
        BY <1>15, <3>1, SettledItem DEF SettleUnconfirmed
      <4>2. Conclude("error", 1, "retryExhausted")
        BY <1>15, <3>1 DEF SettleUnconfirmed
      <4> QED
        BY <4>1, <4>2, ConcludeType, NoItemIsNone
        DEF Item, Statuses, DeliveryStates
    <3>2. CASE inFlight.id # request[w]
      BY <1>15, <3>2 DEF SettleUnconfirmed, TypeOK
    <3> QED
      BY <3>1, <3>2
  <2> QED
    BY <1>15, <2>1 DEF SettleUnconfirmed, TypeOK, WorkerPc
<1>16. ASSUME SettleWithRetry(w) PROVE TypeOK'
  <2>1. inFlight \in Item
    BY <1>16, SettledItem DEF SettleWithRetry
  <2>2. [inFlight EXCEPT !.status = "queued", !.retryCount = 1,
                         !.delivery = "retryScheduled"] \in Item
    <3>1. /\ "queued" \in Statuses /\ 1 \in 0..1
          /\ "retryScheduled" \in DeliveryStates
      BY DEF Statuses, DeliveryStates
    <3> QED
      BY <2>1, <3>1 DEF Item
  <2>3. pending' \in Seq(Item)
    BY <1>16, <2>2, PrependType DEF SettleWithRetry, Requeued, TypeOK
  <2> QED
    BY <1>16, <2>3 DEF SettleWithRetry, TypeOK, WorkerPc
<1>17. ASSUME SettleFailed(w) PROVE TypeOK'
  <2>1. history' \in Seq(Item) /\ pending' = pending
        /\ inFlight' \in Item \cup {NoItem}
    <3>1. CASE inFlight.id = request[w]
      <4>1. inFlight \in Item
        BY <1>17, <3>1, SettledItem DEF SettleFailed
      <4>2. Conclude("error", inFlight.retryCount, "retryExhausted")
        BY <1>17, <3>1 DEF SettleFailed
      <4> QED
        BY <4>1, <4>2, ConcludeType, NoItemIsNone
        DEF Item, Statuses, DeliveryStates
    <3>2. CASE inFlight.id # request[w]
      BY <1>17, <3>2 DEF SettleFailed, TypeOK
    <3> QED
      BY <3>1, <3>2
  <2> QED
    BY <1>17, <2>1 DEF SettleFailed, TypeOK, WorkerPc
<1>18. ASSUME ActivateScheduledRetry(w) PROVE TypeOK'
  <2>1. request[w] \in Nat
    BY DEF TypeOK, Ids
  <2>2. pending' \in Seq(Item)
    BY <1>18, <2>1, ActivatedType DEF ActivateScheduledRetry, TypeOK
  <2> QED
    BY <1>18, <2>2 DEF ActivateScheduledRetry, TypeOK, WorkerPc
<1>19. ASSUME DropPlayback(w) PROVE TypeOK'
  BY <1>19 DEF DropPlayback, TypeOK, WorkerPc, Results
<1> QED
  BY <1>1, <1>2, <1>3, <1>4, <1>5, <1>6, <1>8, <1>9, <1>10, <1>11, <1>12, <1>13,
     <1>14, <1>15, <1>16, <1>17, <1>18, <1>19 DEF WorkerStep

-----------------------------------------------------------------------------
\* The steps of the controls keep the types: one that ends was counted, so the
\* barrier is above zero.
LEMMA ControlTypes ==
  ASSUME TypeInv, NEW c \in Controls,
         ControlStep(c) \/ \E cmd \in Commands : BeginControl(c, cmd)
  PROVE  TypeInv'
<1> USE DEF TypeInv
<1> DEFINE Busy == {d \in Controls : cpc[d] # "idle"}
<1>1. IsFiniteSet(Busy) /\ Cardinality(Busy) \in Nat
  BY BusyControls
<1>2. ASSUME EndControl, cpc[c] # "idle", cpc' = [cpc EXCEPT ![c] = "idle"]
      PROVE  ControlsCounted' /\ controlsInProgress' \in Nat
  <2>1. Busy' = Busy \ {c} /\ c \in Busy
    BY <1>2 DEF TypeOK
  <2>2. Cardinality(Busy \ {c}) = Cardinality(Busy) - 1
    BY <1>1, <2>1, FS_RemoveElement
  <2>3. Cardinality(Busy') \in Nat
    BY <2>1, BusyControls
  <2> QED
    BY <1>1, <1>2, <2>1, <2>2, <2>3 DEF EndControl, ControlsCounted
<1>3. ASSUME cpc[c] # "idle", controlsInProgress' = controlsInProgress,
             NEW pc \in ControlPc \ {"idle"}, cpc' = [cpc EXCEPT ![c] = pc]
      PROVE  ControlsCounted'
  <2>1. Busy' = Busy
    BY <1>3 DEF TypeOK
  <2> QED
    BY <1>3, <2>1 DEF ControlsCounted
<1>4. ASSUME wpc' = wpc, request' = request PROVE RequestInv'
  BY <1>4 DEF RequestInv
<1> USE DEF queueVars, runtimeVars, workerVars, controlVars, destinationVars, askVars
<1>5. ASSUME NEW cmd \in Commands, BeginControl(c, cmd) PROVE TypeInv'
  <2>1. Busy' = Busy \cup {c} /\ c \notin Busy
    BY <1>5 DEF BeginControl, TypeOK
  <2>2. Cardinality(Busy \cup {c}) = Cardinality(Busy) + 1
    BY <1>1, <2>1, FS_AddElement
  <2>3. ControlsCounted'
    BY <1>5, <2>1, <2>2 DEF BeginControl, ControlsCounted
  <2>4. TypeOK'
    BY <1>5 DEF BeginControl, TypeOK, ControlPc
  <2> QED
    BY <1>4, <1>5, <2>3, <2>4 DEF BeginControl
<1>6. ASSUME LockControl(c) PROVE TypeInv'
  <2>1. ControlTarget \in Adapters \cup {NoAdapter}
    BY DEF ControlTarget, TypeOK
  <2>2. TypeOK'
    BY <1>6, <2>1 DEF LockControl, TypeOK, ControlPc
  <2> QED
    BY <1>3, <1>4, <1>6, <2>2 DEF LockControl, ControlPc
<1>7. ASSUME LockControlFails(c) PROVE TypeInv'
  BY <1>3, <1>4, <1>7 DEF LockControlFails, TypeOK, ControlPc
<1>8. ASSUME RemoteControlSucceeds(c) PROVE TypeInv'
  BY <1>3, <1>4, <1>8 DEF RemoteControlSucceeds, TypeOK, ControlPc, WireAfter
<1>9. ASSUME RemoteControlFails(c) PROVE TypeInv'
  BY <1>3, <1>4, <1>9 DEF RemoteControlFails, TypeOK, ControlPc
<1>10. ASSUME ApplyControl(c) PROVE TypeInv'
  <2>1. ControlsCounted' /\ controlsInProgress' \in Nat
    BY <1>2, <1>10 DEF ApplyControl
  <2>2. /\ isProcessing' \in BOOLEAN /\ wpc' \in [Workers -> WorkerPc]
        /\ RequestInv'
    BY <1>4, <1>10, ClaimType, ClaimRequest DEF ApplyControl, SpawnNothing, TypeOK
  <2>3. /\ pending' \in Seq(Item) /\ history' \in Seq(Item)
        /\ inFlight' \in Item \cup {NoItem} /\ paused' \in BOOLEAN
    BY <1>10, AppliedType DEF ApplyControl
  <2>4. /\ cpc' \in [Controls -> ControlPc]
        /\ command' \in [Controls -> Commands \cup {"none"}]
        /\ target' \in [Controls -> Adapters \cup {NoAdapter}]
    BY <1>10 DEF ApplyControl, TypeOK, ControlPc
  <2>5. /\ dispatcher' = Free
        /\ UNCHANGED <<nextId, active, configured, request, adapter, result,
                       destinationVars, askVars>>
    BY <1>10 DEF ApplyControl
  <2> QED
    BY <2>1, <2>2, <2>3, <2>4, <2>5 DEF TypeOK
<1>11. ASSUME CancelControl(c) PROVE TypeInv'
  <2>1. ControlsCounted' /\ controlsInProgress' \in Nat
    BY <1>2, <1>11 DEF CancelControl
  <2>2. /\ isProcessing' \in BOOLEAN /\ wpc' \in [Workers -> WorkerPc]
        /\ RequestInv'
    BY <1>11, ClaimType, ClaimRequest DEF CancelControl
  <2>3. /\ cpc' \in [Controls -> ControlPc]
        /\ command' \in [Controls -> Commands \cup {"none"}]
        /\ target' \in [Controls -> Adapters \cup {NoAdapter}]
    BY <1>11 DEF CancelControl, TypeOK, ControlPc
  <2> QED
    BY <1>11, <2>1, <2>2, <2>3 DEF CancelControl, TypeOK
<1> QED
  BY <1>5, <1>6, <1>7, <1>8, <1>9, <1>10, <1>11 DEF ControlStep

\* Probes, settings and the destination keep the types.
LEMMA SurroundingStepType ==
  ASSUME TypeInv, SurroundingStep
  PROVE  TypeInv'
<1> USE DEF TypeInv, queueVars, runtimeVars, workerVars, controlVars,
            destinationVars, askVars
<1>1. ControlsCounted' /\ RequestInv'
  BY DEF SurroundingStep, ProbeLocks, ProbeUnlocks, SaveSettings, UtteranceEnds,
         ControlsCounted, RequestInv
<1>2. ASSUME NEW p \in Probes, ProbeLocks(p) \/ ProbeUnlocks(p) PROVE TypeOK'
  BY <1>2 DEF ProbeLocks, ProbeUnlocks, TypeOK
<1>3. ASSUME NEW a \in Adapters, SaveSettings(a) PROVE TypeOK'
  BY <1>3 DEF SaveSettings, TypeOK
<1>4. ASSUME NEW a \in Adapters, NEW i \in Ids, UtteranceEnds(a, i) PROVE TypeOK'
  BY <1>4 DEF UtteranceEnds, TypeOK
<1> QED
  BY <1>1, <1>2, <1>3, <1>4 DEF SurroundingStep

\* TypeInv holds initially.
LEMMA InitType == Init => TypeInv
<1> SUFFICES ASSUME Init PROVE TypeInv
  OBVIOUS
<1>1. {c \in Controls : cpc[c] # "idle"} = {}
  BY DEF Init
<1>2. ControlsCounted
  BY <1>1, FS_EmptySet DEF Init, ControlsCounted
<1>3. TypeOK
  <2>1. /\ pending \in Seq(Item) /\ history \in Seq(Item)
        /\ inFlight \in Item \cup {NoItem}
        /\ nextId \in 1..(MaxId + 1) /\ isProcessing \in BOOLEAN
        /\ paused \in BOOLEAN /\ controlsInProgress \in Nat
    <3>1. <<>> \in Seq(Item) /\ 1 \in 1..(MaxId + 1)
      BY SpeechItemsAssumption
    <3> QED
      BY <3>1 DEF Init
  <2>2. /\ dispatcher \in Workers \cup Controls \cup Probes \cup {Free}
        /\ active \in Workers \cup {Nobody} /\ configured \in Adapters
    BY DEF Init
  <2>3. /\ wpc \in [Workers -> WorkerPc]
        /\ request \in [Workers -> Ids \cup {0}]
        /\ adapter \in [Workers -> Adapters \cup {NoAdapter}]
        /\ result \in [Workers -> Results]
    BY DEF Init, WorkerPc, Results
  <2>4. /\ cpc \in [Controls -> ControlPc]
        /\ command \in [Controls -> Commands \cup {"none"}]
        /\ target \in [Controls -> Adapters \cup {NoAdapter}]
    BY DEF Init, ControlPc
  <2>5. /\ sounding \in [Adapters -> SUBSET Ids]
        /\ wire \in {"unknown", "paused", "running"}
        /\ accepted \in [Ids -> Nat] /\ asked \in [Ids -> Nat]
        /\ tries \in [Ids -> Nat] /\ unconfirmed \in SUBSET Ids
        /\ lastStarted \in Ids \cup {0}
    BY DEF Init
  <2> QED
    BY <2>1, <2>2, <2>3, <2>4, <2>5 DEF TypeOK
<1>4. RequestInv
  BY DEF Init, RequestInv
<1> QED
  BY <1>2, <1>3, <1>4 DEF TypeInv

\* Every step keeps TypeInv.
LEMMA NextType == TypeInv /\ [Next]_vars => TypeInv'
<1> SUFFICES ASSUME TypeInv, [Next]_vars PROVE TypeInv'
  OBVIOUS
<1>1. CASE QueueStep
  BY <1>1, QueueStepType
<1>2. ASSUME NEW w \in Workers, WorkerStep(w) PROVE TypeInv'
  BY <1>2, WorkerStepType, WorkerStepCounted, WorkerStepRequest DEF TypeInv
<1>3. ASSUME NEW c \in Controls,
             ControlStep(c) \/ \E cmd \in Commands : BeginControl(c, cmd)
      PROVE  TypeInv'
  BY <1>3, ControlTypes
<1>4. CASE SurroundingStep
  BY <1>4, SurroundingStepType
<1>5. CASE UNCHANGED vars
  BY <1>5 DEF TypeInv, TypeOK, ControlsCounted, RequestInv, vars, queueVars,
    runtimeVars, workerVars, controlVars, destinationVars, askVars
<1> QED
  BY <1>1, <1>2, <1>3, <1>4, <1>5 DEF Next

\* In every reachable state the variables have their types, the barrier counts
\* the controls under way and a task carries a request exactly when its place
\* in SpeechQueueWorker::run says so.
THEOREM TypeCorrect == Spec => [](TypeOK /\ ControlsCounted)
<1>1. Spec => []TypeInv
  BY InitType, NextType, PTL DEF Spec
<1>2. TypeInv => TypeOK /\ ControlsCounted
  BY DEF TypeInv
<1> QED
  BY <1>1, <1>2, PTL

-----------------------------------------------------------------------------
(***************************************************************************)
(* What the steps of each kind have in common.                             *)
(***************************************************************************)

\* The operations of the chat and of the user claim a worker or leave the
\* tasks alone, and touch neither lock nor controls.
LEMMA QueueStepFrame ==
  ASSUME QueueStep
  PROVE  /\ ClaimWorker \/ SpawnNothing
         /\ UNCHANGED <<paused, controlsInProgress, dispatcher, active,
                        configured, request, adapter, result, cpc, command,
                        target>>
BY DEF QueueStep, EnqueueRejected, EnqueueAccepted, RemoveItem,
       DismissHistoryItem, DismissHistory, RetryExhaustedItem, SpawnNothing,
       runtimeVars, workerVars, controlVars

\* Only the end of a control claims a worker.
LEMMA ControlStepFrame ==
  ASSUME NEW c \in Controls,
         ControlStep(c) \/ \E cmd \in Commands : BeginControl(c, cmd)
  PROVE  /\ ClaimWorker \/ SpawnNothing
         /\ UNCHANGED <<nextId, active, configured, request, adapter, result>>
BY DEF ControlStep, BeginControl, LockControl, LockControlFails,
       RemoteControlSucceeds, RemoteControlFails, ApplyControl, CancelControl,
       SpawnNothing, queueVars, runtimeVars, workerVars

\* Probes, settings and the destination leave queue, tasks and controls alone.
LEMMA SurroundingStepFrame ==
  ASSUME SurroundingStep
  PROVE  UNCHANGED <<queueVars, active, workerVars, controlVars>>
BY DEF SurroundingStep, ProbeLocks, ProbeUnlocks, SaveSettings, UtteranceEnds,
       runtimeVars

\* A step of a worker is a step of a running one, and moves this one only.
LEMMA WorkerStepFrame ==
  ASSUME TypeOK, NEW w \in Workers, WorkerStep(w)
  PROVE  /\ wpc[w] # "idle"
         /\ \E pc \in WorkerPc : wpc' = [wpc EXCEPT ![w] = pc]
         /\ \/ wpc'[w] = "idle" /\ isProcessing' = FALSE /\ WorkerStops(w)
            \/ wpc'[w] # "idle" /\ isProcessing' = isProcessing
         /\ UNCHANGED <<paused, controlsInProgress, cpc, command, target>>
         /\ \A v \in Workers \ {w} : request'[v] = request[v]
BY DEF TypeOK, WorkerStep, WorkerFindsControl, WorkerPassesBarrier, WorkerStops,
       WorkerReserves, WorkerSelects, WorkerSelectFails, SpeakAccepted,
       SpeakRefused, SpeakUncertain, PlaybackCompleted, PlaybackUnconfirmed,
       WorkerReconciles, SettleCompleted, SettleUnconfirmed, SettleWithRetry,
       SettleFailed, ActivateScheduledRetry, DropPlayback, WorkerPc,
       queueVars, runtimeVars, workerVars, controlVars

\* A claim lets at most one idle task run and moves no other.
LEMMA ClaimFrame ==
  ASSUME TypeOK, ClaimWorker \/ SpawnNothing, NEW w \in Workers
  PROVE  /\ wpc[w] # "idle" => wpc'[w] = wpc[w]
         /\ wpc[w] = "idle" => wpc'[w] \in {"idle", "next"}
BY DEF TypeOK, ClaimWorker, Spawn, SpawnNothing

-----------------------------------------------------------------------------
(***************************************************************************)
(* One worker at a time.                                                   *)
(***************************************************************************)

\* A claim starts a task only when none runs.
LEMMA ClaimSingle ==
  ASSUME TypeOK, SingleWorker, ClaimWorker \/ SpawnNothing
  PROVE  SingleWorker'
<1>1. CASE SpawnNothing
  BY <1>1 DEF SpawnNothing, SingleWorker, Running
<1>2. CASE ~isProcessing /\ Spawn
  BY <1>2 DEF Spawn, SingleWorker, Running, TypeOK
<1> QED
  BY <1>1, <1>2 DEF ClaimWorker

LEMMA NextSingle ==
  ASSUME TypeOK, SingleWorker, [Next]_vars
  PROVE  SingleWorker'
<1>1. CASE ClaimWorker \/ SpawnNothing
  BY <1>1, ClaimSingle
<1>2. ASSUME NEW w \in Workers, WorkerStep(w) PROVE SingleWorker'
  <2>1. /\ wpc[w] # "idle"
        /\ \A v \in Workers \ {w} : wpc'[v] = wpc[v]
        /\ \/ wpc'[w] = "idle" /\ isProcessing' = FALSE
           \/ wpc'[w] # "idle" /\ isProcessing' = isProcessing
    BY <1>2, WorkerStepFrame DEF TypeOK
  <2>2. /\ isProcessing = TRUE
        /\ \A v \in Workers \ {w} : wpc[v] = "idle"
    BY <2>1 DEF SingleWorker, Running, TypeOK
  <2> QED
    BY <2>1, <2>2 DEF SingleWorker, Running
<1>3. CASE UNCHANGED <<isProcessing, wpc>>
  BY <1>3 DEF SingleWorker, Running
<1> QED
  BY <1>1, <1>2, <1>3, QueueStepFrame, ControlStepFrame, SurroundingStepFrame
  DEF Next, vars, queueVars, workerVars

-----------------------------------------------------------------------------
(***************************************************************************)
(* The dispatch lock.                                                      *)
(***************************************************************************)
LEMMA NextLock ==
  ASSUME TypeOK, LockInv, [Next]_vars
  PROVE  LockInv'
<1> USE DEF queueVars, runtimeVars, workerVars, controlVars
<1>1. CASE QueueStep
  <2>1. UNCHANGED <<dispatcher, cpc>> /\ (ClaimWorker \/ SpawnNothing)
    BY <1>1, QueueStepFrame
  <2> QED
    BY <2>1, ClaimFrame DEF LockInv
<1>2. ASSUME NEW w \in Workers, WorkerStep(w) PROVE LockInv'
  <2>1. CASE WorkerReserves(w)
    BY <2>1, SpeechQueueAssumption DEF WorkerReserves, LockInv, TypeOK
  <2>2. CASE WorkerSelects(w)
    BY <2>2 DEF WorkerSelects, LockInv, TypeOK
  <2>3. CASE \/ WorkerSelectFails(w) \/ SpeakAccepted(w)
             \/ SpeakRefused(w) \/ SpeakUncertain(w)
    <3>1. /\ dispatcher = w /\ dispatcher' = Free /\ cpc' = cpc
          /\ \/ wpc' = [wpc EXCEPT ![w] = "reconcile"]
             \/ wpc' = [wpc EXCEPT ![w] = "playing"]
      BY <2>3 DEF WorkerSelectFails, SpeakAccepted, SpeakRefused,
                  SpeakUncertain, LockInv
    <3>2. \A v \in Workers \ {w} : wpc[v] \notin {"reserved", "speaking"}
      BY <3>1 DEF LockInv
    <3>3. \A v \in Workers : wpc'[v] \notin {"reserved", "speaking"}
      BY <3>1, <3>2 DEF TypeOK
    <3>4. \A d \in Controls : cpc'[d] \notin {"remote", "apply", "cancel"}
      BY <3>1, SpeechQueueAssumption DEF LockInv
    <3> QED
      BY <3>1, <3>3, <3>4, SpeechQueueAssumption DEF LockInv
  <2>4. CASE ~(\/ WorkerReserves(w) \/ WorkerSelects(w) \/ WorkerSelectFails(w)
               \/ SpeakAccepted(w) \/ SpeakRefused(w) \/ SpeakUncertain(w))
    <3>1. /\ dispatcher' = dispatcher /\ cpc' = cpc
          /\ wpc[w] \notin {"reserved", "speaking"}
          /\ \E pc \in WorkerPc \ {"reserved", "speaking"} :
               wpc' = [wpc EXCEPT ![w] = pc]
      BY <1>2, <2>4
      DEF WorkerStep, WorkerFindsControl, WorkerPassesBarrier, WorkerStops,
          PlaybackCompleted, PlaybackUnconfirmed, WorkerReconciles,
          SettleCompleted, SettleUnconfirmed, SettleWithRetry, SettleFailed,
          ActivateScheduledRetry, DropPlayback, WorkerPc
    <3> QED
      BY <3>1 DEF LockInv, TypeOK
  <2> QED
    BY <2>1, <2>2, <2>3, <2>4
<1>3. ASSUME NEW c \in Controls,
             ControlStep(c) \/ \E cmd \in Commands : BeginControl(c, cmd)
      PROVE  LockInv'
  <2>1. CASE LockControl(c)
    BY <2>1, SpeechQueueAssumption DEF LockControl, LockInv, TypeOK
  <2>2. CASE ApplyControl(c) \/ CancelControl(c)
    <3>1. /\ ClaimWorker \/ SpawnNothing
          /\ cpc' = [cpc EXCEPT ![c] = "idle"]
          /\ \/ dispatcher = c /\ dispatcher' = Free
             \/ /\ cpc[c] = "unselected" /\ dispatcher' = dispatcher
      BY <2>2, <1>3, ControlStepFrame DEF ApplyControl, CancelControl, LockInv
    <3>2. \A v \in Workers : wpc'[v] \in {"reserved", "speaking"} <=>
                              wpc[v] \in {"reserved", "speaking"}
      BY <3>1, ClaimFrame
    <3>3. CASE dispatcher = c /\ dispatcher' = Free
      <4>1. /\ \A v \in Workers : wpc'[v] \notin {"reserved", "speaking"}
            /\ \A d \in Controls : cpc'[d] \notin {"remote", "apply", "cancel"}
        BY <3>1, <3>2, <3>3, SpeechQueueAssumption DEF LockInv, TypeOK
      <4> QED
        BY <3>3, <4>1, SpeechQueueAssumption DEF LockInv
    <3>4. CASE cpc[c] = "unselected" /\ dispatcher' = dispatcher
      BY <3>1, <3>2, <3>4 DEF LockInv, TypeOK
    <3> QED
      BY <3>1, <3>3, <3>4
  <2>3. CASE ~(LockControl(c) \/ ApplyControl(c) \/ CancelControl(c))
    <3>1. /\ dispatcher' = dispatcher /\ wpc' = wpc
          /\ \E pc \in ControlPc :
               /\ cpc' = [cpc EXCEPT ![c] = pc]
               /\ cpc[c] \in {"remote", "apply", "cancel"} <=>
                  pc \in {"remote", "apply", "cancel"}
      BY <1>3, <2>3
      DEF ControlStep, BeginControl, LockControlFails, RemoteControlSucceeds,
          RemoteControlFails, ControlPc
    <3> QED
      BY <3>1 DEF LockInv, TypeOK
  <2> QED
    BY <2>1, <2>2, <2>3
<1>4. CASE SurroundingStep
  <2>1. wpc' = wpc /\ cpc' = cpc
    BY <1>4, SurroundingStepFrame
  <2>2. CASE dispatcher' = dispatcher
    BY <2>1, <2>2 DEF LockInv
  <2>3. CASE \E p \in Probes : ProbeLocks(p) \/ ProbeUnlocks(p)
    BY <2>1, <2>3, SpeechQueueAssumption DEF ProbeLocks, ProbeUnlocks, LockInv
  <2> QED
    BY <1>4, <2>2, <2>3 DEF SurroundingStep, SaveSettings, UtteranceEnds
<1>5. CASE UNCHANGED vars
  BY <1>5 DEF LockInv, vars
<1> QED
  BY <1>1, <1>2, <1>3, <1>4, <1>5 DEF Next

-----------------------------------------------------------------------------
(***************************************************************************)
(* Where the item in flight and the scheduled retry are.                   *)
(***************************************************************************)

\* A step that keeps the item in flight or takes it out keeps InFlightIsOwned
\* when no owner of a request moves.
LEMMA StillOwned ==
  ASSUME InFlightIsOwned, ClaimWorker \/ SpawnNothing, TypeOK,
         request' = request, inFlight' = inFlight \/ inFlight' = NoItem
  PROVE  InFlightIsOwned'
<1>1. \A v \in Workers : Owns(v) => Owns(v)'
  BY ClaimFrame DEF Owns
<1> QED
  BY <1>1 DEF InFlightIsOwned

LEMMA NextOwned ==
  ASSUME TypeOK, RequestInv, InFlightIsOwned, [Next]_vars
  PROVE  InFlightIsOwned'
<1> USE DEF queueVars, workerVars
<1>1. CASE QueueStep
  <2>1. inFlight' = inFlight \/ inFlight' = NoItem
    BY <1>1 DEF QueueStep, EnqueueRejected, EnqueueAccepted, RemoveItem,
      CancelInFlight, DismissHistoryItem, DismissHistory, RetryExhaustedItem
  <2> QED
    BY <1>1, <2>1, QueueStepFrame, StillOwned
<1>2. ASSUME NEW w \in Workers, WorkerStep(w) PROVE InFlightIsOwned'
  <2>1. CASE WorkerReserves(w)
    BY <2>1 DEF WorkerReserves, InFlightIsOwned, Owns, TypeOK
  <2>2. CASE inFlight' = NoItem
    BY <2>2 DEF InFlightIsOwned
  <2>3. CASE inFlight' = inFlight /\ ~WorkerReserves(w)
    <3>1. \A v \in Workers \ {w} : Owns(v)' = Owns(v) /\ request'[v] = request[v]
      BY <1>2, WorkerStepFrame DEF Owns, TypeOK
    <3>2. \/ Owns(w) => Owns(w)' /\ request'[w] = request[w]
          \/ wpc[w] = "settle" /\ inFlight.id # request[w]
          \/ wpc[w] = "settle" /\ inFlight = NoItem
      BY <1>2, <2>3, SettledItem
      DEF WorkerStep, WorkerFindsControl, WorkerPassesBarrier, WorkerStops,
          WorkerSelects, WorkerSelectFails, SpeakAccepted, SpeakRefused,
          SpeakUncertain, PlaybackCompleted, PlaybackUnconfirmed,
          WorkerReconciles, SettleCompleted, SettleUnconfirmed,
          SettleWithRetry, SettleFailed, ActivateScheduledRetry, DropPlayback,
          Conclude, Owns, TypeOK
    <3> QED
      BY <2>3, <3>1, <3>2 DEF InFlightIsOwned
  <2> QED
    BY <1>2, <2>1, <2>2, <2>3
    DEF WorkerStep, WorkerFindsControl, WorkerPassesBarrier, WorkerStops,
        WorkerSelects, WorkerSelectFails, SpeakAccepted, SpeakRefused,
        SpeakUncertain, PlaybackCompleted, PlaybackUnconfirmed,
        WorkerReconciles, SettleCompleted, SettleUnconfirmed,
        SettleWithRetry, SettleFailed, ActivateScheduledRetry, DropPlayback,
        Conclude
<1>3. ASSUME NEW c \in Controls,
             ControlStep(c) \/ \E cmd \in Commands : BeginControl(c, cmd)
      PROVE  InFlightIsOwned'
  <2>1. inFlight' = inFlight \/ inFlight' = NoItem
    BY <1>3
    DEF ControlStep, BeginControl, LockControl, LockControlFails,
        RemoteControlSucceeds, RemoteControlFails, ApplyControl, CancelControl,
        SkipCurrent, ClearPending, CancelInFlight
  <2> QED
    BY <1>3, <2>1, ControlStepFrame, StillOwned
<1>4. CASE SurroundingStep
  BY <1>4, SurroundingStepFrame DEF InFlightIsOwned, Owns
<1>5. CASE UNCHANGED vars
  BY <1>5 DEF InFlightIsOwned, Owns, vars
<1> QED
  BY <1>1, <1>2, <1>3, <1>4, <1>5 DEF Next

-----------------------------------------------------------------------------
(***************************************************************************)
(* The pause.                                                              *)
(***************************************************************************)

\* A pause is applied under the dispatch lock, and no request is on its way
\* while someone else holds it.
LEMMA NextPaused ==
  ASSUME TypeOK, LockInv, PausedInv, [Next]_vars
  PROVE  PausedInv'
<1> USE DEF queueVars, workerVars
<1>1. CASE paused' = paused /\ (ClaimWorker \/ SpawnNothing)
  BY <1>1, ClaimFrame DEF PausedInv
<1>2. ASSUME NEW w \in Workers, WorkerStep(w) PROVE PausedInv'
  <2>1. CASE WorkerReserves(w)
    BY <2>1 DEF WorkerReserves, MayReserve, PausedInv
  <2>2. CASE ~WorkerReserves(w)
    <3>1. /\ paused' = paused
          /\ \A v \in Workers : wpc'[v] \in {"reserved", "speaking"} =>
                                wpc[v] \in {"reserved", "speaking"}
      BY <1>2, <2>2
      DEF WorkerStep, WorkerFindsControl, WorkerPassesBarrier, WorkerStops,
          WorkerSelects, WorkerSelectFails, SpeakAccepted, SpeakRefused,
          SpeakUncertain, PlaybackCompleted, PlaybackUnconfirmed,
          WorkerReconciles, SettleCompleted, SettleUnconfirmed,
          SettleWithRetry, SettleFailed, ActivateScheduledRetry, DropPlayback,
          TypeOK
    <3> QED
      BY <3>1 DEF PausedInv
  <2> QED
    BY <2>1, <2>2
<1>3. ASSUME NEW c \in Controls, ApplyControl(c) PROVE PausedInv'
  <2>1. dispatcher = c
    BY <1>3 DEF ApplyControl, LockInv
  <2>2. \A v \in Workers : wpc[v] \notin {"reserved", "speaking"}
    BY <2>1, SpeechQueueAssumption DEF LockInv
  <2>3. \A v \in Workers : wpc'[v] \notin {"reserved", "speaking"}
    BY <1>3, <2>2, ControlStepFrame, ClaimFrame DEF ControlStep
  <2> QED
    BY <2>3 DEF PausedInv
<1>4. ASSUME NEW c \in Controls, ~ApplyControl(c),
             ControlStep(c) \/ \E cmd \in Commands : BeginControl(c, cmd)
      PROVE  PausedInv'
  <2>1. paused' = paused
    BY <1>4
    DEF ControlStep, BeginControl, LockControl, LockControlFails,
        RemoteControlSucceeds, RemoteControlFails, CancelControl
  <2> QED
    BY <1>1, <1>4, <2>1, ControlStepFrame
<1>5. CASE UNCHANGED <<paused, wpc>>
  BY <1>5 DEF PausedInv
<1> QED
  BY <1>1, <1>2, <1>3, <1>4, <1>5, QueueStepFrame, SurroundingStepFrame
  DEF Next, vars

-----------------------------------------------------------------------------
(***************************************************************************)
(* The scheduled retry stays in front, and its worker sleeps.              *)
(***************************************************************************)

\* A front item that leaves or becomes ready leaves nothing unready behind.
LEMMA AllReady ==
  ASSUME TypeOK, \A k \in 1..Len(pending') : pending'[k].delivery = "ready"
  PROVE  ScheduledInv'
BY DEF ScheduledInv

\* Every unready item was the front one and is, and no sleeper moves.
LEMMA StillScheduled ==
  ASSUME ScheduledInv,
         \A k \in 1..Len(pending') : pending'[k].delivery # "ready" =>
           /\ k \in 1..Len(pending) /\ pending'[k] = pending[k],
         \A v \in Workers : wpc[v] = "backoff" =>
           wpc'[v] = "backoff" /\ request'[v] = request[v]
  PROVE  ScheduledInv'
<1> SUFFICES ASSUME NEW k \in 1..Len(pending'), pending'[k].delivery # "ready"
             PROVE  /\ k = 1
                    /\ pending'[1].delivery = "retryScheduled"
                    /\ \E v \in Workers : /\ wpc'[v] = "backoff"
                                          /\ request'[v] = pending'[1].id
  BY DEF ScheduledInv
<1>1. k \in 1..Len(pending) /\ pending'[k] = pending[k]
  OBVIOUS
<1>2. /\ k = 1 /\ pending[1].delivery = "retryScheduled"
      /\ \E v \in Workers : wpc[v] = "backoff" /\ request[v] = pending[1].id
  BY <1>1 DEF ScheduledInv
<1> QED
  BY <1>1, <1>2

LEMMA QueueStepScheduled ==
  ASSUME TypeOK, ScheduledInv, QueueStep
  PROVE  ScheduledInv'
<1>1. \A v \in Workers : wpc[v] = "backoff" =>
        wpc'[v] = "backoff" /\ request'[v] = request[v]
  BY QueueStepFrame, ClaimFrame
<1>2. pending \in Seq(Item)
  BY DEF TypeOK
<1>3. ASSUME pending' = pending PROVE ScheduledInv'
  BY <1>1, <1>3, StillScheduled
<1>4. CASE EnqueueAccepted
  <2> DEFINE dropped == Overflow(Len(pending), InFlightCount(inFlight))
             kept == SubSeq(pending, dropped + 1, Len(pending))
  <2>1. dropped \in 0..Len(pending)
    BY <1>2, SpeechItemsAssumption DEF Overflow, InFlightCount
  <2>2. /\ kept \in Seq(Item) /\ Len(kept) = Len(pending) - dropped
        /\ \A k \in 1..Len(kept) : kept[k] = pending[k + dropped]
    BY <1>2, <2>1, SMTT(30)
  <2>3. NewItem(nextId, "queued").delivery = "ready"
    BY DEF NewItem
  <2>4. pending' = Append(kept, NewItem(nextId, "queued"))
    BY <1>4 DEF EnqueueAccepted
  <2> HIDE DEF kept, dropped
  <2>5. /\ Len(pending') = Len(kept) + 1
        /\ pending'[Len(kept) + 1].delivery = "ready"
        /\ \A k \in 1..Len(kept) : pending'[k] = kept[k]
    BY <2>2, <2>3, <2>4
  <2>6. ASSUME NEW k \in 1..Len(pending'), pending'[k].delivery # "ready"
        PROVE  k \in 1..Len(pending) /\ pending'[k] = pending[k]
    <3>1. k \in 1..Len(kept) /\ pending'[k] = pending[k + dropped]
      BY <2>2, <2>5, <2>6
    <3>2. k + dropped \in 1..Len(pending)
      BY <1>2, <2>1, <2>2, <3>1
    <3>3. k + dropped = 1
      BY <2>6, <3>1, <3>2 DEF ScheduledInv
    <3>4. dropped = 0
      BY <2>1, <3>1, <3>3
    <3> QED
      BY <2>1, <3>1, <3>2, <3>4
  <2> QED
    BY <1>1, <2>6, StillScheduled
<1>5. ASSUME NEW i \in Ids, RemoveItem(i) PROVE ScheduledInv'
  <2>1. CASE pending' = pending
    BY <1>3, <2>1
  <2>2. CASE \E k \in 1..Len(pending) : pending' = RemoveAt(pending, k)
    <3>1. PICK k \in 1..Len(pending) : pending' = RemoveAt(pending, k)
      BY <2>2
    <3>2. /\ Len(pending') = Len(pending) - 1
          /\ \A j \in 1..Len(pending') :
               pending'[j] = IF j < k THEN pending[j] ELSE pending[j + 1]
      BY <1>2, <3>1, RemoveAtType
    <3>3. ASSUME NEW j \in 1..Len(pending'), pending'[j].delivery # "ready"
          PROVE  j \in 1..Len(pending) /\ pending'[j] = pending[j]
      <4>1. j \in 1..Len(pending) /\ j + 1 \in 1..Len(pending) /\ j + 1 # 1
        BY <1>2, <3>2
      <4>2. pending[j + 1].delivery = "ready"
        BY <4>1 DEF ScheduledInv
      <4> QED
        BY <3>2, <3>3, <4>1, <4>2
    <3> QED
      BY <1>1, <3>3, StillScheduled
  <2> QED
    BY <1>5, <2>1, <2>2 DEF RemoveItem
<1>6. ASSUME NEW i \in Ids, RetryExhaustedItem(i) PROVE ScheduledInv'
  <2>1. NewItem(i, "queued").delivery = "ready"
    BY DEF NewItem
  <2>2. pending' = Append(pending, NewItem(i, "queued"))
    BY <1>6 DEF RetryExhaustedItem
  <2>3. \A k \in 1..Len(pending') : pending'[k].delivery # "ready" =>
           /\ k \in 1..Len(pending) /\ pending'[k] = pending[k]
    BY <1>2, <2>1, <2>2
  <2> QED
    BY <1>1, <2>3, StillScheduled
<1> QED
  BY <1>3, <1>4, <1>5, <1>6
  DEF QueueStep, EnqueueRejected, DismissHistoryItem, DismissHistory

\* Taking the front item away leaves nothing unready.
LEMMA TailReady ==
  ASSUME TypeOK, ScheduledInv, pending # <<>>, pending' = Tail(pending)
  PROVE  ScheduledInv'
<1>1. ASSUME NEW k \in 1..Len(pending') PROVE pending'[k].delivery = "ready"
  <2>1. /\ k + 1 \in 1..Len(pending) /\ k + 1 # 1
        /\ pending'[k] = pending[k + 1]
    BY HeadTailType DEF TypeOK
  <2> QED
    BY <2>1 DEF ScheduledInv
<1> QED
  BY <1>1, AllReady

LEMMA WorkerStepScheduled ==
  ASSUME TypeOK, RequestInv, SingleWorker, ScheduledInv,
         NEW w \in Workers, WorkerStep(w)
  PROVE  ScheduledInv'
<1> USE DEF queueVars, workerVars
<1>1. pending \in Seq(Item) /\ wpc[w] # "idle"
  BY WorkerStepFrame DEF TypeOK
<1>2. \A v \in Workers \ {w} : wpc[v] = "idle"
  BY <1>1 DEF SingleWorker, Running
<1>3. wpc[w] # "backoff" =>
        \A k \in 1..Len(pending) : pending[k].delivery = "ready"
  BY <1>2 DEF ScheduledInv
<1>4. CASE WorkerReserves(w)
  BY <1>4, TailReady
  DEF WorkerReserves, MayReserve, HasAutoProcessableItem
<1>5. CASE SettleWithRetry(w)
  <2> DEFINE again == [inFlight EXCEPT !.status = "queued", !.retryCount = 1,
                                       !.delivery = "retryScheduled"]
  <2>1. inFlight \in Item /\ inFlight.id = request[w]
    BY <1>5, SettledItem DEF SettleWithRetry
  <2>2. again \in Item /\ again.id = request[w]
        /\ again.delivery = "retryScheduled"
    <3>1. /\ "queued" \in Statuses /\ 1 \in 0..1
          /\ "retryScheduled" \in DeliveryStates
      BY DEF Statuses, DeliveryStates
    <3> QED
      BY <2>1, <3>1 DEF Item
  <2>3. pending' = <<again>> \o pending
    BY <1>5 DEF SettleWithRetry, Requeued
  <2> HIDE DEF again
  <2>4. /\ Len(pending') = Len(pending) + 1 /\ pending'[1] = again
        /\ \A k \in 2..Len(pending') : pending'[k] = pending[k - 1]
    BY <1>1, <2>2, <2>3, PrependType
  <2>5. wpc'[w] = "backoff" /\ request'[w] = request[w]
    BY <1>5 DEF SettleWithRetry, TypeOK
  <2>6. ASSUME NEW k \in 1..Len(pending'), k # 1
        PROVE  pending'[k].delivery = "ready"
    <3>1. k \in 2..Len(pending') /\ k - 1 \in 1..Len(pending)
      BY <1>1, <2>4, <2>6
    <3>2. wpc[w] # "backoff"
      BY <1>5 DEF SettleWithRetry
    <3> QED
      BY <1>3, <2>4, <3>1, <3>2
  <2> QED
    BY <2>2, <2>4, <2>5, <2>6 DEF ScheduledInv
<1>6. CASE ActivateScheduledRetry(w)
  <2>1. pending' = Activated(pending, request[w])
    BY <1>6 DEF ActivateScheduledRetry
  <2>2. request[w] \in Nat
    BY DEF TypeOK, Ids
  <2>3. /\ Len(pending') = Len(pending)
        /\ \A k \in 1..Len(pending) : k # 1 => pending'[k] = pending[k]
    BY <1>1, <2>1, <2>2, ActivatedType
  <2>4. ASSUME NEW k \in 1..Len(pending) PROVE pending'[k].delivery = "ready"
    <3>1. CASE pending[k].delivery = "ready"
      <4>1. CASE pending' = pending
        BY <3>1, <4>1
      <4>2. CASE pending' = [pending EXCEPT ![1].delivery = "ready"]
        BY <1>1, <3>1, <4>2
      <4> QED
        BY <2>1, <4>1, <4>2 DEF Activated
    <3>2. CASE pending[k].delivery # "ready"
      <4>1. /\ k = 1 /\ pending[1].delivery = "retryScheduled"
            /\ request[w] = pending[1].id
        BY <1>2, <3>2 DEF ScheduledInv
      <4>2. pending' = [pending EXCEPT ![1].delivery = "ready"]
        BY <1>1, <2>1, <4>1 DEF Activated
      <4>3. pending[1] \in Item
        BY <1>1, <4>1
      <4> QED
        BY <1>1, <4>1, <4>2, <4>3 DEF Item
    <3> QED
      BY <3>1, <3>2
  <2> QED
    BY <2>3, <2>4, AllReady
<1>7. CASE ~WorkerReserves(w) /\ ~SettleWithRetry(w) /\ ~ActivateScheduledRetry(w)
  <2>1. pending' = pending /\ wpc[w] # "backoff"
    BY <1>7
    DEF WorkerStep, WorkerFindsControl, WorkerPassesBarrier, WorkerStops,
        WorkerSelects, WorkerSelectFails, SpeakAccepted, SpeakRefused,
        SpeakUncertain, PlaybackCompleted, PlaybackUnconfirmed,
        WorkerReconciles, SettleCompleted, SettleUnconfirmed, SettleFailed,
        DropPlayback, Conclude
  <2> QED
    BY <1>3, <2>1, AllReady
<1> QED
  BY <1>4, <1>5, <1>6, <1>7

LEMMA ControlStepScheduled ==
  ASSUME TypeOK, ScheduledInv, NEW c \in Controls,
         ControlStep(c) \/ \E cmd \in Commands : BeginControl(c, cmd)
  PROVE  ScheduledInv'
<1>1. \A v \in Workers : wpc[v] = "backoff" =>
        wpc'[v] = "backoff" /\ request'[v] = request[v]
  BY ControlStepFrame, ClaimFrame
<1>2. CASE pending' = pending
  BY <1>1, <1>2, StillScheduled
<1>3. CASE pending # <<>> /\ pending' = Tail(pending)
  BY <1>3, TailReady
<1>4. CASE pending' = <<>>
  BY <1>4, AllReady
<1> QED
  BY <1>2, <1>3, <1>4
  DEF ControlStep, BeginControl, LockControl, LockControlFails,
      RemoteControlSucceeds, RemoteControlFails, ApplyControl, CancelControl,
      SkipCurrent, ClearPending, queueVars

LEMMA NextScheduled ==
  ASSUME TypeOK, RequestInv, SingleWorker, ScheduledInv, [Next]_vars
  PROVE  ScheduledInv'
<1>1. CASE UNCHANGED <<pending, wpc, request>>
  BY <1>1 DEF ScheduledInv
<1> QED
  BY <1>1, QueueStepScheduled, WorkerStepScheduled, ControlStepScheduled,
     SurroundingStepFrame
  DEF Next, vars, queueVars, workerVars

-----------------------------------------------------------------------------
(***************************************************************************)
(* No lost wakeup.                                                         *)
(***************************************************************************)

\* While nothing holds the queue back, a worker runs as long as there is any
\* item, in flight, ready or waiting for its retry: stronger than NoLostWakeup,
\* and what lets an item be removed without a claim.
LEMMA ItemsAreWatched ==
  ASSUME IInv, ~paused, controlsInProgress = 0,
         inFlight # NoItem \/ pending # <<>>
  PROVE  isProcessing
<1> USE DEF IInv
<1>1. CASE inFlight # NoItem
  BY <1>1 DEF InFlightIsOwned, SingleWorker, Owns, Running
<1>2. CASE pending # <<>> /\ Head(pending).delivery # "ready"
  <2>1. 1 \in 1..Len(pending) /\ Head(pending) = pending[1]
    BY <1>2, HeadTailType DEF TypeOK
  <2> QED
    BY <1>2, <2>1 DEF ScheduledInv, SingleWorker, Running
<1>3. CASE inFlight = NoItem /\ pending # <<>> /\ Head(pending).delivery = "ready"
  BY <1>3 DEF NoLostWakeup, WorkWaiting, HasAutoProcessableItem
<1> QED
  BY <1>1, <1>2, <1>3

\* A step that claims, or that brings no item to a queue free to be worked on,
\* loses no wakeup.
LEMMA StillAwake ==
  ASSUME IInv,
         \/ ClaimWorker
         \/ /\ isProcessing' = isProcessing
            /\ paused' = paused /\ controlsInProgress' = controlsInProgress
            /\ pending' # <<>> => inFlight # NoItem \/ pending # <<>>
  PROVE  NoLostWakeup'
<1>1. CASE ClaimWorker
  BY <1>1 DEF ClaimWorker, Spawn, SpawnNothing, NoLostWakeup, IInv, TypeOK
<1>2. CASE /\ isProcessing' = isProcessing
           /\ paused' = paused /\ controlsInProgress' = controlsInProgress
           /\ pending' # <<>> => inFlight # NoItem \/ pending # <<>>
  BY <1>2, ItemsAreWatched DEF NoLostWakeup, WorkWaiting, HasAutoProcessableItem
<1> QED
  BY <1>1, <1>2

LEMMA NextAwake ==
  ASSUME IInv, SingleWorker', [Next]_vars
  PROVE  NoLostWakeup'
<1> USE DEF queueVars, workerVars
<1>1. CASE QueueStep
  <2>1. CASE ClaimWorker
    BY <2>1, StillAwake
  <2>2. ASSUME NEW i \in Ids, RemoveItem(i) PROVE NoLostWakeup'
    <3>1. pending' # <<>> => pending # <<>>
      <4>1. CASE pending = <<>>
        BY <2>2, <4>1 DEF RemoveItem
      <4> QED
        BY <4>1
    <3> QED
      BY <2>2, <3>1, StillAwake DEF RemoveItem
  <2>3. CASE UNCHANGED <<pending, inFlight, paused, controlsInProgress,
                         isProcessing>>
    BY <2>3, StillAwake
  <2> QED
    BY <1>1, <2>1, <2>2, <2>3
    DEF QueueStep, EnqueueRejected, EnqueueAccepted, DismissHistoryItem,
        DismissHistory, RetryExhaustedItem
<1>2. ASSUME NEW w \in Workers, WorkerStep(w) PROVE NoLostWakeup'
  <2>1. CASE wpc'[w] # "idle"
    BY <2>1 DEF SingleWorker, Running, NoLostWakeup
  <2>2. CASE WorkerStops(w)
    BY <2>2
    DEF WorkerStops, NoLostWakeup, WorkWaiting, HasAutoProcessableItem
  <2> QED
    BY <1>2, <2>1, <2>2, WorkerStepFrame DEF IInv
<1>3. ASSUME NEW c \in Controls, ControlStep(c) PROVE NoLostWakeup'
  <2>1. CASE ClaimWorker
    BY <2>1, StillAwake
  <2>2. ASSUME ApplyControl(c), ~ClaimWorker PROVE NoLostWakeup'
    <3>1. command[c] \in {"pause", "clear"}
      BY <2>2 DEF ApplyControl, ClaimsWorker
    <3>2. paused' \/ pending' = <<>>
      BY <2>2, <3>1 DEF ApplyControl, ClearPending
    <3> QED
      BY <3>2 DEF NoLostWakeup, WorkWaiting, HasAutoProcessableItem
  <2>3. CASE UNCHANGED <<pending, inFlight, paused, controlsInProgress,
                         isProcessing>>
    BY <2>3, StillAwake
  <2> QED
    BY <1>3, <2>1, <2>2, <2>3
    DEF ControlStep, LockControl, LockControlFails, RemoteControlSucceeds,
        RemoteControlFails, CancelControl
<1>4. ASSUME NEW c \in Controls, NEW cmd \in Commands, BeginControl(c, cmd)
      PROVE  NoLostWakeup'
  BY <1>4 DEF BeginControl, NoLostWakeup, WorkWaiting, IInv, TypeOK
<1>5. CASE UNCHANGED <<pending, inFlight, paused, controlsInProgress,
                       isProcessing>>
  BY <1>5, StillAwake
<1> QED
  BY <1>1, <1>2, <1>3, <1>4, <1>5, SurroundingStepFrame DEF Next, vars

-----------------------------------------------------------------------------
(***************************************************************************)
(* The invariant and what follows from it.                                 *)
(***************************************************************************)
LEMMA InitIInv == Init => IInv
<1> SUFFICES ASSUME Init PROVE IInv
  OBVIOUS
<1>1. TypeOK /\ ControlsCounted /\ RequestInv
  BY InitType DEF TypeInv
<1>2. SingleWorker /\ LockInv /\ PausedInv
  BY SpeechQueueAssumption DEF Init, SingleWorker, Running, LockInv, PausedInv
<1>3. InFlightIsOwned /\ ScheduledInv
  BY DEF Init, InFlightIsOwned, ScheduledInv
<1>4. NoLostWakeup
  BY DEF Init, NoLostWakeup, WorkWaiting, HasAutoProcessableItem
<1> QED
  BY <1>1, <1>2, <1>3, <1>4 DEF IInv

LEMMA NextIInv == IInv /\ [Next]_vars => IInv'
<1> SUFFICES ASSUME IInv, [Next]_vars PROVE IInv'
  OBVIOUS
<1>1. TypeOK' /\ ControlsCounted' /\ RequestInv'
  BY NextType DEF IInv, TypeInv
<1>2. SingleWorker'
  BY NextSingle DEF IInv
<1>3. LockInv' /\ PausedInv'
  BY NextLock, NextPaused DEF IInv
<1>4. InFlightIsOwned' /\ ScheduledInv'
  BY NextOwned, NextScheduled DEF IInv
<1>5. NoLostWakeup'
  BY <1>2, NextAwake
<1> QED
  BY <1>1, <1>2, <1>3, <1>4, <1>5 DEF IInv

\* The inductive invariant holds in every reachable state.
THEOREM Invariance == Spec => []IInv
BY InitIInv, NextIInv, PTL DEF Spec

\* At most one SpeechQueueWorker::run is ever running, and is_processing says
\* whether one is.
THEOREM OneWorker == Spec => []SingleWorker
<1>1. IInv => SingleWorker
  BY DEF IInv
<1> QED
  BY <1>1, Invariance, PTL

\* Whenever an item is ready and nothing holds the queue back, a worker runs:
\* none of the paths that free the queue forgets to claim one.
THEOREM NoWakeupIsLost == Spec => []NoLostWakeup
<1>1. IInv => NoLostWakeup
  BY DEF IInv
<1> QED
  BY <1>1, Invariance, PTL

\* The item shown as speaking is one a running worker will settle.
THEOREM InFlightHasOwner == Spec => []InFlightIsOwned
<1>1. IInv => InFlightIsOwned
  BY DEF IInv
<1> QED
  BY <1>1, Invariance, PTL

\* A destination takes an utterance from a worker that holds the dispatch lock.
LEMMA AcceptanceIsLocked ==
  ASSUME IInv, Next, NEW i \in Ids, ~(accepted'[i] <= accepted[i])
  PROVE  \E w \in Workers : wpc[w] = "speaking" /\ dispatcher = w
<1> USE DEF IInv, destinationVars
<1>1. accepted \in [Ids -> Nat]
  BY DEF TypeOK
<1>2. accepted' # accepted
  BY <1>1
<1>3. ASSUME NEW j \in Ids, RetryExhaustedItem(j) PROVE FALSE
  BY <1>1, <1>3 DEF RetryExhaustedItem
<1>4. ASSUME QueueStep PROVE FALSE
  BY <1>2, <1>3, <1>4
  DEF QueueStep, EnqueueRejected, EnqueueAccepted, RemoveItem,
      DismissHistoryItem, DismissHistory
<1>5. ASSUME NEW c \in Controls,
             ControlStep(c) \/ \E cmd \in Commands : BeginControl(c, cmd)
      PROVE  FALSE
  BY <1>2, <1>5
  DEF ControlStep, BeginControl, LockControl, LockControlFails,
      RemoteControlSucceeds, RemoteControlFails, ApplyControl, CancelControl
<1>6. ASSUME SurroundingStep PROVE FALSE
  BY <1>2, <1>6
  DEF SurroundingStep, ProbeLocks, ProbeUnlocks, SaveSettings, UtteranceEnds
<1>7. PICK w \in Workers : WorkerStep(w)
  BY <1>4, <1>5, <1>6 DEF Next
<1>8. wpc[w] = "speaking"
  BY <1>2, <1>7
  DEF WorkerStep, WorkerFindsControl, WorkerPassesBarrier, WorkerStops,
      WorkerReserves, WorkerSelects, WorkerSelectFails, SpeakAccepted,
      SpeakRefused, SpeakUncertain, PlaybackCompleted, PlaybackUnconfirmed,
      WorkerReconciles, SettleCompleted, SettleUnconfirmed, SettleWithRetry,
      SettleFailed, ActivateScheduledRetry, DropPlayback
<1> QED
  BY <1>8 DEF LockInv

\* No destination takes a queued utterance while the queue is paused: the pause
\* is applied under the lock an utterance is sent under.
THEOREM SilentWhilePaused == Spec => PausedSilence
<1>1. IInv /\ [Next]_vars => [paused => \A i \in Ids : accepted'[i] <= accepted[i]]_vars
  <2> SUFFICES ASSUME IInv, Next, paused, NEW i \in Ids, ~(accepted'[i] <= accepted[i])
               PROVE  FALSE
    OBVIOUS
  <2> QED
    BY AcceptanceIsLocked DEF IInv, PausedInv
<1> QED
  BY <1>1, Invariance, PTL DEF Spec, PausedSilence

\* No utterance is taken while a control has the destination.
THEOREM ControlIsAlone == Spec => ControlExcludesTalk
<1>1. IInv /\ [Next]_vars =>
        [(\E c \in Controls : cpc[c] \in {"remote", "apply"}) =>
           \A i \in Ids : accepted'[i] <= accepted[i]]_vars
  <2> SUFFICES ASSUME IInv, Next, NEW c \in Controls, cpc[c] \in {"remote", "apply"},
                      NEW i \in Ids, ~(accepted'[i] <= accepted[i])
               PROVE  FALSE
    OBVIOUS
  <2>1. dispatcher = c
    BY DEF IInv, LockInv
  <2> QED
    BY <2>1, AcceptanceIsLocked, SpeechQueueAssumption
<1> QED
  BY <1>1, Invariance, PTL DEF Spec, ControlExcludesTalk

-----------------------------------------------------------------------------
(***************************************************************************)
(* What the remote controls may rely on, proved on top of IInv: nothing    *)
(* new starts behind one, it reaches the destination that plays, the pause *)
(* state sent is the queue's own, and what sounds is accounted for.        *)
(***************************************************************************)

\* What the actions of each kind leave unchanged, group by group.
LEMMA Groups ==
  /\ UNCHANGED queueVars <=> UNCHANGED <<pending, inFlight, history, nextId,
       isProcessing, paused, controlsInProgress>>
  /\ UNCHANGED runtimeVars <=> UNCHANGED <<dispatcher, active, configured>>
  /\ UNCHANGED workerVars <=> UNCHANGED <<wpc, request, adapter, result>>
  /\ UNCHANGED controlVars <=> UNCHANGED <<cpc, command, target>>
  /\ UNCHANGED destinationVars <=>
       UNCHANGED <<sounding, wire, accepted, unconfirmed>>
BY DEF queueVars, runtimeVars, workerVars, controlVars, destinationVars

\* A control under way holds the barrier up.
LEMMA BarrierIsUp ==
  ASSUME ControlsCounted, NEW c \in Controls, cpc[c] # "idle"
  PROVE  controlsInProgress # 0
<1> DEFINE Busy == {d \in Controls : cpc[d] # "idle"}
<1>1. IsFiniteSet(Busy) /\ c \in Busy
  BY BusyControls
<1>2. Cardinality(Busy) # 0
  BY <1>1, FS_EmptySet
<1> QED
  BY <1>2 DEF ControlsCounted

\* A control meets the item that was in flight when it began, or none: the
\* worker looks at the barrier before it reserves.
THEOREM NothingStartsBehind == Spec => NothingStartsBehindControl
<1>1. IInv /\ [Next]_vars =>
        [(\E c \in Controls : cpc[c] # "idle") =>
           inFlight'.id \in {inFlight.id, 0}]_vars
  <2> SUFFICES ASSUME IInv, Next, NEW c \in Controls, cpc[c] # "idle"
               PROVE  inFlight'.id \in {inFlight.id, 0}
    OBVIOUS
  <2> USE DEF queueVars
  <2>1. controlsInProgress # 0
    BY BarrierIsUp DEF IInv
  <2>2. \/ inFlight' = inFlight
        \/ inFlight' = NoItem
    <3>1. CASE QueueStep
      BY <3>1 DEF QueueStep, EnqueueRejected, EnqueueAccepted, RemoveItem,
        CancelInFlight, DismissHistoryItem, DismissHistory, RetryExhaustedItem
    <3>2. ASSUME NEW w \in Workers, WorkerStep(w)
          PROVE  inFlight' = inFlight \/ inFlight' = NoItem
      BY <2>1, <3>2
      DEF WorkerStep, WorkerFindsControl, WorkerPassesBarrier, WorkerStops,
          WorkerReserves, MayReserve, WorkerSelects, WorkerSelectFails,
          SpeakAccepted, SpeakRefused, SpeakUncertain, PlaybackCompleted,
          PlaybackUnconfirmed, WorkerReconciles, SettleCompleted,
          SettleUnconfirmed, SettleWithRetry, SettleFailed,
          ActivateScheduledRetry, DropPlayback, Conclude
    <3>3. ASSUME NEW d \in Controls,
                 ControlStep(d) \/ \E cmd \in Commands : BeginControl(d, cmd)
          PROVE  inFlight' = inFlight \/ inFlight' = NoItem
      BY <3>3
      DEF ControlStep, BeginControl, LockControl, LockControlFails,
          RemoteControlSucceeds, RemoteControlFails, ApplyControl,
          CancelControl, SkipCurrent, ClearPending, CancelInFlight
    <3> QED
      BY <3>1, <3>2, <3>3, SurroundingStepFrame DEF Next
  <2> QED
    BY <2>2, NoItemIsNone
<1> QED
  BY <1>1, Invariance, PTL DEF Spec, NothingStartsBehindControl

-----------------------------------------------------------------------------
(***************************************************************************)
(* The registered playback and the target of a control.                    *)
(***************************************************************************)

\* A worker has no result before its request was sent, and a worker whose
\* utterance was accepted is the one whose playback is registered, until it
\* drops it.
ActiveInv ==
  \A w \in Workers :
    /\ wpc[w] \notin {"reconcile", "settle", "backoff", "drop"} =>
         result[w] = "none"
    /\ wpc[w] \in {"playing", "reconcile", "settle"}
         /\ result[w] \in {"none", "completed", "unconfirmed"} =>
         active = w

\* A claim starts a task that has no result.
LEMMA ClaimActive ==
  ASSUME TypeOK, ActiveInv, ClaimWorker \/ SpawnNothing,
         UNCHANGED <<active, result>>
  PROVE  ActiveInv'
BY ClaimFrame DEF ActiveInv

LEMMA NextActive ==
  ASSUME TypeOK, SingleWorker, ActiveInv, [Next]_vars
  PROVE  ActiveInv'
<1>1. CASE (ClaimWorker \/ SpawnNothing) /\ UNCHANGED <<active, result>>
  BY <1>1, ClaimActive
<1>2. ASSUME NEW w \in Workers, WorkerStep(w) PROVE ActiveInv'
  <2>1. /\ wpc[w] # "idle"
        /\ \A v \in Workers \ {w} : wpc[v] = "idle" /\ wpc'[v] = "idle"
    BY <1>2, WorkerStepFrame DEF SingleWorker, Running, TypeOK
  <2>2. \A v \in Workers \ {w} : result'[v] = result[v]
    BY <1>2, Groups
    DEF WorkerStep, WorkerFindsControl, WorkerPassesBarrier, WorkerStops,
        WorkerReserves, WorkerSelects, WorkerSelectFails, SpeakAccepted,
        SpeakRefused, SpeakUncertain, PlaybackCompleted, PlaybackUnconfirmed,
        WorkerReconciles, SettleCompleted, SettleUnconfirmed, SettleWithRetry,
        SettleFailed, ActivateScheduledRetry, DropPlayback, TypeOK
  <2>3. /\ wpc'[w] \notin {"reconcile", "settle", "backoff", "drop"} =>
             result'[w] = "none"
        /\ wpc'[w] \in {"playing", "reconcile", "settle"}
             /\ result'[w] \in {"none", "completed", "unconfirmed"} =>
             active' = w
    BY <1>2, Groups
    DEF WorkerStep, WorkerFindsControl, WorkerPassesBarrier, WorkerStops,
        WorkerReserves, WorkerSelects, WorkerSelectFails, SpeakAccepted,
        SpeakRefused, SpeakUncertain, PlaybackCompleted, PlaybackUnconfirmed,
        WorkerReconciles, SettleCompleted, SettleUnconfirmed, SettleWithRetry,
        SettleFailed, ActivateScheduledRetry, DropPlayback, TypeOK, ActiveInv,
        WriteFailure, WorkerPc, Results
  <2> QED
    BY <2>1, <2>2, <2>3 DEF ActiveInv
<1> QED
  BY <1>1, <1>2, QueueStepFrame, ControlStepFrame, SurroundingStepFrame, Groups
  DEF Next, vars, SpawnNothing

\* While a control has the destination, the dispatcher is its own.
LEMMA ControlHoldsLock ==
  ASSUME LockInv, NEW c \in Controls, cpc[c] \in {"remote", "apply", "cancel"}
  PROVE  /\ \A w \in Workers : wpc[w] \notin {"reserved", "speaking"}
         /\ \A d \in Controls : cpc[d] \in {"remote", "apply", "cancel"} => d = c
BY SpeechQueueAssumption DEF LockInv

\* A worker that no control waits for keeps its place in the playback, and the
\* adapter of a playback does not change.
LEMMA NextReaches ==
  ASSUME TypeOK, SingleWorker, LockInv, ActiveInv, ControlReachesPlayback,
         [Next]_vars
  PROVE  ControlReachesPlayback'
<1> USE DEF ControlReachesPlayback
<1>1. CASE UNCHANGED <<adapter, result, cpc, target>> /\ (ClaimWorker \/ SpawnNothing)
  BY <1>1, ClaimFrame
<1>2. ASSUME NEW w \in Workers, WorkerStep(w) PROVE ControlReachesPlayback'
  <2> SUFFICES ASSUME NEW c \in Controls, NEW v \in Workers,
                      cpc'[c] \in {"remote", "apply"},
                      wpc'[v] \in {"playing", "reconcile", "settle"},
                      result'[v] \in {"none", "completed", "unconfirmed"}
               PROVE  target'[c] = adapter'[v]
    OBVIOUS
  <2>1. cpc' = cpc /\ target' = target
    BY <1>2, WorkerStepFrame
  <2>2. v = w
    BY <1>2, WorkerStepFrame DEF SingleWorker, Running, TypeOK
  <2>3. wpc[w] \notin {"reserved", "speaking"}
    BY <2>1, ControlHoldsLock
  <2>4. /\ adapter'[w] = adapter[w]
        /\ wpc[w] \in {"playing", "reconcile", "settle"}
        /\ result[w] \in {"none", "completed", "unconfirmed"}
    BY <1>2, <2>2, <2>3, Groups
    DEF WorkerStep, WorkerFindsControl, WorkerPassesBarrier, WorkerStops,
        WorkerReserves, PlaybackCompleted, PlaybackUnconfirmed,
        WorkerReconciles, SettleCompleted, SettleUnconfirmed, SettleWithRetry,
        SettleFailed, ActivateScheduledRetry, DropPlayback, WorkerSelects,
        WorkerSelectFails, SpeakAccepted, SpeakRefused, SpeakUncertain,
        TypeOK, ActiveInv
  <2> QED
    BY <2>1, <2>2, <2>4
<1>3. ASSUME NEW c \in Controls, LockControl(c) PROVE ControlReachesPlayback'
  <2> SUFFICES ASSUME NEW d \in Controls, NEW v \in Workers,
                      cpc'[d] \in {"remote", "apply"},
                      wpc'[v] \in {"playing", "reconcile", "settle"},
                      result'[v] \in {"none", "completed", "unconfirmed"}
               PROVE  target'[d] = adapter'[v]
    OBVIOUS
  <2>1. UNCHANGED <<wpc, result, adapter>>
    BY <1>3, Groups DEF LockControl
  <2>2. d = c
    BY <1>3, SpeechQueueAssumption DEF LockControl, LockInv, TypeOK
  <2>3. active = v /\ v # Nobody
    BY <2>1, SpeechQueueAssumption DEF ActiveInv
  <2> QED
    BY <1>3, <2>1, <2>2, <2>3 DEF LockControl, ControlTarget, TypeOK
<1>4. ASSUME NEW c \in Controls, ~LockControl(c),
             ControlStep(c) \/ \E cmd \in Commands : BeginControl(c, cmd)
      PROVE  ControlReachesPlayback'
  <2>1. UNCHANGED <<adapter, result>> /\ (ClaimWorker \/ SpawnNothing)
    BY <1>4, ControlStepFrame
  <2>2. \A d \in Controls : cpc'[d] \in {"remote", "apply"} =>
          cpc[d] \in {"remote", "apply"} /\ target'[d] = target[d]
    BY <1>4, Groups
    DEF ControlStep, BeginControl, LockControlFails, RemoteControlSucceeds,
        RemoteControlFails, ApplyControl, CancelControl, TypeOK
  <2> QED
    BY <2>1, <2>2, ClaimFrame
<1> QED
  BY <1>1, <1>2, <1>3, <1>4, QueueStepFrame, SurroundingStepFrame, Groups
  DEF Next, vars, SpawnNothing

\* While a control is carried out, an utterance that plays is at the
\* destination the control is sent to: the target is chosen under the dispatch
\* lock, from the playback that is registered under the same lock.
THEOREM ControlsReachPlayback == Spec => []ControlReachesPlayback
<1> DEFINE Inv == IInv /\ ActiveInv /\ ControlReachesPlayback
<1>1. Init => Inv
  <2> SUFFICES ASSUME Init PROVE Inv
    OBVIOUS
  <2>1. ActiveInv /\ ControlReachesPlayback
    BY DEF Init, ActiveInv, ControlReachesPlayback
  <2> QED
    BY <2>1, InitIInv
<1>2. Inv /\ [Next]_vars => Inv'
  <2> SUFFICES ASSUME Inv, [Next]_vars PROVE Inv'
    OBVIOUS
  <2>1. IInv' /\ ActiveInv'
    BY NextIInv, NextActive DEF IInv
  <2> QED
    BY <2>1, NextReaches DEF IInv
<1> QED
  BY <1>1, <1>2, PTL DEF Spec

-----------------------------------------------------------------------------
(***************************************************************************)
(* The pause state.                                                        *)
(***************************************************************************)

\* What may be known of the destination while the queue is as it is.
AgreedWire == {"unknown", IF paused THEN "paused" ELSE "running"}

\* Between the remote control and its application the destination is already
\* in the state that the queue is about to take.
WireInv ==
  /\ WireAgrees
  /\ \A c \in Controls : cpc[c] # "idle" => command[c] \in Commands
  /\ \A c \in Controls : cpc[c] = "apply" =>
       CASE command[c] = "pause" -> wire = "paused"
         [] command[c] = "resume" -> wire = "running"
         [] OTHER -> wire \in AgreedWire

LEMMA NextWire ==
  ASSUME TypeOK, LockInv, WireInv, [Next]_vars
  PROVE  WireInv'
<1>1. CASE UNCHANGED <<wire, paused, cpc, command>>
  BY <1>1 DEF WireInv, WireAgrees, AgreedWire
<1>2. ASSUME NEW c \in Controls, NEW cmd \in Commands, BeginControl(c, cmd)
      PROVE  WireInv'
  <2>1. /\ cpc' = [cpc EXCEPT ![c] = "queued"] /\ cpc[c] = "idle"
        /\ command' = [command EXCEPT ![c] = cmd]
        /\ UNCHANGED <<wire, paused>>
    BY <1>2, Groups DEF BeginControl
  <2> QED
    BY <2>1 DEF WireInv, WireAgrees, AgreedWire, TypeOK
<1>3. ASSUME NEW c \in Controls, ControlStep(c) PROVE WireInv'
  <2>1. CASE LockControl(c) \/ LockControlFails(c)
    <3>1. /\ cpc[c] = "queued" /\ UNCHANGED <<wire, paused, command>>
          /\ \E pc \in {"remote", "unselected"} : cpc' = [cpc EXCEPT ![c] = pc]
      BY <2>1, Groups DEF LockControl, LockControlFails
    <3> QED
      BY <3>1 DEF WireInv, WireAgrees, AgreedWire, TypeOK
  <2>2. CASE RemoteControlSucceeds(c)
    <3>1. /\ cpc[c] = "remote" /\ cpc' = [cpc EXCEPT ![c] = "apply"]
          /\ wire' = WireAfter(command[c]) /\ UNCHANGED <<paused, command>>
      BY <2>2, Groups DEF RemoteControlSucceeds
    <3>2. \A d \in Controls : cpc[d] # "apply"
      BY <3>1, ControlHoldsLock
    <3>3. wire \in AgreedWire
      BY <3>2 DEF WireInv, WireAgrees, AgreedWire
    <3>4. \A d \in Controls : cpc'[d] = "apply" => d = c
      BY <3>1, <3>2 DEF TypeOK
    <3>5. cpc'[c] = "apply"
      BY <3>1 DEF TypeOK
    <3>6. (CASE command[c] = "pause" -> wire' = "paused"
             [] command[c] = "resume" -> wire' = "running"
             [] OTHER -> wire' \in AgreedWire)
      BY <3>1, <3>3 DEF WireAfter
    <3> QED
      BY <3>1, <3>4, <3>5, <3>6 DEF WireInv, WireAgrees, AgreedWire, TypeOK
  <2>3. CASE RemoteControlFails(c)
    <3>1. /\ cpc[c] = "remote" /\ cpc' = [cpc EXCEPT ![c] = "cancel"]
          /\ wire' \in {"unknown", wire} /\ UNCHANGED <<paused, command>>
      BY <2>3, Groups DEF RemoteControlFails
    <3>2. \A d \in Controls : cpc[d] # "apply"
      BY <3>1, ControlHoldsLock
    <3>3. \A d \in Controls : cpc'[d] # "apply"
      BY <3>1, <3>2 DEF TypeOK
    <3> QED
      BY <3>1, <3>2, <3>3 DEF WireInv, WireAgrees, AgreedWire, TypeOK
  <2>4. CASE ApplyControl(c)
    <3>1. /\ cpc[c] = "apply" /\ cpc' = [cpc EXCEPT ![c] = "idle"]
          /\ command' = [command EXCEPT ![c] = "none"] /\ wire' = wire
          /\ \/ command[c] \in {"pause", "resume"} /\ paused' = (command[c] = "pause")
             \/ command[c] \in {"skip", "clear"} /\ paused' = paused
      BY <2>4, Groups DEF ApplyControl
    <3>2. \A d \in Controls : cpc'[d] # "apply"
      BY <3>1, ControlHoldsLock DEF TypeOK
    <3>3. wire' \in AgreedWire'
      <4>1. CASE command[c] = "pause"
        <5>1. wire = "paused" /\ paused'
          BY <3>1, <4>1 DEF WireInv
        <5> QED
          BY <3>1, <5>1 DEF AgreedWire
      <4>2. CASE command[c] = "resume"
        <5>1. wire = "running" /\ ~paused'
          BY <3>1, <4>2 DEF WireInv
        <5> QED
          BY <3>1, <5>1 DEF AgreedWire
      <4>3. CASE command[c] \in {"skip", "clear"}
        <5>1. wire \in AgreedWire /\ paused' = paused
          BY <3>1, <4>3 DEF WireInv
        <5> QED
          BY <3>1, <5>1 DEF AgreedWire
      <4> QED
        BY <3>1, <4>1, <4>2, <4>3
    <3> QED
      BY <3>1, <3>2, <3>3 DEF WireInv, WireAgrees, AgreedWire, TypeOK
  <2>5. CASE CancelControl(c)
    <3>1. /\ cpc[c] # "apply" /\ cpc' = [cpc EXCEPT ![c] = "idle"]
          /\ command' = [command EXCEPT ![c] = "none"]
          /\ UNCHANGED <<wire, paused>>
      BY <2>5, Groups DEF CancelControl
    <3> QED
      BY <3>1 DEF WireInv, WireAgrees, AgreedWire, TypeOK
  <2> QED
    BY <1>3, <2>1, <2>2, <2>3, <2>4, <2>5 DEF ControlStep
<1>4. ASSUME NEW w \in Workers, WorkerStep(w)
      PROVE  UNCHANGED <<wire, paused, cpc, command>>
  BY <1>4, WorkerStepFrame, Groups
  DEF WorkerStep, WorkerFindsControl, WorkerPassesBarrier, WorkerStops,
      WorkerReserves, WorkerSelects, WorkerSelectFails, SpeakAccepted,
      SpeakRefused, SpeakUncertain, PlaybackCompleted, PlaybackUnconfirmed,
      WorkerReconciles, SettleCompleted, SettleUnconfirmed, SettleWithRetry,
      SettleFailed, ActivateScheduledRetry, DropPlayback
<1>5. QueueStep \/ SurroundingStep => wire' = wire
  BY Groups
  DEF QueueStep, EnqueueRejected, EnqueueAccepted, RemoveItem,
      DismissHistoryItem, DismissHistory, RetryExhaustedItem, SurroundingStep,
      ProbeLocks, ProbeUnlocks, SaveSettings, UtteranceEnds
<1> QED
  BY <1>1, <1>2, <1>3, <1>4, <1>5, QueueStepFrame, SurroundingStepFrame, Groups
  DEF Next, vars

\* Outside the application of a control the pause state last sent to a
\* destination is the queue's own: the dispatch lock is kept from the send to
\* apply_control.
THEOREM WireFollowsQueue == Spec => []WireAgrees
<1> DEFINE Inv == IInv /\ WireInv
<1>1. Init => Inv
  <2> SUFFICES ASSUME Init PROVE Inv
    OBVIOUS
  <2>1. WireInv
    BY DEF Init, WireInv, WireAgrees
  <2> QED
    BY <2>1, InitIInv
<1>2. Inv /\ [Next]_vars => Inv'
  BY NextIInv, NextWire DEF IInv
<1>3. Inv => WireAgrees
  BY DEF WireInv
<1> QED
  BY <1>1, <1>2, <1>3, PTL DEF Spec

-----------------------------------------------------------------------------
(***************************************************************************)
(* What sounds.                                                            *)
(***************************************************************************)
LEMMA NextAccounted ==
  ASSUME TypeOK, PlaybackAccounted, [Next]_vars
  PROVE  PlaybackAccounted'
<1> USE DEF PlaybackAccounted
<1>1. CASE /\ UNCHANGED <<sounding, unconfirmed, request, adapter>>
           /\ ClaimWorker \/ SpawnNothing
  BY <1>1, ClaimFrame
<1>2. ASSUME NEW w \in Workers, WorkerStep(w) PROVE PlaybackAccounted'
  <2> SUFFICES ASSUME NEW a \in Adapters, NEW i \in sounding'[a],
                      i \notin unconfirmed'
               PROVE  \E v \in Workers :
                        wpc'[v] = "playing" /\ request'[v] = i /\ adapter'[v] = a
    OBVIOUS
  <2>1. \A v \in Workers \ {w} : /\ wpc'[v] = wpc[v] /\ request'[v] = request[v]
                                 /\ adapter'[v] = adapter[v]
    BY <1>2, WorkerStepFrame, Groups
    DEF WorkerStep, WorkerFindsControl, WorkerPassesBarrier, WorkerStops,
        WorkerReserves, WorkerSelects, WorkerSelectFails, SpeakAccepted,
        SpeakRefused, SpeakUncertain, PlaybackCompleted, PlaybackUnconfirmed,
        WorkerReconciles, SettleCompleted, SettleUnconfirmed, SettleWithRetry,
        SettleFailed, ActivateScheduledRetry, DropPlayback, TypeOK
  <2>2. CASE SpeakAccepted(w)
    <3>1. /\ wpc'[w] = "playing" /\ wpc[w] = "speaking"
          /\ request' = request /\ adapter' = adapter /\ unconfirmed' = unconfirmed
          /\ i \in sounding[a] \/ (a = adapter[w] /\ i = request[w])
      BY <2>2, Groups DEF SpeakAccepted, Arrives, TypeOK
    <3> QED
      BY <2>1, <3>1
  <2>3. CASE SpeakUncertain(w)
    <3>1. /\ wpc[w] = "speaking" /\ unconfirmed \subseteq unconfirmed'
          /\ request[w] \in unconfirmed'
          /\ i \in sounding[a] \/ i = request[w]
      BY <2>3, Groups DEF SpeakUncertain, Arrives, TypeOK
    <3> QED
      BY <2>1, <3>1
  <2>4. CASE PlaybackCompleted(w)
    <3>1. /\ sounding' = sounding /\ unconfirmed' = unconfirmed
          /\ sounding[adapter[w]] = {}
      BY <2>4, Groups DEF PlaybackCompleted, DestinationSilent
    <3> QED
      BY <2>1, <3>1
  <2>5. CASE PlaybackUnconfirmed(w)
    <3>1. /\ sounding' = sounding /\ unconfirmed \subseteq unconfirmed'
          /\ request[w] \in Sounding => request[w] \in unconfirmed'
      BY <2>5, Groups DEF PlaybackUnconfirmed
    <3>2. i \in Sounding
      BY <3>1 DEF Sounding
    <3> QED
      BY <2>1, <3>1, <3>2
  <2>6. CASE wpc[w] # "playing" /\ UNCHANGED <<sounding, unconfirmed>>
    BY <2>1, <2>6
  <2> QED
    BY <1>2, <2>2, <2>3, <2>4, <2>5, <2>6, Groups
    DEF WorkerStep, WorkerFindsControl, WorkerPassesBarrier, WorkerStops,
        WorkerReserves, WorkerSelects, WorkerSelectFails, SpeakRefused,
        WorkerReconciles, SettleCompleted, SettleUnconfirmed, SettleWithRetry,
        SettleFailed, ActivateScheduledRetry, DropPlayback
<1>3. ASSUME NEW a \in Adapters, NEW i \in Ids, UtteranceEnds(a, i)
      PROVE  PlaybackAccounted'
  <2>1. /\ sounding' = [sounding EXCEPT ![a] = @ \ {i}]
        /\ unconfirmed' = unconfirmed \cap Sounding'
        /\ UNCHANGED <<wpc, request, adapter>>
    BY <1>3, Groups DEF UtteranceEnds
  <2>2. \A b \in Adapters : sounding'[b] \subseteq sounding[b]
    BY <2>1 DEF TypeOK
  <2>3. \A b \in Adapters : sounding'[b] \subseteq Sounding'
    BY DEF Sounding
  <2> QED
    BY <2>1, <2>2, <2>3
<1>4. ASSUME QueueStep \/ SurroundingStep
      PROVE  \/ UNCHANGED <<sounding, unconfirmed>>
             \/ \E a \in Adapters, i \in Ids : UtteranceEnds(a, i)
  BY <1>4, Groups
  DEF QueueStep, EnqueueRejected, EnqueueAccepted, RemoveItem,
      DismissHistoryItem, DismissHistory, RetryExhaustedItem, SurroundingStep,
      ProbeLocks, ProbeUnlocks, SaveSettings
<1>5. ASSUME NEW c \in Controls,
             ControlStep(c) \/ \E cmd \in Commands : BeginControl(c, cmd)
      PROVE  UNCHANGED <<sounding, unconfirmed>>
  BY <1>5, Groups
  DEF ControlStep, BeginControl, LockControl, LockControlFails,
      RemoteControlSucceeds, RemoteControlFails, ApplyControl, CancelControl
<1> QED
  BY <1>1, <1>2, <1>3, <1>4, <1>5, QueueStepFrame, ControlStepFrame,
     SurroundingStepFrame, Groups, SpeechQueueAssumption
  DEF Next, vars, SpawnNothing

\* Every utterance that sounds is the one the worker waits for, or one the
\* user was told may still be heard: wait_for_playback_completion does not end
\* with the item in the queue but with the destination.
THEOREM WhatSoundsIsAccounted == Spec => []PlaybackAccounted
<1> DEFINE Inv == IInv /\ PlaybackAccounted
<1>1. Init => Inv
  <2> SUFFICES ASSUME Init PROVE Inv
    OBVIOUS
  <2>1. PlaybackAccounted
    BY DEF Init, PlaybackAccounted
  <2> QED
    BY <2>1, InitIInv
<1>2. Inv /\ [Next]_vars => Inv'
  BY NextIInv, NextAccounted DEF IInv
<1> QED
  BY <1>1, <1>2, PTL DEF Spec

=============================================================================
