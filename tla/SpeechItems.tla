---------------------------- MODULE SpeechItems ----------------------------
(***************************************************************************)
(* The items of the speech queue and the operations on the two sequences   *)
(* that hold them (speech/queue.rs).  Everything here is constant-level:   *)
(* SpeechQueue applies these operators to its variables.                   *)
(*                                                                         *)
(* An item keeps the fields that decide what happens to it.  Its text, its *)
(* author and its user-facing outcome are left out.                        *)
(***************************************************************************)
EXTENDS Naturals, SequencesExt

CONSTANTS
  QueueLimit,    \* DEFAULT_QUEUE_LIMIT, 200 in the code
  HistoryLimit,  \* DEFAULT_HISTORY_LIMIT, the same 200 in the code
  MaxId          \* bound of the model: how many ids next_queue_id may hand out

\* make_pending_room frees one slot beside an item in flight, which takes two.
ASSUME SpeechItemsAssumption ==
  /\ QueueLimit \in Nat /\ QueueLimit >= 2
  /\ HistoryLimit \in Nat \ {0}
  /\ MaxId \in Nat \ {0}

Ids == 1..MaxId

\* SpeechQueueItemStatus and SpeechQueueDeliveryState.
Statuses == {"queued", "speaking", "spoken", "skipped", "blocked", "error"}
DeliveryStates == {"ready", "retryScheduled", "retryExhausted"}

Item == [id : Ids, status : Statuses, retryCount : 0..1,
         delivery : DeliveryStates]

\* in_flight = None.
NoItem == [id |-> 0, status |-> "queued", retryCount |-> 0,
           delivery |-> "ready"]

NewItem(id, status) ==
  [id |-> id, status |-> status, retryCount |-> 0, delivery |-> "ready"]

Skipped(item) == [item EXCEPT !.status = "skipped"]

\* usize::from(in_flight.is_some())
InFlightCount(item) == IF item = NoItem THEN 0 ELSE 1

(***************************************************************************)
(* push_history: the newest entry comes first, the oldest ones beyond the  *)
(* limit fall off the end.  PushAll pushes a whole sequence, so its last   *)
(* element ends up as the newest entry.                                    *)
(***************************************************************************)
Truncated(entries) == SubSeq(entries, 1,
  IF Len(entries) > HistoryLimit THEN HistoryLimit ELSE Len(entries))

PushHistory(entries, item) == Truncated(<<item>> \o entries)

PushAll(entries, items) == Truncated(Reverse(items) \o entries)

\* Every item of a sequence, skipped.
AllSkipped(items) == [k \in 1..Len(items) |-> Skipped(items[k])]

\* Items of a sequence, by id.
IdsOf(items) == {items[k].id : k \in 1..Len(items)}

\* Fault: a skipped entry may be brought back as well.
IsExhaustedOrSkipped(item) == item.status \in {"error", "skipped"}

\* The entry an explicit retry may bring back (retry_exhausted_item).
IsExhausted(item) ==
  item.status = "error" /\ item.delivery = "retryExhausted"

\* Fault: the item in flight takes no room.
OverflowOfPending(pendingLen, inFlightCount) ==
  IF pendingLen < QueueLimit THEN 0 ELSE pendingLen + 1 - QueueLimit

(***************************************************************************)
(* make_pending_room: how many items leave the front of pending so that    *)
(* one more fits beside the item in flight, as long as there are any.      *)
(***************************************************************************)
Overflow(pendingLen, inFlightCount) ==
  LET excess == pendingLen + inFlightCount + 1 - QueueLimit
  IN  IF pendingLen + inFlightCount < QueueLimit THEN 0
      ELSE IF excess > pendingLen THEN pendingLen ELSE excess

=============================================================================
