------------------------ MODULE SpeechDeliveryProofs ------------------------
(***************************************************************************)
(* What becomes of an item: it is in one place, within the limits, tried   *)
(* at most twice, taken at most once, started in its turn and final once   *)
(* it is settled.  Proved on top of IInv.                                  *)
(***************************************************************************)
EXTENDS SpeechSafetyProofs

-----------------------------------------------------------------------------
(***************************************************************************)
(* Lemmas about sequences of items.                                        *)
(***************************************************************************)

\* No two items of a sequence have the same id.
Distinct(items) ==
  \A j, k \in 1..Len(items) : items[j].id = items[k].id => j = k

\* Nothing was added and nothing overtook: every entry of the shorter sequence
\* and every two of its entries, in their order, are those of the longer one.
Keeps(short, long) ==
  /\ \A k \in 1..Len(short) : \E m \in 1..Len(long) : short[k] = long[m]
  /\ \A j, k \in 1..Len(short) : j < k =>
       \E m, n \in 1..Len(long) : m < n /\ short[j] = long[m] /\ short[k] = long[n]

\* What is kept of distinct items is distinct.
LEMMA KeepsDistinct ==
  ASSUME NEW short \in Seq(Item), NEW long \in Seq(Item), Keeps(short, long)
  PROVE  /\ IdsOf(short) \subseteq IdsOf(long)
         /\ Distinct(long) => Distinct(short)
<1>1. ASSUME NEW k \in 1..Len(short) PROVE short[k].id \in IdsOf(long)
  <2>1. PICK m \in 1..Len(long) : short[k] = long[m]
    BY DEF Keeps
  <2> QED
    BY <2>1 DEF IdsOf
<1>2. ASSUME Distinct(long), NEW j \in 1..Len(short), NEW k \in 1..Len(short),
             j < k, short[j].id = short[k].id
      PROVE  FALSE
  <2>1. PICK m \in 1..Len(long), n \in 1..Len(long) :
          m < n /\ short[j] = long[m] /\ short[k] = long[n]
    BY <1>2 DEF Keeps
  <2> QED
    BY <1>2, <2>1 DEF Distinct
<1>3. ASSUME Distinct(long), NEW j \in 1..Len(short), NEW k \in 1..Len(short),
             short[j].id = short[k].id
      PROVE  j = k
  <2>1. j < k \/ k < j \/ j = k
    OBVIOUS
  <2> QED
    BY <1>2, <1>3, <2>1
<1> QED
  BY <1>1, <1>3 DEF Distinct, IdsOf

\* A part of a sequence keeps its order.
LEMMA KeepsSubSeq ==
  ASSUME NEW items \in Seq(Item),
         NEW m \in 1..(Len(items) + 1), NEW n \in 0..Len(items)
  PROVE  SubSeq(items, m, n) \in Seq(Item) /\ Keeps(SubSeq(items, m, n), items)
<1> DEFINE part == SubSeq(items, m, n)
<1>1. /\ part \in Seq(Item)
      /\ Len(part) = IF m <= n THEN n - m + 1 ELSE 0
      /\ \A k \in 1..Len(part) : part[k] = items[m + k - 1]
  OBVIOUS
<1> HIDE DEF part
<1>2. \A k \in 1..Len(part) : m + k - 1 \in 1..Len(items)
  BY <1>1
<1>3. \A j, k \in 1..Len(part) : j < k => m + j - 1 < m + k - 1
  BY <1>1
<1>4. Keeps(part, items)
  BY <1>1, <1>2, <1>3 DEF Keeps
<1> QED
  BY <1>1, <1>4 DEF part

\* Nothing and everything are kept.
LEMMA KeepsTrivially ==
  ASSUME NEW items \in Seq(Item)
  PROVE  Keeps(items, items) /\ Keeps(<<>>, items)
BY DEF Keeps

\* Removing a position keeps the others.
LEMMA KeepsRemoveAt ==
  ASSUME NEW items \in Seq(Item), NEW k \in 1..Len(items)
  PROVE  /\ Keeps(RemoveAt(items, k), items)
         /\ Distinct(items) => items[k].id \notin IdsOf(RemoveAt(items, k))
<1> DEFINE rest == RemoveAt(items, k)
           At(j) == IF j < k THEN j ELSE j + 1
<1>1. /\ rest \in Seq(Item) /\ Len(rest) = Len(items) - 1
      /\ \A j \in 1..Len(rest) : rest[j] = IF j < k THEN items[j] ELSE items[j + 1]
  BY RemoveAtType
<1> HIDE DEF rest
<1>2. \A j \in 1..Len(rest) :
        At(j) \in 1..Len(items) /\ At(j) # k /\ rest[j] = items[At(j)]
  BY <1>1
<1>3. \A i, j \in 1..Len(rest) : i < j => At(i) < At(j)
  BY <1>1
<1> HIDE DEF At
<1>4. Keeps(rest, items)
  BY <1>2, <1>3 DEF Keeps
<1>5. ASSUME Distinct(items) PROVE items[k].id \notin IdsOf(rest)
  BY <1>2, <1>5 DEF Distinct, IdsOf
<1> QED
  BY <1>4, <1>5 DEF rest

\* So does taking the first one away.
LEMMA KeepsTail ==
  ASSUME NEW items \in Seq(Item), items # <<>>
  PROVE  /\ Keeps(Tail(items), items)
         /\ Distinct(items) => Head(items).id \notin IdsOf(Tail(items))
<1> DEFINE rest == Tail(items)
<1>1. /\ rest \in Seq(Item) /\ Len(rest) = Len(items) - 1 /\ Len(items) >= 1
      /\ Head(items) = items[1]
      /\ \A j \in 1..Len(rest) : rest[j] = items[j + 1]
  BY HeadTailType
<1> HIDE DEF rest
<1>2. \A j \in 1..Len(rest) : j + 1 \in 1..Len(items) /\ j + 1 # 1
  BY <1>1
<1>3. Keeps(rest, items)
  BY <1>1, <1>2 DEF Keeps
<1>4. ASSUME Distinct(items) PROVE items[1].id \notin IdsOf(rest)
  BY <1>1, <1>2, <1>4 DEF Distinct, IdsOf
<1> QED
  BY <1>1, <1>3, <1>4 DEF rest

\* Cutting the history at its limit keeps the newest entries.
LEMMA KeepsTruncated ==
  ASSUME NEW entries \in Seq(Item)
  PROVE  /\ Truncated(entries) \in Seq(Item)
         /\ Keeps(Truncated(entries), entries)
         /\ Len(Truncated(entries)) <= HistoryLimit
<1> DEFINE n == IF Len(entries) > HistoryLimit THEN HistoryLimit ELSE Len(entries)
<1>1. n \in 0..Len(entries) /\ n <= HistoryLimit
  BY SpeechItemsAssumption
<1>2. Truncated(entries) = SubSeq(entries, 1, n)
  BY DEF Truncated
<1> HIDE DEF n
<1>3. Len(SubSeq(entries, 1, n)) = n
  BY <1>1
<1> QED
  BY <1>1, <1>2, <1>3, KeepsSubSeq

\* Two sequences of distinct items without a common id.
LEMMA ConcatDistinct ==
  ASSUME NEW left \in Seq(Item), NEW right \in Seq(Item),
         Distinct(left), Distinct(right), IdsOf(left) \cap IdsOf(right) = {}
  PROVE  /\ left \o right \in Seq(Item)
         /\ Distinct(left \o right)
         /\ IdsOf(left \o right) = IdsOf(left) \cup IdsOf(right)
         /\ \A k \in 1..Len(left \o right) :
              \/ \E m \in 1..Len(left) : (left \o right)[k] = left[m]
              \/ \E m \in 1..Len(right) : (left \o right)[k] = right[m]
<1> DEFINE all == left \o right
<1>1. /\ all \in Seq(Item) /\ Len(all) = Len(left) + Len(right)
      /\ \A k \in 1..Len(all) :
           all[k] = IF k <= Len(left) THEN left[k] ELSE right[k - Len(left)]
  BY ConcatProperties
<1>2. Len(left) \in Nat /\ Len(right) \in Nat
  OBVIOUS
<1> HIDE DEF all
<1>3. ASSUME NEW k \in 1..Len(all)
      PROVE  \/ k \in 1..Len(left) /\ all[k] = left[k]
             \/ /\ k - Len(left) \in 1..Len(right)
                /\ all[k] = right[k - Len(left)]
  BY <1>1, <1>2
<1>4. \A j \in 1..Len(left), k \in 1..Len(right) : left[j].id # right[k].id
  BY DEF IdsOf
<1>5. Distinct(all)
  <2> SUFFICES ASSUME NEW j \in 1..Len(all), NEW k \in 1..Len(all),
                      all[j].id = all[k].id
               PROVE  j = k
    BY DEF Distinct
  <2>1. \/ j \in 1..Len(left) /\ k \in 1..Len(left) /\ left[j].id = left[k].id
        \/ /\ j - Len(left) \in 1..Len(right) /\ k - Len(left) \in 1..Len(right)
           /\ right[j - Len(left)].id = right[k - Len(left)].id
    BY <1>3, <1>4
  <2>2. j - Len(left) = k - Len(left) => j = k
    BY <1>2
  <2> QED
    BY <2>1, <2>2 DEF Distinct
<1>6. ASSUME NEW k \in 1..Len(left) PROVE k \in 1..Len(all) /\ all[k] = left[k]
  BY <1>1, <1>2
<1>7. ASSUME NEW k \in 1..Len(right)
      PROVE  k + Len(left) \in 1..Len(all) /\ all[k + Len(left)] = right[k]
  <2>1. k + Len(left) \in 1..Len(all) /\ ~(k + Len(left) <= Len(left))
    BY <1>1, <1>2
  <2>2. (k + Len(left)) - Len(left) = k
    BY <1>2
  <2> QED
    BY <1>1, <2>1, <2>2
<1>8. IdsOf(all) = IdsOf(left) \cup IdsOf(right)
  <2>1. IdsOf(all) \subseteq IdsOf(left) \cup IdsOf(right)
    BY <1>3 DEF IdsOf
  <2>2. IdsOf(left) \subseteq IdsOf(all)
    BY <1>6 DEF IdsOf
  <2>3. IdsOf(right) \subseteq IdsOf(all)
    BY <1>7 DEF IdsOf
  <2> QED
    BY <2>1, <2>2, <2>3
<1> QED
  BY <1>1, <1>3, <1>5, <1>8 DEF all

\* A sequence of one item.
LEMMA SingleItem ==
  ASSUME NEW item \in Item
  PROVE  <<item>> \in Seq(Item) /\ Distinct(<<item>>) /\ IdsOf(<<item>>) = {item.id}
BY DEF Distinct, IdsOf

\* push_history of an item that is not in history yet.
LEMMA PushHistoryEntries ==
  ASSUME NEW entries \in Seq(Item), NEW item \in Item,
         Distinct(entries), item.id \notin IdsOf(entries)
  PROVE  /\ PushHistory(entries, item) \in Seq(Item)
         /\ Distinct(PushHistory(entries, item))
         /\ Len(PushHistory(entries, item)) <= HistoryLimit
         /\ \A k \in 1..Len(PushHistory(entries, item)) :
              \/ PushHistory(entries, item)[k] = item
              \/ \E m \in 1..Len(entries) :
                   PushHistory(entries, item)[k] = entries[m]
<1> DEFINE all == <<item>> \o entries
<1>1. /\ all \in Seq(Item) /\ Distinct(all)
      /\ \A k \in 1..Len(all) :
           \/ \E m \in 1..Len(<<item>>) : all[k] = <<item>>[m]
           \/ \E m \in 1..Len(entries) : all[k] = entries[m]
  <2>1. /\ <<item>> \in Seq(Item) /\ Distinct(<<item>>)
        /\ IdsOf(<<item>>) \cap IdsOf(entries) = {}
    BY SingleItem
  <2> QED
    BY <2>1, ConcatDistinct
<1>2. \A m \in 1..Len(<<item>>) : <<item>>[m] = item
  OBVIOUS
<1>3. PushHistory(entries, item) = Truncated(all)
  BY DEF PushHistory
<1> HIDE DEF all
<1>4. /\ Truncated(all) \in Seq(Item) /\ Distinct(Truncated(all))
      /\ Len(Truncated(all)) <= HistoryLimit /\ Keeps(Truncated(all), all)
  BY <1>1, KeepsTruncated, KeepsDistinct
<1>5. \A k \in 1..Len(Truncated(all)) : \E n \in 1..Len(all) : Truncated(all)[k] = all[n]
  BY <1>4 DEF Keeps
<1> QED
  BY <1>1, <1>2, <1>3, <1>4, <1>5

\* The items of a sequence, skipped and in the reverse order.
LEMMA SkippedReverse ==
  ASSUME NEW items \in Seq(Item), Distinct(items)
  PROVE  /\ Reverse(AllSkipped(items)) \in Seq(Item)
         /\ Distinct(Reverse(AllSkipped(items)))
         /\ IdsOf(Reverse(AllSkipped(items))) \subseteq IdsOf(items)
         /\ \A k \in 1..Len(Reverse(AllSkipped(items))) :
              Reverse(AllSkipped(items))[k].status = "skipped"
<1> DEFINE skips == AllSkipped(items)
           back == Reverse(skips)
<1>1. /\ skips \in Seq(Item) /\ Len(skips) = Len(items)
      /\ \A k \in 1..Len(items) : skips[k] = Skipped(items[k])
  BY AllSkippedType DEF AllSkipped
<1>2. \A k \in 1..Len(items) : skips[k].id = items[k].id /\ skips[k].status = "skipped"
  <2> SUFFICES ASSUME NEW k \in 1..Len(items)
               PROVE  skips[k].id = items[k].id /\ skips[k].status = "skipped"
    OBVIOUS
  <2>1. items[k] \in Item
    OBVIOUS
  <2>2. Skipped(items[k]).status = "skipped"
    BY <2>1 DEF Skipped, Item
  <2> QED
    BY <1>1, <2>1, <2>2, SkippedType
<1> HIDE DEF skips
<1>3. /\ back \in Seq(Item) /\ Len(back) = Len(items)
      /\ \A k \in 1..Len(items) : /\ Len(items) - k + 1 \in 1..Len(items)
                                  /\ back[k] = skips[Len(items) - k + 1]
  BY <1>1 DEF Reverse
<1> HIDE DEF back
<1>4. \A k \in 1..Len(items) : back[k].id = items[Len(items) - k + 1].id
                               /\ back[k].status = "skipped"
  BY <1>2, <1>3
<1>5. Distinct(back)
  <2> SUFFICES ASSUME NEW j \in 1..Len(items), NEW k \in 1..Len(items),
                      back[j].id = back[k].id
               PROVE  j = k
    BY <1>3 DEF Distinct
  <2>1. /\ Len(items) - j + 1 \in 1..Len(items)
        /\ Len(items) - k + 1 \in 1..Len(items)
        /\ items[Len(items) - j + 1].id = items[Len(items) - k + 1].id
    BY <1>3, <1>4
  <2>2. Len(items) - j + 1 = Len(items) - k + 1
    BY <2>1 DEF Distinct
  <2> QED
    BY <2>2
<1>6. ASSUME NEW k \in 1..Len(back) PROVE back[k].id \in IdsOf(items)
  <2>1. Len(items) - k + 1 \in 1..Len(items)
    BY <1>3
  <2> QED
    BY <1>3, <1>4, <2>1 DEF IdsOf
<1> QED
  BY <1>3, <1>4, <1>5, <1>6 DEF back, skips, IdsOf

\* Pushing a sequence of skipped items that are not in history yet.
LEMMA PushAllEntries ==
  ASSUME NEW entries \in Seq(Item), NEW items \in Seq(Item),
         Distinct(entries), Distinct(items), IdsOf(items) \cap IdsOf(entries) = {}
  PROVE  /\ PushAll(entries, AllSkipped(items)) \in Seq(Item)
         /\ Distinct(PushAll(entries, AllSkipped(items)))
         /\ Len(PushAll(entries, AllSkipped(items))) <= HistoryLimit
         /\ \A k \in 1..Len(PushAll(entries, AllSkipped(items))) :
              \/ /\ PushAll(entries, AllSkipped(items))[k].id \in IdsOf(items)
                 /\ PushAll(entries, AllSkipped(items))[k].status = "skipped"
              \/ \E m \in 1..Len(entries) :
                   PushAll(entries, AllSkipped(items))[k] = entries[m]
<1> DEFINE back == Reverse(AllSkipped(items))
           all == back \o entries
<1>1. /\ back \in Seq(Item) /\ Distinct(back) /\ IdsOf(back) \subseteq IdsOf(items)
      /\ \A k \in 1..Len(back) : back[k].status = "skipped"
  BY SkippedReverse
<1>2. PushAll(entries, AllSkipped(items)) = Truncated(all)
  BY DEF PushAll
<1> HIDE DEF back
<1>3. /\ all \in Seq(Item) /\ Distinct(all)
      /\ \A k \in 1..Len(all) : \/ \E m \in 1..Len(back) : all[k] = back[m]
                                \/ \E m \in 1..Len(entries) : all[k] = entries[m]
  BY <1>1, ConcatDistinct
<1> HIDE DEF all
<1>4. /\ Truncated(all) \in Seq(Item) /\ Distinct(Truncated(all))
      /\ Len(Truncated(all)) <= HistoryLimit /\ Keeps(Truncated(all), all)
  BY <1>3, KeepsTruncated, KeepsDistinct
<1>5. \A k \in 1..Len(Truncated(all)) : \E n \in 1..Len(all) : Truncated(all)[k] = all[n]
  BY <1>4 DEF Keeps
<1>6. \A m \in 1..Len(back) : back[m].id \in IdsOf(items)
  BY <1>1 DEF IdsOf
<1>7. ASSUME NEW k \in 1..Len(Truncated(all))
      PROVE  \/ /\ Truncated(all)[k].id \in IdsOf(items)
                /\ Truncated(all)[k].status = "skipped"
             \/ \E m \in 1..Len(entries) : Truncated(all)[k] = entries[m]
  <2>1. PICK n \in 1..Len(all) : Truncated(all)[k] = all[n]
    BY <1>5
  <2>2. CASE \E m \in 1..Len(back) : all[n] = back[m]
    BY <1>1, <1>6, <2>1, <2>2
  <2>3. CASE \E m \in 1..Len(entries) : all[n] = entries[m]
    BY <2>1, <2>3
  <2> QED
    BY <1>3, <2>2, <2>3
<1> QED
  BY <1>2, <1>4, <1>7

\* The ids of a sequence of items were handed out by next_queue_id.
LEMMA IdsAreIds ==
  ASSUME NEW items \in Seq(Item)
  PROVE  \A i \in IdsOf(items) : i \in Ids /\ i \in Nat /\ i # 0
<1> SUFFICES ASSUME NEW k \in 1..Len(items)
             PROVE  items[k].id \in Ids /\ items[k].id \in Nat /\ items[k].id # 0
  BY DEF IdsOf
<1>1. items[k] \in Item
  OBVIOUS
<1> QED
  BY <1>1 DEF Item, Ids

\* Appending an item whose id is new.
LEMMA AppendEntries ==
  ASSUME NEW items \in Seq(Item), NEW item \in Item
  PROVE  /\ Append(items, item) \in Seq(Item)
         /\ Len(Append(items, item)) = Len(items) + 1
         /\ Append(items, item)[Len(items) + 1] = item
         /\ \A k \in 1..Len(items) : Append(items, item)[k] = items[k]
         /\ IdsOf(Append(items, item)) = IdsOf(items) \cup {item.id}
         /\ Distinct(items) /\ item.id \notin IdsOf(items) =>
              Distinct(Append(items, item))
<1> DEFINE more == Append(items, item)
<1>1. /\ more \in Seq(Item) /\ Len(more) = Len(items) + 1
      /\ more[Len(items) + 1] = item
      /\ \A k \in 1..Len(items) : more[k] = items[k]
  OBVIOUS
<1> HIDE DEF more
<1>2. \A k \in 1..Len(more) : k \in 1..Len(items) \/ k = Len(items) + 1
  BY <1>1
<1>3. 1..Len(items) \subseteq 1..Len(more) /\ Len(items) + 1 \in 1..Len(more)
  BY <1>1
<1>4. IdsOf(more) = IdsOf(items) \cup {item.id}
  <2>1. IdsOf(more) \subseteq IdsOf(items) \cup {item.id}
    BY <1>1, <1>2 DEF IdsOf
  <2>2. IdsOf(items) \subseteq IdsOf(more)
    BY <1>1, <1>3 DEF IdsOf
  <2>3. item.id \in IdsOf(more)
    BY <1>1, <1>3 DEF IdsOf
  <2> QED
    BY <2>1, <2>2, <2>3
<1>5. ASSUME Distinct(items), item.id \notin IdsOf(items) PROVE Distinct(more)
  BY <1>1, <1>2, <1>5 DEF Distinct, IdsOf
<1> QED
  BY <1>1, <1>4, <1>5 DEF more

-----------------------------------------------------------------------------
(***************************************************************************)
(* The places an item can be in, and the steps that move items.            *)
(***************************************************************************)

\* The form of UniqueIds that is inductive: an id was handed out before it is
\* anywhere, and it is in one place and once in it.
PlacesInv ==
  /\ Distinct(pending) /\ Distinct(history)
  /\ IdsOf(pending) \cap IdsOf(history) = {}
  /\ inFlight.id \notin IdsOf(pending) \cup IdsOf(history)
  /\ \A i \in IdsOf(pending) \cup IdsOf(history) \cup {inFlight.id} : i < nextId

\* An entry that a step adds to history: an item that was in the queue and no
\* longer is, or one that was rejected on arrival.  A failure is recorded of
\* the item in flight only, by the worker that lets go of it.
NewEntry(entry) ==
  /\ entry.id \in IdsOf(pending) \cup {inFlight.id, nextId}
  /\ entry.id \notin IdsOf(pending') \cup {inFlight'.id}
  /\ entry.id < nextId'
  /\ entry.status = "error" =>
       entry.id = inFlight.id /\ \A w \in Workers : ~Owns(w)'

\* A step after which items have left the queue or the history, and none came.
Leaving ==
  /\ Keeps(pending', pending)
  /\ inFlight' \in {inFlight, NoItem}
  /\ nextId' >= nextId
  /\ Distinct(history')
  /\ \A k \in 1..Len(history') :
       \/ \E m \in 1..Len(history) : history'[k] = history[m]
       \/ NewEntry(history'[k])
  /\ UNCHANGED <<asked, tries, lastStarted>>

\* enqueue_message: the oldest items make room for the new one.
Accepting ==
  /\ nextId \in Ids /\ nextId' = nextId + 1 /\ inFlight' = inFlight
  /\ \E kept \in Seq(Item) :
       /\ Keeps(kept, pending)
       /\ pending' = Append(kept, NewItem(nextId, "queued"))
       /\ \A k \in 1..Len(history') :
            \/ \E m \in 1..Len(history) : history'[k] = history[m]
            \/ /\ history'[k].id \in IdsOf(pending) \ IdsOf(kept)
               /\ history'[k].status = "skipped"
  /\ Distinct(history')

\* speech_queue_retry: an entry of history goes back to the end of pending.
Returning(i) ==
  /\ \E k \in 1..Len(history) : history[k].id = i /\ history[k].status = "error"
  /\ Keeps(history', history) /\ i \notin IdsOf(history')
  /\ pending' = Append(pending, NewItem(i, "queued"))
  /\ inFlight' = inFlight /\ nextId' = nextId

\* Nothing moves.
LEMMA NothingLeaves ==
  ASSUME TypeOK, PlacesInv, UNCHANGED <<pending, inFlight, history, nextId>>,
         UNCHANGED askVars
  PROVE  Leaving
BY KeepsTrivially DEF Leaving, TypeOK, PlacesInv, askVars

\* The item in flight ends in history, with whatever status.
LEMMA FlightEnds ==
  ASSUME TypeOK, PlacesInv, inFlight \in Item, inFlight' = NoItem,
         UNCHANGED <<pending, nextId>>, UNCHANGED askVars,
         NEW entry \in Item, entry.id = inFlight.id,
         entry.status = "error" => \A w \in Workers : ~Owns(w)',
         history' = PushHistory(history, entry)
  PROVE  Leaving /\ Len(history') <= HistoryLimit
<1>1. entry.id \notin IdsOf(history) /\ Distinct(history) /\ history \in Seq(Item)
  BY DEF PlacesInv, TypeOK
<1>2. /\ Distinct(history') /\ Len(history') <= HistoryLimit
      /\ \A k \in 1..Len(history') :
           \/ history'[k] = entry
           \/ \E m \in 1..Len(history) : history'[k] = history[m]
  BY <1>1, PushHistoryEntries
<1>3. NewEntry(entry)
  <2>1. entry.id \in Ids /\ inFlight'.id = 0 /\ nextId' = nextId
    BY NoItemIsNone DEF Item
  <2>2. entry.id \notin IdsOf(pending') /\ entry.id < nextId
    BY DEF PlacesInv
  <2> QED
    BY <2>1, <2>2 DEF NewEntry, Owns, Ids
<1> QED
  BY <1>2, <1>3, KeepsTrivially DEF Leaving, TypeOK, askVars

\* An item leaves pending and ends in history as skipped.
LEMMA PendingLeaves ==
  ASSUME TypeOK, PlacesInv, UNCHANGED <<inFlight, nextId>>, UNCHANGED askVars,
         NEW k \in 1..Len(pending), pending' \in Seq(Item),
         Keeps(pending', pending), pending[k].id \notin IdsOf(pending'),
         history' = PushHistory(history, Skipped(pending[k]))
  PROVE  Leaving /\ Len(history') <= HistoryLimit
<1> DEFINE entry == Skipped(pending[k])
<1>1. pending[k] \in Item /\ pending[k].id \in IdsOf(pending)
  BY DEF TypeOK, IdsOf
<1>2. entry \in Item /\ entry.id = pending[k].id /\ entry.status # "error"
  <2>1. entry.status = "skipped"
    BY <1>1 DEF Skipped, Item
  <2> QED
    BY <1>1, <2>1, SkippedType
<1>3. history' = PushHistory(history, entry)
  OBVIOUS
<1> HIDE DEF entry
<1>4. entry.id \notin IdsOf(history) /\ Distinct(history) /\ history \in Seq(Item)
  BY <1>1, <1>2 DEF PlacesInv, TypeOK
<1>5. /\ Distinct(history') /\ Len(history') <= HistoryLimit
      /\ \A j \in 1..Len(history') :
           \/ history'[j] = entry
           \/ \E m \in 1..Len(history) : history'[j] = history[m]
  BY <1>2, <1>3, <1>4, PushHistoryEntries
<1>6. NewEntry(entry)
  BY <1>1, <1>2 DEF NewEntry, PlacesInv
<1> QED
  BY <1>5, <1>6, SMTT(30) DEF Leaving, TypeOK, askVars

\* The history loses entries.
LEMMA HistoryShrinks ==
  ASSUME TypeOK, PlacesInv, UNCHANGED <<pending, inFlight, nextId>>,
         UNCHANGED askVars, history' \in Seq(Item), Keeps(history', history)
  PROVE  Leaving
<1>1. Distinct(history')
  BY KeepsDistinct DEF TypeOK, PlacesInv
<1>2. \A k \in 1..Len(history') : \E m \in 1..Len(history) : history'[k] = history[m]
  BY DEF Keeps
<1> QED
  BY <1>1, <1>2, KeepsTrivially DEF Leaving, TypeOK, askVars

\* A message is rejected on arrival.
LEMMA RejectedLeaves ==
  ASSUME TypeOK, PlacesInv, NEW status \in {"skipped", "blocked"},
         EnqueueRejected(status)
  PROVE  Leaving /\ Len(history') <= HistoryLimit
<1> DEFINE entry == NewItem(nextId, status)
<1>1. nextId \in Ids /\ nextId \in Nat
  BY DEF EnqueueRejected, TypeOK, Ids
<1>2. entry \in Item /\ entry.id = nextId /\ entry.status # "error"
  BY <1>1, NewItemType DEF NewItem, Statuses
<1>3. /\ history' = PushHistory(history, entry) /\ nextId' = nextId + 1
      /\ UNCHANGED <<pending, inFlight, asked, tries, lastStarted>>
  BY Groups DEF EnqueueRejected, askVars
<1> HIDE DEF entry
<1>4. /\ entry.id \notin IdsOf(history) \cup IdsOf(pending) \cup {inFlight.id}
      /\ Distinct(history) /\ history \in Seq(Item)
  BY <1>1, <1>2 DEF PlacesInv, TypeOK
<1>5. /\ Distinct(history') /\ Len(history') <= HistoryLimit
      /\ \A j \in 1..Len(history') :
           \/ history'[j] = entry
           \/ \E m \in 1..Len(history) : history'[j] = history[m]
  BY <1>2, <1>3, <1>4, PushHistoryEntries
<1>6. NewEntry(entry)
  BY <1>1, <1>2, <1>3, <1>4 DEF NewEntry
<1> QED
  BY <1>1, <1>3, <1>5, <1>6, KeepsTrivially DEF Leaving, TypeOK

\* A removal takes the item in flight or one that is pending.
LEMMA RemovedLeaves ==
  ASSUME TypeOK, PlacesInv, NEW i \in Ids, RemoveItem(i)
  PROVE  Leaving /\ Len(history') <= HistoryLimit
<1>1. UNCHANGED nextId /\ UNCHANGED askVars
  BY DEF RemoveItem
<1>2. CASE inFlight.id = i
  <2>1. inFlight \in Item
    BY <1>2, NoItemIsNone DEF TypeOK, Ids
  <2>2. /\ inFlight' = NoItem /\ pending' = pending
        /\ history' = PushHistory(history, Skipped(inFlight))
    BY <1>2 DEF RemoveItem, CancelInFlight
  <2>3. Skipped(inFlight).status = "skipped"
    BY <2>1 DEF Skipped, Item
  <2> QED
    BY <1>1, <2>1, <2>2, <2>3, SkippedType, FlightEnds
<1>3. CASE inFlight.id # i
  <2>1. PICK k \in 1..Len(pending) :
          /\ pending' = RemoveAt(pending, k)
          /\ history' = PushHistory(history, Skipped(pending[k]))
    BY <1>3 DEF RemoveItem
  <2>2. inFlight' = inFlight /\ pending \in Seq(Item) /\ Distinct(pending)
    BY <1>3 DEF RemoveItem, TypeOK, PlacesInv
  <2>3. /\ pending' \in Seq(Item) /\ Keeps(pending', pending)
        /\ pending[k].id \notin IdsOf(pending')
    BY <2>1, <2>2, KeepsRemoveAt, RemoveAtType
  <2> QED
    BY <1>1, <2>1, <2>2, <2>3, PendingLeaves
<1> QED
  BY <1>2, <1>3

\* apply_control: what is skipped or cleared leaves for history.
LEMMA AppliedLeaves ==
  ASSUME TypeOK, PlacesInv, NEW c \in Controls, ApplyControl(c)
  PROVE  Leaving /\ (Len(history') <= HistoryLimit \/ history' = history)
<1>1. UNCHANGED nextId /\ UNCHANGED askVars
  BY DEF ApplyControl
<1>2. CASE UNCHANGED <<pending, inFlight, history>>
  BY <1>1, <1>2, NothingLeaves
<1>3. CASE inFlight # NoItem /\ CancelInFlight /\ pending' = pending
  <2>1. inFlight \in Item
    BY <1>3 DEF TypeOK
  <2>2. /\ inFlight' = NoItem
        /\ history' = PushHistory(history, Skipped(inFlight))
    BY <1>3 DEF CancelInFlight
  <2>3. Skipped(inFlight).status = "skipped"
    BY <2>1 DEF Skipped, Item
  <2> QED
    BY <1>1, <1>3, <2>1, <2>2, <2>3, SkippedType, FlightEnds
<1>4. CASE /\ pending # <<>> /\ pending' = Tail(pending) /\ inFlight' = inFlight
           /\ history' = PushHistory(history, Skipped(Head(pending)))
  <2>1. pending \in Seq(Item) /\ Distinct(pending)
    BY DEF TypeOK, PlacesInv
  <2>2. /\ 1 \in 1..Len(pending) /\ Head(pending) = pending[1]
        /\ pending' \in Seq(Item)
    BY <1>4, <2>1, HeadTailType
  <2>3. Keeps(pending', pending) /\ pending[1].id \notin IdsOf(pending')
    BY <1>4, <2>1, <2>2, KeepsTail
  <2> QED
    BY <1>1, <1>4, <2>2, <2>3, PendingLeaves
<1>5. CASE ClearPending
  <2> DEFINE current == IF inFlight = NoItem THEN <<>> ELSE <<inFlight>>
             all == current \o pending
  <2>1. /\ inFlight' = NoItem /\ pending' = <<>>
        /\ history' = PushAll(history, AllSkipped(all))
    BY <1>5 DEF ClearPending
  <2>2. /\ pending \in Seq(Item) /\ history \in Seq(Item)
        /\ Distinct(pending) /\ Distinct(history)
        /\ IdsOf(pending) \cap IdsOf(history) = {}
    BY DEF TypeOK, PlacesInv
  <2>3. /\ current \in Seq(Item) /\ Distinct(current)
        /\ IdsOf(current) \subseteq {inFlight.id}
    <3>1. CASE inFlight = NoItem
      BY <3>1 DEF Distinct, IdsOf
    <3>2. CASE inFlight # NoItem
      BY <3>2, SingleItem DEF TypeOK
    <3> QED
      BY <3>1, <3>2
  <2> HIDE DEF current
  <2>4. IdsOf(current) \cap IdsOf(pending) = {} /\ IdsOf(current) \cap IdsOf(history) = {}
    BY <2>3 DEF PlacesInv
  <2>5. /\ all \in Seq(Item) /\ Distinct(all)
        /\ IdsOf(all) = IdsOf(current) \cup IdsOf(pending)
    BY <2>2, <2>3, <2>4, ConcatDistinct
  <2> HIDE DEF all
  <2>6. IdsOf(all) \cap IdsOf(history) = {}
    BY <2>2, <2>4, <2>5
  <2>7. /\ Distinct(history') /\ Len(history') <= HistoryLimit
        /\ \A k \in 1..Len(history') :
             \/ history'[k].id \in IdsOf(all) /\ history'[k].status = "skipped"
             \/ \E m \in 1..Len(history) : history'[k] = history[m]
    BY <2>1, <2>2, <2>5, <2>6, PushAllEntries
  <2>8. ASSUME NEW entry, entry.id \in IdsOf(all), entry.status = "skipped"
        PROVE  NewEntry(entry)
    <3>1. entry.id \in Ids /\ IdsOf(pending') = {}
      <4>1. PICK k \in 1..Len(all) : entry.id = all[k].id
        BY <2>8 DEF IdsOf
      <4>2. all[k] \in Item
        BY <2>5
      <4> QED
        BY <2>1, <4>1, <4>2 DEF IdsOf, Item
    <3>2. entry.id \in IdsOf(pending) \cup {inFlight.id} /\ entry.id < nextId
      BY <2>3, <2>5, <2>8 DEF PlacesInv
    <3> QED
      BY <1>1, <2>1, <2>8, <3>1, <3>2, NoItemIsNone DEF NewEntry, Ids
  <2>9. \A k \in 1..Len(history') :
           \/ \E m \in 1..Len(history) : history'[k] = history[m]
           \/ NewEntry(history'[k])
    BY <2>7, <2>8
  <2>10. Keeps(pending', pending) /\ nextId \in Nat
    BY <2>1, <2>2, KeepsTrivially DEF TypeOK
  <2> QED
    BY <1>1, <2>1, <2>7, <2>9, <2>10 DEF Leaving, askVars
<1> QED
  BY <1>2, <1>3, <1>4, <1>5 DEF ApplyControl, SkipCurrent

\* The settlements of a worker that bring the item in flight to history, or
\* find that it is no longer in flight.
LEMMA SettledLeaves ==
  ASSUME IInv, PlacesInv, NEW w \in Workers,
         SettleCompleted(w) \/ SettleUnconfirmed(w) \/ SettleFailed(w)
  PROVE  Leaving /\ (Len(history') <= HistoryLimit \/ history' = history)
<1>1. TypeOK /\ wpc[w] = "settle" /\ wpc' = [wpc EXCEPT ![w] = "drop"]
  BY DEF IInv, SettleCompleted, SettleUnconfirmed, SettleFailed
<1>2. UNCHANGED nextId /\ UNCHANGED askVars
  BY DEF SettleCompleted, SettleUnconfirmed, SettleFailed
<1>3. \A v \in Workers : ~Owns(v)'
  <2>1. \A v \in Workers : v # w => wpc[v] = "idle"
    BY <1>1 DEF IInv, SingleWorker, Running
  <2> QED
    BY <1>1, <2>1 DEF Owns, TypeOK
<1>4. CASE UNCHANGED <<pending, inFlight, history>>
  BY <1>1, <1>2, <1>4, NothingLeaves
<1>5. ASSUME NEW status \in Statuses, NEW retryCount \in 0..1,
             NEW delivery \in DeliveryStates, inFlight.id = request[w],
             Conclude(status, retryCount, delivery)
      PROVE  Leaving /\ Len(history') <= HistoryLimit
  <2> DEFINE entry == [inFlight EXCEPT !.status = status,
                         !.retryCount = retryCount, !.delivery = delivery]
  <2>1. inFlight \in Item
    BY <1>1, <1>5, SettledItem DEF IInv
  <2>2. entry \in Item /\ entry.id = inFlight.id
    BY <2>1 DEF Item
  <2>3. /\ inFlight' = NoItem /\ pending' = pending
        /\ history' = PushHistory(history, entry)
    BY <1>5 DEF Conclude
  <2> HIDE DEF entry
  <2> QED
    BY <1>1, <1>2, <1>3, <2>1, <2>2, <2>3, FlightEnds
<1>6. /\ {"spoken", "error"} \subseteq Statuses
      /\ "retryExhausted" \in DeliveryStates /\ 1 \in 0..1
  BY DEF Statuses, DeliveryStates
<1>7. inFlight \in Item =>
        inFlight.retryCount \in 0..1 /\ inFlight.delivery \in DeliveryStates
  BY DEF Item
<1>8. inFlight.id = request[w] => inFlight \in Item
  BY <1>1, SettledItem DEF IInv
<1> QED
  BY <1>4, <1>5, <1>6, <1>7, <1>8
  DEF SettleCompleted, SettleUnconfirmed, SettleFailed

\* enqueue_message: the items that make room and the ones that stay.
LEMMA AcceptedComes ==
  ASSUME TypeOK, PlacesInv, EnqueueAccepted
  PROVE  Accepting /\ Len(history') <= HistoryLimit
<1> DEFINE dropped == Overflow(Len(pending), InFlightCount(inFlight))
           kept == SubSeq(pending, dropped + 1, Len(pending))
           gone == SubSeq(pending, 1, dropped)
<1>1. /\ pending \in Seq(Item) /\ Distinct(pending)
      /\ history \in Seq(Item) /\ Distinct(history)
      /\ IdsOf(pending) \cap IdsOf(history) = {}
  BY DEF TypeOK, PlacesInv
<1>2. dropped \in 0..Len(pending)
  BY <1>1, SpeechItemsAssumption DEF Overflow, InFlightCount
<1>3. /\ history' = PushAll(history, AllSkipped(gone))
      /\ pending' = Append(kept, NewItem(nextId, "queued"))
      /\ nextId \in Ids /\ nextId' = nextId + 1 /\ inFlight' = inFlight
  BY DEF EnqueueAccepted, TypeOK, Ids
<1>4. /\ kept \in Seq(Item) /\ Len(kept) = Len(pending) - dropped
      /\ \A k \in 1..Len(kept) : kept[k] = pending[dropped + k]
      /\ gone \in Seq(Item) /\ Len(gone) = dropped
      /\ \A k \in 1..Len(gone) : gone[k] = pending[k]
  BY <1>1, <1>2
<1>5. Keeps(kept, pending) /\ Keeps(gone, pending)
  <2>1. dropped + 1 \in 1..(Len(pending) + 1) /\ 1 \in 1..(Len(pending) + 1)
    BY <1>1, <1>2
  <2> QED
    BY <1>1, <1>2, <2>1, KeepsSubSeq
<1> HIDE DEF kept, gone, dropped
<1>6. Distinct(gone) /\ IdsOf(gone) \subseteq IdsOf(pending)
  BY <1>1, <1>4, <1>5, KeepsDistinct
<1>7. ASSUME NEW j \in 1..Len(gone), NEW k \in 1..Len(kept),
             gone[j].id = kept[k].id
      PROVE  FALSE
  <2>1. /\ j \in 1..Len(pending) /\ dropped + k \in 1..Len(pending)
        /\ j # dropped + k
    BY <1>1, <1>2, <1>4
  <2> QED
    BY <1>1, <1>4, <1>7, <2>1 DEF Distinct
<1>8. IdsOf(gone) \cap IdsOf(kept) = {}
  BY <1>7 DEF IdsOf
<1>9. /\ Distinct(history') /\ Len(history') <= HistoryLimit
      /\ \A k \in 1..Len(history') :
           \/ history'[k].id \in IdsOf(gone) /\ history'[k].status = "skipped"
           \/ \E m \in 1..Len(history) : history'[k] = history[m]
  BY <1>1, <1>3, <1>4, <1>6, PushAllEntries, SMTT(30)
<1> QED
  BY <1>3, <1>4, <1>5, <1>6, <1>8, <1>9 DEF Accepting

\* retry_exhausted_item: the entry leaves history.
LEMMA RetriedReturns ==
  ASSUME TypeOK, PlacesInv, NEW i \in Ids, RetryExhaustedItem(i)
  PROVE  Returning(i) /\ Len(history') = Len(history) - 1
<1>1. PICK k \in 1..Len(history) :
        /\ history[k].id = i /\ IsExhausted(history[k])
        /\ history' = RemoveAt(history, k)
  BY DEF RetryExhaustedItem
<1>2. history \in Seq(Item) /\ Distinct(history)
  BY DEF TypeOK, PlacesInv
<1>3. /\ Keeps(history', history) /\ i \notin IdsOf(history')
      /\ Len(history') = Len(history) - 1
  BY <1>1, <1>2, KeepsRemoveAt, RemoveAtType
<1>4. history[k].status = "error"
  BY <1>1 DEF IsExhausted
<1> QED
  BY <1>1, <1>3, <1>4 DEF RetryExhaustedItem, Returning

\* Every step either lets items go or is one of the five that bring an item
\* into the queue or move it within.
LEMMA Moves ==
  ASSUME IInv, PlacesInv, [Next]_vars
  PROVE  \/ Leaving
         \/ EnqueueAccepted /\ Accepting
         \/ \E i \in Ids : RetryExhaustedItem(i) /\ Returning(i)
         \/ \E w \in Workers : \/ WorkerReserves(w)
                               \/ SettleWithRetry(w)
                               \/ ActivateScheduledRetry(w)
<1> USE DEF IInv
<1>1. UNCHANGED <<pending, inFlight, history, nextId, askVars>> => Leaving
  BY NothingLeaves
<1>2. CASE QueueStep
  <2>1. ASSUME NEW i \in Ids, DismissHistoryItem(i) PROVE Leaving
    <3>1. PICK k \in 1..Len(history) : history' = RemoveAt(history, k)
      BY <2>1 DEF DismissHistoryItem
    <3>2. history' \in Seq(Item) /\ Keeps(history', history)
      BY <3>1, KeepsRemoveAt, RemoveAtType DEF TypeOK
    <3> QED
      BY <2>1, <3>2, HistoryShrinks DEF DismissHistoryItem
  <2>2. ASSUME DismissHistory PROVE Leaving
    <3>1. history' \in Seq(Item) /\ Keeps(history', history)
      BY <2>2, KeepsTrivially DEF DismissHistory, TypeOK
    <3> QED
      BY <2>2, <3>1, HistoryShrinks DEF DismissHistory
  <2> QED
    BY <1>2, <2>1, <2>2, RejectedLeaves, RemovedLeaves, AcceptedComes,
       RetriedReturns DEF QueueStep
<1>3. ASSUME NEW w \in Workers, WorkerStep(w)
      PROVE  \/ Leaving \/ WorkerReserves(w) \/ SettleWithRetry(w)
             \/ ActivateScheduledRetry(w)
  <2>1. CASE SettleCompleted(w) \/ SettleUnconfirmed(w) \/ SettleFailed(w)
    BY <2>1, SettledLeaves
  <2> QED
    BY <1>1, <1>3, <2>1, Groups
    DEF WorkerStep, WorkerFindsControl, WorkerPassesBarrier, WorkerStops,
        WorkerSelects, WorkerSelectFails, SpeakAccepted, SpeakRefused,
        SpeakUncertain, PlaybackCompleted, PlaybackUnconfirmed,
        WorkerReconciles, DropPlayback
<1>4. ASSUME NEW c \in Controls,
             ControlStep(c) \/ \E cmd \in Commands : BeginControl(c, cmd)
      PROVE  Leaving
  BY <1>1, <1>4, AppliedLeaves, Groups
  DEF ControlStep, BeginControl, LockControl, LockControlFails,
      RemoteControlSucceeds, RemoteControlFails, CancelControl
<1>5. CASE SurroundingStep
  BY <1>1, <1>5, Groups
  DEF SurroundingStep, ProbeLocks, ProbeUnlocks, SaveSettings, UtteranceEnds
<1>6. CASE UNCHANGED vars
  BY <1>1, <1>6, Groups DEF vars
<1> QED
  BY <1>2, <1>3, <1>4, <1>5, <1>6 DEF Next

-----------------------------------------------------------------------------
(***************************************************************************)
(* One place for every id.                                                 *)
(***************************************************************************)

\* What the five moves do to the places.
LEMMA ReservedPlaces ==
  ASSUME TypeOK, PlacesInv, NEW w \in Workers, WorkerReserves(w)
  PROVE  /\ Head(pending) \in Item /\ inFlight'.id = Head(pending).id
         /\ inFlight'.retryCount = Head(pending).retryCount
         /\ Head(pending).id \in IdsOf(pending)
         /\ Head(pending).id \notin IdsOf(pending')
         /\ Keeps(pending', pending) /\ Head(pending) = pending[1]
         /\ Len(pending) >= 1 /\ Len(pending') = Len(pending) - 1
         /\ \A k \in 1..Len(pending') : pending'[k] = pending[k + 1]
         /\ inFlight = NoItem /\ history' = history /\ nextId' = nextId
<1>1. pending \in Seq(Item) /\ pending # <<>> /\ Distinct(pending)
  BY DEF TypeOK, PlacesInv, WorkerReserves, MayReserve, HasAutoProcessableItem
<1>2. /\ pending' = Tail(pending) /\ inFlight = NoItem
      /\ inFlight' = [Head(pending) EXCEPT !.status = "speaking"]
      /\ history' = history /\ nextId' = nextId
  BY DEF WorkerReserves, MayReserve, HasAutoProcessableItem
<1>3. /\ Head(pending) \in Item /\ Head(pending) = pending[1]
      /\ Len(pending) >= 1 /\ Len(pending') = Len(pending) - 1
      /\ \A k \in 1..Len(pending') : pending'[k] = pending[k + 1]
  BY <1>1, <1>2, HeadTailType
<1>4. /\ inFlight'.id = Head(pending).id
      /\ inFlight'.retryCount = Head(pending).retryCount
  BY <1>2, <1>3 DEF Item
<1>5. Head(pending).id \in IdsOf(pending)
  BY <1>1, <1>3 DEF IdsOf
<1>6. Keeps(pending', pending) /\ Head(pending).id \notin IdsOf(pending')
  BY <1>1, <1>2, KeepsTail
<1> QED
  BY <1>2, <1>3, <1>4, <1>5, <1>6

LEMMA RetryPlaces ==
  ASSUME TypeOK, RequestInv, PlacesInv, NEW w \in Workers, SettleWithRetry(w)
  PROVE  /\ inFlight \in Item /\ inFlight.id = request[w]
         /\ inFlight' = NoItem /\ history' = history /\ nextId' = nextId
         /\ Len(pending') = Len(pending) + 1
         /\ pending'[1] \in Item
         /\ pending'[1].id = inFlight.id /\ pending'[1].retryCount = 1
         /\ inFlight.retryCount = 0
         /\ \A k \in 2..Len(pending') : pending'[k] = pending[k - 1]
         /\ IdsOf(pending') = IdsOf(pending) \cup {inFlight.id}
         /\ Distinct(pending')
<1> DEFINE again == [inFlight EXCEPT !.status = "queued", !.retryCount = 1,
                                     !.delivery = "retryScheduled"]
<1>1. inFlight \in Item /\ inFlight.id = request[w]
  BY SettledItem DEF SettleWithRetry
<1>2. /\ again \in Item /\ again.id = inFlight.id /\ again.retryCount = 1
  <2>1. /\ "queued" \in Statuses /\ 1 \in 0..1
        /\ "retryScheduled" \in DeliveryStates
    BY DEF Statuses, DeliveryStates
  <2> QED
    BY <1>1, <2>1 DEF Item
<1>3. /\ pending' = <<again>> \o pending /\ inFlight' = NoItem
      /\ history' = history /\ nextId' = nextId /\ inFlight.retryCount = 0
  BY DEF SettleWithRetry, Requeued, HasRetryLeft
<1> HIDE DEF again
<1>4. pending \in Seq(Item) /\ Distinct(pending) /\ inFlight.id \notin IdsOf(pending)
  BY DEF TypeOK, PlacesInv
<1>5. /\ Len(pending') = Len(pending) + 1 /\ pending'[1] = again
      /\ \A k \in 2..Len(pending') : pending'[k] = pending[k - 1]
  BY <1>2, <1>3, <1>4, PrependType
<1>6. <<again>> \in Seq(Item) /\ Distinct(<<again>>) /\ IdsOf(<<again>>) = {again.id}
  BY <1>2, SingleItem
<1>7. IdsOf(pending') = IdsOf(pending) \cup {inFlight.id} /\ Distinct(pending')
  <2>1. IdsOf(<<again>>) \cap IdsOf(pending) = {}
    BY <1>2, <1>4, <1>6
  <2>2. /\ Distinct(<<again>> \o pending)
        /\ IdsOf(<<again>> \o pending) = IdsOf(<<again>>) \cup IdsOf(pending)
    BY <1>4, <1>6, <2>1, ConcatDistinct
  <2> QED
    BY <1>2, <1>3, <1>6, <2>2
<1> QED
  BY <1>1, <1>2, <1>3, <1>5, <1>7

LEMMA ActivatedPlaces ==
  ASSUME TypeOK, NEW w \in Workers, ActivateScheduledRetry(w)
  PROVE  /\ UNCHANGED <<inFlight, history, nextId>>
         /\ Len(pending') = Len(pending)
         /\ \A k \in 1..Len(pending) :
              /\ pending'[k].id = pending[k].id
              /\ pending'[k].retryCount = pending[k].retryCount
         /\ IdsOf(pending') = IdsOf(pending)
         /\ Distinct(pending) => Distinct(pending')
<1>1. /\ pending' = Activated(pending, request[w]) /\ request[w] \in Nat
      /\ pending \in Seq(Item) /\ UNCHANGED <<inFlight, history, nextId>>
  BY DEF ActivateScheduledRetry, TypeOK, Ids
<1>2. /\ Len(pending') = Len(pending)
      /\ \A k \in 1..Len(pending) : /\ pending'[k].id = pending[k].id
                                    /\ k # 1 => pending'[k] = pending[k]
  BY <1>1, ActivatedType
<1>3. \A k \in 1..Len(pending) : pending'[k].retryCount = pending[k].retryCount
  <2>1. CASE pending' = pending
    BY <2>1
  <2>2. CASE pending # <<>> /\ pending' = [pending EXCEPT ![1].delivery = "ready"]
    <3>1. 1 \in 1..Len(pending) /\ pending[1] \in Item
      BY <1>1, <2>2
    <3>2. pending'[1].retryCount = pending[1].retryCount
      BY <1>1, <2>2, <3>1 DEF Item
    <3> QED
      BY <1>2, <3>2
  <2> QED
    BY <1>1, <2>1, <2>2 DEF Activated
<1>4. IdsOf(pending') = IdsOf(pending)
  BY <1>2 DEF IdsOf
<1>5. Distinct(pending) => Distinct(pending')
  BY <1>2 DEF Distinct
<1> QED
  BY <1>1, <1>2, <1>3, <1>4, <1>5

LEMMA NextPlaces ==
  ASSUME IInv, PlacesInv, [Next]_vars
  PROVE  PlacesInv'
<1>1. TypeOK /\ TypeOK' /\ RequestInv /\ nextId \in Nat /\ nextId' \in Nat
  <2>1. TypeOK /\ TypeOK' /\ RequestInv
    BY NextIInv DEF IInv
  <2>2. nextId \in 1..(MaxId + 1) /\ nextId' \in 1..(MaxId + 1)
    BY <2>1 DEF TypeOK
  <2> QED
    BY <2>1, <2>2, SpeechItemsAssumption
<1>2. /\ pending \in Seq(Item) /\ history \in Seq(Item)
      /\ pending' \in Seq(Item) /\ history' \in Seq(Item)
  BY <1>1 DEF TypeOK
<1>3. \A i \in IdsOf(pending) \cup IdsOf(history) : i \in Ids /\ i # 0 /\ i \in Nat
  BY <1>2, IdsAreIds
<1>4. CASE Leaving
  <2>1. Distinct(pending') /\ IdsOf(pending') \subseteq IdsOf(pending) /\ Distinct(history')
    BY <1>2, <1>4, KeepsDistinct DEF Leaving, PlacesInv
  <2>2. inFlight'.id \in {inFlight.id, 0} /\ nextId' >= nextId
    BY <1>4, NoItemIsNone DEF Leaving
  <2>3. ASSUME NEW i \in IdsOf(history')
        PROVE  i \notin IdsOf(pending') \cup {inFlight'.id} /\ i < nextId'
    <3>1. PICK k \in 1..Len(history') : i = history'[k].id
      BY DEF IdsOf
    <3>2. CASE i \in IdsOf(history)
      BY <1>1, <1>3, <2>1, <2>2, <3>2 DEF PlacesInv
    <3>3. CASE NewEntry(history'[k])
      BY <3>1, <3>3 DEF NewEntry
    <3> QED
      BY <1>4, <3>1, <3>2, <3>3 DEF Leaving, IdsOf
  <2>4. inFlight'.id \notin IdsOf(pending')
    BY <1>3, <2>1, <2>2 DEF PlacesInv
  <2>5. \A i \in IdsOf(pending') \cup {inFlight'.id} : i < nextId'
    <3>1. \A i \in IdsOf(pending') : i \in Nat /\ i < nextId
      BY <1>3, <2>1 DEF PlacesInv
    <3>2. inFlight'.id \in Nat /\ inFlight'.id < nextId'
      <4>1. inFlight.id \in Nat /\ inFlight.id < nextId
        BY <1>1, NoItemIsNone, SMTT(30) DEF TypeOK, Item, Ids, PlacesInv
      <4> QED
        BY <1>1, <2>2, <4>1
    <3> QED
      BY <1>1, <2>2, <3>1, <3>2
  <2> QED
    BY <2>1, <2>3, <2>4, <2>5 DEF PlacesInv
<1>5. CASE Accepting
  <2>1. PICK kept \in Seq(Item) :
          /\ Keeps(kept, pending)
          /\ pending' = Append(kept, NewItem(nextId, "queued"))
          /\ \A k \in 1..Len(history') :
               \/ \E m \in 1..Len(history) : history'[k] = history[m]
               \/ history'[k].id \in IdsOf(pending) \ IdsOf(kept)
    BY <1>5 DEF Accepting
  <2>2. /\ nextId \in Ids /\ nextId' = nextId + 1 /\ inFlight' = inFlight
        /\ Distinct(history')
    BY <1>5 DEF Accepting
  <2>3. Distinct(kept) /\ IdsOf(kept) \subseteq IdsOf(pending)
    BY <1>2, <2>1, KeepsDistinct DEF PlacesInv
  <2>4. /\ NewItem(nextId, "queued") \in Item
        /\ NewItem(nextId, "queued").id = nextId
    BY <2>2, NewItemType DEF Statuses
  <2>5. nextId \notin IdsOf(pending) \cup IdsOf(history) \cup {inFlight.id}
    BY <1>1 DEF PlacesInv
  <2>6. /\ IdsOf(pending') = IdsOf(kept) \cup {nextId} /\ Distinct(pending')
    BY <2>1, <2>3, <2>4, <2>5, AppendEntries
  <2>7. IdsOf(history') \subseteq IdsOf(history) \cup (IdsOf(pending) \ IdsOf(kept))
    BY <2>1 DEF IdsOf
  <2>8. \A i \in IdsOf(pending') \cup IdsOf(history') \cup {inFlight'.id} : i < nextId'
    <3>1. \A i \in IdsOf(pending) \cup IdsOf(history) \cup {inFlight.id} :
            i \in Nat /\ i < nextId
      BY <1>1, <1>3, NoItemIsNone DEF PlacesInv, TypeOK, Item, Ids
    <3>2. \A i \in Nat : i < nextId => i < nextId'
      BY <1>1, <2>2
    <3>3. nextId < nextId'
      BY <1>1, <2>2
    <3> QED
      BY <2>2, <2>3, <2>6, <2>7, <3>1, <3>2, <3>3
  <2> QED
    BY <2>2, <2>3, <2>5, <2>6, <2>7, <2>8 DEF PlacesInv
<1>6. ASSUME NEW i \in Ids, Returning(i) PROVE PlacesInv'
  <2>1. /\ Keeps(history', history) /\ i \notin IdsOf(history')
        /\ pending' = Append(pending, NewItem(i, "queued"))
        /\ inFlight' = inFlight /\ nextId' = nextId
    BY <1>6 DEF Returning
  <2>2. i \in IdsOf(history)
    BY <1>6 DEF Returning, IdsOf
  <2>3. /\ NewItem(i, "queued") \in Item /\ NewItem(i, "queued").id = i
    BY NewItemType DEF Statuses
  <2>4. i \notin IdsOf(pending)
    BY <2>2 DEF PlacesInv
  <2>5. IdsOf(pending') = IdsOf(pending) \cup {i} /\ Distinct(pending')
    BY <1>2, <2>1, <2>3, <2>4, AppendEntries DEF PlacesInv
  <2>6. Distinct(history') /\ IdsOf(history') \subseteq IdsOf(history)
    BY <1>2, <2>1, KeepsDistinct DEF PlacesInv
  <2> QED
    BY <2>1, <2>2, <2>5, <2>6 DEF PlacesInv
<1>7. ASSUME NEW w \in Workers, WorkerReserves(w) PROVE PlacesInv'
  <2>1. Distinct(pending') /\ IdsOf(pending') \subseteq IdsOf(pending)
    BY <1>1, <1>2, <1>7, ReservedPlaces, KeepsDistinct DEF PlacesInv
  <2> QED
    BY <1>1, <1>7, <2>1, ReservedPlaces DEF PlacesInv
<1>8. ASSUME NEW w \in Workers, SettleWithRetry(w) PROVE PlacesInv'
  <2>1. /\ inFlight' = NoItem /\ history' = history /\ nextId' = nextId
        /\ IdsOf(pending') = IdsOf(pending) \cup {inFlight.id}
        /\ Distinct(pending')
    BY <1>1, <1>8, RetryPlaces
  <2>2. 0 \notin IdsOf(pending') \cup IdsOf(history)
    BY <1>2, IdsAreIds
  <2>3. 0 < nextId
    BY <1>1 DEF TypeOK
  <2> QED
    BY <2>1, <2>2, <2>3, NoItemIsNone DEF PlacesInv
<1>9. ASSUME NEW w \in Workers, ActivateScheduledRetry(w) PROVE PlacesInv'
  BY <1>1, <1>9, ActivatedPlaces DEF PlacesInv
<1> QED
  BY <1>4, <1>5, <1>6, <1>7, <1>8, <1>9, Moves

\* PlacesInv says what UniqueIds says.
LEMMA PlacesAreUnique ==
  ASSUME TypeOK, PlacesInv
  PROVE  UniqueIds
<1> DEFINE current == IF inFlight = NoItem THEN <<>> ELSE <<inFlight>>
           queue == current \o pending
           all == queue \o history
<1>1. /\ pending \in Seq(Item) /\ history \in Seq(Item)
      /\ Distinct(pending) /\ Distinct(history)
      /\ IdsOf(pending) \cap IdsOf(history) = {}
  BY DEF TypeOK, PlacesInv
<1>2. /\ current \in Seq(Item) /\ Distinct(current)
      /\ IdsOf(current) \subseteq {inFlight.id}
  <2>1. CASE inFlight = NoItem
    BY <2>1 DEF Distinct, IdsOf
  <2>2. CASE inFlight # NoItem
    BY <2>2, SingleItem DEF TypeOK
  <2> QED
    BY <2>1, <2>2
<1>3. UniqueIds <=> Distinct(all)
  BY DEF UniqueIds, Distinct
<1> HIDE DEF current
<1>4. /\ IdsOf(current) \cap IdsOf(pending) = {}
      /\ IdsOf(current) \cap IdsOf(history) = {}
  BY <1>2 DEF PlacesInv
<1>5. /\ queue \in Seq(Item) /\ Distinct(queue)
      /\ IdsOf(queue) = IdsOf(current) \cup IdsOf(pending)
  BY <1>1, <1>2, <1>4, ConcatDistinct
<1> HIDE DEF queue
<1>6. IdsOf(queue) \cap IdsOf(history) = {}
  BY <1>1, <1>4, <1>5
<1>7. Distinct(all)
  BY <1>1, <1>5, <1>6, ConcatDistinct
<1> QED
  BY <1>3, <1>7

\* Nothing is anywhere at the start.
LEMMA InitPlaces == Init => PlacesInv
<1> SUFFICES ASSUME Init PROVE PlacesInv
  OBVIOUS
<1>1. IdsOf(pending) = {} /\ IdsOf(history) = {}
  BY DEF Init, IdsOf
<1>2. Distinct(pending) /\ Distinct(history)
  BY DEF Init, Distinct
<1>3. inFlight.id = 0 /\ nextId = 1
  BY DEF Init, NoItem
<1> QED
  BY <1>1, <1>2, <1>3 DEF PlacesInv

\* IInv and the places, in every reachable state.
THEOREM PlacesInvariance == Spec => [](IInv /\ PlacesInv)
<1>1. Init => IInv /\ PlacesInv
  BY InitIInv, InitPlaces
<1>2. (IInv /\ PlacesInv) /\ [Next]_vars => (IInv /\ PlacesInv)'
  BY NextIInv, NextPlaces
<1> QED
  BY <1>1, <1>2, PTL DEF Spec

\* An id is pending, in flight or in history, and once in it: no removal,
\* retry, cancellation or settlement duplicates an item.
THEOREM OnePlacePerId == Spec => []UniqueIds
<1>1. IInv /\ PlacesInv => UniqueIds
  BY PlacesAreUnique DEF IInv
<1> QED
  BY <1>1, PlacesInvariance, PTL

-----------------------------------------------------------------------------
(***************************************************************************)
(* Outcomes are final.                                                     *)
(***************************************************************************)

\* An entry of history that is no failure stays as it is, or is dismissed.
LEMMA EntryStays ==
  ASSUME IInv, PlacesInv, [Next]_vars,
         NEW k \in 1..Len(history), history[k].status # "error"
  PROVE  /\ history[k].id \notin IdsOf(pending') \cup {inFlight'.id}
         /\ \A j \in 1..Len(history') :
              history'[j].id = history[k].id => history'[j] = history[k]
<1> DEFINE id == history[k].id
<1>1. /\ TypeOK /\ RequestInv /\ history \in Seq(Item) /\ pending \in Seq(Item)
      /\ pending' \in Seq(Item)
  BY NextIInv DEF IInv, TypeOK
<1>2. id \in IdsOf(history) /\ id # 0
  <2>1. id \in IdsOf(history)
    BY DEF IdsOf
  <2> QED
    BY <1>1, <2>1, IdsAreIds
<1>3. id \notin IdsOf(pending) \cup {inFlight.id, nextId}
  BY <1>1, <1>2 DEF PlacesInv, TypeOK
<1>4. \A m \in 1..Len(history) : history[m].id = id => history[m] = history[k]
  BY DEF PlacesInv, Distinct
<1>5. ASSUME NEW j \in 1..Len(history'), history'[j].id = id,
             \/ \E m \in 1..Len(history) : history'[j] = history[m]
             \/ history'[j].id \in IdsOf(pending) \cup {inFlight.id, nextId}
      PROVE  history'[j] = history[k]
  BY <1>3, <1>4, <1>5
<1> HIDE DEF id
<1>6. CASE Leaving
  <2>1. IdsOf(pending') \subseteq IdsOf(pending)
    BY <1>1, <1>6, KeepsDistinct DEF Leaving
  <2>2. id # inFlight'.id
    BY <1>2, <1>3, <1>6, NoItemIsNone DEF Leaving
  <2>3. \A j \in 1..Len(history') : history'[j].id = id => history'[j] = history[k]
    BY <1>5, <1>6 DEF Leaving, NewEntry
  <2> QED
    BY <1>3, <2>1, <2>2, <2>3 DEF id
<1>7. CASE Accepting
  <2>1. PICK kept \in Seq(Item) :
          /\ Keeps(kept, pending)
          /\ pending' = Append(kept, NewItem(nextId, "queued"))
          /\ \A j \in 1..Len(history') :
               \/ \E m \in 1..Len(history) : history'[j] = history[m]
               \/ history'[j].id \in IdsOf(pending) \ IdsOf(kept)
    BY <1>7 DEF Accepting
  <2>2. /\ IdsOf(kept) \subseteq IdsOf(pending)
        /\ NewItem(nextId, "queued") \in Item
        /\ NewItem(nextId, "queued").id = nextId
    BY <1>1, <1>7, <2>1, KeepsDistinct, NewItemType DEF Accepting, Statuses
  <2>3. IdsOf(pending') = IdsOf(kept) \cup {nextId}
    BY <2>1, <2>2, AppendEntries
  <2>4. \A j \in 1..Len(history') : history'[j].id = id => history'[j] = history[k]
    BY <1>5, <2>1
  <2> QED
    BY <1>3, <1>7, <2>2, <2>3, <2>4 DEF Accepting, id
<1>8. ASSUME NEW i \in Ids, Returning(i)
      PROVE  /\ id \notin IdsOf(pending') \cup {inFlight'.id}
             /\ \A j \in 1..Len(history') :
                  history'[j].id = id => history'[j] = history[k]
  <2>1. /\ NewItem(i, "queued") \in Item /\ NewItem(i, "queued").id = i
    BY NewItemType DEF Statuses
  <2>2. IdsOf(pending') = IdsOf(pending) \cup {i}
    BY <1>1, <1>8, <2>1, AppendEntries DEF Returning
  <2>3. id # i
    BY <1>4, <1>8 DEF Returning
  <2>4. \A j \in 1..Len(history') : history'[j].id = id => history'[j] = history[k]
    BY <1>5, <1>8 DEF Returning, Keeps
  <2> QED
    BY <1>3, <1>8, <2>2, <2>3, <2>4 DEF Returning
<1>9. ASSUME NEW w \in Workers,
             \/ WorkerReserves(w) \/ SettleWithRetry(w)
             \/ ActivateScheduledRetry(w)
      PROVE  /\ history' = history
             /\ IdsOf(pending') \cup {inFlight'.id} \subseteq
                  IdsOf(pending) \cup {inFlight.id, 0}
  <2>1. CASE WorkerReserves(w)
    <3>1. IdsOf(pending') \subseteq IdsOf(pending)
      BY <1>1, <2>1, ReservedPlaces, KeepsDistinct
    <3> QED
      BY <1>1, <2>1, <3>1, ReservedPlaces
  <2>2. CASE SettleWithRetry(w)
    BY <1>1, <2>2, RetryPlaces, NoItemIsNone
  <2>3. CASE ActivateScheduledRetry(w)
    BY <1>1, <2>3, ActivatedPlaces
  <2> QED
    BY <1>9, <2>1, <2>2, <2>3
<1>10. ASSUME NEW w \in Workers,
              \/ WorkerReserves(w) \/ SettleWithRetry(w)
              \/ ActivateScheduledRetry(w)
       PROVE  /\ id \notin IdsOf(pending') \cup {inFlight'.id}
              /\ \A j \in 1..Len(history') :
                   history'[j].id = id => history'[j] = history[k]
  BY <1>2, <1>3, <1>4, <1>9, <1>10
<1> QED
  BY <1>6, <1>7, <1>8, <1>10, Moves DEF id

\* What was spoken, skipped or blocked stays so: neither a late result of the
\* worker nor a retry brings it back or changes it.
THEOREM OutcomesAreFinal == Spec => OutcomeIsFinal
<1>1. (IInv /\ PlacesInv) /\ [Next]_vars =>
        [\A k \in 1..Len(history) : history[k].status # "error" =>
           /\ history[k].id \notin IdsOf(pending') \cup {inFlight'.id}
           /\ \A j \in 1..Len(history') :
                history'[j].id = history[k].id => history'[j] = history[k]]_vars
  BY EntryStays
<1> QED
  BY <1>1, PlacesInvariance, PTL DEF Spec, OutcomeIsFinal

-----------------------------------------------------------------------------
(***************************************************************************)
(* The limits.                                                             *)
(***************************************************************************)

\* make_pending_room leaves room for one more item beside the one in flight.
LEMMA OverflowMakesRoom ==
  ASSUME NEW n \in Nat, NEW f \in 0..1, n + f <= QueueLimit
  PROVE  /\ Overflow(n, f) \in 0..n
         /\ (n - Overflow(n, f)) + 1 + f <= QueueLimit
BY SpeechItemsAssumption DEF Overflow

LEMMA NextLimits ==
  ASSUME IInv, PlacesInv, WithinLimits, [Next]_vars
  PROVE  WithinLimits'
<1> DEFINE f == InFlightCount(inFlight)
<1>1. /\ TypeOK /\ RequestInv /\ pending \in Seq(Item) /\ history \in Seq(Item)
      /\ Len(pending) \in Nat /\ Len(history) \in Nat
      /\ QueueLimit \in Nat /\ HistoryLimit \in Nat
  BY SpeechItemsAssumption DEF IInv, TypeOK
<1>2. /\ f \in 0..1 /\ f' \in 0..1
      /\ inFlight' \in {inFlight, NoItem} => f' <= f
  BY DEF InFlightCount
<1>3. Len(pending) + f <= QueueLimit /\ Len(history) <= HistoryLimit
  BY DEF WithinLimits
<1> SUFFICES Len(pending') + f' <= QueueLimit /\ Len(history') <= HistoryLimit
  BY DEF WithinLimits
<1>4. CASE /\ inFlight' \in {inFlight, NoItem}
           /\ Len(pending') \in Nat /\ Len(pending') <= Len(pending)
           /\ history' = history \/ Len(history') <= HistoryLimit
  BY <1>1, <1>2, <1>3, <1>4
<1> HIDE DEF f
<1>5. CASE QueueStep
  <2>1. ASSUME NEW status \in {"skipped", "blocked"}, EnqueueRejected(status)
        PROVE  Len(history') <= HistoryLimit /\ UNCHANGED <<pending, inFlight>>
    BY <1>1, <2>1, RejectedLeaves DEF EnqueueRejected
  <2>2. ASSUME EnqueueAccepted
        PROVE  Len(pending') + f' <= QueueLimit /\ Len(history') <= HistoryLimit
    <3> DEFINE dropped == Overflow(Len(pending), f)
               kept == SubSeq(pending, dropped + 1, Len(pending))
    <3>1. dropped \in 0..Len(pending) /\ (Len(pending) - dropped) + 1 + f <= QueueLimit
      BY <1>1, <1>2, <1>3, OverflowMakesRoom
    <3>2. pending' = Append(kept, NewItem(nextId, "queued")) /\ inFlight' = inFlight
      BY <2>2 DEF EnqueueAccepted, f
    <3>3. kept \in Seq(Item) /\ Len(kept) = Len(pending) - dropped
      BY <1>1, <3>1
    <3>4. nextId \in Ids
      BY <1>1, <2>2 DEF EnqueueAccepted, TypeOK, Ids
    <3> HIDE DEF kept, dropped
    <3>5. Len(pending') = Len(kept) + 1
      BY <3>2, <3>3, <3>4, AppendEntries, NewItemType DEF Statuses
    <3>6. f' = f
      BY <3>2 DEF f
    <3> QED
      BY <1>1, <1>2, <2>2, <3>1, <3>3, <3>5, <3>6, AcceptedComes
  <2>3. ASSUME NEW i \in Ids, RemoveItem(i)
        PROVE  /\ Len(history') <= HistoryLimit /\ inFlight' \in {inFlight, NoItem}
               /\ Len(pending') \in Nat /\ Len(pending') <= Len(pending)
    <3>1. \/ pending' = pending
          \/ \E k \in 1..Len(pending) : pending' = RemoveAt(pending, k)
      BY <2>3 DEF RemoveItem
    <3>2. Len(pending') \in Nat /\ Len(pending') <= Len(pending)
      BY <1>1, <3>1, RemoveAtType
    <3> QED
      BY <1>1, <2>3, <3>2, RemovedLeaves DEF RemoveItem, CancelInFlight
  <2>4. ASSUME NEW i \in Ids, DismissHistoryItem(i)
        PROVE  Len(history') <= HistoryLimit /\ UNCHANGED <<pending, inFlight>>
    <3>1. Len(history') = Len(history) - 1
      BY <1>1, <2>4, RemoveAtType DEF DismissHistoryItem
    <3> QED
      BY <1>1, <1>3, <2>4, <3>1 DEF DismissHistoryItem
  <2>5. ASSUME DismissHistory
        PROVE  Len(history') <= HistoryLimit /\ UNCHANGED <<pending, inFlight>>
    BY <1>1, <2>5 DEF DismissHistory
  <2>6. ASSUME NEW i \in Ids, RetryExhaustedItem(i)
        PROVE  Len(pending') + f' <= QueueLimit /\ Len(history') <= HistoryLimit
    <3>1. Len(history') = Len(history) - 1
      BY <1>1, <2>6, RetriedReturns
    <3>2. /\ pending' = Append(pending, NewItem(i, "queued"))
          /\ inFlight' = inFlight /\ Len(pending) + f < QueueLimit
      BY <2>6 DEF RetryExhaustedItem, f
    <3>3. Len(pending') = Len(pending) + 1
      BY <1>1, <3>2, AppendEntries, NewItemType DEF Statuses
    <3>4. f' = f
      BY <3>2 DEF f
    <3> QED
      BY <1>1, <1>2, <1>3, <3>1, <3>2, <3>3, <3>4
  <2> QED
    BY <1>1, <1>4, <1>5, <2>1, <2>2, <2>3, <2>4, <2>5, <2>6 DEF QueueStep
<1>6. ASSUME NEW w \in Workers, WorkerStep(w)
      PROVE  Len(pending') + f' <= QueueLimit /\ Len(history') <= HistoryLimit
  <2>1. CASE WorkerReserves(w)
    <3>1. Len(pending') = Len(pending) - 1 /\ inFlight = NoItem /\ history' = history
      BY <1>1, <2>1, ReservedPlaces
    <3>2. f = 0
      BY <3>1 DEF f, InFlightCount
    <3> QED
      BY <1>1, <1>2, <1>3, <3>1, <3>2
  <2>2. CASE SettleWithRetry(w)
    <3>1. /\ Len(pending') = Len(pending) + 1 /\ history' = history
          /\ inFlight \in Item /\ inFlight' = NoItem
      BY <1>1, <2>2, RetryPlaces
    <3>2. f = 1 /\ f' = 0
      BY <3>1, NoItemIsNone DEF f, InFlightCount
    <3> QED
      BY <1>1, <1>3, <3>1, <3>2
  <2>3. CASE ActivateScheduledRetry(w)
    BY <1>1, <1>4, <2>3, ActivatedPlaces
  <2>4. CASE SettleCompleted(w) \/ SettleUnconfirmed(w) \/ SettleFailed(w)
    <3>1. pending' = pending /\ inFlight' \in {inFlight, NoItem}
      BY <2>4 DEF SettleCompleted, SettleUnconfirmed, SettleFailed, Conclude
    <3> QED
      BY <1>1, <1>4, <2>4, <3>1, SettledLeaves
  <2> QED
    BY <1>1, <1>4, <1>6, <2>1, <2>2, <2>3, <2>4, Groups
    DEF WorkerStep, WorkerFindsControl, WorkerPassesBarrier, WorkerStops,
        WorkerSelects, WorkerSelectFails, SpeakAccepted, SpeakRefused,
        SpeakUncertain, PlaybackCompleted, PlaybackUnconfirmed,
        WorkerReconciles, DropPlayback
<1>7. ASSUME NEW c \in Controls,
             ControlStep(c) \/ \E cmd \in Commands : BeginControl(c, cmd)
      PROVE  Len(pending') + f' <= QueueLimit /\ Len(history') <= HistoryLimit
  <2>1. CASE ApplyControl(c)
    <3>1. /\ inFlight' \in {inFlight, NoItem}
          /\ \/ pending' = pending \/ pending' = <<>>
             \/ pending # <<>> /\ pending' = Tail(pending)
      BY <2>1 DEF ApplyControl, SkipCurrent, ClearPending, CancelInFlight
    <3>2. Len(pending') \in Nat /\ Len(pending') <= Len(pending)
      BY <1>1, <3>1, HeadTailType
    <3> QED
      BY <1>1, <1>4, <2>1, <3>1, <3>2, AppliedLeaves
  <2> QED
    BY <1>1, <1>4, <1>7, <2>1, Groups
    DEF ControlStep, BeginControl, LockControl, LockControlFails,
        RemoteControlSucceeds, RemoteControlFails, CancelControl
<1>8. CASE SurroundingStep \/ UNCHANGED vars
  BY <1>1, <1>4, <1>8, SurroundingStepFrame, Groups DEF vars
<1> QED
  BY <1>5, <1>6, <1>7, <1>8 DEF Next

\* pending and in flight together respect DEFAULT_QUEUE_LIMIT, also when a
\* retry puts an item back and when a user brings one back from history, and
\* history respects its own.
THEOREM LimitsHold == Spec => []WithinLimits
<1>1. Init => IInv /\ PlacesInv /\ WithinLimits
  <2> SUFFICES ASSUME Init PROVE WithinLimits
    BY InitIInv, InitPlaces
  <2> QED
    BY SpeechItemsAssumption DEF Init, WithinLimits, InFlightCount
<1>2. (IInv /\ PlacesInv /\ WithinLimits) /\ [Next]_vars =>
        (IInv /\ PlacesInv /\ WithinLimits)'
  BY NextIInv, NextPlaces, NextLimits
<1> QED
  BY <1>1, <1>2, PTL DEF Spec

-----------------------------------------------------------------------------
(***************************************************************************)
(* The budget of tries.                                                    *)
(***************************************************************************)

\* An item was tried as often as its retry count says, once more while it is
\* in flight, and a fresh id not at all.
BudgetInv ==
  /\ \A k \in 1..Len(pending) : tries[pending[k].id] <= pending[k].retryCount
  /\ inFlight # NoItem => tries[inFlight.id] <= inFlight.retryCount + 1
  /\ \A i \in Ids : i >= nextId => tries[i] = 0
  /\ RetryBudget

\* The variables that the three invariants below speak of have their types,
\* before and after a step.
LEMMA DeliveryTypes ==
  ASSUME IInv, [Next]_vars
  PROVE  /\ TypeOK /\ TypeOK' /\ RequestInv
         /\ pending \in Seq(Item) /\ pending' \in Seq(Item)
         /\ history \in Seq(Item) /\ history' \in Seq(Item)
         /\ inFlight \in Item \cup {NoItem} /\ inFlight' \in Item \cup {NoItem}
         /\ nextId \in Nat /\ nextId' \in Nat /\ nextId > 0
         /\ tries \in [Ids -> Nat] /\ asked \in [Ids -> Nat]
         /\ accepted \in [Ids -> Nat]
         /\ lastStarted \in Nat
         /\ \A w \in Workers : request[w] \in Ids \cup {0}
<1>1. TypeOK /\ TypeOK' /\ RequestInv
  BY NextIInv DEF IInv
<1>2. nextId \in 1..(MaxId + 1) /\ nextId' \in 1..(MaxId + 1)
  BY <1>1 DEF TypeOK
<1>3. /\ pending \in Seq(Item) /\ history \in Seq(Item)
      /\ inFlight \in Item \cup {NoItem}
      /\ tries \in [Ids -> Nat] /\ asked \in [Ids -> Nat]
      /\ accepted \in [Ids -> Nat] /\ lastStarted \in Nat
      /\ \A w \in Workers : request[w] \in Ids \cup {0}
  BY <1>1 DEF TypeOK, Ids
<1>4. /\ pending' \in Seq(Item) /\ history' \in Seq(Item)
      /\ inFlight' \in Item \cup {NoItem}
  BY <1>1 DEF TypeOK
<1> QED
  BY <1>1, <1>2, <1>3, <1>4, SpeechItemsAssumption

\* The item appended to pending is the last one.
LEMMA AppendedLast ==
  ASSUME NEW items \in Seq(Item), NEW i \in Ids,
         pending' = Append(items, NewItem(i, "queued"))
  PROVE  /\ Len(pending') = Len(items) + 1
         /\ pending'[Len(items) + 1].id = i
         /\ pending'[Len(items) + 1].retryCount = 0
         /\ \A k \in 1..Len(pending') :
              (k \in 1..Len(items) /\ pending'[k] = items[k]) \/ k = Len(items) + 1
         /\ IdsOf(pending') = IdsOf(items) \cup {i}
<1>1. /\ NewItem(i, "queued") \in Item /\ NewItem(i, "queued").id = i
      /\ NewItem(i, "queued").retryCount = 0
  BY NewItemType DEF NewItem, Statuses
<1>2. /\ Len(pending') = Len(items) + 1
      /\ pending'[Len(items) + 1] = NewItem(i, "queued")
      /\ \A k \in 1..Len(items) : pending'[k] = items[k]
      /\ IdsOf(pending') = IdsOf(items) \cup {i}
  BY <1>1, AppendEntries
<1>3. \A k \in 1..Len(pending') : k \in 1..Len(items) \/ k = Len(items) + 1
  BY <1>2
<1> QED
  BY <1>1, <1>2, <1>3

\* Every id in pending is the id of an item there.
LEMMA PendingIds ==
  ASSUME NEW items \in Seq(Item), NEW k \in 1..Len(items)
  PROVE  /\ items[k] \in Item /\ items[k].id \in Ids
         /\ items[k].id \in IdsOf(items)
         /\ items[k].retryCount \in 0..1
<1>1. items[k] \in Item
  OBVIOUS
<1>2. items[k].id \in IdsOf(items)
  BY DEF IdsOf
<1> QED
  BY <1>1, <1>2 DEF Item

LEMMA NextBudget ==
  ASSUME IInv, PlacesInv, BudgetInv, [Next]_vars
  PROVE  BudgetInv'
<1> USE DeliveryTypes
<1>1. CASE Leaving
  <2>1. tries' = tries /\ nextId' >= nextId
    BY <1>1 DEF Leaving
  <2>2. \A k \in 1..Len(pending') : \E m \in 1..Len(pending) : pending'[k] = pending[m]
    BY <1>1 DEF Leaving, Keeps
  <2>3. inFlight' = inFlight \/ inFlight' = NoItem
    BY <1>1 DEF Leaving
  <2>4. \A i \in Ids : i >= nextId' => i >= nextId
    BY <2>1 DEF Ids
  <2> QED
    BY <2>1, <2>2, <2>3, <2>4 DEF BudgetInv, RetryBudget
<1>2. CASE EnqueueAccepted /\ Accepting
  <2>1. PICK kept \in Seq(Item) :
          Keeps(kept, pending) /\ pending' = Append(kept, NewItem(nextId, "queued"))
    BY <1>2 DEF Accepting
  <2>2. /\ tries' = tries /\ nextId' = nextId + 1 /\ nextId \in Ids
        /\ inFlight' = inFlight
    BY <1>2 DEF EnqueueAccepted, Accepting
  <2>3. \A k \in 1..Len(kept) : \E m \in 1..Len(pending) : kept[k] = pending[m]
    BY <2>1 DEF Keeps
  <2>4. tries[nextId] = 0
    BY <2>2 DEF BudgetInv
  <2>5. ASSUME NEW k \in 1..Len(pending')
        PROVE  tries[pending'[k].id] <= pending'[k].retryCount
    <3>1. CASE k \in 1..Len(kept) /\ pending'[k] = kept[k]
      <4>1. PICK m \in 1..Len(pending) : kept[k] = pending[m]
        BY <2>3, <3>1
      <4>2. tries[pending[m].id] <= pending[m].retryCount
        BY DEF BudgetInv
      <4> QED
        BY <3>1, <4>1, <4>2
    <3>2. CASE k = Len(kept) + 1
      <4>1. pending'[k].id = nextId /\ pending'[k].retryCount = 0
        BY <2>1, <2>2, <3>2, AppendedLast
      <4> QED
        BY <2>4, <4>1
    <3> QED
      BY <2>1, <2>2, <3>1, <3>2, AppendedLast
  <2>6. \A i \in Ids : i >= nextId' => i >= nextId
    BY <2>2 DEF Ids
  <2> QED
    BY <2>2, <2>5, <2>6 DEF BudgetInv, RetryBudget
<1>3. ASSUME NEW i \in Ids, RetryExhaustedItem(i), Returning(i) PROVE BudgetInv'
  <2>1. /\ pending' = Append(pending, NewItem(i, "queued"))
        /\ inFlight' = inFlight /\ nextId' = nextId
        /\ tries' = [tries EXCEPT ![i] = 0]
    BY <1>3 DEF Returning, RetryExhaustedItem
  <2>2. \A j \in Ids : tries'[j] <= tries[j] /\ tries'[j] \in Nat
    BY <2>1
  <2>3. ASSUME NEW k \in 1..Len(pending')
        PROVE  tries'[pending'[k].id] <= pending'[k].retryCount
    <3>1. CASE k \in 1..Len(pending) /\ pending'[k] = pending[k]
      <4>1. pending[k].id \in Ids /\ pending[k].retryCount \in 0..1
        BY <3>1, PendingIds
      <4>2. tries[pending[k].id] <= pending[k].retryCount
        BY <3>1 DEF BudgetInv
      <4>3. /\ tries'[pending[k].id] <= tries[pending[k].id]
            /\ tries'[pending[k].id] \in Nat /\ tries[pending[k].id] \in Nat
        BY <2>2, <4>1
      <4> QED
        BY <3>1, <4>1, <4>2, <4>3, SMTT(30)
    <3>2. CASE k = Len(pending) + 1
      BY <2>1, <3>2, AppendedLast, SMTT(30)
    <3> QED
      BY <2>1, <3>1, <3>2, AppendedLast
  <2>4. inFlight' # NoItem => tries'[inFlight'.id] <= inFlight'.retryCount + 1
    <3>1. inFlight \in Item => inFlight.id \in Ids /\ inFlight.retryCount \in 0..1
      BY DEF Item
    <3> QED
      BY <2>1, <2>2, <3>1 DEF BudgetInv
  <2>5. \A j \in Ids : j >= nextId' => tries'[j] = 0
    BY <2>1 DEF BudgetInv
  <2>6. RetryBudget'
    BY <2>2 DEF BudgetInv, RetryBudget
  <2> QED
    BY <2>3, <2>4, <2>5, <2>6 DEF BudgetInv
<1>4. ASSUME NEW w \in Workers, WorkerReserves(w) PROVE BudgetInv'
  <2> DEFINE head == Head(pending)
  <2>1. /\ head \in Item /\ inFlight'.id = head.id
        /\ inFlight'.retryCount = head.retryCount
        /\ head.id \in IdsOf(pending) /\ head.id \notin IdsOf(pending')
        /\ Keeps(pending', pending) /\ head = pending[1] /\ 1 \in 1..Len(pending)
        /\ nextId' = nextId
    BY <1>4, ReservedPlaces
  <2>2. tries' = [tries EXCEPT ![head.id] = @ + 1]
    BY <1>4 DEF WorkerReserves
  <2> HIDE DEF head
  <2>3. head.id \in Ids /\ head.retryCount \in 0..1 /\ head.id < nextId
    BY <2>1 DEF Item, PlacesInv
  <2>4. tries[head.id] <= head.retryCount
    BY <2>1 DEF BudgetInv
  <2>5. /\ tries'[head.id] = tries[head.id] + 1
        /\ \A j \in Ids : j # head.id => tries'[j] = tries[j]
    BY <2>2, <2>3
  <2>6. ASSUME NEW k \in 1..Len(pending')
        PROVE  tries'[pending'[k].id] <= pending'[k].retryCount
    <3>1. PICK m \in 1..Len(pending) : pending'[k] = pending[m]
      BY <2>1 DEF Keeps
    <3>2. pending'[k].id # head.id /\ pending'[k].id \in Ids
      BY <2>1, PendingIds
    <3> QED
      BY <2>5, <3>1, <3>2 DEF BudgetInv
  <2>7. RetryBudget'
    <3>1. tries'[head.id] <= 2
      BY <2>3, <2>4, <2>5
    <3> QED
      BY <2>5, <3>1 DEF BudgetInv, RetryBudget
  <2>8. \A j \in Ids : j >= nextId' => tries'[j] = 0
    BY <2>1, <2>3, <2>5, SMTT(30) DEF BudgetInv, Ids
  <2>9. tries'[inFlight'.id] <= inFlight'.retryCount + 1
    BY <2>1, <2>3, <2>4, <2>5
  <2> QED
    BY <2>6, <2>7, <2>8, <2>9 DEF BudgetInv
<1>5. ASSUME NEW w \in Workers, SettleWithRetry(w) PROVE BudgetInv'
  <2>1. /\ inFlight \in Item /\ inFlight' = NoItem /\ nextId' = nextId
        /\ Len(pending') = Len(pending) + 1
        /\ pending'[1].id = inFlight.id /\ pending'[1].retryCount = 1
        /\ inFlight.retryCount = 0
        /\ \A k \in 2..Len(pending') : pending'[k] = pending[k - 1]
    BY <1>5, RetryPlaces
  <2>2. tries' = tries
    BY <1>5 DEF SettleWithRetry, askVars
  <2>3. tries[inFlight.id] <= 1
    BY <2>1, NoItemIsNone DEF BudgetInv
  <2>4. ASSUME NEW k \in 1..Len(pending')
        PROVE  tries[pending'[k].id] <= pending'[k].retryCount
    <3>1. k = 1 \/ (k \in 2..Len(pending') /\ k - 1 \in 1..Len(pending))
      BY <2>1
    <3> QED
      BY <2>1, <2>3, <3>1 DEF BudgetInv
  <2> QED
    BY <2>1, <2>2, <2>4 DEF BudgetInv, RetryBudget
<1>6. ASSUME NEW w \in Workers, ActivateScheduledRetry(w) PROVE BudgetInv'
  <2>1. /\ UNCHANGED <<inFlight, nextId, tries>>
        /\ Len(pending') = Len(pending)
        /\ \A k \in 1..Len(pending) :
             /\ pending'[k].id = pending[k].id
             /\ pending'[k].retryCount = pending[k].retryCount
    BY <1>6, ActivatedPlaces DEF ActivateScheduledRetry, askVars
  <2> QED
    BY <2>1 DEF BudgetInv, RetryBudget
<1> QED
  BY <1>1, <1>2, <1>3, <1>4, <1>5, <1>6, Moves

\* A request is tried at most twice before the user has to ask again: the
\* retry count travels with the item, back to pending and into flight.
THEOREM TriesAreBounded == Spec => []RetryBudget
<1> DEFINE Inv == IInv /\ PlacesInv /\ BudgetInv
<1>1. Init => Inv
  <2> SUFFICES ASSUME Init PROVE BudgetInv
    BY InitIInv, InitPlaces
  <2> QED
    BY DEF Init, BudgetInv, RetryBudget
<1>2. Inv /\ [Next]_vars => Inv'
  BY NextIInv, NextPlaces, NextBudget
<1>3. Inv => RetryBudget
  BY DEF BudgetInv
<1> QED
  BY <1>1, <1>2, <1>3, PTL DEF Spec

-----------------------------------------------------------------------------
(***************************************************************************)
(* What a destination takes.                                               *)
(***************************************************************************)

\* The request of a worker is gone from pending, and no failure of it is in
\* history that a user could retry while the worker still has it.
OwnedInv ==
  \A w \in Workers : Owns(w) =>
    /\ request[w] \notin IdsOf(pending)
    /\ request[w] < nextId
    /\ \A k \in 1..Len(history) :
         history[k].id = request[w] => history[k].status # "error"

\* No destination has taken the request of w since it was last asked for.
Unspoken(w) ==
  \/ wpc[w] \in {"reserved", "speaking"}
  \/ wpc[w] \in {"reconcile", "settle"} /\ result[w] = "retryable"

\* What waits, and what will wait again, was not taken yet.
AcceptedInv ==
  /\ SpokenOncePerAsk
  /\ \A k \in 1..Len(pending) : accepted[pending[k].id] = 0
  /\ \A w \in Workers : Unspoken(w) => accepted[request[w]] = 0
  /\ \A i \in Ids : i >= nextId => accepted[i] = 0

\* Whoever owns a request has it from before, or reserves it now.
LEMMA OwnerStays ==
  ASSUME TypeOK, [Next]_vars, NEW w \in Workers
  PROVE  /\ Owns(w)' => \/ Owns(w) /\ request'[w] = request[w]
                        \/ WorkerReserves(w)
         /\ Unspoken(w)' => \/ Unspoken(w) /\ request'[w] = request[w]
                            \/ WorkerReserves(w)
<1> USE DEF Owns, Unspoken
<1>1. ASSUME UNCHANGED <<request, result>>, ClaimWorker \/ SpawnNothing
      PROVE  /\ Owns(w)' => Owns(w) /\ request'[w] = request[w]
             /\ Unspoken(w)' => Unspoken(w) /\ request'[w] = request[w]
  BY <1>1, ClaimFrame
<1>2. ASSUME NEW v \in Workers \ {w}, WorkerStep(v)
      PROVE  /\ Owns(w)' => Owns(w) /\ request'[w] = request[w]
             /\ Unspoken(w)' => Unspoken(w) /\ request'[w] = request[w]
  <2>1. wpc'[w] = wpc[w] /\ request'[w] = request[w] /\ result'[w] = result[w]
    BY <1>2, WorkerStepFrame, Groups
    DEF WorkerStep, WorkerFindsControl, WorkerPassesBarrier, WorkerStops,
        WorkerReserves, WorkerSelects, WorkerSelectFails, SpeakAccepted,
        SpeakRefused, SpeakUncertain, PlaybackCompleted, PlaybackUnconfirmed,
        WorkerReconciles, SettleCompleted, SettleUnconfirmed, SettleWithRetry,
        SettleFailed, ActivateScheduledRetry, DropPlayback, TypeOK
  <2> QED
    BY <2>1
<1>3. ASSUME WorkerStep(w)
      PROVE  /\ Owns(w)' => \/ Owns(w) /\ request'[w] = request[w]
                            \/ WorkerReserves(w)
             /\ Unspoken(w)' => \/ Unspoken(w) /\ request'[w] = request[w]
                                \/ WorkerReserves(w)
  BY <1>3, Groups
  DEF WorkerStep, WorkerFindsControl, WorkerPassesBarrier, WorkerStops,
      WorkerSelects, WorkerSelectFails, SpeakAccepted,
      SpeakRefused, SpeakUncertain, PlaybackCompleted, PlaybackUnconfirmed,
      WorkerReconciles, SettleCompleted, SettleUnconfirmed, SettleWithRetry,
      SettleFailed, ActivateScheduledRetry, DropPlayback, TypeOK, WriteFailure
<1>4. ASSUME UNCHANGED <<wpc, request, result>>
      PROVE  /\ Owns(w)' => Owns(w) /\ request'[w] = request[w]
             /\ Unspoken(w)' => Unspoken(w) /\ request'[w] = request[w]
  BY <1>4
<1> QED
  BY <1>1, <1>2, <1>3, <1>4, QueueStepFrame, ControlStepFrame,
     SurroundingStepFrame, Groups
  DEF Next, vars

\* The worker that runs is the only one that can own a request.
LEMMA OnlyOwner ==
  ASSUME IInv, [Next]_vars, NEW w \in Workers, NEW v \in Workers,
         Running(w), Owns(v)'
  PROVE  v = w
<1>1. SingleWorker /\ TypeOK
  BY DEF IInv
<1>2. Owns(v) \/ WorkerReserves(v)
  BY <1>1, OwnerStays
<1>3. Running(v)
  BY <1>2 DEF Owns, Running, WorkerReserves
<1> QED
  BY <1>1, <1>3 DEF SingleWorker

LEMMA NextOwns ==
  ASSUME IInv, PlacesInv, OwnedInv, [Next]_vars
  PROVE  OwnedInv'
<1> USE DeliveryTypes
<1> SUFFICES ASSUME NEW v \in Workers, Owns(v)'
             PROVE  /\ request'[v] \notin IdsOf(pending')
                    /\ request'[v] < nextId'
                    /\ \A k \in 1..Len(history') :
                         history'[k].id = request'[v] => history'[k].status # "error"
  BY DEF OwnedInv
<1> TypeOK /\ RequestInv
  BY DEF IInv
<1>1. CASE WorkerReserves(v)
  <2>1. /\ Head(pending).id \in IdsOf(pending)
        /\ Head(pending).id \notin IdsOf(pending')
        /\ history' = history /\ nextId' = nextId
    BY <1>1, ReservedPlaces
  <2>2. request'[v] = Head(pending).id
    BY <1>1 DEF WorkerReserves, TypeOK
  <2>3. Head(pending).id < nextId /\ Head(pending).id \notin IdsOf(history)
    BY <2>1 DEF PlacesInv
  <2> QED
    BY <2>1, <2>2, <2>3 DEF IdsOf
<1>2. ASSUME ~WorkerReserves(v)
      PROVE  /\ request'[v] = request[v] /\ request[v] \in Ids
             /\ request[v] \notin IdsOf(pending) /\ request[v] < nextId
             /\ \A k \in 1..Len(history) :
                  history[k].id = request[v] => history[k].status # "error"
  <2>1. Owns(v) /\ request'[v] = request[v]
    BY <1>2, OwnerStays
  <2>2. request[v] # 0
    BY <2>1 DEF Owns, RequestInv
  <2> QED
    BY <2>1, <2>2 DEF OwnedInv
<1>3. CASE Leaving /\ ~WorkerReserves(v)
  <2>1. IdsOf(pending') \subseteq IdsOf(pending) /\ nextId' >= nextId
    BY <1>3, KeepsDistinct DEF Leaving
  <2>2. ASSUME NEW k \in 1..Len(history'), history'[k].status = "error"
        PROVE  \E m \in 1..Len(history) : history'[k] = history[m]
    BY <1>3, <2>2 DEF Leaving, NewEntry
  <2>3. request'[v] \notin IdsOf(pending') /\ request'[v] < nextId'
    <3>1. request[v] \in Nat /\ nextId \in Nat /\ nextId' \in Nat
      BY <1>2, <1>3 DEF Ids
    <3> QED
      BY <1>2, <1>3, <2>1, <3>1
  <2> QED
    BY <1>2, <1>3, <2>2, <2>3
<1>4. CASE EnqueueAccepted /\ Accepting /\ ~WorkerReserves(v)
  <2>1. PICK kept \in Seq(Item) :
          /\ Keeps(kept, pending)
          /\ pending' = Append(kept, NewItem(nextId, "queued"))
          /\ \A k \in 1..Len(history') :
               \/ \E m \in 1..Len(history) : history'[k] = history[m]
               \/ history'[k].status = "skipped"
    BY <1>4 DEF Accepting
  <2>2. nextId \in Ids /\ nextId' = nextId + 1
    BY <1>4 DEF Accepting
  <2>3. IdsOf(pending') = IdsOf(kept) \cup {nextId}
    BY <2>1, <2>2, AppendedLast
  <2>4. IdsOf(kept) \subseteq IdsOf(pending)
    BY <2>1, KeepsDistinct
  <2>5. request[v] \in Nat /\ nextId \in Nat /\ request[v] # nextId
    BY <1>2, <1>4, <2>2 DEF Ids
  <2>6. /\ request'[v] = request[v] /\ request[v] \notin IdsOf(pending)
        /\ request[v] < nextId
    BY <1>2, <1>4
  <2>8. request'[v] \notin IdsOf(pending')
    BY <2>3, <2>4, <2>5, <2>6
  <2>9. request'[v] < nextId'
    BY <2>2, <2>5, <2>6
  <2>7. \A k \in 1..Len(history') :
          history'[k].id = request'[v] => history'[k].status # "error"
    BY <1>2, <1>4, <2>1
  <2> QED
    BY <2>7, <2>8, <2>9
<1>5. ASSUME NEW i \in Ids, Returning(i), ~WorkerReserves(v)
      PROVE  /\ request'[v] \notin IdsOf(pending')
             /\ request'[v] < nextId'
             /\ \A k \in 1..Len(history') :
                  history'[k].id = request'[v] => history'[k].status # "error"
  <2>1. /\ IdsOf(pending') = IdsOf(pending) \cup {i}
        /\ nextId' = nextId
    BY <1>5, AppendedLast DEF Returning
  <2>2. request[v] # i
    BY <1>2, <1>5 DEF Returning
  <2>3. \A k \in 1..Len(history') : \E m \in 1..Len(history) : history'[k] = history[m]
    BY <1>5 DEF Returning, Keeps
  <2> QED
    BY <1>2, <1>5, <2>1, <2>2, <2>3
<1>6. ASSUME NEW w \in Workers,
             WorkerReserves(w) \/ SettleWithRetry(w) \/ ActivateScheduledRetry(w)
      PROVE  WorkerReserves(v)
  <2>1. Running(w)
    BY <1>6 DEF Running, WorkerReserves, SettleWithRetry, ActivateScheduledRetry
  <2>2. v = w
    BY <2>1, OnlyOwner
  <2>3. SettleWithRetry(w) => wpc'[w] = "backoff"
    BY DEF SettleWithRetry, TypeOK
  <2>4. ActivateScheduledRetry(w) => wpc'[w] = "drop"
    BY DEF ActivateScheduledRetry, TypeOK
  <2> QED
    BY <1>6, <2>2, <2>3, <2>4 DEF Owns
<1> QED
  BY <1>1, <1>3, <1>4, <1>5, <1>6, Moves

\* An acceptance is counted when a destination takes the utterance of the one
\* that speaks, and forgotten when a user asks again.
LEMMA AcceptedChanges ==
  ASSUME [Next]_vars
  PROVE  \/ accepted' = accepted
         \/ \E w \in Workers : SpeakAccepted(w) \/ SpeakUncertain(w)
         \/ \E i \in Ids : RetryExhaustedItem(i)
<1>1. ASSUME QueueStep
      PROVE  accepted' = accepted \/ \E i \in Ids : RetryExhaustedItem(i)
  BY <1>1, Groups
  DEF QueueStep, EnqueueRejected, EnqueueAccepted, RemoveItem,
      DismissHistoryItem, DismissHistory
<1>2. ASSUME NEW w \in Workers, WorkerStep(w)
      PROVE  accepted' = accepted \/ SpeakAccepted(w) \/ SpeakUncertain(w)
  BY <1>2, Groups
  DEF WorkerStep, WorkerFindsControl, WorkerPassesBarrier, WorkerStops,
      WorkerReserves, WorkerSelects, WorkerSelectFails, SpeakRefused,
      PlaybackCompleted, PlaybackUnconfirmed, WorkerReconciles,
      SettleCompleted, SettleUnconfirmed, SettleWithRetry, SettleFailed,
      ActivateScheduledRetry, DropPlayback
<1>3. ASSUME NEW c \in Controls,
             ControlStep(c) \/ \E cmd \in Commands : BeginControl(c, cmd)
      PROVE  accepted' = accepted
  BY <1>3, Groups
  DEF ControlStep, BeginControl, LockControl, LockControlFails,
      RemoteControlSucceeds, RemoteControlFails, ApplyControl, CancelControl
<1>4. ASSUME SurroundingStep PROVE accepted' = accepted
  BY <1>4, Groups
  DEF SurroundingStep, ProbeLocks, ProbeUnlocks, SaveSettings, UtteranceEnds
<1> QED
  BY <1>1, <1>2, <1>3, <1>4, Groups DEF Next, vars

\* What is pending afterwards was pending before, is new, is brought back from
\* history, or was in flight and is to be tried once more.
LEMMA PendingComesFrom ==
  ASSUME IInv, PlacesInv, [Next]_vars
  PROVE  /\ nextId' >= nextId
         /\ \A k \in 1..Len(pending') :
              \/ pending'[k].id \in IdsOf(pending)
              \/ pending'[k].id = nextId
              \/ RetryExhaustedItem(pending'[k].id)
              \/ \E w \in Workers :
                   SettleWithRetry(w) /\ pending'[k].id = request[w]
<1> USE DeliveryTypes
<1> TypeOK /\ RequestInv
  BY DEF IInv
<1> SUFFICES ASSUME NEW k \in 1..Len(pending')
             PROVE  /\ nextId' >= nextId
                    /\ \/ pending'[k].id \in IdsOf(pending)
                       \/ pending'[k].id = nextId
                       \/ RetryExhaustedItem(pending'[k].id)
                       \/ \E w \in Workers :
                            SettleWithRetry(w) /\ pending'[k].id = request[w]
  <2>1. nextId' >= nextId
    <3>1. \A w \in Workers : WorkerReserves(w) => nextId' = nextId
      BY DEF WorkerReserves
    <3>2. \A w \in Workers :
            SettleWithRetry(w) \/ ActivateScheduledRetry(w) => nextId' = nextId
      BY DEF SettleWithRetry, ActivateScheduledRetry
    <3>3. nextId \in Nat /\ nextId' \in Nat
      OBVIOUS
    <3> QED
      BY <3>1, <3>2, <3>3, Moves DEF Leaving, Accepting, Returning
  <2> QED
    BY <2>1
<1>1. pending'[k].id \in IdsOf(pending')
  BY PendingIds
<1>2. CASE Leaving
  BY <1>1, <1>2, KeepsDistinct DEF Leaving
<1>3. CASE Accepting
  <2>1. PICK kept \in Seq(Item) :
          Keeps(kept, pending) /\ pending' = Append(kept, NewItem(nextId, "queued"))
    BY <1>3 DEF Accepting
  <2>2. nextId \in Ids /\ nextId' = nextId + 1
    BY <1>3 DEF Accepting
  <2>3. nextId \in Nat
    BY <2>2 DEF Ids
  <2> QED
    BY <1>1, <2>1, <2>2, <2>3, AppendedLast, KeepsDistinct
<1>4. ASSUME NEW i \in Ids, RetryExhaustedItem(i), Returning(i)
      PROVE  /\ nextId' = nextId
             /\ pending'[k].id \in IdsOf(pending) \/ RetryExhaustedItem(pending'[k].id)
  <2>1. IdsOf(pending') = IdsOf(pending) \cup {i} /\ nextId' = nextId
    BY <1>4, AppendedLast DEF Returning
  <2> QED
    BY <1>1, <1>4, <2>1
<1>5. ASSUME NEW w \in Workers, WorkerReserves(w)
      PROVE  nextId' = nextId /\ pending'[k].id \in IdsOf(pending)
  <2>1. Keeps(pending', pending) /\ nextId' = nextId
    BY <1>5, ReservedPlaces
  <2> QED
    BY <1>1, <2>1, KeepsDistinct
<1>6. ASSUME NEW w \in Workers, SettleWithRetry(w)
      PROVE  /\ nextId' = nextId
             /\ pending'[k].id \in IdsOf(pending) \/ pending'[k].id = request[w]
  BY <1>1, <1>6, RetryPlaces
<1>7. ASSUME NEW w \in Workers, ActivateScheduledRetry(w)
      PROVE  nextId' = nextId /\ pending'[k].id \in IdsOf(pending)
  BY <1>1, <1>7, ActivatedPlaces
<1>8. nextId \in Nat
  OBVIOUS
<1> QED
  BY <1>2, <1>3, <1>4, <1>5, <1>6, <1>7, <1>8, Moves

LEMMA NextAccepted ==
  ASSUME IInv, PlacesInv, OwnedInv, AcceptedInv, [Next]_vars
  PROVE  AcceptedInv'
<1> USE DeliveryTypes
<1> TypeOK /\ RequestInv /\ SingleWorker
  BY DEF IInv
<1>1. /\ \A i \in Ids : accepted[i] <= 1
      /\ \A k \in 1..Len(pending) : accepted[pending[k].id] = 0
      /\ \A w \in Workers : Unspoken(w) => accepted[request[w]] = 0
      /\ \A i \in Ids : i >= nextId => accepted[i] = 0
  BY DEF AcceptedInv, SpokenOncePerAsk
<1>2. \A i \in IdsOf(pending) : accepted[i] = 0
  BY <1>1 DEF IdsOf
<1>3. /\ nextId \in Nat /\ nextId' \in Nat /\ nextId' >= nextId
      /\ \A i \in Ids : i \in Nat
  BY PendingComesFrom DEF Ids
<1>4. ASSUME NEW w \in Workers, SpeakAccepted(w) \/ SpeakUncertain(w)
      PROVE  AcceptedInv'
  <2>1. /\ wpc[w] = "speaking"
        /\ accepted' = [accepted EXCEPT ![request[w]] = @ + 1]
        /\ UNCHANGED <<pending, nextId, request>>
    BY <1>4, Groups DEF SpeakAccepted, SpeakUncertain, Arrives
  <2>2. Owns(w) /\ Unspoken(w) /\ Running(w) /\ request[w] # 0
    BY <2>1 DEF Owns, Unspoken, Running, RequestInv
  <2>3. /\ request[w] \in Ids /\ request[w] < nextId
        /\ request[w] \notin IdsOf(pending) /\ accepted[request[w]] = 0
    BY <1>1, <2>2 DEF OwnedInv
  <2>4. /\ accepted'[request[w]] = 1
        /\ \A i \in Ids : i # request[w] => accepted'[i] = accepted[i]
    BY <2>1, <2>3
  <2>5. ASSUME NEW i \in Ids PROVE accepted'[i] <= 1
    <3>1. accepted'[i] = 1 \/ accepted'[i] = accepted[i]
      BY <2>4
    <3> QED
      BY <1>1, <3>1
  <2>6. ASSUME NEW k \in 1..Len(pending') PROVE accepted'[pending'[k].id] = 0
    <3>1. pending'[k].id \in IdsOf(pending) /\ pending'[k].id \in Ids
      BY <2>1, PendingIds
    <3> QED
      BY <1>2, <2>3, <2>4, <3>1
  <2>7. ASSUME NEW v \in Workers, Unspoken(v)' PROVE FALSE
    <3>1. Owns(v)'
      BY <2>7 DEF Unspoken, Owns
    <3>2. v = w
      BY <2>2, <3>1, OnlyOwner
    <3>3. \/ wpc'[w] = "playing"
          \/ wpc'[w] = "reconcile" /\ result'[w] = "failed"
      BY <1>4 DEF SpeakAccepted, SpeakUncertain, WriteFailure, TypeOK
    <3> QED
      BY <2>7, <3>2, <3>3 DEF Unspoken
  <2>8. \A i \in Ids : i >= nextId' => accepted'[i] = 0
    BY <1>1, <1>3, <2>1, <2>3, <2>4
  <2> QED
    BY <2>5, <2>6, <2>7, <2>8 DEF AcceptedInv, SpokenOncePerAsk
<1>5. ASSUME ~(\E w \in Workers : SpeakAccepted(w) \/ SpeakUncertain(w))
      PROVE  AcceptedInv'
  <2>1. \A i \in Ids : accepted'[i] \in Nat /\ accepted'[i] <= accepted[i]
    <3>1. ASSUME NEW j \in Ids, RetryExhaustedItem(j)
          PROVE  accepted' = [accepted EXCEPT ![j] = 0]
      BY <3>1 DEF RetryExhaustedItem
    <3>2. \A i \in Ids : accepted[i] \in Nat
      OBVIOUS
    <3>3. CASE accepted' = accepted
      BY <3>2, <3>3
    <3>4. ASSUME NEW j \in Ids, RetryExhaustedItem(j), NEW i \in Ids
          PROVE  accepted'[i] \in Nat /\ accepted'[i] <= accepted[i]
      <4>1. accepted'[i] = IF i = j THEN 0 ELSE accepted[i]
        BY <3>1, <3>4
      <4> QED
        BY <3>2, <4>1
    <3> QED
      BY <1>5, <3>3, <3>4, AcceptedChanges
  <2>2. \A i \in Ids : accepted[i] = 0 => accepted'[i] = 0
    BY <2>1
  <2>3. \A i \in Ids : accepted'[i] <= 1
    BY <1>1, <2>1
  <2>4. ASSUME NEW k \in 1..Len(pending'), NEW i \in Ids, i = pending'[k].id
        PROVE  accepted'[i] = 0
    <3>2. CASE i \in IdsOf(pending)
      BY <1>2, <2>2, <3>2
    <3>3. CASE i = nextId
      BY <1>1, <1>3, <2>2, <3>3
    <3>4. CASE RetryExhaustedItem(i)
      BY <3>4 DEF RetryExhaustedItem
    <3>5. ASSUME NEW w \in Workers, SettleWithRetry(w), i = request[w]
          PROVE  accepted'[i] = 0
      <4>1. Unspoken(w)
        BY <3>5 DEF SettleWithRetry, Unspoken
      <4> QED
        BY <1>1, <2>2, <3>5, <4>1
    <3>6. \/ i \in IdsOf(pending) \/ i = nextId \/ RetryExhaustedItem(i)
          \/ \E w \in Workers : SettleWithRetry(w) /\ i = request[w]
      BY <2>4, PendingComesFrom
    <3> QED
      BY <3>2, <3>3, <3>4, <3>5, <3>6
  <2>5. ASSUME NEW w \in Workers, Unspoken(w)' PROVE accepted'[request'[w]] = 0
    <3>1. CASE WorkerReserves(w)
      <4>1. request'[w] = Head(pending).id
        BY <3>1 DEF WorkerReserves, TypeOK
      <4>2. Head(pending) \in Item /\ Head(pending).id \in IdsOf(pending)
        BY <3>1, ReservedPlaces
      <4>3. Head(pending).id \in Ids
        BY <4>2 DEF Item
      <4> QED
        BY <1>2, <2>2, <4>1, <4>2, <4>3
    <3>2. CASE Unspoken(w) /\ request'[w] = request[w]
      <4>1. request[w] \in Ids
        BY <3>2 DEF Unspoken, RequestInv
      <4> QED
        BY <1>1, <2>2, <3>2, <4>1
    <3> QED
      BY <2>5, <3>1, <3>2, OwnerStays
  <2>6. \A i \in Ids : i >= nextId' => accepted'[i] = 0
    BY <1>1, <1>3, <2>2
  <2>7. \A k \in 1..Len(pending') : accepted'[pending'[k].id] = 0
    BY <2>4, PendingIds
  <2> QED
    BY <2>3, <2>5, <2>6, <2>7 DEF AcceptedInv, SpokenOncePerAsk
<1> QED
  BY <1>4, <1>5

\* A destination takes an utterance at most once for each time it was asked
\* for: fail_request_with_retry puts back only what certainly did not arrive,
\* and a cancelled or settled item is not spoken again by itself.
THEOREM SpokenOnce == Spec => []SpokenOncePerAsk
<1> DEFINE Inv == IInv /\ PlacesInv /\ OwnedInv /\ AcceptedInv
<1>1. Init => Inv
  <2> SUFFICES ASSUME Init PROVE OwnedInv /\ AcceptedInv
    BY InitIInv, InitPlaces
  <2> QED
    BY DEF Init, OwnedInv, Owns, AcceptedInv, Unspoken, SpokenOncePerAsk
<1>2. Inv /\ [Next]_vars => Inv'
  BY NextIInv, NextPlaces, NextOwns, NextAccepted
<1>3. Inv => SpokenOncePerAsk
  BY DEF AcceptedInv
<1> QED
  BY <1>1, <1>2, <1>3, PTL DEF Spec

-----------------------------------------------------------------------------
(***************************************************************************)
(* The order of the starts.                                                *)
(***************************************************************************)

\* An id in the queue was asked for; one that was asked for once, by the chat
\* message, is not older than the newest that has started.
Due(ask, started, i) == ask[i] >= 1 /\ (ask[i] = 1 => i >= started)

\* Of two chat messages on their first request, the older comes first.
Before(ask, i, j) == ask[i] = 1 /\ ask[j] = 1 => i < j

\* Items on their first request wait in the order they arrived, behind the one
\* that started last; only items that were asked for again stand between them.
OrderInv ==
  /\ lastStarted < nextId
  /\ \A k \in 1..Len(pending) : Due(asked, lastStarted, pending[k].id)
  /\ \A j, k \in 1..Len(pending) : j < k => Before(asked, pending[j].id, pending[k].id)
  /\ inFlight # NoItem =>
       /\ Due(asked, lastStarted, inFlight.id)
       /\ \A k \in 1..Len(pending) : Before(asked, inFlight.id, pending[k].id)
  /\ \A k \in 1..Len(history) :
       history[k].status = "error" => asked[history[k].id] >= 1

\* Items that leave do not change the order of the others.
LEMMA LeavingOrder ==
  ASSUME IInv, PlacesInv, OrderInv, [Next]_vars, Leaving
  PROVE  OrderInv'
<1> USE DeliveryTypes DEF OrderInv
<1>1. /\ asked' = asked /\ lastStarted' = lastStarted /\ nextId' >= nextId
      /\ nextId \in Nat /\ nextId' \in Nat
  BY DEF Leaving
<1>2. /\ \A k \in 1..Len(pending') : \E m \in 1..Len(pending) : pending'[k] = pending[m]
      /\ \A j, k \in 1..Len(pending') : j < k =>
           \E m, n \in 1..Len(pending) :
             m < n /\ pending'[j] = pending[m] /\ pending'[k] = pending[n]
      /\ inFlight' \in {inFlight, NoItem}
  BY DEF Leaving, Keeps
<1>3. lastStarted' < nextId'
  BY <1>1
<1>4. \A k \in 1..Len(pending') : Due(asked', lastStarted', pending'[k].id)
  BY <1>1, <1>2
<1>5. ASSUME NEW j \in 1..Len(pending'), NEW k \in 1..Len(pending'), j < k
      PROVE  Before(asked', pending'[j].id, pending'[k].id)
  <2>1. PICK m \in 1..Len(pending), n \in 1..Len(pending) :
          m < n /\ pending'[j] = pending[m] /\ pending'[k] = pending[n]
    BY <1>2, <1>5
  <2> QED
    BY <1>1, <2>1
<1>6. ASSUME inFlight' # NoItem
      PROVE  /\ Due(asked', lastStarted', inFlight'.id)
             /\ \A k \in 1..Len(pending') : Before(asked', inFlight'.id, pending'[k].id)
  BY <1>1, <1>2, <1>6
<1>7. ASSUME NEW k \in 1..Len(history'), history'[k].status = "error"
      PROVE  asked'[history'[k].id] >= 1
  <2>1. CASE \E m \in 1..Len(history) : history'[k] = history[m]
    BY <1>1, <1>7, <2>1
  <2>2. CASE NewEntry(history'[k])
    <3>1. history'[k].id = inFlight.id /\ history'[k].id \in Ids
      BY <1>7, <2>2, PendingIds DEF NewEntry
    <3>2. inFlight # NoItem
      BY <3>1, NoItemIsNone DEF Ids
    <3> QED
      BY <1>1, <3>1, <3>2 DEF Due
  <2> QED
    BY <2>1, <2>2 DEF Leaving
<1> QED
  BY <1>3, <1>4, <1>5, <1>6, <1>7

\* A new item goes to the end, with the newest id.
LEMMA AcceptingOrder ==
  ASSUME IInv, PlacesInv, OrderInv, [Next]_vars, EnqueueAccepted, Accepting
  PROVE  OrderInv'
<1> USE DeliveryTypes
<1>1. PICK kept \in Seq(Item) :
        /\ Keeps(kept, pending)
        /\ pending' = Append(kept, NewItem(nextId, "queued"))
        /\ \A k \in 1..Len(history') :
             \/ \E m \in 1..Len(history) : history'[k] = history[m]
             \/ history'[k].status = "skipped"
  BY DEF Accepting
<1>2. /\ nextId \in Ids /\ nextId \in Nat /\ nextId' = nextId + 1
      /\ inFlight' = inFlight
  BY DEF Accepting, Ids
<1>3. asked' = [asked EXCEPT ![nextId] = 1] /\ lastStarted' = lastStarted
  BY DEF EnqueueAccepted
<1>4. \A i \in Ids : asked'[i] = IF i = nextId THEN 1 ELSE asked[i]
  BY <1>3
<1>5. lastStarted < nextId
  BY DEF OrderInv
<1>6. /\ Len(pending') = Len(kept) + 1 /\ pending'[Len(kept) + 1].id = nextId
      /\ \A k \in 1..Len(pending') :
           (k \in 1..Len(kept) /\ pending'[k] = kept[k]) \/ k = Len(kept) + 1
  BY <1>1, <1>2, AppendedLast
<1>7. ASSUME NEW k \in 1..Len(kept)
      PROVE  /\ kept[k].id \in Ids /\ kept[k].id < nextId
             /\ Due(asked', lastStarted', kept[k].id) /\ Before(asked', kept[k].id, nextId)
             /\ (inFlight # NoItem => Before(asked, inFlight.id, kept[k].id))
             /\ asked'[kept[k].id] = asked[kept[k].id]
  <2>1. PICK m \in 1..Len(pending) : kept[k] = pending[m]
    BY <1>1 DEF Keeps
  <2>2. /\ kept[k].id \in Ids /\ kept[k].id < nextId /\ Due(asked, lastStarted, kept[k].id)
        /\ (inFlight # NoItem => Before(asked, inFlight.id, kept[k].id))
    BY <2>1, PendingIds DEF PlacesInv, OrderInv
  <2>3. asked'[kept[k].id] = asked[kept[k].id]
    BY <1>2, <1>4, <2>2, SMTT(30) DEF Ids
  <2> QED
    BY <1>3, <2>2, <2>3 DEF Due, Before
<1>8. Due(asked', lastStarted', nextId)
  BY <1>2, <1>3, <1>4, <1>5 DEF Due
<1>9. \A k \in 1..Len(pending') : Due(asked', lastStarted', pending'[k].id)
  BY <1>6, <1>7, <1>8
<1>10. ASSUME NEW j \in 1..Len(pending'), NEW k \in 1..Len(pending'), j < k
       PROVE  Before(asked', pending'[j].id, pending'[k].id)
  <2>1. j \in 1..Len(kept) /\ pending'[j] = kept[j]
    BY <1>6, <1>10
  <2>2. CASE k = Len(kept) + 1
    BY <1>6, <1>7, <2>1, <2>2
  <2>3. CASE k \in 1..Len(kept) /\ pending'[k] = kept[k]
    <3>1. PICK m \in 1..Len(pending), n \in 1..Len(pending) :
            m < n /\ kept[j] = pending[m] /\ kept[k] = pending[n]
      BY <1>1, <1>10, <2>1, <2>3 DEF Keeps
    <3>2. Before(asked, kept[j].id, kept[k].id)
      BY <3>1 DEF OrderInv
    <3>3. /\ asked'[kept[j].id] = asked[kept[j].id]
          /\ asked'[kept[k].id] = asked[kept[k].id]
      BY <1>7, <2>1, <2>3
    <3> QED
      BY <2>1, <2>3, <3>2, <3>3 DEF Before
  <2> QED
    BY <1>6, <2>2, <2>3
<1>11. ASSUME inFlight' # NoItem
       PROVE  /\ Due(asked', lastStarted', inFlight'.id)
              /\ \A k \in 1..Len(pending') : Before(asked', inFlight'.id, pending'[k].id)
  <2> DEFINE i == inFlight.id
  <2>1. /\ inFlight # NoItem /\ i \in Ids /\ i < nextId /\ Due(asked, lastStarted, i)
    BY <1>2, <1>11 DEF Item, PlacesInv, OrderInv
  <2>2. i \in Nat /\ asked'[i] = asked[i] /\ inFlight'.id = i
    BY <1>2, <1>4, <2>1 DEF Ids
  <2> HIDE DEF i
  <2>3. Due(asked', lastStarted', i)
    BY <1>3, <2>1, <2>2 DEF Due
  <2>4. ASSUME NEW k \in 1..Len(pending') PROVE Before(asked', i, pending'[k].id)
    <3>1. CASE k = Len(kept) + 1
      BY <1>6, <2>1, <3>1 DEF Before
    <3>2. CASE k \in 1..Len(kept) /\ pending'[k] = kept[k]
      <4>1. Before(asked, i, kept[k].id) /\ kept[k].id \in Ids /\ kept[k].id < nextId
        BY <1>7, <2>1, <3>2 DEF i
      <4>2. asked'[kept[k].id] = asked[kept[k].id]
        BY <1>2, <1>4, <4>1, SMTT(30) DEF Ids
      <4> QED
        BY <2>2, <3>2, <4>1, <4>2 DEF Before
    <3> QED
      BY <1>6, <3>1, <3>2
  <2> QED
    BY <2>2, <2>3, <2>4
<1>12. ASSUME NEW k \in 1..Len(history'), history'[k].status = "error"
       PROVE  asked'[history'[k].id] >= 1
  <2>1. PICK m \in 1..Len(history) : history'[k] = history[m]
    BY <1>1, <1>12
  <2>2. history[m].id \in Ids /\ asked[history[m].id] >= 1
    BY <1>12, <2>1, PendingIds DEF OrderInv
  <2>3. \/ asked'[history[m].id] = 1
        \/ asked'[history[m].id] = asked[history[m].id]
    BY <1>4, <2>2
  <2>4. asked'[history[m].id] >= 1
    BY <2>2, <2>3
  <2> QED
    BY <2>1, <2>4
<1>13. lastStarted' < nextId'
  BY <1>2, <1>3, <1>5
<1> QED
  BY <1>9, <1>10, <1>11, <1>12, <1>13 DEF OrderInv

\* An item that a user brings back goes to the end and is asked for again.
LEMMA ReturningOrder ==
  ASSUME IInv, PlacesInv, OrderInv, [Next]_vars,
         NEW i \in Ids, RetryExhaustedItem(i), Returning(i)
  PROVE  OrderInv'
<1> USE DeliveryTypes
<1>1. /\ pending' = Append(pending, NewItem(i, "queued"))
      /\ inFlight' = inFlight /\ nextId' = nextId
      /\ i \in IdsOf(history) /\ asked[i] >= 1
      /\ \A k \in 1..Len(history') : \E m \in 1..Len(history) : history'[k] = history[m]
  BY DEF Returning, Keeps, OrderInv, IdsOf
<1>2. asked' = [asked EXCEPT ![i] = @ + 1] /\ lastStarted' = lastStarted
  BY DEF RetryExhaustedItem
<1>3. \A j \in Ids : j # i => asked'[j] = asked[j]
  BY <1>2
<1>4. asked'[i] = asked[i] + 1 /\ asked'[i] # 1 /\ asked'[i] >= 1
  BY <1>1, <1>2
<1>5. /\ Len(pending') = Len(pending) + 1 /\ pending'[Len(pending) + 1].id = i
      /\ \A k \in 1..Len(pending') :
           (k \in 1..Len(pending) /\ pending'[k] = pending[k]) \/ k = Len(pending) + 1
  BY <1>1, AppendedLast
<1>6. ASSUME NEW k \in 1..Len(pending)
      PROVE  /\ pending[k].id \in Ids
             /\ asked'[pending[k].id] = asked[pending[k].id]
  <2>1. pending[k].id \in Ids /\ pending[k].id \in IdsOf(pending)
    BY PendingIds
  <2>2. pending[k].id # i
    BY <1>1, <2>1 DEF PlacesInv
  <2> QED
    BY <1>3, <2>1, <2>2
<1>7. ASSUME NEW k \in 1..Len(pending')
      PROVE  Due(asked', lastStarted', pending'[k].id)
  <2>1. CASE k = Len(pending) + 1
    BY <1>4, <1>5, <2>1 DEF Due
  <2>2. CASE k \in 1..Len(pending) /\ pending'[k] = pending[k]
    <3>1. Due(asked, lastStarted, pending[k].id)
      BY <2>2 DEF OrderInv
    <3> QED
      BY <1>2, <1>6, <2>2, <3>1 DEF Due
  <2> QED
    BY <1>5, <2>1, <2>2
<1>8. ASSUME NEW j \in 1..Len(pending'), NEW k \in 1..Len(pending'), j < k
      PROVE  Before(asked', pending'[j].id, pending'[k].id)
  <2>1. j \in 1..Len(pending) /\ pending'[j] = pending[j]
    BY <1>5, <1>8
  <2>2. CASE k = Len(pending) + 1
    BY <1>4, <1>5, <2>2 DEF Before
  <2>3. CASE k \in 1..Len(pending) /\ pending'[k] = pending[k]
    <3>1. Before(asked, pending[j].id, pending[k].id)
      BY <1>8, <2>1, <2>3 DEF OrderInv
    <3>2. /\ asked'[pending[j].id] = asked[pending[j].id]
          /\ asked'[pending[k].id] = asked[pending[k].id]
      BY <1>6, <2>1, <2>3
    <3> QED
      BY <2>1, <2>3, <3>1, <3>2 DEF Before
  <2> QED
    BY <1>5, <2>2, <2>3
<1>9. ASSUME inFlight' # NoItem
      PROVE  /\ Due(asked', lastStarted', inFlight'.id)
             /\ \A k \in 1..Len(pending') : Before(asked', inFlight'.id, pending'[k].id)
  <2>1. /\ inFlight # NoItem /\ inFlight.id \in Ids /\ inFlight.id # i
        /\ Due(asked, lastStarted, inFlight.id)
    BY <1>1, <1>9 DEF Item, PlacesInv, OrderInv
  <2>2. asked'[inFlight.id] = asked[inFlight.id]
    BY <1>3, <2>1
  <2>3. Due(asked', lastStarted', inFlight.id)
    BY <1>2, <2>1, <2>2 DEF Due
  <2>4. ASSUME NEW k \in 1..Len(pending')
        PROVE  Before(asked', inFlight.id, pending'[k].id)
    <3>1. CASE k = Len(pending) + 1
      BY <1>4, <1>5, <3>1 DEF Before
    <3>2. CASE k \in 1..Len(pending) /\ pending'[k] = pending[k]
      <4>1. Before(asked, inFlight.id, pending[k].id)
        BY <2>1, <3>2 DEF OrderInv
      <4>2. asked'[pending[k].id] = asked[pending[k].id]
        BY <1>6, <3>2
      <4> QED
        BY <2>2, <3>2, <4>1, <4>2 DEF Before
    <3> QED
      BY <1>5, <3>1, <3>2
  <2> QED
    BY <1>1, <2>3, <2>4
<1>10. ASSUME NEW k \in 1..Len(history'), history'[k].status = "error"
       PROVE  asked'[history'[k].id] >= 1
  <2>1. PICK m \in 1..Len(history) : history'[k] = history[m]
    BY <1>1
  <2>2. history[m].id \in Ids /\ asked[history[m].id] >= 1
    BY <1>10, <2>1, PendingIds DEF OrderInv
  <2>3. asked'[history[m].id] >= 1
    BY <1>3, <1>4, <2>2
  <2> QED
    BY <2>1, <2>3
<1>11. lastStarted' < nextId'
  BY <1>1, <1>2 DEF OrderInv
<1> QED
  BY <1>7, <1>8, <1>9, <1>10, <1>11 DEF OrderInv

\* The front item starts.
LEMMA ReservingOrder ==
  ASSUME IInv, PlacesInv, OrderInv, [Next]_vars,
         NEW w \in Workers, WorkerReserves(w)
  PROVE  OrderInv' /\ lastStarted' >= lastStarted
<1> USE DeliveryTypes
<1>1. /\ inFlight'.id = Head(pending).id /\ Head(pending) = pending[1]
      /\ Len(pending) >= 1 /\ Len(pending') = Len(pending) - 1
      /\ \A k \in 1..Len(pending') : pending'[k] = pending[k + 1]
      /\ history' = history /\ nextId' = nextId
  BY ReservedPlaces DEF IInv
<1> DEFINE head == pending[1].id
<1>2. /\ asked' = asked
      /\ lastStarted' = IF asked[head] = 1 THEN head ELSE lastStarted
  BY <1>1 DEF WorkerReserves
<1>3. /\ 1 \in 1..Len(pending)
      /\ \A k \in 1..Len(pending') : k + 1 \in 1..Len(pending) /\ 1 < k + 1
  BY <1>1
<1>4. /\ head \in Ids /\ head < nextId /\ Due(asked, lastStarted, head)
      /\ lastStarted < nextId
  BY <1>3, PendingIds DEF PlacesInv, OrderInv
<1>5. \A k \in 1..Len(pending') : /\ Due(asked, lastStarted, pending'[k].id)
                                  /\ Before(asked, head, pending'[k].id)
                                  /\ pending'[k].id \in Ids
  <2>1. ASSUME NEW k \in 1..Len(pending')
        PROVE  /\ Due(asked, lastStarted, pending[k + 1].id)
               /\ Before(asked, head, pending[k + 1].id)
    BY <1>3 DEF OrderInv
  <2> QED
    BY <1>1, <2>1, PendingIds
<1>6. \A j, k \in 1..Len(pending') : j < k =>
        Before(asked, pending'[j].id, pending'[k].id)
  <2>1. ASSUME NEW j \in 1..Len(pending'), NEW k \in 1..Len(pending'), j < k
        PROVE  Before(asked, pending[j + 1].id, pending[k + 1].id)
    <3>1. j + 1 < k + 1
      BY <2>1
    <3> QED
      BY <1>3, <3>1 DEF OrderInv
  <2> QED
    BY <1>1, <2>1
<1> HIDE DEF head
<1>7. /\ lastStarted' >= lastStarted /\ lastStarted' < nextId'
      /\ Due(asked', lastStarted', head)
  BY <1>1, <1>2, <1>4 DEF Due, Ids
<1>8. ASSUME NEW k \in 1..Len(pending')
      PROVE  Due(asked', lastStarted', pending'[k].id)
  BY <1>2, <1>4, <1>5, SMTT(30) DEF Due, Before, Ids
<1>9. inFlight'.id = head
  BY <1>1 DEF head
<1> QED
  BY <1>1, <1>2, <1>5, <1>6, <1>7, <1>8, <1>9 DEF OrderInv

\* The automatic retry stays ahead of everything.
LEMMA RetryingOrder ==
  ASSUME IInv, PlacesInv, OrderInv, [Next]_vars, NEW w \in Workers,
         SettleWithRetry(w) \/ ActivateScheduledRetry(w)
  PROVE  OrderInv'
<1> USE DeliveryTypes
<1>1. asked' = asked /\ lastStarted' = lastStarted
  BY DEF SettleWithRetry, ActivateScheduledRetry, askVars
<1>2. CASE SettleWithRetry(w)
  <2>1. /\ inFlight \in Item /\ inFlight' = NoItem
        /\ history' = history /\ nextId' = nextId
        /\ Len(pending') = Len(pending) + 1 /\ pending'[1].id = inFlight.id
        /\ \A k \in 2..Len(pending') : pending'[k] = pending[k - 1]
    BY <1>2, RetryPlaces DEF IInv
  <2>2. /\ Due(asked, lastStarted, inFlight.id)
        /\ \A k \in 1..Len(pending) : Before(asked, inFlight.id, pending[k].id)
    BY <2>1, NoItemIsNone DEF OrderInv
  <2>3. \A k \in 1..Len(pending') :
          k = 1 \/ (k \in 2..Len(pending') /\ k - 1 \in 1..Len(pending))
    BY <2>1
  <2>4. ASSUME NEW k \in 1..Len(pending')
        PROVE  Due(asked, lastStarted, pending'[k].id)
    BY <2>1, <2>2, <2>3 DEF OrderInv
  <2>5. ASSUME NEW j \in 1..Len(pending'), NEW k \in 1..Len(pending'), j < k
        PROVE  Before(asked, pending'[j].id, pending'[k].id)
    <3>1. k \in 2..Len(pending') /\ k - 1 \in 1..Len(pending)
      BY <2>3, <2>5
    <3>2. CASE j = 1
      BY <2>1, <2>2, <3>1, <3>2
    <3>3. CASE j \in 2..Len(pending') /\ j - 1 \in 1..Len(pending)
      <4>1. j - 1 < k - 1
        BY <2>5
      <4>2. Before(asked, pending[j - 1].id, pending[k - 1].id)
        BY <3>1, <3>3, <4>1 DEF OrderInv
      <4> QED
        BY <2>1, <3>1, <3>3, <4>2
    <3> QED
      BY <2>3, <3>2, <3>3
  <2> QED
    BY <1>1, <2>1, <2>4, <2>5 DEF OrderInv
<1>3. CASE ActivateScheduledRetry(w)
  <2>1. /\ UNCHANGED <<inFlight, history, nextId>>
        /\ Len(pending') = Len(pending)
        /\ \A k \in 1..Len(pending) : pending'[k].id = pending[k].id
    BY <1>3, ActivatedPlaces DEF IInv
  <2> QED
    BY <1>1, <2>1 DEF OrderInv
<1> QED
  BY <1>2, <1>3

\* Chat messages start in the order they arrived: a retry is put back in front,
\* and what a user brings back does not count as the chat's own request.
THEOREM StartedInOrder == Spec => StartsInOrder
<1> DEFINE Inv == IInv /\ PlacesInv /\ OrderInv
<1>1. Init => Inv
  <2> SUFFICES ASSUME Init PROVE OrderInv
    BY InitIInv, InitPlaces
  <2> QED
    BY DEF Init, OrderInv
<1>2. ASSUME Inv, [Next]_vars PROVE OrderInv' /\ lastStarted' >= lastStarted
  <2>1. lastStarted \in Nat
    BY <1>2, DeliveryTypes
  <2>2. CASE Leaving
    BY <1>2, <2>1, <2>2, LeavingOrder DEF Leaving
  <2>3. CASE EnqueueAccepted /\ Accepting
    BY <1>2, <2>1, <2>3, AcceptingOrder DEF EnqueueAccepted
  <2>4. ASSUME NEW i \in Ids, RetryExhaustedItem(i), Returning(i)
        PROVE  OrderInv' /\ lastStarted' >= lastStarted
    <3>1. OrderInv'
      BY <1>2, <2>4, ReturningOrder
    <3>2. lastStarted' = lastStarted
      BY <2>4 DEF RetryExhaustedItem
    <3> QED
      BY <2>1, <3>1, <3>2
  <2>5. ASSUME NEW w \in Workers, WorkerReserves(w)
        PROVE  OrderInv' /\ lastStarted' >= lastStarted
    BY <1>2, <2>5, ReservingOrder
  <2>6. ASSUME NEW w \in Workers, SettleWithRetry(w) \/ ActivateScheduledRetry(w)
        PROVE  OrderInv' /\ lastStarted' >= lastStarted
    BY <1>2, <2>1, <2>6, RetryingOrder
    DEF SettleWithRetry, ActivateScheduledRetry, askVars
  <2> QED
    BY <1>2, <2>2, <2>3, <2>4, <2>5, <2>6, Moves
<1>3. Inv /\ [Next]_vars => Inv'
  BY <1>2, NextIInv, NextPlaces
<1>4. Inv /\ [Next]_vars => [lastStarted' >= lastStarted]_vars
  BY <1>2
<1> QED
  BY <1>1, <1>3, <1>4, PTL DEF Spec, StartsInOrder

=============================================================================
