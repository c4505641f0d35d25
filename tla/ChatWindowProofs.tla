-------------------------- MODULE ChatWindowProofs --------------------------
(***************************************************************************)
(* What the window makes of the chat: the status it ends with, and that it *)
(* shows every message of the connection once and in order, although       *)
(* events, snapshot and its answer overtake one another.                   *)
(***************************************************************************)
EXTENDS ChatPathProofs

-----------------------------------------------------------------------------
(***************************************************************************)
(* Lemmas about the operators of the window.                               *)
(***************************************************************************)
\* What is picked of a sequence keeps its order.
LEMMA InOrderFacts ==
  ASSUME NEW S, NEW s \in Seq(S), NEW places \in SUBSET (DOMAIN s)
  PROVE  /\ InOrder(s, places) \in Seq(S)
         /\ \A n \in DOMAIN InOrder(s, places) : \E i \in places : InOrder(s, places)[n] = s[i]
         /\ \A i \in places : \E n \in DOMAIN InOrder(s, places) : InOrder(s, places)[n] = s[i]
         /\ \A m, n \in DOMAIN InOrder(s, places) :
              m < n => \E i, j \in places : /\ i < j
                                            /\ InOrder(s, places)[m] = s[i]
                                            /\ InOrder(s, places)[n] = s[j]
<1> DEFINE Upto(i) == {j \in places : j <= i}
           rank == [i \in places |-> Cardinality(Upto(i))]
           size == Cardinality(places)
           at(n) == CHOOSE i \in places : Cardinality(Upto(i)) = n
           picked == InOrder(s, places)
<1> HIDE DEF Upto
<1>1. /\ DOMAIN s = 1 .. Len(s) /\ Len(s) \in Nat
      /\ IsFiniteSet(places) /\ size \in Nat
      /\ \A i \in places : i \in Int /\ s[i] \in S
  <2>1. DOMAIN s = 1 .. Len(s) /\ Len(s) \in Nat
    OBVIOUS
  <2>2. IsFiniteSet(1 .. Len(s))
    BY <2>1, FS_Interval
  <2> QED
    BY <2>1, <2>2, FS_Subset, FS_CardinalityType
<1>2. ASSUME NEW i \in places
      PROVE  /\ IsFiniteSet(Upto(i)) /\ Cardinality(Upto(i)) \in 1 .. size
             /\ Cardinality(Upto(i)) \in Nat
  <2>1. Upto(i) \in SUBSET places /\ i \in Upto(i)
    BY <1>1 DEF Upto
  <2>2. IsFiniteSet(Upto(i)) /\ Cardinality(Upto(i)) <= size /\ Cardinality(Upto(i)) \in Nat
    BY <1>1, <2>1, FS_Subset, FS_CardinalityType
  <2>3. Cardinality(Upto(i)) # 0
    BY <2>1, <2>2, FS_EmptySet
  <2> QED
    BY <1>1, <2>2, <2>3
<1>3. ASSUME NEW i \in places, NEW j \in places, i < j
      PROVE  Cardinality(Upto(i)) < Cardinality(Upto(j))
  <2>1. Upto(i) \in SUBSET Upto(j) /\ j \in Upto(j) /\ j \notin Upto(i)
    BY <1>1, <1>3 DEF Upto
  <2>2. IsFiniteSet(Upto(j)) /\ Cardinality(Upto(j)) \in Nat /\ Cardinality(Upto(i)) \in Nat
    BY <1>1, <1>2
  <2>3. /\ Cardinality(Upto(i)) <= Cardinality(Upto(j))
        /\ Cardinality(Upto(j)) = Cardinality(Upto(i)) => Upto(j) = Upto(i)
    BY <2>1, <2>2, FS_Subset
  <2> QED
    BY <2>1, <2>2, <2>3
<1>4. \A n \in 1 .. size : \E i \in places : Cardinality(Upto(i)) = n
  <2>1. rank \in [places -> 1 .. size]
    BY <1>2
  <2>2. \A i, j \in places : rank[i] = rank[j] => i = j
    <3> SUFFICES ASSUME NEW i \in places, NEW j \in places, rank[i] = rank[j], i # j
                 PROVE  FALSE
      OBVIOUS
    <3>1. /\ Cardinality(Upto(i)) = Cardinality(Upto(j))
          /\ Cardinality(Upto(i)) \in Int
      BY <1>2
    <3>2. i < j \/ j < i
      BY <1>1
    <3> QED
      BY <1>3, <3>1, <3>2
  <2>3. rank \in Injection(places, 1 .. size)
    BY <2>1, <2>2 DEF Injection, IsInjective
  <2>4. IsFiniteSet(1 .. size) /\ Cardinality(1 .. size) = size
    BY <1>1, FS_Interval
  <2>5. rank \in Surjection(places, 1 .. size)
    BY <2>3, <2>4, FS_Injection
  <2>6. \A n \in 1 .. size : \E i \in places : rank[i] = n
    BY <2>5 DEF Surjection
  <2> QED
    BY <2>6
<1>5. \A n \in 1 .. size : at(n) \in places /\ Cardinality(Upto(at(n))) = n
  BY <1>4
<1>6. picked = [n \in 1 .. size |-> s[at(n)]]
  BY DEF InOrder, Upto
<1> HIDE DEF picked, at, size
<1>7. DOMAIN picked = 1 .. size /\ \A n \in 1 .. size : picked[n] = s[at(n)]
  BY <1>6
<1>8. picked \in Seq(S)
  BY <1>1, <1>5, <1>6
<1>9. \A n \in DOMAIN picked : \E i \in places : picked[n] = s[i]
  BY <1>5, <1>7
<1>10. ASSUME NEW i \in places
       PROVE  \E n \in DOMAIN picked : picked[n] = s[i]
  <2> DEFINE n == Cardinality(Upto(i))
  <2>1. n \in 1 .. size
    BY <1>2
  <2>2. at(n) \in places /\ Cardinality(Upto(at(n))) = n
    BY <1>5, <2>1
  <2>3. at(n) = i
    <3>1. ~(at(n) < i) /\ ~(i < at(n))
      BY <1>3, <2>2, <2>1
    <3> QED
      BY <1>1, <2>2, <3>1
  <2> QED
    BY <1>7, <2>1, <2>3
<1>11. ASSUME NEW m \in DOMAIN picked, NEW n \in DOMAIN picked, m < n
       PROVE  \E i, j \in places : i < j /\ picked[m] = s[i] /\ picked[n] = s[j]
  <2>1. /\ at(m) \in places /\ Cardinality(Upto(at(m))) = m
        /\ at(n) \in places /\ Cardinality(Upto(at(n))) = n
        /\ m \in Int /\ n \in Int
    BY <1>5, <1>7
  <2>2. at(m) # at(n) /\ ~(at(n) < at(m))
    BY <1>3, <1>11, <2>1
  <2>3. at(m) < at(n)
    BY <1>1, <2>1, <2>2
  <2> QED
    BY <1>7, <2>1, <2>3
<1> QED
  BY <1>8, <1>9, <1>10, <1>11 DEF picked

-----------------------------------------------------------------------------
(***************************************************************************)
(* The types, and the parts of the invariants.                             *)
(***************************************************************************)
StatusNames == {"none", "connecting", "connected", "reconnecting", "authRequired",
                "error", "disconnected"}

\* A status carries the connection of its generation or none; the last one none.
Statuses == {s \in [revision : Nat, status : StatusNames,
                    generation : 0 .. MaxGeneration, active : 0 .. MaxGeneration] :
               /\ s.active \in {0, s.generation}
               /\ s.status = "disconnected" => s.active = 0}

Messages == [generation : Generations, id : Ids]

Events == [name : {"status"}, payload : Statuses] \cup [name : {"chat"}, payload : Messages]

IsStatus(i) == events[i].name = "status"
IsChat(i)   == events[i].name = "chat"

BoundaryTypes ==
  /\ retained \in Statuses
  /\ saying \in [Generations -> [step : {"silent", "record", "emit"}, event : Statuses]]
  /\ listening \in SUBSET Listeners
  /\ events \in Seq(Events)

Views == [phase : {"subscribing", "asked", "answered", "restored", "unrestored"},
          answer : Statuses, known : Statuses, buffer : Seq(Messages), recent : Seq(Ids),
          shown : Seq(Messages), pushedOut : SUBSET Ids]

\* A status that is recorded, on its way to the window, or there.
Out(s) ==
  \/ s \in {NoStatus, retained, view.known, view.answer}
  \/ \E g \in Generations : saying[g].step = "emit" /\ s = saying[g].event
  \/ \E i \in DOMAIN events : IsStatus(i) /\ s = events[i].payload

\* The later of two statuses is of no older connection; of the same connection,
\* it keeps the active connection unless it is the last.
Ordered(s, t) ==
  /\ s.revision = t.revision => s = t
  /\ s.revision < t.revision =>
       /\ s.generation <= t.generation
       /\ s.generation = t.generation =>
            /\ s.status # "disconnected"
            /\ s.active # 0 => t.active = s.active \/ t.status = "disconnected"

HistoryOrdered ==
  /\ \A s : Out(s) => s.revision <= retained.revision
  /\ \A s, t : Out(s) /\ Out(t) => Ordered(s, t)
Ends(g) ==
  \/ saying[g].step = "record" /\ saying[g].event.status = "disconnected"
  \/ retained.generation = g /\ retained.status = "disconnected"

SpeakerInv ==
  /\ retained.generation <= owner.generation
  /\ \A g \in Generations :
       /\ saying[g].step # "silent" => g <= owner.generation
       /\ saying[g].step = "silent" => saying[g] = Silent
       /\ saying[g].step = "record" => saying[g].event.generation = g
       /\ Ends(g) => task.generation # g \/ task.stage = "ended"
       /\ retained.generation = g /\ retained.status = "disconnected" =>
            saying[g].step # "record"

Coming(s) ==
  \/ \E g \in Generations : saying[g].step = "emit" /\ saying[g].event = s
  \/ \E i \in DOMAIN events : IsStatus(i) /\ events[i].payload = s

CatchingUp ==
  /\ view.phase # "subscribing" => listening = Listeners
  /\ view.phase = "answered" => retained \in {view.answer, view.known} \/ Coming(retained)
  /\ view.phase = "restored" => retained = view.known \/ Coming(retained)

Settles(s, g) ==
  \/ s.generation > g
  \/ s.generation = g /\ (s.active = g \/ s.status = "disconnected")

InView(g) ==
  /\ view.phase = "answered" => Settles(view.answer, g) \/ Settles(view.known, g)
  /\ view.phase = "restored" => Settles(view.known, g)

\* Before the window comes to its nth event, it knows that g has connected.
Announced(g, n) ==
  /\ Settles(retained, g)
  /\ InView(g) \/ \E j \in DOMAIN events : j < n /\ IsStatus(j) /\ Settles(events[j].payload, g)

Connecting(g) ==
  \/ saying[g].step = "record" /\ saying[g].event.active = g
  \/ saying[g].step = "emit" /\ Settles(saying[g].event, g)

AnnouncedInv ==
  /\ \A i \in DOMAIN events : IsChat(i) => Announced(events[i].payload.generation, i)
  /\ \A g \in Generations : hand[g] # NoHand => Announced(g, Len(events) + 1)
  /\ twitch.subscribed =>
       task.generation # 0 /\ (Announced(task.generation, Len(events) + 1) \/ Connecting(task.generation))
  /\ \A k \in DOMAIN view.buffer :
       Settles(retained, view.buffer[k].generation) /\ InView(view.buffer[k].generation)

\* A message waits on a socket of a subscribed connection, numbered for it.
Numbered(frames) ==
  \A i \in DOMAIN frames :
    frames[i].kind = "chat" =>
      twitch.subscribed /\ frames[i].id > twitch.before /\ frames[i].id <= twitch.sent

NumberInv ==
  /\ owner.active # 0 => owner.active = owner.generation
  /\ twitch.before <= twitch.sent
  /\ Numbered(old) /\ Numbered(next.frames)
  /\ \A g \in Generations :
       hand[g] # NoHand => /\ hand[g] <= twitch.sent
                           /\ hand[g] > twitch.before <=> g = owner.generation
  /\ \A i \in DOMAIN emitted :
       /\ emitted[i].id <= twitch.sent
       /\ emitted[i].id > twitch.before <=> emitted[i].generation = owner.generation
  /\ \A i, j \in DOMAIN emitted :
       emitted[i].id = emitted[j].id => emitted[i].generation = emitted[j].generation

ViewTypes ==
  /\ view \in Views
  /\ Len(view.buffer) <= BufferLimit

-----------------------------------------------------------------------------

\* The status before any.
LEMMA NoStatusType ==
  /\ NoStatus \in Statuses /\ NoStatus.revision = 0 /\ NoStatus.generation = 0
  /\ NoStatus.status = "none" /\ NoStatus.active = 0
  /\ Silent.step = "silent" /\ Silent.event = NoStatus
  /\ Silent \in [step : {"silent", "record", "emit"}, event : Statuses]
<1>1. NoStatus = [revision |-> 0, status |-> "none", generation |-> 0, active |-> 0]
  BY DEF NoStatus, Status
<1>2. 0 \in 0 .. MaxGeneration /\ "none" \in StatusNames
  BY GenerationAssumption DEF StatusNames
<1>3. NoStatus \in Statuses
  BY <1>1, <1>2 DEF Statuses
<1> QED
  BY <1>1, <1>3 DEF Silent

\* t is what is left of s and x after it without the first d.
Shifted(t, s, x, d) ==
  /\ Len(t) = Len(s) + 1 - d
  /\ \A i \in 1 .. Len(t) - 1 : i + d \in 1 .. Len(s) /\ t[i] = s[i + d]
  /\ t[Len(t)] = x

\* A part of a sequence.
LEMMA PartFacts ==
  ASSUME NEW S, NEW s \in Seq(S), NEW a \in Nat, NEW b \in Nat,
         1 <= a, a <= b, b <= Len(s)
  PROVE  /\ SubSeq(s, a, b) \in Seq(S) /\ Len(SubSeq(s, a, b)) = b - a + 1
         /\ \A i \in 1 .. b - a + 1 : SubSeq(s, a, b)[i] = s[a + i - 1]
OBVIOUS

\* Appending and keeping the last n moves the rest up by d places.
LEMMA KeepLastFacts ==
  ASSUME NEW S, NEW s \in Seq(S), NEW x \in S, NEW n \in Nat \ {0}
  PROVE  LET t == KeepLast(Append(s, x), n)
         IN  /\ t \in Seq(S) /\ Len(t) <= n /\ Len(t) \in Nat \ {0} /\ Len(s) \in Nat
             /\ \E d \in Nat :
                  /\ Shifted(t, s, x, d)
                  /\ Len(s) + 1 > n => Len(t) = n
                  /\ ~(Len(s) + 1 > n) => d = 0
<1> DEFINE more == Append(s, x)
           l == Len(s)
           d == IF l + 1 > n THEN l + 1 - n ELSE 0
           t == KeepLast(more, n)
<1>1. /\ more \in Seq(S) /\ Len(more) = l + 1 /\ l \in Nat
      /\ \A i \in 1 .. l : more[i] = s[i]
      /\ more[l + 1] = x
  BY AppendFacts
<1> HIDE DEF more
<1>2. CASE l + 1 > n
  <2>1. t = SubSeq(more, l + 2 - n, l + 1) /\ d = l + 1 - n /\ d \in Nat
    BY <1>1, <1>2 DEF KeepLast
  <2> HIDE DEF t, d
  <2>2. /\ t \in Seq(S) /\ Len(t) = n
        /\ \A i \in 1 .. n : t[i] = more[i + d]
    <3>1. PICK a, b : a = l + 2 - n /\ b = l + 1
      OBVIOUS
    <3>2. /\ a \in Nat /\ b \in Nat /\ 1 <= a /\ a <= b /\ b <= Len(more) /\ b - a + 1 = n
          /\ \A i \in 1 .. n : a + i - 1 = i + d
      <4>1. l \in Nat /\ d = l + 1 - n /\ Len(more) = l + 1 /\ l + 1 > n
        BY <1>1, <1>2, <2>1
      <4> HIDE DEF l
      <4> QED
        BY <3>1, <4>1
    <3>3. t = SubSeq(more, a, b)
      BY <2>1, <3>1
    <3>4. /\ t \in Seq(S) /\ Len(t) = n
          /\ \A i \in 1 .. n : t[i] = more[a + i - 1]
      BY <1>1, <3>2, <3>3, PartFacts
    <3> QED
      BY <3>2, <3>4
  <2>3. ASSUME NEW i \in 1 .. n - 1 PROVE i + d \in 1 .. l /\ t[i] = s[i + d]
    <3>1. i \in 1 .. n /\ i + d \in 1 .. l
      BY <1>1, <1>2, <2>1
    <3> QED
      BY <1>1, <2>2, <3>1
  <2>4. t[n] = x
    <3>1. n \in 1 .. n /\ n + d = l + 1
      BY <1>1, <1>2, <2>1
    <3> QED
      BY <1>1, <2>2, <3>1
  <2>5. l + 1 > n /\ Len(t) = l + 1 - d /\ Len(t) \in Nat \ {0} /\ Len(t) <= n
    BY <1>1, <1>2, <2>1, <2>2
  <2>6. /\ \A i \in 1 .. Len(t) - 1 : i + d \in 1 .. l /\ t[i] = s[i + d]
        /\ t[Len(t)] = x
    BY <2>2, <2>3, <2>4
  <2>7. Shifted(t, s, x, d)
    BY <2>5, <2>6 DEF Shifted
  <2> QED
    BY <1>1, <2>1, <2>2, <2>5, <2>7 DEF more, t
<1>3. CASE ~(l + 1 > n)
  <2>1. t = more /\ d = 0
    BY <1>1, <1>3 DEF KeepLast
  <2>2. Shifted(more, s, x, 0) /\ Len(more) \in Nat \ {0} /\ Len(more) <= n
    BY <1>1, <1>3 DEF Shifted
  <2> QED
    BY <1>1, <1>3, <2>1, <2>2 DEF more
<1> QED
  BY <1>2, <1>3

\* Between statuses in order, the window takes over what it is told as it is.
LEMMA ApplyFacts ==
  ASSUME NEW e \in Statuses, NEW v \in Views, Ordered(v.known, e)
  PROVE  \/ /\ e.revision > v.known.revision /\ IsNews(e, v)
            /\ Apply(e, v) = [v EXCEPT !.known = e]
         \/ /\ e.revision <= v.known.revision /\ ~IsNews(e, v)
            /\ Apply(e, v) = v
<1>1. v.known \in Statuses
  BY DEF Views
<1>2. CASE e.revision > v.known.revision
  <2>1. /\ v.known.generation <= e.generation
        /\ v.known.generation = e.generation /\ v.known.active # 0 =>
             e.active = v.known.active \/ e.status = "disconnected"
    BY <1>1, <1>2 DEF Ordered, Statuses
  <2>2. IsNews(e, v)
    BY <1>1, <1>2, <2>1 DEF IsNews, Statuses
  <2>3. ActiveAfter(e, v.known) = e.active
    <3>1. CASE e.status = "disconnected" \/ e.active # 0
      BY <3>1 DEF ActiveAfter, Statuses
    <3>2. CASE ~(e.status = "disconnected" \/ e.active # 0) /\ e.generation > v.known.generation
      BY <3>2 DEF ActiveAfter
    <3>3. CASE ~(e.status = "disconnected" \/ e.active # 0) /\ ~(e.generation > v.known.generation)
      <4>1. v.known.generation = e.generation
        BY <1>1, <2>1, <3>3 DEF Statuses
      <4>2. v.known.active = 0
        BY <2>1, <3>3, <4>1
      <4> QED
        BY <3>3, <4>2 DEF ActiveAfter
    <3> QED
      BY <3>1, <3>2, <3>3
  <2>4. [e EXCEPT !.active = e.active] = e
    BY DEF Statuses
  <2> QED
    BY <1>2, <2>2, <2>3, <2>4 DEF Apply
<1>3. CASE ~(e.revision > v.known.revision)
  BY <1>1, <1>3 DEF Apply, IsNews, Statuses
<1> QED
  BY <1>2, <1>3

Matching(v) == {i \in DOMAIN v.buffer : Matches(v.buffer[i], v.known)}

\* A flush shows what matches and empties the buffer.
LEMMA FlushedFacts ==
  ASSUME NEW v \in Views
  PROVE  /\ InOrder(v.buffer, Matching(v)) \in Seq(Messages)
         /\ Flushed(v) = [v EXCEPT !.buffer = <<>>,
                                   !.shown = v.shown \o InOrder(v.buffer, Matching(v))]
         /\ Flushed(v) \in Views
         /\ v.buffer = <<>> => Flushed(v) = v
<1>1. InOrder(v.buffer, Matching(v)) \in Seq(Messages)
  BY InOrderFacts DEF Views, Matching
<1>2. Flushed(v) = [v EXCEPT !.buffer = <<>>,
                             !.shown = v.shown \o InOrder(v.buffer, Matching(v))]
  BY DEF Flushed, Matching
<1>3. v.shown \in Seq(Messages) /\ <<>> \in Seq(Messages)
  BY DEF Views
<1>4. v.shown \o InOrder(v.buffer, Matching(v)) \in Seq(Messages)
  BY <1>1, <1>3
<1>5. Flushed(v) \in Views
  BY <1>2, <1>3, <1>4 DEF Views
<1>6. ASSUME v.buffer = <<>> PROVE Flushed(v) = v
  <2>1. Matching(v) = {}
    BY <1>6 DEF Matching
  <2>2. InOrder(v.buffer, Matching(v)) = <<>>
    BY <2>1, FS_EmptySet DEF InOrder
  <2>3. v.shown \o <<>> = v.shown
    BY <1>3
  <2>4. Flushed(v) = [v EXCEPT !.buffer = v.buffer, !.shown = v.shown]
    BY <1>2, <1>6, <2>2, <2>3
  <2> QED
    BY <2>4 DEF Views
<1> QED
  BY <1>1, <1>2, <1>5, <1>6

\* A buffered message is remembered; a full buffer loses its first one.
LEMMA BufferedFacts ==
  ASSUME NEW v \in Views, NEW m \in Messages, Len(v.buffer) <= BufferLimit
  PROVE  /\ Buffered(v, m) = [v EXCEPT
              !.recent = KeepLast(Append(v.recent, m.id), RecentLimit),
              !.buffer = KeepLast(Append(v.buffer, m), BufferLimit),
              !.pushedOut = IF Len(v.buffer) = BufferLimit
                            THEN v.pushedOut \cup {Head(v.buffer).id} ELSE v.pushedOut]
         /\ Buffered(v, m) \in Views
         /\ Len(Buffered(v, m).buffer) <= BufferLimit
<1>1. /\ v.recent \in Seq(Ids) /\ v.buffer \in Seq(Messages) /\ m.id \in Ids
      /\ v.pushedOut \in SUBSET Ids
  BY DEF Views, Messages
<1> DEFINE recent == KeepLast(Append(v.recent, m.id), RecentLimit)
           buffer == KeepLast(Append(v.buffer, m), BufferLimit)
           gone == IF Len(v.buffer) = BufferLimit
                   THEN v.pushedOut \cup {Head(v.buffer).id} ELSE v.pushedOut
<1>2. recent \in Seq(Ids)
  BY <1>1, KeepLastFacts, ViewAssumption
<1>3. buffer \in Seq(Messages) /\ Len(buffer) <= BufferLimit
  BY <1>1, KeepLastFacts, ViewAssumption
<1>4. gone \in SUBSET Ids
  <2>1. CASE Len(v.buffer) = BufferLimit
    <3>1. v.buffer # <<>>
      BY <2>1, ViewAssumption
    <3>2. Head(v.buffer) \in Messages
      BY <1>1, <3>1, TailFacts
    <3> QED
      BY <1>1, <3>2 DEF Messages
  <2> QED
    BY <1>1, <2>1
<1>5. Buffered(v, m) = [v EXCEPT !.recent = recent, !.buffer = buffer, !.pushedOut = gone]
  BY DEF Buffered, Remember, Views
<1> HIDE DEF recent, buffer, gone
<1>6. Buffered(v, m) \in Views /\ Buffered(v, m).buffer = buffer
  BY <1>2, <1>3, <1>4, <1>5 DEF Views
<1> QED
  BY <1>3, <1>5, <1>6 DEF recent, buffer, gone

\* A shown message is remembered.
LEMMA ShownFacts ==
  ASSUME NEW v \in Views, NEW m \in Messages
  PROVE  /\ Shown(v, m) = [v EXCEPT
              !.recent = KeepLast(Append(v.recent, m.id), RecentLimit),
              !.shown = Append(v.shown, m)]
         /\ Shown(v, m) \in Views
<1>1. v.recent \in Seq(Ids) /\ v.shown \in Seq(Messages) /\ m.id \in Ids
  BY DEF Views, Messages
<1> DEFINE recent == KeepLast(Append(v.recent, m.id), RecentLimit)
<1>2. recent \in Seq(Ids) /\ Append(v.shown, m) \in Seq(Messages)
  BY <1>1, KeepLastFacts, AppendFacts, ViewAssumption
<1>3. Shown(v, m) = [v EXCEPT !.recent = recent, !.shown = Append(v.shown, m)]
  BY DEF Shown, Remember, Views
<1> HIDE DEF recent
<1>4. Shown(v, m) \in Views
  BY <1>2, <1>3 DEF Views
<1> QED
  BY <1>3, <1>4 DEF recent

-----------------------------------------------------------------------------
(***************************************************************************)
(* What a step says at the event boundary.                                 *)
(***************************************************************************)
\* The task records a status, when its last one has been emitted.
TaskSays ==
  /\ owner.active = task.generation /\ task.stage # "ended"
  /\ saying[task.generation] = Silent /\ hand[task.generation] = NoHand
  /\ \E status \in StatusNames, active \in {0, task.generation} :
       /\ Says(status, active)
       /\ status = "disconnected" => active = 0 /\ task'.stage = "ended"
       /\ twitch'.subscribed => twitch.subscribed \/ active = task.generation
  /\ task'.generation = task.generation
  /\ UNCHANGED <<owner, hand, emitted, retained, listening, events, view>>

MessageWaits ==
  \/ \E i \in DOMAIN old : old[i].kind = "chat"
  \/ \E i \in DOMAIN next.frames : next.frames[i].kind = "chat"

\* A step of the supervisor, of Twitch or of the clock that says nothing.
SaysNothing ==
  /\ task'.generation = task.generation
  /\ task'.stage # "ended" => task.stage # "ended"
  /\ twitch'.subscribed = twitch.subscribed
  /\ \A g \in Generations : \/ hand'[g] = hand[g]
                            \/ g = task.generation /\ saying[g] = Silent /\ MessageWaits
  /\ UNCHANGED <<owner, emitted, eventVars, view>>

Speaking ==
  \/ StartSession \/ HandoverBegins \/ Subscribed \/ OldReplaced \/ DrainCutShort \/ Fails

\* The stages of a session that report a status record one.
LEMMA SpeakingSays ==
  ASSUME PathTypes, WireTypes, Speaking, UNCHANGED view
  PROVE  TaskSays
<1>1. Quiet
  BY StagesQuietly, WelcomedQuietly, FailsAreQuiet DEF Speaking
<1>2. /\ owner.active = task.generation /\ task.stage # "ended"
      /\ saying[task.generation] = Silent /\ hand[task.generation] = NoHand
      /\ UNCHANGED <<retained, listening, events>>
  <2>1. CASE StartSession \/ HandoverBegins \/ Subscribed \/ OldReplaced \/ DrainCutShort
    BY <2>1 DEF StartSession, HandoverBegins, Subscribed, OldReplaced, DrainCutShort, Runs, Keeps
  <2>2. CASE Fails
    BY <2>2 DEF Fails, ConnectFails, KeepaliveExpires, SubscriptionFails, SubscriptionRefused,
                SocketCloses, Revoked, NextRevoked, DrainFails, HandoverExpires,
                SessionFails, SessionEnds, Runs, Keeps
  <2> QED
    BY <2>1, <2>2 DEF Speaking
<1>3. \E status \in StatusNames, active \in {0, task.generation} :
        /\ Says(status, active)
        /\ status = "disconnected" => active = 0 /\ task'.stage = "ended"
        /\ twitch'.subscribed => twitch.subscribed \/ active = task.generation
  <2>1. CASE StartSession
    BY <2>1 DEF StartSession, KeepsSockets, StatusNames
  <2>2. CASE HandoverBegins
    BY <2>2 DEF HandoverBegins, StatusNames
  <2>3. CASE Subscribed \/ OldReplaced \/ DrainCutShort
    BY <2>3 DEF Subscribed, OldReplaced, DrainCutShort, WelcomeCompleted, StatusNames
  <2>4. CASE Fails
    <3>1. SessionFails \/ \E status \in {"authRequired", "error", "disconnected"} : SessionEnds(status)
      BY <2>4 DEF Fails, ConnectFails, KeepaliveExpires, SubscriptionFails,
                  SubscriptionRefused, SocketCloses, Revoked, NextRevoked, DrainFails,
                  HandoverExpires
    <3>2. ~twitch'.subscribed
      BY <3>1 DEF SessionFails, SessionEnds, DropSockets, WireTypes, Links
    <3>3. CASE SessionFails
      <4>1. Says("reconnecting", 0)
        BY <3>3 DEF SessionFails
      <4> QED
        BY <3>2, <4>1 DEF StatusNames
    <3>4. CASE \E status \in {"authRequired", "error", "disconnected"} : SessionEnds(status)
      <4>1. PICK status \in {"authRequired", "error", "disconnected"} : SessionEnds(status)
        BY <3>4
      <4>2. Says(status, 0) /\ task' = [task EXCEPT !.stage = "ended"]
        BY <4>1 DEF SessionEnds
      <4>3. task'.stage = "ended"
        BY <4>2 DEF PathTypes, Tasks
      <4> QED
        BY <3>2, <4>2, <4>3 DEF StatusNames
    <3> QED
      BY <3>1, <3>3, <3>4
  <2> QED
    BY <2>1, <2>2, <2>3, <2>4 DEF Speaking
<1> QED
  BY <1>1, <1>2, <1>3 DEF TaskSays, Quiet

Whispering ==
  \/ SocketOpens \/ WakesUp \/ SessionWelcomed \/ NextOpens \/ NextFails
  \/ OldIgnored \/ NextWelcomed \/ SessionHears \/ OldHears \/ NextHears
  \/ Sends \/ Tick

\* The other stages, Twitch and the clock report none.
LEMMA WhisperingSaysNothing ==
  ASSUME PathTypes, WireTypes, Whispering, UNCHANGED view
  PROVE  SaysNothing
<1>1. CASE SocketOpens \/ WakesUp \/ SessionWelcomed \/ NextOpens \/ NextFails
           \/ OldIgnored \/ NextWelcomed
  <2>1. Quiet
    BY <1>1, StagesQuietly
  <2>2. UNCHANGED <<eventVars, twitch>>
    BY <1>1 DEF SocketOpens, WakesUp, SessionWelcomed, NextOpens, NextFails, OldIgnored,
                NextWelcomed, ReadsOld, Keeps, KeepsSockets, eventVars
  <2> QED
    BY <2>1, <2>2 DEF Quiet, SaysNothing
<1>2. CASE SessionHears \/ OldHears \/ NextHears
  <2>1. UNCHANGED <<eventVars, twitch, emitted, owner>>
    BY <1>2 DEF SessionHears, OldHears, NextHears, ReadsOld, Keeps, eventVars
  <2>2. \E c : task' = [task EXCEPT !.cache = c]
    BY <1>2 DEF SessionHears, OldHears, NextHears, Hears
  <2>3. task'.generation = task.generation /\ task'.stage = task.stage
    BY <2>2 DEF PathTypes, Tasks
  <2>4. MessageWaits /\ saying[task.generation] = Silent
    <3>1. /\ old \in Seq(Frames) /\ next.frames \in Seq(Frames)
          /\ \A s \in Seq(Frames) : s # <<>> => 1 \in DOMAIN s /\ Head(s) = s[1]
      BY DEF WireTypes, NextOnes
    <3>2. \/ old # <<>> /\ Head(old).kind = "chat"
          \/ next.frames # <<>> /\ Head(next.frames).kind = "chat"
      BY <1>2 DEF SessionHears, OldHears, NextHears, OnNext, OnOld
    <3>3. saying[task.generation] = Silent
      BY <1>2 DEF SessionHears, OldHears, NextHears, Runs
    <3> QED
      BY <3>1, <3>2, <3>3 DEF MessageWaits
  <2>5. \A g \in Generations : hand'[g] = hand[g] \/ g = task.generation
    <3>1. PICK id : Hears(id)
      BY <1>2 DEF SessionHears, OldHears, NextHears
    <3> QED
      BY <3>1 DEF Hears, PathTypes
  <2> QED
    BY <2>1, <2>3, <2>4, <2>5 DEF SaysNothing
<1>3. CASE Sends
  <2>1. Quiet /\ Environment
    BY <1>3, TwitchQuietly DEF Sends, TwitchSends, TwitchSendsAgain, TwitchAsksToMove,
                               TwitchCloses, TwitchRevokes, TwitchWelcomesNext
  <2>2. twitch' = twitch \/ twitch' = [twitch EXCEPT !.sent = @ + 1]
    BY <1>3 DEF Sends, TwitchSends, TwitchSendsAgain, TwitchAsksToMove, TwitchCloses, TwitchRevokes,
                TwitchWelcomesNext
  <2>3. twitch'.subscribed = twitch.subscribed
    BY <2>2 DEF WireTypes, Links
  <2> QED
    BY <2>1, <2>3 DEF Quiet, SaysNothing, Environment, eventVars
<1>4. CASE Tick
  BY <1>4 DEF Tick, SaysNothing, taskVars, eventVars
<1> QED
  BY <1>1, <1>2, <1>3, <1>4 DEF Whispering

\* What may happen, as the boundary and the window see it.
LEMMA BoundaryKinds ==
  ASSUME PathTypes, WireTypes, [Next]_vars
  PROVE  \/ TaskSays \/ SaysNothing
         \/ Stop /\ UNCHANGED view
         \/ Connect /\ UNCHANGED view
         \/ \E g \in Generations : Dispatch(g) /\ UNCHANGED view
         \/ \E g \in Generations : RecordTwitchStatus(g) /\ UNCHANGED <<eventSubVars, view>>
         \/ \E g \in Generations : EmitTwitchStatus(g) /\ UNCHANGED <<eventSubVars, view>>
         \/ ViewStep /\ UNCHANGED eventSubVars
<1>1. CASE UNCHANGED vars
  BY <1>1 DEF vars, eventSubVars, SaysNothing
<1>2. CASE TaskStep /\ UNCHANGED view
  <2>1. Speaking \/ Whispering \/ \E g \in Generations : Dispatch(g)
    BY <1>2 DEF TaskStep, Speaking, Whispering, Fails
  <2> QED
    BY <1>2, <2>1, SpeakingSays, WhisperingSaysNothing
<1>3. CASE TwitchStep /\ UNCHANGED view
  <2>1. Whispering
    BY <1>3 DEF TwitchStep, Whispering, Sends
  <2> QED
    BY <1>3, <2>1, WhisperingSaysNothing
<1>4. CASE CommandStep /\ UNCHANGED view
  BY <1>4 DEF CommandStep
<1>5. CASE EventStep /\ UNCHANGED <<eventSubVars, view>>
  BY <1>5 DEF EventStep
<1>6. CASE WindowIsOpen /\ ViewStep /\ UNCHANGED eventSubVars
  BY <1>6
<1> QED
  BY <1>1, <1>2, <1>3, <1>4, <1>5, <1>6 DEF Next

-----------------------------------------------------------------------------
(***************************************************************************)
(* The statuses stand in one line: each part of it is kept.                *)
(***************************************************************************)
\* One line of statuses: types, order, who speaks, and what is still to come.
StatusInv == BoundaryTypes /\ ViewTypes /\ HistoryOrdered /\ SpeakerInv /\ CatchingUp

\* What is on its way is a status or a message.
LEMMA EventFacts ==
  ASSUME BoundaryTypes
  PROVE  /\ DOMAIN events = 1 .. Len(events) /\ Len(events) \in Nat
         /\ \A i \in DOMAIN events :
              /\ events[i] \in Events
              /\ IsStatus(i) => events[i].payload \in Statuses /\ ~IsChat(i)
              /\ IsChat(i) => events[i].payload \in Messages /\ ~IsStatus(i)
              /\ IsStatus(i) \/ IsChat(i)
         /\ \A g \in Generations : /\ saying[g].event \in Statuses
                                   /\ saying[g].step \in {"silent", "record", "emit"}
<1>1. DOMAIN events = 1 .. Len(events) /\ Len(events) \in Nat
  BY DEF BoundaryTypes
<1>2. \A i \in DOMAIN events : events[i] \in Events
  BY DEF BoundaryTypes
<1>3. ASSUME NEW i \in DOMAIN events
      PROVE  /\ IsStatus(i) => events[i].payload \in Statuses /\ ~IsChat(i)
             /\ IsChat(i) => events[i].payload \in Messages /\ ~IsStatus(i)
             /\ IsStatus(i) \/ IsChat(i)
  <2>1. events[i] \in [name : {"status"}, payload : Statuses]
          \/ events[i] \in [name : {"chat"}, payload : Messages]
    BY <1>2, <1>3 DEF Events
  <2> QED
    BY <2>1 DEF IsStatus, IsChat
<1>4. \A g \in Generations : /\ saying[g].event \in Statuses
                             /\ saying[g].step \in {"silent", "record", "emit"}
  BY DEF BoundaryTypes
<1> QED
  BY <1>1, <1>2, <1>3, <1>4

\* What is out is a status.
LEMMA OutType ==
  ASSUME BoundaryTypes, ViewTypes, NEW s, Out(s)
  PROVE  s \in Statuses
BY EventFacts, NoStatusType DEF Out, BoundaryTypes, ViewTypes, Views

\* What a task says is a status of its generation.
LEMMA SayType ==
  ASSUME NEW g \in Generations, NEW status \in StatusNames, NEW active \in {0, g},
         status = "disconnected" => active = 0
  PROVE  /\ Status(0, status, g, active) \in Statuses
         /\ Status(0, status, g, active).generation = g
         /\ Status(0, status, g, active).status = status
         /\ Status(0, status, g, active).active = active
BY GenerationAssumption DEF Status, Statuses, Generations

\* Nothing new is on its way, and the record is the same.
LEMMA NothingNew ==
  ASSUME HistoryOrdered, retained' = retained, \A s : Out(s)' => Out(s)
  PROVE  HistoryOrdered'
BY DEF HistoryOrdered

\* A speaker begins to record.
LEMMA SayingStatus ==
  ASSUME StatusInv, NEW g \in Generations, NEW status \in StatusNames, NEW active \in {0, g},
         status = "disconnected" => active = 0, saying[g] = Silent,
         Say(g, status, active), UNCHANGED <<retained, listening, events, view>>
  PROVE  /\ BoundaryTypes' /\ ViewTypes' /\ HistoryOrdered' /\ CatchingUp'
         /\ \A h \in Generations \ {g} : saying'[h] = saying[h]
         /\ saying'[g].step = "record" /\ saying'[g].event = Status(0, status, g, active)
<1> DEFINE said == Status(0, status, g, active)
<1>1. said \in Statuses
  BY SayType
<1>2. saying \in [Generations -> [step : {"silent", "record", "emit"}, event : Statuses]]
  BY DEF StatusInv, BoundaryTypes
<1>3. /\ \A h \in Generations \ {g} : saying'[h] = saying[h]
      /\ saying'[g] = [step |-> "record", event |-> said]
  BY <1>2 DEF Say
<1>4. BoundaryTypes'
  <2> HIDE DEF said
  <2>1. [step |-> "record", event |-> said]
           \in [step : {"silent", "record", "emit"}, event : Statuses]
    BY <1>1
  <2>2. saying' = [saying EXCEPT ![g] = [step |-> "record", event |-> said]]
    BY DEF Say, said
  <2>3. saying' \in [Generations -> [step : {"silent", "record", "emit"}, event : Statuses]]
    BY <1>2, <2>1, <2>2
  <2> QED
    BY <2>3 DEF StatusInv, BoundaryTypes
<1>5. \A h \in Generations : saying'[h].step = "emit" => saying'[h] = saying[h]
  BY <1>3
<1>6. \A s : Out(s)' => Out(s)
  BY <1>5 DEF Out, IsStatus
<1>7. HistoryOrdered'
  BY <1>6, NothingNew DEF StatusInv
<1>8. CatchingUp'
  <2>1. saying[g].step # "emit"
    BY NoStatusType
  <2>2. \A h \in Generations : saying[h].step = "emit" => saying'[h] = saying[h]
    BY <1>3, <2>1
  <2>3. \A s : Coming(s) => Coming(s)'
    BY <2>2 DEF Coming, IsStatus
  <2> QED
    BY <2>3 DEF StatusInv, CatchingUp
<1> QED
  BY <1>3, <1>4, <1>7, <1>8 DEF StatusInv, ViewTypes

\* The task records a status.
LEMMA TaskSaysStatus ==
  ASSUME StatusInv, PathTypes, PathShape, TaskSays
  PROVE  StatusInv'
<1> DEFINE g == task.generation
<1>1. g \in Generations /\ owner.generation \in Nat /\ g <= owner.generation
  BY DEF TaskSays, PathShape, PathTypes, Tasks, Generations
<1>2. PICK status \in StatusNames, active \in {0, g} :
        Says(status, active) /\ (status = "disconnected" => active = 0 /\ task'.stage = "ended")
  BY DEF TaskSays
<1>3. /\ BoundaryTypes' /\ ViewTypes' /\ HistoryOrdered' /\ CatchingUp'
      /\ \A h \in Generations \ {g} : saying'[h] = saying[h]
      /\ saying'[g].step = "record" /\ saying'[g].event = Status(0, status, g, active)
  BY <1>1, <1>2, SayingStatus DEF TaskSays, Says
<1>4. ~Ends(g)
  BY <1>1 DEF StatusInv, SpeakerInv, TaskSays
<1>5. /\ Status(0, status, g, active).generation = g
      /\ Status(0, status, g, active).status = status
  BY <1>1, <1>2, SayType
<1>6. SpeakerInv'
  <2>1. /\ owner' = owner /\ retained' = retained /\ task'.generation = g
        /\ task.stage # "ended"
    BY DEF TaskSays
  <2>2. ASSUME NEW h \in Generations
        PROVE  /\ saying'[h].step # "silent" => h <= owner.generation
               /\ saying'[h].step = "silent" => saying'[h] = Silent
               /\ saying'[h].step = "record" => saying'[h].event.generation = h
               /\ Ends(h)' => task'.generation # h \/ task'.stage = "ended"
               /\ retained.generation = h /\ retained.status = "disconnected" =>
                    saying'[h].step # "record"
    <3>1. CASE h = g
      <4>1. ~(retained.generation = g /\ retained.status = "disconnected")
        BY <1>4 DEF Ends
      <4>2. Ends(g)' => status = "disconnected"
        BY <1>3, <1>5, <2>1, <4>1 DEF Ends
      <4> QED
        BY <1>1, <1>2, <1>3, <1>5, <3>1, <4>1, <4>2
    <3>2. CASE h # g
      <4>1. saying'[h] = saying[h]
        BY <1>3, <3>2
      <4> QED
        BY <2>1, <3>2, <4>1 DEF StatusInv, SpeakerInv
    <3> QED
      BY <3>1, <3>2
  <2> QED
    BY <2>1, <2>2 DEF SpeakerInv, StatusInv
<1> QED
  BY <1>3, <1>6 DEF StatusInv

\* A command replaces or stops the connection.
LEMMA CommandStatus ==
  ASSUME StatusInv, PathTypes, WireTypes, PathShape, Connect \/ Stop, UNCHANGED view
  PROVE  StatusInv'
<1> DEFINE g == owner.generation + 1
<1>1. g \in Generations /\ owner'.generation = g /\ owner.generation \in Nat
  BY CommandTypes DEF PathTypes
<1>2. task.generation \in Nat /\ task.generation <= owner.generation
  BY DEF PathTypes, PathShape, Tasks
<1>3. retained.generation \in Nat /\ retained.generation <= owner.generation
  BY DEF StatusInv, SpeakerInv, BoundaryTypes, Statuses
<1>4. saying[g] = Silent /\ saying[g].step = "silent"
  <2>1. ~(g <= owner.generation)
    BY <1>1
  <2>2. saying[g].step = "silent"
    BY <1>1, <2>1 DEF StatusInv, SpeakerInv
  <2> QED
    BY <1>1, <2>2 DEF StatusInv, SpeakerInv
<1>5. ~Ends(g)
  BY <1>1, <1>3, <1>4 DEF Ends
<1>6. CASE Connect
  <2>1. /\ task' = NewTask(g) /\ UNCHANGED <<retained, saying, listening, events>>
    BY <1>6 DEF Connect
  <2>2. task'.generation = g
    BY <1>1, <2>1, NewTaskType DEF Generations
  <2>3. \A s : Out(s)' => Out(s)
    BY <2>1 DEF Out, IsStatus
  <2>4. HistoryOrdered'
    BY <2>1, <2>3, NothingNew DEF StatusInv
  <2>5. SpeakerInv'
    <3>1. \A h \in Generations : Ends(h)' => h # g
      BY <1>5, <2>1 DEF Ends
    <3>2. \A h \in Generations : h <= owner.generation => h <= owner'.generation
      BY <1>1 DEF Generations
    <3>3. retained.generation <= owner'.generation
      BY <1>1, <1>3
    <3> QED
      BY <2>1, <2>2, <3>1, <3>2, <3>3 DEF StatusInv, SpeakerInv
  <2>6. CatchingUp'
    BY <2>1 DEF StatusInv, CatchingUp, Coming, IsStatus
  <2> QED
    BY <2>1, <2>4, <2>5, <2>6 DEF StatusInv, BoundaryTypes, ViewTypes
<1>7. CASE Stop
  <2>1. /\ Say(g, "disconnected", 0) /\ UNCHANGED <<retained, listening, events>>
        /\ task' = [task EXCEPT !.stage = "ended"] /\ "disconnected" \in StatusNames
    BY <1>7 DEF Stop, StatusNames
  <2>2. task'.generation = task.generation /\ task'.stage = "ended"
    BY <2>1 DEF PathTypes, Tasks
  <2>3. /\ BoundaryTypes' /\ ViewTypes' /\ HistoryOrdered' /\ CatchingUp'
        /\ \A h \in Generations \ {g} : saying'[h] = saying[h]
        /\ saying'[g].step = "record" /\ saying'[g].event = Status(0, "disconnected", g, 0)
    BY <1>1, <1>4, <2>1, SayingStatus
  <2>4. Status(0, "disconnected", g, 0).generation = g
    BY DEF Status
  <2>5. SpeakerInv'
    <3>1. ASSUME NEW h \in Generations
          PROVE  /\ saying'[h].step # "silent" => h <= owner'.generation
                 /\ saying'[h].step = "silent" => saying'[h] = Silent
                 /\ saying'[h].step = "record" => saying'[h].event.generation = h
                 /\ retained'.generation = h /\ retained'.status = "disconnected" =>
                      saying'[h].step # "record"
      <4>1. CASE h = g
        BY <1>1, <1>3, <2>1, <2>3, <2>4, <4>1
      <4>2. CASE h # g
        <5>1. saying'[h] = saying[h]
          BY <2>3, <4>2
        <5>2. h <= owner.generation => h <= owner'.generation
          BY <1>1 DEF Generations
        <5> QED
          BY <2>1, <5>1, <5>2 DEF StatusInv, SpeakerInv
      <4> QED
        BY <4>1, <4>2
    <3>2. retained'.generation <= owner'.generation
      BY <1>1, <1>3, <2>1
    <3> QED
      BY <2>2, <3>1, <3>2 DEF SpeakerInv
  <2> QED
    BY <2>3, <2>5 DEF StatusInv
<1> QED
  BY <1>6, <1>7

\* Nothing is said.
LEMMA NothingStatus ==
  ASSUME StatusInv, SaysNothing
  PROVE  StatusInv'
<1>1. UNCHANGED <<retained, saying, listening, events, view, owner>>
  BY DEF SaysNothing, eventVars
<1>2. HistoryOrdered'
  BY <1>1, NothingNew DEF StatusInv, Out, IsStatus
<1>3. SpeakerInv'
  BY <1>1 DEF StatusInv, SpeakerInv, SaysNothing, Ends
<1>4. CatchingUp'
  BY <1>1 DEF StatusInv, CatchingUp, Coming, IsStatus
<1> QED
  BY <1>1, <1>2, <1>3, <1>4 DEF StatusInv, BoundaryTypes, ViewTypes

\* An event is appended, or nothing, for want of a listener.
LEMMA HeardFacts ==
  ASSUME BoundaryTypes, NEW name \in {"status", "chat"}, NEW payload,
         [name |-> name, payload |-> payload] \in Events,
         events' = Heard(name, payload)
  PROVE  /\ events' \in Seq(Events) /\ DOMAIN events \subseteq DOMAIN events'
         /\ \A i \in DOMAIN events : events'[i] = events[i]
         /\ name \notin listening => events' = events
         /\ name \in listening => /\ DOMAIN events' = DOMAIN events \cup {Len(events) + 1}
                                  /\ Len(events') = Len(events) + 1
                                  /\ events'[Len(events) + 1].name = name
                                  /\ events'[Len(events) + 1].payload = payload
         /\ \A i \in DOMAIN events' : i \in DOMAIN events
                                      \/ /\ i = Len(events) + 1 /\ name \in listening
                                         /\ events'[i].name = name
                                         /\ events'[i].payload = payload
<1> DEFINE event == [name |-> name, payload |-> payload]
<1>1. events \in Seq(Events) /\ event \in Events
  BY DEF BoundaryTypes
<1>2. event.name = name /\ event.payload = payload
  OBVIOUS
<1> HIDE DEF event
<1>3. CASE name \in listening
  <2>1. events' = Append(events, event)
    BY <1>3 DEF Heard, event
  <2>2. /\ events' \in Seq(Events) /\ Len(events') = Len(events) + 1 /\ Len(events) \in Nat
        /\ \A i \in 1 .. Len(events) : events'[i] = events[i]
        /\ events'[Len(events) + 1] = event
    BY <1>1, <2>1, AppendFacts
  <2>3. DOMAIN events = 1 .. Len(events) /\ DOMAIN events' = 1 .. Len(events) + 1
    BY <1>1, <2>2
  <2> QED
    BY <1>2, <1>3, <2>2, <2>3
<1>4. CASE name \notin listening
  BY <1>1, <1>4 DEF Heard
<1> QED
  BY <1>3, <1>4

\* A message is emitted.
LEMMA DispatchStatus ==
  ASSUME StatusInv, PathTypes, NEW g \in Generations, Dispatch(g), UNCHANGED view
  PROVE  StatusInv'
<1>1. UNCHANGED <<retained, saying, listening, view, owner, task>>
  BY DEF Dispatch
<1>2. CASE events' = events
  <2>1. HistoryOrdered'
    BY <1>1, <1>2, NothingNew DEF StatusInv, Out, IsStatus
  <2>2. CatchingUp' /\ SpeakerInv'
    BY <1>1, <1>2 DEF StatusInv, CatchingUp, Coming, IsStatus, SpeakerInv, Ends
  <2> QED
    BY <1>1, <1>2, <2>1, <2>2 DEF StatusInv, BoundaryTypes, ViewTypes
<1>3. CASE events' # events
  <2> DEFINE message == [generation |-> g, id |-> hand[g]]
  <2>1. events' = Heard("chat", message) /\ hand[g] # NoHand
    BY <1>3 DEF Dispatch
  <2>2. message \in Messages
    BY <2>1 DEF PathTypes, NoHand, Messages, Ids
  <2>3. [name |-> "chat", payload |-> message] \in Events
    BY <2>2 DEF Events
  <2> HIDE DEF message
  <2>4. /\ events' \in Seq(Events) /\ DOMAIN events \subseteq DOMAIN events'
        /\ \A i \in DOMAIN events : events'[i] = events[i]
        /\ \A i \in DOMAIN events' : i \in DOMAIN events \/ events'[i].name = "chat"
    BY <2>1, <2>3, HeardFacts DEF StatusInv
  <2>5. \A s : Out(s)' => Out(s)
    BY <1>1, <2>4 DEF Out, IsStatus
  <2>6. HistoryOrdered'
    BY <1>1, <2>5, NothingNew DEF StatusInv
  <2>7. \A s : Coming(s) => Coming(s)'
    BY <1>1, <2>4 DEF Coming, IsStatus
  <2>8. CatchingUp' /\ SpeakerInv'
    BY <1>1, <2>7 DEF StatusInv, CatchingUp, SpeakerInv, Ends
  <2> QED
    BY <1>1, <2>4, <2>6, <2>8 DEF StatusInv, BoundaryTypes, ViewTypes
<1> QED
  BY <1>2, <1>3

\* A status is emitted.
LEMMA EmitStatus ==
  ASSUME StatusInv, NEW g \in Generations, EmitTwitchStatus(g),
         UNCHANGED <<eventSubVars, view>>
  PROVE  StatusInv'
<1>1. UNCHANGED <<retained, listening, view, owner, task>>
  BY DEF EmitTwitchStatus, eventSubVars
<1>2. /\ saying[g].step = "emit" /\ saying[g].event \in Statuses
      /\ saying \in [Generations -> [step : {"silent", "record", "emit"}, event : Statuses]]
  BY DEF EmitTwitchStatus, StatusInv, BoundaryTypes
<1>3. /\ \A h \in Generations \ {g} : saying'[h] = saying[h]
      /\ saying'[g] = Silent /\ saying'[g].step = "silent"
      /\ saying' \in [Generations -> [step : {"silent", "record", "emit"}, event : Statuses]]
  BY <1>2, NoStatusType DEF EmitTwitchStatus
<1> DEFINE said == saying[g].event
<1>4. events' = Heard("status", said)
  BY DEF EmitTwitchStatus
<1>5. [name |-> "status", payload |-> said] \in Events
  BY <1>2 DEF Events
<1> HIDE DEF said
<1>6. /\ events' \in Seq(Events) /\ DOMAIN events \subseteq DOMAIN events'
      /\ \A i \in DOMAIN events : events'[i] = events[i]
      /\ \A i \in DOMAIN events' : i \in DOMAIN events \/ events'[i].payload = said
      /\ "status" \in listening =>
           \E i \in DOMAIN events' : events'[i].name = "status" /\ events'[i].payload = said
  BY <1>4, <1>5, HeardFacts DEF StatusInv
<1>7. HistoryOrdered'
  <2>1. Out(said)
    BY <1>2 DEF Out, said
  <2>2. \A h \in Generations : saying'[h].step = "emit" => saying'[h] = saying[h]
    BY <1>3
  <2>3. \A s : Out(s)' => Out(s)
    BY <1>1, <1>6, <2>1, <2>2 DEF Out, IsStatus
  <2> QED
    BY <1>1, <2>3, NothingNew DEF StatusInv
<1>8. CatchingUp'
  <2> SUFFICES ASSUME view.phase # "subscribing"
               PROVE  \A s : Coming(s) => Coming(s)'
    BY <1>1 DEF StatusInv, CatchingUp
  <2>1. "status" \in listening
    BY DEF StatusInv, CatchingUp, Listeners
  <2>2. \A s : s = said => Coming(s)'
    BY <1>6, <2>1 DEF Coming, IsStatus
  <2>3. \A s : Coming(s) => s = said \/ Coming(s)'
    BY <1>3, <1>6 DEF Coming, IsStatus, said
  <2> QED
    BY <2>2, <2>3
<1>9. SpeakerInv'
  <2>1. \A h \in Generations : Ends(h)' => Ends(h)
    BY <1>1, <1>3 DEF Ends
  <2>2. \A h \in Generations : \/ saying'[h] = saying[h]
                               \/ saying'[h] = Silent /\ saying'[h].step = "silent"
    BY <1>3
  <2> QED
    BY <1>1, <2>1, <2>2 DEF StatusInv, SpeakerInv
<1> QED
  BY <1>1, <1>3, <1>6, <1>7, <1>8, <1>9 DEF StatusInv, BoundaryTypes, ViewTypes

\* What record_twitch_status makes of a status comes after all that are out.
LEMMA RecordedIsLast ==
  ASSUME StatusInv, NEW g \in Generations, saying[g].step = "record",
         ~(saying[g].event.generation < retained.generation)
  PROVE  LET made == Recorded(saying[g].event)
         IN  /\ made \in Statuses
             /\ made.revision = retained.revision + 1
             /\ made.generation = g /\ made.status = saying[g].event.status
             /\ saying[g].event.active = g => made.active = g \/ made.status = "disconnected"
             /\ \A s : Out(s) => s.revision < made.revision /\ Ordered(s, made)
<1> DEFINE said == saying[g].event
           kept == IF Inherits(said) THEN retained.active ELSE said.active
           made == Recorded(said)
<1>1. /\ said \in Statuses /\ retained \in Statuses /\ said.generation = g
      /\ said.revision \in Nat /\ retained.revision \in Nat
      /\ retained.generation \in Nat /\ g \in Nat /\ retained.generation <= g
  BY EventFacts DEF StatusInv, BoundaryTypes, SpeakerInv, Statuses, Generations
<1>2. made = Status(retained.revision + 1, said.status, g, kept)
  BY <1>1 DEF Recorded
<1>3. kept \in {0, g} /\ (said.status = "disconnected" => kept = 0)
  BY <1>1 DEF Inherits, Statuses
<1> HIDE DEF kept, made
<1>4. /\ made.revision = retained.revision + 1 /\ made.status = said.status
      /\ made.generation = g /\ made.active = kept
  BY <1>2 DEF Status
<1>5. made \in Statuses
  <2>1. /\ retained.revision + 1 \in Nat /\ said.status \in StatusNames
        /\ g \in 0 .. MaxGeneration /\ kept \in 0 .. MaxGeneration
    BY <1>1, <1>3, GenerationAssumption DEF Statuses, Generations
  <2> QED
    BY <1>2, <1>3, <2>1 DEF Status, Statuses
<1>6. ASSUME NEW s, Out(s)
      PROVE  s.revision < made.revision /\ Ordered(s, made)
  <2>1. /\ s \in Statuses /\ s.revision \in Nat /\ s.generation \in Nat
        /\ s.active \in {0, s.generation}
        /\ s.revision <= retained.revision /\ Ordered(s, retained)
    <3>1. Out(retained)
      BY DEF Out
    <3>2. s \in Statuses
      BY <1>6, OutType DEF StatusInv
    <3> QED
      BY <1>6, <3>1, <3>2 DEF StatusInv, HistoryOrdered, Statuses
  <2>2. s.revision < made.revision
    BY <1>1, <1>4, <2>1
  <2>3. s = retained \/ s.revision < retained.revision
    BY <1>1, <2>1 DEF Ordered
  <2>4. s.generation <= retained.generation
    BY <1>1, <2>1, <2>3 DEF Ordered
  <2>5. s.generation <= made.generation
    BY <1>1, <1>4, <2>1, <2>4
  <2>6. ASSUME s.generation = made.generation
        PROVE  /\ s.status # "disconnected"
               /\ s.active # 0 => made.active = s.active \/ made.status = "disconnected"
    <3>1. retained.generation = g /\ s.generation = g
      BY <1>1, <1>4, <2>4, <2>6
    <3>2. retained.status # "disconnected"
      BY <3>1 DEF StatusInv, SpeakerInv
    <3>3. s.status # "disconnected"
      BY <2>1, <2>3, <3>1, <3>2 DEF Ordered
    <3>4. ASSUME s.active # 0 PROVE made.active = g \/ made.status = "disconnected"
      <4>1. retained.active = g
        <5>1. s.active = g
          BY <2>1, <3>1, <3>4
        <5> QED
          BY <2>1, <2>3, <3>1, <3>2, <3>4, <5>1 DEF Ordered
      <4>2. CASE said.status = "disconnected"
        BY <1>4, <4>2
      <4>3. CASE said.status # "disconnected" /\ said.active = 0
        <5>1. kept = retained.active
          BY <1>1, <3>1, <4>3 DEF kept, Inherits
        <5> QED
          BY <1>4, <4>1, <5>1
      <4>4. CASE said.status # "disconnected" /\ said.active # 0
        <5>1. kept = said.active /\ said.active = g
          BY <1>1, <4>4 DEF kept, Inherits, Statuses
        <5> QED
          BY <1>4, <5>1
      <4> QED
        BY <4>2, <4>3, <4>4
    <3> QED
      BY <2>1, <3>1, <3>3, <3>4
  <2>7. s.revision # made.revision
    BY <1>1, <1>4, <2>1, <2>2
  <2> QED
    BY <2>2, <2>5, <2>6, <2>7 DEF Ordered
<1>7. said.active = g => made.active = g \/ made.status = "disconnected"
  <2> SUFFICES ASSUME said.active = g PROVE made.active = g
    OBVIOUS
  <2>1. ~Inherits(said)
    BY <1>1 DEF Inherits, Generations
  <2> QED
    BY <1>4, <2>1 DEF kept
<1> QED
  BY <1>4, <1>5, <1>6, <1>7 DEF made

\* A status gets its revision.
LEMMA RecordStatus ==
  ASSUME StatusInv, NEW g \in Generations, RecordTwitchStatus(g),
         UNCHANGED <<eventSubVars, view>>
  PROVE  StatusInv'
<1> DEFINE said == saying[g].event
<1>1. /\ UNCHANGED <<listening, events, view, owner, task>>
      /\ saying[g].step = "record" /\ retained' = Recorded(said)
  BY DEF RecordTwitchStatus, eventSubVars
<1>2. /\ saying \in [Generations -> [step : {"silent", "record", "emit"}, event : Statuses]]
      /\ retained \in Statuses /\ said \in Statuses /\ said.generation = g
      /\ g <= owner.generation
  BY <1>1 DEF StatusInv, BoundaryTypes, SpeakerInv
<1>3. retained' \in Statuses
  <2>1. CASE said.generation < retained.generation
    BY <1>1, <1>2, <2>1 DEF Recorded
  <2>2. CASE ~(said.generation < retained.generation)
    BY <1>1, <2>2, RecordedIsLast
  <2> QED
    BY <2>1, <2>2
<1>4. /\ \A h \in Generations \ {g} : saying'[h] = saying[h]
      /\ saying'[g].step = "emit" /\ saying'[g].event = retained'
      /\ saying' \in [Generations -> [step : {"silent", "record", "emit"}, event : Statuses]]
  <2> HIDE DEF said
  <2> DEFINE made == [step |-> "emit", event |-> retained']
  <2>1. /\ made \in [step : {"silent", "record", "emit"}, event : Statuses]
        /\ made.step = "emit" /\ made.event = retained'
    BY <1>3
  <2>2. saying' = [saying EXCEPT ![g] = made]
    BY DEF RecordTwitchStatus
  <2> HIDE DEF made
  <2> QED
    BY <1>2, <2>1, <2>2
<1>5. CatchingUp'
  <2>1. \A s : s = retained' => Coming(s)'
    BY <1>4 DEF Coming
  <2> QED
    BY <1>1, <2>1 DEF StatusInv, CatchingUp
<1>6. \A s : Out(s)' => Out(s) \/ s = retained'
  BY <1>1, <1>4 DEF Out, IsStatus
<1>7. HistoryOrdered'
  <2>1. CASE said.generation < retained.generation
    <3>1. retained' = retained
      BY <1>1, <2>1 DEF Recorded
    <3>2. \A s : Out(s)' => Out(s)
      BY <1>6, <3>1 DEF Out
    <3> QED
      BY <3>1, <3>2, NothingNew DEF StatusInv
  <2>2. CASE ~(said.generation < retained.generation)
    <3>1. /\ retained'.revision \in Nat
          /\ \A s : Out(s) => s.revision < retained'.revision /\ Ordered(s, retained')
      BY <1>1, <1>3, <2>2, RecordedIsLast DEF Statuses
    <3>2. \A s : Out(s) => s.revision \in Nat
      BY OutType DEF StatusInv, Statuses
    <3>3. \A s : Out(s)' => s.revision <= retained'.revision
      BY <1>6, <3>1, <3>2
    <3>4. Ordered(retained', retained')
      BY <3>1 DEF Ordered
    <3>5. \A s : Out(s) => Ordered(retained', s)
      BY <3>1, <3>2 DEF Ordered
    <3>6. \A s, t : Out(s)' /\ Out(t)' => Ordered(s, t)
      BY <1>6, <3>1, <3>4, <3>5 DEF StatusInv, HistoryOrdered
    <3> QED
      BY <3>3, <3>6 DEF HistoryOrdered
  <2> QED
    BY <2>1, <2>2
<1>8. SpeakerInv'
  <2>1. \/ retained' = retained
        \/ retained'.generation = g /\ retained'.status = said.status
    <3>1. CASE said.generation < retained.generation
      BY <1>1, <3>1 DEF Recorded
    <3>2. CASE ~(said.generation < retained.generation)
      BY <1>1, <3>2, RecordedIsLast
    <3> QED
      BY <3>1, <3>2
  <2>2. retained'.generation <= owner'.generation
    BY <1>1, <1>2, <2>1 DEF StatusInv, SpeakerInv
  <2>3. \A h \in Generations : Ends(h)' => Ends(h)
    BY <1>1, <1>4, <2>1 DEF Ends
  <2>4. ASSUME NEW h \in Generations
        PROVE  /\ saying'[h].step # "silent" => h <= owner'.generation
               /\ saying'[h].step = "silent" => saying'[h] = Silent
               /\ saying'[h].step = "record" => saying'[h].event.generation = h
               /\ retained'.generation = h /\ retained'.status = "disconnected" =>
                    saying'[h].step # "record"
    <3>1. CASE h = g
      BY <1>1, <1>2, <1>4, <3>1
    <3>2. CASE h # g
      <4>1. saying'[h] = saying[h]
        BY <1>4, <3>2
      <4>2. retained'.generation = h => retained' = retained
        BY <2>1, <3>2
      <4> QED
        BY <1>1, <4>1, <4>2 DEF StatusInv, SpeakerInv
    <3> QED
      BY <3>1, <3>2
  <2> QED
    BY <1>1, <2>2, <2>3, <2>4 DEF StatusInv, SpeakerInv
<1> QED
  BY <1>1, <1>3, <1>4, <1>5, <1>7, <1>8 DEF StatusInv, BoundaryTypes, ViewTypes

-----------------------------------------------------------------------------

\* The first event is taken away.
LEMMA TailEvents ==
  ASSUME BoundaryTypes, events # <<>>, events' = Tail(events)
  PROVE  /\ 1 \in DOMAIN events /\ Head(events) = events[1]
         /\ events' \in Seq(Events) /\ Len(events') = Len(events) - 1
         /\ \A i \in DOMAIN events' : i \in Nat /\ i + 1 \in DOMAIN events
                                      /\ events'[i] = events[i + 1]
         /\ \A i \in DOMAIN events : i = 1 \/ /\ i - 1 \in DOMAIN events'
                                              /\ events'[i - 1] = events[i]
<1>1. events \in Seq(Events)
  BY DEF BoundaryTypes
<1>2. /\ Head(events) = events[1] /\ Len(events) \in Nat \ {0}
      /\ events' \in Seq(Events) /\ Len(events') = Len(events) - 1
      /\ \A i \in 1 .. Len(events) - 1 : events'[i] = events[i + 1]
  BY <1>1, TailFacts
<1>3. DOMAIN events = 1 .. Len(events) /\ DOMAIN events' = 1 .. Len(events) - 1
  BY <1>1, <1>2
<1>4. ASSUME NEW i \in DOMAIN events, i # 1
      PROVE  i - 1 \in DOMAIN events' /\ events'[i - 1] = events[i]
  <2>1. i - 1 \in 1 .. Len(events) - 1 /\ (i - 1) + 1 = i
    BY <1>2, <1>3, <1>4
  <2> QED
    BY <1>2, <1>3, <2>1
<1>5. \A i \in DOMAIN events' : i \in Nat /\ i + 1 \in DOMAIN events
  BY <1>2, <1>3
<1> QED
  BY <1>2, <1>3, <1>4, <1>5

\* What a status makes of the window.
LEMMA TakesOver ==
  ASSUME StatusInv, NEW e, Out(e)
  PROVE  /\ Apply(e, view) \in Views
         /\ \/ Apply(e, view) = [view EXCEPT !.known = e] /\ IsNews(e, view)
            \/ Apply(e, view) = view /\ ~IsNews(e, view)
         /\ Apply(e, view).known \in {e, view.known}
         /\ Apply(e, view).known.revision >= e.revision
         /\ Apply(e, view).known.revision >= view.known.revision
         /\ e = retained \/ view.known = retained => Apply(e, view).known = retained
<1>1. /\ view \in Views /\ view.known \in Statuses /\ e \in Statuses /\ Out(view.known)
      /\ Ordered(view.known, e) /\ retained \in Statuses
      /\ e.revision <= retained.revision /\ view.known.revision <= retained.revision
      /\ Ordered(view.known, retained) /\ Out(retained)
  <2>1. e \in Statuses
    BY OutType DEF StatusInv
  <2>2. Out(view.known) /\ Out(retained)
    BY DEF Out
  <2> QED
    BY <2>1, <2>2 DEF StatusInv, ViewTypes, Views, HistoryOrdered, BoundaryTypes
<1>2. e.revision \in Nat /\ view.known.revision \in Nat /\ retained.revision \in Nat
  BY <1>1 DEF Statuses
<1>3. CASE /\ e.revision > view.known.revision /\ IsNews(e, view)
           /\ Apply(e, view) = [view EXCEPT !.known = e]
  <2>1. Apply(e, view).known = e /\ Apply(e, view) \in Views
    BY <1>1, <1>3 DEF Views
  <2> QED
    BY <1>1, <1>2, <1>3, <2>1
<1>4. CASE /\ e.revision <= view.known.revision /\ ~IsNews(e, view)
           /\ Apply(e, view) = view
  <2>1. e = retained => view.known = retained
    BY <1>1, <1>2, <1>4 DEF Ordered
  <2> QED
    BY <1>1, <1>2, <1>4, <2>1
<1> QED
  BY <1>1, <1>3, <1>4, ApplyFacts

\* A status comes to the window.
LEMMA ArrivalStatus ==
  ASSUME StatusInv, StatusArrives, UNCHANGED eventSubVars
  PROVE  /\ StatusInv'
         /\ Out(events[1].payload)
         /\ \/ view' = Apply(events[1].payload, view)
            \/ ~RestorationPending /\ view' = Flushed(Apply(events[1].payload, view))
<1> DEFINE e == events[1].payload
<1>1. /\ events # <<>> /\ events' = Tail(events) /\ Head(events).name = "status"
      /\ UNCHANGED <<retained, saying, listening, owner, task>>
  BY DEF StatusArrives, eventSubVars
<1>2. /\ 1 \in DOMAIN events /\ Head(events) = events[1] /\ events' \in Seq(Events)
      /\ \A i \in DOMAIN events' : i + 1 \in DOMAIN events /\ events'[i] = events[i + 1]
      /\ \A i \in DOMAIN events : i = 1 \/ /\ i - 1 \in DOMAIN events'
                                           /\ events'[i - 1] = events[i]
  BY <1>1, TailEvents DEF StatusInv
<1>3. Out(e) /\ IsStatus(1)
  BY <1>1, <1>2 DEF Out, IsStatus
<1>4. \/ view' = Apply(e, view)
      \/ ~RestorationPending /\ view' = Flushed(Apply(e, view))
  <2>1. view' = IF RestorationPending \/ ~IsNews(e, view)
                THEN Apply(e, view) ELSE Flushed(Apply(e, view))
    BY <1>2 DEF StatusArrives
  <2> QED
    BY <2>1 DEF RestorationPending, IsNews
<1> HIDE DEF e
<1>5. view \in Views /\ Len(view.buffer) <= BufferLimit
  BY DEF StatusInv, ViewTypes
<1>6. /\ Apply(e, view) \in Views
      /\ Apply(e, view).known \in {e, view.known}
      /\ e = retained \/ view.known = retained => Apply(e, view).known = retained
      /\ Apply(e, view).phase = view.phase /\ Apply(e, view).answer = view.answer
      /\ Apply(e, view).buffer = view.buffer
  <2>1. /\ Apply(e, view) \in Views
        /\ Apply(e, view) = [view EXCEPT !.known = e] \/ Apply(e, view) = view
        /\ Apply(e, view).known \in {e, view.known}
        /\ e = retained \/ view.known = retained => Apply(e, view).known = retained
    BY <1>3, TakesOver
  <2> QED
    BY <1>5, <2>1 DEF Views
<1> DEFINE v == Apply(e, view)
<1> HIDE DEF v
<1>7. /\ view' \in Views /\ view'.known = v.known /\ view'.phase = v.phase
      /\ view'.answer = v.answer /\ Len(view'.buffer) <= BufferLimit
  <2>1. CASE view' = v
    BY <1>5, <1>6, <2>1 DEF v
  <2>2. CASE view' = Flushed(v)
    <3>1. /\ Flushed(v) \in Views
          /\ Flushed(v) = [v EXCEPT !.buffer = <<>>,
                                    !.shown = v.shown \o InOrder(v.buffer, Matching(v))]
      BY <1>6, FlushedFacts DEF v
    <3>2. v \in Views
      BY <1>6 DEF v
    <3>3. /\ Flushed(v).known = v.known /\ Flushed(v).phase = v.phase
          /\ Flushed(v).answer = v.answer /\ Flushed(v).buffer = <<>>
      BY <3>1, <3>2 DEF Views
    <3> QED
      BY <2>2, <3>1, <3>3, ViewAssumption
  <2> QED
    BY <1>4, <2>1, <2>2 DEF v
<1>8. \A s : Out(s)' => Out(s)
  <2>1. view'.known \in {e, view.known} /\ view'.answer = view.answer
    BY <1>6, <1>7 DEF v
  <2>2. Out(view.known) /\ Out(view.answer)
    BY DEF Out
  <2>3. \A i \in DOMAIN events' : IsStatus(i)' => Out(events'[i].payload)
    BY <1>2 DEF Out, IsStatus
  <2> QED
    BY <1>1, <1>3, <2>1, <2>2, <2>3 DEF Out
<1>9. HistoryOrdered'
  BY <1>1, <1>8, NothingNew DEF StatusInv
<1>10. CatchingUp'
  <2>1. \A s : Coming(s) => s = e \/ Coming(s)'
    <3>1. \A i \in DOMAIN events : IsStatus(i) =>
            \/ events[i].payload = e
            \/ /\ i - 1 \in DOMAIN events' /\ events'[i - 1].name = "status"
               /\ events'[i - 1].payload = events[i].payload
      BY <1>2 DEF IsStatus, e
    <3> QED
      BY <1>1, <3>1 DEF Coming, IsStatus
  <2>2. /\ view'.phase = view.phase /\ view'.answer = view.answer
        /\ e = retained \/ view.known = retained => view'.known = retained
    BY <1>6, <1>7 DEF v
  <2> QED
    BY <1>1, <2>1, <2>2 DEF StatusInv, CatchingUp
<1>11. SpeakerInv'
  BY <1>1 DEF StatusInv, SpeakerInv, Ends
<1> QED
  BY <1>1, <1>2, <1>3, <1>4, <1>7, <1>9, <1>10, <1>11 DEF StatusInv, BoundaryTypes, ViewTypes, e

\* A message comes to the window.
LEMMA MessageStatus ==
  ASSUME StatusInv, ChatMessageArrives, UNCHANGED eventSubVars
  PROVE  /\ StatusInv'
         /\ view'.phase = view.phase /\ view'.known = view.known /\ view'.answer = view.answer
         /\ events[1].payload \in Messages /\ IsChat(1)
<1> DEFINE m == events[1].payload
<1>1. /\ events # <<>> /\ events' = Tail(events) /\ Head(events).name = "chat"
      /\ UNCHANGED <<retained, saying, listening, owner, task>>
  BY DEF ChatMessageArrives, eventSubVars
<1>2. /\ 1 \in DOMAIN events /\ Head(events) = events[1] /\ events' \in Seq(Events)
      /\ \A i \in DOMAIN events' : i + 1 \in DOMAIN events /\ events'[i] = events[i + 1]
      /\ \A i \in DOMAIN events : i = 1 \/ /\ i - 1 \in DOMAIN events'
                                           /\ events'[i - 1] = events[i]
  BY <1>1, TailEvents DEF StatusInv
<1>3. m \in Messages /\ IsChat(1) /\ ~IsStatus(1)
  BY <1>1, <1>2, EventFacts DEF IsChat, StatusInv
<1>4. view' \in {view, Buffered(view, m), Shown(view, m)}
  BY <1>2 DEF ChatMessageArrives
<1> HIDE DEF m
<1>5. view \in Views /\ Len(view.buffer) <= BufferLimit
  BY DEF StatusInv, ViewTypes
<1>6. /\ view' \in Views /\ Len(view'.buffer) <= BufferLimit
      /\ view'.phase = view.phase /\ view'.known = view.known /\ view'.answer = view.answer
  <2>1. CASE view' = view
    BY <1>5, <2>1
  <2>2. CASE view' = Buffered(view, m)
    <3> DEFINE r == KeepLast(Append(view.recent, m.id), RecentLimit)
               b == KeepLast(Append(view.buffer, m), BufferLimit)
               p == IF Len(view.buffer) = BufferLimit
                    THEN view.pushedOut \cup {Head(view.buffer).id} ELSE view.pushedOut
    <3>1. /\ Buffered(view, m) \in Views /\ Len(Buffered(view, m).buffer) <= BufferLimit
          /\ Buffered(view, m) = [view EXCEPT !.recent = r, !.buffer = b, !.pushedOut = p]
      BY <1>3, <1>5, BufferedFacts
    <3> HIDE DEF r, b, p
    <3> QED
      BY <1>5, <2>2, <3>1 DEF Views
  <2>3. CASE view' = Shown(view, m)
    <3> DEFINE r == KeepLast(Append(view.recent, m.id), RecentLimit)
               b == Append(view.shown, m)
    <3>1. /\ Shown(view, m) \in Views
          /\ Shown(view, m) = [view EXCEPT !.recent = r, !.shown = b]
      BY <1>3, <1>5, ShownFacts
    <3> HIDE DEF r, b
    <3> QED
      BY <1>5, <2>3, <3>1 DEF Views
  <2> QED
    BY <1>4, <2>1, <2>2, <2>3
<1>7. \A s : Out(s)' => Out(s)
  <2>1. \A i \in DOMAIN events' : IsStatus(i)' => Out(events'[i].payload)
    BY <1>2 DEF Out, IsStatus
  <2> QED
    BY <1>1, <1>6, <2>1 DEF Out
<1>8. HistoryOrdered'
  BY <1>1, <1>7, NothingNew DEF StatusInv
<1>9. CatchingUp'
  <2>1. \A i \in DOMAIN events : IsStatus(i) =>
          /\ i - 1 \in DOMAIN events' /\ events'[i - 1].name = "status"
          /\ events'[i - 1].payload = events[i].payload
    BY <1>2, <1>3 DEF IsStatus
  <2>2. \A s : Coming(s) => Coming(s)'
    BY <1>1, <2>1 DEF Coming, IsStatus
  <2> QED
    BY <1>1, <1>6, <2>2 DEF StatusInv, CatchingUp
<1>10. SpeakerInv'
  BY <1>1 DEF StatusInv, SpeakerInv, Ends
<1> QED
  BY <1>1, <1>2, <1>3, <1>6, <1>8, <1>9, <1>10 DEF StatusInv, BoundaryTypes, ViewTypes, m

\* The snapshot is taken over, and what waited for it is shown or dropped.
LEMMA RestoredView ==
  ASSUME StatusInv, ApplySnapshot
  PROVE  LET v == [Apply(view.answer, view) EXCEPT !.phase = "restored", !.answer = NoStatus]
         IN  /\ v \in Views /\ view' = Flushed(v)
             /\ v.known = Apply(view.answer, view).known
             /\ v.buffer = view.buffer /\ v.shown = view.shown /\ v.recent = view.recent
             /\ v.pushedOut = view.pushedOut
             /\ view' \in Views /\ view'.phase = "restored" /\ view'.answer = NoStatus
             /\ view'.known = v.known /\ view'.buffer = <<>> /\ view'.recent = view.recent
             /\ view'.pushedOut = view.pushedOut
             /\ view'.shown = view.shown \o InOrder(view.buffer, Matching(v))
<1> DEFINE a == Apply(view.answer, view)
           v == [a EXCEPT !.phase = "restored", !.answer = NoStatus]
<1>1. view' = Flushed(v)
  BY DEF ApplySnapshot
<1>2. view \in Views /\ Out(view.answer)
  BY DEF StatusInv, ViewTypes, Out
<1>3. a \in Views /\ (a = view \/ \E k : a = [view EXCEPT !.known = k])
  BY <1>2, TakesOver
<1> HIDE DEF a
<1>4. /\ a.buffer = view.buffer /\ a.shown = view.shown /\ a.recent = view.recent
      /\ a.pushedOut = view.pushedOut
  BY <1>2, <1>3 DEF Views
<1>5. /\ v \in Views /\ v.known = a.known /\ v.buffer = view.buffer /\ v.shown = view.shown
      /\ v.recent = view.recent /\ v.pushedOut = view.pushedOut
      /\ v.phase = "restored" /\ v.answer = NoStatus
  BY <1>3, <1>4, NoStatusType DEF Views
<1> HIDE DEF v
<1>6. /\ Flushed(v) \in Views
      /\ Flushed(v) = [v EXCEPT !.buffer = <<>>,
                                !.shown = v.shown \o InOrder(v.buffer, Matching(v))]
  BY <1>5, FlushedFacts
<1> DEFINE all == v.shown \o InOrder(v.buffer, Matching(v))
<1> HIDE DEF all
<1>7. Flushed(v) = [v EXCEPT !.buffer = <<>>, !.shown = all]
  BY <1>6 DEF all
<1>8. /\ view'.phase = "restored" /\ view'.answer = NoStatus /\ view'.known = v.known
      /\ view'.buffer = <<>> /\ view'.recent = v.recent /\ view'.pushedOut = v.pushedOut
      /\ view'.shown = all
  BY <1>1, <1>5, <1>7 DEF Views
<1> QED
  BY <1>1, <1>5, <1>6, <1>8 DEF v, a, all

\* The window does something.
LEMMA ViewStatus ==
  ASSUME StatusInv, ViewStep, UNCHANGED eventSubVars
  PROVE  StatusInv'
<1>1. view \in Views /\ Len(view.buffer) <= BufferLimit /\ UNCHANGED <<owner, task>>
  BY DEF StatusInv, ViewTypes, eventSubVars
<1>2. CASE \E name \in Listeners : Register(name)
  <2>1. PICK name \in Listeners : Register(name)
    BY <1>2
  <2>2. /\ UNCHANGED <<retained, saying, events, view>> /\ view.phase = "subscribing"
        /\ listening' = listening \cup {name}
    BY <2>1 DEF Register
  <2>3. HistoryOrdered'
    BY <2>2, NothingNew DEF StatusInv, Out, IsStatus
  <2>4. SpeakerInv' /\ CatchingUp'
    BY <1>1, <2>2 DEF StatusInv, SpeakerInv, CatchingUp, Ends
  <2> QED
    BY <2>2, <2>3, <2>4 DEF StatusInv, BoundaryTypes, ViewTypes
<1>3. CASE AskSnapshot \/ ReadSnapshot \/ SnapshotFails
  <2>1. UNCHANGED <<retained, saying, events, listening>>
    BY <1>3 DEF AskSnapshot, ReadSnapshot, SnapshotFails, eventVars
  <2>2. /\ view' \in Views /\ Len(view'.buffer) <= BufferLimit
        /\ view'.known = view.known /\ view'.answer \in {view.answer, retained, NoStatus}
        /\ view'.phase \in {"asked", "answered", "unrestored"}
        /\ view'.phase = "answered" => view'.answer = retained
        /\ view.phase = "subscribing" => listening = Listeners
    <3>1. CASE AskSnapshot
      BY <1>1, <3>1 DEF AskSnapshot, Views
    <3>2. CASE ReadSnapshot
      BY <1>1, <3>2 DEF ReadSnapshot, Views, StatusInv, BoundaryTypes
    <3>3. CASE SnapshotFails
      <4>1. <<>> \in Seq(Messages) /\ Len(<<>>) = 0
        OBVIOUS
      <4>2. view' = [view EXCEPT !.phase = "unrestored", !.answer = NoStatus, !.buffer = <<>>]
            /\ view.phase # "subscribing"
        BY <3>3 DEF SnapshotFails
      <4> QED
        <5>1. /\ view'.phase = "unrestored" /\ view'.answer = NoStatus /\ view'.buffer = <<>>
              /\ view'.known = view.known /\ view' \in Views
          BY <1>1, <4>1, <4>2, NoStatusType DEF Views
        <5> QED
          BY <4>1, <4>2, <5>1, ViewAssumption
    <3> QED
      BY <1>3, <3>1, <3>2, <3>3
  <2>3. \A s : Out(s)' => Out(s)
    BY <2>1, <2>2 DEF Out, IsStatus
  <2>4. HistoryOrdered'
    BY <2>1, <2>3, NothingNew DEF StatusInv
  <2>5. SpeakerInv' /\ CatchingUp'
    BY <1>1, <2>1, <2>2 DEF StatusInv, SpeakerInv, CatchingUp, Ends
  <2> QED
    BY <2>1, <2>2, <2>4, <2>5 DEF StatusInv, BoundaryTypes, ViewTypes
<1>4. CASE ApplySnapshot
  <2>1. UNCHANGED <<retained, saying, events, listening>> /\ view.phase = "answered"
    BY <1>4 DEF ApplySnapshot, eventVars
  <2>2. /\ view' \in Views /\ view'.phase = "restored" /\ view'.answer = NoStatus
        /\ view'.known = Apply(view.answer, view).known /\ view'.buffer = <<>>
    BY <1>4, RestoredView
  <2>3. /\ Apply(view.answer, view).known \in {view.answer, view.known}
        /\ view.answer = retained \/ view.known = retained =>
             Apply(view.answer, view).known = retained
    <3>1. Out(view.answer)
      BY DEF Out
    <3> QED
      BY <3>1, TakesOver
  <2>4. \A s : Out(s)' => Out(s)
    BY <2>1, <2>2, <2>3 DEF Out, IsStatus
  <2>5. HistoryOrdered'
    BY <2>1, <2>4, NothingNew DEF StatusInv
  <2>6. SpeakerInv'
    BY <1>1, <2>1 DEF StatusInv, SpeakerInv, Ends
  <2>7. CatchingUp'
    <3>1. \A s : Coming(s) => Coming(s)'
      BY <2>1 DEF Coming, IsStatus
    <3> QED
      BY <2>1, <2>2, <2>3, <3>1 DEF StatusInv, CatchingUp
  <2>8. Len(view'.buffer) <= BufferLimit
    BY <2>2, ViewAssumption
  <2> QED
    BY <2>1, <2>2, <2>5, <2>6, <2>7, <2>8 DEF StatusInv, BoundaryTypes, ViewTypes
<1>5. CASE StatusArrives
  BY <1>5, ArrivalStatus
<1>6. CASE ChatMessageArrives
  BY <1>6, MessageStatus
<1> QED
  BY <1>2, <1>3, <1>4, <1>5, <1>6 DEF ViewStep

-----------------------------------------------------------------------------
(***************************************************************************)
(* A restored window knows the status; the numbers of the messages.        *)
(***************************************************************************)
\* The first state.
LEMMA FirstStatus == Init => StatusInv
<1> SUFFICES ASSUME Init PROVE StatusInv
  OBVIOUS
<1>1. /\ retained = NoStatus /\ saying = [g \in Generations |-> Silent] /\ listening = {}
      /\ events = <<>> /\ owner.generation = 0
      /\ task = [NewTask(0) EXCEPT !.stage = "ended"]
  BY DEF Init, EventsInit, EventSubInit
<1>2. /\ view = [phase |-> "subscribing", answer |-> NoStatus, known |-> NoStatus,
                 buffer |-> <<>>, recent |-> <<>>, shown |-> <<>>, pushedOut |-> {}]
  BY DEF Init, ViewInit
<1>3. BoundaryTypes
  <2>1. saying \in [Generations -> [step : {"silent", "record", "emit"}, event : Statuses]]
    BY <1>1, NoStatusType
  <2> QED
    BY <1>1, <2>1, NoStatusType DEF BoundaryTypes
<1>4. ViewTypes
  <2>1. <<>> \in Seq(Messages) /\ <<>> \in Seq(Ids) /\ Len(<<>>) = 0
    OBVIOUS
  <2> QED
    BY <1>2, <2>1, NoStatusType, ViewAssumption DEF ViewTypes, Views
<1>5. \A s : Out(s) => s = NoStatus
  BY <1>1, <1>2, NoStatusType DEF Out
<1>6. HistoryOrdered
  BY <1>1, <1>5, NoStatusType DEF HistoryOrdered, Ordered
<1>7. SpeakerInv
  BY <1>1, NoStatusType DEF SpeakerInv, Ends
<1>8. CatchingUp
  BY <1>2 DEF CatchingUp
<1> QED
  BY <1>3, <1>4, <1>6, <1>7, <1>8 DEF StatusInv

\* Every step.
LEMMA StatusStep ==
  ASSUME StatusInv, DeliveryInv, [Next]_vars
  PROVE  StatusInv'
<1>1. PathTypes /\ WireTypes /\ PathShape
  BY DEF DeliveryInv
<1> QED
  BY <1>1, BoundaryKinds, TaskSaysStatus, NothingStatus, CommandStatus, DispatchStatus,
     RecordStatus, EmitStatus, ViewStatus

\* The statuses that are recorded, on their way and in the window are one
\* line, of which the window sees no other end than the backend.
THEOREM StatusInvariance == Spec => []StatusInv
<1>1. DeliveryInv /\ StatusInv /\ [Next]_vars => StatusInv'
  BY StatusStep
<1> QED
  BY <1>1, FirstStatus, DeliveryInvariance, PTL DEF Spec

\* The first part of ViewCatchesUp: a restored window to which nothing is on
\* its way knows the status, the generation and the active connection that
\* the backend retains.
THEOREM WindowKnowsStatus ==
  Spec => [](view.phase = "restored" /\ SaidAll => view.known = retained)
<1>1. StatusInv => (view.phase = "restored" /\ SaidAll => view.known = retained)
  BY NoStatusType DEF StatusInv, CatchingUp, Coming, SaidAll
<1> QED
  BY <1>1, StatusInvariance, PTL

-----------------------------------------------------------------------------

\* A frame is taken away.
LEMMA NumberedTail ==
  ASSUME NEW frames \in Seq(Frames), frames # <<>>, Numbered(frames)
  PROVE  /\ Numbered(Tail(frames)) /\ Tail(frames) \in Seq(Frames)
         /\ Head(frames).kind = "chat" =>
              /\ twitch.subscribed /\ Head(frames).id > twitch.before
              /\ Head(frames).id <= twitch.sent /\ Head(frames).id \in Ids
<1>1. /\ Head(frames) = frames[1] /\ Head(frames) \in Frames
      /\ Tail(frames) \in Seq(Frames) /\ Len(Tail(frames)) = Len(frames) - 1
      /\ Len(frames) \in Nat \ {0}
      /\ \A i \in 1 .. Len(frames) - 1 : Tail(frames)[i] = frames[i + 1]
  BY TailFacts
<1>2. DOMAIN frames = 1 .. Len(frames) /\ DOMAIN Tail(frames) = 1 .. Len(frames) - 1
  BY <1>1
<1>3. Numbered(Tail(frames))
  <2>1. \A i \in 1 .. Len(frames) - 1 : i + 1 \in 1 .. Len(frames)
    BY <1>1
  <2> QED
    BY <1>1, <1>2, <2>1 DEF Numbered
<1> QED
  BY <1>1, <1>2, <1>3, FrameTypes DEF Numbered

\* A step of the task keeps the numbers: it drops frames, or appends none with
\* a number, and Twitch is subscribed still.
LEMMA StaysNumbered ==
  ASSUME PathTypes, WireTypes, NumberInv,
         Stays \/ SessionHears \/ OldHears \/ NextHears
  PROVE  /\ Numbered(old)' /\ Numbered(next.frames)'
         /\ twitch'.sent = twitch.sent /\ twitch'.before = twitch.before
         /\ UNCHANGED <<owner, emitted>>
<1>1. twitch' = twitch \/ \E b \in BOOLEAN : twitch' = [twitch EXCEPT !.subscribed = @ \/ b]
  BY DEF Stays, StartSession, SocketOpens, WakesUp, SessionWelcomed, HandoverBegins, NextOpens,
         NextFails, OldIgnored, NextWelcomed, Subscribed, OldReplaced, DrainCutShort,
         SessionHears, OldHears, NextHears, KeepsSockets, ReadsOld, WelcomeCompleted
<1>2. /\ twitch'.sent = twitch.sent /\ twitch'.before = twitch.before
      /\ twitch.subscribed => twitch'.subscribed
  BY <1>1 DEF WireTypes, Links
<1>3. \A frames : Numbered(frames) =>
        \A i \in DOMAIN frames : frames[i].kind = "chat" =>
          twitch'.subscribed /\ frames[i].id > twitch'.before /\ frames[i].id <= twitch'.sent
  BY <1>2 DEF Numbered
<1>4. /\ old \in Seq(Frames) /\ next \in NextOnes /\ next.frames \in Seq(Frames)
      /\ Numbered(old) /\ Numbered(next.frames)
      /\ old # <<>> => Numbered(Tail(old))
      /\ next.frames # <<>> => Numbered(Tail(next.frames))
  BY NumberedTail DEF WireTypes, NextOnes, NumberInv
<1>5. Numbered(<<>>) /\ Numbered(<<Frame("welcome")>>)
  BY DEF Numbered, Frame
<1>6. Numbered(old')
  <2>1. \/ old' \in {old, next.frames, <<Frame("welcome")>>}
        \/ old # <<>> /\ old' = Tail(old)
    <3>1. CASE StartSession \/ SocketOpens \/ WakesUp \/ NextOpens \/ NextFails
      BY <3>1 DEF StartSession, SocketOpens, WakesUp, NextOpens, NextFails, KeepsSockets
    <3>2. CASE NextWelcomed \/ NextHears \/ Subscribed \/ OldReplaced \/ DrainCutShort
      BY <3>2 DEF NextWelcomed, NextHears, OnNext, Subscribed, OldReplaced, DrainCutShort
    <3>3. CASE SessionWelcomed \/ HandoverBegins \/ OldIgnored \/ SessionHears \/ OldHears
      BY <3>3 DEF SessionWelcomed, HandoverBegins, OldIgnored, SessionHears, OldHears,
                  ReadsOld, OnOld
    <3> QED
      BY <3>1, <3>2, <3>3 DEF Stays
  <2> QED
    BY <1>4, <1>5, <2>1
<1>7. Numbered(next'.frames)
  <2>1. \/ next' = next \/ next' = NoNext
        \/ \E phase \in {"opening", "failed"} : next' = [NoNext EXCEPT !.phase = phase]
        \/ next' = [next EXCEPT !.phase = "open"]
        \/ next.frames # <<>> /\ next' = [next EXCEPT !.frames = Tail(@)]
    BY DEF Stays, StartSession, SocketOpens, WakesUp, SessionWelcomed, HandoverBegins, NextOpens,
           NextFails, OldIgnored, NextWelcomed, Subscribed, OldReplaced, DrainCutShort,
           SessionHears, OldHears, NextHears, OnNext, KeepsSockets, ReadsOld
  <2>2. NoNext \in NextOnes /\ NoNext.frames = <<>>
    BY DEF NoNext, NextOnes
  <2>3. \/ next'.frames \in {next.frames, <<>>}
        \/ next.frames # <<>> /\ next'.frames = Tail(next.frames)
    BY <1>4, <2>1, <2>2 DEF NextOnes
  <2> QED
    BY <1>4, <1>5, <2>3
<1>8. UNCHANGED <<owner, emitted>>
  <2>1. CASE Stays
    BY <2>1, StagesQuietly, WelcomedQuietly DEF Stays, Quiet
  <2>2. CASE SessionHears \/ OldHears \/ NextHears
    BY <2>2, HearsAMessage DEF Hearing
  <2> QED
    BY <2>1, <2>2
<1>9. Numbered(old)' /\ Numbered(next.frames)'
  BY <1>3, <1>6, <1>7 DEF Numbered
<1> QED
  BY <1>2, <1>8, <1>9

\* Twitch numbers what it sends.
LEMMA SendsNumbered ==
  ASSUME PathTypes, WireTypes, NumberInv, Sends
  PROVE  /\ Numbered(old)' /\ Numbered(next.frames)'
         /\ twitch'.sent >= twitch.sent /\ twitch'.before = twitch.before
         /\ UNCHANGED <<owner, emitted, hand>>
<1>1. Environment
  BY DEF Sends, TwitchSends, TwitchSendsAgain, TwitchAsksToMove, TwitchCloses, TwitchRevokes,
         TwitchWelcomesNext
<1>2. /\ twitch \in Links /\ twitch.sent \in Nat /\ twitch.before \in Nat
      /\ next \in NextOnes /\ old \in Seq(Frames) /\ next.frames \in Seq(Frames)
      /\ twitch.before <= twitch.sent
  BY DEF WireTypes, NextOnes, Links, NumberInv
<1>3. twitch' = twitch \/ twitch' = [twitch EXCEPT !.sent = @ + 1]
  BY DEF Sends, TwitchSends, TwitchSendsAgain, TwitchAsksToMove, TwitchCloses, TwitchRevokes,
         TwitchWelcomesNext
<1>4. /\ twitch'.sent \in Nat /\ twitch'.sent >= twitch.sent
      /\ twitch'.before = twitch.before /\ twitch'.subscribed = twitch.subscribed
  BY <1>2, <1>3 DEF Links
<1>5. \E frame \in Frames :
        /\ frame.kind = "chat" => /\ twitch'.subscribed /\ frame.id > twitch'.before
                                  /\ frame.id <= twitch'.sent
        /\ \/ old' = Append(old, frame) /\ next' = next
           \/ old' = old /\ next' = [next EXCEPT !.frames = Append(@, frame)]
  <2>1. CASE TwitchSends
    <3> DEFINE frame == [kind |-> "chat", id |-> twitch.sent + 1]
    <3>1. /\ frame \in Frames /\ frame.id = twitch.sent + 1
          /\ twitch.subscribed /\ twitch' = [twitch EXCEPT !.sent = @ + 1]
      <4>1. twitch.sent + 1 \in Ids
        BY <1>2 DEF Ids
      <4> QED
        BY <2>1, <4>1, FrameTypes DEF TwitchSends
    <3>2. twitch'.sent = twitch.sent + 1 /\ twitch'.before = twitch.before
      BY <1>2, <3>1 DEF Links
    <3>3. \/ old' = Append(old, frame) /\ next' = next
          \/ old' = old /\ next' = [next EXCEPT !.frames = Append(@, frame)]
      BY <2>1 DEF TwitchSends, Carries
    <3> HIDE DEF frame
    <3>4. frame.id > twitch'.before /\ frame.id <= twitch'.sent /\ twitch'.subscribed
      BY <1>2, <1>4, <3>1, <3>2
    <3> QED
      BY <3>1, <3>3, <3>4
  <2>2. CASE TwitchSendsAgain
    <3>1. PICK id \in twitch.before + 1 .. twitch.sent : Carries([kind |-> "chat", id |-> id])
      BY <2>2 DEF TwitchSendsAgain
    <3> DEFINE frame == [kind |-> "chat", id |-> id]
    <3>2. frame \in Frames /\ frame.id = id
      <4>1. id \in Ids
        BY <1>2 DEF Ids
      <4> QED
        BY <4>1, FrameTypes
    <3>3. twitch' = twitch /\ twitch.subscribed
      BY <2>2 DEF TwitchSendsAgain
    <3>4. \/ old' = Append(old, frame) /\ next' = next
          \/ old' = old /\ next' = [next EXCEPT !.frames = Append(@, frame)]
      BY <3>1 DEF Carries
    <3>5. id > twitch.before /\ id <= twitch.sent
      BY <1>2
    <3> HIDE DEF frame
    <3> QED
      BY <3>2, <3>3, <3>4, <3>5
  <2>3. CASE TwitchAsksToMove \/ TwitchCloses \/ TwitchRevokes \/ TwitchWelcomesNext
    <3>1. \A kind \in {"welcome", "reconnect", "closed", "revoked"} :
            Frame(kind) \in Frames /\ Frame(kind).kind # "chat"
      BY FrameTypes DEF Frame
    <3> QED
      BY <2>3, <3>1 DEF TwitchAsksToMove, TwitchCloses, TwitchRevokes, TwitchWelcomesNext,
                        Carries
  <2> QED
    BY <2>1, <2>2, <2>3 DEF Sends
<1>6. PICK frame \in Frames :
        /\ frame.kind = "chat" => /\ twitch'.subscribed /\ frame.id > twitch'.before
                                  /\ frame.id <= twitch'.sent
        /\ \/ old' = Append(old, frame) /\ next' = next
           \/ old' = old /\ next' = [next EXCEPT !.frames = Append(@, frame)]
  BY <1>5
<1>7. ASSUME NEW frames \in Seq(Frames), Numbered(frames)
      PROVE  \A i \in DOMAIN frames : frames[i].kind = "chat" =>
               twitch'.subscribed /\ frames[i].id > twitch'.before /\ frames[i].id <= twitch'.sent
  <2>1. \A i \in DOMAIN frames : frames[i].id \in Nat
    BY DEF Frames
  <2> QED
    BY <1>2, <1>4, <1>7, <2>1 DEF Numbered
<1>8. ASSUME NEW frames \in Seq(Frames), Numbered(frames)
      PROVE  \A i \in DOMAIN Append(frames, frame) : Append(frames, frame)[i].kind = "chat" =>
               /\ twitch'.subscribed /\ Append(frames, frame)[i].id > twitch'.before
               /\ Append(frames, frame)[i].id <= twitch'.sent
  <2> DEFINE more == Append(frames, frame)
  <2>1. /\ Len(frames) \in Nat /\ DOMAIN frames = 1 .. Len(frames)
        /\ DOMAIN more = 1 .. Len(frames) + 1
        /\ \A i \in 1 .. Len(frames) : more[i] = frames[i]
        /\ more[Len(frames) + 1] = frame
    BY AppendFacts
  <2> HIDE DEF more
  <2>2. ASSUME NEW i \in 1 .. Len(frames) + 1, more[i].kind = "chat"
        PROVE  twitch'.subscribed /\ more[i].id > twitch'.before /\ more[i].id <= twitch'.sent
    <3>1. CASE i = Len(frames) + 1
      BY <1>6, <2>1, <2>2, <3>1
    <3>2. CASE i # Len(frames) + 1
      <4>1. i \in DOMAIN frames /\ more[i] = frames[i]
        BY <2>1, <3>2
      <4> QED
        BY <1>7, <1>8, <2>2, <4>1
    <3> QED
      BY <3>1, <3>2
  <2> QED
    BY <2>1, <2>2 DEF more
<1>9. Numbered(old) /\ Numbered(next.frames)
  BY DEF NumberInv
<1>10. Numbered(old)' /\ Numbered(next.frames)'
  <2>1. CASE old' = Append(old, frame) /\ next' = next
    BY <1>2, <1>7, <1>8, <1>9, <2>1 DEF Numbered
  <2>2. CASE old' = old /\ next' = [next EXCEPT !.frames = Append(@, frame)]
    <3>1. next'.frames = Append(next.frames, frame)
      BY <1>2, <2>2 DEF NextOnes
    <3> QED
      BY <1>2, <1>7, <1>8, <1>9, <2>2, <3>1 DEF Numbered
  <2> QED
    BY <1>6, <2>1, <2>2
<1> QED
  BY <1>1, <1>4, <1>10 DEF Environment

\* What is heard is of the connection that is registered.
LEMMA HearsNumbered ==
  ASSUME PathTypes, WireTypes, PathShape, NumberInv, SessionHears \/ OldHears \/ NextHears
  PROVE  \A g \in Generations : \/ hand'[g] = hand[g]
                                \/ /\ g = owner.generation /\ hand'[g] \in Nat
                                   /\ hand'[g] > twitch.before /\ hand'[g] <= twitch.sent
<1>1. /\ old \in Seq(Frames) /\ next.frames \in Seq(Frames)
      /\ Numbered(old) /\ Numbered(next.frames)
  BY DEF WireTypes, NextOnes, NumberInv
<1>2. \E id \in Ids : Hears(id) /\ id > twitch.before /\ id <= twitch.sent
  <2>1. CASE SessionHears \/ OldHears
    <3>1. old # <<>> /\ Head(old).kind = "chat" /\ Hears(Head(old).id)
      BY <2>1 DEF SessionHears, OldHears, OnOld
    <3> QED
      BY <1>1, <3>1, NumberedTail
  <2>2. CASE NextHears
    <3>1. next.frames # <<>> /\ Head(next.frames).kind = "chat" /\ Hears(Head(next.frames).id)
      BY <2>2 DEF NextHears, OnNext
    <3> QED
      BY <1>1, <3>1, NumberedTail
  <2> QED
    BY <2>1, <2>2
<1>3. PICK id \in Ids : Hears(id) /\ id > twitch.before /\ id <= twitch.sent
  BY <1>2
<1>4. task.generation = owner.generation
  <2>1. owner.active = task.generation /\ task.stage # "ended"
    BY DEF SessionHears, OldHears, NextHears, Runs
  <2> QED
    BY <2>1 DEF PathShape, NumberInv
<1>5. \A g \in Generations : \/ hand'[g] = hand[g]
                             \/ g = task.generation /\ hand'[g] = id
  BY <1>3 DEF Hears, PathTypes
<1> QED
  BY <1>3, <1>4, <1>5 DEF Ids

\* Every step keeps the numbers.
LEMMA NumberStep ==
  ASSUME NumberInv, DeliveryInv, [Next]_vars
  PROVE  NumberInv'
<1>1. /\ PathTypes /\ WireTypes /\ PathShape
      /\ owner.generation \in Nat /\ twitch.sent \in Nat /\ twitch.before \in Nat
      /\ \A g \in Generations : hand[g] \in Nat /\ g \in Nat
      /\ \A i \in DOMAIN emitted : emitted[i].id \in Nat /\ emitted[i].generation \in Nat
  <2>1. \A i \in DOMAIN emitted : emitted[i] \in Emissions
    BY DEF DeliveryInv, PathTypes
  <2>2. PathTypes /\ WireTypes /\ PathShape
    BY DEF DeliveryInv
  <2>3. \A i \in DOMAIN emitted : emitted[i].id \in Nat /\ emitted[i].generation \in Nat
    BY <2>1 DEF Emissions, Ids, Generations
  <2>4. owner.generation \in Nat /\ twitch.sent \in Nat /\ twitch.before \in Nat
    BY <2>2, GenerationAssumption DEF PathTypes, WireTypes, Links
  <2>5. \A g \in Generations : hand[g] \in Nat /\ g \in Nat
    BY <2>2 DEF PathTypes, Generations
  <2> QED
    BY <2>2, <2>3, <2>4, <2>5
<1>2. CASE UNCHANGED eventSubVars \/ Tick
  <2>1. UNCHANGED <<owner, twitch, old, next, hand, emitted>>
    BY <1>2 DEF eventSubVars, Tick, taskVars
  <2> QED
    BY <2>1 DEF NumberInv, Numbered
<1>3. CASE Stays
  <2>1. hand' = hand
    BY <1>1, <1>3, StagesQuietly, WelcomedQuietly DEF Stays, Quiet
  <2> QED
    BY <1>1, <1>3, <2>1, StaysNumbered DEF NumberInv
<1>4. CASE SessionHears \/ OldHears \/ NextHears
  <2>1. /\ Numbered(old)' /\ Numbered(next.frames)'
        /\ twitch'.sent = twitch.sent /\ twitch'.before = twitch.before
        /\ UNCHANGED <<owner, emitted>>
    BY <1>1, <1>4, StaysNumbered
  <2>2. \A g \in Generations : \/ hand'[g] = hand[g]
                               \/ /\ g = owner.generation /\ hand'[g] \in Nat
                                  /\ hand'[g] > twitch.before /\ hand'[g] <= twitch.sent
    BY <1>1, <1>4, HearsNumbered
  <2> QED
    BY <2>1, <2>2 DEF NumberInv
<1>5. CASE Fails
  <2>1. Quiet /\ DropSockets
    BY <1>1, <1>5, FailsAreQuiet
  <2>2. /\ old' = <<>> /\ next' = NoNext /\ next'.frames = <<>>
        /\ twitch'.sent = twitch.sent /\ twitch'.before = twitch.before
    BY <1>1, <2>1 DEF DropSockets, NoNext, WireTypes, Links
  <2>3. Numbered(old)' /\ Numbered(next.frames)'
    BY <2>2 DEF Numbered
  <2> QED
    BY <2>1, <2>2, <2>3 DEF NumberInv, Quiet
<1>6. CASE Sends
  <2>1. /\ Numbered(old)' /\ Numbered(next.frames)'
        /\ twitch'.sent >= twitch.sent /\ twitch'.before = twitch.before
        /\ UNCHANGED <<owner, emitted, hand>>
    BY <1>1, <1>6, SendsNumbered DEF NumberInv
  <2>2. twitch'.sent \in Nat
    BY <1>1, <1>6, TwitchQuietly DEF Sends, WireTypes, Links
  <2>3. \A n \in Nat : n <= twitch.sent => n <= twitch'.sent
    BY <1>1, <2>1, <2>2
  <2> QED
    BY <1>1, <2>1, <2>3 DEF NumberInv
<1>7. CASE \E g \in Generations : Dispatch(g)
  <2>1. PICK g \in Generations : Dispatch(g)
    BY <1>7
  <2>2. UNCHANGED <<owner, old, next, twitch>> /\ hand' = [hand EXCEPT ![g] = NoHand]
    BY <2>1 DEF Dispatch
  <2>3. \A h \in Generations : hand'[h] # NoHand => hand'[h] = hand[h]
    BY <1>1, <2>2 DEF PathTypes
  <2>4. Numbered(old)' /\ Numbered(next.frames)'
    BY <2>2 DEF NumberInv, Numbered
  <2>5. CASE emitted' = emitted
    BY <2>2, <2>3, <2>4, <2>5 DEF NumberInv
  <2>6. CASE emitted' # emitted
    <3> DEFINE new == [generation |-> g, id |-> hand[g], at |-> now,
                       listened |-> "chat" \in listening]
    <3>1. owner.active = g /\ emitted' = Append(emitted, new) /\ hand[g] # NoHand
      BY <2>1, <2>6 DEF Dispatch
    <3>2. /\ g = owner.generation /\ hand[g] <= twitch.sent /\ hand[g] > twitch.before
      <4>1. g = owner.generation
        BY <3>1 DEF NumberInv, Generations
      <4> QED
        BY <3>1, <4>1 DEF NumberInv
    <3>3. new \in Emissions /\ new.generation = g /\ new.id = hand[g]
      BY <1>1, <3>1 DEF Emissions, Ids, NoHand, PathTypes
    <3> HIDE DEF new
    <3>4. /\ Len(emitted) \in Nat /\ DOMAIN emitted = 1 .. Len(emitted)
          /\ DOMAIN emitted' = 1 .. Len(emitted) + 1
          /\ \A i \in 1 .. Len(emitted) : emitted'[i] = emitted[i]
          /\ emitted'[Len(emitted) + 1] = new
      <4>1. emitted \in Seq(Emissions)
        BY <1>1 DEF PathTypes
      <4> QED
        BY <3>1, <3>3, <4>1, AppendFacts
    <3>5. \A i \in DOMAIN emitted' : \/ i \in DOMAIN emitted /\ emitted'[i] = emitted[i]
                                     \/ emitted'[i] = new
      BY <3>4
    <3>6. \A i \in DOMAIN emitted : /\ emitted[i].id <= twitch.sent
                                    /\ emitted[i].id > twitch.before <=>
                                         emitted[i].generation = owner.generation
      BY DEF NumberInv
    <3>7. \A i \in DOMAIN emitted' : /\ emitted'[i].id <= twitch.sent
                                     /\ emitted'[i].id > twitch.before <=>
                                          emitted'[i].generation = owner.generation
      BY <3>2, <3>3, <3>5, <3>6
    <3>8. \A i, j \in DOMAIN emitted' : emitted'[i].id = emitted'[j].id =>
            emitted'[i].generation = emitted'[j].generation
      <4>1. \A i, j \in DOMAIN emitted : emitted[i].id = emitted[j].id =>
              emitted[i].generation = emitted[j].generation
        BY DEF NumberInv
      <4>2. \A i \in DOMAIN emitted : emitted[i].id = hand[g] => emitted[i].generation = g
        BY <3>2, <3>6
      <4> QED
        BY <3>3, <3>5, <4>1, <4>2
    <3> QED
      BY <2>2, <2>3, <2>4, <3>7, <3>8 DEF NumberInv
  <2> QED
    BY <2>5, <2>6
<1>8. CASE Connect \/ Stop
  <2>1. /\ UNCHANGED <<hand, now, emitted>> /\ owner'.generation = owner.generation + 1
        /\ owner'.active \in {0, owner'.generation} /\ LeavesSockets
    BY <1>1, <1>8, CommandTypes DEF Connect, Stop
  <2>2. /\ old' = <<>> /\ next'.frames = <<>> /\ twitch'.sent = twitch.sent
        /\ twitch'.before = twitch.sent
    BY <2>1 DEF LeavesSockets, NoNext
  <2>3. Numbered(old)' /\ Numbered(next.frames)'
    BY <2>2 DEF Numbered
  <2>4. \A g \in Generations : hand[g] # NoHand => g # owner'.generation /\ ~(hand[g] > twitch.sent)
    <3>1. \A g \in Generations : hand[g] # NoHand => g <= owner.generation /\ hand[g] <= twitch.sent
      BY <1>1 DEF PathShape, NumberInv
    <3> QED
      BY <1>1, <2>1, <3>1
  <2>5. \A i \in DOMAIN emitted : /\ emitted[i].generation # owner'.generation
                                  /\ ~(emitted[i].id > twitch.sent)
    <3>1. \A i \in DOMAIN emitted : emitted[i].generation <= owner.generation
                                    /\ emitted[i].id <= twitch.sent
      BY <1>1 DEF PathShape, NumberInv
    <3> QED
      BY <1>1, <2>1, <3>1
  <2>6. twitch'.before <= twitch'.sent
    BY <1>1, <2>2
  <2> QED
    BY <2>1, <2>2, <2>3, <2>4, <2>5, <2>6 DEF NumberInv
<1> QED
  BY <1>2, <1>3, <1>4, <1>5, <1>6, <1>7, <1>8, StepKinds

\* Every message has one number, and its number tells its connection.
THEOREM NumberInvariance == Spec => []NumberInv
<1>1. Init => NumberInv
  <2> SUFFICES ASSUME Init PROVE NumberInv
    OBVIOUS
  <2>1. /\ owner.active = 0 /\ twitch.before = 0 /\ twitch.sent = 0 /\ old = <<>>
        /\ next.frames = <<>> /\ emitted = <<>> /\ hand = [g \in Generations |-> NoHand]
    BY DEF Init, EventSubInit, NoNext
  <2> QED
    BY <2>1 DEF NumberInv, Numbered
<1>2. NumberInv /\ DeliveryInv /\ [Next]_vars => NumberInv'
  BY NumberStep
<1> QED
  BY <1>1, <1>2, DeliveryInvariance, PTL DEF Spec

-----------------------------------------------------------------------------
(***************************************************************************)
(* A connection is announced before its messages come.                     *)
(***************************************************************************)
\* What a status settles, every later one does.
LEMMA SettlesLater ==
  ASSUME NEW s \in Statuses, NEW t \in Statuses, NEW g \in Generations,
         Ordered(s, t), s.revision <= t.revision, Settles(s, g)
  PROVE  Settles(t, g)
<1>1. /\ s.revision \in Nat /\ t.revision \in Nat /\ s.generation \in Nat /\ t.generation \in Nat
      /\ g \in Nat \ {0}
  BY GenerationAssumption DEF Statuses, Generations
<1>2. CASE s.revision = t.revision
  BY <1>2 DEF Ordered
<1>3. CASE s.revision < t.revision
  <2>1. s.generation <= t.generation /\ s.generation >= g
    BY <1>1, <1>3 DEF Ordered, Settles
  <2>2. CASE t.generation > g
    BY <2>2 DEF Settles
  <2>3. CASE ~(t.generation > g)
    <3>1. s.generation = g /\ t.generation = g
      BY <1>1, <2>1, <2>3
    <3>2. s.active = g
      BY <1>1, <1>3, <3>1 DEF Ordered, Settles
    <3> QED
      BY <1>1, <1>3, <3>1, <3>2 DEF Ordered, Settles
  <2> QED
    BY <2>2, <2>3
<1> QED
  BY <1>1, <1>2, <1>3

\* What settles a connection settles it in the record too.
LEMMA RecordSettles ==
  ASSUME StatusInv, NEW s, Out(s), NEW g \in Generations, Settles(s, g)
  PROVE  Settles(retained, g)
<1>1. Out(retained) /\ s \in Statuses /\ retained \in Statuses
  BY OutType DEF Out, StatusInv, BoundaryTypes
<1>2. Ordered(s, retained) /\ s.revision <= retained.revision
  BY <1>1 DEF StatusInv, HistoryOrdered
<1> QED
  BY <1>1, <1>2, SettlesLater

\* Where events are appended at most, what was announced is.
LEMMA AnnouncedStays ==
  ASSUME BoundaryTypes, NEW g \in Generations, NEW n \in Nat, NEW m \in Nat, n <= m,
         Announced(g, n), Settles(retained, g) => Settles(retained', g),
         InView(g) => InView(g)',
         \A i \in DOMAIN events : i \in DOMAIN events' /\ events'[i] = events[i]
  PROVE  Announced(g, m)'
<1>1. CASE InView(g)
  BY <1>1 DEF Announced
<1>2. CASE \E j \in DOMAIN events : j < n /\ IsStatus(j) /\ Settles(events[j].payload, g)
  <2>1. PICK j \in DOMAIN events : j < n /\ IsStatus(j) /\ Settles(events[j].payload, g)
    BY <1>2
  <2>2. j \in Nat
    BY EventFacts
  <2>3. /\ j \in DOMAIN events' /\ j < m /\ events'[j].name = "status"
        /\ Settles(events'[j].payload, g)
    BY <2>1, <2>2 DEF IsStatus
  <2> QED
    BY <2>3 DEF Announced, IsStatus
<1> QED
  BY <1>1, <1>2 DEF Announced

\* Where the window takes the first event, what was announced is, one place
\* nearer.
LEMMA AnnouncedNearer ==
  ASSUME BoundaryTypes, events # <<>>, events' = Tail(events), retained' = retained,
         NEW g \in Generations, NEW n \in Nat \ {0}, Announced(g, n),
         InView(g) => InView(g)',
         IsStatus(1) /\ Settles(events[1].payload, g) => InView(g)'
  PROVE  Announced(g, n - 1)'
<1>1. CASE InView(g)
  BY <1>1 DEF Announced
<1>2. CASE \E j \in DOMAIN events : j < n /\ IsStatus(j) /\ Settles(events[j].payload, g)
  <2>1. PICK j \in DOMAIN events : j < n /\ IsStatus(j) /\ Settles(events[j].payload, g)
    BY <1>2
  <2>2. CASE j = 1
    BY <2>1, <2>2 DEF Announced
  <2>3. CASE j # 1
    <3>1. /\ j \in Nat /\ j - 1 \in DOMAIN events' /\ events'[j - 1] = events[j]
      BY <2>3, TailEvents, EventFacts
    <3>2. j - 1 < n - 1
      BY <2>1, <3>1
    <3>3. events'[j - 1].name = "status" /\ Settles(events'[j - 1].payload, g)
      BY <2>1, <3>1 DEF IsStatus
    <3> QED
      BY <3>1, <3>2, <3>3 DEF Announced, IsStatus
  <2> QED
    BY <2>2, <2>3
<1> QED
  BY <1>1, <1>2 DEF Announced

\* Where boundary and window stay, so does what was announced.
LEMMA SameAnnounced ==
  ASSUME UNCHANGED <<retained, events, view>>
  PROVE  /\ \A g, n : Announced(g, n)' <=> Announced(g, n)
         /\ Len(events') = Len(events)
         /\ \A i \in DOMAIN events : IsChat(i)' <=> IsChat(i)
         /\ \A g : InView(g)' <=> InView(g)
BY DEF Announced, InView, IsStatus, IsChat

\* The task records a status.
LEMMA TaskSaysAnnounced ==
  ASSUME AnnouncedInv, StatusInv, PathTypes, PathShape, TaskSays
  PROVE  AnnouncedInv'
<1>1. UNCHANGED <<retained, events, view, hand>> /\ task'.generation = task.generation
  BY DEF TaskSays
<1>2. saying[task.generation] = Silent /\ task.generation \in Generations /\ task.generation # 0
  BY DEF TaskSays, PathShape, PathTypes, Tasks, Generations
<1>3. ASSUME twitch'.subscribed
      PROVE  Announced(task.generation, Len(events) + 1) \/ Connecting(task.generation)'
  <2>1. PICK status \in StatusNames, active \in {0, task.generation} :
          /\ Says(status, active)
          /\ twitch'.subscribed => twitch.subscribed \/ active = task.generation
    BY DEF TaskSays
  <2>2. CASE twitch.subscribed
    <3>1. ~Connecting(task.generation)
      BY <1>2 DEF Connecting, Silent
    <3> QED
      BY <2>2, <3>1 DEF AnnouncedInv
  <2>3. CASE active = task.generation
    <3> DEFINE said == [step |-> "record", event |-> Status(0, status, task.generation, active)]
    <3>1. said.step = "record" /\ said.event.active = task.generation
      BY <2>3 DEF Status
    <3>2. saying' = [saying EXCEPT ![task.generation] = said]
      BY <2>1 DEF Says, Say
    <3> HIDE DEF said
    <3>3. task.generation \in DOMAIN saying
      BY <1>2 DEF StatusInv, BoundaryTypes
    <3>4. saying'[task.generation] = said
      BY <3>2, <3>3
    <3> QED
      BY <1>1, <3>1, <3>4 DEF Connecting
  <2> QED
    BY <1>3, <2>1, <2>2, <2>3
<1> QED
  BY <1>1, <1>2, <1>3, SameAnnounced DEF AnnouncedInv

\* Nothing is said.
LEMMA NothingAnnounced ==
  ASSUME AnnouncedInv, NumberInv, PathTypes, PathShape, SaysNothing
  PROVE  AnnouncedInv'
<1>1. /\ UNCHANGED <<retained, saying, events, view>> /\ task'.generation = task.generation
      /\ twitch'.subscribed = twitch.subscribed
  BY DEF SaysNothing, eventVars
<1>2. ASSUME NEW g \in Generations, hand'[g] # NoHand
      PROVE  Announced(g, Len(events) + 1)
  <2>1. CASE hand'[g] = hand[g]
    BY <1>2, <2>1 DEF AnnouncedInv
  <2>2. CASE g = task.generation /\ saying[g] = Silent /\ MessageWaits
    <3>1. twitch.subscribed
      BY <2>2 DEF MessageWaits, NumberInv, Numbered
    <3>2. ~Connecting(g)
      BY <2>2 DEF Connecting, Silent
    <3> QED
      BY <2>2, <3>1, <3>2 DEF AnnouncedInv
  <2> QED
    BY <2>1, <2>2 DEF SaysNothing
<1>3. \A g : Connecting(g)' <=> Connecting(g)
  BY <1>1 DEF Connecting
<1> QED
  BY <1>1, <1>2, <1>3, SameAnnounced DEF AnnouncedInv

\* A command replaces or stops the connection.
LEMMA CommandAnnounced ==
  ASSUME AnnouncedInv, Connect \/ Stop, UNCHANGED view
  PROVE  AnnouncedInv'
<1>1. UNCHANGED <<retained, events, view, hand>> /\ LeavesSockets
  BY DEF Connect, Stop
<1>2. ~twitch'.subscribed
  BY <1>1 DEF LeavesSockets
<1> QED
  BY <1>1, <1>2, SameAnnounced DEF AnnouncedInv

\* The invariant, stated of the values of the next state.
LEMMA AnnouncedAgain ==
  ASSUME BoundaryTypes', ViewTypes',
         NEW n, n = Len(events') + 1,
         \A g \in Generations : \A i \in DOMAIN events' :
           events'[i].name = "chat" /\ events'[i].payload.generation = g => Announced(g, i)',
         \A g \in Generations : hand'[g] # NoHand => Announced(g, n)',
         twitch'.subscribed =>
           \E g \in Generations : g = task'.generation /\ (Announced(g, n)' \/ Connecting(g)'),
         \A g \in Generations : \A k \in DOMAIN view'.buffer :
           view'.buffer[k].generation = g => Settles(retained', g) /\ InView(g)'
  PROVE  AnnouncedInv'
<1>1. ASSUME NEW i \in DOMAIN events', events'[i].name = "chat"
      PROVE  Announced(events[i].payload.generation, i)'
  <2>1. events'[i].payload.generation \in Generations
    <3>1. events'[i] \in Events
      BY DEF BoundaryTypes
    <3> QED
      BY <1>1, <3>1 DEF Events, Messages
  <2>2. PICK g \in Generations : g = events'[i].payload.generation
    BY <2>1
  <2>3. Announced(g, i)'
    BY <1>1, <2>2
  <2> QED
    BY <2>2, <2>3 DEF Announced, InView
<1>2. ASSUME NEW g \in Generations, hand'[g] # NoHand
      PROVE  Announced(g, Len(events) + 1)'
  <2>1. Announced(g, n)'
    BY <1>2
  <2> QED
    BY <2>1 DEF Announced
<1>3. ASSUME twitch'.subscribed
      PROVE  /\ task'.generation # 0
             /\ Announced(task.generation, Len(events) + 1)' \/ Connecting(task.generation)'
  <2>1. PICK g \in Generations : g = task'.generation /\ (Announced(g, n)' \/ Connecting(g)')
    BY <1>3
  <2>2. g # 0
    BY DEF Generations
  <2>3. CASE Announced(g, n)'
    BY <2>1, <2>2, <2>3 DEF Announced, InView
  <2>4. CASE Connecting(g)'
    BY <2>1, <2>2, <2>4 DEF Connecting
  <2> QED
    BY <2>1, <2>3, <2>4
<1>4. ASSUME NEW k \in DOMAIN view'.buffer
      PROVE  Settles(retained, view.buffer[k].generation)' /\ InView(view.buffer[k].generation)'
  <2>1. view'.buffer[k].generation \in Generations
    <3>1. view'.buffer[k] \in Messages
      BY DEF ViewTypes, Views
    <3> QED
      BY <3>1 DEF Messages
  <2>2. PICK g \in Generations : g = view'.buffer[k].generation
    BY <2>1
  <2>3. Settles(retained', g) /\ InView(g)'
    BY <2>2
  <2> QED
    BY <2>2, <2>3 DEF InView
<1> QED
  BY <1>1, <1>2, <1>3, <1>4 DEF AnnouncedInv, IsChat

\* The invariant, stated of constants.
LEMMA AnnouncedNow ==
  ASSUME AnnouncedInv, BoundaryTypes, PathTypes
  PROVE  /\ \A g \in Generations : \A i \in DOMAIN events :
              events[i].name = "chat" /\ events[i].payload.generation = g => Announced(g, i)
         /\ \A g \in Generations : hand[g] # NoHand => Announced(g, Len(events) + 1)
         /\ twitch.subscribed =>
              \E g \in Generations : /\ g = task.generation
                                     /\ Announced(g, Len(events) + 1) \/ Connecting(g)
         /\ \A g \in Generations : \A k \in DOMAIN view.buffer :
              view.buffer[k].generation = g => Settles(retained, g) /\ InView(g)
<1>1. task.generation # 0 => task.generation \in Generations
  BY DEF PathTypes, Tasks, Generations
<1> QED
  BY <1>1 DEF AnnouncedInv, IsChat

\* A message is emitted.
LEMMA DispatchAnnounced ==
  ASSUME AnnouncedInv, StatusInv, StatusInv', PathTypes, NEW g \in Generations, Dispatch(g),
         UNCHANGED view
  PROVE  AnnouncedInv'
<1> DEFINE message == [generation |-> g, id |-> hand[g]]
<1>1. /\ UNCHANGED <<retained, saying, view, twitch, task>> /\ hand[g] # NoHand
      /\ hand' = [hand EXCEPT ![g] = NoHand]
      /\ events' = events \/ events' = Heard("chat", message)
  BY DEF Dispatch
<1>2. \A h \in Generations : hand'[h] # NoHand => hand[h] # NoHand
  BY <1>1 DEF PathTypes
<1>3. message \in Messages
  <2>1. hand[g] \in Ids
    BY <1>1 DEF PathTypes, Ids, NoHand
  <2> QED
    BY <2>1 DEF Messages
<1> HIDE DEF message
<1>4. /\ Len(events) \in Nat /\ Len(events') \in Nat /\ Len(events) <= Len(events')
      /\ \A i \in DOMAIN events : i \in DOMAIN events' /\ events'[i] = events[i] /\ i \in Nat
      /\ \A i \in DOMAIN events' : \/ i \in DOMAIN events
                                   \/ /\ i = Len(events) + 1 /\ events'[i].payload = message
  <2>1. Len(events) \in Nat /\ \A i \in DOMAIN events : i \in Nat
    BY EventFacts DEF StatusInv
  <2>2. CASE events' = events
    BY <2>1, <2>2
  <2>3. CASE events' = Heard("chat", message)
    <3>1. [name |-> "chat", payload |-> message] \in Events
      BY <1>3 DEF Events
    <3>2. \/ events' = events
          \/ /\ DOMAIN events \subseteq DOMAIN events' /\ Len(events') = Len(events) + 1
             /\ \A i \in DOMAIN events : events'[i] = events[i]
             /\ \A i \in DOMAIN events' : \/ i \in DOMAIN events
                                          \/ i = Len(events) + 1 /\ events'[i].payload = message
      BY <2>3, <3>1, HeardFacts DEF StatusInv
    <3> QED
      BY <2>1, <3>2
  <2> QED
    BY <1>1, <2>2, <2>3
<1>5. ASSUME NEW h \in Generations, NEW n \in Nat, NEW m \in Nat, n <= m, Announced(h, n)
      PROVE  Announced(h, m)'
  <2>1. Settles(retained, h) => Settles(retained', h)
    BY <1>1
  <2>2. InView(h) => InView(h)'
    BY <1>1 DEF InView
  <2> QED
    BY <1>4, <1>5, <2>1, <2>2, AnnouncedStays DEF StatusInv
<1>6. ASSUME NEW h \in Generations, NEW i \in DOMAIN events',
             events'[i].name = "chat", events'[i].payload.generation = h
      PROVE  Announced(h, i)'
  <2>1. CASE i \in DOMAIN events
    <3>1. i \in Nat /\ i <= i /\ events'[i] = events[i]
      BY <1>4, <2>1
    <3>2. Announced(h, i)
      BY <1>6, <2>1, <3>1, AnnouncedNow DEF StatusInv
    <3> QED
      BY <1>5, <3>1, <3>2
  <2>2. CASE i = Len(events) + 1 /\ events'[i].payload = message
    <3>1. h = g /\ i \in Nat /\ i <= i
      BY <1>4, <1>6, <2>2 DEF message
    <3>2. Announced(h, Len(events) + 1)
      BY <1>1, <3>1, AnnouncedNow DEF StatusInv
    <3> QED
      BY <1>5, <2>2, <3>1, <3>2
  <2> QED
    BY <1>4, <2>1, <2>2
<1>7. PICK m : m = Len(events') + 1
  OBVIOUS
<1>8. \A h \in Generations : Announced(h, Len(events) + 1) => Announced(h, m)'
  <2>1. m \in Nat /\ Len(events) + 1 \in Nat /\ Len(events) + 1 <= m
    BY <1>4, <1>7
  <2> QED
    BY <1>5, <2>1
<1>9. \A h : Connecting(h)' <=> Connecting(h)
  BY <1>1 DEF Connecting
<1>10. \A h : InView(h)' <=> InView(h)
  BY <1>1 DEF InView
<1>11. BoundaryTypes' /\ ViewTypes' /\ BoundaryTypes
  BY DEF StatusInv
<1>12. \A h \in Generations : hand'[h] # NoHand => Announced(h, m)'
  BY <1>2, <1>8, <1>11, AnnouncedNow
<1>13. twitch'.subscribed =>
         \E h \in Generations : h = task'.generation /\ (Announced(h, m)' \/ Connecting(h)')
  BY <1>1, <1>8, <1>9, <1>11, AnnouncedNow
<1>14. \A h \in Generations : \A k \in DOMAIN view'.buffer :
         view'.buffer[k].generation = h => Settles(retained', h) /\ InView(h)'
  BY <1>1, <1>10, <1>11, AnnouncedNow
<1> QED
  BY <1>6, <1>7, <1>11, <1>12, <1>13, <1>14, AnnouncedAgain

\* A status gets its revision.
LEMMA RecordAnnounced ==
  ASSUME AnnouncedInv, StatusInv, StatusInv', PathTypes, NEW g \in Generations,
         RecordTwitchStatus(g), UNCHANGED <<eventSubVars, view>>
  PROVE  AnnouncedInv'
<1> DEFINE said == saying[g].event
<1>1. /\ UNCHANGED <<listening, events, view, hand, twitch, task>>
      /\ saying[g].step = "record" /\ retained' = Recorded(said)
  BY DEF RecordTwitchStatus, eventSubVars
<1>2. /\ saying \in [Generations -> [step : {"silent", "record", "emit"}, event : Statuses]]
      /\ retained \in Statuses /\ retained' \in Statuses /\ said.generation = g
      /\ BoundaryTypes' /\ ViewTypes' /\ BoundaryTypes
  BY <1>1 DEF StatusInv, BoundaryTypes, SpeakerInv
<1>3. /\ \A h \in Generations \ {g} : saying'[h] = saying[h]
      /\ saying'[g].step = "emit" /\ saying'[g].event = retained'
  <2> HIDE DEF said
  <2> DEFINE made == [step |-> "emit", event |-> retained']
  <2>1. made.step = "emit" /\ made.event = retained'
    OBVIOUS
  <2>2. saying' = [saying EXCEPT ![g] = made]
    BY DEF RecordTwitchStatus
  <2> HIDE DEF made
  <2> QED
    BY <1>2, <2>1, <2>2
<1>4. Ordered(retained, retained') /\ retained.revision <= retained'.revision
  <2>1. retained.revision \in Nat /\ Out(retained)
    BY <1>2 DEF Out, Statuses
  <2>2. CASE said.generation < retained.generation
    <3>1. retained' = retained
      BY <1>1, <2>2 DEF Recorded
    <3> QED
      BY <2>1, <3>1 DEF Ordered
  <2>3. CASE ~(said.generation < retained.generation)
    <3>1. retained'.revision = retained.revision + 1 /\ Ordered(retained, retained')
      BY <1>1, <2>1, <2>3, RecordedIsLast
    <3> QED
      BY <2>1, <3>1
  <2> QED
    BY <2>2, <2>3
<1>5. \A h \in Generations : Settles(retained, h) => Settles(retained', h)
  BY <1>2, <1>4, SettlesLater
<1>6. said.active = g => Settles(retained', g)
  <2>1. CASE said.generation < retained.generation
    <3>1. retained' = retained
      BY <1>1, <2>1 DEF Recorded
    <3> QED
      BY <1>2, <2>1, <3>1 DEF Settles, Statuses, Generations
  <2>2. CASE ~(said.generation < retained.generation)
    <3>1. /\ retained'.generation = g
          /\ said.active = g => retained'.active = g \/ retained'.status = "disconnected"
      BY <1>1, <2>2, RecordedIsLast
    <3> QED
      BY <3>1 DEF Settles
  <2> QED
    BY <2>1, <2>2
<1>7. \A h \in Generations : Connecting(h) => Connecting(h)'
  <2> SUFFICES ASSUME NEW h \in Generations, Connecting(h)
               PROVE  Connecting(h)'
    OBVIOUS
  <2>1. CASE h = g
    BY <1>1, <1>3, <1>6, <2>1 DEF Connecting
  <2>2. CASE h # g
    BY <1>3, <2>2 DEF Connecting
  <2> QED
    BY <2>1, <2>2
<1>8. \A h : InView(h)' <=> InView(h)
  BY <1>1 DEF InView
<1>9. ASSUME NEW h \in Generations, NEW n \in Nat, Announced(h, n)
      PROVE  Announced(h, n)'
  <2>1. n <= n /\ \A i \in DOMAIN events : i \in DOMAIN events' /\ events'[i] = events[i]
    BY <1>1
  <2> QED
    BY <1>2, <1>5, <1>8, <1>9, <2>1, AnnouncedStays
<1>10. PICK n : n = Len(events') + 1
  OBVIOUS
<1>11. n \in Nat /\ n = Len(events) + 1 /\ \A i \in DOMAIN events : i \in Nat
  BY <1>1, <1>2, <1>10, EventFacts
<1>12. \A h \in Generations : \A i \in DOMAIN events' :
         events'[i].name = "chat" /\ events'[i].payload.generation = h => Announced(h, i)'
  BY <1>1, <1>2, <1>9, <1>11, AnnouncedNow
<1>13. \A h \in Generations : hand'[h] # NoHand => Announced(h, n)'
  BY <1>1, <1>2, <1>9, <1>11, AnnouncedNow
<1>14. twitch'.subscribed =>
         \E h \in Generations : h = task'.generation /\ (Announced(h, n)' \/ Connecting(h)')
  BY <1>1, <1>2, <1>7, <1>9, <1>11, AnnouncedNow
<1>15. \A h \in Generations : \A k \in DOMAIN view'.buffer :
         view'.buffer[k].generation = h => Settles(retained', h) /\ InView(h)'
  BY <1>1, <1>2, <1>5, <1>8, AnnouncedNow
<1> QED
  BY <1>2, <1>10, <1>12, <1>13, <1>14, <1>15, AnnouncedAgain

\* A status is emitted.
LEMMA EmitAnnounced ==
  ASSUME AnnouncedInv, StatusInv, StatusInv', PathTypes, NEW g \in Generations,
         EmitTwitchStatus(g), UNCHANGED <<eventSubVars, view>>
  PROVE  AnnouncedInv'
<1> DEFINE said == saying[g].event
<1>1. /\ UNCHANGED <<retained, listening, view, hand, twitch, task>>
      /\ saying[g].step = "emit" /\ events' = Heard("status", said)
      /\ saying' = [saying EXCEPT ![g] = Silent]
  BY DEF EmitTwitchStatus, eventSubVars
<1>2. /\ saying \in [Generations -> [step : {"silent", "record", "emit"}, event : Statuses]]
      /\ retained \in Statuses /\ said \in Statuses /\ Out(said)
      /\ BoundaryTypes' /\ ViewTypes' /\ BoundaryTypes
  BY <1>1 DEF StatusInv, BoundaryTypes, Out
<1>3. \A h \in Generations \ {g} : saying'[h] = saying[h]
  BY <1>1, <1>2
<1> HIDE DEF said
<1>4. [name |-> "status", payload |-> said] \in Events
  BY <1>2 DEF Events
<1>5. /\ Len(events) \in Nat /\ Len(events') \in Nat /\ Len(events) <= Len(events')
      /\ \A i \in DOMAIN events : i \in DOMAIN events' /\ events'[i] = events[i] /\ i \in Nat
      /\ \A i \in DOMAIN events' : i \in DOMAIN events \/ events'[i].name = "status"
      /\ "status" \in listening =>
           /\ Len(events) + 1 \in DOMAIN events' /\ Len(events) + 1 < Len(events') + 1
           /\ events'[Len(events) + 1].name = "status"
           /\ events'[Len(events) + 1].payload = said
  <2>1. Len(events) \in Nat /\ \A i \in DOMAIN events : i \in Nat
    BY <1>2, EventFacts
  <2>2. /\ DOMAIN events \subseteq DOMAIN events'
        /\ \A i \in DOMAIN events : events'[i] = events[i]
        /\ "status" \notin listening => events' = events
        /\ "status" \in listening => /\ DOMAIN events' = DOMAIN events \cup {Len(events) + 1}
                                     /\ Len(events') = Len(events) + 1
                                     /\ events'[Len(events) + 1].name = "status"
                                     /\ events'[Len(events) + 1].payload = said
        /\ \A i \in DOMAIN events' : i \in DOMAIN events \/ events'[i].name = "status"
    BY <1>1, <1>2, <1>4, HeardFacts
  <2> QED
    BY <2>1, <2>2
<1>6. \A h : InView(h)' <=> InView(h)
  BY <1>1 DEF InView
<1>7. ASSUME NEW h \in Generations, NEW n \in Nat, NEW m \in Nat, n <= m, Announced(h, n)
      PROVE  Announced(h, m)'
  BY <1>1, <1>2, <1>5, <1>6, <1>7, AnnouncedStays
<1>8. PICK n : n = Len(events') + 1
  OBVIOUS
<1>9. \A h \in Generations : Announced(h, Len(events) + 1) => Announced(h, n)'
  <2>1. n \in Nat /\ Len(events) + 1 \in Nat /\ Len(events) + 1 <= n
    BY <1>5, <1>8
  <2> QED
    BY <1>7, <2>1
<1>10. \A h \in Generations : \A i \in DOMAIN events' :
         events'[i].name = "chat" /\ events'[i].payload.generation = h => Announced(h, i)'
  <2> SUFFICES ASSUME NEW h \in Generations, NEW i \in DOMAIN events',
                      events'[i].name = "chat", events'[i].payload.generation = h
               PROVE  Announced(h, i)'
    OBVIOUS
  <2>1. i \in DOMAIN events
    BY <1>5
  <2>2. events'[i] = events[i] /\ i \in Nat /\ i <= i
    BY <1>5, <2>1
  <2>3. Announced(h, i)
    BY <1>2, <2>1, <2>2, AnnouncedNow
  <2> QED
    BY <1>7, <2>2, <2>3
<1>11. \A h \in Generations : hand'[h] # NoHand => Announced(h, n)'
  BY <1>1, <1>2, <1>9, AnnouncedNow
<1>12. Settles(said, g) => Announced(g, n)'
  <2> SUFFICES ASSUME Settles(said, g) PROVE Announced(g, n)'
    OBVIOUS
  <2>1. Settles(retained', g)
    BY <1>1, <1>2, RecordSettles
  <2>2. CASE "status" \in listening
    <3>1. PICK j : j = Len(events) + 1
      OBVIOUS
    <3>2. /\ j \in DOMAIN events' /\ j < n /\ events'[j].name = "status"
          /\ Settles(events'[j].payload, g)
      BY <1>5, <1>8, <2>2, <3>1
    <3> QED
      BY <2>1, <3>2 DEF Announced, IsStatus
  <2>3. CASE "status" \notin listening
    <3>1. view'.phase = "subscribing"
      BY <1>1, <2>3 DEF StatusInv, CatchingUp, Listeners
    <3> QED
      BY <2>1, <3>1 DEF Announced, InView
  <2> QED
    BY <2>2, <2>3
<1>13. twitch'.subscribed =>
         \E h \in Generations : h = task'.generation /\ (Announced(h, n)' \/ Connecting(h)')
  <2> SUFFICES ASSUME twitch'.subscribed
               PROVE  \E h \in Generations :
                        h = task'.generation /\ (Announced(h, n)' \/ Connecting(h)')
    OBVIOUS
  <2>1. PICK h \in Generations : /\ h = task.generation
                                 /\ Announced(h, Len(events) + 1) \/ Connecting(h)
    BY <1>1, <1>2, AnnouncedNow
  <2>2. CASE Announced(h, Len(events) + 1)
    BY <1>1, <1>9, <2>1, <2>2
  <2>3. CASE Connecting(h) /\ h = g
    BY <1>1, <1>12, <2>1, <2>3 DEF Connecting, said
  <2>4. CASE Connecting(h) /\ h # g
    BY <1>1, <1>3, <2>1, <2>4 DEF Connecting
  <2> QED
    BY <2>1, <2>2, <2>3, <2>4
<1>14. \A h \in Generations : \A k \in DOMAIN view'.buffer :
         view'.buffer[k].generation = h => Settles(retained', h) /\ InView(h)'
  BY <1>1, <1>2, <1>6, AnnouncedNow
<1> QED
  BY <1>2, <1>8, <1>10, <1>11, <1>13, <1>14, AnnouncedAgain

\* The window asks, reads or takes over the snapshot: the events stay.
LEMMA SnapshotAnnounced ==
  ASSUME AnnouncedInv, StatusInv, StatusInv', PathTypes, UNCHANGED eventSubVars,
         UNCHANGED <<retained, saying, events>>,
         \A g \in Generations : Settles(retained, g) /\ InView(g) => InView(g)',
         view'.buffer \in {view.buffer, <<>>}
  PROVE  AnnouncedInv'
<1>1. /\ UNCHANGED <<hand, twitch, task>> /\ BoundaryTypes' /\ ViewTypes' /\ BoundaryTypes
  BY DEF eventSubVars, StatusInv
<1>2. ASSUME NEW g \in Generations, NEW n \in Nat, Announced(g, n)
      PROVE  Announced(g, n)'
  <2>1. n <= n /\ \A i \in DOMAIN events : i \in DOMAIN events' /\ events'[i] = events[i]
    OBVIOUS
  <2>2. Settles(retained, g) /\ (InView(g) => InView(g)')
    BY <1>2 DEF Announced
  <2> QED
    BY <1>1, <1>2, <2>1, <2>2, AnnouncedStays
<1>3. PICK n : n = Len(events') + 1
  OBVIOUS
<1>4. n \in Nat /\ n = Len(events) + 1 /\ \A i \in DOMAIN events : i \in Nat
  BY <1>1, <1>3, EventFacts
<1>5. \A h \in Generations : \A i \in DOMAIN events' :
         events'[i].name = "chat" /\ events'[i].payload.generation = h => Announced(h, i)'
  BY <1>1, <1>2, <1>4, AnnouncedNow
<1>6. \A h \in Generations : hand'[h] # NoHand => Announced(h, n)'
  BY <1>1, <1>2, <1>4, AnnouncedNow
<1>7. \A h : Connecting(h)' <=> Connecting(h)
  BY DEF Connecting
<1>8. twitch'.subscribed =>
         \E h \in Generations : h = task'.generation /\ (Announced(h, n)' \/ Connecting(h)')
  BY <1>1, <1>2, <1>4, <1>7, AnnouncedNow
<1>9. \A h \in Generations : \A k \in DOMAIN view'.buffer :
         view'.buffer[k].generation = h => Settles(retained', h) /\ InView(h)'
  <2>1. view'.buffer = view.buffer \/ \A k : k \notin DOMAIN view'.buffer
    OBVIOUS
  <2> QED
    BY <1>1, <2>1, AnnouncedNow
<1> QED
  BY <1>1, <1>3, <1>5, <1>6, <1>8, <1>9, AnnouncedAgain

\* The window takes the first event.
LEMMA ArrivalAnnounced ==
  ASSUME AnnouncedInv, StatusInv, StatusInv', PathTypes, UNCHANGED eventSubVars,
         events # <<>>, events' = Tail(events), UNCHANGED <<retained, saying>>,
         \A g \in Generations : InView(g) => InView(g)',
         \A g \in Generations : IsStatus(1) /\ Settles(events[1].payload, g) => InView(g)',
         \A k \in DOMAIN view'.buffer :
           \/ \E l \in DOMAIN view.buffer : view'.buffer[k] = view.buffer[l]
           \/ IsChat(1) /\ view'.buffer[k] = events[1].payload
  PROVE  AnnouncedInv'
<1>1. /\ UNCHANGED <<hand, twitch, task>> /\ BoundaryTypes' /\ ViewTypes' /\ BoundaryTypes
  BY DEF eventSubVars, StatusInv
<1>2. ASSUME NEW g \in Generations, NEW n \in Nat \ {0}, Announced(g, n)
      PROVE  Announced(g, n - 1)'
  BY <1>1, <1>2, AnnouncedNearer
<1>3. PICK n : n = Len(events') + 1
  OBVIOUS
<1>4. /\ n = (Len(events) + 1) - 1 /\ Len(events) + 1 \in Nat \ {0}
      /\ \A i \in DOMAIN events' : /\ i + 1 \in DOMAIN events /\ i + 1 \in Nat \ {0}
                                   /\ i = (i + 1) - 1 /\ events'[i] = events[i + 1]
  <2>1. Len(events) \in Nat /\ DOMAIN events = 1 .. Len(events)
    BY <1>1, EventFacts
  <2>2. /\ Len(events') = Len(events) - 1
        /\ \A i \in DOMAIN events' : i \in Nat /\ i + 1 \in DOMAIN events
                                     /\ events'[i] = events[i + 1]
    BY <1>1, TailEvents
  <2> QED
    BY <1>3, <2>1, <2>2
<1>5. \A h \in Generations : \A i \in DOMAIN events' :
         events'[i].name = "chat" /\ events'[i].payload.generation = h => Announced(h, i)'
  <2> SUFFICES ASSUME NEW h \in Generations, NEW i \in DOMAIN events',
                      events'[i].name = "chat", events'[i].payload.generation = h
               PROVE  Announced(h, i)'
    OBVIOUS
  <2>1. PICK j : j = i + 1
    OBVIOUS
  <2>2. j \in DOMAIN events /\ j \in Nat \ {0} /\ i = j - 1 /\ events'[i] = events[j]
    BY <1>4, <2>1
  <2>3. Announced(h, j)
    BY <1>1, <2>2, AnnouncedNow
  <2> QED
    BY <1>2, <2>2, <2>3
<1>6. \A h \in Generations : Announced(h, Len(events) + 1) => Announced(h, n)'
  BY <1>2, <1>4
<1>7. \A h \in Generations : hand'[h] # NoHand => Announced(h, n)'
  BY <1>1, <1>6, AnnouncedNow
<1>8. \A h : Connecting(h)' <=> Connecting(h)
  BY DEF Connecting
<1>9. twitch'.subscribed =>
         \E h \in Generations : h = task'.generation /\ (Announced(h, n)' \/ Connecting(h)')
  BY <1>1, <1>6, <1>8, AnnouncedNow
<1>10. \A h \in Generations : \A k \in DOMAIN view'.buffer :
         view'.buffer[k].generation = h => Settles(retained', h) /\ InView(h)'
  <2> SUFFICES ASSUME NEW h \in Generations, NEW k \in DOMAIN view'.buffer,
                      view'.buffer[k].generation = h
               PROVE  Settles(retained', h) /\ InView(h)'
    OBVIOUS
  <2>1. CASE \E l \in DOMAIN view.buffer : view'.buffer[k] = view.buffer[l]
    BY <1>1, <2>1, AnnouncedNow
  <2>2. CASE IsChat(1) /\ view'.buffer[k] = events[1].payload
    <3>1. 1 \in DOMAIN events /\ \A j \in DOMAIN events : ~(j < 1)
      BY <1>1, TailEvents, EventFacts
    <3>2. Announced(h, 1)
      BY <1>1, <2>2, <3>1, AnnouncedNow DEF IsChat
    <3>3. Settles(retained, h) /\ InView(h)
      BY <3>1, <3>2 DEF Announced
    <3> QED
      BY <3>3
  <2> QED
    BY <2>1, <2>2
<1> QED
  BY <1>1, <1>3, <1>5, <1>7, <1>9, <1>10, AnnouncedAgain

\* What the window makes of a status settles what either of them did.
LEMMA TakenSettles ==
  ASSUME StatusInv, NEW e, Out(e), NEW g \in Generations,
         Settles(e, g) \/ Settles(view.known, g)
  PROVE  Settles(Apply(e, view).known, g)
<1>1. /\ Out(view.known) /\ e \in Statuses /\ view.known \in Statuses
      /\ Ordered(e, view.known) /\ Ordered(view.known, e)
      /\ Ordered(e, e) /\ Ordered(view.known, view.known)
  <2>1. Out(view.known)
    BY DEF Out
  <2> QED
    BY <2>1, OutType DEF StatusInv, HistoryOrdered
<1>2. /\ Apply(e, view).known \in {e, view.known}
      /\ Apply(e, view).known.revision >= e.revision
      /\ Apply(e, view).known.revision >= view.known.revision
  BY TakesOver
<1> DEFINE k == Apply(e, view).known
<1> HIDE DEF k
<1>3. /\ k \in Statuses /\ e.revision <= k.revision /\ view.known.revision <= k.revision
      /\ Ordered(e, k) /\ Ordered(view.known, k)
  <2>1. k \in {e, view.known} /\ k.revision >= e.revision /\ k.revision >= view.known.revision
    BY <1>2 DEF k
  <2> QED
    BY <1>1, <2>1 DEF Statuses
<1>4. Settles(k, g)
  BY <1>1, <1>3, SettlesLater
<1> QED
  BY <1>4 DEF k

\* The buffer gains the message at most.
LEMMA BufferGains ==
  ASSUME NEW v \in Views, NEW m \in Messages, Len(v.buffer) <= BufferLimit,
         NEW k \in DOMAIN Buffered(v, m).buffer
  PROVE  \/ \E l \in DOMAIN v.buffer : Buffered(v, m).buffer[k] = v.buffer[l]
         \/ Buffered(v, m).buffer[k] = m
<1> DEFINE more == KeepLast(Append(v.buffer, m), BufferLimit)
<1>1. v.buffer \in Seq(Messages)
  BY DEF Views
<1>2. PICK d \in Nat :
        more \in Seq(Messages) /\ Len(more) \in Nat \ {0} /\ Shifted(more, v.buffer, m, d)
  BY <1>1, KeepLastFacts, ViewAssumption
<1>3. Buffered(v, m).buffer = more
  <2> DEFINE r == KeepLast(Append(v.recent, m.id), RecentLimit)
             p == IF Len(v.buffer) = BufferLimit
                  THEN v.pushedOut \cup {Head(v.buffer).id} ELSE v.pushedOut
  <2>1. Buffered(v, m) = [v EXCEPT !.recent = r, !.buffer = more, !.pushedOut = p]
    BY BufferedFacts
  <2> HIDE DEF r, p, more
  <2> QED
    BY <2>1 DEF Views
<1> HIDE DEF more
<1>4. k \in 1 .. Len(more) /\ DOMAIN v.buffer = 1 .. Len(v.buffer)
  BY <1>1, <1>2, <1>3
<1>5. CASE k = Len(more)
  BY <1>2, <1>3, <1>5 DEF Shifted
<1>6. CASE k # Len(more)
  <2>1. k \in 1 .. Len(more) - 1
    BY <1>2, <1>4, <1>6
  <2>2. k + d \in DOMAIN v.buffer /\ more[k] = v.buffer[k + d]
    BY <1>2, <1>4, <2>1 DEF Shifted
  <2> QED
    BY <1>3, <2>2
<1> QED
  BY <1>5, <1>6

\* The window does something.
LEMMA ViewAnnounced ==
  ASSUME AnnouncedInv, StatusInv, StatusInv', PathTypes, ViewStep, UNCHANGED eventSubVars
  PROVE  AnnouncedInv'
<1>1. CASE \E name \in Listeners : Register(name)
  <2>1. UNCHANGED <<retained, saying, events>> /\ view' = view /\ view'.buffer \in {view.buffer, <<>>}
    BY <1>1 DEF Register
  <2>2. \A g \in Generations : InView(g) => InView(g)'
    BY <2>1 DEF InView
  <2> QED
    BY <2>1, <2>2, SnapshotAnnounced
<1>2. CASE AskSnapshot \/ ReadSnapshot \/ SnapshotFails
  <2>1. /\ UNCHANGED <<retained, saying, events>>
        /\ view'.phase \in {"asked", "answered", "unrestored"}
        /\ view'.phase = "answered" => view'.answer = retained
        /\ view'.buffer \in {view.buffer, <<>>}
    <3>1. view \in Views
      BY DEF StatusInv, ViewTypes
    <3>2. CASE AskSnapshot
      BY <3>1, <3>2 DEF AskSnapshot, eventVars, Views
    <3>3. CASE ReadSnapshot
      BY <3>1, <3>3 DEF ReadSnapshot, eventVars, Views
    <3>4. CASE SnapshotFails
      BY <3>1, <3>4 DEF SnapshotFails, eventVars, Views
    <3> QED
      BY <1>2, <3>2, <3>3, <3>4
  <2>2. \A g \in Generations : Settles(retained, g) => InView(g)'
    BY <2>1 DEF InView
  <2> QED
    BY <2>1, <2>2, SnapshotAnnounced
<1>3. CASE ApplySnapshot
  <2>1. /\ UNCHANGED <<retained, saying, events>> /\ view.phase = "answered"
        /\ view'.phase = "restored" /\ view'.buffer = <<>>
        /\ view'.known = Apply(view.answer, view).known
    BY <1>3, RestoredView DEF ApplySnapshot, eventVars
  <2>2. Out(view.answer)
    BY DEF Out
  <2>3. \A g \in Generations : InView(g) => InView(g)'
    BY <2>1, <2>2, TakenSettles DEF InView
  <2> QED
    BY <2>1, <2>3, SnapshotAnnounced
<1>4. CASE StatusArrives
  <2> DEFINE e == events[1].payload
  <2>1. /\ events # <<>> /\ events' = Tail(events) /\ UNCHANGED <<retained, saying>>
    BY <1>4 DEF StatusArrives
  <2>2. Out(e) /\ (view' = Apply(e, view) \/ view' = Flushed(Apply(e, view)))
    BY <1>4, ArrivalStatus
  <2> HIDE DEF e
  <2>3. /\ Apply(e, view) \in Views
        /\ Apply(e, view).phase = view.phase /\ Apply(e, view).answer = view.answer
        /\ Apply(e, view).buffer = view.buffer
    <3>1. view \in Views
      BY DEF StatusInv, ViewTypes
    <3>2. Apply(e, view) \in Views /\ (Apply(e, view) = [view EXCEPT !.known = e] \/ Apply(e, view) = view)
      BY <2>2, TakesOver
    <3> QED
      BY <3>1, <3>2 DEF Views
  <2> DEFINE v == Apply(e, view)
  <2> HIDE DEF v
  <2>4. /\ view'.known = v.known /\ view'.phase = view.phase /\ view'.answer = view.answer
        /\ view'.buffer \in {view.buffer, <<>>}
    <3>1. CASE view' = v
      BY <2>3, <3>1 DEF v
    <3>2. CASE view' = Flushed(v)
      <4> DEFINE all == v.shown \o InOrder(v.buffer, Matching(v))
      <4>1. v \in Views /\ Flushed(v) = [v EXCEPT !.buffer = <<>>, !.shown = all]
        BY <2>3, FlushedFacts DEF v
      <4> HIDE DEF all
      <4> QED
        BY <2>3, <3>2, <4>1 DEF v, Views
    <3> QED
      BY <2>2, <3>1, <3>2 DEF v
  <2>5. \A g \in Generations : Settles(e, g) \/ Settles(view.known, g) => Settles(view'.known, g)
    BY <2>2, <2>4, TakenSettles DEF v
  <2>6. \A g \in Generations : InView(g) => InView(g)'
    BY <2>4, <2>5 DEF InView
  <2>7. \A g \in Generations : IsStatus(1) /\ Settles(events[1].payload, g) => InView(g)'
    BY <2>5 DEF InView, e
  <2>8. \A k \in DOMAIN view'.buffer :
          \/ \E l \in DOMAIN view.buffer : view'.buffer[k] = view.buffer[l]
          \/ IsChat(1) /\ view'.buffer[k] = events[1].payload
    BY <2>4
  <2> QED
    BY <2>1, <2>6, <2>7, <2>8, ArrivalAnnounced
<1>5. CASE ChatMessageArrives
  <2> DEFINE m == events[1].payload
  <2>1. /\ events # <<>> /\ events' = Tail(events) /\ UNCHANGED <<retained, saying>>
        /\ view' \in {view, Buffered(view, Head(events).payload), Shown(view, Head(events).payload)}
    BY <1>5 DEF ChatMessageArrives
  <2>2. /\ view'.phase = view.phase /\ view'.known = view.known /\ view'.answer = view.answer
        /\ m \in Messages /\ IsChat(1)
    BY <1>5, MessageStatus
  <2>3. ~IsStatus(1) /\ Head(events) = events[1]
    BY <2>1, <2>2, TailEvents, EventFacts DEF StatusInv
  <2>4. \A g \in Generations : InView(g) => InView(g)'
    BY <2>2 DEF InView
  <2>5. view \in Views /\ Len(view.buffer) <= BufferLimit
    BY DEF StatusInv, ViewTypes
  <2>6. \A k \in DOMAIN view'.buffer :
          \/ \E l \in DOMAIN view.buffer : view'.buffer[k] = view.buffer[l]
          \/ IsChat(1) /\ view'.buffer[k] = m
    <3> HIDE DEF m
    <3>1. view' \in {view, Buffered(view, m), Shown(view, m)}
      BY <2>1, <2>3 DEF m
    <3>2. CASE view' = view
      BY <3>2
    <3>3. CASE view' = Buffered(view, m)
      BY <2>2, <2>5, <3>3, BufferGains
    <3>4. CASE view' = Shown(view, m)
      <4> DEFINE r == KeepLast(Append(view.recent, m.id), RecentLimit)
                 s == Append(view.shown, m)
      <4>1. Shown(view, m) = [view EXCEPT !.recent = r, !.shown = s]
        BY <2>2, <2>5, ShownFacts
      <4> HIDE DEF r, s
      <4>2. view'.buffer = view.buffer
        BY <2>5, <3>4, <4>1 DEF Views
      <4> QED
        BY <4>2
    <3> QED
      BY <3>1, <3>2, <3>3, <3>4
  <2> QED
    BY <2>1, <2>3, <2>4, <2>6, ArrivalAnnounced
<1> QED
  BY <1>1, <1>2, <1>3, <1>4, <1>5 DEF ViewStep

\* Every step.
LEMMA AnnouncedStep ==
  ASSUME AnnouncedInv, StatusInv, NumberInv, DeliveryInv, [Next]_vars
  PROVE  AnnouncedInv'
<1>1. PathTypes /\ WireTypes /\ PathShape /\ StatusInv'
  BY StatusStep DEF DeliveryInv
<1>2. CASE TaskSays \/ SaysNothing
  BY <1>1, <1>2, TaskSaysAnnounced, NothingAnnounced
<1>3. CASE (Connect \/ Stop) /\ UNCHANGED view
  BY <1>3, CommandAnnounced
<1>4. CASE \E g \in Generations : Dispatch(g) /\ UNCHANGED view
  BY <1>1, <1>4, DispatchAnnounced
<1>5. CASE \E g \in Generations : RecordTwitchStatus(g) /\ UNCHANGED <<eventSubVars, view>>
  BY <1>1, <1>5, RecordAnnounced
<1>6. CASE \E g \in Generations : EmitTwitchStatus(g) /\ UNCHANGED <<eventSubVars, view>>
  BY <1>1, <1>6, EmitAnnounced
<1>7. CASE ViewStep /\ UNCHANGED eventSubVars
  BY <1>1, <1>7, ViewAnnounced
<1> QED
  BY <1>1, <1>2, <1>3, <1>4, <1>5, <1>6, <1>7, BoundaryKinds

\* No message comes to the window before the word that its connection has
\* been made, whichever way that word takes.
THEOREM AnnouncedInvariance == Spec => []AnnouncedInv
<1>1. Init => AnnouncedInv
  <2> SUFFICES ASSUME Init PROVE AnnouncedInv
    OBVIOUS
  <2>1. /\ events = <<>> /\ hand = [g \in Generations |-> NoHand] /\ ~twitch.subscribed
        /\ view.buffer = <<>>
    BY DEF Init, EventsInit, EventSubInit, ViewInit
  <2> QED
    BY <2>1 DEF AnnouncedInv
<1>2. AnnouncedInv /\ StatusInv /\ NumberInv /\ DeliveryInv /\ [Next]_vars => AnnouncedInv'
  BY AnnouncedStep
<1> QED
  BY <1>1, <1>2, StatusInvariance, NumberInvariance, DeliveryInvariance, PTL DEF Spec

-----------------------------------------------------------------------------
(***************************************************************************)
(* The messages stand in one line.                                         *)
(***************************************************************************)
\* The connection g may be the one that is retained when all is said.
Live(status, g) ==
  ~ (\/ status.generation > g
     \/ status.generation = g /\ status.status = "disconnected")

\* What the listening window was sent up to place c, and from whom.
Came(sent, c, id) == \E i \in 1 .. c : sent[i].listened /\ sent[i].id = id

CameFrom(sent, c, id, g) ==
  \E i \in 1 .. c : sent[i].listened /\ sent[i].id = id /\ sent[i].generation = g

AllCame(sent, c, messages) ==
  \A k \in DOMAIN messages : CameFrom(sent, c, messages[k].id, messages[k].generation)

\* It was sent x before it was sent y.
Before(sent, x, y) ==
  \E i \in DOMAIN sent : /\ sent[i].listened /\ sent[i].id = x
                         /\ \A j \in 1 .. i : sent[j].listened => sent[j].id # y

IsFirst(sent, i) ==
  sent[i].listened /\ \A j \in 1 .. i - 1 : sent[j].listened => sent[j].id # sent[i].id

\* The ids it was sent after place i, up to place n.
Since(sent, i, n) == {sent[k].id : k \in {j \in i + 1 .. n : sent[j].listened}}

\* When a message is emitted again, the window still knows its id.
RepeatsAreKnown(sent) ==
  \A i, j \in DOMAIN sent :
    i < j /\ sent[i].listened /\ sent[j].listened /\ sent[i].id = sent[j].id =>
      Cardinality(Since(sent, i, j - 1)) < RecentLimit

\* The number of a message tells its connection.
OneConnectionEach(sent) ==
  \A i, j \in DOMAIN sent : sent[i].id = sent[j].id => sent[i].generation = sent[j].generation

\* The q-th event on its way was sent at place f[q], when it is a message.
SentAt(f, sent, line, c) ==
  /\ \A q \in DOMAIN line : line[q].name = "chat" =>
       /\ f[q] \in c + 1 .. Len(sent) /\ sent[f[q]].listened
       /\ sent[f[q]].id = line[q].payload.id
       /\ sent[f[q]].generation = line[q].payload.generation
  /\ \A p, q \in DOMAIN line :
       p < q /\ line[p].name = "chat" /\ line[q].name = "chat" => f[p] < f[q]
  /\ \A i \in c + 1 .. Len(sent) : sent[i].listened =>
       \E q \in DOMAIN line : line[q].name = "chat" /\ f[q] = i

\* The messages on their way are what was sent after place c, in its order.
Unread(sent, line, c) ==
  \E f \in [DOMAIN line -> 0 .. Len(sent)] : SentAt(f, sent, line, c)

Taken(v, id) == \E k \in DOMAIN v.recent : v.recent[k] = id

Kept(v, id) ==
  \/ id \in v.pushedOut
  \/ \E k \in DOMAIN v.buffer : v.buffer[k].id = id
  \/ \E k \in DOMAIN v.shown : v.shown[k].id = id

\* What is in the window was sent to it.
Origins(sent, c, v) ==
  /\ AllCame(sent, c, v.buffer) /\ AllCame(sent, c, v.shown)
  /\ \A id \in v.pushedOut : Came(sent, c, id)

\* What came of a connection that lives is in it.
NothingDropped(sent, c, status, v) ==
  \A i \in 1 .. c : sent[i].listened /\ Live(status, sent[i].generation) => Kept(v, sent[i].id)

InLine(sent, status, messages) ==
  \A k, l \in DOMAIN messages : k < l /\ Live(status, messages[l].generation) =>
    Before(sent, messages[k].id, messages[l].id)

IsPending(v) == v.phase \in {"subscribing", "asked", "answered"}

StaysIn(status, messages, gone) ==
  \A k \in DOMAIN messages : Live(status, messages[k].generation) => messages[k].id \notin gone

Places(status, v) ==
  /\ IsPending(v) => v.shown = <<>>
  /\ ~IsPending(v) => v.buffer = <<>>
  /\ StaysIn(status, v.buffer, v.pushedOut) /\ StaysIn(status, v.shown, v.pushedOut)

\* The known ids stand in the order they came in, and of a connection that
\* lives none is forgotten before RecentLimit others came.
Recalls(sent, c, status, v) ==
  /\ \A k \in DOMAIN v.recent : Came(sent, c, v.recent[k])
  /\ \A k, l \in DOMAIN v.recent : k < l =>
       /\ v.recent[k] # v.recent[l]
       /\ \E i, j \in 1 .. c : /\ i < j /\ sent[i].listened /\ sent[j].listened
                               /\ sent[i].id = v.recent[k] /\ sent[j].id = v.recent[l]
  /\ \A i \in 1 .. c : IsFirst(sent, i) /\ Live(status, sent[i].generation) =>
       Taken(v, sent[i].id) \/ Cardinality(Since(sent, i, c)) >= RecentLimit

Accounted(sent, c, status, v) ==
  /\ Origins(sent, c, v)
  /\ NothingDropped(sent, c, status, v)
  /\ InLine(sent, status, v.buffer) /\ InLine(sent, status, v.shown)
  /\ Places(status, v)
  /\ Recalls(sent, c, status, v)

InOneLine(sent, line, status, v) ==
  \E c \in 0 .. Len(sent) : Unread(sent, line, c) /\ Accounted(sent, c, status, v)

\* While no message is emitted again that the window has forgotten, a window
\* whose snapshot did not fail takes every message once, in the order sent.
LineInv ==
  (RepeatsAreKnown(emitted) /\ view.phase # "unrestored") =>
    InOneLine(emitted, events, retained, view)

-----------------------------------------------------------------------------
(***************************************************************************)
(* Lemmas about what was sent.                                             *)
(***************************************************************************)
\* A later status leaves no connection alive that an earlier one did not.
LEMMA LiveLater ==
  ASSUME NEW s \in Statuses, NEW t \in Statuses, Ordered(s, t), s.revision <= t.revision,
         NEW g \in Generations, Live(t, g)
  PROVE  Live(s, g)
<1>1. /\ s.revision \in Nat /\ t.revision \in Nat /\ s.generation \in Nat /\ t.generation \in Nat
      /\ g \in Nat
  BY GenerationAssumption DEF Statuses, Generations
<1>2. CASE s.revision = t.revision
  BY <1>2 DEF Ordered
<1>3. CASE s.revision < t.revision
  BY <1>1, <1>3 DEF Ordered, Live
<1> QED
  BY <1>1, <1>2, <1>3

\* Who knows that a connection was made, and that lives, has it.
LEMMA LiveMatches ==
  ASSUME NEW s \in Statuses, NEW t \in Statuses, Ordered(s, t), s.revision <= t.revision,
         NEW g \in Generations, Live(t, g), Settles(s, g)
  PROVE  s.generation = g /\ s.active = g
<1>1. /\ s.revision \in Nat /\ t.revision \in Nat /\ s.generation \in Nat /\ t.generation \in Nat
      /\ g \in Nat
  BY GenerationAssumption DEF Statuses, Generations
<1>2. Live(s, g)
  BY LiveLater
<1> QED
  BY <1>1, <1>2 DEF Live, Settles

\* What was sent is a finite sequence.
LEMMA SentFacts ==
  ASSUME NEW sent \in Seq(Emissions)
  PROVE  /\ Len(sent) \in Nat /\ DOMAIN sent = 1 .. Len(sent)
         /\ \A c \in 0 .. Len(sent) : /\ c \in Nat /\ c <= Len(sent)
                                      /\ \A i \in 1 .. c : i \in DOMAIN sent /\ i \in Nat
         /\ \A i \in DOMAIN sent : i \in Nat /\ sent[i] \in Emissions
<1> DEFINE n == Len(sent)
<1>1. n \in Nat /\ DOMAIN sent = 1 .. n /\ \A i \in DOMAIN sent : sent[i] \in Emissions
  OBVIOUS
<1> HIDE DEF n
<1>2. /\ \A c \in 0 .. n : c \in Nat /\ c <= n /\ \A i \in 1 .. c : i \in 1 .. n /\ i \in Nat
      /\ \A i \in 1 .. n : i \in Nat
  BY <1>1
<1> QED
  BY <1>1, <1>2 DEF n

\* What came since a place is finitely much.
LEMMA FiniteSince ==
  ASSUME NEW sent \in Seq(Emissions), NEW i \in Nat, NEW n \in Nat
  PROVE  IsFiniteSet(Since(sent, i, n))
<1> DEFINE later == {j \in i + 1 .. n : sent[j].listened}
<1>1. IsFiniteSet(i + 1 .. n)
  BY FS_Interval
<1>2. IsFiniteSet(later)
  BY <1>1, FS_Subset
<1> HIDE DEF later
<1> DEFINE f == [k \in later |-> sent[k].id]
           ids == {sent[k].id : k \in later}
<1>3. f \in Surjection(later, ids)
  <2>1. f \in [later -> ids]
    OBVIOUS
  <2>2. \A x \in ids : \E k \in later : f[k] = x
    OBVIOUS
  <2> QED
    BY <2>1, <2>2 DEF Surjection
<1>4. IsFiniteSet(ids)
  BY <1>2, <1>3, FS_Surjection
<1> QED
  BY <1>4 DEF Since, later

\* As many elements as differ, so many differ in what holds them all.
LEMMA ManyDiffer ==
  ASSUME NEW r \in Seq(Ids), NEW T, IsFiniteSet(T), \A k \in DOMAIN r : r[k] \in T,
         \A k, l \in DOMAIN r : k < l => r[k] # r[l]
  PROVE  Len(r) \in Nat /\ Cardinality(T) \in Nat /\ Len(r) <= Cardinality(T)
<1>1. Len(r) \in Nat /\ DOMAIN r = 1 .. Len(r)
  OBVIOUS
<1>2. r \in [1 .. Len(r) -> T]
  BY <1>1
<1>3. /\ IsFiniteSet(1 .. Len(r)) /\ Cardinality(1 .. Len(r)) = Len(r)
      /\ Cardinality(T) \in Nat
  <2>1. \A m \in Nat : IsFiniteSet(1 .. m) /\ Cardinality(1 .. m) = m
    BY FS_Interval
  <2> QED
    BY <1>1, <2>1, FS_CardinalityType
<1>4. SUFFICES ASSUME Len(r) > Cardinality(T) PROVE FALSE
  BY <1>1, <1>3
<1>5. PICK k \in 1 .. Len(r), l \in 1 .. Len(r) : k # l /\ r[k] = r[l]
  BY <1>2, <1>3, <1>4, FS_PigeonHole
<1>6. k < l \/ l < k
  BY <1>1, <1>5
<1> QED
  BY <1>1, <1>5, <1>6

\* The message that comes next after place c.
NextOne(sent, c, n) ==
  /\ n \in c + 1 .. Len(sent) /\ sent[n].listened
  /\ \A i \in c + 1 .. n - 1 : ~sent[i].listened

\* What came up to the next message is what came before it, and itself.
LEMMA NextFacts ==
  ASSUME NEW sent \in Seq(Emissions), NEW c \in 0 .. Len(sent), NEW n, NextOne(sent, c, n)
  PROVE  /\ n \in 0 .. Len(sent) /\ n \in 1 .. n /\ n \in DOMAIN sent /\ c < n /\ n \in Nat /\ c \in Nat
         /\ \A i \in 1 .. c : i \in 1 .. n
         /\ \A i \in 1 .. n : sent[i].listened => i \in 1 .. c \/ i = n
         /\ \A id : Came(sent, c, id) => Came(sent, n, id)
         /\ Came(sent, n, sent[n].id)
         /\ \A id, g : CameFrom(sent, c, id, g) => CameFrom(sent, n, id, g)
         /\ CameFrom(sent, n, sent[n].id, sent[n].generation)
<1>1. /\ n \in 0 .. Len(sent) /\ n \in 1 .. n /\ n \in DOMAIN sent /\ c < n /\ n \in Nat /\ c \in Nat
      /\ sent[n].listened
      /\ \A i \in 1 .. c : i \in 1 .. n
      /\ \A i \in 1 .. n : i \in 1 .. c \/ i = n \/ i \in c + 1 .. n - 1
  BY DEF NextOne
<1>2. \A i \in 1 .. n : sent[i].listened => i \in 1 .. c \/ i = n
  BY <1>1 DEF NextOne
<1>3. /\ \A id : Came(sent, c, id) => Came(sent, n, id)
      /\ Came(sent, n, sent[n].id)
  BY <1>1 DEF Came
<1>4. /\ \A id, g : CameFrom(sent, c, id, g) => CameFrom(sent, n, id, g)
      /\ CameFrom(sent, n, sent[n].id, sent[n].generation)
  BY <1>1 DEF CameFrom
<1> QED
  BY <1>1, <1>2, <1>3, <1>4

\* More comes, and more has come since.
LEMMA NextSince ==
  ASSUME NEW sent \in Seq(Emissions), NEW c \in 0 .. Len(sent), NEW n, NextOne(sent, c, n),
         NEW i \in 1 .. c
  PROVE  /\ IsFiniteSet(Since(sent, i, n))
         /\ Since(sent, i, c) \subseteq Since(sent, i, n)
         /\ Since(sent, i, c) = Since(sent, i, n - 1)
         /\ Cardinality(Since(sent, i, c)) >= RecentLimit =>
              Cardinality(Since(sent, i, n)) >= RecentLimit
         /\ sent[n].id \in Since(sent, i, n)
         /\ \A j \in 1 .. c : i < j /\ sent[j].listened => sent[j].id \in Since(sent, i, n)
<1>1. /\ n \in Nat /\ c \in Nat /\ i \in Nat /\ c < n /\ n \in c + 1 .. Len(sent) /\ i <= c
      /\ sent[n].listened /\ \A j \in c + 1 .. n - 1 : ~sent[j].listened
  BY NextFacts DEF NextOne
<1>2. IsFiniteSet(Since(sent, i, n)) /\ IsFiniteSet(Since(sent, i, c))
  BY <1>1, FiniteSince
<1>3. /\ \A j \in i + 1 .. c : j \in i + 1 .. n - 1 /\ j \in i + 1 .. n
      /\ \A j \in i + 1 .. n - 1 : sent[j].listened => j \in i + 1 .. c
      /\ n \in i + 1 .. n
      /\ \A j \in 1 .. c : i < j => j \in i + 1 .. n
  BY <1>1
<1>4. /\ Since(sent, i, c) \subseteq Since(sent, i, n)
      /\ Since(sent, i, c) = Since(sent, i, n - 1)
      /\ sent[n].id \in Since(sent, i, n)
      /\ \A j \in 1 .. c : i < j /\ sent[j].listened => sent[j].id \in Since(sent, i, n)
  BY <1>1, <1>3 DEF Since
<1>5. /\ Cardinality(Since(sent, i, c)) <= Cardinality(Since(sent, i, n))
      /\ Cardinality(Since(sent, i, c)) \in Nat /\ Cardinality(Since(sent, i, n)) \in Nat
  BY <1>2, <1>4, FS_Subset, FS_CardinalityType
<1> QED
  BY <1>2, <1>4, <1>5, ViewAssumption

\* What is sent later changes nothing about what came up to place c.
LEMMA SentGrows ==
  ASSUME NEW sent \in Seq(Emissions), NEW e \in Emissions
  PROVE  LET more == Append(sent, e)
         IN  /\ more \in Seq(Emissions) /\ Len(more) = Len(sent) + 1
             /\ \A i \in DOMAIN sent : i \in DOMAIN more /\ more[i] = sent[i]
             /\ more[Len(sent) + 1] = e
             /\ \A x, y : Before(sent, x, y) => Before(more, x, y)
             /\ RepeatsAreKnown(more) => RepeatsAreKnown(sent)
<1> DEFINE more == Append(sent, e)
<1>1. /\ more \in Seq(Emissions) /\ Len(sent) \in Nat /\ Len(more) = Len(sent) + 1
      /\ DOMAIN sent = 1 .. Len(sent) /\ DOMAIN more = 1 .. Len(sent) + 1
      /\ \A i \in 1 .. Len(sent) : more[i] = sent[i]
      /\ more[Len(sent) + 1] = e
  BY AppendFacts
<1> HIDE DEF more
<1>2. \A i \in DOMAIN sent : i \in DOMAIN more /\ more[i] = sent[i]
  BY <1>1
<1>3. ASSUME NEW x, NEW y, Before(sent, x, y)
      PROVE  Before(more, x, y)
  <2>1. PICK i \in DOMAIN sent : /\ sent[i].listened /\ sent[i].id = x
                                 /\ \A j \in 1 .. i : sent[j].listened => sent[j].id # y
    BY <1>3 DEF Before
  <2>2. \A j \in 1 .. i : j \in DOMAIN sent
    BY <1>1
  <2> QED
    BY <1>2, <2>1, <2>2 DEF Before
<1>4. ASSUME RepeatsAreKnown(more) PROVE RepeatsAreKnown(sent)
  <2> SUFFICES ASSUME NEW i \in DOMAIN sent, NEW j \in DOMAIN sent, i < j, sent[i].listened,
                      sent[j].listened, sent[i].id = sent[j].id
               PROVE  Cardinality(Since(sent, i, j - 1)) < RecentLimit
    BY DEF RepeatsAreKnown
  <2>1. \A k \in i + 1 .. j - 1 : more[k] = sent[k]
    BY <1>1
  <2>2. Since(more, i, j - 1) = Since(sent, i, j - 1)
    BY <2>1 DEF Since
  <2>3. Cardinality(Since(more, i, j - 1)) < RecentLimit
    BY <1>2, <1>4 DEF RepeatsAreKnown
  <2> QED
    BY <2>2, <2>3
<1> QED
  BY <1>1, <1>2, <1>3, <1>4 DEF more

-----------------------------------------------------------------------------
(***************************************************************************)
(* What is accounted for stays so, and what comes next is accounted for.   *)
(***************************************************************************)
\* What is sent later is not counted up to place c.
LEMMA AccountGrows ==
  ASSUME NEW sent \in Seq(Emissions), NEW e \in Emissions, NEW c \in 0 .. Len(sent),
         NEW s, NEW v, Accounted(sent, c, s, v)
  PROVE  Accounted(Append(sent, e), c, s, v)
<1> DEFINE more == Append(sent, e)
<1>1. /\ \A i \in DOMAIN sent : more[i] = sent[i]
      /\ \A x, y : Before(sent, x, y) => Before(more, x, y)
  BY SentGrows
<1> HIDE DEF more
<1>2. c \in Nat /\ \A i \in 1 .. c : i \in Nat /\ i <= c /\ more[i] = sent[i]
  BY <1>1, SentFacts
<1>3. /\ \A id : Came(sent, c, id) => Came(more, c, id)
      /\ \A id, g : CameFrom(sent, c, id, g) => CameFrom(more, c, id, g)
  BY <1>2 DEF Came, CameFrom
<1>4. \A i \in 1 .. c : IsFirst(more, i) => IsFirst(sent, i)
  <2> SUFFICES ASSUME NEW i \in 1 .. c, IsFirst(more, i) PROVE IsFirst(sent, i)
    OBVIOUS
  <2>1. \A j \in 1 .. i - 1 : j \in 1 .. c
    BY <1>2
  <2> QED
    BY <1>2, <2>1 DEF IsFirst
<1>5. \A i \in 1 .. c : Since(more, i, c) = Since(sent, i, c)
  <2> SUFFICES ASSUME NEW i \in 1 .. c PROVE Since(more, i, c) = Since(sent, i, c)
    OBVIOUS
  <2>1. \A j \in i + 1 .. c : j \in 1 .. c
    BY <1>2
  <2> QED
    BY <1>2, <2>1 DEF Since
<1>6. Origins(more, c, v)
  BY <1>3 DEF Accounted, Origins, AllCame
<1>7. NothingDropped(more, c, s, v)
  BY <1>2 DEF Accounted, NothingDropped
<1>8. InLine(more, s, v.buffer) /\ InLine(more, s, v.shown)
  BY <1>1 DEF Accounted, InLine
<1>9. Recalls(more, c, s, v)
  <2>1. Recalls(sent, c, s, v)
    BY DEF Accounted
  <2>2. \A k \in DOMAIN v.recent : Came(more, c, v.recent[k])
    BY <1>3, <2>1 DEF Recalls
  <2>3. \A k, l \in DOMAIN v.recent : k < l =>
          /\ v.recent[k] # v.recent[l]
          /\ \E i, j \in 1 .. c : /\ i < j /\ more[i].listened /\ more[j].listened
                                  /\ more[i].id = v.recent[k] /\ more[j].id = v.recent[l]
    BY <1>2, <2>1 DEF Recalls
  <2>4. \A i \in 1 .. c : IsFirst(more, i) /\ Live(s, more[i].generation) =>
          Taken(v, more[i].id) \/ Cardinality(Since(more, i, c)) >= RecentLimit
    BY <1>2, <1>4, <1>5, <2>1 DEF Recalls
  <2> QED
    BY <2>2, <2>3, <2>4 DEF Recalls
<1> QED
  BY <1>6, <1>7, <1>8, <1>9 DEF Accounted, more

\* The window as the invariant sees it.
Alike(v, w) ==
  /\ w.buffer = v.buffer /\ w.recent = v.recent /\ w.shown = v.shown
  /\ w.pushedOut = v.pushedOut
  /\ IsPending(w) <=> IsPending(v)

\* What has died is not to be accounted for.
LEMMA AccountStays ==
  ASSUME NEW sent, NEW c, NEW s, NEW t, NEW v, NEW w, Accounted(sent, c, s, v), Alike(v, w),
         \A i \in 1 .. c : Live(t, sent[i].generation) => Live(s, sent[i].generation)
  PROVE  Accounted(sent, c, t, w)
<1>1. \A id, g : CameFrom(sent, c, id, g) /\ Live(t, g) => Live(s, g)
  BY DEF CameFrom
<1>2. /\ AllCame(sent, c, v.buffer) /\ AllCame(sent, c, v.shown)
      /\ Places(s, v) /\ Recalls(sent, c, s, v)
  BY DEF Accounted, Origins
<1>3. \A id : Taken(w, id) <=> Taken(v, id)
  BY DEF Alike, Taken
<1>4. \A id : Kept(w, id) <=> Kept(v, id)
  BY DEF Alike, Kept
<1>5. Origins(sent, c, w)
  BY DEF Accounted, Origins, Alike
<1>6. NothingDropped(sent, c, t, w)
  BY <1>4 DEF Accounted, NothingDropped
<1>7. InLine(sent, t, w.buffer) /\ InLine(sent, t, w.shown)
  BY <1>1, <1>2 DEF Accounted, AllCame, InLine, Alike
<1>8. Places(t, w)
  <2>1. StaysIn(t, v.buffer, v.pushedOut) /\ StaysIn(t, v.shown, v.pushedOut)
    BY <1>1, <1>2 DEF AllCame, Places, StaysIn
  <2> QED
    BY <1>2, <2>1 DEF Places, Alike
<1>9. Recalls(sent, c, t, w)
  BY <1>2, <1>3 DEF Recalls, Alike
<1> QED
  BY <1>5, <1>6, <1>7, <1>8, <1>9 DEF Accounted

\* A message of a connection that lives, and that the window does not know,
\* has not come before.
LEMMA Fresh ==
  ASSUME NEW sent \in Seq(Emissions), NEW c \in 0 .. Len(sent), NEW n, NextOne(sent, c, n),
         NEW s, NEW v, OneConnectionEach(sent), RepeatsAreKnown(sent), Recalls(sent, c, s, v),
         Live(s, sent[n].generation), ~Taken(v, sent[n].id)
  PROVE  ~Came(sent, c, sent[n].id)
<1> DEFINE id == sent[n].id
           copies == {i \in 1 .. c : sent[i].listened /\ sent[i].id = id}
<1> SUFFICES ASSUME Came(sent, c, id) PROVE FALSE
  OBVIOUS
<1>1. /\ n \in DOMAIN sent /\ n \in Nat /\ c \in Nat /\ c < n /\ sent[n].listened
      /\ \A i \in 1 .. c : i \in DOMAIN sent /\ i \in Nat /\ i <= c /\ i < n
  <2>1. n \in DOMAIN sent /\ n \in Nat /\ c \in Nat /\ c < n /\ sent[n].listened
    BY NextFacts DEF NextOne
  <2>2. \A i \in 1 .. c : i \in DOMAIN sent
    BY SentFacts
  <2>3. \A i \in 1 .. c : i \in Nat /\ i <= c /\ i < n
    BY <2>1
  <2> QED
    BY <2>1, <2>2, <2>3
<1>2. PICK i \in copies : \A j \in copies : i <= j
  <2>1. copies # {}
    BY DEF Came
  <2>2. copies \in SUBSET Nat
    BY <1>1
  <2> HIDE DEF copies
  <2> QED
    BY <2>1, <2>2, LeastOfNaturals
<1>3. i \in 1 .. c /\ sent[i].listened /\ sent[i].id = id
  BY <1>2
<1>4. IsFirst(sent, i)
  <2>1. \A j \in 1 .. i - 1 : j \in 1 .. c /\ ~(i <= j)
    BY <1>1, <1>3
  <2>2. \A j \in 1 .. i - 1 : j \notin copies
    BY <1>2, <2>1
  <2> QED
    BY <1>3, <2>1, <2>2 DEF IsFirst
<1>5. Live(s, sent[i].generation)
  BY <1>1, <1>3 DEF OneConnectionEach
<1>6. Cardinality(Since(sent, i, c)) >= RecentLimit
  BY <1>3, <1>4, <1>5 DEF Recalls
<1>7. Cardinality(Since(sent, i, n - 1)) < RecentLimit
  BY <1>1, <1>3 DEF RepeatsAreKnown
<1>8. Since(sent, i, c) = Since(sent, i, n - 1)
  BY <1>3, NextSince
<1>9. Cardinality(Since(sent, i, c)) \in Nat
  BY <1>1, <1>3, FiniteSince, FS_CardinalityType
<1> QED
  BY <1>6, <1>7, <1>8, <1>9, ViewAssumption

\* The next message is taken already, or its connection is dead.
LEMMA PassedBy ==
  ASSUME NEW sent \in Seq(Emissions), NEW c \in 0 .. Len(sent), NEW n, NextOne(sent, c, n),
         NEW s, NEW v, NEW w, OneConnectionEach(sent), Accounted(sent, c, s, v), Alike(v, w),
         Taken(v, sent[n].id) \/ ~Live(s, sent[n].generation)
  PROVE  Accounted(sent, n, s, w)
<1>1. /\ n \in DOMAIN sent /\ n \in 1 .. n
      /\ \A i \in 1 .. c : i \in 1 .. n
      /\ \A i \in 1 .. n : sent[i].listened => i \in 1 .. c \/ i = n
      /\ \A id : Came(sent, c, id) => Came(sent, n, id)
      /\ \A id, g : CameFrom(sent, c, id, g) => CameFrom(sent, n, id, g)
  BY NextFacts
<1>2. Origins(sent, c, v) /\ NothingDropped(sent, c, s, v) /\ Places(s, v) /\ Recalls(sent, c, s, v)
  BY DEF Accounted
<1>3. Accounted(sent, c, s, w)
  BY AccountStays
<1>4. /\ Origins(sent, c, w) /\ NothingDropped(sent, c, s, w) /\ Recalls(sent, c, s, w)
      /\ InLine(sent, s, w.buffer) /\ InLine(sent, s, w.shown) /\ Places(s, w)
      /\ Taken(w, sent[n].id) \/ ~Live(s, sent[n].generation)
  BY <1>3 DEF Accounted, Alike, Taken
<1>5. Origins(sent, n, w)
  BY <1>1, <1>4 DEF Origins, AllCame
<1>6. NothingDropped(sent, n, s, w)
  <2> SUFFICES ASSUME NEW i \in 1 .. n, sent[i].listened, Live(s, sent[i].generation)
               PROVE  Kept(w, sent[i].id)
    BY DEF NothingDropped
  <2>1. CASE i \in 1 .. c
    BY <1>4, <2>1 DEF NothingDropped
  <2>2. CASE i = n
    <3>1. PICK k \in DOMAIN w.recent : w.recent[k] = sent[n].id
      BY <1>4, <2>2 DEF Taken
    <3>2. PICK j \in 1 .. c : sent[j].listened /\ sent[j].id = sent[n].id
      BY <1>4, <3>1 DEF Recalls, Came
    <3>3. j \in DOMAIN sent
      BY SentFacts
    <3>4. sent[j].generation = sent[n].generation
      BY <1>1, <3>2, <3>3 DEF OneConnectionEach
    <3> QED
      BY <1>4, <2>2, <3>2, <3>4 DEF NothingDropped
  <2> QED
    BY <1>1, <2>1, <2>2
<1>7. Recalls(sent, n, s, w)
  <2>1. \A k \in DOMAIN w.recent : Came(sent, n, w.recent[k])
    BY <1>1, <1>4 DEF Recalls
  <2>2. \A k, l \in DOMAIN w.recent : k < l =>
          /\ w.recent[k] # w.recent[l]
          /\ \E i, j \in 1 .. n : /\ i < j /\ sent[i].listened /\ sent[j].listened
                                  /\ sent[i].id = w.recent[k] /\ sent[j].id = w.recent[l]
    BY <1>1, <1>4 DEF Recalls
  <2>3. ASSUME NEW i \in 1 .. n, IsFirst(sent, i), Live(s, sent[i].generation)
        PROVE  Taken(w, sent[i].id) \/ Cardinality(Since(sent, i, n)) >= RecentLimit
    <3>1. i \in 1 .. c \/ i = n
      BY <1>1, <2>3 DEF IsFirst
    <3>2. CASE i \in 1 .. c
      <4>1. Taken(w, sent[i].id) \/ Cardinality(Since(sent, i, c)) >= RecentLimit
        BY <1>4, <2>3, <3>2 DEF Recalls
      <4> QED
        BY <3>2, <4>1, NextSince
    <3> QED
      BY <1>4, <2>3, <3>1, <3>2
  <2> QED
    BY <2>1, <2>2, <2>3 DEF Recalls
<1> QED
  BY <1>4, <1>5, <1>6, <1>7 DEF Accounted

\* The known ids are r when id is appended to ids and d are forgotten for it.
Trimmed(r, ids, id, d) ==
  /\ r \in Seq(Ids) /\ Len(r) \in Nat \ {0} /\ DOMAIN r = 1 .. Len(r)
  /\ Len(r) \in DOMAIN r /\ r[Len(r)] = id
  /\ d # 0 => Len(r) = RecentLimit
  /\ \A k \in DOMAIN r : k # Len(r) =>
       /\ k \in Nat /\ k < Len(r) /\ k + d \in DOMAIN ids /\ r[k] = ids[k + d]
       /\ k + d > d
  /\ \A k \in DOMAIN ids : k > d => \E l \in DOMAIN r : r[l] = ids[k]
  /\ \A k \in DOMAIN ids : k \in Nat /\ k # 0

\* The known ids after one is added.
LEMMA RecentMoves ==
  ASSUME NEW v \in Views, NEW id \in Ids, NEW r, r = KeepLast(Append(v.recent, id), RecentLimit)
  PROVE  \E d \in Nat : Trimmed(r, v.recent, id, d)
<1>1. v.recent \in Seq(Ids)
  BY DEF Views
<1> DEFINE ids == v.recent
           n == Len(ids)
           last == Len(r)
<1>2. /\ r \in Seq(Ids) /\ last \in Nat \ {0} /\ n \in Nat
      /\ \E d \in Nat : /\ Shifted(r, ids, id, d)
                        /\ n + 1 > RecentLimit => last = RecentLimit
                        /\ ~(n + 1 > RecentLimit) => d = 0
  <2> DEFINE t == KeepLast(Append(ids, id), RecentLimit)
  <2>1. /\ t \in Seq(Ids) /\ Len(t) \in Nat \ {0} /\ n \in Nat
        /\ \E d \in Nat : /\ Shifted(t, ids, id, d)
                          /\ n + 1 > RecentLimit => Len(t) = RecentLimit
                          /\ ~(n + 1 > RecentLimit) => d = 0
    <3>1. ids \in Seq(Ids) /\ RecentLimit \in Nat \ {0}
      BY <1>1, ViewAssumption
    <3> HIDE DEF ids
    <3> QED
      BY <3>1, KeepLastFacts
  <2>2. r = t
    OBVIOUS
  <2> HIDE DEF t
  <2> QED
    BY <2>1, <2>2
<1>3. PICK d \in Nat : /\ Shifted(r, ids, id, d)
                       /\ n + 1 > RecentLimit => last = RecentLimit
                       /\ ~(n + 1 > RecentLimit) => d = 0
  BY <1>2
<1>4. /\ DOMAIN r = 1 .. last /\ DOMAIN ids = 1 .. n
  BY <1>1, <1>2
<1>5. /\ last = n + 1 - d /\ r[last] = id
      /\ \A k \in 1 .. last - 1 : k + d \in 1 .. n /\ r[k] = ids[k + d]
  BY <1>3 DEF Shifted
<1> HIDE DEF n, last, ids
<1>6. last \in DOMAIN r /\ (d # 0 => last = RecentLimit)
  BY <1>2, <1>3, <1>4
<1>7. ASSUME NEW k \in DOMAIN r, k # last
      PROVE  /\ k \in Nat /\ k < last /\ k + d \in DOMAIN ids /\ r[k] = ids[k + d]
             /\ k + d > d
  <2>1. k \in 1 .. last - 1 /\ k \in Nat /\ k < last /\ k > 0
    BY <1>2, <1>4, <1>7
  <2> QED
    BY <1>4, <1>5, <2>1
<1>8. ASSUME NEW k \in DOMAIN ids, k > d
      PROVE  \E l \in DOMAIN r : r[l] = ids[k]
  <2>1. k - d \in 1 .. last - 1 /\ (k - d) + d = k /\ k - d \in 1 .. last
    <3>1. k \in 1 .. n /\ last = n + 1 - d
      BY <1>4, <1>5
    <3> QED
      BY <1>2, <1>8, <3>1
  <2> QED
    BY <1>4, <1>5, <2>1
<1>9. \A k \in DOMAIN ids : k \in Nat /\ k # 0
  BY <1>2, <1>4
<1>10. Trimmed(r, ids, id, d)
  BY <1>2, <1>4, <1>5, <1>6, <1>7, <1>8, <1>9 DEF Trimmed, last
<1> QED
  BY <1>10 DEF ids

\* A new id is remembered: what is forgotten for it has RecentLimit others
\* after it.
LEMMA RecallsGains ==
  ASSUME NEW sent \in Seq(Emissions), NEW c \in 0 .. Len(sent), NEW n, NextOne(sent, c, n),
         NEW s, NEW v \in Views, NEW w, Recalls(sent, c, s, v), ~Taken(v, sent[n].id),
         sent[n].id \in Ids, w.recent = KeepLast(Append(v.recent, sent[n].id), RecentLimit)
  PROVE  Recalls(sent, n, s, w)
<1> DEFINE r == w.recent
           ids == v.recent
           last == Len(r)
           id == sent[n].id
<1>1. PICK d \in Nat : Trimmed(r, ids, id, d)
  <2>1. id \in Ids /\ r = KeepLast(Append(v.recent, id), RecentLimit)
    OBVIOUS
  <2> HIDE DEF id, r
  <2> QED
    BY <2>1, RecentMoves
<1>2. /\ \A k \in DOMAIN ids : Came(sent, c, ids[k])
      /\ \A k, l \in DOMAIN ids : k < l =>
           /\ ids[k] # ids[l]
           /\ \E i, j \in 1 .. c : /\ i < j /\ sent[i].listened /\ sent[j].listened
                                   /\ sent[i].id = ids[k] /\ sent[j].id = ids[l]
      /\ \A i \in 1 .. c : IsFirst(sent, i) /\ Live(s, sent[i].generation) =>
           Taken(v, sent[i].id) \/ Cardinality(Since(sent, i, c)) >= RecentLimit
  BY DEF Recalls
<1>3. \A k \in DOMAIN ids : ids[k] # id
  BY DEF Taken
<1>4. /\ n \in 1 .. n /\ c < n /\ n \in Nat /\ c \in Nat /\ sent[n].listened
      /\ \A i \in 1 .. c : i \in 1 .. n
      /\ \A i \in 1 .. n : sent[i].listened => i \in 1 .. c \/ i = n
      /\ \A x : Came(sent, c, x) => Came(sent, n, x)
      /\ Came(sent, n, id)
  BY NextFacts DEF NextOne
<1>5. \A i \in 1 .. c : i \in Nat /\ i < n
  BY <1>4
<1> USE DEF Trimmed
<1> HIDE DEF r, ids, id
<1>6. \A k \in DOMAIN r : Came(sent, n, r[k])
  BY <1>1, <1>2, <1>4
<1>7. ASSUME NEW k \in DOMAIN r, NEW l \in DOMAIN r, k < l
      PROVE  /\ r[k] # r[l]
             /\ \E i, j \in 1 .. n : /\ i < j /\ sent[i].listened /\ sent[j].listened
                                     /\ sent[i].id = r[k] /\ sent[j].id = r[l]
  <2>1. k \in Nat /\ l \in Nat /\ k # last
    BY <1>1, <1>7
  <2>2. k + d \in DOMAIN ids /\ r[k] = ids[k + d]
    BY <1>1, <2>1
  <2>3. CASE l = last
    <3>1. PICK i \in 1 .. c : sent[i].listened /\ sent[i].id = r[k]
      BY <1>2, <2>2 DEF Came
    <3> QED
      BY <1>1, <1>3, <1>4, <1>5, <2>2, <2>3, <3>1 DEF id
  <2>4. CASE l # last
    <3>1. l + d \in DOMAIN ids /\ r[l] = ids[l + d] /\ k + d < l + d
      BY <1>1, <1>7, <2>1, <2>4
    <3> QED
      BY <1>2, <1>4, <2>2, <3>1
  <2> QED
    BY <2>3, <2>4
<1>8. ASSUME NEW i \in 1 .. n, IsFirst(sent, i), Live(s, sent[i].generation)
      PROVE  Taken(w, sent[i].id) \/ Cardinality(Since(sent, i, n)) >= RecentLimit
  <2>1. i \in 1 .. c \/ i = n
    BY <1>4, <1>8 DEF IsFirst
  <2>2. CASE i = n
    BY <1>1, <2>2 DEF Taken, r, id
  <2>3. CASE i \in 1 .. c /\ Cardinality(Since(sent, i, c)) >= RecentLimit
    BY <2>3, NextSince
  <2>4. CASE i \in 1 .. c /\ Taken(v, sent[i].id)
    <3>1. PICK k \in DOMAIN ids : ids[k] = sent[i].id
      BY <2>4 DEF Taken, ids
    <3>2. CASE k > d
      BY <1>1, <3>1, <3>2 DEF Taken, r
    <3>3. CASE ~(k > d)
      <4> DEFINE T == Since(sent, i, n)
      <4>1. /\ IsFiniteSet(T) /\ id \in T
            /\ \A j \in 1 .. c : i < j /\ sent[j].listened => sent[j].id \in T
        BY <2>4, NextSince DEF id
      <4> HIDE DEF T
      <4>2. d # 0 /\ k \in Nat
        BY <1>1, <3>3
      <4>3. last = RecentLimit
        BY <1>1, <4>2
      <4>4. \A l \in DOMAIN r : r[l] \in T
        <5> SUFFICES ASSUME NEW l \in DOMAIN r, l # last PROVE r[l] \in T
          BY <1>1, <4>1
        <5>1. l + d \in DOMAIN ids /\ r[l] = ids[l + d] /\ l + d > d /\ l \in Nat
          BY <1>1
        <5>2. k < l + d
          BY <3>3, <4>2, <5>1
        <5>3. PICK p, q \in 1 .. c : /\ p < q /\ sent[p].listened /\ sent[q].listened
                                     /\ sent[p].id = ids[k] /\ sent[q].id = ids[l + d]
          BY <1>2, <5>1, <5>2
        <5>4. ~(p \in 1 .. i - 1)
          BY <1>8, <3>1, <5>3 DEF IsFirst
        <5>5. i < q
          BY <1>5, <2>4, <5>3, <5>4
        <5> QED
          BY <4>1, <5>1, <5>3, <5>5
      <4>5. \A l, m \in DOMAIN r : l < m => r[l] # r[m]
        BY <1>7
      <4>6. Cardinality(T) \in Nat /\ last <= Cardinality(T)
        BY <1>1, <4>1, <4>4, <4>5, ManyDiffer DEF last
      <4> QED
        BY <4>3, <4>6, ViewAssumption DEF T
    <3> QED
      BY <3>2, <3>3
  <2> QED
    BY <1>2, <1>8, <2>1, <2>2, <2>3, <2>4
<1> QED
  BY <1>6, <1>7, <1>8 DEF Recalls, r

\* The buffer gains the message, and loses its first one when it is full.
LEMMA BufferMoves ==
  ASSUME NEW v \in Views, NEW m \in Messages, Len(v.buffer) <= BufferLimit
  PROVE  LET w == Buffered(v, m)
         IN  /\ w.recent = KeepLast(Append(v.recent, m.id), RecentLimit)
             /\ w.shown = v.shown /\ w.phase = v.phase /\ w \in Views
             /\ \E d \in {0, 1} :
                  /\ Shifted(w.buffer, v.buffer, m, d)
                  /\ Len(w.buffer) \in Nat \ {0} /\ Len(v.buffer) \in Nat
                  /\ w.pushedOut = IF d = 1 THEN v.pushedOut \cup {v.buffer[1].id} ELSE v.pushedOut
                  /\ d = 1 => 1 \in DOMAIN v.buffer
<1> DEFINE w == Buffered(v, m)
           b == v.buffer
           more == KeepLast(Append(b, m), BufferLimit)
           r == KeepLast(Append(v.recent, m.id), RecentLimit)
           gone == IF Len(b) = BufferLimit THEN v.pushedOut \cup {Head(b).id} ELSE v.pushedOut
<1>1. b \in Seq(Messages) /\ Len(b) \in Nat /\ Len(b) <= BufferLimit /\ BufferLimit \in Nat \ {0}
  BY ViewAssumption DEF Views
<1>2. /\ w.recent = r /\ w.buffer = more /\ w.pushedOut = gone
      /\ w.shown = v.shown /\ w.phase = v.phase /\ w \in Views
  <2>1. w = [v EXCEPT !.recent = r, !.buffer = more, !.pushedOut = gone] /\ w \in Views
    BY BufferedFacts
  <2> HIDE DEF w, r, more, gone
  <2> QED
    BY <2>1 DEF Views
<1> HIDE DEF w, b
<1>3. PICK d \in Nat : /\ Shifted(more, b, m, d) /\ Len(more) \in Nat \ {0}
                       /\ Len(b) + 1 > BufferLimit => Len(more) = BufferLimit
                       /\ ~(Len(b) + 1 > BufferLimit) => d = 0
  BY <1>1, KeepLastFacts
<1> HIDE DEF more
<1>4. Len(more) = Len(b) + 1 - d
  BY <1>3 DEF Shifted
<1>5. CASE Len(b) = BufferLimit
  <2>1. d = 1
    BY <1>1, <1>3, <1>4, <1>5
  <2>2. 1 \in DOMAIN b /\ Head(b) = b[1]
    BY <1>1, <1>5
  <2>3. gone = v.pushedOut \cup {b[1].id}
    BY <1>5, <2>2
  <2> HIDE DEF gone, r
  <2>4. /\ Shifted(w.buffer, b, m, 1) /\ Len(w.buffer) \in Nat \ {0} /\ Len(b) \in Nat
        /\ w.pushedOut = v.pushedOut \cup {b[1].id}
        /\ 1 \in DOMAIN b
    BY <1>1, <1>2, <1>3, <2>1, <2>2, <2>3
  <2>5. \E e \in {0, 1} :
          /\ Shifted(w.buffer, b, m, e)
          /\ Len(w.buffer) \in Nat \ {0} /\ Len(b) \in Nat
          /\ w.pushedOut = IF e = 1 THEN v.pushedOut \cup {b[1].id} ELSE v.pushedOut
          /\ e = 1 => 1 \in DOMAIN b
    BY <2>4
  <2> QED
    BY <1>2, <2>5 DEF w, b, r
<1>6. CASE Len(b) # BufferLimit
  <2>1. d = 0
    BY <1>1, <1>3, <1>6
  <2>2. gone = v.pushedOut
    BY <1>6
  <2> HIDE DEF gone, r
  <2>4. /\ Shifted(w.buffer, b, m, 0) /\ Len(w.buffer) \in Nat \ {0} /\ Len(b) \in Nat
        /\ w.pushedOut = v.pushedOut
    BY <1>1, <1>2, <1>3, <2>1, <2>2
  <2>5. \E e \in {0, 1} :
          /\ Shifted(w.buffer, b, m, e)
          /\ Len(w.buffer) \in Nat \ {0} /\ Len(b) \in Nat
          /\ w.pushedOut = IF e = 1 THEN v.pushedOut \cup {b[1].id} ELSE v.pushedOut
          /\ e = 1 => 1 \in DOMAIN b
    BY <2>4
  <2> QED
    BY <1>2, <2>5 DEF w, b, r
<1> QED
  BY <1>5, <1>6

\* What came up to place c was sent before what did not.
LEMMA CameBefore ==
  ASSUME NEW sent \in Seq(Emissions), NEW c \in 0 .. Len(sent), NEW x, NEW y,
         Came(sent, c, x), ~Came(sent, c, y)
  PROVE  Before(sent, x, y)
<1>1. PICK i \in 1 .. c : sent[i].listened /\ sent[i].id = x
  BY DEF Came
<1>2. i \in DOMAIN sent /\ \A j \in 1 .. i : j \in 1 .. c
  <2>1. i \in DOMAIN sent /\ i \in Nat /\ c \in Nat /\ i <= c
    <3>1. i \in DOMAIN sent /\ c \in Nat
      BY SentFacts
    <3> QED
      BY <3>1
  <2> QED
    BY <2>1
<1> QED
  BY <1>1, <1>2 DEF Before, Came

\* Where the messages are when one was added and d went.
LEMMA ShiftedFacts ==
  ASSUME NEW t \in Seq(Messages), NEW ms \in Seq(Messages), NEW m, NEW d \in {0, 1},
         Shifted(t, ms, m, d), Len(t) \in Nat \ {0}
  PROVE  /\ Len(t) \in DOMAIN t /\ t[Len(t)] = m
         /\ \A k \in DOMAIN t : k \in Nat /\ k # 0
         /\ \A k \in DOMAIN t : \/ k = Len(t) /\ t[k] = m
                                \/ k < Len(t) /\ k + d \in DOMAIN ms /\ t[k] = ms[k + d]
         /\ \A k \in DOMAIN ms : \/ k - d \in DOMAIN t /\ t[k - d] = ms[k]
                                 \/ k = 1 /\ d = 1
<1> DEFINE last == Len(t)
           n == Len(ms)
<1>1. /\ DOMAIN t = 1 .. last /\ DOMAIN ms = 1 .. n /\ n \in Nat /\ last \in Nat \ {0}
      /\ last = n + 1 - d /\ t[last] = m
      /\ \A k \in 1 .. last - 1 : k + d \in 1 .. n /\ t[k] = ms[k + d]
  BY DEF Shifted
<1> HIDE DEF last, n
<1>2. last \in DOMAIN t /\ \A k \in DOMAIN t : k \in Nat /\ k # 0
  BY <1>1
<1>3. ASSUME NEW k \in DOMAIN t, k # last
      PROVE  k < last /\ k + d \in DOMAIN ms /\ t[k] = ms[k + d]
  <2>1. k \in 1 .. last - 1 /\ k < last
    BY <1>1, <1>3
  <2> QED
    BY <1>1, <2>1
<1>4. ASSUME NEW k \in DOMAIN ms, ~(k = 1 /\ d = 1)
      PROVE  k - d \in DOMAIN t /\ t[k - d] = ms[k]
  <2>1. k \in 1 .. n /\ last = n + 1 - d
    BY <1>1
  <2>2. k - d \in 1 .. last - 1 /\ (k - d) + d = k /\ k - d \in 1 .. last
    BY <1>1, <1>4, <2>1
  <2> QED
    BY <1>1, <2>2
<1> QED
  BY <1>1, <1>2, <1>3, <1>4 DEF last

\* With the message that goes, gone becomes more.
Leaves(more, gone, ms, d) ==
  \A id \in more : id \in gone \/ (d = 1 /\ 1 \in DOMAIN ms /\ id = ms[1].id)

\* The next message, when its connection lives and it has not come before,
\* is added behind all others; what goes for it is no later one.
LEMMA AddedInLine ==
  ASSUME NEW sent \in Seq(Emissions), NEW c \in 0 .. Len(sent), NEW n, NextOne(sent, c, n),
         NEW s, NEW t \in Seq(Messages), NEW ms \in Seq(Messages), NEW m \in Messages,
         NEW d \in {0, 1}, Shifted(t, ms, m, d), Len(t) \in Nat \ {0},
         m.id = sent[n].id, m.generation = sent[n].generation,
         AllCame(sent, c, ms), InLine(sent, s, ms),
         Live(s, m.generation) => ~Came(sent, c, m.id),
         NEW gone, \A id \in gone : Came(sent, c, id),
         StaysIn(s, ms, gone),
         NEW more, Leaves(more, gone, ms, d)
  PROVE  AllCame(sent, n, t) /\ InLine(sent, s, t) /\ StaysIn(s, t, more)
<1> DEFINE last == Len(t)
<1>1. /\ last \in DOMAIN t /\ t[last] = m
      /\ \A k \in DOMAIN t : k \in Nat /\ k # 0
      /\ \A k \in DOMAIN t : \/ k = last /\ t[k] = m
                             \/ k < last /\ k + d \in DOMAIN ms /\ t[k] = ms[k + d]
  BY ShiftedFacts
<1>2. last \in Nat
  OBVIOUS
<1> HIDE DEF last
<1>3. \A k \in DOMAIN ms : Came(sent, c, ms[k].id)
  BY DEF AllCame, CameFrom, Came
<1>4. AllCame(sent, n, t)
  <2>1. CameFrom(sent, n, m.id, m.generation)
    BY NextFacts
  <2>2. \A k \in DOMAIN ms : CameFrom(sent, n, ms[k].id, ms[k].generation)
    BY NextFacts DEF AllCame
  <2> QED
    BY <1>1, <2>1, <2>2 DEF AllCame
<1>5. InLine(sent, s, t)
  <2> SUFFICES ASSUME NEW k \in DOMAIN t, NEW l \in DOMAIN t, k < l, Live(s, t[l].generation)
               PROVE  Before(sent, t[k].id, t[l].id)
    BY DEF InLine
  <2>1. k + d \in DOMAIN ms /\ t[k] = ms[k + d] /\ k \in Nat /\ l \in Nat
    BY <1>1, <1>2
  <2>2. CASE l + d \in DOMAIN ms /\ t[l] = ms[l + d]
    <3>1. k + d < l + d
      BY <2>1
    <3> QED
      BY <2>1, <2>2, <3>1 DEF InLine
  <2>3. CASE t[l] = m
    BY <1>3, <2>1, <2>3, CameBefore
  <2> QED
    BY <1>1, <2>2, <2>3
<1>6. ASSUME NEW k \in DOMAIN t, Live(s, t[k].generation)
      PROVE  t[k].id \notin more
  <2>1. CASE t[k] = m
    BY <1>3, <1>6, <2>1 DEF Leaves
  <2>2. CASE k + d \in DOMAIN ms /\ t[k] = ms[k + d]
    <3>1. t[k].id \notin gone
      BY <1>6, <2>2 DEF StaysIn
    <3>2. ASSUME d = 1, 1 \in DOMAIN ms PROVE t[k].id # ms[1].id
      <4>1. 1 < k + d
        BY <1>1, <3>2
      <4>2. Before(sent, ms[1].id, t[k].id)
        BY <1>6, <2>2, <3>2, <4>1 DEF InLine
      <4>3. \A i \in DOMAIN sent : i \in 1 .. i
        BY SentFacts
      <4> QED
        BY <4>2, <4>3 DEF Before
    <3> QED
      BY <3>1, <3>2 DEF Leaves
  <2> QED
    BY <1>1, <2>1, <2>2
<1> QED
  BY <1>4, <1>5, <1>6 DEF StaysIn

\* The next message is kept, and nothing is lost for it.
LEMMA KeepsAll ==
  ASSUME NEW sent \in Seq(Emissions), NEW c \in 0 .. Len(sent), NEW n, NextOne(sent, c, n),
         NEW s, NEW v, NEW w, NothingDropped(sent, c, s, v),
         \A id : Kept(v, id) => Kept(w, id), Kept(w, sent[n].id)
  PROVE  NothingDropped(sent, n, s, w)
<1> SUFFICES ASSUME NEW i \in 1 .. n, sent[i].listened, Live(s, sent[i].generation)
             PROVE  Kept(w, sent[i].id)
  BY DEF NothingDropped
<1>1. i \in 1 .. c \/ i = n
  BY NextFacts
<1> QED
  BY <1>1 DEF NothingDropped

\* A message that the window does not know is shown.
LEMMA ShownAccount ==
  ASSUME NEW sent \in Seq(Emissions), NEW c \in 0 .. Len(sent), NEW n, NextOne(sent, c, n),
         NEW s, NEW v \in Views, NEW m \in Messages,
         m.id = sent[n].id, m.generation = sent[n].generation,
         OneConnectionEach(sent), RepeatsAreKnown(sent), Accounted(sent, c, s, v),
         ~IsPending(v), ~Taken(v, m.id)
  PROVE  Accounted(sent, n, s, Shown(v, m))
<1> DEFINE w == Shown(v, m)
           t == Append(v.shown, m)
           r == KeepLast(Append(v.recent, m.id), RecentLimit)
<1>1. /\ w.recent = r /\ w.shown = t /\ w.buffer = v.buffer
      /\ w.pushedOut = v.pushedOut /\ w.phase = v.phase
  <2>1. w = [v EXCEPT !.recent = r, !.shown = t] /\ w \in Views
    BY ShownFacts
  <2> HIDE DEF r, t, w
  <2> QED
    BY <2>1 DEF Views
<1> HIDE DEF w
<1>2. /\ AllCame(sent, c, v.buffer) /\ AllCame(sent, c, v.shown)
      /\ \A id \in v.pushedOut : Came(sent, c, id)
      /\ NothingDropped(sent, c, s, v) /\ Places(s, v) /\ Recalls(sent, c, s, v)
      /\ InLine(sent, s, v.buffer) /\ InLine(sent, s, v.shown)
      /\ v.shown \in Seq(Messages) /\ v.buffer = <<>>
      /\ StaysIn(s, v.shown, v.pushedOut)
  BY DEF Accounted, Origins, Places, Views
<1>3. Live(s, m.generation) => ~Came(sent, c, m.id)
  BY <1>2, Fresh
<1>4. /\ t \in Seq(Messages) /\ Shifted(t, v.shown, m, 0) /\ Len(t) \in Nat \ {0}
  <2>1. /\ t \in Seq(Messages) /\ Len(t) = Len(v.shown) + 1 /\ Len(v.shown) \in Nat
        /\ \A i \in 1 .. Len(v.shown) : t[i] = v.shown[i]
        /\ t[Len(v.shown) + 1] = m
    BY <1>2, AppendFacts
  <2> HIDE DEF t
  <2> QED
    BY <2>1 DEF Shifted
<1> HIDE DEF t
<1>5. AllCame(sent, n, t) /\ InLine(sent, s, t) /\ StaysIn(s, t, v.pushedOut)
  <2>1. Leaves(v.pushedOut, v.pushedOut, v.shown, 0)
    BY DEF Leaves
  <2> QED
    BY <1>2, <1>3, <1>4, <2>1, AddedInLine
<1>6. /\ Len(t) \in DOMAIN t /\ t[Len(t)] = m
      /\ \A k \in DOMAIN v.shown : k - 0 \in DOMAIN t /\ t[k - 0] = v.shown[k]
  BY <1>2, <1>4, ShiftedFacts
<1>7. Origins(sent, n, w)
  <2>1. AllCame(sent, n, w.buffer)
    BY <1>1, <1>2, NextFacts DEF AllCame
  <2>2. \A id \in v.pushedOut : Came(sent, n, id)
    BY <1>2, NextFacts
  <2> QED
    BY <1>1, <1>5, <2>1, <2>2 DEF Origins
<1>8. NothingDropped(sent, n, s, w)
  <2>1. \A id : Kept(v, id) => Kept(w, id)
    BY <1>1, <1>6 DEF Kept
  <2>2. Kept(w, sent[n].id)
    BY <1>1, <1>6 DEF Kept
  <2> QED
    BY <1>2, <2>1, <2>2, KeepsAll
<1>9. Places(s, w)
  <2>1. ~IsPending(w)
    BY <1>1 DEF IsPending
  <2> QED
    BY <1>1, <1>2, <1>5, <2>1 DEF Places, StaysIn
<1>10. Recalls(sent, n, s, w)
  <2>1. m.id \in Ids
    BY DEF Messages
  <2> HIDE DEF r
  <2>2. w.recent = KeepLast(Append(v.recent, sent[n].id), RecentLimit)
    BY <1>1 DEF r
  <2> QED
    BY <1>2, <2>1, <2>2, RecallsGains
<1>11. InLine(sent, s, w.buffer) /\ InLine(sent, s, w.shown)
  BY <1>1, <1>2, <1>5
<1> QED
  BY <1>7, <1>8, <1>9, <1>10, <1>11 DEF Accounted, w

\* A message that the window does not know waits in the buffer.
LEMMA BufferedAccount ==
  ASSUME NEW sent \in Seq(Emissions), NEW c \in 0 .. Len(sent), NEW n, NextOne(sent, c, n),
         NEW s, NEW v \in Views, NEW m \in Messages,
         m.id = sent[n].id, m.generation = sent[n].generation,
         OneConnectionEach(sent), RepeatsAreKnown(sent), Accounted(sent, c, s, v),
         IsPending(v), ~Taken(v, m.id), Len(v.buffer) <= BufferLimit
  PROVE  Accounted(sent, n, s, Buffered(v, m))
<1> DEFINE w == Buffered(v, m)
           r == KeepLast(Append(v.recent, m.id), RecentLimit)
           t == w.buffer
           gone == w.pushedOut
<1>1. /\ w.recent = r /\ w.shown = v.shown /\ w.phase = v.phase /\ w \in Views
      /\ \E d \in {0, 1} :
           /\ Shifted(t, v.buffer, m, d)
           /\ Len(t) \in Nat \ {0} /\ Len(v.buffer) \in Nat
           /\ gone = IF d = 1 THEN v.pushedOut \cup {v.buffer[1].id} ELSE v.pushedOut
           /\ d = 1 => 1 \in DOMAIN v.buffer
  BY BufferMoves
<1> HIDE DEF w
<1>2. PICK d \in {0, 1} :
        /\ Shifted(t, v.buffer, m, d)
        /\ Len(t) \in Nat \ {0} /\ Len(v.buffer) \in Nat
        /\ gone = IF d = 1 THEN v.pushedOut \cup {v.buffer[1].id} ELSE v.pushedOut
        /\ d = 1 => 1 \in DOMAIN v.buffer
  BY <1>1
<1>3. /\ AllCame(sent, c, v.buffer) /\ AllCame(sent, c, v.shown)
      /\ \A id \in v.pushedOut : Came(sent, c, id)
      /\ NothingDropped(sent, c, s, v) /\ Places(s, v) /\ Recalls(sent, c, s, v)
      /\ InLine(sent, s, v.buffer) /\ InLine(sent, s, v.shown)
      /\ v.buffer \in Seq(Messages) /\ v.shown = <<>>
      /\ StaysIn(s, v.buffer, v.pushedOut)
  BY DEF Accounted, Origins, Places, Views
<1>4. Live(s, m.generation) => ~Came(sent, c, m.id)
  BY <1>3, Fresh
<1>5. t \in Seq(Messages)
  BY <1>1 DEF Views
<1>6. /\ \A id : id \in gone <=> id \in v.pushedOut \/ (d = 1 /\ id = v.buffer[1].id)
      /\ Shifted(t, v.buffer, m, d) /\ Len(t) \in Nat \ {0}
      /\ d = 1 => 1 \in DOMAIN v.buffer
  BY <1>2
<1> HIDE DEF t, gone
<1>7. AllCame(sent, n, t) /\ InLine(sent, s, t) /\ StaysIn(s, t, gone)
  <2>1. PICK b, out : b = v.buffer /\ out = v.pushedOut
    OBVIOUS
  <2>2. Leaves(gone, out, b, d)
    BY <1>6, <2>1 DEF Leaves
  <2>3. /\ AllCame(sent, c, b) /\ InLine(sent, s, b) /\ StaysIn(s, b, out)
        /\ \A id \in out : Came(sent, c, id)
        /\ b \in Seq(Messages)
    BY <1>3, <2>1
  <2>4. Shifted(t, b, m, d) /\ Len(t) \in Nat \ {0}
    BY <1>6, <2>1
  <2> QED
    BY <1>4, <1>5, <2>2, <2>3, <2>4, AddedInLine
<1>8. /\ Len(t) \in DOMAIN t /\ t[Len(t)] = m
      /\ \A k \in DOMAIN v.buffer : \/ k - d \in DOMAIN t /\ t[k - d] = v.buffer[k]
                                    \/ k = 1 /\ d = 1
  BY <1>3, <1>5, <1>6, ShiftedFacts
<1>9. Origins(sent, n, w)
  <2>1. AllCame(sent, n, w.shown)
    BY <1>1, <1>3, NextFacts DEF AllCame
  <2>2. \A id \in v.pushedOut : Came(sent, n, id)
    BY <1>3, NextFacts
  <2>3. d = 1 => Came(sent, n, v.buffer[1].id)
    <3>1. \A k \in DOMAIN v.buffer : Came(sent, c, v.buffer[k].id)
      BY <1>3 DEF AllCame, CameFrom, Came
    <3> QED
      BY <1>6, <3>1, NextFacts
  <2> QED
    BY <1>6, <1>7, <2>1, <2>2, <2>3 DEF Origins, t, gone
<1>10. NothingDropped(sent, n, s, w)
  <2>1. ASSUME NEW id, Kept(v, id) PROVE Kept(w, id)
    <3>1. CASE id \in v.pushedOut
      BY <1>6, <3>1 DEF Kept, gone
    <3>2. CASE \E k \in DOMAIN v.buffer : v.buffer[k].id = id
      BY <1>6, <1>8, <3>2 DEF Kept, t, gone
    <3>3. CASE \E k \in DOMAIN v.shown : v.shown[k].id = id
      BY <1>1, <3>3 DEF Kept
    <3> QED
      BY <2>1, <3>1, <3>2, <3>3 DEF Kept
  <2>2. Kept(w, sent[n].id)
    BY <1>8 DEF Kept, t
  <2> QED
    BY <1>3, <2>1, <2>2, KeepsAll
<1>11. Places(s, w)
  <2>1. IsPending(w) /\ w.shown = <<>>
    BY <1>1, <1>3 DEF IsPending
  <2>2. StaysIn(s, w.shown, w)
    BY <2>1 DEF StaysIn
  <2> QED
    BY <1>7, <2>1, <2>2 DEF Places, StaysIn, t, gone
<1>12. Recalls(sent, n, s, w)
  <2>1. m.id \in Ids
    BY DEF Messages
  <2> HIDE DEF r
  <2>2. w.recent = KeepLast(Append(v.recent, sent[n].id), RecentLimit)
    BY <1>1 DEF r
  <2> QED
    BY <1>3, <2>1, <2>2, RecallsGains
<1>13. InLine(sent, s, w.buffer) /\ InLine(sent, s, w.shown)
  BY <1>1, <1>3, <1>7 DEF t
<1> QED
  BY <1>9, <1>10, <1>11, <1>12, <1>13 DEF Accounted, w

-----------------------------------------------------------------------------
(***************************************************************************)
(* What is on its way.                                                     *)
(***************************************************************************)
\* The first event is taken away.
LEMMA RestOfLine ==
  ASSUME NEW line \in Seq(Events), line # <<>>
  PROVE  LET rest == Tail(line)
         IN  /\ rest \in Seq(Events) /\ 1 \in DOMAIN line /\ Head(line) = line[1]
             /\ \A q \in DOMAIN line : q \in Nat
             /\ \A q \in DOMAIN rest : /\ q \in Nat /\ q + 1 \in DOMAIN line /\ 1 < q + 1
                                       /\ rest[q] = line[q + 1]
             /\ \A q \in DOMAIN line : q # 1 => q - 1 \in DOMAIN rest /\ (q - 1) + 1 = q
<1> DEFINE rest == Tail(line)
           n == Len(line)
<1>1. /\ rest \in Seq(Events) /\ Len(rest) = n - 1 /\ Head(line) = line[1]
      /\ n \in Nat \ {0}
      /\ \A i \in 1 .. n - 1 : rest[i] = line[i + 1]
  BY TailFacts
<1>2. DOMAIN line = 1 .. n /\ DOMAIN rest = 1 .. n - 1
  BY <1>1
<1> HIDE DEF rest, n
<1>3. \A q \in DOMAIN rest : /\ q \in Nat /\ q + 1 \in DOMAIN line /\ 1 < q + 1
                             /\ rest[q] = line[q + 1]
  BY <1>1, <1>2
<1>4. \A q \in DOMAIN line : q # 1 => q - 1 \in DOMAIN rest /\ (q - 1) + 1 = q
  BY <1>1, <1>2
<1>5. 1 \in DOMAIN line /\ \A q \in DOMAIN line : q \in Nat
  BY <1>1, <1>2
<1> QED
  BY <1>1, <1>3, <1>4, <1>5 DEF rest

\* The first message on its way is the next of what was sent; the others
\* come after it.
LEMMA ArrivalUnread ==
  ASSUME NEW sent \in Seq(Emissions), NEW line \in Seq(Events), line # <<>>,
         NEW c \in 0 .. Len(sent), Unread(sent, line, c), line[1].name = "chat"
  PROVE  \E n : /\ NextOne(sent, c, n) /\ Unread(sent, Tail(line), n)
                /\ sent[n].id = line[1].payload.id
                /\ sent[n].generation = line[1].payload.generation
<1> DEFINE rest == Tail(line)
           length == Len(sent)
<1>1. PICK f \in [DOMAIN line -> 0 .. length] : SentAt(f, sent, line, c)
  BY DEF Unread
<1>2. /\ 1 \in DOMAIN line
      /\ \A q \in DOMAIN rest : /\ q \in Nat /\ q + 1 \in DOMAIN line /\ 1 < q + 1
                                /\ rest[q] = line[q + 1]
      /\ \A q \in DOMAIN line : q # 1 => q - 1 \in DOMAIN rest /\ (q - 1) + 1 = q
      /\ \A q \in DOMAIN line : q \in Nat
  BY RestOfLine
<1>3. length \in Nat /\ c \in Nat
  BY SentFacts
<1> DEFINE n == f[1]
           g == [q \in DOMAIN rest |-> f[q + 1]]
<1> HIDE DEF rest
<1>4. /\ n \in c + 1 .. length /\ sent[n].listened /\ n \in Nat
      /\ sent[n].id = line[1].payload.id
      /\ sent[n].generation = line[1].payload.generation
  BY <1>1, <1>2, <1>3 DEF SentAt
<1>5. ASSUME NEW q \in DOMAIN line, line[q].name = "chat", q # 1
      PROVE  n < f[q] /\ f[q] \in n + 1 .. length /\ f[q] \in Nat
  <2>1. 1 < q
    BY <1>2, <1>5
  <2>2. n < f[q]
    BY <1>1, <1>2, <1>5, <2>1 DEF SentAt
  <2>3. f[q] \in c + 1 .. length
    BY <1>1, <1>5 DEF SentAt
  <2> QED
    BY <1>3, <1>4, <2>2, <2>3
<1>6. NextOne(sent, c, n)
  <2> SUFFICES ASSUME NEW i \in c + 1 .. n - 1, sent[i].listened PROVE FALSE
    BY <1>4 DEF NextOne
  <2>1. i \in c + 1 .. length /\ i < n /\ i \in Nat
    BY <1>3, <1>4
  <2>2. PICK q \in DOMAIN line : line[q].name = "chat" /\ f[q] = i
    BY <1>1, <2>1 DEF SentAt
  <2>3. q # 1
    BY <1>4, <2>1, <2>2
  <2>4. n < i
    BY <1>5, <2>2, <2>3
  <2> QED
    BY <1>4, <2>1, <2>4
<1>7. g \in [DOMAIN rest -> 0 .. length]
  BY <1>1, <1>2
<1>8. \A q \in DOMAIN rest : g[q] = f[q + 1]
  OBVIOUS
<1> HIDE DEF g, n
<1>9. SentAt(g, sent, rest, n)
  <2>1. \A q \in DOMAIN rest : rest[q].name = "chat" =>
          /\ g[q] \in n + 1 .. length /\ sent[g[q]].listened
          /\ sent[g[q]].id = rest[q].payload.id
          /\ sent[g[q]].generation = rest[q].payload.generation
    <3> SUFFICES ASSUME NEW q \in DOMAIN rest, rest[q].name = "chat"
                 PROVE  /\ g[q] \in n + 1 .. length /\ sent[g[q]].listened
                        /\ sent[g[q]].id = rest[q].payload.id
                        /\ sent[g[q]].generation = rest[q].payload.generation
      OBVIOUS
    <3>1. q + 1 \in DOMAIN line /\ q + 1 # 1 /\ rest[q] = line[q + 1] /\ g[q] = f[q + 1]
      BY <1>2, <1>8
    <3>2. g[q] \in n + 1 .. length
      BY <1>5, <3>1
    <3>3. /\ sent[f[q + 1]].listened
          /\ sent[f[q + 1]].id = line[q + 1].payload.id
          /\ sent[f[q + 1]].generation = line[q + 1].payload.generation
      BY <1>1, <3>1 DEF SentAt
    <3> QED
      BY <3>1, <3>2, <3>3
  <2>2. ASSUME NEW p \in DOMAIN rest, NEW q \in DOMAIN rest,
               p < q, rest[p].name = "chat", rest[q].name = "chat"
        PROVE  g[p] < g[q]
    <3>1. p + 1 < q + 1 /\ p + 1 \in DOMAIN line /\ q + 1 \in DOMAIN line
      BY <1>2, <2>2
    <3>2. line[p + 1].name = "chat" /\ line[q + 1].name = "chat"
      BY <1>2, <2>2
    <3>3. f[p + 1] < f[q + 1]
      BY <1>1, <3>1, <3>2 DEF SentAt
    <3> QED
      BY <1>8, <3>3
  <2>3. ASSUME NEW i \in n + 1 .. length, sent[i].listened
        PROVE  \E q \in DOMAIN rest : rest[q].name = "chat" /\ g[q] = i
    <3>1. i \in c + 1 .. length /\ i # n
      BY <1>3, <1>4, <2>3
    <3>2. PICK q \in DOMAIN line : line[q].name = "chat" /\ f[q] = i
      BY <1>1, <2>3, <3>1 DEF SentAt
    <3>3. q # 1
      BY <3>1, <3>2 DEF n
    <3>4. q - 1 \in DOMAIN rest /\ (q - 1) + 1 = q
      BY <1>2, <3>3
    <3>5. rest[q - 1] = line[q] /\ g[q - 1] = f[q]
      BY <1>2, <1>8, <3>4
    <3> QED
      BY <3>2, <3>4, <3>5
  <2> QED
    BY <2>1, <2>2, <2>3 DEF SentAt
<1>10. Unread(sent, rest, n)
  BY <1>7, <1>9 DEF Unread
<1> QED
  BY <1>4, <1>6, <1>10 DEF rest

\* Events that are no messages join the line.
LEMMA StaysUnread ==
  ASSUME NEW sent \in Seq(Emissions), NEW line, NEW more, NEW c, Unread(sent, line, c),
         \A q \in DOMAIN line : q \in DOMAIN more /\ more[q] = line[q],
         \A q \in DOMAIN more : q \in DOMAIN line \/ more[q].name # "chat"
  PROVE  Unread(sent, more, c)
<1>1. PICK f \in [DOMAIN line -> 0 .. Len(sent)] : SentAt(f, sent, line, c)
  BY DEF Unread
<1>2. \A q \in DOMAIN line : q \in DOMAIN more
  OBVIOUS
<1> DEFINE g == [q \in DOMAIN more |-> IF q \in DOMAIN line THEN f[q] ELSE 0]
<1>3. g \in [DOMAIN more -> 0 .. Len(sent)]
  <2>1. 0 \in 0 .. Len(sent)
    BY SentFacts
  <2> QED
    BY <1>1, <2>1
<1>4. \A q \in DOMAIN line : g[q] = f[q]
  BY <1>2
<1> HIDE DEF g
<1>5. \A q \in DOMAIN more : more[q].name = "chat" => q \in DOMAIN line /\ more[q] = line[q]
  OBVIOUS
<1>6. SentAt(g, sent, more, c)
  <2>1. \A q \in DOMAIN more : more[q].name = "chat" =>
          /\ g[q] \in c + 1 .. Len(sent) /\ sent[g[q]].listened
          /\ sent[g[q]].id = more[q].payload.id
          /\ sent[g[q]].generation = more[q].payload.generation
    BY <1>1, <1>4, <1>5 DEF SentAt
  <2>2. \A p, q \in DOMAIN more :
          p < q /\ more[p].name = "chat" /\ more[q].name = "chat" => g[p] < g[q]
    BY <1>1, <1>4, <1>5 DEF SentAt
  <2>3. \A i \in c + 1 .. Len(sent) : sent[i].listened =>
          \E q \in DOMAIN more : more[q].name = "chat" /\ g[q] = i
    BY <1>1, <1>2, <1>4 DEF SentAt
  <2> QED
    BY <2>1, <2>2, <2>3 DEF SentAt
<1> QED
  BY <1>3, <1>6 DEF Unread

\* A status leaves the line.
LEMMA RestUnread ==
  ASSUME NEW sent \in Seq(Emissions), NEW line \in Seq(Events), line # <<>>,
         NEW c, Unread(sent, line, c), line[1].name # "chat"
  PROVE  Unread(sent, Tail(line), c)
<1> DEFINE rest == Tail(line)
<1>1. PICK f \in [DOMAIN line -> 0 .. Len(sent)] : SentAt(f, sent, line, c)
  BY DEF Unread
<1>2. /\ \A q \in DOMAIN rest : /\ q \in Nat /\ q + 1 \in DOMAIN line
                                /\ rest[q] = line[q + 1]
      /\ \A q \in DOMAIN line : q # 1 => q - 1 \in DOMAIN rest /\ (q - 1) + 1 = q
  BY RestOfLine
<1> DEFINE g == [q \in DOMAIN rest |-> f[q + 1]]
<1> HIDE DEF rest
<1>3. g \in [DOMAIN rest -> 0 .. Len(sent)] /\ \A q \in DOMAIN rest : g[q] = f[q + 1]
  BY <1>1, <1>2
<1> HIDE DEF g
<1>4. SentAt(g, sent, rest, c)
  <2>1. \A q \in DOMAIN rest : rest[q].name = "chat" =>
          /\ g[q] \in c + 1 .. Len(sent) /\ sent[g[q]].listened
          /\ sent[g[q]].id = rest[q].payload.id
          /\ sent[g[q]].generation = rest[q].payload.generation
    BY <1>1, <1>2, <1>3 DEF SentAt
  <2>2. ASSUME NEW p \in DOMAIN rest, NEW q \in DOMAIN rest,
               p < q, rest[p].name = "chat", rest[q].name = "chat"
        PROVE  g[p] < g[q]
    <3>1. p + 1 < q + 1 /\ p + 1 \in DOMAIN line /\ q + 1 \in DOMAIN line
      BY <1>2, <2>2
    <3>2. line[p + 1].name = "chat" /\ line[q + 1].name = "chat"
      BY <1>2, <2>2
    <3>3. f[p + 1] < f[q + 1]
      BY <1>1, <3>1, <3>2 DEF SentAt
    <3> QED
      BY <1>3, <3>3
  <2>3. ASSUME NEW i \in c + 1 .. Len(sent), sent[i].listened
        PROVE  \E q \in DOMAIN rest : rest[q].name = "chat" /\ g[q] = i
    <3>1. PICK q \in DOMAIN line : line[q].name = "chat" /\ f[q] = i
      BY <1>1, <2>3 DEF SentAt
    <3>2. q # 1
      BY <3>1
    <3>3. q - 1 \in DOMAIN rest /\ (q - 1) + 1 = q
      BY <1>2, <3>2
    <3>4. rest[q - 1] = line[q] /\ g[q - 1] = f[q]
      BY <1>2, <1>3, <3>3
    <3> QED
      BY <3>1, <3>3, <3>4
  <2> QED
    BY <2>1, <2>2, <2>3 DEF SentAt
<1> QED
  BY <1>3, <1>4 DEF Unread, rest

\* What is emitted joins the line when the window listens.
LEMMA DispatchUnread ==
  ASSUME NEW sent \in Seq(Emissions), NEW e \in Emissions, NEW c \in 0 .. Len(sent),
         NEW line \in Seq(Events), NEW more \in Seq(Events), Unread(sent, line, c),
         \A q \in DOMAIN line : q \in DOMAIN more /\ more[q] = line[q],
         ~e.listened => more = line,
         e.listened => /\ DOMAIN more = DOMAIN line \cup {Len(line) + 1}
                       /\ more[Len(line) + 1].name = "chat"
                       /\ more[Len(line) + 1].payload.id = e.id
                       /\ more[Len(line) + 1].payload.generation = e.generation
  PROVE  Unread(Append(sent, e), more, c)
<1> DEFINE said == Append(sent, e)
           n == Len(sent)
           last == Len(line) + 1
<1>1. /\ Len(said) = n + 1 /\ said[n + 1] = e
      /\ \A i \in 1 .. n : said[i] = sent[i]
      /\ n \in Nat /\ c \in Nat /\ c <= n
  <2>1. /\ Len(said) = n + 1 /\ said[n + 1] = e
        /\ \A i \in 1 .. n : said[i] = sent[i]
    BY AppendFacts
  <2>2. n \in Nat /\ c \in Nat /\ c <= n
    BY SentFacts
  <2> QED
    BY <2>1, <2>2
<1> HIDE DEF said
<1>2. PICK f \in [DOMAIN line -> 0 .. n] : SentAt(f, sent, line, c)
  BY DEF Unread
<1>3. /\ \A q \in DOMAIN line : q \in Nat /\ q < last
      /\ last \in Nat
  <2>1. DOMAIN line = 1 .. Len(line) /\ Len(line) \in Nat
    OBVIOUS
  <2>2. PICK l : l = Len(line)
    OBVIOUS
  <2>3. \A q \in 1 .. l : q \in Nat /\ q < l + 1
    BY <2>1, <2>2
  <2> QED
    BY <2>1, <2>2, <2>3
<1>4. /\ \A q \in DOMAIN line : line[q].name = "chat" =>
           /\ f[q] \in c + 1 .. n /\ sent[f[q]].listened
           /\ sent[f[q]].id = line[q].payload.id
           /\ sent[f[q]].generation = line[q].payload.generation
      /\ \A p, q \in DOMAIN line :
           p < q /\ line[p].name = "chat" /\ line[q].name = "chat" => f[p] < f[q]
      /\ \A i \in c + 1 .. n : sent[i].listened =>
           \E q \in DOMAIN line : line[q].name = "chat" /\ f[q] = i
  BY <1>2 DEF SentAt
<1> HIDE DEF n, last
<1>5. /\ \A i \in c + 1 .. n : i \in c + 1 .. n + 1 /\ said[i] = sent[i] /\ i < n + 1
      /\ \A i \in c + 1 .. n + 1 : i \in c + 1 .. n \/ i = n + 1
      /\ n + 1 \in c + 1 .. n + 1 /\ n + 1 \in 0 .. n + 1
      /\ \A i \in 0 .. n : i \in 0 .. n + 1
  BY <1>1
<1>6. CASE ~e.listened
  <2>1. more = line /\ f \in [DOMAIN line -> 0 .. Len(said)]
    BY <1>1, <1>2, <1>5, <1>6
  <2>2. SentAt(f, said, line, c)
    <3>1. \A q \in DOMAIN line : line[q].name = "chat" =>
            /\ f[q] \in c + 1 .. Len(said) /\ said[f[q]].listened
            /\ said[f[q]].id = line[q].payload.id
            /\ said[f[q]].generation = line[q].payload.generation
      BY <1>1, <1>4, <1>5
    <3>2. \A i \in c + 1 .. Len(said) : said[i].listened =>
            \E q \in DOMAIN line : line[q].name = "chat" /\ f[q] = i
      BY <1>1, <1>4, <1>5, <1>6
    <3> QED
      BY <1>4, <3>1, <3>2 DEF SentAt
  <2> QED
    BY <2>1, <2>2 DEF Unread, said
<1>7. CASE e.listened
  <2> DEFINE g == [q \in DOMAIN more |-> IF q \in DOMAIN line THEN f[q] ELSE n + 1]
  <2>1. /\ DOMAIN more = DOMAIN line \cup {last}
        /\ more[last].name = "chat" /\ more[last].payload.id = e.id
        /\ more[last].payload.generation = e.generation
    BY <1>7 DEF last
  <2>2. last \notin DOMAIN line
    BY <1>3
  <2>3. /\ g \in [DOMAIN more -> 0 .. Len(said)]
        /\ \A q \in DOMAIN line : g[q] = f[q]
        /\ g[last] = n + 1
    BY <1>1, <1>2, <1>5, <2>1, <2>2
  <2> HIDE DEF g
  <2>4. SentAt(g, said, more, c)
    <3>1. \A q \in DOMAIN more : more[q].name = "chat" =>
            /\ g[q] \in c + 1 .. Len(said) /\ said[g[q]].listened
            /\ said[g[q]].id = more[q].payload.id
            /\ said[g[q]].generation = more[q].payload.generation
      BY <1>1, <1>4, <1>5, <1>7, <2>1, <2>3
    <3>2. ASSUME NEW p \in DOMAIN more, NEW q \in DOMAIN more,
                 p < q, more[p].name = "chat", more[q].name = "chat"
          PROVE  g[p] < g[q]
      <4>1. p \in DOMAIN line
        BY <1>3, <2>1, <3>2
      <4>2. CASE q \in DOMAIN line
        BY <1>4, <2>3, <3>2, <4>1, <4>2
      <4>3. CASE q = last
        BY <1>4, <1>5, <2>3, <3>2, <4>1, <4>3
      <4> QED
        BY <2>1, <4>2, <4>3
    <3>3. \A i \in c + 1 .. Len(said) : said[i].listened =>
            \E q \in DOMAIN more : more[q].name = "chat" /\ g[q] = i
      <4> SUFFICES ASSUME NEW i \in c + 1 .. n + 1, said[i].listened
                   PROVE  \E q \in DOMAIN more : more[q].name = "chat" /\ g[q] = i
        BY <1>1
      <4>1. CASE i = n + 1
        BY <2>1, <2>3, <4>1
      <4>2. CASE i \in c + 1 .. n
        <5>1. PICK q \in DOMAIN line : line[q].name = "chat" /\ f[q] = i
          BY <1>4, <1>5, <4>2
        <5>2. q \in DOMAIN more /\ more[q].name = "chat" /\ g[q] = i
          BY <2>3, <5>1
        <5> QED
          BY <5>2
      <4> QED
        BY <1>5, <4>1, <4>2
    <3> QED
      BY <3>1, <3>2, <3>3 DEF SentAt
  <2> QED
    BY <2>3, <2>4 DEF Unread, said
<1> QED
  BY <1>6, <1>7

-----------------------------------------------------------------------------
(***************************************************************************)
(* The snapshot is taken over, and no message that lives is turned away.   *)
(***************************************************************************)
\* Of what waited in the buffer the connection that lives is shown, in order.
LEMMA RestoredAccount ==
  ASSUME StatusInv, AnnouncedInv, PathTypes, OneConnectionEach(emitted), ApplySnapshot,
         NEW c \in 0 .. Len(emitted), Accounted(emitted, c, retained, view)
  PROVE  Accounted(emitted, c, retained, view')
<1> DEFINE v == [Apply(view.answer, view) EXCEPT !.phase = "restored", !.answer = NoStatus]
           places == Matching(v)
           picked == InOrder(view.buffer, places)
<1>1. /\ v.known = Apply(view.answer, view).known /\ v.buffer = view.buffer
      /\ view'.phase = "restored" /\ view'.buffer = <<>> /\ view'.recent = view.recent
      /\ view'.pushedOut = view.pushedOut
      /\ view'.shown = view.shown \o picked
  BY RestoredView
<1> HIDE DEF v
<1>2. /\ view.phase = "answered" /\ view \in Views /\ view.buffer \in Seq(Messages)
      /\ Origins(emitted, c, view) /\ NothingDropped(emitted, c, retained, view)
      /\ InLine(emitted, retained, view.buffer) /\ Recalls(emitted, c, retained, view)
      /\ Places(retained, view)
  BY DEF ApplySnapshot, StatusInv, ViewTypes, Views, Accounted
<1>3. IsPending(view) /\ view.shown = <<>> /\ ~IsPending(view')
  BY <1>1, <1>2 DEF IsPending, Places
<1>4. places = {i \in DOMAIN view.buffer : Matches(view.buffer[i], v.known)}
  BY <1>1 DEF Matching
<1> HIDE DEF places
<1>5. /\ picked \in Seq(Messages)
      /\ \A n \in DOMAIN picked : \E i \in places : picked[n] = view.buffer[i]
      /\ \A i \in places : \E n \in DOMAIN picked : picked[n] = view.buffer[i]
      /\ \A m, n \in DOMAIN picked :
           m < n => \E i, j \in places : /\ i < j
                                         /\ picked[m] = view.buffer[i]
                                         /\ picked[n] = view.buffer[j]
  <2>1. places \in SUBSET (DOMAIN view.buffer)
    BY <1>4
  <2> QED
    BY <1>2, <2>1, InOrderFacts
<1> HIDE DEF picked
<1>6. view'.shown = picked
  BY <1>1, <1>3, <1>5
<1>7. \A id : Taken(view', id) <=> Taken(view, id)
  BY <1>1 DEF Taken
\* A message of a connection that lives is not dropped.
<1>8. ASSUME NEW i \in DOMAIN view.buffer, Live(retained, view.buffer[i].generation)
      PROVE  i \in places
  <2> DEFINE g == view.buffer[i].generation
             k == v.known
  <2>1. view.buffer[i] \in Messages
    BY <1>2
  <2>2. g \in Generations
    BY <2>1 DEF Messages
  <2>3. Settles(view.answer, g) \/ Settles(view.known, g)
    BY <1>2 DEF AnnouncedInv, InView
  <2>4. Out(view.answer) /\ Out(view.known) /\ Out(retained)
    BY DEF Out
  <2> HIDE DEF g
  <2>5. Settles(k, g)
    BY <1>1, <2>2, <2>3, <2>4, TakenSettles
  <2>6. Out(k)
    BY <1>1, <2>4, TakesOver
  <2> HIDE DEF k
  <2>7. /\ k \in Statuses /\ retained \in Statuses /\ Ordered(k, retained)
        /\ k.revision <= retained.revision
    BY <2>4, <2>6, OutType DEF StatusInv, HistoryOrdered
  <2>8. Live(retained, g)
    BY <1>8 DEF g
  <2>9. k.generation = g /\ k.active = g
    BY <2>2, <2>5, <2>7, <2>8, LiveMatches
  <2>10. g # 0
    BY <2>2 DEF Generations
  <2> QED
    BY <1>4, <2>9, <2>10 DEF Matches, g, k
<1>9. Origins(emitted, c, view')
  <2>1. AllCame(emitted, c, picked) /\ AllCame(emitted, c, <<>>)
    BY <1>2, <1>4, <1>5 DEF Origins, AllCame
  <2> QED
    BY <1>1, <1>2, <1>6, <2>1 DEF Origins
<1>10. NothingDropped(emitted, c, retained, view')
  <2> SUFFICES ASSUME NEW i \in 1 .. c, emitted[i].listened,
                      Live(retained, emitted[i].generation)
               PROVE  Kept(view', emitted[i].id)
    BY DEF NothingDropped
  <2>1. Kept(view, emitted[i].id)
    BY <1>2 DEF NothingDropped
  <2>2. CASE emitted[i].id \in view.pushedOut
    BY <1>1, <2>2 DEF Kept
  <2>3. CASE \E k \in DOMAIN view.buffer : view.buffer[k].id = emitted[i].id
    <3>1. PICK k \in DOMAIN view.buffer : view.buffer[k].id = emitted[i].id
      BY <2>3
    <3>2. PICK j \in 1 .. c : /\ emitted[j].id = view.buffer[k].id
                              /\ emitted[j].generation = view.buffer[k].generation
      BY <1>2 DEF Origins, AllCame, CameFrom
    <3>3. i \in DOMAIN emitted /\ j \in DOMAIN emitted
      BY SentFacts DEF PathTypes
    <3>4. view.buffer[k].generation = emitted[i].generation
      BY <3>1, <3>2, <3>3 DEF OneConnectionEach
    <3>5. k \in places
      BY <1>8, <3>4
    <3> QED
      BY <1>5, <1>6, <3>1, <3>5 DEF Kept
  <2>4. \A k : k \notin DOMAIN view.shown
    BY <1>3
  <2> QED
    BY <2>1, <2>2, <2>3, <2>4 DEF Kept
<1>11. InLine(emitted, retained, picked) /\ InLine(emitted, retained, <<>>)
  <2> SUFFICES ASSUME NEW m \in DOMAIN picked, NEW n \in DOMAIN picked, m < n,
                      Live(retained, picked[n].generation)
               PROVE  Before(emitted, picked[m].id, picked[n].id)
    BY DEF InLine
  <2>1. PICK i, j \in places : i < j /\ picked[m] = view.buffer[i] /\ picked[n] = view.buffer[j]
    BY <1>5
  <2> QED
    BY <1>2, <1>4, <2>1 DEF InLine
<1>12. Recalls(emitted, c, retained, view')
  BY <1>1, <1>2, <1>7 DEF Recalls
<1>13. Places(retained, view')
  <2>1. StaysIn(retained, picked, view.pushedOut) /\ StaysIn(retained, <<>>, view.pushedOut)
    BY <1>2, <1>4, <1>5 DEF Places, StaysIn
  <2> QED
    BY <1>1, <1>2, <1>3, <1>6, <2>1 DEF Places
<1> QED
  BY <1>1, <1>6, <1>9, <1>10, <1>11, <1>12, <1>13 DEF Accounted

\* A message of the connection that lives is not turned away.
LEMMA LivingIsTaken ==
  ASSUME StatusInv, AnnouncedInv, ChatMessageArrives, view.phase # "unrestored",
         Live(retained, events[1].payload.generation),
         ~IsRecent(view, events[1].payload.id)
  PROVE  \/ IsPending(view) /\ view' = Buffered(view, events[1].payload)
         \/ ~IsPending(view) /\ view' = Shown(view, events[1].payload)
<1> DEFINE m == events[1].payload
           g == events[1].payload.generation
           k == view.known
<1>1. events # <<>> /\ Head(events) = events[1] /\ 1 \in DOMAIN events
  BY TailEvents DEF ChatMessageArrives, StatusInv
<1>2. m \in Messages /\ IsChat(1)
  <2>1. IsChat(1)
    BY <1>1 DEF ChatMessageArrives, IsChat
  <2> QED
    BY <1>1, <2>1, EventFacts DEF StatusInv
<1>3. g \in Generations /\ g # 0 /\ g \in Nat
  BY <1>2 DEF Messages, Generations
<1>4. Announced(g, 1)
  BY <1>1, <1>2 DEF AnnouncedInv
<1>5. \A j \in DOMAIN events : ~(j < 1)
  BY EventFacts DEF StatusInv
<1>6. Settles(retained, g) /\ InView(g)
  BY <1>4, <1>5 DEF Announced
<1>7. /\ k \in Statuses /\ retained \in Statuses /\ Ordered(k, retained)
      /\ k.revision <= retained.revision
  <2>1. Out(k) /\ Out(retained)
    BY DEF Out
  <2> QED
    BY <2>1, OutType DEF StatusInv, HistoryOrdered
<1>8. Matches(m, k) \/ Unresolved(m, k)
  <2>1. k.generation <= retained.generation /\ retained.generation <= g
    BY <1>3, <1>7 DEF Live, Ordered, Statuses
  <2>2. k.generation \in Nat /\ k.active \in {0, k.generation}
    BY <1>7 DEF Statuses
  <2>3. retained.generation \in Nat
    BY <1>7 DEF Statuses
  <2>4. k.generation <= g
    BY <1>3, <2>1, <2>2, <2>3
  <2> QED
    BY <1>3, <2>2, <2>4 DEF Matches, Unresolved
<1>9. ~IsPending(view) => Matches(m, k)
  <2> SUFFICES ASSUME ~IsPending(view) PROVE Matches(m, k)
    OBVIOUS
  <2>1. view.phase = "restored"
    BY DEF IsPending, StatusInv, ViewTypes, Views
  <2>2. Settles(k, g)
    BY <1>6, <2>1 DEF InView
  <2>3. k.generation = g /\ k.active = g
    BY <1>3, <1>7, <2>2, LiveMatches
  <2> QED
    BY <1>3, <2>3 DEF Matches
<1>10. RestorationPending <=> IsPending(view)
  BY DEF RestorationPending, IsPending
<1> HIDE DEF m, k
<1>11. view' = CASE IsRecent(view, m.id) -> view
               [] /\ ~IsRecent(view, m.id)
                  /\ RestorationPending
                  /\ Matches(m, k) \/ Unresolved(m, k)
                    -> Buffered(view, m)
               [] /\ ~IsRecent(view, m.id)
                  /\ ~RestorationPending
                  /\ Matches(m, k)
                    -> Shown(view, m)
               [] OTHER -> view
  BY <1>1 DEF ChatMessageArrives, m, k
<1>12. ~IsRecent(view, m.id)
  BY DEF m
<1>13. CASE IsPending(view)
  <2>1. view' = Buffered(view, m)
    BY <1>8, <1>10, <1>11, <1>12, <1>13
  <2> QED
    BY <1>13, <2>1 DEF m
<1>14. CASE ~IsPending(view)
  <2>1. view' = Shown(view, m)
    BY <1>9, <1>10, <1>11, <1>12, <1>14
  <2> QED
    BY <1>14, <2>1 DEF m
<1> QED
  BY <1>13, <1>14

-----------------------------------------------------------------------------
(***************************************************************************)
(* Every step.                                                             *)
(***************************************************************************)
\* A message comes to the window.
LEMMA MessageLine ==
  ASSUME StatusInv, AnnouncedInv, PathTypes, OneConnectionEach(emitted),
         RepeatsAreKnown(emitted), ChatMessageArrives, view.phase # "unrestored",
         InOneLine(emitted, events, retained, view)
  PROVE  InOneLine(emitted, Tail(events), retained, view')
<1> DEFINE m == events[1].payload
<1>1. /\ events # <<>> /\ events \in Seq(Events) /\ emitted \in Seq(Emissions)
      /\ view \in Views /\ Len(view.buffer) <= BufferLimit
      /\ Head(events) = events[1] /\ 1 \in DOMAIN events
  BY TailEvents DEF ChatMessageArrives, StatusInv, BoundaryTypes, ViewTypes, PathTypes
<1>2. events[1].name = "chat" /\ m \in Messages
  BY <1>1, EventFacts DEF ChatMessageArrives, IsChat, StatusInv
<1>3. IsRecent(view, m.id) <=> Taken(view, m.id)
  BY <1>1 DEF IsRecent, Taken, ToSet, Views
<1>4. \/ view' = view
      \/ ~IsRecent(view, m.id) /\ IsPending(view) /\ view' = Buffered(view, m)
      \/ ~IsRecent(view, m.id) /\ ~IsPending(view) /\ view' = Shown(view, m)
  <2> DEFINE belongs == Matches(m, view.known)
             open == Unresolved(m, view.known)
             recent == IsRecent(view, m.id)
             buffered == Buffered(view, m)
             shown == Shown(view, m)
             pending == IsPending(view)
  <2>1. RestorationPending <=> pending
    BY DEF RestorationPending, IsPending
  <2>2. view' = CASE recent -> view
                [] ~recent /\ RestorationPending /\ (belongs \/ open) -> buffered
                [] ~recent /\ ~RestorationPending /\ belongs -> shown
                [] OTHER -> view
    BY <1>1 DEF ChatMessageArrives
  <2> HIDE DEF belongs, open, recent, buffered, shown, pending
  <2>3. view' = view \/ (~recent /\ pending /\ view' = buffered) \/ (~recent /\ ~pending /\ view' = shown)
    BY <2>1, <2>2
  <2> QED
    BY <2>3 DEF belongs, open, recent, buffered, shown, pending
<1>5. PICK c \in 0 .. Len(emitted) : /\ Unread(emitted, events, c)
                                    /\ Accounted(emitted, c, retained, view)
  BY DEF InOneLine
<1>6. PICK n : /\ NextOne(emitted, c, n) /\ Unread(emitted, Tail(events), n)
               /\ emitted[n].id = m.id /\ emitted[n].generation = m.generation
  BY <1>1, <1>2, <1>5, ArrivalUnread
<1>7. n \in 0 .. Len(emitted)
  BY <1>1, <1>6, NextFacts
<1> HIDE DEF m
<1>8. CASE ~IsRecent(view, m.id) /\ IsPending(view) /\ view' = Buffered(view, m)
  <2>1. Accounted(emitted, n, retained, Buffered(view, m))
    BY <1>1, <1>2, <1>3, <1>5, <1>6, <1>8, BufferedAccount
  <2> QED
    BY <1>6, <1>7, <1>8, <2>1 DEF InOneLine
<1>9. CASE ~IsRecent(view, m.id) /\ ~IsPending(view) /\ view' = Shown(view, m)
  <2>1. Accounted(emitted, n, retained, Shown(view, m))
    BY <1>1, <1>2, <1>3, <1>5, <1>6, <1>9, ShownAccount
  <2> QED
    BY <1>6, <1>7, <1>9, <2>1 DEF InOneLine
<1>10. CASE view' = view /\ (IsRecent(view, m.id) \/ ~Live(retained, m.generation))
  <2>1. Alike(view, view)
    BY DEF Alike
  <2>2. Taken(view, emitted[n].id) \/ ~Live(retained, emitted[n].generation)
    BY <1>3, <1>6, <1>10
  <2>3. Accounted(emitted, n, retained, view)
    BY <1>1, <1>5, <1>6, <2>1, <2>2, PassedBy
  <2> QED
    BY <1>6, <1>7, <1>10, <2>3 DEF InOneLine
<1>11. CASE view' = view /\ ~IsRecent(view, m.id) /\ Live(retained, m.generation)
  <2>1. \/ IsPending(view) /\ view' = Buffered(view, m)
        \/ ~IsPending(view) /\ view' = Shown(view, m)
    BY <1>11, LivingIsTaken DEF m
  <2> QED
    BY <1>8, <1>9, <1>11, <2>1
<1> QED
  BY <1>4, <1>8, <1>9, <1>10, <1>11 DEF m

\* Nothing of the line changes but the statuses in it.
LEMMA LineStays ==
  ASSUME NEW sent \in Seq(Emissions), NEW line, NEW more, NEW s, NEW t, NEW v, NEW w,
         InOneLine(sent, line, s, v), Alike(v, w),
         \A i \in DOMAIN sent : Live(t, sent[i].generation) => Live(s, sent[i].generation),
         \A q \in DOMAIN line : q \in DOMAIN more /\ more[q] = line[q],
         \A q \in DOMAIN more : q \in DOMAIN line \/ more[q].name # "chat"
  PROVE  InOneLine(sent, more, t, w)
<1>1. PICK c \in 0 .. Len(sent) : Unread(sent, line, c) /\ Accounted(sent, c, s, v)
  BY DEF InOneLine
<1>2. Unread(sent, more, c)
  BY <1>1, StaysUnread
<1>3. \A i \in 1 .. c : i \in DOMAIN sent
  BY <1>1, SentFacts
<1>4. Accounted(sent, c, t, w)
  BY <1>1, <1>3, AccountStays
<1> QED
  BY <1>2, <1>4 DEF InOneLine

\* The status recorded comes after the one retained.
LEMMA RecordOrdered ==
  ASSUME StatusInv, NEW g \in Generations, RecordTwitchStatus(g)
  PROVE  /\ saying[g].step = "record" /\ retained' = Recorded(saying[g].event)
         /\ retained \in Statuses /\ retained' \in Statuses
         /\ Ordered(retained, retained') /\ retained.revision <= retained'.revision
<1> DEFINE said == saying[g].event
<1>1. saying[g].step = "record" /\ retained' = Recorded(said)
  BY DEF RecordTwitchStatus
<1>2. retained \in Statuses /\ retained.revision \in Nat /\ Out(retained)
  BY DEF Out, Statuses, StatusInv, BoundaryTypes
<1>3. CASE said.generation < retained.generation
  <2>1. retained' = retained
    BY <1>1, <1>3 DEF Recorded
  <2> QED
    BY <1>1, <1>2, <2>1 DEF Ordered
<1>4. CASE ~(said.generation < retained.generation)
  <2>1. /\ retained'.revision = retained.revision + 1 /\ Ordered(retained, retained')
        /\ retained' \in Statuses
    BY <1>1, <1>2, <1>4, RecordedIsLast
  <2> QED
    BY <1>1, <1>2, <2>1
<1> QED
  BY <1>3, <1>4

\* A message is emitted: the window gets it when it listens.
LEMMA DispatchKeepsLine ==
  ASSUME StatusInv, PathTypes, NEW g \in Generations, Dispatch(g), UNCHANGED view,
         InOneLine(emitted, events, retained, view)
  PROVE  InOneLine(emitted', events', retained', view')
<1> DEFINE m == [generation |-> g, id |-> hand[g]]
           e == [generation |-> g, id |-> hand[g], at |-> now, listened |-> "chat" \in listening]
<1>1. /\ UNCHANGED <<retained, view>> /\ hand[g] # NoHand
      /\ \/ UNCHANGED <<events, emitted>>
         \/ events' = Heard("chat", m) /\ emitted' = Append(emitted, e)
  BY DEF Dispatch
<1>2. m \in Messages /\ m.id = hand[g] /\ m.generation = g
  BY <1>1 DEF PathTypes, Ids, NoHand, Messages
<1>3. /\ e \in Emissions /\ e.id = hand[g] /\ e.generation = g
      /\ e.listened <=> "chat" \in listening
  <2>1. e \in Emissions /\ e.id = hand[g] /\ e.generation = g
    BY <1>1 DEF PathTypes, Ids, NoHand, Emissions
  <2>2. e.listened = ("chat" \in listening)
    OBVIOUS
  <2> HIDE DEF e
  <2> QED
    BY <2>1, <2>2
<1> HIDE DEF m, e
<1>4. CASE UNCHANGED <<events, emitted>>
  BY <1>1, <1>4
<1>5. CASE events' = Heard("chat", m) /\ emitted' = Append(emitted, e)
  <2>1. [name |-> "chat", payload |-> m] \in Events
    BY <1>2 DEF Events
  <2>2. BoundaryTypes
    BY DEF StatusInv
  <2>3. /\ events' \in Seq(Events) /\ DOMAIN events \subseteq DOMAIN events'
        /\ \A i \in DOMAIN events : events'[i] = events[i]
        /\ "chat" \notin listening => events' = events
        /\ "chat" \in listening => /\ DOMAIN events' = DOMAIN events \cup {Len(events) + 1}
                                   /\ Len(events') = Len(events) + 1
                                   /\ events'[Len(events) + 1].name = "chat"
                                   /\ events'[Len(events) + 1].payload = m
    BY <1>5, <2>1, <2>2, HeardFacts
  <2>4. events \in Seq(Events) /\ emitted \in Seq(Emissions)
    BY DEF StatusInv, BoundaryTypes, PathTypes
  <2>6. PICK more : more = events'
    OBVIOUS
  <2>7. InOneLine(Append(emitted, e), more, retained, view)
    <3>1. more \in Seq(Events) /\ \A q \in DOMAIN events : q \in DOMAIN more /\ more[q] = events[q]
      BY <2>3, <2>6
    <3>2. ~e.listened => more = events
      BY <1>3, <2>3, <2>6
    <3>3. e.listened => /\ DOMAIN more = DOMAIN events \cup {Len(events) + 1}
                        /\ Len(more) = Len(events) + 1
                        /\ more[Len(events) + 1].name = "chat"
                        /\ more[Len(events) + 1].payload.id = e.id
                        /\ more[Len(events) + 1].payload.generation = e.generation
      BY <1>2, <1>3, <2>3, <2>6
    <3>4. PICK c \in 0 .. Len(emitted) : /\ Unread(emitted, events, c)
                                         /\ Accounted(emitted, c, retained, view)
      BY DEF InOneLine
    <3>5. Unread(Append(emitted, e), more, c)
      BY <1>3, <2>4, <3>1, <3>2, <3>3, <3>4, DispatchUnread
    <3>6. Accounted(Append(emitted, e), c, retained, view)
      BY <1>3, <2>4, <3>4, AccountGrows
    <3>7. c \in 0 .. Len(Append(emitted, e))
      BY <1>3, <2>4, <3>4, SentGrows, SentFacts
    <3> QED
      BY <3>5, <3>6, <3>7 DEF InOneLine
  <2> QED
    BY <1>1, <1>5, <2>6, <2>7
<1> QED
  BY <1>1, <1>4, <1>5

\* A status is recorded: what is dead now was not to live.
LEMMA RecordKeepsLine ==
  ASSUME StatusInv, PathTypes, NEW g \in Generations, RecordTwitchStatus(g),
         UNCHANGED <<eventSubVars, view>>, InOneLine(emitted, events, retained, view)
  PROVE  InOneLine(emitted', events', retained', view')
<1>1. UNCHANGED <<events, emitted, view>>
  BY DEF RecordTwitchStatus, eventSubVars
<1>2. /\ retained \in Statuses /\ retained' \in Statuses
      /\ Ordered(retained, retained') /\ retained.revision <= retained'.revision
  BY RecordOrdered
<1>3. \A i \in DOMAIN emitted : emitted[i].generation \in Generations
  <2>1. \A i \in DOMAIN emitted : emitted[i] \in Emissions
    BY DEF PathTypes
  <2> QED
    BY <2>1 DEF Emissions
<1>4. PICK t : t = retained'
  OBVIOUS
<1>5. \A i \in DOMAIN emitted : Live(t, emitted[i].generation) => Live(retained, emitted[i].generation)
  BY <1>2, <1>3, <1>4, LiveLater
<1>6. Alike(view, view)
  BY DEF Alike
<1>7. events \in Seq(Events) /\ emitted \in Seq(Emissions)
  BY DEF StatusInv, BoundaryTypes, PathTypes
<1>8. InOneLine(emitted, events, t, view)
  BY <1>5, <1>6, <1>7, LineStays
<1> QED
  BY <1>1, <1>4, <1>8

\* A status is emitted: no message moves.
LEMMA EmitKeepsLine ==
  ASSUME StatusInv, PathTypes, NEW g \in Generations, EmitTwitchStatus(g),
         UNCHANGED <<eventSubVars, view>>, InOneLine(emitted, events, retained, view)
  PROVE  InOneLine(emitted', events', retained', view')
<1> DEFINE said == saying[g].event
<1>1. UNCHANGED <<retained, emitted, view>> /\ events' = Heard("status", said)
  BY DEF EmitTwitchStatus, eventSubVars
<1>2. /\ BoundaryTypes /\ said \in Statuses /\ events \in Seq(Events)
      /\ emitted \in Seq(Emissions)
  BY DEF StatusInv, BoundaryTypes, PathTypes
<1> HIDE DEF said
<1>3. [name |-> "status", payload |-> said] \in Events
  BY <1>2 DEF Events
<1>4. /\ events' \in Seq(Events) /\ DOMAIN events \subseteq DOMAIN events'
      /\ \A i \in DOMAIN events : events'[i] = events[i]
      /\ \A q \in DOMAIN events' : q \in DOMAIN events \/ events'[q].name = "status"
  BY <1>1, <1>2, <1>3, HeardFacts
<1>5. PICK more : more = events'
  OBVIOUS
<1>6. /\ \A q \in DOMAIN events : q \in DOMAIN more /\ more[q] = events[q]
      /\ \A q \in DOMAIN more : q \in DOMAIN events \/ more[q].name # "chat"
  BY <1>4, <1>5
<1>7. Alike(view, view)
  BY DEF Alike
<1>8. InOneLine(emitted, more, retained, view)
  BY <1>2, <1>6, <1>7, LineStays
<1> QED
  BY <1>1, <1>5, <1>8

\* A status comes: nothing waits in the buffer of a restored window.
LEMMA ArrivalKeepsLine ==
  ASSUME StatusInv, PathTypes, StatusArrives,
         UNCHANGED eventSubVars, InOneLine(emitted, events, retained, view)
  PROVE  /\ view'.phase = view.phase
         /\ InOneLine(emitted', events', retained', view')
<1> DEFINE e == events[1].payload
<1>1. /\ UNCHANGED <<retained, emitted>> /\ events' = Tail(events) /\ events # <<>>
      /\ Head(events).name = "status"
  BY DEF StatusArrives, eventSubVars
<1>2. /\ Out(e)
      /\ \/ view' = Apply(e, view)
         \/ ~RestorationPending /\ view' = Flushed(Apply(e, view))
  BY ArrivalStatus
<1>3. view \in Views /\ events \in Seq(Events) /\ emitted \in Seq(Emissions)
  BY DEF StatusInv, ViewTypes, BoundaryTypes, PathTypes
<1>4. /\ Apply(e, view) \in Views
      /\ Apply(e, view) = [view EXCEPT !.known = e] \/ Apply(e, view) = view
  BY <1>2, TakesOver
<1> HIDE DEF e
<1> DEFINE v == Apply(e, view)
<1> HIDE DEF v
<1>5. /\ v.buffer = view.buffer /\ v.recent = view.recent /\ v.shown = view.shown
      /\ v.pushedOut = view.pushedOut /\ v.phase = view.phase /\ v \in Views
  BY <1>3, <1>4 DEF v, Views
<1>6. view' = v
  <2>1. CASE ~RestorationPending /\ view' = Flushed(v)
    <3>1. view.buffer = <<>>
      BY <2>1 DEF InOneLine, Accounted, Places, IsPending, RestorationPending
    <3> QED
      BY <1>5, <2>1, <3>1, FlushedFacts
  <2> QED
    BY <1>2, <2>1 DEF v
<1>7. Alike(view, v)
  BY <1>5 DEF Alike, IsPending
<1>8. events[1].name # "chat"
  BY <1>1, <1>3, RestOfLine
<1>9. PICK c \in 0 .. Len(emitted) : /\ Unread(emitted, events, c)
                                    /\ Accounted(emitted, c, retained, view)
  BY DEF InOneLine
<1>10. Unread(emitted, Tail(events), c)
  BY <1>1, <1>3, <1>8, <1>9, RestUnread
<1>11. Accounted(emitted, c, retained, v)
  BY <1>7, <1>9, AccountStays
<1>12. InOneLine(emitted, Tail(events), retained, v)
  BY <1>10, <1>11 DEF InOneLine
<1> QED
  BY <1>1, <1>5, <1>6, <1>12

\* The window does something: it is still in line when the snapshot has not
\* failed, and a failed one is never made good.
LEMMA ViewKeepsLine ==
  ASSUME StatusInv, AnnouncedInv, PathTypes, OneConnectionEach(emitted),
         RepeatsAreKnown(emitted), ViewStep, UNCHANGED eventSubVars, view'.phase # "unrestored",
         view.phase # "unrestored" => InOneLine(emitted, events, retained, view)
  PROVE  InOneLine(emitted', events', retained', view')
<1>1. /\ emitted' = emitted /\ view \in Views /\ events \in Seq(Events)
      /\ emitted \in Seq(Emissions)
  BY DEF eventSubVars, StatusInv, ViewTypes, BoundaryTypes, PathTypes
<1>2. CASE (\E name \in Listeners : Register(name)) \/ AskSnapshot \/ ReadSnapshot
  <2>1. /\ UNCHANGED <<events, retained>> /\ Alike(view, view') /\ view.phase # "unrestored"
    <3>1. CASE \E name \in Listeners : Register(name)
      BY <1>1, <3>1 DEF Register, Alike
    <3>2. CASE AskSnapshot
      BY <1>1, <3>2 DEF AskSnapshot, eventVars, Alike, IsPending, Views
    <3>3. CASE ReadSnapshot
      BY <1>1, <3>3 DEF ReadSnapshot, eventVars, Alike, IsPending, Views
    <3> QED
      BY <1>2, <3>1, <3>2, <3>3
  <2>2. InOneLine(emitted, events, retained, view)
    BY <2>1
  <2>3. PICK w : w = view'
    OBVIOUS
  <2>4. Alike(view, w)
    BY <2>1, <2>3
  <2>5. InOneLine(emitted, events, retained, w)
    BY <1>1, <2>2, <2>4, LineStays
  <2> QED
    BY <1>1, <2>1, <2>3, <2>5
<1>3. CASE SnapshotFails
  BY <1>1, <1>3 DEF SnapshotFails, Views
<1>4. CASE ApplySnapshot
  <2>1. UNCHANGED <<events, retained>> /\ view.phase # "unrestored"
    BY <1>4 DEF ApplySnapshot, eventVars
  <2>2. PICK c \in 0 .. Len(emitted) : /\ Unread(emitted, events, c)
                                      /\ Accounted(emitted, c, retained, view)
    BY <2>1 DEF InOneLine
  <2>3. Accounted(emitted, c, retained, view')
    BY <1>4, <2>2, RestoredAccount
  <2> QED
    BY <1>1, <2>1, <2>2, <2>3 DEF InOneLine
<1>5. CASE StatusArrives
  <2>1. view.phase # "unrestored" => InOneLine(emitted', events', retained', view')
    BY <1>5, ArrivalKeepsLine
  <2>2. view'.phase = view.phase
    <3>1. Apply(events[1].payload, view) \in Views
          /\ Apply(events[1].payload, view).phase = view.phase
      <4>1. Out(events[1].payload)
        BY <1>5, ArrivalStatus
      <4> QED
        BY <1>1, <4>1, TakesOver DEF Views
    <3> DEFINE v == Apply(events[1].payload, view)
    <3> HIDE DEF v
    <3>2. view' = v \/ view' = Flushed(v)
      BY <1>5, ArrivalStatus DEF v
    <3>3. v \in Views /\ v.phase = view.phase
      BY <3>1 DEF v
    <3>4. Flushed(v).phase = v.phase
      <4>1. Flushed(v) = [v EXCEPT !.buffer = <<>>,
                                   !.shown = v.shown \o InOrder(v.buffer, Matching(v))]
        BY <3>3, FlushedFacts
      <4> QED
        BY <3>3, <4>1 DEF Views
    <3> QED
      BY <3>2, <3>3, <3>4
  <2> QED
    BY <2>1, <2>2
<1>6. CASE ChatMessageArrives
  <2>1. view.phase # "unrestored"
    BY <1>6, MessageStatus
  <2>2. events' = Tail(events) /\ retained' = retained
    BY <1>6 DEF ChatMessageArrives
  <2> QED
    BY <1>1, <1>6, <2>1, <2>2, MessageLine
<1> QED
  BY <1>2, <1>3, <1>4, <1>5, <1>6 DEF ViewStep

\* The list of what was sent only grows.
LEMMA KnownBefore ==
  ASSUME PathTypes, WireTypes, [Next]_vars, RepeatsAreKnown(emitted')
  PROVE  RepeatsAreKnown(emitted)
<1>1. CASE emitted' = emitted
  BY <1>1
<1>2. CASE \E g \in Generations : Dispatch(g)
  <2>1. PICK g \in Generations : Dispatch(g)
    BY <1>2
  <2> DEFINE e == [generation |-> g, id |-> hand[g], at |-> now, listened |-> "chat" \in listening]
  <2>2. hand[g] # NoHand /\ (emitted' = emitted \/ emitted' = Append(emitted, e))
    BY <2>1 DEF Dispatch
  <2>3. e \in Emissions /\ emitted \in Seq(Emissions)
    BY <2>2 DEF PathTypes, Ids, NoHand, Emissions
  <2> HIDE DEF e
  <2>4. CASE emitted' = Append(emitted, e)
    <3>1. RepeatsAreKnown(Append(emitted, e))
      BY <2>4
    <3> QED
      BY <2>3, <3>1, SentGrows
  <2> QED
    BY <1>1, <2>2, <2>4
<1>3. CASE \/ TaskSays \/ SaysNothing
           \/ ViewStep /\ UNCHANGED eventSubVars
           \/ Stop /\ UNCHANGED view
           \/ Connect /\ UNCHANGED view
           \/ \E g \in Generations :
                (RecordTwitchStatus(g) \/ EmitTwitchStatus(g)) /\ UNCHANGED <<eventSubVars, view>>
  <2>1. emitted' = emitted
    BY <1>3 DEF TaskSays, SaysNothing, Stop, Connect, Keeps, eventSubVars
  <2> QED
    BY <1>1, <2>1
<1> QED
  BY <1>2, <1>3, BoundaryKinds

\* Every step.
LEMMA LineStep ==
  ASSUME LineInv, AnnouncedInv, StatusInv, NumberInv, DeliveryInv, [Next]_vars
  PROVE  LineInv'
<1> SUFFICES ASSUME RepeatsAreKnown(emitted'), view'.phase # "unrestored"
             PROVE  InOneLine(emitted', events', retained', view')
  BY DEF LineInv
<1>1. PathTypes /\ WireTypes /\ NumberInv'
  BY NumberStep DEF DeliveryInv
<1>2. RepeatsAreKnown(emitted)
  BY <1>1, KnownBefore
<1>3. OneConnectionEach(emitted)
  BY DEF NumberInv, OneConnectionEach
<1>4. view.phase # "unrestored" => InOneLine(emitted, events, retained, view)
  BY <1>2 DEF LineInv
<1>5. CASE \/ TaskSays \/ SaysNothing
           \/ Stop /\ UNCHANGED view
           \/ Connect /\ UNCHANGED view
  <2>1. UNCHANGED <<emitted, events, retained, view>>
    BY <1>5 DEF TaskSays, SaysNothing, Stop, Connect, Keeps, eventVars
  <2> QED
    BY <1>4, <2>1
<1>6. CASE \E g \in Generations : Dispatch(g) /\ UNCHANGED view
  <2>1. InOneLine(emitted, events, retained, view)
    BY <1>4, <1>6
  <2> QED
    BY <1>1, <1>6, <2>1, DispatchKeepsLine
<1>7. CASE \E g \in Generations : RecordTwitchStatus(g) /\ UNCHANGED <<eventSubVars, view>>
  BY <1>1, <1>4, <1>7, RecordKeepsLine
<1>8. CASE \E g \in Generations : EmitTwitchStatus(g) /\ UNCHANGED <<eventSubVars, view>>
  BY <1>1, <1>4, <1>8, EmitKeepsLine
<1>9. CASE ViewStep /\ UNCHANGED eventSubVars
  BY <1>1, <1>2, <1>3, <1>4, <1>9, ViewKeepsLine
<1> QED
  BY <1>1, <1>5, <1>6, <1>7, <1>8, <1>9, BoundaryKinds

\* A window whose snapshot did not fail takes every message of a connection
\* that lives once, in the order sent, as long as what is emitted again has
\* not been forgotten: what came up to a place of the line is in the window,
\* what came after it is on its way (domainOrchestration.ts).
THEOREM LineInvariance == Spec => []LineInv
<1>1. Init => LineInv
  <2> SUFFICES ASSUME Init PROVE InOneLine(emitted, events, retained, view)
    BY DEF LineInv
  <2>1. /\ emitted = <<>> /\ events = <<>>
        /\ view.buffer = <<>> /\ view.recent = <<>> /\ view.shown = <<>>
        /\ view.pushedOut = {} /\ view.phase = "subscribing"
    BY DEF Init, EventsInit, EventSubInit, ViewInit
  <2>2. Unread(emitted, events, 0)
    <3> DEFINE f == [q \in DOMAIN events |-> 0]
    <3>1. Len(emitted) = 0 /\ DOMAIN events = {}
      BY <2>1
    <3>2. f \in [DOMAIN events -> 0 .. Len(emitted)]
      BY <3>1
    <3> HIDE DEF f
    <3>3. SentAt(f, emitted, events, 0)
      BY <3>1 DEF SentAt
    <3> QED
      BY <3>2, <3>3 DEF Unread
  <2>3. Accounted(emitted, 0, retained, view)
    BY <2>1 DEF Accounted, Origins, AllCame, NothingDropped, InLine, Places, StaysIn, Recalls, IsPending
  <2>4. 0 \in 0 .. Len(emitted)
    BY <2>1
  <2> QED
    BY <2>2, <2>3, <2>4 DEF InOneLine
<1>2. LineInv /\ AnnouncedInv /\ StatusInv /\ NumberInv /\ DeliveryInv /\ [Next]_vars => LineInv'
  BY LineStep
<1> QED
  BY <1>1, <1>2, AnnouncedInvariance, StatusInvariance, NumberInvariance, DeliveryInvariance,
     PTL DEF Spec

-----------------------------------------------------------------------------
(***************************************************************************)
(* The window catches up.                                                  *)
(***************************************************************************)
\* What is shown of the active connection was due, in the place where it was
\* sent first.
LEMMA FirstOfAll ==
  ASSUME PathTypes, OneConnectionEach(emitted), NEW c \in 0 .. Len(emitted),
         AllCame(emitted, c, view.shown), StaysIn(retained, view.shown, view.pushedOut),
         Live(retained, retained.active), NEW k \in OnShow
  PROVE  \E i \in Due : emitted[i].id = view.shown[k].id
<1> DEFINE id == view.shown[k].id
           sentAt == {i \in DOMAIN emitted : emitted[i].listened /\ emitted[i].id = id}
<1>1. /\ emitted \in Seq(Emissions) /\ DOMAIN emitted = 1 .. Len(emitted) /\ Len(emitted) \in Nat
      /\ \A i \in DOMAIN emitted : i \in Nat
  BY DEF PathTypes
<1>2. k \in DOMAIN view.shown /\ view.shown[k].generation = retained.active
  BY DEF OnShow
<1>3. PICK p \in DOMAIN emitted : /\ emitted[p].listened /\ emitted[p].id = id
                                  /\ emitted[p].generation = retained.active
  <2>1. PICK p \in 1 .. c : /\ emitted[p].listened /\ emitted[p].id = id
                            /\ emitted[p].generation = retained.active
    BY <1>2 DEF AllCame, CameFrom
  <2>2. p \in DOMAIN emitted
    BY <1>1, SentFacts
  <2> QED
    BY <2>1, <2>2
<1>4. PICK i \in sentAt : \A j \in sentAt : i <= j
  <2>1. sentAt \subseteq Nat /\ p \in sentAt
    BY <1>1, <1>3
  <2> HIDE DEF sentAt
  <2> QED
    BY <2>1, LeastOfNaturals
<1>5. emitted[i].generation = retained.active
  BY <1>3, <1>4 DEF OneConnectionEach
<1>6. id \notin view.pushedOut
  BY <1>2 DEF StaysIn
<1>7. \A j \in 1 .. i - 1 : emitted[j].listened => emitted[j].id # id
  <2>1. \A j \in 1 .. i - 1 : j \in DOMAIN emitted /\ ~(i <= j)
    BY <1>1, <1>4
  <2> QED
    BY <1>4, <2>1
<1> QED
  BY <1>4, <1>5, <1>6, <1>7 DEF Due

\* A restored window with nothing on its way.
LEMMA CaughtUp ==
  ASSUME StatusInv, PathTypes, OneConnectionEach(emitted), events = <<>>,
         InOneLine(emitted, events, retained, view), view.phase = "restored",
         retained.active # 0
  PROVE  /\ \A i \in Due : \E k \in OnShow : view.shown[k].id = emitted[i].id
         /\ \A k \in OnShow : \E i \in Due : emitted[i].id = view.shown[k].id
         /\ \A k, l \in OnShow : k < l =>
              \E i, j \in Due : /\ i < j
                                /\ emitted[i].id = view.shown[k].id
                                /\ emitted[j].id = view.shown[l].id
<1>1. /\ emitted \in Seq(Emissions) /\ DOMAIN emitted = 1 .. Len(emitted) /\ Len(emitted) \in Nat
      /\ \A i \in DOMAIN emitted : i \in Nat
  BY DEF PathTypes
<1>2. PICK c \in 0 .. Len(emitted) : /\ Unread(emitted, events, c)
                                    /\ Accounted(emitted, c, retained, view)
  BY DEF InOneLine
<1>3. /\ NothingDropped(emitted, c, retained, view)
      /\ InLine(emitted, retained, view.shown) /\ StaysIn(retained, view.shown, view.pushedOut)
      /\ AllCame(emitted, c, view.shown) /\ view.buffer = <<>>
  BY <1>2 DEF Accounted, Origins, Places, IsPending
\* Nothing is on its way: all that was sent came.
<1>4. \A i \in DOMAIN emitted : emitted[i].listened => i \in 1 .. c
  <2>1. \A i \in c + 1 .. Len(emitted) : ~emitted[i].listened
    BY <1>2 DEF Unread, SentAt
  <2>2. \A i \in DOMAIN emitted : i \in 1 .. c \/ i \in c + 1 .. Len(emitted)
    BY <1>1
  <2> QED
    BY <2>1, <2>2
<1>5. Live(retained, retained.active)
  <2>1. retained \in Statuses
    BY DEF StatusInv, BoundaryTypes
  <2>2. /\ retained.generation \in Nat /\ retained.active = retained.generation
        /\ retained.status # "disconnected"
    BY <2>1, GenerationAssumption DEF Statuses
  <2> QED
    BY <2>2 DEF Live
<1>6. ASSUME NEW i \in Due
      PROVE  \E k \in OnShow : view.shown[k].id = emitted[i].id
  <2>1. /\ i \in DOMAIN emitted /\ emitted[i].listened /\ emitted[i].id \notin view.pushedOut
        /\ emitted[i].generation = retained.active
    BY DEF Due
  <2>2. Kept(view, emitted[i].id)
    BY <1>3, <1>4, <1>5, <2>1 DEF NothingDropped
  <2>3. PICK k \in DOMAIN view.shown : view.shown[k].id = emitted[i].id
    BY <1>3, <2>1, <2>2 DEF Kept
  <2>4. view.shown[k].generation = retained.active
    <3>1. PICK j \in 1 .. c : /\ emitted[j].id = emitted[i].id
                              /\ emitted[j].generation = view.shown[k].generation
      BY <1>3, <2>3 DEF AllCame, CameFrom
    <3>2. j \in DOMAIN emitted
      BY <1>1, SentFacts
    <3> QED
      BY <2>1, <3>1, <3>2 DEF OneConnectionEach
  <2> QED
    BY <2>3, <2>4 DEF OnShow
<1>7. \A k \in OnShow : \E i \in Due : emitted[i].id = view.shown[k].id
  BY <1>3, <1>5, FirstOfAll
<1>8. ASSUME NEW k \in OnShow, NEW l \in OnShow, k < l
      PROVE  \E i, j \in Due : /\ i < j
                               /\ emitted[i].id = view.shown[k].id
                               /\ emitted[j].id = view.shown[l].id
  <2> DEFINE x == view.shown[k].id
             y == view.shown[l].id
  <2>1. Before(emitted, x, y)
    BY <1>3, <1>5, <1>8 DEF InLine, OnShow
  <2>2. PICK i \in Due : emitted[i].id = x
    BY <1>7
  <2>3. PICK j \in Due : emitted[j].id = y
    BY <1>7
  <2> HIDE DEF x, y
  <2>4. PICK p \in DOMAIN emitted : /\ emitted[p].listened /\ emitted[p].id = x
                                    /\ \A n \in 1 .. p : emitted[n].listened => emitted[n].id # y
    BY <2>1 DEF Before
  <2>5. /\ i \in Nat /\ j \in Nat /\ p \in Nat /\ 1 <= j /\ 1 <= p
        /\ emitted[j].listened /\ \A n \in 1 .. i - 1 : emitted[n].listened => emitted[n].id # x
    BY <1>1, <2>2 DEF Due
  <2>6. ~(p <= i - 1)
    BY <2>4, <2>5
  <2>7. ~(j <= p)
    BY <2>3, <2>4, <2>5
  <2>8. i < j
    BY <2>5, <2>6, <2>7
  <2> QED
    BY <2>2, <2>3, <2>8 DEF x, y
<1> QED
  BY <1>6, <1>7, <1>8

\* A restored window with nothing on its way shows what was said, each
\* message once and in the order in which it was sent, as long as a message
\* that is emitted again is not one the window has had RecentLimit others
\* after (domainOrchestration.ts, MAX_RECENT_CHAT_MESSAGE_IDS).
THEOREM WindowCatchesUp == Spec => [](RepeatsAreKnown(emitted) => ViewCatchesUp)
<1>1. LineInv /\ StatusInv /\ NumberInv /\ DeliveryInv
        /\ (view.phase = "restored" /\ SaidAll => view.known = retained)
        => (RepeatsAreKnown(emitted) => ViewCatchesUp)
  <2> SUFFICES ASSUME LineInv, StatusInv, NumberInv, DeliveryInv, RepeatsAreKnown(emitted),
                      view.known = retained, view.phase = "restored", SaidAll,
                      retained.active # 0
               PROVE  /\ \A i \in Due : \E k \in OnShow : view.shown[k].id = emitted[i].id
                      /\ \A k \in OnShow : \E i \in Due : emitted[i].id = view.shown[k].id
                      /\ \A k, l \in OnShow : k < l =>
                           \E i, j \in Due : /\ i < j
                                             /\ emitted[i].id = view.shown[k].id
                                             /\ emitted[j].id = view.shown[l].id
    BY DEF ViewCatchesUp
  <2>1. PathTypes /\ OneConnectionEach(emitted) /\ events = <<>>
    BY DEF DeliveryInv, NumberInv, OneConnectionEach, SaidAll
  <2>2. InOneLine(emitted, events, retained, view)
    BY DEF LineInv
  <2> QED
    BY <2>1, <2>2, CaughtUp
<1> QED
  BY <1>1, LineInvariance, StatusInvariance, NumberInvariance, DeliveryInvariance,
     WindowKnowsStatus, PTL DEF Spec
=============================================================================
