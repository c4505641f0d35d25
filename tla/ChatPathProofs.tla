--------------------------- MODULE ChatPathProofs ---------------------------
(***************************************************************************)
(* A message is heard once, and a handover loses none: the window of known *)
(* ids against the history of what was passed on.                          *)
(***************************************************************************)
EXTENDS ChatPath, FiniteSetTheorems, WellFoundedInduction, TLAPS

-----------------------------------------------------------------------------
(***************************************************************************)
(* The window of known ids.                                                *)
(***************************************************************************)
Ids     == Nat \ {0}
Entries == [id : Ids, at : Nat]
Caches  == [seen : SUBSET Ids, order : Seq(Entries)]

\* The set answers for what the queue holds, and no id is queued twice.
Sound(cache) ==
  /\ cache.seen = IdsOf(cache.order)
  /\ \A m, n \in DOMAIN cache.order : cache.order[m].id = cache.order[n].id => m = n

LEMMA LeastOfNaturals ==
  ASSUME NEW S \in SUBSET Nat, S # {}
  PROVE  Min(S) \in S /\ \A y \in S : Min(S) <= y
<1> DEFINE less == {ss \in Nat \X Nat : ss[1] < ss[2]}
<1>1. IsWellFoundedOn(less, Nat)
  <2>1. OpToRel(<, Nat) = less
    BY DEF OpToRel
  <2> QED
    BY <2>1, NatLessThanWellFounded
<1>2. \E x \in S : \A y \in S : <<y, x>> \notin less
  <2> HIDE DEF less
  <2> QED
    BY <1>1, WFMin
<1>3. PICK x \in S : \A y \in S : <<y, x>> \notin less
  BY <1>2
<1>4. \A y \in S : <<y, x>> \in Nat \X Nat /\ <<y, x>>[1] = y /\ <<y, x>>[2] = x
  OBVIOUS
<1>5. \A y \in S : ~ (y < x)
  BY <1>3, <1>4
<1>6. \A y \in S : x <= y
  BY <1>5
<1> QED
  BY <1>6 DEF Min

\* Without its oldest entries a window is one still.
LEMMA ForgetOldest ==
  ASSUME NEW cache \in Caches, Sound(cache), NEW c \in 0 .. Len(cache.order)
  PROVE  LET f == Forget(cache, c)
         IN  /\ f \in Caches /\ Sound(f)
             /\ Len(f.order) = Len(cache.order) - c
             /\ \A m \in 1 .. Len(cache.order) - c : f.order[m] = cache.order[m + c]
<1> DEFINE o == cache.order
           f == Forget(cache, c)
<1>1. /\ o \in Seq(Entries) /\ Len(o) \in Nat /\ DOMAIN o = 1 .. Len(o)
      /\ \A m \in 1 .. Len(o) : o[m] \in Entries
  BY DEF Caches
<1>2. /\ SubSeq(o, 1, c) \in Seq(Entries) /\ Len(SubSeq(o, 1, c)) = c
      /\ \A m \in 1 .. c : SubSeq(o, 1, c)[m] = o[m]
  BY <1>1
<1>3. /\ f.order \in Seq(Entries) /\ Len(f.order) = Len(o) - c
      /\ \A m \in 1 .. Len(o) - c : f.order[m] = o[m + c]
  BY <1>1 DEF Forget
<1>4. f.seen \in SUBSET Ids
  BY DEF Forget, Caches
<1>5. f \in Caches
  BY <1>3, <1>4 DEF Forget, Caches
<1>6. IdsOf(SubSeq(o, 1, c)) = {o[i].id : i \in 1 .. c}
  <2> DEFINE q == SubSeq(o, 1, c)
  <2>1. DOMAIN q = 1 .. c /\ \A i \in 1 .. c : q[i] = o[i]
    BY <1>2
  <2> HIDE DEF q, o
  <2>2. {q[i].id : i \in DOMAIN q} = {o[i].id : i \in 1 .. c}
    BY <2>1
  <2> QED
    BY <2>2 DEF IdsOf, q
<1>7. IdsOf(f.order) = {o[i].id : i \in c + 1 .. Len(o)}
  <2>1. DOMAIN f.order = 1 .. Len(o) - c
    BY <1>3
  <2>2. \A i \in c + 1 .. Len(o) : i - c \in 1 .. Len(o) - c /\ (i - c) + c = i
    BY <1>1
  <2>3. \A m \in 1 .. Len(o) - c : m + c \in c + 1 .. Len(o)
    BY <1>1
  <2> DEFINE q == f.order
             l == Len(o)
  <2> HIDE DEF f
  <2>4. \A m \in 1 .. l - c : q[m] = o[m + c]
    BY <1>3
  <2> HIDE DEF q, o, l
  <2>5. {q[m].id : m \in 1 .. l - c} = {o[i].id : i \in c + 1 .. l}
    <3>1. ASSUME NEW m \in 1 .. l - c
          PROVE  q[m].id \in {o[i].id : i \in c + 1 .. l}
      BY <2>3, <2>4 DEF l
    <3>2. ASSUME NEW i \in c + 1 .. l
          PROVE  o[i].id \in {q[m].id : m \in 1 .. l - c}
      <4>1. i - c \in 1 .. l - c /\ q[i - c] = o[(i - c) + c] /\ (i - c) + c = i
        BY <2>2, <2>4 DEF l
      <4>2. q[i - c] = o[i]
        BY <4>1
      <4> QED
        BY <4>1, <4>2
    <3> QED
      BY <3>1, <3>2
  <2> QED
    BY <2>1, <2>5 DEF IdsOf, q, l
<1>8. {o[i].id : i \in 1 .. Len(o)} \ {o[i].id : i \in 1 .. c}
        = {o[i].id : i \in c + 1 .. Len(o)}
  <2>1. \A m, n \in 1 .. Len(o) : o[m].id = o[n].id => m = n
    BY <1>1 DEF Sound
  <2> QED
    BY <1>1, <2>1
<1>9. f.seen = IdsOf(f.order)
  BY <1>1, <1>6, <1>7, <1>8 DEF Sound, Forget, IdsOf
<1>10. \A m, n \in DOMAIN f.order : f.order[m].id = f.order[n].id => m = n
  <2> SUFFICES ASSUME NEW m \in 1 .. Len(o) - c, NEW n \in 1 .. Len(o) - c,
                      f.order[m].id = f.order[n].id
               PROVE  m = n
    <3>1. DOMAIN f.order = 1 .. Len(o) - c
      BY <1>3
    <3> HIDE DEF f
    <3> QED
      BY <3>1
  <2>1. f.order[m] = o[m + c] /\ f.order[n] = o[n + c]
    BY <1>3
  <2>2. m + c \in DOMAIN o /\ n + c \in DOMAIN o
    BY <1>1
  <2>3. o[m + c].id = o[n + c].id
    BY <2>1
  <2> HIDE DEF f
  <2>4. m + c = n + c
    BY <2>2, <2>3 DEF Sound
  <2> QED
    BY <2>4
<1> QED
  BY <1>3, <1>5, <1>9, <1>10 DEF Sound

\* What remove_expired leaves out has expired.
LEMMA RemoveExpiredForgets ==
  ASSUME NEW cache \in Caches, NEW t \in Nat
  PROVE  \E c \in 0 .. Len(cache.order) :
           /\ RemoveExpired(cache, t) = Forget(cache, c)
           /\ \A n \in 1 .. c : t - cache.order[n].at >= CacheTtl
<1> DEFINE o == cache.order
           young == {i \in DOMAIN o : t - o[i].at < CacheTtl}
<1>1. /\ Len(o) \in Nat /\ DOMAIN o = 1 .. Len(o) /\ CacheTtl \in Nat
      /\ \A m \in 1 .. Len(o) : o[m].at \in Nat
  <2>1. o \in Seq(Entries)
    BY DEF Caches
  <2>2. Len(o) \in Nat /\ DOMAIN o = 1 .. Len(o) /\ \A m \in 1 .. Len(o) : o[m] \in Entries
    BY <2>1
  <2> QED
    BY <2>2, CacheAssumption DEF Entries
<1>2. CASE young = {}
  <2>1. RemoveExpired(cache, t) = Forget(cache, Len(o))
    BY <1>2 DEF RemoveExpired
  <2>2. \A n \in 1 .. Len(o) : t - o[n].at >= CacheTtl
    BY <1>1, <1>2
  <2> QED
    BY <1>1, <2>1, <2>2
<1>3. CASE young # {}
  <2>1. Min(young) \in young /\ \A y \in young : Min(young) <= y
    <3>1. young \in SUBSET Nat
      BY <1>1
    <3> QED
      BY <3>1, <1>3, LeastOfNaturals
  <2> DEFINE least == Min(young)
  <2>2. RemoveExpired(cache, t) = Forget(cache, least - 1)
    BY <1>3 DEF RemoveExpired
  <2> HIDE DEF least
  <2>3. least \in 1 .. Len(o) /\ \A y \in young : least <= y
    BY <2>1, <1>1 DEF least
  <2>4. least - 1 \in 0 .. Len(o)
    BY <2>3, <1>1
  <2>5. ASSUME NEW n \in 1 .. least - 1
        PROVE  t - o[n].at >= CacheTtl
    <3>1. n \in DOMAIN o /\ ~ (least <= n)
      BY <2>3, <1>1
    <3>2. n \notin young
      BY <3>1, <2>3
    <3> QED
      BY <3>1, <3>2, <1>1
  <2> QED
    BY <2>2, <2>4, <2>5
<1> QED
  BY <1>2, <1>3

\* The queue with a new last entry, and without its first one when it was full.
Grows(cache, new, id, t) ==
  LET o == cache.order
  IN  \E d \in {0, 1} :
        /\ d = 1 => Len(o) = CacheLimit
        /\ Len(new.order) = Len(o) - d + 1
        /\ \A m \in 1 .. Len(o) - d : new.order[m] = o[m + d]
        /\ new.order[Len(o) - d + 1] = [id |-> id, at |-> t]

LEMMA RememberedEntry ==
  ASSUME NEW cache \in Caches, Sound(cache), Len(cache.order) <= CacheLimit,
         NEW id \in Ids, id \notin cache.seen, NEW t \in Nat
  PROVE  LET new == Remembered(cache, id, t)
         IN  /\ new \in Caches /\ Sound(new) /\ Len(new.order) <= CacheLimit
             /\ Grows(cache, new, id, t)
<1> DEFINE o     == cache.order
           entry == [id |-> id, at |-> t]
           grown == [seen  |-> cache.seen \cup {id}, order |-> Append(o, entry)]
           l     == Len(o)
<1>1. /\ o \in Seq(Entries) /\ l \in Nat /\ DOMAIN o = 1 .. l
      /\ entry \in Entries /\ entry.id = id /\ CacheLimit \in Nat \ {0}
  BY CacheAssumption DEF Caches, Entries
<1>2. /\ grown.order \in Seq(Entries) /\ Len(grown.order) = l + 1
      /\ DOMAIN grown.order = 1 .. l + 1
      /\ \A m \in 1 .. l : grown.order[m] = o[m]
      /\ grown.order[l + 1] = entry
  BY <1>1
<1>3. grown \in Caches
  BY <1>2 DEF Caches
<1>4. grown.seen = IdsOf(grown.order)
  <2> DEFINE q == grown.order
  <2>1. grown.seen = IdsOf(o) \cup {id}
    BY DEF Sound
  <2>2. /\ DOMAIN q = 1 .. l + 1 /\ q[l + 1].id = id
        /\ \A m \in 1 .. l : q[m] = o[m]
    BY <1>1, <1>2
  <2> HIDE DEF q, grown, entry
  <2>3. \A m : m \in 1 .. l + 1 <=> (m \in 1 .. l \/ m = l + 1)
    BY <1>1
  <2> HIDE DEF o, l
  <2>4. {q[m].id : m \in DOMAIN q} = {o[m].id : m \in DOMAIN o} \cup {id}
    BY <1>1, <2>2, <2>3
  <2> QED
    BY <2>1, <2>4 DEF IdsOf, q, o
<1>5. \A m \in 1 .. l : o[m].id # id
  BY <1>1 DEF Sound, IdsOf
<1>6. \A m, n \in DOMAIN grown.order : grown.order[m].id = grown.order[n].id => m = n
  <2> DEFINE q == grown.order
  <2>1. \A m, n \in 1 .. l : o[m].id = o[n].id => m = n
    BY <1>1 DEF Sound
  <2>2. /\ DOMAIN q = 1 .. l + 1 /\ q[l + 1].id = id
        /\ \A m \in 1 .. l : q[m] = o[m]
    BY <1>1, <1>2
  <2> HIDE DEF q, o, l
  <2> QED
    BY <2>1, <2>2, <1>1, <1>5 DEF q
<1>7. Sound(grown)
  BY <1>4, <1>6 DEF Sound
<1> DEFINE new == Remembered(cache, id, t)
<1>8. CASE l < CacheLimit
  <2>1. new = grown
    BY <1>2, <1>8, <1>1 DEF Remembered
  <2> HIDE DEF new, grown, o
  <2>2. Len(new.order) = l - 0 + 1 /\ l - 0 = l /\ l - 0 + 1 = l + 1
    BY <1>1, <1>2, <2>1
  <2>3. \A m \in 1 .. l - 0 : new.order[m] = o[m + 0]
    BY <1>1, <1>2, <2>1
  <2> QED
    BY <1>1, <1>2, <1>3, <1>7, <1>8, <2>1, <2>2, <2>3 DEF o, new, Grows
<1>9. CASE l = CacheLimit
  <2>1. new = Forget(grown, 1)
    BY <1>2, <1>9, <1>1 DEF Remembered
  <2> HIDE DEF new, grown
  <2>2. 1 \in 0 .. Len(grown.order)
    BY <1>1, <1>2
  <2>3. /\ new \in Caches /\ Sound(new) /\ Len(new.order) = l
        /\ \A m \in 1 .. l : new.order[m] = grown.order[m + 1]
    <3>1. /\ new \in Caches /\ Sound(new) /\ Len(new.order) = Len(grown.order) - 1
          /\ \A m \in 1 .. Len(grown.order) - 1 : new.order[m] = grown.order[m + 1]
      BY <1>3, <1>7, <2>1, <2>2, ForgetOldest
    <3>2. Len(grown.order) - 1 = l
      BY <1>1, <1>2
    <3> QED
      BY <3>1, <3>2
  <2>4. ASSUME NEW m \in 1 .. l - 1
        PROVE  new.order[m] = o[m + 1]
    <3>1. m \in 1 .. l /\ m + 1 \in 1 .. l
      BY <1>1
    <3> QED
      BY <1>2, <2>3, <3>1
  <2>5. new.order[l] = entry
    BY <1>1, <1>2, <1>9, <2>3
  <2>6. l - 1 + 1 = l
    BY <1>1
  <2>7. /\ 1 = 1 => l = CacheLimit
        /\ Len(new.order) = l - 1 + 1
        /\ \A m \in 1 .. l - 1 : new.order[m] = o[m + 1]
        /\ new.order[l - 1 + 1] = entry
    BY <1>9, <2>3, <2>4, <2>5, <2>6
  <2>8. Len(new.order) <= CacheLimit
    BY <1>1, <1>9, <2>3
  <2> HIDE DEF l, o, entry
  <2>9. \E d \in {0, 1} :
          /\ d = 1 => l = CacheLimit
          /\ Len(new.order) = l - d + 1
          /\ \A m \in 1 .. l - d : new.order[m] = o[m + d]
          /\ new.order[l - d + 1] = entry
    BY <2>7
  <2> QED
    BY <2>3, <2>8, <2>9 DEF new, l, o, entry, Grows
<1> QED
  BY <1>1, <1>8, <1>9

\* What insert_at does to the queue: c entries expired and left, the last one
\* is the message when that was news, and d had to make room for it.
Moves(cache, new, id, t) ==
  LET o == cache.order
  IN  \E c \in 0 .. Len(o) :
        /\ \A n \in 1 .. c : t - o[n].at >= CacheTtl
        /\ IsKnown(cache, id, t) =>
             /\ id \in cache.seen /\ Len(new.order) = Len(o) - c
             /\ \A m \in 1 .. Len(o) - c : new.order[m] = o[m + c]
        /\ ~ IsKnown(cache, id, t) =>
             \E d \in {0, 1} :
               /\ d = 1 => Len(o) - c = CacheLimit
               /\ Len(new.order) = Len(o) - c - d + 1
               /\ \A m \in 1 .. Len(o) - c - d : new.order[m] = o[m + c + d]
               /\ new.order[Len(o) - c - d + 1] = [id |-> id, at |-> t]
               /\ \A n \in c + 1 .. Len(o) : o[n].id # id

LEMMA WindowMoves ==
  ASSUME NEW cache \in Caches, Sound(cache), Len(cache.order) <= CacheLimit,
         NEW id \in Ids, NEW t \in Nat
  PROVE  LET new == Insert(cache, id, t)
         IN  /\ new \in Caches /\ Sound(new) /\ Len(new.order) <= CacheLimit
             /\ Moves(cache, new, id, t)
<1> DEFINE o    == cache.order
           l    == Len(o)
           live == RemoveExpired(cache, t)
           new  == Insert(cache, id, t)
<1>1. PICK c \in 0 .. l : /\ live = Forget(cache, c)
                          /\ \A n \in 1 .. c : t - o[n].at >= CacheTtl
  BY RemoveExpiredForgets
<1>2. l \in Nat /\ c \in Nat /\ c <= l
  BY DEF Caches
<1> HIDE DEF live
<1>3. /\ live \in Caches /\ Sound(live) /\ Len(live.order) = l - c
      /\ \A m \in 1 .. l - c : live.order[m] = o[m + c]
  BY <1>1, ForgetOldest
<1>4. live.seen \subseteq cache.seen
  BY <1>1 DEF Forget
<1>5. Len(live.order) <= CacheLimit
  BY <1>2, <1>3, CacheAssumption
<1>6. IsKnown(cache, id, t) <=> id \in live.seen
  BY DEF IsKnown, live
<1>7. CASE id \in live.seen
  <2>1. new = live
    BY <1>7 DEF Insert, live
  <2> HIDE DEF new
  <2>2. id \in cache.seen
    BY <1>4, <1>7
  <2> QED
    BY <1>1, <1>3, <1>5, <1>6, <1>7, <2>1, <2>2 DEF new, Moves
<1>8. CASE id \notin live.seen
  <2>1. new = Remembered(live, id, t)
    BY <1>8 DEF Insert, live
  <2> HIDE DEF new
  <2>2. /\ new \in Caches /\ Sound(new) /\ Len(new.order) <= CacheLimit
        /\ Grows(live, new, id, t)
    <3>1. live \in Caches /\ Sound(live)
      BY <1>3
    <3> HIDE DEF o, l
    <3> QED
      BY <1>5, <1>8, <2>1, <3>1, RememberedEntry
  <2>3. PICK d \in {0, 1} :
             /\ d = 1 => Len(live.order) = CacheLimit
             /\ Len(new.order) = Len(live.order) - d + 1
             /\ \A m \in 1 .. Len(live.order) - d : new.order[m] = live.order[m + d]
             /\ new.order[Len(live.order) - d + 1] = [id |-> id, at |-> t]
    BY <2>2 DEF Grows
  <2>4. \A m \in 1 .. l - c - d : new.order[m] = o[m + c + d]
    <3> SUFFICES ASSUME NEW m \in 1 .. l - c - d
                 PROVE  new.order[m] = o[m + c + d]
      OBVIOUS
    <3>1. m \in 1 .. Len(live.order) - d /\ m + d \in 1 .. l - c /\ (m + d) + c = m + c + d
      BY <1>2, <1>3, <2>3
    <3> QED
      BY <1>3, <2>3, <3>1
  <2>5. \A n \in c + 1 .. l : o[n].id # id
    <3> SUFFICES ASSUME NEW n \in c + 1 .. l
                 PROVE  o[n].id # id
      OBVIOUS
    <3>1. n - c \in 1 .. l - c /\ (n - c) + c = n
      BY <1>2
    <3>2. n - c \in DOMAIN live.order
      BY <1>3, <3>1 DEF Caches
    <3>3. live.order[n - c].id \in live.seen
      BY <1>3, <3>2 DEF Sound, IdsOf
    <3>4. live.order[n - c] = o[n]
      BY <1>3, <3>1
    <3> QED
      BY <1>8, <3>3, <3>4
  <2>6. /\ d = 1 => l - c = CacheLimit
        /\ Len(new.order) = l - c - d + 1
        /\ new.order[l - c - d + 1] = [id |-> id, at |-> t]
    BY <1>3, <2>3
  <2> QED
    BY <1>1, <1>6, <1>8, <2>2, <2>4, <2>5, <2>6 DEF new, Moves
<1> QED
  BY <1>7, <1>8

-----------------------------------------------------------------------------
(***************************************************************************)
(* The types of a connection, and what a step may do to them.              *)
(***************************************************************************)
Stages == {"start", "connecting", "session", "sleeping", "subscribing",
           "handover", "draining", "ended"}

\* The frames with an id are the messages.
Frames == {f \in [kind : {"chat", "welcome", "reconnect", "closed", "revoked"}, id : Nat] :
             f.kind = "chat" <=> f.id # 0}

Tasks     == [generation : 0 .. MaxGeneration, stage : Stages, cache : Caches,
              attempts : Nat, established : Int, wait : Nat]
NextOnes  == [phase : {"none", "opening", "open", "failed"}, frames : Seq(Frames)]
Links     == [sent : Nat, before : Nat, subscribed : BOOLEAN]
Emissions == [generation : Generations, id : Ids, at : Nat, listened : BOOLEAN]

PathTypes ==
  /\ owner \in [generation : 0 .. MaxGeneration, active : 0 .. MaxGeneration]
  /\ task \in Tasks
  /\ hand \in [Generations -> Nat]
  /\ now \in Nat
  /\ emitted \in Seq(Emissions)

WireTypes ==
  /\ old \in Seq(Frames)
  /\ next \in NextOnes
  /\ twitch \in Links
  /\ broken \in BOOLEAN

\* A task that has not ended is the registered one, and nothing is known of
\* generations and times to come.
PathShape ==
  /\ owner.active \in {0, task.generation}
  /\ task.generation <= owner.generation
  /\ task.stage # "ended" => owner.active = task.generation /\ task.generation # 0
  /\ \A g \in Generations : hand[g] # NoHand => g <= owner.generation
  /\ \A i \in DOMAIN emitted : /\ emitted[i].generation <= owner.generation
                               /\ emitted[i].at <= now

\* A step that neither hears nor passes on a message, nor replaces the task.
Quiet ==
  /\ UNCHANGED <<owner, hand, emitted, now>>
  /\ task' \in Tasks
  /\ task'.generation = task.generation
  /\ task'.cache = task.cache
  /\ task'.stage # "ended" => task.stage # "ended"

\* A step of the task that hears a message.
Hearing ==
  /\ task.stage # "ended"
  /\ owner.active = task.generation
  /\ hand[task.generation] = NoHand
  /\ \E id \in Ids : Hears(id)
  /\ UNCHANGED <<owner, emitted, now>>

LEMMA TailFacts ==
  ASSUME NEW S, NEW s \in Seq(S), s # <<>>
  PROVE  /\ Head(s) \in S /\ Head(s) = s[1] /\ Len(s) \in Nat \ {0}
         /\ Tail(s) \in Seq(S) /\ Len(Tail(s)) = Len(s) - 1
         /\ \A i \in 1 .. Len(s) - 1 : Tail(s)[i] = s[i + 1]
OBVIOUS

LEMMA AppendFacts ==
  ASSUME NEW S, NEW s \in Seq(S), NEW x \in S
  PROVE  /\ Append(s, x) \in Seq(S) /\ Len(Append(s, x)) = Len(s) + 1
         /\ \A i \in 1 .. Len(s) : Append(s, x)[i] = s[i]
         /\ Append(s, x)[Len(s) + 1] = x
OBVIOUS

LEMMA FrameTypes ==
  /\ \A kind \in {"welcome", "reconnect", "closed", "revoked"} : Frame(kind) \in Frames
  /\ \A id \in Ids : [kind |-> "chat", id |-> id] \in Frames
  /\ \A f \in Frames : f.kind = "chat" => f.id \in Ids
BY DEF Frame, Frames, Ids

LEMMA NewTaskType ==
  /\ NewCache \in Caches
  /\ \A g \in 0 .. MaxGeneration :
       /\ NewTask(g) \in Tasks /\ NewTask(g).generation = g /\ NewTask(g).cache = NewCache
       /\ NewTask(g).stage = "start"
<1>1. NewCache \in Caches
  <2>1. {} \in SUBSET Ids /\ <<>> \in Seq(Entries)
    OBVIOUS
  <2> QED
    BY <2>1 DEF NewCache, Caches
<1>2. Never \in Int /\ "start" \in Stages
  BY DEF Never, Stages
<1> QED
  BY <1>1, <1>2 DEF NewTask, Tasks

LEMMA FirstStates == Init => PathTypes /\ WireTypes /\ PathShape
<1> SUFFICES ASSUME Init PROVE PathTypes /\ WireTypes /\ PathShape
  OBVIOUS
<1> USE GenerationAssumption DEF Init, EventSubInit
<1>1. /\ [NewTask(0) EXCEPT !.stage = "ended"] \in Tasks
      /\ NewTask(0) \in Tasks /\ NewTask(0).generation = 0
  <2>1. NewTask(0) \in Tasks /\ NewTask(0).generation = 0 /\ "ended" \in Stages
    BY NewTaskType DEF Stages
  <2> QED
    BY <2>1 DEF Tasks
<1>2. /\ owner \in [generation : 0 .. MaxGeneration, active : 0 .. MaxGeneration]
      /\ hand \in [Generations -> Nat]
      /\ \A g \in Generations : hand[g] = NoHand
      /\ now \in Nat /\ emitted = <<>> /\ <<>> \in Seq(Emissions)
  BY DEF NoHand
<1>3. task \in Tasks /\ task.generation = 0 /\ task.stage = "ended"
  <2>1. task = [NewTask(0) EXCEPT !.stage = "ended"]
    OBVIOUS
  <2> QED
    BY <1>1, <2>1 DEF Tasks
<1>4. PathTypes
  BY <1>2, <1>3 DEF PathTypes
<1>5. WireTypes
  <2>1. next.phase = "none" /\ next.frames = <<>> /\ <<>> \in Seq(Frames) /\ next \in NextOnes
    BY DEF NextOnes, NoNext
  <2> QED
    BY <2>1 DEF WireTypes, Links
<1>6. PathShape
  <2>1. owner.active = 0 /\ owner.generation = 0
    OBVIOUS
  <2>2. \A i \in DOMAIN emitted : FALSE
    BY <1>2
  <2> QED
    BY <1>2, <1>3, <2>1, <2>2 DEF PathShape
<1> QED
  BY <1>4, <1>5, <1>6

LEMMA FailsQuietly ==
  ASSUME PathTypes, WireTypes, NEW stage \in Stages, Runs(stage), stage # "ended",
         \/ SessionFails
         \/ \E status : SessionEnds(status)
  PROVE  Quiet /\ WireTypes'
<1> DEFINE attempts == (IF WasStable THEN 0 ELSE task.attempts) + 1
<1>1. attempts \in Nat /\ RetryBackoff(attempts) \in Nat
  BY DEF PathTypes, Tasks, RetryBackoff
<1>2. task' \in Tasks /\ task'.generation = task.generation /\ task'.cache = task.cache
  <2> HIDE DEF attempts
  <2>1. CASE SessionFails
    <3>1. task' = [task EXCEPT !.stage = "sleeping", !.attempts = attempts,
                               !.wait = RetryBackoff(attempts), !.established = Never]
      BY <2>1 DEF SessionFails, attempts
    <3>2. task \in Tasks /\ Never \in Int /\ "sleeping" \in Stages
      BY DEF PathTypes, Stages, Never
    <3> DEFINE wait == RetryBackoff(attempts)
    <3> HIDE DEF wait
    <3>3. wait \in Nat
      BY <1>1 DEF wait
    <3>4. task' = [task EXCEPT !.stage = "sleeping", !.attempts = attempts,
                               !.wait = wait, !.established = Never]
      BY <3>1 DEF wait
    <3> QED
      BY <1>1, <3>2, <3>3, <3>4 DEF Tasks
  <2>2. CASE \E status : SessionEnds(status)
    BY <2>2 DEF SessionEnds, PathTypes, Tasks, Stages
  <2> QED
    BY <2>1, <2>2
<1>3. UNCHANGED <<owner, hand, emitted, now>> /\ DropSockets
  BY DEF SessionFails, SessionEnds, Keeps, KeepsHands
<1>4. WireTypes'
  <2>1. old' \in Seq(Frames) /\ broken' \in BOOLEAN
    BY <1>3 DEF DropSockets
  <2>2. NoNext \in NextOnes
    BY DEF NoNext, NextOnes
  <2>3. next' \in NextOnes
    BY <1>3, <2>2 DEF DropSockets
  <2>4. twitch' \in Links
    BY <1>3 DEF DropSockets, WireTypes, Links
  <2> QED
    BY <2>1, <2>3, <2>4 DEF WireTypes
<1> QED
  BY <1>2, <1>3, <1>4 DEF Quiet, Runs

\* The steps of the task that only change its stage.
LEMMA StagesQuietly ==
  ASSUME PathTypes,
         \/ StartSession \/ SocketOpens \/ WakesUp \/ SessionWelcomed
         \/ HandoverBegins \/ NextOpens \/ NextFails \/ OldIgnored \/ NextWelcomed
  PROVE  Quiet
<1>1. UNCHANGED <<owner, hand, emitted, now>> /\ task.stage # "ended"
  BY DEF StartSession, SocketOpens, WakesUp, SessionWelcomed, HandoverBegins, NextOpens,
         NextFails, OldIgnored, NextWelcomed, Keeps, KeepsHands, Runs
<1>2. \/ task' = task
      \/ \E stage \in Stages : task' = [task EXCEPT !.stage = stage]
      \/ task' = [task EXCEPT !.stage = "handover", !.established = Never]
  BY DEF StartSession, SocketOpens, WakesUp, SessionWelcomed, HandoverBegins, NextOpens,
         NextFails, OldIgnored, NextWelcomed, Stages
<1>3. task \in Tasks /\ Never \in Int /\ "handover" \in Stages
  BY DEF PathTypes, Never, Stages
<1>4. task' \in Tasks /\ task'.generation = task.generation /\ task'.cache = task.cache
  BY <1>2, <1>3 DEF Tasks
<1> QED
  BY <1>1, <1>4 DEF Quiet

LEMMA WelcomedQuietly ==
  ASSUME PathTypes, Subscribed \/ OldReplaced \/ DrainCutShort
  PROVE  Quiet
<1>1. UNCHANGED <<owner, hand, emitted, now>> /\ task.stage # "ended"
  BY DEF Subscribed, OldReplaced, DrainCutShort, Keeps, KeepsHands, Runs
<1>2. task' = [task EXCEPT !.stage = "session", !.established = now]
  BY DEF Subscribed, OldReplaced, DrainCutShort, WelcomeCompleted
<1>3. task \in Tasks /\ now \in Int /\ "session" \in Stages
  BY DEF PathTypes, Stages
<1>4. task' \in Tasks /\ task'.generation = task.generation /\ task'.cache = task.cache
  BY <1>2, <1>3 DEF Tasks
<1> QED
  BY <1>1, <1>4 DEF Quiet

LEMMA WireSteps ==
  ASSUME PathTypes, WireTypes,
         \/ StartSession \/ SocketOpens \/ WakesUp \/ SessionWelcomed
         \/ HandoverBegins \/ NextOpens \/ NextFails \/ OldIgnored \/ NextWelcomed
         \/ Subscribed \/ OldReplaced \/ DrainCutShort
         \/ SessionHears \/ OldHears \/ NextHears
  PROVE  WireTypes'
<1>1. /\ old \in Seq(Frames) /\ next \in NextOnes /\ next.frames \in Seq(Frames)
      /\ old # <<>> => Tail(old) \in Seq(Frames)
      /\ next.frames # <<>> => Tail(next.frames) \in Seq(Frames)
  BY TailFacts DEF WireTypes, NextOnes
<1>2. old' \in Seq(Frames)
  <2>1. \/ old' \in {old, next.frames, <<Frame("welcome")>>}
        \/ old # <<>> /\ old' = Tail(old)
    <3>1. CASE StartSession \/ SocketOpens \/ WakesUp \/ NextOpens \/ NextFails
      BY <3>1 DEF StartSession, SocketOpens, WakesUp, NextOpens, NextFails, KeepsSockets
    <3>2. CASE NextWelcomed \/ NextHears \/ Subscribed \/ OldReplaced \/ DrainCutShort
      BY <3>2 DEF NextWelcomed, NextHears, OnNext, Subscribed, OldReplaced, DrainCutShort
    <3>3. CASE SessionWelcomed \/ HandoverBegins \/ OldIgnored \/ SessionHears \/ OldHears
      BY <3>3 DEF SessionWelcomed, HandoverBegins, OldIgnored, SessionHears, OldHears,
                  ReadsOld, OnOld
    <3> QED
      BY <3>1, <3>2, <3>3
  <2>2. <<Frame("welcome")>> \in Seq(Frames)
    BY FrameTypes
  <2> QED
    BY <1>1, <2>1, <2>2
<1>3. next' \in NextOnes
  <2>1. \/ next' = next \/ next' = NoNext
        \/ \E phase \in {"opening", "failed"} : next' = [NoNext EXCEPT !.phase = phase]
        \/ next' = [next EXCEPT !.phase = "open"]
        \/ next.frames # <<>> /\ next' = [next EXCEPT !.frames = Tail(@)]
    BY DEF StartSession, SocketOpens, WakesUp, SessionWelcomed, HandoverBegins, NextOpens,
           NextFails, OldIgnored, NextWelcomed, Subscribed, OldReplaced, DrainCutShort,
           SessionHears, OldHears, NextHears, OnNext, KeepsSockets, ReadsOld
  <2>2. NoNext \in NextOnes /\ NoNext.frames = <<>>
    BY DEF NoNext, NextOnes
  <2> QED
    BY <1>1, <2>1, <2>2 DEF NextOnes
<1>4. twitch' \in Links /\ broken' \in BOOLEAN
  <2>1. twitch' = twitch \/ \E b \in BOOLEAN : twitch' = [twitch EXCEPT !.subscribed = @ \/ b]
    BY DEF StartSession, SocketOpens, WakesUp, SessionWelcomed, HandoverBegins, NextOpens,
           NextFails, OldIgnored, NextWelcomed, Subscribed, OldReplaced, DrainCutShort,
           SessionHears, OldHears, NextHears, KeepsSockets, ReadsOld, WelcomeCompleted
  <2>2. broken' = broken \/ broken' = TRUE
    BY DEF StartSession, SocketOpens, WakesUp, SessionWelcomed, HandoverBegins, NextOpens,
           NextFails, OldIgnored, NextWelcomed, Subscribed, OldReplaced, DrainCutShort,
           SessionHears, OldHears, NextHears, OnNext, KeepsSockets, ReadsOld
  <2> QED
    BY <2>1, <2>2 DEF WireTypes, Links
<1> QED
  BY <1>2, <1>3, <1>4 DEF WireTypes

LEMMA HearsAMessage ==
  ASSUME PathTypes, WireTypes, SessionHears \/ OldHears \/ NextHears
  PROVE  Hearing
<1>1. /\ task.stage # "ended" /\ owner.active = task.generation
      /\ hand[task.generation] = NoHand
      /\ UNCHANGED <<owner, emitted, now>>
  BY DEF SessionHears, OldHears, NextHears, Runs, Keeps
<1>2. \E id \in Ids : Hears(id)
  <2>1. CASE SessionHears \/ OldHears
    <3>1. Head(old) \in Frames /\ Head(old).kind = "chat"
      BY <2>1, TailFacts DEF SessionHears, OldHears, OnOld, WireTypes
    <3> QED
      BY <2>1, <3>1, FrameTypes DEF SessionHears, OldHears
  <2>2. CASE NextHears
    <3>1. next.frames \in Seq(Frames)
      BY DEF WireTypes, NextOnes
    <3>2. Head(next.frames) \in Frames /\ Head(next.frames).kind = "chat"
      BY <2>2, <3>1, TailFacts DEF NextHears, OnNext
    <3> QED
      BY <2>2, <3>2, FrameTypes DEF NextHears, OnNext
  <2> QED
    BY <2>1, <2>2
<1> QED
  BY <1>1, <1>2 DEF Hearing

\* Twitch puts a frame on a socket, and touches nothing else.
LEMMA TwitchQuietly ==
  ASSUME PathTypes, WireTypes,
         \/ TwitchSends \/ TwitchSendsAgain \/ TwitchAsksToMove
         \/ TwitchCloses \/ TwitchRevokes \/ TwitchWelcomesNext
  PROVE  Quiet /\ WireTypes'
<1>1. Environment
  BY DEF TwitchSends, TwitchSendsAgain, TwitchAsksToMove, TwitchCloses, TwitchRevokes,
         TwitchWelcomesNext
<1>2. Quiet /\ broken' \in BOOLEAN
  BY <1>1 DEF Environment, Quiet, PathTypes, WireTypes
<1>3. twitch \in Links /\ next \in NextOnes /\ old \in Seq(Frames) /\ next.frames \in Seq(Frames)
  BY DEF WireTypes, NextOnes
<1>4. twitch' \in Links
  <2>1. twitch' = twitch \/ twitch' = [twitch EXCEPT !.sent = @ + 1]
    BY DEF TwitchSends, TwitchSendsAgain, TwitchAsksToMove, TwitchCloses, TwitchRevokes,
           TwitchWelcomesNext
  <2> QED
    BY <1>3, <2>1 DEF Links
<1>5. \E frame \in Frames :
        \/ old' = Append(old, frame) /\ next' = next
        \/ old' = old /\ next' = [next EXCEPT !.frames = Append(@, frame)]
  <2>1. CASE TwitchSends
    <3>1. twitch.sent + 1 \in Ids
      BY <1>3 DEF Links, Ids
    <3> QED
      BY <2>1, <3>1, FrameTypes DEF TwitchSends, Carries
  <2>2. CASE TwitchSendsAgain
    <3>1. \A id \in twitch.before + 1 .. twitch.sent : id \in Ids
      BY <1>3 DEF Links, Ids
    <3> QED
      BY <2>2, <3>1, FrameTypes DEF TwitchSendsAgain, Carries
  <2>3. CASE TwitchAsksToMove \/ TwitchCloses \/ TwitchRevokes \/ TwitchWelcomesNext
    BY <2>3, FrameTypes DEF TwitchAsksToMove, TwitchCloses, TwitchRevokes, TwitchWelcomesNext, Carries
  <2> QED
    BY <2>1, <2>2, <2>3
<1>6. old' \in Seq(Frames) /\ next' \in NextOnes
  <2>1. PICK frame \in Frames :
          \/ old' = Append(old, frame) /\ next' = next
          \/ old' = old /\ next' = [next EXCEPT !.frames = Append(@, frame)]
    BY <1>5
  <2>2. Append(old, frame) \in Seq(Frames) /\ Append(next.frames, frame) \in Seq(Frames)
    BY <1>3, AppendFacts
  <2>3. CASE old' = Append(old, frame) /\ next' = next
    BY <1>3, <2>2, <2>3
  <2>4. CASE old' = old /\ next' = [next EXCEPT !.frames = Append(@, frame)]
    <3>1. next' = [next EXCEPT !.frames = Append(next.frames, frame)]
      BY <2>4
    <3> HIDE DEF Frames
    <3>2. next' \in NextOnes
      BY <1>3, <2>2, <3>1 DEF NextOnes
    <3> QED
      BY <1>3, <2>4, <3>2
  <2> QED
    BY <2>1, <2>3, <2>4
<1> QED
  BY <1>2, <1>4, <1>6 DEF WireTypes

-----------------------------------------------------------------------------
(***************************************************************************)
(* The window against the history.  Counting from a message passed on, the *)
(* connection has passed on at least as many as the queue holds behind the *)
(* entry of that message; the one in hand is queued already, and counts.   *)
(***************************************************************************)

\* The messages the connection passed on after message k.
After(k) == {m \in k + 1 .. Len(emitted) : emitted[m].generation = emitted[k].generation}

Ours == {k \in DOMAIN emitted : emitted[k].generation = task.generation}

InHand == IF hand[task.generation] # NoHand THEN 1 ELSE 0

Expired(k) == now - emitted[k].at >= CacheTtl

\* A message passed on that is still in the window has no younger entry there
\* than messages passed on, or in hand, after it.
QueuedBehind ==
  \A k \in Ours : \A n \in DOMAIN task.cache.order :
    task.cache.order[n].id = emitted[k].id =>
      /\ emitted[k].at <= task.cache.order[n].at
      /\ Cardinality(After(k)) + InHand >= Len(task.cache.order) - n

\* One that is not has expired, or the limit has pushed it out.
Forgotten ==
  \A k \in Ours : \/ \E n \in DOMAIN task.cache.order : task.cache.order[n].id = emitted[k].id
                  \/ Expired(k)
                  \/ Cardinality(After(k)) + InHand >= CacheLimit

\* The message in hand is the youngest entry of the window, and not one that
\* was passed on within it.
HandIsNews ==
  hand[task.generation] # NoHand =>
    /\ Len(task.cache.order) > 0
    /\ task.cache.order[Len(task.cache.order)] = [id |-> hand[task.generation], at |-> now]
    /\ \A k \in Ours : emitted[k].id = hand[task.generation] =>
         Expired(k) \/ Cardinality(After(k)) >= CacheLimit

WindowInv == Sound(task.cache) /\ Len(task.cache.order) <= CacheLimit

HistoryInv == owner.active # 0 => QueuedBehind /\ Forgotten /\ HandIsNews

LEMMA EmissionType ==
  ASSUME PathTypes
  PROVE  /\ Len(emitted) \in Nat /\ DOMAIN emitted = 1 .. Len(emitted)
         /\ \A k \in DOMAIN emitted : /\ emitted[k] \in Emissions /\ emitted[k].id \in Ids
                                      /\ emitted[k].at \in Nat
                                      /\ emitted[k].generation \in Generations
<1>1. emitted \in Seq(Emissions)
  BY DEF PathTypes
<1>2. /\ Len(emitted) \in Nat /\ DOMAIN emitted = 1 .. Len(emitted)
      /\ \A k \in DOMAIN emitted : emitted[k] \in Emissions
  BY <1>1
<1> QED
  BY <1>2 DEF Emissions

LEMMA AfterType ==
  ASSUME PathTypes, NEW k \in DOMAIN emitted
  PROVE  IsFiniteSet(After(k)) /\ Cardinality(After(k)) \in Nat
<1>1. IsFiniteSet(k + 1 .. Len(emitted))
  BY FS_Interval DEF PathTypes
<1> QED
  BY <1>1, FS_Subset, FS_CardinalityType DEF After

\* Neither the window nor the history changes, and time may pass.
LEMMA QuietHistory ==
  ASSUME PathTypes, PathShape, HistoryInv, HeardOnce,
         UNCHANGED <<owner, hand, emitted>>,
         task'.generation = task.generation, task'.cache = task.cache,
         \/ now' = now
         \/ now' = now + 1 /\ \A g \in Generations : hand[g] = NoHand
  PROVE  HistoryInv' /\ HeardOnce'
<1>1. HeardOnce'
  BY DEF HeardOnce
<1>2. CASE owner.active = 0
  BY <1>1, <1>2 DEF HistoryInv
<1>3. CASE owner.active # 0
  <2>1. task.generation \in Generations
    BY <1>3 DEF PathShape, PathTypes, Generations
  <2>2. Ours' = Ours /\ InHand' = InHand
    BY DEF Ours, InHand
  <2>3. \A k : After(k)' = After(k)
    BY DEF After
  <2>4. QueuedBehind /\ Forgotten /\ HandIsNews
    BY <1>3 DEF HistoryInv
  <2>5. QueuedBehind'
    BY <2>2, <2>3, <2>4 DEF QueuedBehind
  <2>6. \A k \in Ours : Expired(k) => Expired(k)'
    <3>1. \A k \in Ours : emitted[k].at \in Nat
      BY EmissionType DEF Ours
    <3>2. now \in Nat /\ now' \in Nat /\ now' >= now /\ CacheTtl \in Nat
      BY CacheAssumption DEF PathTypes
    <3> QED
      BY <3>1, <3>2 DEF Expired
  <2>7. Forgotten'
    BY <2>2, <2>3, <2>4, <2>6 DEF Forgotten
  <2>8. HandIsNews'
    <3>1. CASE now' = now
      <4>1. Expired(1)' = Expired(1) /\ \A k : Expired(k)' <=> Expired(k)
        BY <3>1 DEF Expired
      <4> QED
        BY <2>2, <2>3, <2>4, <3>1, <4>1 DEF HandIsNews
    <3>2. CASE \A g \in Generations : hand[g] = NoHand
      BY <2>1, <3>2 DEF HandIsNews
    <3> QED
      BY <3>1, <3>2
  <2> QED
    BY <1>1, <2>5, <2>7, <2>8 DEF HistoryInv
<1> QED
  BY <1>2, <1>3

\* What the window does when the connection hears a message.
LEMMA HearingWindow ==
  ASSUME PathTypes, PathShape, WindowInv, NEW id \in Ids, Hears(id),
         owner.active = task.generation, hand[task.generation] = NoHand,
         task.stage # "ended"
  PROVE  /\ task' \in Tasks /\ hand' \in [Generations -> Nat] /\ WindowInv'
         /\ task'.generation = task.generation /\ task'.stage = task.stage
         /\ \A g \in Generations : hand'[g] # hand[g] => g = task.generation
         /\ \E c \in 0 .. Len(task.cache.order) :
              /\ \A n \in 1 .. c : now - task.cache.order[n].at >= CacheTtl
              /\ \/ /\ hand' = hand /\ id \in task.cache.seen
                    /\ Len(task'.cache.order) = Len(task.cache.order) - c
                    /\ \A m \in 1 .. Len(task.cache.order) - c :
                         task'.cache.order[m] = task.cache.order[m + c]
                 \/ /\ hand'[task.generation] = id
                    /\ \E d \in {0, 1} :
                         /\ d = 1 => Len(task.cache.order) - c = CacheLimit
                         /\ Len(task'.cache.order) = Len(task.cache.order) - c - d + 1
                         /\ \A m \in 1 .. Len(task.cache.order) - c - d :
                              task'.cache.order[m] = task.cache.order[m + c + d]
                         /\ task'.cache.order[Len(task.cache.order) - c - d + 1]
                              = [id |-> id, at |-> now]
                         /\ \A n \in c + 1 .. Len(task.cache.order) :
                              task.cache.order[n].id # id
<1> DEFINE cache == task.cache
           o == cache.order
           l == Len(o)
           new == Insert(cache, id, now)
           g == task.generation
<1>1. /\ cache \in Caches /\ Sound(cache) /\ Len(o) <= CacheLimit /\ now \in Nat
      /\ task \in Tasks /\ hand \in [Generations -> Nat] /\ id \in Nat
  BY DEF PathTypes, Tasks, WindowInv, Ids
<1>2. g \in Generations
  BY DEF PathShape, PathTypes, Tasks, Generations
<1>3. task' = [task EXCEPT !.cache = new]
  BY DEF Hears
<1>4. hand' = IF IsKnown(cache, id, now) THEN hand ELSE [hand EXCEPT ![g] = id]
  BY DEF Hears
<1> HIDE DEF new
<1>5. /\ new \in Caches /\ Sound(new) /\ Len(new.order) <= CacheLimit
      /\ \E c \in 0 .. l :
           /\ \A n \in 1 .. c : now - o[n].at >= CacheTtl
           /\ IsKnown(cache, id, now) =>
                /\ id \in cache.seen /\ Len(new.order) = l - c
                /\ \A m \in 1 .. l - c : new.order[m] = o[m + c]
           /\ ~ IsKnown(cache, id, now) =>
                \E d \in {0, 1} :
                  /\ d = 1 => l - c = CacheLimit
                  /\ Len(new.order) = l - c - d + 1
                  /\ \A m \in 1 .. l - c - d : new.order[m] = o[m + c + d]
                  /\ new.order[l - c - d + 1] = [id |-> id, at |-> now]
                  /\ \A n \in c + 1 .. l : o[n].id # id
  <2>1. Moves(cache, new, id, now)
    BY <1>1, WindowMoves DEF new
  <2>2. new \in Caches /\ Sound(new) /\ Len(new.order) <= CacheLimit
    BY <1>1, WindowMoves DEF new
  <2> QED
    BY <2>1, <2>2 DEF Moves
<1>6. /\ task' \in Tasks /\ task'.cache = new /\ task'.generation = g
      /\ task'.stage = task.stage
  <2>1. task'.cache = new
    BY <1>1, <1>3 DEF Tasks
  <2> QED
    BY <1>1, <1>3, <1>5, <2>1 DEF Tasks
<1>7. hand' \in [Generations -> Nat]
      /\ \A h \in Generations : hand'[h] # hand[h] => h = g
  BY <1>1, <1>2, <1>4
<1>8. WindowInv'
  BY <1>5, <1>6 DEF WindowInv
<1>9. CASE IsKnown(cache, id, now)
  BY <1>4, <1>5, <1>6, <1>7, <1>8, <1>9
<1>10. CASE ~ IsKnown(cache, id, now)
  <2>1. hand'[g] = id
    BY <1>1, <1>2, <1>4, <1>10
  <2> QED
    BY <1>5, <1>6, <1>7, <1>8, <1>10, <2>1
<1> QED
  BY <1>9, <1>10

LEMMA HearingHistory ==
  ASSUME PathTypes, PathShape, WindowInv, HistoryInv, HeardOnce, Hearing
  PROVE  HistoryInv' /\ HeardOnce'
<1> DEFINE o == task.cache.order
           p == task'.cache.order
           l == Len(o)
           g == task.generation
<1>1. PICK id \in Ids : Hears(id)
  BY DEF Hearing
<1>2. UNCHANGED <<owner, emitted, now>> /\ hand[g] = NoHand /\ task.stage # "ended"
  BY DEF Hearing
<1>3. /\ task' \in Tasks /\ hand' \in [Generations -> Nat] /\ WindowInv'
      /\ task'.generation = g /\ task'.stage = task.stage
  BY <1>1, HearingWindow DEF Hearing
<1>4. PICK c \in 0 .. l :
        /\ \A n \in 1 .. c : now - o[n].at >= CacheTtl
        /\ \/ /\ hand' = hand /\ id \in task.cache.seen
              /\ Len(p) = l - c
              /\ \A m \in 1 .. l - c : p[m] = o[m + c]
           \/ /\ hand'[g] = id
              /\ \E d \in {0, 1} :
                   /\ d = 1 => l - c = CacheLimit
                   /\ Len(p) = l - c - d + 1
                   /\ \A m \in 1 .. l - c - d : p[m] = o[m + c + d]
                   /\ p[l - c - d + 1] = [id |-> id, at |-> now]
                   /\ \A n \in c + 1 .. l : o[n].id # id
  BY <1>1, HearingWindow DEF Hearing
<1>5. /\ QueuedBehind /\ Forgotten
      /\ InHand = 0 /\ Ours' = Ours /\ \A k : After(k)' = After(k)
  BY <1>2, <1>3 DEF HistoryInv, PathShape, Hearing, InHand, Ours, After
<1>6. /\ l \in Nat /\ DOMAIN o = 1 .. l /\ \A n \in 1 .. l : o[n].at \in Nat /\ o[n].id \in Ids
      /\ p \in Seq(Entries) /\ DOMAIN p = 1 .. Len(p) /\ CacheLimit \in Nat \ {0}
      /\ CacheTtl \in Nat /\ c \in Nat /\ c <= l
  <2>1. o \in Seq(Entries) /\ p \in Seq(Entries)
    BY <1>3 DEF PathTypes, Tasks, Caches
  <2>2. \A n \in 1 .. l : o[n] \in Entries
    BY <2>1
  <2> QED
    BY <2>1, <2>2, CacheAssumption DEF Entries
<1>7. \A k \in Ours : /\ emitted[k].at \in Nat /\ emitted[k].at <= now
                      /\ emitted[k].id \in Ids /\ Cardinality(After(k)) \in Nat
  BY EmissionType, AfterType DEF Ours, PathShape
<1>8. \A k \in Ours : \A n \in 1 .. l :
        o[n].id = emitted[k].id =>
          emitted[k].at <= o[n].at /\ Cardinality(After(k)) >= l - n
  BY <1>5, <1>6, <1>7 DEF QueuedBehind
<1>9. now \in Nat /\ now' = now /\ emitted' = emitted
  BY <1>2 DEF PathTypes
<1>10. \A k \in Ours : \A n \in 1 .. c : o[n].id = emitted[k].id => Expired(k)
  <2> SUFFICES ASSUME NEW k \in Ours, NEW n \in 1 .. c, o[n].id = emitted[k].id
               PROVE  Expired(k)
    OBVIOUS
  <2>1. n \in 1 .. l
    BY <1>6
  <2>2. emitted[k].at <= o[n].at /\ now - o[n].at >= CacheTtl /\ o[n].at \in Nat
    BY <1>4, <1>6, <1>8, <2>1
  <2> HIDE DEF o
  <2> QED
    BY <1>6, <1>7, <1>9, <2>2 DEF Expired
<1>11. \A k \in Ours : Expired(k)' = Expired(k)
  BY <1>9 DEF Expired
<1>12. \A k \in Ours : (\E n \in 1 .. l : o[n].id = emitted[k].id)
                         \/ Expired(k) \/ Cardinality(After(k)) >= CacheLimit
  BY <1>5, <1>6, <1>7 DEF Forgotten
<1> HIDE DEF o, p, l
<1>13. CASE /\ hand' = hand /\ id \in task.cache.seen
            /\ Len(p) = l - c
            /\ \A m \in 1 .. l - c : p[m] = o[m + c]
  <2>1. InHand' = 0
    BY <1>2, <1>3, <1>13 DEF InHand
  <2>2. QueuedBehind'
    <3> SUFFICES ASSUME NEW k \in Ours, NEW n \in 1 .. Len(p), p[n].id = emitted[k].id
                 PROVE  emitted[k].at <= p[n].at /\ Cardinality(After(k)) + 0 >= Len(p) - n
      BY <1>5, <1>6, <1>7, <1>9, <2>1 DEF QueuedBehind, p
    <3>1. n + c \in 1 .. l /\ p[n] = o[n + c]
      BY <1>6, <1>13
    <3>2. emitted[k].at <= p[n].at /\ Cardinality(After(k)) >= l - (n + c)
      BY <1>8, <3>1
    <3> QED
      BY <1>6, <1>7, <1>13, <3>2
  <2>3. Forgotten'
    <3> SUFFICES ASSUME NEW k \in Ours
                 PROVE  (\E n \in 1 .. Len(p) : p[n].id = emitted[k].id)
                           \/ Expired(k) \/ Cardinality(After(k)) >= CacheLimit
      BY <1>5, <1>6, <1>7, <1>9, <1>11, <2>1 DEF Forgotten, p
    <3>1. ASSUME NEW n \in 1 .. l, n \notin 1 .. c, o[n].id = emitted[k].id
          PROVE  \E m \in 1 .. Len(p) : p[m].id = emitted[k].id
      <4>1. n - c \in 1 .. l - c /\ (n - c) + c = n
        BY <1>6, <3>1
      <4>2. p[n - c] = o[n] /\ n - c \in 1 .. Len(p)
        BY <1>13, <4>1
      <4> QED
        BY <3>1, <4>2
    <3> QED
      BY <1>10, <1>12, <3>1
  <2>4. HandIsNews'
    BY <1>2, <1>3, <1>13 DEF HandIsNews
  <2> QED
    BY <1>9, <2>2, <2>3, <2>4 DEF HistoryInv, HeardOnce
<1>14. ASSUME NEW d \in {0, 1},
              hand'[g] = id,
              d = 1 => l - c = CacheLimit,
              Len(p) = l - c - d + 1,
              \A m \in 1 .. l - c - d : p[m] = o[m + c + d],
              p[l - c - d + 1] = [id |-> id, at |-> now],
              \A n \in c + 1 .. l : o[n].id # id
       PROVE  HistoryInv' /\ HeardOnce'
  <2>1. InHand' = 1 /\ id # NoHand
    BY <1>3, <1>14 DEF InHand, Ids, NoHand
  <2>2. l - c - d \in Nat
    BY <1>6, <1>14
  <2>3. QueuedBehind'
    <3> SUFFICES ASSUME NEW k \in Ours, NEW n \in 1 .. Len(p), p[n].id = emitted[k].id
                 PROVE  emitted[k].at <= p[n].at /\ Cardinality(After(k)) + 1 >= Len(p) - n
      BY <1>5, <1>6, <1>7, <1>9, <2>1 DEF QueuedBehind, p
    <3>1. CASE n \in 1 .. l - c - d
      <4>1. n + c + d \in 1 .. l /\ p[n] = o[n + c + d]
        BY <1>6, <1>14, <2>2, <3>1
      <4>2. emitted[k].at <= p[n].at /\ Cardinality(After(k)) >= l - (n + c + d)
        BY <1>8, <4>1
      <4> QED
        BY <1>6, <1>7, <1>14, <4>2
    <3>2. CASE n = l - c - d + 1
      <4>1. p[n].at = now
        BY <1>14, <3>2
      <4>2. Len(p) - n = 0
        BY <1>6, <1>14, <2>2, <3>2
      <4> QED
        BY <1>7, <4>1, <4>2
    <3> QED
      BY <1>14, <2>2, <3>1, <3>2
  <2>4. Forgotten'
    <3> SUFFICES ASSUME NEW k \in Ours
                 PROVE  (\E n \in 1 .. Len(p) : p[n].id = emitted[k].id)
                           \/ Expired(k) \/ Cardinality(After(k)) + 1 >= CacheLimit
      BY <1>5, <1>6, <1>7, <1>9, <1>11, <2>1 DEF Forgotten, p
    <3>1. ASSUME NEW n \in 1 .. l, n \notin 1 .. c, n # c + d, o[n].id = emitted[k].id
          PROVE  \E m \in 1 .. Len(p) : p[m].id = emitted[k].id
      <4>1. n - c - d \in 1 .. l - c - d /\ (n - c - d) + c + d = n
        <5>1. d = 0 \/ d = 1
          OBVIOUS
        <5>2. n \in Nat /\ n > c /\ n <= l
          BY <1>6, <3>1
        <5>3. n > c + d
          BY <3>1, <5>1, <5>2, <1>6
        <5>4. CASE d = 0
          BY <1>6, <5>2, <5>3, <5>4
        <5>5. CASE d = 1
          BY <1>6, <5>2, <5>3, <5>5
        <5> QED
          BY <5>1, <5>4, <5>5
      <4>2. p[n - c - d] = o[n] /\ n - c - d \in 1 .. Len(p)
        BY <1>14, <2>2, <4>1
      <4> QED
        BY <3>1, <4>2
    <3>2. ASSUME NEW n \in 1 .. l, n \notin 1 .. c, n = c + d, o[n].id = emitted[k].id
          PROVE  Cardinality(After(k)) + 1 >= CacheLimit
      <4>1. d = 1 /\ l - c = CacheLimit
        BY <1>6, <1>14, <3>2
      <4>2. Cardinality(After(k)) >= l - (c + 1)
        BY <1>8, <3>2, <4>1
      <4> QED
        BY <1>6, <1>7, <4>1, <4>2
    <3>3. Cardinality(After(k)) >= CacheLimit => Cardinality(After(k)) + 1 >= CacheLimit
      BY <1>6, <1>7
    <3> QED
      BY <1>10, <1>12, <3>1, <3>2, <3>3
  <2>5. HandIsNews'
    <3>1. Len(p) > 0 /\ p[Len(p)] = [id |-> id, at |-> now]
      BY <1>14, <2>2
    <3>2. ASSUME NEW k \in Ours, emitted[k].id = id
          PROVE  Expired(k) \/ Cardinality(After(k)) >= CacheLimit
      <4>1. \A n \in 1 .. l : n \in 1 .. c \/ n \in c + 1 .. l
        BY <1>6
      <4> QED
        BY <1>10, <1>12, <1>14, <3>2, <4>1
    <3> QED
      BY <1>3, <1>5, <1>9, <1>11, <1>14, <3>1, <3>2 DEF HandIsNews, p
  <2> QED
    BY <1>9, <2>3, <2>4, <2>5 DEF HistoryInv, HeardOnce
<1> QED
  BY <1>4, <1>13, <1>14

\* The message in hand is passed on: it no longer counts as in hand, and now
\* counts as passed on after every earlier one.
LEMMA DispatchHistory ==
  ASSUME PathTypes, PathShape, WindowInv, HistoryInv, HeardOnce,
         NEW g \in Generations, Dispatch(g)
  PROVE  /\ PathTypes' /\ PathShape' /\ HistoryInv' /\ HeardOnce'
         /\ UNCHANGED <<owner, task, now>>
<1> DEFINE o == task.cache.order
           l == Len(o)
           message == [generation |-> g, id |-> hand[g], at |-> now,
                       listened |-> "chat" \in listening]
<1>1. UNCHANGED <<owner, task, now>> /\ hand' = [hand EXCEPT ![g] = NoHand] /\ hand[g] # NoHand
  BY DEF Dispatch
<1>2. /\ hand \in [Generations -> Nat] /\ hand' \in [Generations -> Nat]
      /\ hand[g] \in Ids /\ hand'[g] = NoHand
      /\ \A h \in Generations : h # g => hand'[h] = hand[h]
  BY <1>1 DEF PathTypes, NoHand, Ids
<1>3. PICK L \in Nat : L = Len(emitted) /\ DOMAIN emitted = 1 .. L
  BY EmissionType
<1>4. CASE owner.active # g
  <2>1. emitted' = emitted
    BY <1>4 DEF Dispatch
  <2>2. PathTypes'
    BY <1>1, <1>2, <2>1 DEF PathTypes
  <2>3. PathShape'
    BY <1>1, <1>2, <2>1 DEF PathShape
  <2>4. HeardOnce'
    BY <2>1 DEF HeardOnce
  <2>5. HistoryInv'
    <3>1. CASE owner.active = 0
      BY <1>1, <3>1 DEF HistoryInv
    <3>2. CASE owner.active # 0
      <4>1. task.generation # g /\ task.generation \in Generations
        BY <1>4, <3>2 DEF PathShape, PathTypes, Generations
      <4>2. hand'[task.generation] = hand[task.generation]
        BY <1>2, <4>1
      <4>3. QueuedBehind /\ Forgotten /\ HandIsNews
        BY <3>2 DEF HistoryInv
      <4>4. /\ Ours' = Ours /\ InHand' = InHand
            /\ \A k : After(k)' = After(k) /\ Expired(k)' = Expired(k)
        BY <1>1, <2>1, <4>2 DEF Ours, InHand, After, Expired
      <4>5. QueuedBehind'
        BY <1>1, <2>1, <4>3, <4>4 DEF QueuedBehind
      <4>6. Forgotten'
        BY <1>1, <2>1, <4>3, <4>4 DEF Forgotten
      <4>7. HandIsNews'
        BY <1>1, <2>1, <4>2, <4>3, <4>4 DEF HandIsNews
      <4> QED
        BY <4>5, <4>6, <4>7 DEF HistoryInv
    <3> QED
      BY <3>1, <3>2
  <2> QED
    BY <1>1, <2>2, <2>3, <2>4, <2>5
<1>5. CASE owner.active = g
  <2>1. emitted' = Append(emitted, message)
    BY <1>5 DEF Dispatch
  <2>2. task.generation = g /\ owner.active # 0 /\ g <= owner.generation /\ now \in Nat
    BY <1>5, <1>1 DEF PathShape, PathTypes, Generations
  <2>3. /\ message \in Emissions /\ message.generation = g /\ message.id = hand[g]
        /\ message.at = now
    BY <1>2, <2>2 DEF Emissions
  <2> HIDE DEF message
  <2>4. /\ emitted' \in Seq(Emissions) /\ Len(emitted') = L + 1
        /\ DOMAIN emitted' = 1 .. L + 1
        /\ \A k \in 1 .. L : emitted'[k] = emitted[k]
        /\ emitted'[L + 1] = message
    BY <1>3, <2>1, <2>3, AppendFacts DEF PathTypes
  <2>5. \A k : k \in 1 .. L + 1 <=> (k \in 1 .. L \/ k = L + 1)
    BY <1>3
  <2>6. PathTypes'
    BY <1>1, <1>2, <2>4 DEF PathTypes
  <2>7. PathShape'
    <3>1. \A k \in DOMAIN emitted' : emitted'[k].generation <= owner.generation
                                     /\ emitted'[k].at <= now
      <4>1. \A k \in 1 .. L : emitted[k].generation <= owner.generation /\ emitted[k].at <= now
        BY <1>3 DEF PathShape
      <4> QED
        BY <2>2, <2>3, <2>4, <2>5, <4>1
    <3> QED
      BY <1>1, <1>2, <3>1 DEF PathShape
  <2>8. QueuedBehind /\ Forgotten /\ HandIsNews
    BY <2>2 DEF HistoryInv
  <2>9. InHand = 1 /\ InHand' = 0
    BY <1>1, <1>2, <2>2 DEF InHand
  <2>10. Ours' = Ours \cup {L + 1} /\ Ours \subseteq 1 .. L /\ L + 1 \notin Ours
    BY <1>1, <1>3, <2>2, <2>3, <2>4, <2>5 DEF Ours
  <2>11. \A k \in Ours : /\ After(k)' = After(k) \cup {L + 1}
                         /\ L + 1 \notin After(k)
    <3> SUFFICES ASSUME NEW k \in Ours
                 PROVE  After(k)' = After(k) \cup {L + 1} /\ L + 1 \notin After(k)
      OBVIOUS
    <3>1. k \in 1 .. L /\ emitted'[k].generation = g /\ emitted[k].generation = g
      BY <1>3, <2>2, <2>4, <2>10 DEF Ours
    <3>2. \A m : m \in k + 1 .. L + 1 <=> (m \in k + 1 .. L \/ m = L + 1)
      BY <1>3, <3>1
    <3>3. \A m \in k + 1 .. L : emitted'[m] = emitted[m]
      BY <1>3, <2>4, <3>1
    <3>4. After(k)' = {m \in k + 1 .. L + 1 : emitted'[m].generation = g}
      BY <2>4, <3>1 DEF After
    <3>5. After(k) = {m \in k + 1 .. L : emitted[m].generation = g}
      BY <1>3, <3>1 DEF After
    <3>6. L + 1 \notin k + 1 .. L
      BY <1>3
    <3> QED
      BY <2>3, <2>4, <3>2, <3>3, <3>4, <3>5, <3>6
  <2>12. \A k \in Ours : /\ Cardinality(After(k)) \in Nat
                         /\ Cardinality(After(k)') = Cardinality(After(k)) + 1
    <3> SUFFICES ASSUME NEW k \in Ours
                 PROVE  /\ Cardinality(After(k)) \in Nat
                        /\ Cardinality(After(k)') = Cardinality(After(k)) + 1
      OBVIOUS
    <3>1. IsFiniteSet(After(k)) /\ Cardinality(After(k)) \in Nat
      BY AfterType DEF Ours
    <3> QED
      BY <2>11, <3>1, FS_AddElement
  <2>13. After(L + 1)' = {} /\ Cardinality(After(L + 1)') = 0
    <3>1. (L + 1) + 1 .. L + 1 = {}
      BY <1>3
    <3>2. After(L + 1)' = {}
      BY <2>4, <3>1 DEF After
    <3> QED
      BY <3>2, FS_EmptySet
  <2>14. /\ l \in Nat /\ DOMAIN o = 1 .. l /\ l > 0 /\ o[l] = [id |-> hand[g], at |-> now]
         /\ \A m, n \in 1 .. l : o[m].id = o[n].id => m = n
    <3>1. o \in Seq(Entries)
      BY DEF PathTypes, Tasks, Caches
    <3> QED
      BY <1>1, <2>2, <2>8, <3>1 DEF HandIsNews, WindowInv, Sound
  <2>15. QueuedBehind'
    <3> SUFFICES ASSUME NEW k \in Ours', NEW n \in DOMAIN o, o[n].id = emitted'[k].id
                 PROVE  /\ emitted'[k].at <= o[n].at
                        /\ Cardinality(After(k)') + 0 >= l - n
      BY <1>1, <2>9 DEF QueuedBehind
    <3>1. CASE k \in Ours
      <4>1. emitted'[k] = emitted[k]
        BY <2>4, <2>10, <3>1
      <4>2. emitted[k].at <= o[n].at /\ Cardinality(After(k)) + 1 >= l - n
        BY <2>8, <2>9, <3>1, <4>1 DEF QueuedBehind
      <4> QED
        BY <2>12, <3>1, <4>1, <4>2
    <3>2. CASE k = L + 1
      <4>1. o[n].id = o[l].id
        BY <2>3, <2>4, <2>14, <3>2
      <4>2. n = l
        BY <2>14, <4>1
      <4>3. emitted'[k].at = now /\ o[n].at = now /\ l - n = 0
        BY <2>3, <2>4, <2>14, <3>2, <4>2
      <4> QED
        BY <2>2, <2>13, <3>2, <4>3
    <3> QED
      BY <2>10, <3>1, <3>2
  <2>16. \A k \in Ours : emitted'[k] = emitted[k] /\ Expired(k)' = Expired(k)
    BY <1>1, <2>4, <2>10 DEF Expired
  <2>17. Forgotten'
    <3> SUFFICES ASSUME NEW k \in Ours'
                 PROVE  \/ \E n \in DOMAIN o : o[n].id = emitted'[k].id
                        \/ Expired(k)'
                        \/ Cardinality(After(k)') + 0 >= CacheLimit
      BY <1>1, <2>9 DEF Forgotten
    <3>1. CASE k \in Ours
      <4>1. Cardinality(After(k)) + 1 >= CacheLimit => Cardinality(After(k)') + 0 >= CacheLimit
        BY <2>12, <3>1
      <4> QED
        BY <2>8, <2>9, <2>16, <3>1, <4>1 DEF Forgotten
    <3>2. CASE k = L + 1
      BY <2>3, <2>4, <2>14, <3>2
    <3> QED
      BY <2>10, <3>1, <3>2
  <2>18. HandIsNews'
    BY <1>1, <1>2, <2>2 DEF HandIsNews
  <2>19. HeardOnce'
    <3> DEFINE Between(i, j)  == {k \in i + 1 .. j - 1 :
                                    emitted[k].generation = emitted[i].generation}
               Between1(i, j) == {k \in i + 1 .. j - 1 :
                                    emitted'[k].generation = emitted'[i].generation}
    <3> SUFFICES ASSUME NEW i \in 1 .. L + 1, NEW j \in 1 .. L + 1, i < j,
                        emitted'[i].id = emitted'[j].id,
                        emitted'[i].generation = emitted'[j].generation
                 PROVE  \/ emitted'[j].at - emitted'[i].at >= CacheTtl
                        \/ Cardinality(Between1(i, j)) >= CacheLimit
      BY <2>4 DEF HeardOnce
    <3>1. i \in 1 .. L /\ emitted'[i] = emitted[i]
      BY <1>3, <2>4
    <3>2. \A k \in i + 1 .. j - 1 : k \in 1 .. L
      BY <1>3, <3>1
    <3>3. Between1(i, j) = Between(i, j)
      BY <2>4, <3>1, <3>2
    <3>4. CASE j \in 1 .. L
      <4>1. emitted'[j] = emitted[j]
        BY <2>4, <3>4
      <4>2. \/ emitted[j].at - emitted[i].at >= CacheTtl
            \/ Cardinality(Between(i, j)) >= CacheLimit
        BY <1>3, <3>1, <3>4, <4>1 DEF HeardOnce
      <4> QED
        BY <3>1, <3>3, <4>1, <4>2
    <3>5. CASE j = L + 1
      <4>1. i \in Ours /\ emitted[i].id = hand[g]
        BY <1>3, <2>2, <2>3, <2>4, <3>1, <3>5 DEF Ours
      <4>2. Expired(i) \/ Cardinality(After(i)) >= CacheLimit
        BY <1>1, <2>2, <2>8, <4>1 DEF HandIsNews
      <4>3. j - 1 = L
        BY <1>3, <3>5
      <4>4. Between(i, j) = After(i)
        BY <1>3, <4>3 DEF After
      <4>5. emitted'[j].at = now
        BY <2>3, <2>4, <3>5
      <4> QED
        BY <3>1, <3>3, <4>2, <4>4, <4>5 DEF Expired
    <3> QED
      BY <2>5, <3>4, <3>5
  <2> QED
    BY <1>1, <2>6, <2>7, <2>15, <2>17, <2>18, <2>19 DEF HistoryInv
<1> QED
  BY <1>4, <1>5

-----------------------------------------------------------------------------
(***************************************************************************)
(* The commands, and the invariant of the window and the history.          *)
(***************************************************************************)
DeliveryInv == PathTypes /\ WireTypes /\ PathShape /\ WindowInv /\ HistoryInv /\ HeardOnce

LEMMA CommandTypes ==
  ASSUME PathTypes, WireTypes, Connect \/ Stop
  PROVE  /\ PathTypes' /\ WireTypes'
         /\ UNCHANGED <<hand, now, emitted>>
         /\ owner.generation + 1 \in Generations
         /\ owner'.generation = owner.generation + 1
<1> DEFINE g == owner.generation + 1
<1>1. g \in Generations /\ g \in 0 .. MaxGeneration /\ 0 \in 0 .. MaxGeneration
  BY GenerationAssumption DEF Connect, Stop, PathTypes, Generations
<1>2. owner' = [generation |-> g, active |-> g] \/ owner' = [generation |-> g, active |-> 0]
  BY DEF Connect, Stop
<1>3. owner' \in [generation : 0 .. MaxGeneration, active : 0 .. MaxGeneration]
      /\ owner'.generation = g
  BY <1>1, <1>2
<1>4. task' \in Tasks
  <2>1. CASE Connect
    BY <1>1, <2>1, NewTaskType DEF Connect
  <2>2. CASE Stop
    BY <2>2 DEF Stop, PathTypes, Tasks, Stages
  <2> QED
    BY <2>1, <2>2
<1>5. UNCHANGED <<hand, now, emitted>> /\ LeavesSockets /\ broken' \in BOOLEAN
  BY DEF Connect, Stop, WireTypes
<1>6. WireTypes'
  <2>1. NoNext \in NextOnes
    BY DEF NoNext, NextOnes
  <2>2. old' \in Seq(Frames) /\ next' \in NextOnes
    BY <1>5, <2>1 DEF LeavesSockets
  <2>3. twitch' \in Links
    BY <1>5 DEF LeavesSockets, WireTypes, Links
  <2> QED
    BY <1>5, <2>2, <2>3 DEF WireTypes
<1> QED
  BY <1>1, <1>3, <1>4, <1>5, <1>6 DEF PathTypes

LEMMA CommandHistory ==
  ASSUME DeliveryInv, Connect \/ Stop
  PROVE  DeliveryInv'
<1>1. /\ PathTypes' /\ WireTypes' /\ UNCHANGED <<hand, now, emitted>>
      /\ owner.generation + 1 \in Generations
      /\ owner'.generation = owner.generation + 1
  BY CommandTypes DEF DeliveryInv
<1>2. HeardOnce'
  BY <1>1 DEF HeardOnce, DeliveryInv
<1>3. owner.generation \in Nat /\ task.generation \in Nat /\ task.generation <= owner.generation
  BY DEF DeliveryInv, PathTypes, Tasks, PathShape
<1>4. /\ \A k \in Generations : hand[k] # NoHand => k <= owner.generation
      /\ \A i \in DOMAIN emitted : /\ emitted[i].generation \in Nat
                                   /\ emitted[i].generation <= owner.generation
                                   /\ emitted[i].at <= now
  BY EmissionType DEF DeliveryInv, PathShape, Generations
<1>5. /\ \A k \in Generations : hand'[k] # NoHand => k <= owner'.generation
      /\ \A i \in DOMAIN emitted' : /\ emitted'[i].generation <= owner'.generation
                                    /\ emitted'[i].at <= now'
  <2>1. \A k \in Generations : k <= owner.generation => k <= owner.generation + 1
    BY <1>3 DEF Generations
  <2> QED
    BY <1>1, <1>3, <1>4, <2>1
<1>6. CASE Connect
  <2> DEFINE g == owner.generation + 1
  <2>1. task' = NewTask(g) /\ owner'.active = g /\ g \in 0 .. MaxGeneration
    BY <1>1, <1>6 DEF Connect, Generations
  <2>2. /\ task'.generation = g /\ task'.cache = NewCache /\ task'.cache.order = <<>>
        /\ task'.cache.seen = {} /\ task'.stage = "start"
    BY <2>1, NewTaskType DEF NewCache
  <2>3. WindowInv'
    BY <2>2, CacheAssumption DEF WindowInv, Sound, IdsOf
  <2>4. PathShape'
    <3>1. owner'.active = task'.generation /\ task'.generation <= owner'.generation
          /\ task'.generation # 0
      BY <1>1, <1>3, <2>1, <2>2
    <3> QED
      BY <1>5, <3>1 DEF PathShape
  <2>5. Ours' = {} /\ hand'[g] = NoHand
    <3>1. hand[g] = NoHand
      BY <1>1, <1>3, <1>4
    <3>2. \A i \in DOMAIN emitted : emitted[i].generation # g
      BY <1>3, <1>4
    <3> QED
      BY <1>1, <2>2, <3>1, <3>2 DEF Ours
  <2>6. HistoryInv'
    BY <2>2, <2>5 DEF HistoryInv, QueuedBehind, Forgotten, HandIsNews
  <2> QED
    BY <1>1, <1>2, <2>3, <2>4, <2>6 DEF DeliveryInv
<1>7. CASE Stop
  <2>1. /\ owner'.active = 0 /\ task' = [task EXCEPT !.stage = "ended"]
    BY <1>7 DEF Stop
  <2>2. /\ task'.generation = task.generation /\ task'.cache = task.cache
        /\ task'.stage = "ended"
    BY <2>1 DEF DeliveryInv, PathTypes, Tasks
  <2>3. WindowInv'
    BY <2>2 DEF DeliveryInv, WindowInv
  <2>4. PathShape'
    <3>1. owner'.active = 0 /\ task'.generation <= owner'.generation
      BY <1>1, <1>3, <2>1, <2>2
    <3> QED
      BY <1>5, <2>2, <3>1 DEF PathShape
  <2>5. HistoryInv'
    BY <2>1 DEF HistoryInv
  <2> QED
    BY <1>1, <1>2, <2>3, <2>4, <2>5 DEF DeliveryInv
<1> QED
  BY <1>6, <1>7

LEMMA QuietDelivery ==
  ASSUME DeliveryInv, Quiet, WireTypes'
  PROVE  DeliveryInv'
<1>1. PathTypes'
  BY DEF DeliveryInv, Quiet, PathTypes
<1>2. PathShape'
  BY DEF DeliveryInv, Quiet, PathShape
<1>3. WindowInv'
  BY DEF DeliveryInv, Quiet, WindowInv
<1>4. HistoryInv' /\ HeardOnce'
  BY QuietHistory DEF DeliveryInv, Quiet
<1> QED
  BY <1>1, <1>2, <1>3, <1>4 DEF DeliveryInv

LEMMA TickDelivery ==
  ASSUME DeliveryInv, Tick
  PROVE  DeliveryInv'
<1>1. /\ UNCHANGED <<owner, task, hand, old, next, twitch, emitted, broken>>
      /\ now' = now + 1 /\ \A g \in Generations : hand[g] = NoHand
  BY DEF Tick, taskVars
<1>2. PathTypes' /\ WireTypes'
  BY <1>1 DEF DeliveryInv, PathTypes, WireTypes
<1>3. PathShape'
  <2>1. \A i \in DOMAIN emitted : emitted[i].at <= now + 1
    <3>1. \A i \in DOMAIN emitted : emitted[i].at \in Nat /\ emitted[i].at <= now
      BY EmissionType DEF DeliveryInv, PathShape
    <3> QED
      BY <3>1 DEF DeliveryInv, PathTypes
  <2> QED
    BY <1>1, <2>1 DEF DeliveryInv, PathShape
<1>4. WindowInv'
  BY <1>1 DEF DeliveryInv, WindowInv
<1>5. HistoryInv' /\ HeardOnce'
  BY <1>1, QuietHistory DEF DeliveryInv
<1> QED
  BY <1>2, <1>3, <1>4, <1>5 DEF DeliveryInv

LEMMA HearingDelivery ==
  ASSUME DeliveryInv, Hearing, WireTypes'
  PROVE  DeliveryInv'
<1>1. PICK id \in Ids : Hears(id)
  BY DEF Hearing
<1>2. /\ task' \in Tasks /\ hand' \in [Generations -> Nat] /\ WindowInv'
      /\ task'.generation = task.generation /\ task'.stage = task.stage
      /\ \A g \in Generations : hand'[g] # hand[g] => g = task.generation
  BY <1>1, HearingWindow DEF DeliveryInv, Hearing
<1>3. UNCHANGED <<owner, emitted, now>>
  BY DEF Hearing
<1>4. PathTypes'
  BY <1>2, <1>3 DEF DeliveryInv, PathTypes
<1>5. PathShape'
  BY <1>2, <1>3 DEF DeliveryInv, PathShape
<1>6. HistoryInv' /\ HeardOnce'
  BY HearingHistory DEF DeliveryInv
<1> QED
  BY <1>2, <1>4, <1>5, <1>6 DEF DeliveryInv

\* The steps of the event boundary and of the window leave the supervisor be.
Elsewhere ==
  \/ EventStep /\ UNCHANGED <<eventSubVars, view>>
  \/ WindowIsOpen /\ ViewStep /\ UNCHANGED eventSubVars

Stays ==
  \/ StartSession \/ SocketOpens \/ WakesUp \/ SessionWelcomed
  \/ HandoverBegins \/ NextOpens \/ NextFails \/ OldIgnored \/ NextWelcomed
  \/ Subscribed \/ OldReplaced \/ DrainCutShort

Sends ==
  \/ TwitchSends \/ TwitchSendsAgain \/ TwitchAsksToMove
  \/ TwitchCloses \/ TwitchRevokes \/ TwitchWelcomesNext

Fails ==
  \/ ConnectFails \/ KeepaliveExpires \/ SubscriptionFails \/ SubscriptionRefused
  \/ SocketCloses \/ Revoked \/ NextRevoked \/ DrainFails \/ HandoverExpires

LEMMA FailsAreQuiet ==
  ASSUME PathTypes, WireTypes, Fails
  PROVE  Quiet /\ WireTypes' /\ DropSockets
<1>1. /\ \E stage \in Stages \ {"ended"} : Runs(stage)
      /\ SessionFails \/ \E status : SessionEnds(status)
  BY DEF Fails, ConnectFails, KeepaliveExpires, SubscriptionFails, SubscriptionRefused,
         SocketCloses, Revoked, NextRevoked, DrainFails, HandoverExpires, Stages
<1>2. Quiet /\ WireTypes'
  BY <1>1, FailsQuietly
<1>3. DropSockets
  BY <1>1 DEF SessionFails, SessionEnds
<1> QED
  BY <1>2, <1>3

LEMMA StepKinds ==
  ASSUME [Next]_vars
  PROVE  \/ UNCHANGED eventSubVars
         \/ Stays \/ Fails \/ Sends \/ Tick \/ Connect \/ Stop
         \/ SessionHears \/ OldHears \/ NextHears
         \/ \E g \in Generations : Dispatch(g)
<1>1. CASE UNCHANGED vars \/ Elsewhere
  <2>1. UNCHANGED eventSubVars
    BY <1>1 DEF vars, Elsewhere
  <2> QED
    BY <2>1
<1>2. CASE TaskStep
  BY <1>2 DEF TaskStep, Stays, Fails
<1>3. CASE TwitchStep \/ CommandStep
  BY <1>3 DEF TwitchStep, CommandStep, Sends
<1> QED
  BY <1>1, <1>2, <1>3 DEF Next, Elsewhere

THEOREM DeliveryInvariance == Spec => []DeliveryInv
<1>1. Init => DeliveryInv
  <2> SUFFICES ASSUME Init PROVE DeliveryInv
    OBVIOUS
  <2>1. PathTypes /\ WireTypes /\ PathShape
    BY FirstStates
  <2>2. /\ owner.active = 0 /\ emitted = <<>>
        /\ task = [NewTask(0) EXCEPT !.stage = "ended"]
    BY DEF Init, EventSubInit
  <2>3. task.cache.order = <<>> /\ task.cache.seen = {}
    <3>1. 0 \in 0 .. MaxGeneration
      BY GenerationAssumption
    <3>2. NewTask(0) \in Tasks /\ NewTask(0).cache = NewCache
      BY <3>1, NewTaskType
    <3>3. task.cache = NewCache
      BY <2>2, <3>2 DEF Tasks
    <3> QED
      BY <3>3 DEF NewCache
  <2>4. WindowInv
    BY <2>3, CacheAssumption DEF WindowInv, Sound, IdsOf
  <2>5. HistoryInv /\ HeardOnce
    BY <2>2 DEF HistoryInv, HeardOnce
  <2> QED
    BY <2>1, <2>4, <2>5 DEF DeliveryInv
<1>2. DeliveryInv /\ [Next]_vars => DeliveryInv'
  <2> SUFFICES ASSUME DeliveryInv, [Next]_vars PROVE DeliveryInv'
    OBVIOUS
  <2>1. PathTypes /\ WireTypes
    BY DEF DeliveryInv
  <2>2. CASE UNCHANGED eventSubVars
    <3>1. Quiet /\ WireTypes'
      BY <2>1, <2>2 DEF eventSubVars, Quiet, PathTypes, WireTypes
    <3> QED
      BY <3>1, QuietDelivery
  <2>3. CASE Stays
    BY <2>1, <2>3, StagesQuietly, WelcomedQuietly, WireSteps, QuietDelivery DEF Stays
  <2>4. CASE Fails
    BY <2>1, <2>4, FailsAreQuiet, QuietDelivery
  <2>5. CASE SessionHears \/ OldHears \/ NextHears
    BY <2>1, <2>5, HearsAMessage, WireSteps, HearingDelivery
  <2>6. CASE \E g \in Generations : Dispatch(g)
    <3>1. PICK g \in Generations : Dispatch(g)
      BY <2>6
    <3>2. PathTypes' /\ PathShape' /\ HistoryInv' /\ HeardOnce' /\ UNCHANGED <<owner, task, now>>
      BY <3>1, DispatchHistory DEF DeliveryInv
    <3>3. WireTypes' /\ WindowInv'
      BY <2>1, <3>1 DEF Dispatch, WireTypes, WindowInv, DeliveryInv
    <3> QED
      BY <3>2, <3>3 DEF DeliveryInv
  <2>7. CASE Sends
    BY <2>1, <2>7, TwitchQuietly, QuietDelivery DEF Sends
  <2>8. CASE Tick
    BY <2>8, TickDelivery
  <2>9. CASE Connect \/ Stop
    BY <2>9, CommandHistory
  <2> QED
    BY <2>2, <2>3, <2>4, <2>5, <2>6, <2>7, <2>8, <2>9, StepKinds
<1> QED
  BY <1>1, <1>2, PTL DEF Spec

\* HeardOnce: a connection passes a message on twice only when the window of
\* known ids has lost it in between.
THEOREM MessagesAreHeardOnce == Spec => []HeardOnce
<1>1. DeliveryInv => HeardOnce
  BY DEF DeliveryInv
<1> QED
  BY <1>1, DeliveryInvariance, PTL

-----------------------------------------------------------------------------
(***************************************************************************)
(* The sockets.  A frame that ends a socket is its last; outside a handover*)
(* nothing waits on a second socket, and before the first welcome nothing  *)
(* waits on the socket in use unless one was given up unread.              *)
(***************************************************************************)
LastOnly(frames) ==
  \A i \in DOMAIN frames : frames[i].kind \in {"closed", "revoked"} => i = Len(frames)

SocketInv ==
  /\ LastOnly(old) /\ LastOnly(next.frames)
  /\ task.stage \in {"start", "connecting", "sleeping"} /\ ~broken => old = <<>>
  /\ task.stage \notin {"handover", "draining"} => next.phase # "open"
  /\ next.phase # "open" => next.frames = <<>>

PassedOn(id) == \E i \in DOMAIN emitted : emitted[i].id = id

\* What the window knows was passed on, or is about to be.
KnownInv == \A id \in task.cache.seen : id = hand[task.generation] \/ PassedOn(id)

HandoverInv ==
  /\ DeliveryInv
  /\ owner.active # 0 => SocketInv /\ KnownInv
  /\ HandoverLosesNothing

OnSocket(frames, id) == \E i \in DOMAIN frames : frames[i].id = id

LEMMA WaitingMeans ==
  \A id : id \in WaitingIds <=> \/ OnSocket(old, id) \/ OnSocket(next.frames, id)
                                \/ id = hand[task.generation]
BY DEF WaitingIds, OnSocket

LEMMA TailSocket ==
  ASSUME NEW frames \in Seq(Frames), frames # <<>>, LastOnly(frames)
  PROVE  /\ LastOnly(Tail(frames))
         /\ \A id : OnSocket(frames, id) => id = Head(frames).id \/ OnSocket(Tail(frames), id)
         /\ Head(frames).kind \in {"closed", "revoked"} => Len(frames) = 1
<1> DEFINE rest == Tail(frames)
           l == Len(frames)
<1>1. /\ l \in Nat \ {0} /\ rest \in Seq(Frames) /\ Len(rest) = l - 1
      /\ DOMAIN frames = 1 .. l /\ DOMAIN rest = 1 .. l - 1
      /\ \A i \in 1 .. l - 1 : rest[i] = frames[i + 1]
      /\ Head(frames) = frames[1]
  BY TailFacts
<1> HIDE DEF rest
<1>2. LastOnly(rest)
  <2> SUFFICES ASSUME NEW i \in 1 .. l - 1, rest[i].kind \in {"closed", "revoked"}
               PROVE  i = l - 1
    BY <1>1 DEF LastOnly
  <2>1. i + 1 \in 1 .. l /\ frames[i + 1].kind \in {"closed", "revoked"}
    BY <1>1
  <2>2. i + 1 = l
    BY <1>1, <2>1 DEF LastOnly
  <2> QED
    BY <1>1, <2>2
<1>3. ASSUME NEW i \in 1 .. l, i # 1
      PROVE  i - 1 \in 1 .. l - 1 /\ rest[i - 1] = frames[i]
  <2>1. i - 1 \in 1 .. l - 1 /\ (i - 1) + 1 = i
    BY <1>1, <1>3
  <2> QED
    BY <1>1, <2>1
<1>4. \A id : OnSocket(frames, id) => id = Head(frames).id \/ OnSocket(rest, id)
  BY <1>1, <1>3 DEF OnSocket
<1>5. Head(frames).kind \in {"closed", "revoked"} => l = 1
  BY <1>1 DEF LastOnly
<1> QED
  BY <1>2, <1>4, <1>5 DEF rest

LEMMA AppendSocket ==
  ASSUME NEW frames \in Seq(Frames), NEW frame \in Frames, CanCarry(frames)
  PROVE  /\ LastOnly(Append(frames, frame))
         /\ OnSocket(Append(frames, frame), frame.id)
         /\ \A id : OnSocket(frames, id) => OnSocket(Append(frames, frame), id)
<1> DEFINE more == Append(frames, frame)
           l == Len(frames)
<1>1. /\ l \in Nat /\ more \in Seq(Frames) /\ Len(more) = l + 1
      /\ DOMAIN frames = 1 .. l /\ DOMAIN more = 1 .. l + 1
      /\ \A i \in 1 .. l : more[i] = frames[i]
      /\ more[l + 1] = frame
  BY AppendFacts
<1> HIDE DEF more
<1>2. \A i : i \in 1 .. l + 1 <=> (i \in 1 .. l \/ i = l + 1)
  BY <1>1
<1>3. \A i \in 1 .. l : frames[i].kind \notin {"closed", "revoked"}
  BY <1>1 DEF CanCarry
<1> QED
  BY <1>1, <1>2, <1>3 DEF LastOnly, OnSocket, more

LEMMA EmptySockets ==
  /\ LastOnly(<<>>) /\ \A id : ~ OnSocket(<<>>, id)
  /\ NoNext.frames = <<>> /\ NoNext.phase = "none"
BY DEF LastOnly, OnSocket, NoNext

\* A step that leaves every message where it will be read, or passed on.
LEMMA NothingIsLost ==
  ASSUME WireTypes, HandoverLosesNothing, owner'.active # 0 => owner.active # 0,
         owner'.active # 0 /\ ~broken' => ~broken,
         twitch'.before = twitch.before,
         \/ twitch'.sent = twitch.sent
         \/ twitch'.sent = twitch.sent + 1 /\ twitch'.sent \in WaitingIds',
         owner'.active # 0 /\ ~broken' =>
           \A id \in Ids : id \in WaitingIds \/ PassedOn(id) =>
                           id \in WaitingIds' \/ PassedOn(id)'
  PROVE  HandoverLosesNothing'
<1> SUFFICES ASSUME owner'.active # 0, ~broken', NEW id \in twitch'.before + 1 .. twitch'.sent
             PROVE  id \in WaitingIds' \/ PassedOn(id)'
  BY DEF HandoverLosesNothing, PassedOn
<1>1. /\ twitch.before \in Nat /\ twitch.sent \in Nat /\ id \in Ids
      /\ id = twitch'.sent \/ id \in twitch.before + 1 .. twitch.sent
  BY DEF WireTypes, Links, Ids
<1>2. CASE id \in twitch.before + 1 .. twitch.sent
  <2>1. id \in WaitingIds \/ PassedOn(id)
    BY <1>2 DEF HandoverLosesNothing, PassedOn
  <2> QED
    BY <1>1, <2>1
<1>3. CASE id = twitch'.sent
  BY <1>1, <1>2, <1>3
<1> QED
  BY <1>1, <1>2, <1>3

\* What a step leaves of the sockets while the connection is the active one.
Keeping ==
  /\ SocketInv'
  /\ ~broken' => ~broken /\ \A id \in Ids : id \in WaitingIds \/ PassedOn(id) =>
                                            id \in WaitingIds' \/ PassedOn(id)'

LEMMA StagesKeep ==
  ASSUME PathTypes, WireTypes, SocketInv, StartSession \/ WakesUp \/ Subscribed
  PROVE  Keeping /\ twitch'.sent = twitch.sent /\ twitch'.before = twitch.before
<1>1. UNCHANGED <<old, next, broken, hand, emitted, owner>>
  BY DEF StartSession, WakesUp, Subscribed, KeepsSockets, KeepsHands, Keeps
<1>2. twitch'.sent = twitch.sent /\ twitch'.before = twitch.before
  BY DEF StartSession, WakesUp, Subscribed, KeepsSockets, WelcomeCompleted, WireTypes, Links
<1>3. \/ task.stage \in {"start", "sleeping"} /\ task'.stage \in {"connecting", "start"}
      \/ task.stage = "subscribing" /\ task'.stage = "session"
  BY DEF StartSession, WakesUp, Subscribed, WelcomeCompleted, Runs, PathTypes, Tasks
<1>4. SocketInv'
  BY <1>1, <1>3 DEF SocketInv, LastOnly
<1>5. task'.generation = task.generation
  BY StagesQuietly, WelcomedQuietly DEF Quiet
<1>6. \A id : (id \in WaitingIds' <=> id \in WaitingIds) /\ (PassedOn(id)' <=> PassedOn(id))
  BY <1>1, <1>5 DEF WaitingIds, PassedOn
<1> QED
  BY <1>1, <1>2, <1>4, <1>6 DEF Keeping

LEMMA OpeningKeeps ==
  ASSUME PathTypes, WireTypes, SocketInv, SocketOpens
  PROVE  Keeping /\ twitch' = twitch
<1>1. /\ UNCHANGED <<next, twitch, broken, hand, emitted, owner>>
      /\ old' = <<Frame("welcome")>> /\ task.stage = "connecting" /\ task'.stage = "session"
  BY DEF SocketOpens, KeepsHands, Keeps, Runs, PathTypes, Tasks
<1>2. LastOnly(old')
  BY <1>1 DEF LastOnly
<1>3. SocketInv'
  BY <1>1, <1>2 DEF SocketInv
<1>4. task'.generation = task.generation
  BY StagesQuietly DEF Quiet
<1>5. ~broken' => \A id : id \in WaitingIds => id \in WaitingIds'
  <2>1. ~broken' => \A id : ~ OnSocket(old, id)
    BY <1>1, EmptySockets DEF SocketInv
  <2>2. \A id : id \in WaitingIds' <=> \/ OnSocket(old, id)' \/ OnSocket(next.frames, id)'
                                       \/ id = hand'[task'.generation]
    BY DEF WaitingIds, OnSocket
  <2>3. \A id : OnSocket(next.frames, id)' <=> OnSocket(next.frames, id)
    BY <1>1 DEF OnSocket
  <2> QED
    BY <1>1, <1>4, <2>1, <2>2, <2>3, WaitingMeans
<1>6. \A id : PassedOn(id)' <=> PassedOn(id)
  BY <1>1 DEF PassedOn
<1> QED
  BY <1>1, <1>3, <1>5, <1>6 DEF Keeping

\* A frame without a message is read from the socket in use.
LEMMA OldReadKeeps ==
  ASSUME PathTypes, WireTypes, SocketInv,
         SessionWelcomed \/ OldIgnored \/ HandoverBegins
  PROVE  Keeping /\ twitch' = twitch
<1>1. /\ UNCHANGED <<twitch, broken, hand, emitted, owner>>
      /\ old # <<>> /\ old' = Tail(old) /\ Head(old).kind \in {"welcome", "reconnect"}
  BY DEF SessionWelcomed, OldIgnored, HandoverBegins, ReadsOld, OnOld, KeepsHands, Keeps
<1>2. /\ task.stage \in {"session", "handover", "draining"}
      /\ task'.stage \in {"subscribing", "handover", "draining"}
      /\ task.stage = "session" \/ task'.stage = task.stage
      /\ \/ next' = next
         \/ /\ task.stage = "session"
            /\ next'.frames = <<>> /\ task'.stage = "handover"
  BY EmptySockets
     DEF SessionWelcomed, OldIgnored, HandoverBegins, ReadsOld, Runs, PathTypes, Tasks, NoNext
<1>3. old \in Seq(Frames) /\ Head(old) \in Frames /\ Head(old).id = 0
  BY <1>1, TailFacts DEF WireTypes, Frames
<1>4. LastOnly(old') /\ \A id \in Ids : OnSocket(old, id) => OnSocket(old', id)
  BY <1>1, <1>3, TailSocket DEF SocketInv, Ids
<1>5. LastOnly(next'.frames)
  BY <1>2, EmptySockets DEF SocketInv
<1>6. SocketInv'
  BY <1>1, <1>2, <1>4, <1>5 DEF SocketInv
<1>7. task'.generation = task.generation
  BY StagesQuietly DEF Quiet
<1>8. \A id \in Ids : id \in WaitingIds => id \in WaitingIds'
  <2>1. \A id : id \in WaitingIds' <=> \/ OnSocket(old', id) \/ OnSocket(next'.frames, id)
                                       \/ id = hand'[task'.generation]
    BY DEF WaitingIds, OnSocket
  <2>2. \A id : OnSocket(next.frames, id) => OnSocket(next'.frames, id)
    BY <1>2, EmptySockets DEF SocketInv
  <2> QED
    BY <1>1, <1>4, <1>7, <2>1, <2>2, WaitingMeans
<1>9. \A id : PassedOn(id)' <=> PassedOn(id)
  BY <1>1 DEF PassedOn
<1> QED
  BY <1>1, <1>6, <1>8, <1>9 DEF Keeping

LEMMA NextOpeningKeeps ==
  ASSUME PathTypes, WireTypes, SocketInv, NextOpens \/ NextFails
  PROVE  Keeping /\ twitch' = twitch
<1>1. UNCHANGED <<task, old, twitch, hand, emitted, owner>> /\ task.stage = "handover"
  BY DEF NextOpens, NextFails, KeepsHands, Keeps, Runs
<1>2. \/ broken' = TRUE /\ next'.frames = <<>>
      \/ broken' = broken /\ next'.frames = next.frames /\ next.phase = "opening"
  BY DEF NextOpens, NextFails, WireTypes, NextOnes, NoNext
<1>3. next'.frames = <<>>
  BY <1>2 DEF SocketInv
<1>4. SocketInv'
  BY <1>1, <1>3, EmptySockets DEF SocketInv
<1>5. ~broken' => next'.frames = next.frames
  BY <1>2
<1>6. ~broken' => \A id : id \in WaitingIds => id \in WaitingIds'
  BY <1>1, <1>5 DEF WaitingIds
<1>7. \A id : PassedOn(id)' <=> PassedOn(id)
  BY <1>1 DEF PassedOn
<1> QED
  BY <1>1, <1>2, <1>4, <1>6, <1>7 DEF Keeping

LEMMA NextWelcomedKeeps ==
  ASSUME PathTypes, WireTypes, SocketInv, NextWelcomed
  PROVE  Keeping /\ twitch' = twitch
<1>1. /\ UNCHANGED <<old, twitch, broken, hand, emitted, owner>>
      /\ next.frames # <<>> /\ Head(next.frames).kind = "welcome"
      /\ next' = [next EXCEPT !.frames = Tail(@)]
      /\ task' = [task EXCEPT !.stage = "draining"] /\ task.stage = "handover"
  BY DEF NextWelcomed, OnNext, KeepsHands, Keeps, Runs
<1>2. /\ next.frames \in Seq(Frames) /\ next'.frames = Tail(next.frames)
      /\ next'.phase = next.phase
  BY <1>1 DEF WireTypes, NextOnes
<1>3. Head(next.frames) \in Frames /\ Head(next.frames).id = 0
  BY <1>1, <1>2, TailFacts DEF Frames
<1>4. /\ LastOnly(next'.frames)
      /\ \A id \in Ids : OnSocket(next.frames, id) => OnSocket(next'.frames, id)
  BY <1>1, <1>2, <1>3, TailSocket DEF SocketInv, Ids
<1>5. task'.stage = "draining" /\ task'.generation = task.generation
  BY <1>1 DEF PathTypes, Tasks
<1>6. next.phase = "open"
  BY <1>1 DEF SocketInv
<1>7. SocketInv'
  BY <1>1, <1>2, <1>4, <1>5, <1>6 DEF SocketInv
<1>8. \A id \in Ids : id \in WaitingIds => id \in WaitingIds'
  <2>1. \A id : id \in WaitingIds' <=> \/ OnSocket(old', id) \/ OnSocket(next'.frames, id)
                                       \/ id = hand'[task'.generation]
    BY DEF WaitingIds, OnSocket
  <2> QED
    BY <1>1, <1>4, <1>5, <2>1, WaitingMeans
<1>9. \A id : PassedOn(id)' <=> PassedOn(id)
  BY <1>1 DEF PassedOn
<1> QED
  BY <1>1, <1>7, <1>8, <1>9 DEF Keeping

\* The handover is complete: nothing waits on the old socket any more, or it
\* counts as broken.
LEMMA ReplacingKeeps ==
  ASSUME PathTypes, WireTypes, SocketInv, OldReplaced \/ DrainCutShort
  PROVE  Keeping /\ twitch'.sent = twitch.sent /\ twitch'.before = twitch.before
<1>1. /\ UNCHANGED <<hand, emitted, owner>>
      /\ old' = next.frames /\ next' = NoNext /\ task'.stage = "session"
  BY DEF OldReplaced, DrainCutShort, KeepsHands, Keeps, WelcomeCompleted, PathTypes, Tasks
<1>2. twitch'.sent = twitch.sent /\ twitch'.before = twitch.before
  BY DEF OldReplaced, DrainCutShort, WelcomeCompleted, WireTypes, Links
<1>3. SocketInv'
  BY <1>1, EmptySockets DEF SocketInv
<1>4. task'.generation = task.generation
  BY WelcomedQuietly DEF Quiet
<1>5. ~broken' => ~broken /\ \A id \in Ids : ~ OnSocket(old, id)
  <2>1. CASE DrainCutShort
    BY <2>1 DEF DrainCutShort
  <2>2. CASE OldReplaced
    <3>1. broken' = broken /\ (old = <<>> \/ (old # <<>> /\ Head(old).kind = "closed"))
      BY <2>2 DEF OldReplaced, Drained, OnOld
    <3>2. CASE old = <<>>
      BY <3>1, <3>2, EmptySockets
    <3>3. CASE old # <<>> /\ Head(old).kind = "closed"
      <4>1. /\ old \in Seq(Frames) /\ Head(old) \in Frames /\ Head(old) = old[1]
            /\ DOMAIN old = 1 .. Len(old) /\ Len(old) = 1
        BY <3>3, TailFacts, TailSocket DEF WireTypes, SocketInv
      <4>2. Head(old).id = 0
        BY <3>3, <4>1 DEF Frames
      <4> QED
        BY <3>1, <4>1, <4>2 DEF OnSocket, Ids
    <3> QED
      BY <3>1, <3>2, <3>3
  <2> QED
    BY <2>1, <2>2
<1>6. ~broken' => \A id \in Ids : id \in WaitingIds => id \in WaitingIds'
  <2>1. \A id : id \in WaitingIds' <=> \/ OnSocket(old', id) \/ OnSocket(next'.frames, id)
                                       \/ id = hand'[task'.generation]
    BY DEF WaitingIds, OnSocket
  <2> QED
    BY <1>1, <1>4, <1>5, <2>1, WaitingMeans
<1>7. \A id : PassedOn(id)' <=> PassedOn(id)
  BY <1>1 DEF PassedOn
<1> QED
  BY <1>2, <1>3, <1>5, <1>6, <1>7 DEF Keeping

\* A message read from a socket is known already, and then it was passed on,
\* or it is in hand.
LEMMA HearingKeeps ==
  ASSUME DeliveryInv, SocketInv, KnownInv, SessionHears \/ OldHears \/ NextHears
  PROVE  Keeping /\ KnownInv' /\ twitch' = twitch
<1> DEFINE g == task.generation
<1>1. PathTypes /\ WireTypes /\ PathShape /\ WindowInv
  BY DEF DeliveryInv
<1>2. Hearing
  BY <1>1, HearsAMessage
<1>3. PICK id \in Ids :
        /\ Hears(id)
        /\ \/ /\ old # <<>> /\ Head(old).id = id /\ old' = Tail(old) /\ next' = next
           \/ /\ next.frames # <<>> /\ Head(next.frames).id = id
              /\ next' = [next EXCEPT !.frames = Tail(@)] /\ old' = old
  <2>1. CASE SessionHears \/ OldHears
    <3>1. Head(old) \in Frames /\ Head(old).kind = "chat"
      BY <1>1, <2>1, TailFacts DEF SessionHears, OldHears, OnOld, WireTypes
    <3>2. Head(old).id \in Ids
      BY <3>1, FrameTypes
    <3>3. /\ Hears(Head(old).id) /\ old # <<>> /\ old' = Tail(old) /\ next' = next
      BY <2>1 DEF SessionHears, OldHears, OnOld, ReadsOld
    <3> QED
      BY <3>2, <3>3
  <2>2. CASE NextHears
    <3>1. next.frames \in Seq(Frames)
      BY <1>1 DEF WireTypes, NextOnes
    <3>2. Head(next.frames) \in Frames /\ Head(next.frames).kind = "chat"
      BY <2>2, <3>1, TailFacts DEF NextHears, OnNext
    <3>3. Head(next.frames).id \in Ids
      BY <3>2, FrameTypes
    <3> QED
      BY <2>2, <3>3 DEF NextHears, OnNext
  <2> QED
    BY <2>1, <2>2
<1>4. /\ UNCHANGED <<owner, emitted, twitch, broken>> /\ hand[g] = NoHand
      /\ task.stage # "ended"
  BY <1>2 DEF Hearing, SessionHears, OldHears, NextHears, ReadsOld
<1>5. /\ WindowInv' /\ task'.generation = g /\ task'.stage = task.stage
      /\ task'.cache \in Caches
      /\ \E c \in 0 .. Len(task.cache.order) :
           \/ /\ hand' = hand /\ id \in task.cache.seen
              /\ Len(task'.cache.order) = Len(task.cache.order) - c
              /\ \A m \in 1 .. Len(task.cache.order) - c :
                   task'.cache.order[m] = task.cache.order[m + c]
           \/ hand'[g] = id
  BY <1>1, <1>2, <1>3, HearingWindow DEF Hearing, Tasks
<1>6. task'.cache.seen \subseteq task.cache.seen \cup {id}
  <2>1. task.cache \in Caches /\ task \in Tasks
    BY <1>1 DEF PathTypes, Tasks
  <2>2. task'.cache = Insert(task.cache, id, now)
    BY <1>3, <2>1 DEF Hears, Tasks
  <2> DEFINE live  == RemoveExpired(task.cache, now)
             grown == [seen  |-> live.seen \cup {id},
                       order |-> Append(live.order, [id |-> id, at |-> now])]
  <2>3. \A cache, n : Forget(cache, n).seen \subseteq cache.seen
    BY DEF Forget
  <2>4. live.seen \subseteq task.cache.seen
    BY <2>3 DEF RemoveExpired
  <2>5. Remembered(live, id, now) = grown
        \/ \E n : Remembered(live, id, now) = Forget(grown, n)
    BY DEF Remembered
  <2>6. Remembered(live, id, now).seen \subseteq live.seen \cup {id}
    BY <2>3, <2>5
  <2>7. task'.cache = live \/ task'.cache = Remembered(live, id, now)
    BY <2>2 DEF Insert
  <2> HIDE DEF live
  <2> QED
    BY <2>4, <2>6, <2>7
<1>7. \A i \in task.cache.seen : PassedOn(i)
  <2>1. \A i \in task.cache.seen : i \in Ids
    BY <1>1 DEF PathTypes, Tasks, Caches
  <2> QED
    BY <1>4, <2>1 DEF KnownInv, NoHand, Ids
<1>8. \A i : PassedOn(i)' <=> PassedOn(i)
  BY <1>4 DEF PassedOn
<1>9. PassedOn(id) \/ id = hand'[g]
  BY <1>5, <1>7
<1>10. KnownInv'
  BY <1>5, <1>6, <1>7, <1>8, <1>9 DEF KnownInv
<1>11. /\ old \in Seq(Frames) /\ next \in NextOnes /\ next.frames \in Seq(Frames)
       /\ LastOnly(old) /\ LastOnly(next.frames)
  BY <1>1 DEF WireTypes, NextOnes, SocketInv
<1>12. /\ LastOnly(old') /\ LastOnly(next'.frames) /\ next'.phase = next.phase
       /\ old = <<>> => old' = <<>>
       /\ next.frames = <<>> => next'.frames = <<>>
       /\ \A i : OnSocket(old, i) => i = id \/ OnSocket(old', i)
       /\ \A i : OnSocket(next.frames, i) => i = id \/ OnSocket(next'.frames, i)
  <2>1. CASE old # <<>> /\ Head(old).id = id /\ old' = Tail(old) /\ next' = next
    BY <1>11, <2>1, TailSocket
  <2>2. CASE /\ next.frames # <<>> /\ Head(next.frames).id = id
             /\ next' = [next EXCEPT !.frames = Tail(@)] /\ old' = old
    <3>1. next'.frames = Tail(next.frames) /\ next'.phase = next.phase
      BY <1>11, <2>2 DEF NextOnes
    <3> QED
      BY <1>11, <2>2, <3>1, TailSocket
  <2> QED
    BY <1>3, <2>1, <2>2
<1>13. SocketInv'
  BY <1>4, <1>5, <1>12 DEF SocketInv
<1>14. \A i \in Ids : i \in WaitingIds => i \in WaitingIds' \/ PassedOn(i)
  <2>1. \A i : i \in WaitingIds' <=> \/ OnSocket(old', i) \/ OnSocket(next'.frames, i)
                                     \/ i = hand'[task'.generation]
    BY DEF WaitingIds, OnSocket
  <2>2. \A i \in Ids : i # hand[g]
    BY <1>4 DEF NoHand, Ids
  <2> QED
    BY <1>5, <1>9, <1>12, <2>1, <2>2, WaitingMeans
<1> QED
  BY <1>4, <1>8, <1>10, <1>13, <1>14 DEF Keeping

LEMMA DispatchKeeps ==
  ASSUME DeliveryInv, SocketInv, KnownInv, owner.active # 0,
         NEW g \in Generations, Dispatch(g)
  PROVE  Keeping /\ KnownInv' /\ twitch' = twitch
<1>1. /\ UNCHANGED <<owner, task, old, next, twitch, broken>>
      /\ hand' = [hand EXCEPT ![g] = NoHand]
  BY DEF Dispatch
<1>2. SocketInv'
  BY <1>1 DEF SocketInv, LastOnly
<1> PICK h \in Ids : h = hand[g]
  BY DEF Dispatch, DeliveryInv, PathTypes, NoHand, Ids
<1>3. emitted \in Seq(Emissions) /\ DOMAIN emitted = 1 .. Len(emitted) /\ Len(emitted) \in Nat
  BY DEF DeliveryInv, PathTypes
<1>4. /\ \A i : PassedOn(i) => PassedOn(i)'
      /\ owner.active = g => PassedOn(h)'
  <2>1. CASE owner.active # g
    <3>1. emitted' = emitted
      BY <2>1 DEF Dispatch
    <3> QED
      BY <2>1, <3>1 DEF PassedOn
  <2>2. CASE owner.active = g
    <3> DEFINE message == [generation |-> g, id |-> hand[g], at |-> now,
                           listened |-> "chat" \in listening]
    <3>1. emitted' = Append(emitted, message)
      BY <2>2 DEF Dispatch
    <3>2. message \in Emissions /\ message.id = h
      <4>1. hand[g] = h /\ now \in Nat
        BY DEF DeliveryInv, PathTypes
      <4> QED
        BY <4>1 DEF Emissions
    <3> HIDE DEF message
    <3>3. /\ DOMAIN emitted' = 1 .. Len(emitted) + 1
          /\ \A i \in 1 .. Len(emitted) : emitted'[i] = emitted[i]
          /\ emitted'[Len(emitted) + 1] = message
      BY <1>3, <3>1, <3>2, AppendFacts
    <3>4. Len(emitted) + 1 \in DOMAIN emitted' /\ \A i \in DOMAIN emitted : i \in DOMAIN emitted'
      BY <1>3, <3>3
    <3> QED
      BY <1>3, <3>2, <3>3, <3>4 DEF PassedOn
  <2> QED
    BY <2>1, <2>2
<1>5. /\ task.generation = owner.active /\ task.generation \in Generations
      /\ hand \in [Generations -> Nat]
  BY DEF DeliveryInv, PathShape, PathTypes, Generations
<1>6. \A id : id = hand[task.generation] => id = hand'[task'.generation] \/ PassedOn(id)'
  BY <1>1, <1>4, <1>5
<1>7. KnownInv'
  BY <1>1, <1>4, <1>6 DEF KnownInv
<1>8. \A id \in Ids : id \in WaitingIds => id \in WaitingIds' \/ PassedOn(id)'
  <2>1. \A id : id \in WaitingIds' <=> \/ OnSocket(old', id) \/ OnSocket(next'.frames, id)
                                       \/ id = hand'[task'.generation]
    BY DEF WaitingIds, OnSocket
  <2> QED
    BY <1>1, <1>6, <2>1, WaitingMeans
<1> QED
  BY <1>1, <1>2, <1>4, <1>7, <1>8 DEF Keeping

LEMMA SendingKeeps ==
  ASSUME PathTypes, WireTypes, SocketInv, Sends
  PROVE  /\ Keeping /\ twitch'.before = twitch.before
         /\ \/ twitch'.sent = twitch.sent
            \/ twitch'.sent = twitch.sent + 1 /\ twitch'.sent \in WaitingIds'
<1>1. Environment /\ UNCHANGED <<owner, task, hand, now, emitted, broken>>
  BY DEF Sends, TwitchSends, TwitchSendsAgain, TwitchAsksToMove, TwitchCloses, TwitchRevokes,
         TwitchWelcomesNext, Environment
<1>2. /\ twitch \in Links /\ next \in NextOnes /\ old \in Seq(Frames)
      /\ next.frames \in Seq(Frames)
  BY DEF WireTypes, NextOnes
<1>3. \E frame \in Frames :
        /\ \/ OldIsLive /\ old' = Append(old, frame) /\ next' = next
           \/ NextIsLive /\ old' = old /\ next' = [next EXCEPT !.frames = Append(@, frame)]
        /\ \/ twitch' = twitch
           \/ twitch' = [twitch EXCEPT !.sent = @ + 1] /\ frame.id = twitch.sent + 1
  <2>1. CASE TwitchSends
    <3>1. twitch.sent + 1 \in Ids
      BY <1>2 DEF Links, Ids
    <3> DEFINE frame == [kind |-> "chat", id |-> twitch.sent + 1]
    <3>2. frame \in Frames /\ frame.id = twitch.sent + 1
      BY <3>1, FrameTypes
    <3>3. Carries(frame) /\ twitch' = [twitch EXCEPT !.sent = @ + 1]
      BY <2>1 DEF TwitchSends
    <3> HIDE DEF frame
    <3> QED
      BY <3>2, <3>3 DEF Carries
  <2>2. CASE TwitchSendsAgain
    <3>1. \A id \in twitch.before + 1 .. twitch.sent : id \in Ids
      BY <1>2 DEF Links, Ids
    <3>2. PICK id \in twitch.before + 1 .. twitch.sent : Carries([kind |-> "chat", id |-> id])
      BY <2>2 DEF TwitchSendsAgain
    <3>3. [kind |-> "chat", id |-> id] \in Frames
      BY <3>1, FrameTypes
    <3>4. twitch' = twitch
      BY <2>2 DEF TwitchSendsAgain
    <3> QED
      BY <3>2, <3>3, <3>4 DEF Carries
  <2>3. CASE TwitchAsksToMove
    BY <2>3, FrameTypes DEF TwitchAsksToMove
  <2>4. CASE TwitchCloses
    BY <2>4, FrameTypes DEF TwitchCloses
  <2>5. CASE TwitchRevokes
    BY <2>5, FrameTypes DEF TwitchRevokes, Carries
  <2>6. CASE TwitchWelcomesNext
    BY <2>6, FrameTypes DEF TwitchWelcomesNext
  <2> QED
    BY <2>1, <2>2, <2>3, <2>4, <2>5, <2>6 DEF Sends
<1>4. PICK frame \in Frames :
        /\ \/ OldIsLive /\ old' = Append(old, frame) /\ next' = next
           \/ NextIsLive /\ old' = old /\ next' = [next EXCEPT !.frames = Append(@, frame)]
        /\ \/ twitch' = twitch
           \/ twitch' = [twitch EXCEPT !.sent = @ + 1] /\ frame.id = twitch.sent + 1
  BY <1>3
<1>5. /\ SocketInv'
      /\ OnSocket(old', frame.id) \/ OnSocket(next'.frames, frame.id)
      /\ \A id : OnSocket(old, id) => OnSocket(old', id)
      /\ \A id : OnSocket(next.frames, id) => OnSocket(next'.frames, id)
  <2>1. CASE OldIsLive /\ old' = Append(old, frame) /\ next' = next
    <3>1. CanCarry(old) /\ task.stage \in {"session", "handover", "draining"}
      BY <2>1 DEF OldIsLive
    <3>2. /\ LastOnly(old') /\ OnSocket(old', frame.id)
          /\ \A id : OnSocket(old, id) => OnSocket(old', id)
      BY <1>2, <2>1, <3>1, AppendSocket
    <3> QED
      BY <1>1, <2>1, <3>1, <3>2 DEF SocketInv
  <2>2. CASE NextIsLive /\ old' = old /\ next' = [next EXCEPT !.frames = Append(@, frame)]
    <3>1. /\ next'.frames = Append(next.frames, frame) /\ next'.phase = next.phase
          /\ CanCarry(next.frames) /\ next.phase = "open"
      BY <1>2, <2>2 DEF NextIsLive, NextOnes
    <3>2. /\ LastOnly(next'.frames) /\ OnSocket(next'.frames, frame.id)
          /\ \A id : OnSocket(next.frames, id) => OnSocket(next'.frames, id)
      BY <1>2, <3>1, AppendSocket
    <3> QED
      BY <1>1, <2>2, <3>1, <3>2 DEF SocketInv
  <2> QED
    BY <1>4, <2>1, <2>2
<1>6. \A id : id \in WaitingIds' <=> \/ OnSocket(old', id) \/ OnSocket(next'.frames, id)
                                     \/ id = hand'[task'.generation]
  BY DEF WaitingIds, OnSocket
<1>7. \A id : id \in WaitingIds => id \in WaitingIds'
  BY <1>1, <1>5, <1>6, WaitingMeans
<1>8. frame.id \in WaitingIds'
  BY <1>5, <1>6
<1>9. \A id : PassedOn(id)' <=> PassedOn(id)
  BY <1>1 DEF PassedOn
<1>10. /\ twitch'.before = twitch.before
       /\ \/ twitch'.sent = twitch.sent
          \/ twitch'.sent = twitch.sent + 1 /\ twitch'.sent = frame.id
  BY <1>2, <1>4 DEF Links
<1> QED
  BY <1>1, <1>5, <1>7, <1>8, <1>9, <1>10 DEF Keeping

\* Steps that neither hear nor dispatch leave what the window knows.
LEMMA QuietKnows ==
  ASSUME Quiet, KnownInv
  PROVE  KnownInv'
BY DEF Quiet, KnownInv, PassedOn

LEMMA KeepingHandover ==
  ASSUME HandoverInv, DeliveryInv', owner' = owner,
         owner.active # 0 => Keeping /\ KnownInv',
         twitch'.before = twitch.before,
         \/ twitch'.sent = twitch.sent
         \/ owner.active # 0 => twitch'.sent = twitch.sent + 1 /\ twitch'.sent \in WaitingIds'
  PROVE  HandoverInv'
<1>1. CASE owner.active = 0
  BY <1>1 DEF HandoverInv, HandoverLosesNothing
<1>2. CASE owner.active # 0
  <2>1. HandoverLosesNothing'
    BY <1>2, NothingIsLost DEF Keeping, HandoverInv, DeliveryInv
  <2> QED
    BY <1>2, <2>1 DEF Keeping, HandoverInv
<1> QED
  BY <1>1, <1>2

LEMMA StaysKeep ==
  ASSUME PathTypes, WireTypes, SocketInv, Stays
  PROVE  Keeping /\ twitch'.sent = twitch.sent /\ twitch'.before = twitch.before
BY StagesKeep, OpeningKeeps, OldReadKeeps, NextOpeningKeeps, NextWelcomedKeeps, ReplacingKeeps
   DEF Stays

LEMMA StaysLink ==
  ASSUME WireTypes, Stays
  PROVE  twitch'.sent = twitch.sent /\ twitch'.before = twitch.before
<1>1. twitch' = twitch \/ \E b : twitch' = [twitch EXCEPT !.subscribed = b]
  BY DEF Stays, StartSession, SocketOpens, WakesUp, SessionWelcomed, HandoverBegins, NextOpens,
         NextFails, OldIgnored, NextWelcomed, Subscribed, OldReplaced, DrainCutShort,
         KeepsSockets, ReadsOld, WelcomeCompleted
<1> QED
  BY <1>1 DEF WireTypes, Links

THEOREM HandoverInvariance == Spec => []HandoverInv
<1>1. Init /\ DeliveryInv => HandoverInv
  BY DEF Init, EventSubInit, HandoverInv, HandoverLosesNothing
<1>2. HandoverInv /\ DeliveryInv' /\ [Next]_vars => HandoverInv'
  <2> SUFFICES ASSUME HandoverInv, DeliveryInv', [Next]_vars PROVE HandoverInv'
    OBVIOUS
  <2>1. /\ DeliveryInv /\ PathTypes /\ WireTypes
        /\ owner.active # 0 => SocketInv /\ KnownInv
    BY DEF HandoverInv, DeliveryInv
  <2>2. CASE UNCHANGED eventSubVars
    <3>1. UNCHANGED <<owner, task, hand, old, next, twitch, emitted, broken>>
      BY <2>2 DEF eventSubVars
    <3> QED
      BY <3>1 DEF HandoverInv, SocketInv, LastOnly, KnownInv, PassedOn, HandoverLosesNothing,
                  WaitingIds
  <2>3. CASE Tick
    <3>1. UNCHANGED <<owner, task, hand, old, next, twitch, emitted, broken>>
      BY <2>3 DEF Tick, taskVars
    <3> QED
      BY <3>1 DEF HandoverInv, SocketInv, LastOnly, KnownInv, PassedOn, HandoverLosesNothing,
                  WaitingIds
  <2>4. CASE Stays
    <3>1. Quiet
      BY <2>1, <2>4, StagesQuietly, WelcomedQuietly DEF Stays
    <3>2. twitch'.sent = twitch.sent /\ twitch'.before = twitch.before
      BY <2>1, <2>4, StaysLink
    <3>3. owner.active # 0 => Keeping /\ KnownInv'
      BY <2>1, <2>4, <3>1, StaysKeep, QuietKnows
    <3> QED
      BY <3>1, <3>2, <3>3, KeepingHandover DEF Quiet
  <2>5. CASE Fails
    <3>1. Quiet /\ DropSockets
      BY <2>1, <2>5, FailsAreQuiet
    <3>2. /\ old' = <<>> /\ next' = NoNext /\ broken' = TRUE
      BY <3>1 DEF DropSockets
    <3>3. SocketInv' /\ HandoverLosesNothing'
      BY <3>2, EmptySockets DEF SocketInv, HandoverLosesNothing
    <3> QED
      BY <2>1, <3>1, <3>3, QuietKnows DEF HandoverInv, Quiet
  <2>6. CASE SessionHears \/ OldHears \/ NextHears
    <3>1. owner' = owner /\ twitch' = twitch
      BY <2>6 DEF SessionHears, OldHears, NextHears, ReadsOld, Keeps
    <3>2. owner.active # 0 => Keeping /\ KnownInv'
      BY <2>1, <2>6, HearingKeeps
    <3> QED
      BY <3>1, <3>2, KeepingHandover
  <2>7. CASE \E g \in Generations : Dispatch(g)
    <3>1. owner' = owner /\ twitch' = twitch
      BY <2>7 DEF Dispatch
    <3>2. owner.active # 0 => Keeping /\ KnownInv'
      BY <2>1, <2>7, DispatchKeeps
    <3> QED
      BY <3>1, <3>2, KeepingHandover
  <2>8. CASE Sends
    <3>1. Quiet
      BY <2>1, <2>8, TwitchQuietly DEF Sends
    <3>2. CASE owner.active = 0
      <4>1. owner'.active = 0
        BY <3>1, <3>2 DEF Quiet
      <4> QED
        BY <4>1 DEF HandoverInv, HandoverLosesNothing
    <3>3. CASE owner.active # 0
      <4>1. /\ Keeping /\ twitch'.before = twitch.before
            /\ \/ twitch'.sent = twitch.sent
               \/ twitch'.sent = twitch.sent + 1 /\ twitch'.sent \in WaitingIds'
        BY <2>1, <2>8, <3>3, SendingKeeps
      <4> QED
        BY <2>1, <3>1, <3>3, <4>1, QuietKnows, KeepingHandover DEF Quiet
    <3> QED
      BY <3>2, <3>3
  <2>9. CASE Connect
    <3>1. /\ old' = <<>> /\ next' = NoNext /\ twitch'.before = twitch'.sent
          /\ twitch'.sent \in Nat
          /\ task' = NewTask(owner.generation + 1) /\ emitted' = emitted
      BY <2>1, <2>9 DEF Connect, LeavesSockets, WireTypes, Links
    <3>2. task'.cache.seen = {} /\ task'.stage = "start"
      <4>1. owner.generation + 1 \in 0 .. MaxGeneration
        BY <2>1, <2>9, CommandTypes DEF Generations
      <4> QED
        BY <3>1, <4>1, NewTaskType DEF NewCache
    <3>3. SocketInv'
      BY <3>1, EmptySockets DEF SocketInv
    <3>4. KnownInv'
      BY <3>2 DEF KnownInv
    <3>5. HandoverLosesNothing'
      <4>1. twitch'.before + 1 .. twitch'.sent = {}
        BY <3>1
      <4> QED
        BY <4>1 DEF HandoverLosesNothing
    <3> QED
      BY <3>3, <3>4, <3>5 DEF HandoverInv
  <2>10. CASE Stop
    <3>1. owner'.active = 0
      BY <2>10 DEF Stop
    <3> QED
      BY <3>1 DEF HandoverInv, HandoverLosesNothing
  <2> QED
    BY <2>2, <2>3, <2>4, <2>5, <2>6, <2>7, <2>8, <2>9, <2>10, StepKinds
<1>3. Spec => []DeliveryInv
  BY DeliveryInvariance
<1> QED
  BY <1>1, <1>2, <1>3, PTL DEF Spec

\* HandoverLosesNothing: while no socket of a connection broke, every message
\* Twitch put on one of them is passed on or waits where it will be read.
THEOREM HandoversLoseNothing == Spec => []HandoverLosesNothing
<1>1. HandoverInv => HandoverLosesNothing
  BY DEF HandoverInv
<1> QED
  BY <1>1, HandoverInvariance, PTL
=============================================================================
