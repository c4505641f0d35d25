--------------------------- MODULE MessageDedupe ---------------------------
(* The window of message ids one chat connection knows (twitch/dedupe.rs).   *)
(* EventSub delivers at least once, so the supervisor keeps the ids it has   *)
(* heard: at most CacheLimit of them, each for less than CacheTtl.  The hash *)
(* set answers, the queue says what is forgotten next; both are kept, as in  *)
(* the code.  Time is a number of ticks of the monotonic clock.              *)
EXTENDS Integers, Sequences, FiniteSetsExt

CONSTANTS CacheLimit, \* DEDUPE_CACHE_LIMIT
          CacheTtl    \* DEDUPE_CACHE_TTL, in ticks

ASSUME CacheAssumption == CacheLimit \in Nat \ {0} /\ CacheTtl \in Nat \ {0}

NewCache == [seen |-> {}, order |-> <<>>]

IdsOf(entries) == {entries[i].id : i \in DOMAIN entries}

(* A cache without the n oldest entries of its queue.                        *)
Forget(cache, n) ==
    [seen  |-> cache.seen \ IdsOf(SubSeq(cache.order, 1, n)),
     order |-> SubSeq(cache.order, n + 1, Len(cache.order))]

(* remove_expired stops at the first entry that is still young enough.       *)
RemoveExpired(cache, now) ==
    LET young == {i \in DOMAIN cache.order : now - cache.order[i].at < CacheTtl}
    IN  Forget(cache, IF young = {} THEN Len(cache.order) ELSE Min(young) - 1)

IsKnown(cache, id, now) == id \in RemoveExpired(cache, now).seen

\* Fault: the window is cut one entry too early.
KeepsOneLess(cache, id, now) ==
    LET grown == [seen  |-> cache.seen \cup {id},
                  order |-> Append(cache.order, [id |-> id, at |-> now])]
    IN  IF Len(grown.order) >= CacheLimit
        THEN Forget(grown, Len(grown.order) - CacheLimit + 1)
        ELSE grown

Remembered(cache, id, now) ==
    LET grown == [seen  |-> cache.seen \cup {id},
                  order |-> Append(cache.order, [id |-> id, at |-> now])]
    IN  IF Len(grown.order) > CacheLimit
        THEN Forget(grown, Len(grown.order) - CacheLimit)
        ELSE grown

(* insert_at: the cache afterwards; the id was news unless IsKnown.          *)
Insert(cache, id, now) ==
    LET live == RemoveExpired(cache, now)
    IN  IF id \in live.seen THEN live ELSE Remembered(live, id, now)
=============================================================================
