------------------------------ MODULE ChatView ------------------------------
(* The window's side of the chat (orchestration/domainOrchestration.ts, the  *)
(* reducer of stores/connectionStore.ts).  The listeners are registered one  *)
(* by one; when all are, the snapshot is asked for, and until it has been    *)
(* applied messages wait in a buffer, because the status that says which     *)
(* connection they belong to may only come with the snapshot.                *)
EXTENDS AppEvents, SequencesExt

CONSTANTS BufferLimit, \* MAX_BUFFERED_CHAT_MESSAGES
          RecentLimit  \* MAX_RECENT_CHAT_MESSAGE_IDS

ASSUME ViewAssumption == BufferLimit \in Nat \ {0} /\ RecentLimit \in Nat \ {0}

VARIABLE view

Listeners == {"status", "chat"}

ViewInit ==
    view = [phase |-> "subscribing", answer |-> NoStatus, known |-> NoStatus,
            buffer |-> <<>>, recent |-> <<>>, shown |-> <<>>, pushedOut |-> {}]

RestorationPending == view.phase \in {"subscribing", "asked", "answered"}

Register(name) ==
    /\ view.phase = "subscribing"
    /\ name \notin listening
    /\ listening' = listening \cup {name}
    /\ UNCHANGED <<retained, saying, events, view>>

AskSnapshot ==
    /\ view.phase = "subscribing"
    /\ listening = Listeners
    /\ view' = [view EXCEPT !.phase = "asked"]
    /\ UNCHANGED eventVars

(* AppEventState::snapshot, under the state's lock; its answer travels back  *)
(* apart from the events.                                                    *)
ReadSnapshot ==
    /\ view.phase = "asked"
    /\ view' = [view EXCEPT !.phase = "answered", !.answer = retained]
    /\ UNCHANGED eventVars

-----------------------------------------------------------------------------
\* Fault: the last status to arrive wins, whatever its revision.
IsAnyStatus(event, v) == event # NoStatus

(* The two tests of twitch() and of the reducer before a status is applied.  *)
IsNews(event, v) ==
    /\ event.revision > v.known.revision
    /\ event.generation >= v.known.generation

ActiveAfter(event, known) ==
    IF event.status = "disconnected" THEN 0
    ELSE IF event.active # 0 \/ event.generation > known.generation
         THEN event.active
         ELSE known.active

Apply(event, v) ==
    IF IsNews(event, v)
    THEN [v EXCEPT !.known = [event EXCEPT !.active = ActiveAfter(event, v.known)]]
    ELSE v

(* chatMessageMatchesConnection and isUnresolvedChatMessage.                 *)
Matches(message, known) ==
    known.active # 0 /\ message.generation = known.active /\ known.active = known.generation

Unresolved(message, known) ==
    /\ message.generation >= known.generation
    /\ known.active = 0 \/ message.generation > known.active

(* The elements of s at the given places, in their order: what SelectSeq     *)
(* makes of a test, written without recursion.                               *)
InOrder(s, places) ==
    [n \in 1 .. Cardinality(places) |->
       s[CHOOSE i \in places : Cardinality({j \in places : j <= i}) = n]]

Flushed(v) ==
    [v EXCEPT !.buffer = <<>>,
              !.shown = @ \o InOrder(v.buffer, {i \in DOMAIN v.buffer :
                                                 Matches(v.buffer[i], v.known)})]

KeepLast(s, n) == IF Len(s) > n THEN SubSeq(s, Len(s) - n + 1, Len(s)) ELSE s

Remember(v, id) == [v EXCEPT !.recent = KeepLast(Append(@, id), RecentLimit)]

IsRecent(v, id) == id \in ToSet(v.recent)

Buffered(v, message) ==
    [Remember(v, message.id) EXCEPT
       !.buffer    = KeepLast(Append(@, message), BufferLimit),
       !.pushedOut = IF Len(v.buffer) = BufferLimit THEN @ \cup {Head(v.buffer).id} ELSE @]

Shown(v, message) == [Remember(v, message.id) EXCEPT !.shown = Append(@, message)]

ApplySnapshot ==
    /\ view.phase = "answered"
    /\ view' = Flushed([Apply(view.answer, view) EXCEPT
                          !.phase = "restored", !.answer = NoStatus])
    /\ UNCHANGED eventVars

(* One of the two snapshot calls is rejected; the user is told to reload.    *)
SnapshotFails ==
    /\ view.phase \in {"asked", "answered"}
    /\ view' = [view EXCEPT !.phase = "unrestored", !.answer = NoStatus, !.buffer = <<>>]
    /\ UNCHANGED eventVars

StatusArrives ==
    /\ events # <<>> /\ Head(events).name = "status"
    /\ LET event == Head(events).payload
       IN  view' = IF RestorationPending \/ ~IsNews(event, view)
                   THEN Apply(event, view)
                   ELSE Flushed(Apply(event, view))
    /\ events' = Tail(events)
    /\ UNCHANGED <<retained, saying, listening>>

ChatMessageArrives ==
    /\ events # <<>> /\ Head(events).name = "chat"
    /\ LET message == Head(events).payload
       IN  view' =
             CASE IsRecent(view, message.id) -> view
               [] /\ ~IsRecent(view, message.id)
                  /\ RestorationPending
                  /\ Matches(message, view.known) \/ Unresolved(message, view.known)
                    -> Buffered(view, message)
               [] /\ ~IsRecent(view, message.id)
                  /\ ~RestorationPending
                  /\ Matches(message, view.known)
                    -> Shown(view, message)
               [] OTHER -> view
    /\ events' = Tail(events)
    /\ UNCHANGED <<retained, saying, listening>>

ViewStep ==
    \/ \E name \in Listeners : Register(name)
    \/ AskSnapshot
    \/ ReadSnapshot
    \/ ApplySnapshot
    \/ SnapshotFails
    \/ StatusArrives
    \/ ChatMessageArrives
=============================================================================
