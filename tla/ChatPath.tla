------------------------------ MODULE ChatPath ------------------------------
(* The way of a chat message from Twitch to the window: the EventSub         *)
(* supervisor, the event boundary and the window's store, side by side.      *)
EXTENDS EventSub, ChatView

vars == <<eventSubVars, eventVars, view>>

Init == EventSubInit /\ EventsInit /\ ViewInit

EventStep == \E g \in Generations : RecordTwitchStatus(g) \/ EmitTwitchStatus(g)

(* The window opens only in the behaviours whose budget has one.             *)
WindowIsOpen == left.windows > 0

Next ==
    \/ (TaskStep \/ TwitchStep \/ CommandStep) /\ UNCHANGED view
    \/ EventStep /\ UNCHANGED <<eventSubVars, view>>
    \/ WindowIsOpen /\ ViewStep /\ UNCHANGED eventSubVars

Spec == Init /\ [][Next]_vars

-----------------------------------------------------------------------------
(* Properties.                                                               *)

\* A connection passes a message on twice only when the window of known ids
\* has lost it in between: CacheLimit other messages, or CacheTtl ticks
\* (dedupe.rs, shared by all sessions of a connection in eventsub.rs).
HeardOnce ==
    \A i, j \in DOMAIN emitted :
      (i < j /\ emitted[i].id = emitted[j].id
             /\ emitted[i].generation = emitted[j].generation) =>
        \/ emitted[j].at - emitted[i].at >= CacheTtl
        \/ Cardinality({k \in i + 1 .. j - 1 :
                          emitted[k].generation = emitted[i].generation}) >= CacheLimit

WaitingIds ==
    {old[i].id : i \in DOMAIN old}
      \cup {next.frames[i].id : i \in DOMAIN next.frames}
      \cup {hand[task.generation]}

\* While no socket of a connection broke, every message Twitch put on one of
\* them is passed on or still waits on a socket that will be read: a handover
\* replaces the old socket without leaving a message on it unread
\* (eventsub.rs, handover_eventsub_session).
HandoverLosesNothing ==
    (owner.active # 0 /\ ~broken) =>
      \A id \in twitch.before + 1 .. twitch.sent :
        \/ id \in WaitingIds
        \/ \E i \in DOMAIN emitted : emitted[i].id = id

SaidAll == events = <<>> /\ \A g \in Generations : saying[g] = Silent

(* What a window that has listened since the chat listener was registered    *)
(* has to show of the active connection, and what it shows of it.            *)
Due ==
    {i \in DOMAIN emitted :
       /\ emitted[i].listened
       /\ emitted[i].generation = retained.active
       /\ emitted[i].id \notin view.pushedOut
       /\ \A j \in 1 .. i - 1 : emitted[j].listened => emitted[j].id # emitted[i].id}

OnShow == {k \in DOMAIN view.shown : view.shown[k].generation = retained.active}

\* Once the window is restored and nothing is on its way, it has the status,
\* the generation and the active connection the backend retains, and it has
\* shown every message of that connection once and in the order it was sent,
\* however the events, the snapshot and its answer overtook one another.
ViewCatchesUp ==
    (view.phase = "restored" /\ SaidAll) =>
      /\ view.known = retained
      /\ retained.active # 0 =>
           /\ \A i \in Due : \E k \in OnShow : view.shown[k].id = emitted[i].id
           /\ \A k \in OnShow : \E i \in Due : emitted[i].id = view.shown[k].id
           /\ \A k, l \in OnShow : k < l =>
                \E i, j \in Due : /\ i < j
                                  /\ emitted[i].id = view.shown[k].id
                                  /\ emitted[j].id = view.shown[l].id
=============================================================================
