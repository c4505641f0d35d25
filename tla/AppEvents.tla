----------------------------- MODULE AppEvents -----------------------------
(* The event boundary (app_events/mod.rs).  A status is recorded under the   *)
(* state's lock, where it gets its revision, and emitted after the lock has  *)
(* been given back: between the two another thread may record and emit.      *)
(* Each generation of the chat connection has one speaker, the EventSub task *)
(* that owns it or the stop that made it, so saying[g] is what the speaker   *)
(* of g still has to record or to emit.  Other streams take revisions of the *)
(* same counter; that leaves gaps, which nobody tells apart.                 *)
EXTENDS Integers, Sequences

CONSTANT MaxGeneration \* bound on the generations of a behaviour

ASSUME GenerationAssumption == MaxGeneration \in Nat \ {0}

VARIABLES retained,  \* twitch_chat_status, the status the next snapshot shows
          saying,    \* per generation: the status on its way out
          listening, \* the event names the window has registered listeners for
          events     \* emitted, not yet handled by the window; in order

eventVars == <<retained, saying, listening, events>>

Generations == 1 .. MaxGeneration

Status(revision, status, generation, active) ==
    [revision |-> revision, status |-> status,
     generation |-> generation, active |-> active]

NoStatus == Status(0, "none", 0, 0)
Silent   == [step |-> "silent", event |-> NoStatus]

EventsInit ==
    /\ retained = NoStatus
    /\ saying = [g \in Generations |-> Silent]
    /\ listening = {}
    /\ events = <<>>

(* emit_twitch_chat_status called by the speaker of g; active is g when the  *)
(* status carries the active connection and 0 when it carries none.          *)
Say(g, status, active) ==
    saying' = [saying EXCEPT ![g] =
                 [step |-> "record", event |-> Status(0, status, g, active)]]

Inherits(said) ==
    /\ said.generation = retained.generation
    /\ said.active = 0
    /\ said.status # "disconnected"

(* record_twitch_status gives an older generation the current status back.   *)
Recorded(said) ==
    IF said.generation < retained.generation
    THEN retained
    ELSE Status(retained.revision + 1, said.status, said.generation,
                IF Inherits(said) THEN retained.active ELSE said.active)

RecordTwitchStatus(g) ==
    /\ saying[g].step = "record"
    /\ retained' = Recorded(saying[g].event)
    /\ saying' = [saying EXCEPT ![g] = [step |-> "emit", event |-> retained']]
    /\ UNCHANGED <<listening, events>>

(* Tauri hands an event to the window only when it listens to that name.     *)
Heard(name, payload) ==
    IF name \in listening
    THEN Append(events, [name |-> name, payload |-> payload])
    ELSE events

EmitTwitchStatus(g) ==
    /\ saying[g].step = "emit"
    /\ events' = Heard("status", saying[g].event)
    /\ saying' = [saying EXCEPT ![g] = Silent]
    /\ UNCHANGED <<retained, listening>>
=============================================================================
