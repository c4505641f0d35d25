-------------------------- MODULE SettingsRegister --------------------------
(***************************************************************************)
(* What the settings promise to everyone who does not look at files: one   *)
(* document that commands change one at a time, and a start that finds a   *)
(* published document or the one change of it that was being made.         *)
(***************************************************************************)
CONSTANTS
  Installed,      \* the documents the first start may find
  Change(_, _)    \* Change(a, b): one command makes b of a

VARIABLES
  shown,      \* the published document
  kept,       \* the documents the next start may find
  damaged     \* whether a change from outside altered what the next start finds

registerVars == <<shown, kept, damaged>>

Init == shown \in Installed /\ kept = {shown} /\ damaged = FALSE

\* A change is being made: a start may already find it.
Attempt ==
  /\ \E d \in kept' \ kept : kept' = kept \cup {d} /\ Change(shown, d)
  /\ UNCHANGED <<shown, damaged>>

\* It becomes certain which of them a start finds.
Settle ==
  /\ kept' \subseteq kept /\ kept' # {}
  /\ UNCHANGED <<shown, damaged>>

\* A change is published once every start finds it.
Acknowledge ==
  /\ shown' # shown /\ kept = {shown'} /\ Change(shown, shown')
  /\ UNCHANGED <<kept, damaged>>

Restart ==
  /\ shown' \in kept
  /\ UNCHANGED <<kept, damaged>>

\* Nothing is promised from a change made outside until the next start.
Outside ==
  /\ damaged \/ damaged'
  /\ damaged' \in BOOLEAN

Next == Attempt \/ Settle \/ Acknowledge \/ Restart \/ Outside

Spec == Init /\ [][Next]_registerVars
=============================================================================
