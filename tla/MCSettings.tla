----------------------------- MODULE MCSettings -----------------------------
(***************************************************************************)
(* SettingsSystem for TLC.  The two applications collide in their hash, so *)
(* that an id needs its suffix.                                            *)
(***************************************************************************)
EXTENDS SettingsSystem

CONSTANTS notepad, obs

Applications == {notepad, obs}
SameHash == [t \in Applications |-> "hash"]
Here == [host |-> "here", remote |-> FALSE]
Nas(remote) == [host |-> "nas", remote |-> remote]
Destinations == {Here, Nas(FALSE), Nas(TRUE)}
Fresh == [dest |-> Here, items |-> <<>>, window |-> 0]
FreshOrRemote == {Fresh, [Fresh EXCEPT !.dest = Nas(TRUE)]}
CommandSymmetry == Permutations(Commands)
=============================================================================
