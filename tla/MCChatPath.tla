----------------------------- MODULE MCChatPath -----------------------------
(* Kinds of behaviour, so that everything happens but not all at once.       *)
EXTENDS ChatPath

Budget(messages, resends, handovers, breaks, ticks, connects, stops, windows) ==
    [messages |-> messages, resends |-> resends, handovers |-> handovers,
     breaks |-> breaks, ticks |-> ticks, connects |-> connects, stops |-> stops,
     windows |-> windows]

MCBudgets == {Budget(3, 1, 1, 2, 2, 1, 0, 0),   \* everything but the window
              Budget(1, 1, 2, 0, 0, 1, 0, 0),   \* asked to move twice
              Budget(1, 0, 1, 1, 0, 1, 0, 1),   \* a window during a handover
              Budget(3, 0, 0, 0, 0, 1, 1, 1),   \* a buffer that overflows
              Budget(2, 0, 0, 0, 0, 2, 1, 1)}   \* stop and connect again
=============================================================================
