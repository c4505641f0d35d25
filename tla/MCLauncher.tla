----------------------------- MODULE MCLauncher -----------------------------
(***************************************************************************)
(* LauncherPool for TLC: two additions at once, an addition beside a       *)
(* launch, and two launches of which one has two items.  A helper answers, *)
(* floods its output or its errors, hangs, or exits and leaves a process   *)
(* that keeps its pipes.                                                   *)
(***************************************************************************)
EXTENDS LauncherPool

CONSTANTS c1, c2

Add(n) == [kind |-> "add", size |-> n]
Launch(n) == [kind |-> "launch", size |-> n]
Together(first, second) == [c \in Commands |-> IF c = c1 THEN first ELSE second]
PlansTogether ==
  {Together(Add(2), Launch(0)), Together(Add(1), Launch(1)),
   Together(Launch(2), Launch(1))}

ItemsOfCommands == Commands \X (1 .. MaxItems)
Helper(output, errors, hangs, leaves) ==
  [writes |-> [s \in Streams |-> IF s = "stdout" THEN output ELSE errors],
   hangs |-> hangs, leaves |-> leaves]
HelperScripts ==
  {Helper(0, 0, FALSE, FALSE), Helper(2, 0, FALSE, FALSE),
   Helper(0, 1, FALSE, FALSE), Helper(0, 0, TRUE, FALSE),
   Helper(0, 0, FALSE, TRUE)}
=============================================================================
