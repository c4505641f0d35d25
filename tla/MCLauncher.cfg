SPECIFICATION FairSpec
CONSTANTS
  c1 = c1
  c2 = c2
  Commands = {c1, c2}
  Plans <- PlansTogether
  IconStream = "stdout"
  Workers = 2
  MaxItems = 2
  Runs <- ItemsOfCommands
  Streams = {"stdout", "stderr"}
  Unreadable = {"stdout"}
  Limit = 0
  PipeSize = 1
  Scripts <- HelperScripts
INVARIANT PoolAccounted
PROPERTY LaunchAccounted
PROPERTY LauncherEnds
CHECK_DEADLOCK FALSE
