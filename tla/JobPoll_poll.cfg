SPECIFICATION FairSpec
CONSTANTS
  Clients = {c1}
  Reads = {r1, r2}
  Output <- Mixed
  Window = 2
  MaxHuman = 1
  Human = Human
  Launcher = Launcher
  Fore = Fore
  Nobody = Nobody
INVARIANTS
  LaunchAnswersAreTrue
  EndCoversOutput
  StreamLosesNothing
PROPERTIES
  PollAnswered
CHECK_DEADLOCK FALSE
