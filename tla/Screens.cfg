SPECIFICATION FairSpec
CONSTANTS
  CURRENT_TEXT_SIZE = 4
  FULL_TEXT_SIZE = 9
  PROMPT_TEXT_SIZE = 2
  Char = {0, 1, 2, 3, 4, 5, 6, 7, 8}
  Builds = {"Nano S", "Nano S HEADLESS", "Nano X"}
  Scripts <- MCScripts
INVARIANTS
  TypeOK
  InternalAssertionsHold
  UserReadsToTheEnd
  TimerConfirmsItsOwnScreen
PROPERTIES
  FollowsProtocol
  UnattendedRunIsAnswered
