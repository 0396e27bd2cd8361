CONSTANTS
  Client = {c1, c2}
  Polite = {c1, c2}
  MaxVersion = 1
  None = None
  Release = {r1, r2}
  Attempts = 2
  MaxCommands = 3
SPECIFICATION FairService
INVARIANTS ReplyIsCurrent LeftoverSocketHarmless PlistNamesBinary InstalledRuns RemovedStaysGone
PROPERTIES ClientsServed RunReturns RotationHarmless
