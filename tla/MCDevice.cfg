CONSTANTS
  MaxTransfers = {0, 1580}
  MaxPackets = {0}
  Exponents = {9}
  U32Max = 3
  Deadline = 2
  MaxPending = 1
  MaxReplies = 1
  None = None
  Kinds <- AllKinds
  Claimable <- OpenKinds
  Alone <- LookedAt
  MaxAttach = 2
SPECIFICATION FairDevice
INVARIANTS TypeOK LimitsUsable FoundAsMeant OpenedAsFound DisconnectsResolved
PROPERTIES AnswersTheQuestion TransactionsEnd AttachedIsTried
