CONSTANTS
  MaxThreads = 3
  MaxTid = 2
  MaxKeys = 1
SPECIFICATION FairSpec
INVARIANTS TypeOK SlotOwned JoinDelivers SlotAccounted
PROPERTIES TlsKept JoinsReturn
