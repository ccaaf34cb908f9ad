SPECIFICATION Spec
CONSTANTS
  Events <- MCEvents
  Streams <- MCStreams
  MemSize = 100
  Stale <- MCStale
  Names <- MCNames
  Classes = {"TV1730RawData", "TGenericData"}
  MaxEvents = 2
  MaxRequests = 2
INVARIANTS BankListMatches DecodedMatches NoInventedBanks
