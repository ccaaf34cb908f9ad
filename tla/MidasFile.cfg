SPECIFICATION FairSpec
CONSTANTS
  HeaderSize = 2
  MaxSize = 3
  Sizes = {0, 1, 3, 4}
  MaxEvents = 3
  MaxErrors = 1
INVARIANTS EventsWhole EofMeansAllRead OnlyDamageEnds
PROPERTIES ReadingEnds
