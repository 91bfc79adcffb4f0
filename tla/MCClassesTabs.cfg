SPECIFICATION FairSpec
CONSTANTS
  Texts = {empty, name}
  Fresh = empty
  NoCallback = NoCallback
  Member = Member
  Scale = scale
  Theme = theme
  Keys <- MCKeys
  Count <- MCCount
  Default <- MCDefault
  Stored <- MCStored
  Missing = Missing
  Broken = Broken
  Reserved = 2
  Parses = {name}
  Lost = Lost
  MaxTabs = 3
  MaxCrashes = 2
INVARIANTS TypeOK FilesFollow LiveFieldFollows
PROPERTIES DoneDelivers TabsComeBack StartsUp
