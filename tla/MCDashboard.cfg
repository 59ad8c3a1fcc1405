SPECIFICATION Spec
CONSTANTS
  gold = gold
  ticker = ticker
  day = day
  hour = hour
  metals = metals
  other = other
  NULL = NULL
  Known = {gold}
  ClassOf <- MCClassOf
  NameOf <- MCNameOf
  ClassOrder <- MCClassOrder
  Preset <- MCPreset
  Symbols = {gold, ticker}
  Intervals = {day, hour}
  RunIds = {1, 2}
  RunSeries <- MCRunSeries
  Old <- MCOld
  Ts = {1, 2, 3}
  Day <- MCDay
  Today = 2
  Window = 1
  Pad = 20
  BatchSize = 1
  MaxRev = 1
  TTL = 1
  MaxRows = 2
  RunLimit = 1
  Hours = 3
  MinCompare = 2
  Picks <- MCPicks
  Columns <- MCColumns
  MaxEntries = 2
INVARIANTS
  TypeOK
  ShowsWhatIsOld
  ListedIsShown
  WholeRangeOrWarned
  PickerComplete
  FailuresShown
  ChartsFrame
CHECK_DEADLOCK FALSE
