SPECIFICATION Spec
CONSTANTS
  close = close
  volume = volume
  MaxAttempts = 3
  Ts <- MCTs
  Fields = {close, volume}
INVARIANTS
  TypeOK
  EmptyMeansNoData
  RaisedMeansFailure
  RetriesWhatIsTransient
CHECK_DEADLOCK FALSE
