CONSTANTS
  Dispatches = {d1, d2}
  Agents = {a1}
  NoOne = NoOne
  MaxEvents = 5
SPECIFICATION FairSpec
INVARIANTS
  TypeOK
  OneExecutionOneCapture
  AccountingFollowsCase
PROPERTIES
  StartsOnlyWhenAccounted
  WrittenOffOnlyWhenOver
  ExecutionEndsOrCanBeRecovered
CHECK_DEADLOCK FALSE
