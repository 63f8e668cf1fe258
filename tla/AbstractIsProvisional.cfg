\* One claim, three events.
CONSTANTS
  Asserted = {a}
  Rivals = {}
  MaxEvents = 3
  Histories <- MCHistories
SPECIFICATION Spec
INVARIANT AbstractIsProvisional
CHECK_DEADLOCK FALSE
