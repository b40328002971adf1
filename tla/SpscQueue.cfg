CONSTANTS
  v1 = v1
  v2 = v2
  Nothing = Nothing
  Values <- MCValues
  Capacity = 2
  MaxPush = 5
SPECIFICATION FairSpec
INVARIANTS NoDataRace SizeApproxInRange
PROPERTIES ImplementsFifo AllElementsGetThrough
