SPECIFICATION Spec
CONSTANTS
  c1 = c1
  c2 = c2
  Callers = {c1, c2}
  SlotCount = 2
  Groups = {"non_crawl"}
  StartIndex <- MCStartIndex
  LeaseTime = 1
  RetryTime = 1
  Window = 2
  Rpm = 2
  AttemptCeiling = 2
  CallCeiling = 3
  CreditCeiling = 4
  Reservations = {1}
  MaxUsage = 0
  MaxLate = 1
INVARIANTS ReservationsCoverCosts RefusedPoolIsDead
PROPERTIES SlotsAreKept
