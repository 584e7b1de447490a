SPECIFICATION FairSpec
CONSTANTS
  Tasks = {t1, t2, t3}
  MaxPending = 2
  Width = 8
  MaxReserves = 2
  MaxResets = 1
INVARIANTS
  CounterExact
  LimitOverrun
PROPERTIES
  ReservationEnds
  SlotsReturn
