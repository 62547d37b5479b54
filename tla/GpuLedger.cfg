\* Four threads, self-sizing and one-session needs, weights that load once, reads that fail.
CONSTANTS
  Threads = {t1, t2, t3, t4}
  Needs = {Whole, 1}
  Whole = Whole
  Levels = {2, 3}
  Reserve = 1
  Session = 1
  MaxParked = 3
  Ceiling = 1
  CapCeilings = 2
SPECIFICATION Spec
SYMMETRY Interchangeable
INVARIANTS NoLostWakeup CardIsShared
PROPERTIES PricedDeadlineSuffices
CHECK_DEADLOCK FALSE
