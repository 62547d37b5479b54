\* Two threads over two results of which one fits; two callers of one tree in two ranges.
CONSTANTS
  Threads = {t1, t2}
  Keys = {k1, k2}
  Cap = 1
  MaxFaults = 1
  Nobody = Nobody
  Callers = {c1, c2}
  Parts = {p1, p2}
  Overlap = {"absent"}
  MaxCalls = 4
  MaxDeaths = 1
SPECIFICATION Spec
INVARIANTS ServedIsWhole DeliveredIsExact
PROPERTIES StoreCallsEnd
