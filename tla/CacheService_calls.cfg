CONSTANTS
  Procs = {p1, p2}
  Keys = {k1, k2}
  Values = {v1}
  Asked = {k1}
  MaxLate = 1
  Ttls = {1}
  None = None
  MaxRetries = 1
  MaxCalls = 2
  MaxTicks = 1
SPECIFICATION Spec
INVARIANTS TypeOK InvalidateClears MetricsAddUp CloseWaits
PROPERTIES CallsReturn
CHECK_DEADLOCK FALSE
