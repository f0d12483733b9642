SPECIFICATION Spec
CONSTANTS
  Devices = {d1}
  Allowed = {d1}
  Strangers = {}
  Faults = {"break"}
  MaxKeys = 1
  MaxConns = 1
INVARIANT StoredCertVerifies
CHECK_DEADLOCK FALSE
