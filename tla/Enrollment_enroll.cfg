SPECIFICATION FairSpec
CONSTANTS
  Devices = {d1, d2}
  Allowed = {d1}
  Strangers = {"other", "malformed"}
  Faults = {"break", "crash", "local", "accept", "mem"}
  MaxKeys = 2
  MaxConns = 2
  RequestMaxBytes = 20
  DeviceIdMaxBytes = 3
  EnrollBufSize = 24
  MaxPemLen = 8
INVARIANTS TypeOK StoredCertIssued IssuedIsStored HandledAsMeant CertificateDecodes RequestUnderstood
  SignatureRead IssuedAsConfigured StoredAsSent
PROPERTIES CertFitsKey EnrollCompletes
CHECK_DEADLOCK FALSE
