SPECIFICATION Spec
CONSTANTS
  None = None
  c1 = c1
  c2 = c2
  r1 = r1
  Processes = {c1, c2}
  Requests = {r1}
  Artifacts = {"findings", "sarif"}
  Required = {"findings"}
  MaxAttempts = 2
  Retention = 0
  Quota = 1
  MaxTime = 1
INVARIANT TypeOK
INVARIANT SavedUntilStored
INVARIANT StoredWhole
INVARIANT ReceiptProvesUpload
SYMMETRY Symmetric
