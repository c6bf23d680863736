SPECIFICATION Spec
CONSTANTS
  Service = {web}
  Migrator = {up, once}
  Deadline = 28
  FirstSleep = 8
  MaxSleep = 10
  Latency = {4}
  MaxAttempts = 2
  DbName = "iot_hub"
SYMMETRY Interchangeable
INVARIANTS IInv OutageTolerated RecordKeepsUp
PROPERTIES RefusedIfApplied MigratedMeansModels ResetIsFresh
