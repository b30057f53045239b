SPECIFICATION MigrateSpec
CONSTANTS
    Interruptible = {1, 2, 3, 4, 5}
    MaxInterrupts = 3
INVARIANTS
    RecordedIsApplied
    Converges
    ApiSeesSchema
PROPERTIES
    Recovers
