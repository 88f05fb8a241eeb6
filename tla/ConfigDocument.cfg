CONSTANTS
    NULL = NULL
    Other = Other
    Unparsable = Unparsable
    InitBuffer = 2
    IncBuffer = 1
    IfcesStart = 2
    MAX_MODULE_RESTARTS_NUM = 3
    DefaultRestarts = 3
    Templates <- SomeTemplates
    Callbacks <- SomeDocuments
SPECIFICATION DocSpec
INVARIANTS DocTypeOK RoomForText GeneratedWhole LoadsGivenValues
PROPERTIES ReloadIsIdempotent BackupRestores
