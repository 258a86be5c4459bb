SPECIFICATION Spec
CONSTANTS
    S3 = s3
    SQS = sqs
    Stores = {s3, sqs}
    Items = {i1}
    Strategies = {"ON_SHUTDOWN", "SCHEDULED", "MANUAL"}
    MaxCalls = 2
    MaxFailures = 1
    MaxEnds = 1
INVARIANTS TypeOK SavedSurvives ObjectsHaveBodies ShutdownSaves
PROPERTIES EventuallySaved ShutdownEnds
