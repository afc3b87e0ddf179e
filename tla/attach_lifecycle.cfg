SPECIFICATION FairSpec
CONSTANTS
    Files = {f1, f2}
    TableRows = {r1}
    Deletable = {r1}
    SlowUploads = FALSE
    Workers = {w1}
    MaxCrashes = 1
    NoOwner = NoOwner
    NoFile = NoFile
INVARIANTS
    TypeOKAttachments
    NoForgottenObject
PROPERTIES
    GarbageReclaimed
