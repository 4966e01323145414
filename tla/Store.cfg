CONSTANTS
    Types = {resync, inventory}
    Apis = {32, 33}
    DEFAULT_SERVER_API = 32
    DirectorySize = 2
    MaxDirs = 1
    MaxSize = 2
    Resync = resync
    MaxFiles = 3
    Answered = {0, 1, 2}
    Batches = {1, 2}
    Mixes = {{"api", "failure"}, {"corrupt", "failure"}, {"crash"}}
SPECIFICATION QueueSpec
INVARIANTS StoreConsistent LoopsAgree
PROPERTY AcknowledgedKept
