CONSTANTS
    resync = resync
    inventory = inventory
    Types = {resync, inventory}
    Apis = {32, 33}
    DEFAULT_SERVER_API = 32
    SERVER_API = 33
    ServerApis = {33}
    DirectorySize = 2
    MaxDirs = 9
    MaxSize = 9
    Resync = resync
    Result = inventory
    MaxMessages = 2
    Outbox <- Messages
    MaxPos = 2
    MaxFaults = 2
    FaultMixes = {{"loss", "rollback"}, {"late", "loss"}, {"crash", "loss"}}
SPECIFICATION Spec
INVARIANTS MessagesNotLost NotLockedOut HandledOnce
PROPERTY QueuesDrain
