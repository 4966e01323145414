CONSTANTS
    plugin1 = plugin1
    package = package
    user = user
    Plugins = {plugin1}
    Scopes = {package, user}
    Scope <- UserScope
    MayBeEmpty = TRUE
    MaxResyncs = 3
    MaxCrashes = 1
    MaxCalls = 1
    Calls = {"a", "b"}
    Settings <- EverySetting
    MaxLosses = 2
    monitor = monitor
    manager = manager
    Remotes = {1, 2, 3, 4, 5}
    Operations = {1}
    MaxRegistrations = 2
    MaxDeaths = 2
    MaxRestarts = 1
SPECIFICATION PartsSpec
INVARIANTS NoStaleMessage CallsRight NotFailedIfHandled
PROPERTIES IdsRenewed CallsEnd StaysRegistered
CHECK_DEADLOCK FALSE
