SPECIFICATION Spec
CONSTANTS
    Api = {api}
    Collectors = {col}
    Targets = {t1}
    MaxLogs = 2
    MaxErrors = 2
INVARIANTS
    FilesMatchRows
    BundleKept
    NothingLeftBehind
CHECK_DEADLOCK FALSE
