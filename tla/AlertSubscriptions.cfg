SPECIFICATION FairSpec
CONSTANTS
    Targets = {t1}
    Configs = {c1, c2}
    WrongEndpoint = {c2}
    Undecryptable = {}
    AutoRetry = TRUE
    WebhookFallback = TRUE
    ForceWebhook = FALSE
    Locations = {"absolute", "relative"}
    MaxSubs = 2
    FailLimit = 0
    None = None
INVARIANTS
    SubscriptionsMatchConfig
    StopLeaksOnlyCutOff
    NoUnknownSubscription
PROPERTIES
    EventuallyDelivering
