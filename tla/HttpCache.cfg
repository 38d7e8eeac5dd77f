SPECIFICATION Spec
CONSTANTS
    Fetch = {"f", "g"}
    MaxVersion = 1
    NoEntry = NoEntry
    Place = {"url", "plain", "internal", "listed"}
    Url = "url"
    Https = {"url", "internal", "listed"}
    Private = {"internal", "listed"}
    Listed = {"listed"}
    MaxRedirects = 2
INVARIANTS
    TypeOK
    RedirectsAllowed
PROPERTIES
    KeepsPromise
    FetchEnds
