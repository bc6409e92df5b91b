SPECIFICATION QuoteSpec
CONSTANTS
    Calls <- QuoteCalls
    maxFailures = 5
    resetTimeout = 1
    DefaultReset = 60
    maxHalfOpen = 0
    CallbackPanics = FALSE
    Requests = {r1, r2}
    Attempts = 3
PROPERTIES
    QuotesRecover
