SPECIFICATION ChromeSpec
CONSTANTS
    Watchdog = w
    Requests = {r, q}
    Browsers = {b1, b2}
    NoBrowser = nobrowser
    FailTicks = 2
    Stalls = TRUE
PROPERTY ChromeHolds
