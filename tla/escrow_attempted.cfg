SPECIFICATION Spec
CONSTANTS
    Honeypots = {h1, h2}
    a1 = a1
    Accounts = {a1}
    Target <- MCTarget
    Checkers = {loop, orphan}
    Callers = {caller}
    NoHoneypot = none
CHECK_DEADLOCK FALSE
PROPERTIES
    ReleasesUnattempted
