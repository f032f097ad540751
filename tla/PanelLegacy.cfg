\* One request at a time: two domains, one agent and four requests.
SPECIFICATION Spec
CONSTANTS
    Domains = {d1, d2}
    Agents = {a1}
    Handlers = {h1}
    None = None
    MaxRequests = 4
    MaxRestarts = 0
INVARIANTS
    PreviousIsLegacy
CHECK_DEADLOCK FALSE
