\* Two requests at a time, two changes in all, one resource and a stop of the server.
SPECIFICATION Spec
CONSTANTS
    Handlers = {h1, h2}
    Resources = {r1}
    None = None
    Unknown = Unknown
    MaxChanges = 2
    MaxStops = 1
INVARIANTS
    FilesValidated
PROPERTIES
    TraefikFollows
CHECK_DEADLOCK FALSE
