\* Two backups, a retention of one day and two days.
SPECIFICATION Spec
CONSTANTS
    Files = {b1, b2}
    Handlers = {h1}
    None = None
    Retention = 1
    MaxDays = 2
PROPERTIES
    AutomaticRemoved
CHECK_DEADLOCK FALSE
