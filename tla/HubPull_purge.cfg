\* One Secret registered and deleted, no failing call, no restart: an event of
\* the watcher can still reach the store after the purge.  The hub may be stopped
\* for good: nothing happens then.
CONSTANTS
    s1 = s1
    s2 = s2
    east = east
    west = west
    Secrets = {s1}
    Names = {east}
    Unparsable = Unparsable
    MaxRevision = 1
    Absent = Absent
    NoTask = NoTask
    Report = Report
    NoRow = NoRow
CHECK_DEADLOCK FALSE
SPECIFICATION ReliableSpec
PROPERTIES
    UnregisteredIsPurged
