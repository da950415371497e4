\* Two Secrets, two cluster names, two resource versions, restarts.
CONSTANTS
    s1 = s1
    s2 = s2
    east = east
    west = west
    Secrets = {s1, s2}
    Names = {east, west}
    Unparsable = Unparsable
    MaxRevision = 2
    Absent = Absent
    NoTask = NoTask
SPECIFICATION FairSpec
INVARIANTS
    TypeOK
    NoLeakedWatcher
    GaugeIsActiveCount
PROPERTIES
    RegisteredIsWatched
    UnregisteredIsUnwatched
    RunStopsWatchers
