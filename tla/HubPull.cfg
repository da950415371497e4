\* Two Secrets that may carry the same or different cluster names, two
\* resource versions, any events under way, restarts and failing store calls.
CONSTANTS
    s1 = s1
    s2 = s2
    east = east
    west = west
    Secrets = {s1, s2}
    Names = {east, west}
    Unparsable = Unparsable
    MaxRevision = 2
    Absent = Absent
    NoTask = NoTask
    Report = Report
    NoRow = NoRow
SPECIFICATION HubSpec
INVARIANTS
    HubTypeOK
    RowsHaveWatcher
SYMMETRY Alike
