\* Two reports of one cluster, notes that are empty or not, two requests of each
\* kind under way; everyone else writes at any time.
CONSTANTS
    r1 = r1
    r2 = r2
    east = east
    triaged = triaged
    get1 = get1
    get2 = get2
    put1 = put1
    put2 = put2
    Reports = {r1, r2}
    Clusters = {east}
    ClusterOf <- AllEast
    Notes = {NoNotes, triaged}
    NoNotes = NoNotes
    NoRow = NoRow
    List = List
    NoDetail = NoDetail
    Closed = Closed
    Loads = {get1, get2}
    Saves = {put1, put2}
    MaxPending = 3
    Free = Free
    Pending = Pending
SPECIFICATION Spec
INVARIANTS
    TypeOK
    ShowsItsReport
    ShowsStoredNotes
PROPERTIES
    NotesOutliveUpserts
    OverwritesAreSeen
SYMMETRY Alike
