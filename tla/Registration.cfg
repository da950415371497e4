\* Two requests, two clusters, a third Secret that may register either, two
\* writes, failing calls and lost responses anywhere.
CONSTANTS
    east = east
    west = west
    clusterEast = clusterEast
    clusterWest = clusterWest
    byHand = byHand
    r1 = r1
    r2 = r2
    Secrets = {clusterEast, clusterWest, byHand}
    Names = {east, west}
    SecretOf <- ClusterSecret
    Requests = {r1, r2}
    Unlisted = Unlisted
    Absent = Absent
    MaxRevision = 2
SPECIFICATION Spec
INVARIANTS
    TypeOK
    DeletedIsGone
    FailureHasCause
PROPERTIES
    NoLostUpdate
SYMMETRY HandlersAlike
