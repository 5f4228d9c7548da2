\* An admin key and one it creates and revokes, one process, two requests at once; a token
\* comes in every second unit of time.
SPECIFICATION Spec
CONSTANTS
    Keys = {adm, k1}
    Bootstrap = adm
    Admins = {adm}
    Procs = {p1}
    Requests = {r1, r2}
    Ttl = 1
    Burst = 1
    Scale = 2
    Rate = 1
    Idle = 2
    MaxBuckets = 1
    MaxTime = 3
INVARIANTS RevocationBound AdmissionBound
SYMMETRY Symmetry
CHECK_DEADLOCK FALSE
