SPECIFICATION FairSpec
CONSTANTS
    Migrators = {m1, m2, m3}
    m1 = m1
    m2 = m2
    m3 = m3
    Probes = {p1}
    p1 = p1
    Checksums = {k1, k2}
    k1 = k1
    k2 = k2
    NoOne = none
    Objects <- MCObjects
    Databases <- MCDatabases
CHECK_DEADLOCK FALSE
INVARIANT TypeOK
INVARIANT RivalsDoNotCollide
INVARIANT OkMeansUsable
PROPERTY MigratesWhole
PROPERTY MigrationsFinish
