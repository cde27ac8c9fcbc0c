SPECIFICATION FairSpec
CONSTANTS
    Conns = {c1, c2}
    Requests = {r1, r2, r3}
    Tenants = {t1, t2}
    MaxQueries = 1
    None = None
INVARIANTS QueriesSeeOwnTenant NoneStranded
PROPERTIES RequestsEnd
CHECK_DEADLOCK FALSE
