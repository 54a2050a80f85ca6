SPECIFICATION Spec
CONSTANTS
    h1 = h1
    h2 = h2
    w1 = w1
    w2 = w2
    acme = acme
    bolt = bolt
    sales = sales
    sparse = sparse
    junk = junk
    None = None
    Orgs = {acme, bolt}
    Uploads = {sales, sparse}
    ValidUploads <- MCValidUploads
    Modules = {"customer"}
    Params = {"p"}
    Outcome <- MCOutcome
    MaxDatasets = 2
    MaxJobs = 1
    Budget <- CallFaults
    Handlers = {h1, h2}
    Workers = {}
    Runners = {h1, h2}
    MaxTries = 2
    MaxClaims = 2
    SyncJobs = TRUE
SYMMETRY TwoTenants
INVARIANTS
    JobsBelongToTheirDatasets
    ObjectsBelongToTheirOrg
PROPERTIES
    SyncRunsReturnSettledJobs
CHECK_DEADLOCK FALSE
