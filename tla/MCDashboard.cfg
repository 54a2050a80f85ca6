SPECIFICATION DashboardSpec
CONSTANTS
    h1 = h1
    h2 = h2
    w1 = w1
    w2 = w2
    acme = acme
    bolt = bolt
    sales = sales
    sparse = sparse
    junk = junk
    None = None
    Orgs = {acme, bolt}
    Uploads = {sales, junk}
    ValidUploads <- MCValidUploads
    Modules = {"forecast", "customer"}
    Params = {"p"}
    Outcome <- MCOutcome
    MaxDatasets = 2
    MaxJobs = 3
    Budget <- NoFaults
    Handlers = {h1}
    Workers = {}
    Runners = {h1}
    MaxTries = 2
    MaxClaims = 2
    SyncJobs = TRUE
    MaxRecent = 2
SYMMETRY Tenants
PROPERTIES
    DashboardsAreExplainable
CHECK_DEADLOCK FALSE
