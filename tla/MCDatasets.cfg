SPECIFICATION AccessSpec
CONSTANTS
    h1 = h1
    h2 = h2
    h3 = h3
    acme = acme
    bolt = bolt
    ann = ann
    sales = sales
    junk = junk
    None = None
    Orgs = {acme, bolt}
    Uploads = {sales, junk}
    ValidUploads = {sales}
    Modules = {"customer"}
    Params = {"p"}
    Outcome <- MCOutcome
    MaxDatasets = 2
    MaxJobs = 1
    Budget <- RequestFaults
    Handlers = {h1, h2, h3}
    Users = {ann}
    Memberships <- MCMemberships
SYMMETRY Processes
INVARIANTS
    ReadyDatasetsHaveTheirObjects
    RowsAreThereUnlessDeleted
    OrphansComeFromBlindDeletes
    NoDatasetIsForgotten
PROPERTIES
    RowsChangeOnlyForMembers
    RequestsStayInTheirOrg
CHECK_DEADLOCK FALSE
