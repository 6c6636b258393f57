SPECIFICATION PoolSpec
CONSTANTS
    Clients = {1, 2, 3}
    PoolSize = 2
    MaxPoolRuns = 3
    PoolRoutes = {"accessible_workspace_ids", "create_company", "deactivate_principal", "add_company_member"}
INVARIANTS
    PoolNeverStarves
CHECK_DEADLOCK FALSE
