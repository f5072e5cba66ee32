CONSTANTS
  Inputs <- AllInputs
  MaxFaults = 2
  Hash <- MCHash
  MaxLinks = 3
SPECIFICATION Spec
CHECK_DEADLOCK FALSE
INVARIANT TypeOK KeptExactly LinksResolve TablesLead LookupAgrees CatalogAgrees EstimateExact Restored 
