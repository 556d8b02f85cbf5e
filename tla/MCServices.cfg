\* Two concurrent calls, two attempts, two failures to open a circuit, one
\* repair; one document of each kind, two workers, two lost leases.
SPECIFICATION ServicesSpec
CHECK_DEADLOCK FALSE
CONSTANTS
  Callers = {1, 2}
  Order <- MCOrder
  Rungs <- MCRungs
  MaxAttempts = 2
  Threshold = 2
  MaxRepairs = 1
  Resumes = {"r"}
  JobDescriptions = {"j"}
  Extractors = {"w1", "w2"}
  Facts = {"f", "g", "years"}
  Checked = {"f", "g"}
  Stated <- MCStated
  MaxTries = 2
  MaxFaults = 2
  MaxEdits = 1
INVARIANTS
  ServicesTypeOK
  OutageCostIsBounded
  SuggestionsAreEarned
PROPERTIES
  ServicesSettle
