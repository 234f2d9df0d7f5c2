\* One request with two images; two calls that fail or replicas that die; a switch of
\* the backend at any time.
CONSTANTS
    b1 = b1  b2 = b2  r1 = r1  t1 = t1
    None = None
    Build <- MCBuild
    Tag <- MCTag
    Request <- MCRequest
    Images <- MCImages
    SpecOf <- MCSpecOf
    FirstBackend = "cloudbuild_gke"
    Switches = TRUE
    SkipExisting = TRUE
    MaxFaults = 2
SPECIFICATION FairSpec
INVARIANTS
    SuccessIsPushed
    FailureIsReal
PROPERTIES
    RowsSettle
CHECK_DEADLOCK FALSE
