\* The sort ends, and nothing follows it.
SPECIFICATION AlgSpec
CONSTANT Jobs <- MCJobs
INVARIANT SortedInAnyOrder
CHECK_DEADLOCK FALSE
