\* The comment of AppSettingsDataLoader.tsx:300 as an invariant, with its three
\* retries.
CONSTANTS
  MaxFetches = 1
  MaxRetries = 3
SPECIFICATION Spec
INVARIANTS
  RetryLimit
CHECK_DEADLOCK FALSE
