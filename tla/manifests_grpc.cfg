\* A comment of the source about the ruler's address, against the queries.
CONSTANT Configs <- MCConfigs
SPECIFICATION Spec
INVARIANT StoreApisAreGrpc
CHECK_DEADLOCK FALSE
