SPECIFICATION Spec
CONSTANTS
    Tables = {"a", "b"}
    Schemas = {"sales", "stock"}
    SchemaOf <- MCSchemaOf
    NameOf <- MCNameOf
    Spellings = {"name", "Name"}
    lower = "name"
    Aliases = {"x"}
    default_schema = "sales"
    hard_block_suspect = TRUE
    max_rows = 1
    SAMPLE_ROWS_MAX_VALUES = 2
    Dispositions = {"absent", "undeclared", "allowed", "excluded"}
    MaxSources = 3
    None = None
INVARIANTS
    ReadsWhatItBound
    TruncationIsTold
CHECK_DEADLOCK FALSE
