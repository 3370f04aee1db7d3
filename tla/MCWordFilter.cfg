SPECIFICATION Spec
CONSTANTS
    MaxTerm = 3
    PageRecords = 2
INVARIANTS
    FilterNeverHides
