SPECIFICATION Spec
CONSTANTS
    a = a  b = b  h = h
    Objects = {a, b}
    Headers = {h}
    Includes <- MCIncludes
    Selects <- MCSelects
    Roots <- MCRoots
    Limit = 2
    Edits = 2
    Crashes = 1
    Builds = 3
INVARIANTS
    RecordsHonest
    BuildTruthful
CHECK_DEADLOCK FALSE
