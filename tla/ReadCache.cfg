\* Two handles, two runs, three blocks; a run of two blocks at most, a budget of one
\* block for each connection, and one connection or two.
SPECIFICATION Spec
CONSTANTS
    Handle = {h1, h2}
    Run = {r1, r2}
    None = None
    LastBlock = 2
    MaxSpan = 2
    PerLink = 1
    Links = {1, 2}
SYMMETRY Symmetry
INVARIANTS WellFormed BudgetIsExact SpeculationAbandoned
