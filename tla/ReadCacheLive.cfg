\* Two handles and one run of up to two blocks: liveness, so no symmetry.
SPECIFICATION FairSpec
CONSTANTS
    Handle = {h1, h2}
    Run = {r1}
    None = None
    LastBlock = 1
    MaxSpan = 2
    PerLink = 1
    Links = {1}
PROPERTIES Answered
