CONSTANTS
    Loads = {l1, l2}
    Published <- MCPublished
    MaxVersion = 2
    MaxTime = 2
    Ticks = {2}
    None = None
SPECIFICATION Spec
INVARIANT ABReportsOnly
