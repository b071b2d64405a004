\* Two runs of one database, three processes, two failures or crashes.
SPECIFICATION Spec
CONSTANTS
    r1 = r1
    r2 = r2
    h1 = h1
    h2 = h2
    Runs = {r1, r2}
    Hashes = {h1, h2}
    MaxStarts = 3
    MaxFaults = 2
INVARIANTS TypeOK RepeatedVersionsOverlap CompletedLoadsNameStoredSchemas
PROPERTIES NothingStoredIsTrue ProcessesEndForCause RunsSettle
CHECK_DEADLOCK FALSE
