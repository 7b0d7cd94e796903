CONSTANTS
    CPU = {c1}
    NPROC = 2
    None = None
SPECIFICATION FairSpec
PROPERTY RunnableRuns
PROPERTY SleeperWoken
