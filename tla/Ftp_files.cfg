\* One file the server may write, and one that it may not.
CONSTANTS
    File = {"readme", "locked"}
    Contents = {"old", "new"}
    Unwritable = {"locked"}
SPECIFICATION FairSpec
INVARIANT InStep
INVARIANT SuccessMeansStored
INVARIANT NoMutualWait
INVARIANT OneFileDestroyed
PROPERTY OverwriteAgreed
PROPERTY MenuAgain
\* Both programs end after QUIT.
CHECK_DEADLOCK FALSE
