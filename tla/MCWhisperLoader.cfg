\* Violation run: a load into 5m7d with every request answered 2xx stores
\* values other than the whisper files hold, or leaves files out.
CONSTANTS
    DbName = "5m7d"
    DryRun = FALSE
    RootDir <- MCRootDir
    Files <- MCFiles
    Headers <- MCHeaders
    PostOutcomes = {"ok"}

SPECIFICATION Spec

INVARIANT LoadedAsStored

\* The script ends after its walk, or at the first exception.
CHECK_DEADLOCK FALSE
