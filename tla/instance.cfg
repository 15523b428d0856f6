SPECIFICATION Spec
CONSTANT Files <- MCFiles
INVARIANTS OffsetIsExact OptimumHasPaths
