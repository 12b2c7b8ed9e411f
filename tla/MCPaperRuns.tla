----------------------------- MODULE MCPaperRuns -----------------------------
EXTENDS PaperRuns, TLC
\* Runs are interchangeable.
Interchangeable == Permutations(Run)
=============================================================================
