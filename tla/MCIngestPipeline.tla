------------------------- MODULE MCIngestPipeline -------------------------
EXTENDS IngestPipeline, TLC

\* All requests are of one source, the case in which they hold each other up.
OneSource == [r \in Requests |-> CHOOSE s \in Sources : TRUE]

\* The threads of the pool are interchangeable.
ThreadSymmetry == Permutations(Threads)

=============================================================================
