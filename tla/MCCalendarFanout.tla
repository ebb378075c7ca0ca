------------------------- MODULE MCCalendarFanout -------------------------
EXTENDS CalendarFanout, TLC

\* Threads, components and entry ids are interchangeable (not for liveness): an
\* entry takes one of the free ids, and these differ in nothing.
Symmetry == Permutations(Threads) \cup Permutations(Components) \cup Permutations(EntryIds)

=============================================================================
