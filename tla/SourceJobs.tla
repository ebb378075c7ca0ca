----------------------------- MODULE SourceJobs -----------------------------
\* What the ingest loop goes by when it takes up the sync requests of one source.  A
\* job is due or asleep (PENDING, its next_retry_at past or not), held (CLAIMED), or
\* ended (SUCCEEDED, DEAD_LETTER); requests are numbered as they come in.
EXTENDS Naturals

JobStates == {"none", "due", "asleep", "held", "ended"}

\* The next request of the source.
IsNew(job, r) ==
    /\ job[r].state = "none"
    /\ \A q \in DOMAIN job : q < r => job[q].state # "none"

\* claim_jobs: an older job that is due or held keeps a younger one waiting.  One that
\* is asleep does not, and neither does one that has ended, applied or not.
Claimable(job, r) ==
    /\ job[r].state = "due"
    /\ \A q \in DOMAIN job : q < r => job[q].state \notin {"due", "held"}

\* A failed fetch or dispatch, or a claim that timed out: the job is tried again later,
\* or it is given up.
Backed(job, r, state) == [job EXCEPT ![r].state = state, ![r].stage = "fetch"]
=============================================================================
