---------------------------- MODULE MailboxDelta ----------------------------
(***************************************************************************)
(* How one mailbox becomes records: a fetch lists the messages since the    *)
(* history id in the source's cursor - or all of them, without one - and    *)
(* the job then reads and filters them chunk by chunk, one claim each, with *)
(* the list and what it matched in its payload.  What matched is parsed,    *)
(* and the cursor moves when the result is applied.                         *)
(*                                                                         *)
(* Messages are numbered as they arrive, and the history id is the number   *)
(* of the last one; they are those that the query of a listing is about     *)
(* (its dates and labels).  A message that is deleted before it is read is  *)
(* left out like one that the filters drop.  A result is stored once: an    *)
(* end of the fetch that comes after it changes nothing here and is left    *)
(* out (IngestPipeline).                                                    *)
(***************************************************************************)
EXTENDS SourceJobs, Sequences, FiniteSets

CONSTANTS
    MaxMail,       \* bound: messages
    Chunk,         \* _GMAIL_CONNECTOR_CHUNK_SIZE
    MaxList,       \* gmail_continuation_max_message_ids
    MaxMailSyncs,  \* bound: sync requests
    MaxMailSetbacks \* bound: failed fetches, claims that timed out, and crashes

ASSUME MailboxAssumption ==
    Chunk \in Nat \ {0} /\ {MaxMail, MaxList, MaxMailSyncs, MaxMailSetbacks} \subseteq Nat

VARIABLES
    box,         \* the last message that arrived
    kept,        \* the provider answers for history from this id on
    mailbacks,   \* how often a job went back, was given up or lost its fetch
    mailCursor,  \* cursor_json: the history id, if there is one
    mailJob,     \* ingest_jobs, with continuation and llm_parse_payload
    mailFetch,   \* the fetch under way: its job, the profile's history id, the cursor
    mailParse,   \* the payload that an LLM thread under way has read
    mailQueue,   \* ingest_results whose event waits, in its order
    mailStored,  \* requests with a result
    taken,       \* history: messages whose records were applied
    dismissed    \* history: messages left out by an applied result, filtered or missing

mailVars == <<box, kept, mailbacks, mailCursor, mailJob, mailFetch, mailParse,
              mailQueue, mailStored, taken, dismissed>>
providerVars == <<box, kept>>
mailResultVars == <<mailQueue, mailStored>>
mailAppliedVars == <<mailCursor, taken, dismissed>>

MailJobs == 1 .. MaxMailSyncs
Messages == 1 .. MaxMail

\* The payload's connector_continuation: the listed ids from the next one on, the history
\* id for the cursor patch, what matched, and what was left out.
Continuation == [rest : SUBSET Messages, latest : 0 .. MaxMail,
                 matched : SUBSET Messages, left : SUBSET Messages]
Found == [latest : 0 .. MaxMail, matched : SUBSET Messages, left : SUBSET Messages]

MailJob == [state : JobStates, stage : {"fetch", "parse"},
            continuation : SUBSET Continuation, payload : SUBSET Found]
MailFetch == [job : MailJobs, profile : 0 .. MaxMail, cursor : SUBSET (0 .. MaxMail)]

MailboxInit ==
    /\ box = 0 /\ kept = 0 /\ mailbacks = 0
    /\ mailCursor = {}
    /\ mailJob = [r \in MailJobs |->
                     [state |-> "none", stage |-> "fetch", continuation |-> {}, payload |-> {}]]
    /\ mailFetch = {}
    /\ mailParse = [r \in MailJobs |-> {}]
    /\ mailQueue = <<>> /\ mailStored = {}
    /\ taken = {} /\ dismissed = {}

-----------------------------------------------------------------------------
(* The provider.                                                           *)

Provides == UNCHANGED <<mailbacks, mailJob, mailFetch, mailParse, mailResultVars,
                        mailAppliedVars>>

MailArrives == box < MaxMail /\ box' = box + 1 /\ UNCHANGED kept /\ Provides

HistoryExpires == kept < box /\ kept' = box /\ UNCHANGED box /\ Provides

-----------------------------------------------------------------------------
(* Jobs.                                                                   *)

MailTurns(r, state) ==
    /\ mailJob' = [mailJob EXCEPT ![r].state = state]
    /\ UNCHANGED <<providerVars, mailbacks, mailFetch, mailParse, mailResultVars,
                   mailAppliedVars>>

RequestMailSync(r) == IsNew(mailJob, r) /\ MailTurns(r, "due")
ClaimMailJob(r)    == mailFetch = {} /\ Claimable(mailJob, r) /\ MailTurns(r, "held")
MailBackoffElapses(r) == mailJob[r].state = "asleep" /\ MailTurns(r, "due")

\* The continuation stays in the payload of a job that is tried again.
MailJobGoesBack(r, state) ==
    /\ mailJob[r].state = "held" /\ mailbacks < MaxMailSetbacks
    /\ mailbacks' = mailbacks + 1
    /\ \A f \in mailFetch : f.job = r
    /\ mailJob' = Backed(mailJob, r, state)
    /\ mailFetch' = {}
    /\ UNCHANGED <<providerVars, mailParse, mailResultVars, mailAppliedVars>>

\* The process dies during a fetch.
MailFetchLost ==
    /\ mailFetch # {} /\ mailbacks < MaxMailSetbacks
    /\ mailbacks' = mailbacks + 1
    /\ mailFetch' = {}
    /\ UNCHANGED <<providerVars, mailJob, mailParse, mailResultVars, mailAppliedVars>>

-----------------------------------------------------------------------------
(* The fetch.                                                              *)

\* get_profile, and the cursor as it is read then.
BeginMailFetch(r) ==
    /\ mailFetch = {}
    /\ mailJob[r].state = "held" /\ mailJob[r].stage = "fetch"
    /\ mailFetch' = {[job |-> r, profile |-> box, cursor |-> mailCursor]}
    /\ UNCHANGED <<providerVars, mailbacks, mailJob, mailParse, mailResultVars,
                   mailAppliedVars>>

\* The result of a request, stored once; the job has succeeded.
StoresMail(r, found) ==
    /\ r \notin mailStored
    /\ mailStored' = mailStored \cup {r}
    /\ mailQueue' = Append(mailQueue, found)
    /\ mailJob' = [mailJob EXCEPT ![r] = [state |-> "ended", stage |-> "fetch",
                                          continuation |-> {}, payload |-> {}]]

\* Another claim goes on with the continuation.
ContinuesMail(r, k) ==
    /\ mailJob' = [mailJob EXCEPT ![r] = [state |-> "due", stage |-> "fetch",
                                          continuation |-> {k}, payload |-> mailJob[r].payload]]
    /\ UNCHANGED mailResultVars

\* _build_gmail_continuation_outcome, or no change when nothing is listed; a list that
\* is too long makes the fetch fail (MailJobGoesBack).
Lists(r, ids, latest) ==
    /\ Cardinality(ids) <= MaxList
    /\ \/ ids = {} /\ StoresMail(r, [latest |-> latest, matched |-> {}, left |-> {}])
       \/ /\ ids # {}
          /\ ContinuesMail(r, [rest |-> ids, latest |-> latest, matched |-> {}, left |-> {}])
    /\ mailFetch' = {}
    /\ UNCHANGED <<providerVars, mailbacks, mailParse, mailAppliedVars>>

\* list_history, with the history id of its answer.
ListHistory(f) ==
    /\ mailJob[f.job].continuation = {}
    /\ \E h \in f.cursor : h >= kept /\ Lists(f.job, h + 1 .. box, box)

\* No cursor, or the history is expired: the messages there are, with the history id of
\* the profile, which was read before they were listed.
ListBootstrap(f) ==
    /\ mailJob[f.job].continuation = {}
    /\ \A h \in f.cursor : h < kept
    /\ Lists(f.job, 1 .. box, f.profile)

\* The next chunk of a continuation.
Nearest(rest) == {m \in rest : Cardinality({n \in rest : n < m}) < Chunk}

\* Mutant: the next index is one too far.
AheadByOne(rest) == {m \in rest : Cardinality({n \in rest : n < m}) > Chunk}

\* What is left for the chunks after it.
Ahead(rest) == rest \ Nearest(rest)

\* Mutant: the history id for the cursor is that of the last chunk's profile.
NewestId(k, f) == f.profile

\* The history id for the cursor is the one of the listing.
HistoryId(k, f) == k.latest

\* The last chunk ends the fetch: with work for the parser, or without.
EndsMailFetch(r, found) ==
    \/ found.matched = {} /\ StoresMail(r, found)
    \/ /\ found.matched # {}
       /\ mailJob' = [mailJob EXCEPT ![r] = [state |-> "held", stage |-> "parse",
                                             continuation |-> {}, payload |-> {found}]]
       /\ UNCHANGED mailResultVars

\* One chunk: messages that are missing are skipped, the others pass the filters or not
\* as the courses known at this moment have it.
Hydrate(f, passed) ==
    \E k \in mailJob[f.job].continuation :
        LET matched == k.matched \cup passed
            left    == k.left \cup (Nearest(k.rest) \ passed)
            latest  == HistoryId(k, f)
        IN  /\ passed \subseteq Nearest(k.rest)
            /\ \/ /\ Ahead(k.rest) # {}
                  /\ ContinuesMail(f.job, [rest |-> Ahead(k.rest), latest |-> latest,
                                           matched |-> matched, left |-> left])
               \/ /\ Ahead(k.rest) = {}
                  /\ EndsMailFetch(f.job, [latest |-> latest, matched |-> matched, left |-> left])
            /\ mailFetch' = {}
            /\ UNCHANGED <<providerVars, mailbacks, mailParse, mailAppliedVars>>

-----------------------------------------------------------------------------
(* Parse and apply.                                                        *)

\* A thread reads the payload (bound: the last one that did) ...
ParseMailReads(r) ==
    /\ mailJob[r].state = "held" /\ mailJob[r].payload # {}
    /\ mailParse' = [mailParse EXCEPT ![r] = mailJob[r].payload]
    /\ UNCHANGED <<providerVars, mailbacks, mailJob, mailFetch, mailResultVars,
                   mailAppliedVars>>

\* ... and stores the result with that payload's cursor patch, whatever became of the
\* job; messages that cannot be parsed give no records.
ParseMailStores(r) ==
    /\ \A f \in mailFetch : f.job # r
    /\ \E found \in mailParse[r] : StoresMail(r, found)
    /\ mailParse' = [mailParse EXCEPT ![r] = {}]
    /\ UNCHANGED <<providerVars, mailbacks, mailFetch, mailAppliedVars>>

ApplyMail ==
    /\ mailQueue # <<>>
    /\ mailCursor' = {Head(mailQueue).latest}
    /\ taken' = taken \cup Head(mailQueue).matched
    /\ dismissed' = dismissed \cup Head(mailQueue).left
    /\ mailQueue' = Tail(mailQueue)
    /\ UNCHANGED <<providerVars, mailbacks, mailJob, mailFetch, mailParse, mailStored>>

ApplyMailFails ==
    /\ mailQueue # <<>>
    /\ mailQueue' = Tail(mailQueue)
    /\ UNCHANGED <<providerVars, mailbacks, mailJob, mailFetch, mailParse, mailStored,
                   mailAppliedVars>>

MailboxNext ==
    \/ MailArrives \/ HistoryExpires
    \/ \E r \in MailJobs :
          \/ RequestMailSync(r) \/ ClaimMailJob(r) \/ MailBackoffElapses(r)
          \/ \E state \in {"asleep", "ended"} : MailJobGoesBack(r, state)
          \/ BeginMailFetch(r) \/ ParseMailReads(r) \/ ParseMailStores(r)
    \/ MailFetchLost
    \/ \E f \in mailFetch :
          \/ ListHistory(f) \/ ListBootstrap(f)
          \/ \E passed \in SUBSET Messages : Hydrate(f, passed)
    \/ ApplyMail \/ ApplyMailFails

MailboxSpec == MailboxInit /\ [][MailboxNext]_mailVars

(***************************************************************************)
(* Properties.                                                             *)
(***************************************************************************)
\* Cursor, jobs and results keep the shape the code gives them.
MailboxTypeOK ==
    /\ box \in 0 .. MaxMail /\ kept \in 0 .. box
    /\ mailbacks \in 0 .. MaxMailSetbacks
    /\ mailCursor \subseteq 0 .. MaxMail
    /\ mailJob \in [MailJobs -> MailJob] /\ mailParse \in [MailJobs -> SUBSET Found]
    /\ mailFetch \subseteq MailFetch
    /\ mailQueue \in Seq(Found) /\ mailStored \subseteq MailJobs
    /\ taken \subseteq Messages /\ dismissed \subseteq Messages

\* The cursor never passes a message over: all up to its history id were handed to the
\* parser and applied, or were looked at and left out - whatever arrives
\* during a fetch or between its chunks, and whatever fails or is overtaken.
NoMessagePassedOver ==
    \A h \in mailCursor : 1 .. h \subseteq taken \cup dismissed
=============================================================================
