---------------------------- MODULE DeltaProofs ----------------------------
(***************************************************************************)
(* Proofs about CalendarDelta, for any feed, any number of requests and    *)
(* edits, and any number of fetches that fail or are overtaken; and about  *)
(* MailboxDelta, for any number of messages and requests and any chunk     *)
(* size.  MCObservations runs them beside ReviewChanges; what it does is a *)
(* behaviour of each of the three.                                         *)
(***************************************************************************)
EXTENDS MCObservations, ReviewChangesProofs, FiniteSetTheorems, TLAPS

-----------------------------------------------------------------------------
(* CalendarDelta: feeds and deltas.                                        *)

LEMMA PrintsType ==
  ASSUME NEW f \in Feeds
  PROVE  PrintsOf(f) \in Prints
  BY DeltaAssumption DEF Feeds, Prints, PrintsOf

\* What is parsed has contents; what is removed has no fingerprint; and a component that is
\* neither parsed nor removed says what the cursor says, or lies outside the window.
LEMMA DeltaParts ==
  ASSUME NEW d \in Delta, NEW c \in Components
  PROVE  /\ c \in Parsed(d) => /\ d.seen[c] \in Contents /\ PrintsOf(d.seen)[c] = d.seen[c]
                               /\ c \notin Removed(d)
         /\ c \in Removed(d) => PrintsOf(d.seen)[c] = Absent
         /\ c \notin Parsed(d) \cup Removed(d) =>
               PrintsOf(d.seen)[c] \in {d.base[c]} \cup Outside
  <1>1. /\ d.seen[c] \in Contents \cup {Absent, Cancelled}
        /\ PrintsOf(d.seen)[c] = IF d.seen[c] = Cancelled THEN Absent ELSE d.seen[c]
    BY DEF Delta, Feeds, PrintsOf
  <1> QED  BY <1>1, DeltaAssumption DEF Parsed, Changed, Removed

LEMMA DeltaType ==
  ASSUME NEW base \in Prints, NEW seen \in Feeds
  PROVE  LET d == [base |-> base, seen |-> seen]
         IN  d \in Delta /\ d.base = base /\ d.seen = seen
  BY DEF Delta

-----------------------------------------------------------------------------
(* Type correctness.                                                       *)

IcsJob == [state : JobStates, stage : {"fetch", "dispatch", "parse"}, payload : SUBSET Delta]
IcsCursor == [prints : Prints, etag : SUBSET Feeds]

\* A row that was written has content.
HasContent(row) == row.status # "none" \/ row.threads # {} => row.content \in Contents

DeltaTypes ==
    /\ feed \in Feeds /\ edits \in 0 .. MaxEdits /\ setbacks \in 0 .. MaxSetbacks
    /\ icsCursor \in IcsCursor
    /\ icsJob \in [IcsJobs -> IcsJob]
    /\ icsRow \in [IcsJobs -> [Components -> IcsRow]]
    /\ icsReduce \in [IcsJobs -> SUBSET Delta]
    /\ icsQueue \in Seq(IcsResult) /\ icsStored \subseteq IcsJobs
    /\ shown \in Prints /\ unresolved \in Prints /\ adrift \subseteq Components
    /\ doubtful \in [IcsJobs -> SUBSET Components]

OnePayload == \A r \in IcsJobs : \A d, e \in icsJob[r].payload : d = e
RowsWritten == \A r \in IcsJobs, c \in Components : HasContent(icsRow[r][c])

RowsInv == DeltaTypes /\ OnePayload /\ RowsWritten

LEMMA TypeInvGives == RowsInv => DeltaTypeOK
  <1> SUFFICES ASSUME RowsInv  PROVE DeltaTypeOK
    OBVIOUS
  <1>1. ASSUME NEW r \in IcsJobs  PROVE Cardinality(icsJob[r].payload) <= 1
    <2>1. CASE icsJob[r].payload = {}
      BY <2>1, FS_EmptySet
    <2>2. CASE icsJob[r].payload # {}
      <3>1. PICK d \in icsJob[r].payload : TRUE
        BY <2>2
      <3>2. icsJob[r].payload = {d}
        BY <3>1 DEF RowsInv, OnePayload
      <3>3. Cardinality({d}) = 1
        BY FS_Singleton
      <3> QED  BY <3>2, <3>3
    <2> QED  BY <2>1, <2>2
  <1> QED  BY <1>1 DEF RowsInv, DeltaTypes, DeltaTypeOK, IcsJob, IcsCursor

LEMMA NoRowFits == NoIcsRow \in IcsRow /\ HasContent(NoIcsRow)
  BY DEF NoIcsRow, IcsRow, HasContent

LEMMA RowsInvInit == DeltaInit => RowsInv
  <1> SUFFICES ASSUME DeltaInit  PROVE RowsInv
    OBVIOUS
  <1>1. [state |-> "none", stage |-> "fetch", payload |-> {}] \in IcsJob
    BY DEF IcsJob, JobStates
  <1>2. icsJob \in [IcsJobs -> IcsJob]
    BY <1>1 DEF DeltaInit
  <1>3. \A r \in IcsJobs : icsJob[r].payload = {}
    BY DEF DeltaInit
  <1>4. [c \in Components |-> Absent] \in Prints /\ [c \in Components |-> Absent] \in Feeds
    BY DEF Prints, Feeds
  <1>5. icsCursor \in IcsCursor
    BY <1>4 DEF DeltaInit, IcsCursor
  <1>6. icsRow \in [IcsJobs -> [Components -> IcsRow]] /\ RowsWritten
    BY NoRowFits DEF DeltaInit, RowsWritten
  <1>7. DeltaTypes
    BY <1>2, <1>4, <1>5, <1>6, DeltaBoundsAssumption DEF DeltaInit, DeltaTypes
  <1> QED  BY <1>3, <1>6, <1>7 DEF RowsInv, OnePayload

LEMMA JobAt ==
  ASSUME RowsInv, NEW r \in IcsJobs
  PROVE  /\ icsJob[r] \in IcsJob /\ icsJob[r].payload \subseteq Delta
         /\ icsRow[r] \in [Components -> IcsRow]
         /\ \A c \in Components : icsRow[r][c] \in IcsRow /\ HasContent(icsRow[r][c])
         /\ icsReduce[r] \subseteq Delta /\ doubtful[r] \subseteq Components
  BY DEF RowsInv, DeltaTypes, IcsJob, RowsWritten

\* One job is written.
LEMMA OneJob ==
  ASSUME RowsInv, NEW r \in IcsJobs, NEW x \in IcsJob, icsJob' = [icsJob EXCEPT ![r] = x]
  PROVE  /\ icsJob' \in [IcsJobs -> IcsJob] /\ icsJob'[r] = x
         /\ \A q \in IcsJobs : q # r => icsJob'[q] = icsJob[q]
  BY DEF RowsInv, DeltaTypes

\* The rows of one request are written.
LEMMA OneSetOfRows ==
  ASSUME RowsInv, NEW r \in IcsJobs, NEW rows \in [Components -> IcsRow],
         icsRow' = [icsRow EXCEPT ![r] = rows], \A c \in Components : HasContent(rows[c])
  PROVE  /\ icsRow' \in [IcsJobs -> [Components -> IcsRow]] /\ icsRow'[r] = rows
         /\ \A q \in IcsJobs : q # r => icsRow'[q] = icsRow[q]
         /\ RowsWritten'
  <1>1. /\ icsRow' \in [IcsJobs -> [Components -> IcsRow]] /\ icsRow'[r] = rows
        /\ \A q \in IcsJobs : q # r => icsRow'[q] = icsRow[q]
    BY DEF RowsInv, DeltaTypes
  <1>2. ASSUME NEW q \in IcsJobs, NEW c \in Components  PROVE HasContent(icsRow'[q][c])
    BY <1>1 DEF RowsInv, RowsWritten
  <1> QED  BY <1>1, <1>2 DEF RowsWritten

\* A job is claimed, goes back, or is given up; its payload stays.
LEMMA JobMoves ==
  ASSUME RowsInv, NEW r \in IcsJobs, NEW state \in JobStates,
         \/ Turns(r, state)
         \/ JobGoesBack(r, state)
  PROVE  /\ RowsInv'
         /\ icsJob'[r].payload = icsJob[r].payload
         /\ \A q \in IcsJobs : q # r => icsJob'[q] = icsJob[q]
         /\ UNCHANGED <<feed, edits, icsQueue, icsStored, doubtful, parseVars, appliedVars>>
  <1>1. setbacks' \in 0 .. MaxSetbacks
    BY DeltaBoundsAssumption DEF Turns, JobGoesBack, RowsInv, DeltaTypes
  <1>2. UNCHANGED <<feed, edits, icsQueue, icsStored, doubtful, parseVars, appliedVars>>
    BY DEF Turns, JobGoesBack, Becomes
  <1>3. PICK x \in IcsJob : x.payload = icsJob[r].payload /\ icsJob' = [icsJob EXCEPT ![r] = x]
    <2>1. CASE Turns(r, state)
      <3>1. PICK x : x = [icsJob[r] EXCEPT !.state = state]
        OBVIOUS
      <3>2. x \in IcsJob /\ x.payload = icsJob[r].payload
        BY <3>1, JobAt DEF IcsJob
      <3>3. icsJob' = [icsJob EXCEPT ![r] = x]
        BY <2>1, <3>1 DEF Turns, Becomes
      <3> QED  BY <3>2, <3>3
    <2>2. CASE JobGoesBack(r, state)
      <3>1. PICK x : x = [[icsJob[r] EXCEPT !.state = state] EXCEPT !.stage = "fetch"]
        OBVIOUS
      <3>2. x \in IcsJob /\ x.payload = icsJob[r].payload
        BY <3>1, JobAt DEF IcsJob
      <3>3. icsJob' = [icsJob EXCEPT ![r] = x]
        BY <2>2, <3>1 DEF JobGoesBack, Becomes, Backed, RowsInv, DeltaTypes
      <3> QED  BY <3>2, <3>3
    <2> QED  BY <2>1, <2>2
  <1>6. /\ icsJob' \in [IcsJobs -> IcsJob] /\ icsJob'[r].payload = icsJob[r].payload
        /\ \A q \in IcsJobs : q # r => icsJob'[q] = icsJob[q]
    BY <1>3, OneJob
  <1>7. OnePayload'
    BY <1>6 DEF RowsInv, OnePayload
  <1>8. RowsWritten'
    BY <1>2 DEF RowsInv, RowsWritten, parseVars
  <1>9. DeltaTypes'
    BY <1>1, <1>2, <1>6 DEF RowsInv, DeltaTypes, parseVars, appliedVars
  <1> QED  BY <1>2, <1>6, <1>7, <1>8, <1>9 DEF RowsInv

\* A result is stored.
LEMMA StoresTyped ==
  ASSUME RowsInv, NEW r \in IcsJobs, NEW x \in IcsResult, Stores(r, x),
         UNCHANGED <<feed, edits, setbacks, appliedVars>>
  PROVE  /\ RowsInv'
         /\ icsJob'[r].payload = {}
         /\ \A q \in IcsJobs : q # r => /\ icsJob'[q] = icsJob[q] /\ icsRow'[q] = icsRow[q]
                                        /\ doubtful'[q] = doubtful[q]
         /\ icsQueue' = Append(icsQueue, x)
  <1>1. PICK j : j = [[icsJob[r] EXCEPT !.state = "ended"] EXCEPT !.payload = {}]
    OBVIOUS
  <1>2. j \in IcsJob /\ j.payload = {}
    BY <1>1, JobAt DEF IcsJob, JobStates
  <1>3. icsJob' = [icsJob EXCEPT ![r] = j]
    BY <1>1 DEF Stores, RowsInv, DeltaTypes
  <1>4. /\ icsJob' \in [IcsJobs -> IcsJob] /\ icsJob'[r].payload = {}
        /\ \A q \in IcsJobs : q # r => icsJob'[q] = icsJob[q]
    BY <1>2, <1>3, OneJob
  <1>5. PICK rows \in [Components -> IcsRow] : /\ icsRow' = [icsRow EXCEPT ![r] = rows]
                                               /\ \A c \in Components : rows[c] = NoIcsRow
    <2>1. PICK rows : rows = [c \in Components |-> NoIcsRow]
      OBVIOUS
    <2>2. rows \in [Components -> IcsRow] /\ \A c \in Components : rows[c] = NoIcsRow
      BY <2>1, NoRowFits
    <2>3. icsRow' = [icsRow EXCEPT ![r] = rows]
      BY <2>1 DEF Stores
    <2> QED  BY <2>2, <2>3
  <1>6. /\ icsRow' \in [IcsJobs -> [Components -> IcsRow]]
        /\ \A q \in IcsJobs : q # r => icsRow'[q] = icsRow[q]
        /\ RowsWritten'
    BY <1>5, NoRowFits, OneSetOfRows
  <1>7. /\ doubtful' \in [IcsJobs -> SUBSET Components]
        /\ \A q \in IcsJobs : q # r => doubtful'[q] = doubtful[q]
    BY DEF Stores, RowsInv, DeltaTypes
  <1>8. icsReduce' \in [IcsJobs -> SUBSET Delta]
    BY DEF Stores, RowsInv, DeltaTypes
  <1>9. icsQueue' = Append(icsQueue, x) /\ icsQueue' \in Seq(IcsResult)
    BY DEF Stores, RowsInv, DeltaTypes
  <1>10. icsStored' \subseteq IcsJobs
    BY DEF Stores, RowsInv, DeltaTypes
  <1>11. OnePayload'
    BY <1>4 DEF RowsInv, OnePayload
  <1>12. DeltaTypes'
    BY <1>4, <1>6, <1>7, <1>8, <1>9, <1>10 DEF RowsInv, DeltaTypes, appliedVars
  <1> QED  BY <1>4, <1>6, <1>7, <1>9, <1>11, <1>12 DEF RowsInv

-----------------------------------------------------------------------------
(* What results, rows and the cursor say.                                  *)

\* What the cursor may say of a component when result x is applied.
Meant(x, c) == IF c \in x.silent THEN {x.base[c]} \cup Outside ELSE {x.record[c]}

ResultFits(x) ==
    /\ x.prints = {} => x.silent = Components
    /\ \A c \in Components \ x.doubtful :
         /\ \A p \in x.prints : p[c] \in Meant(x, c)
         /\ \A f \in x.etag : /\ \A p \in x.prints : PrintsOf(f)[c] = p[c]
                              /\ x.prints = {} => PrintsOf(f)[c] = x.base[c]

\* A row that is taken up is of the delta d in the payload.
RowFits(row, d, c) ==
    /\ row.status # "given_up"
    /\ row.status \in {"running", "parsed"} \/ row.threads # {} => c \in Parsed(d)
    /\ row.threads \subseteq {d.seen[c]}
    /\ row.status = "parsed" => row.record = d.seen[c]

DeltaFits(r, d) == \A c \in Components \ doubtful[r] : RowFits(icsRow[r][c], d, c)

QueueFits == \A i \in 1 .. Len(icsQueue) : ResultFits(icsQueue[i])
JobsFit == \A r \in IcsJobs : \A d \in icsJob[r].payload : DeltaFits(r, d)

CursorInv == CursorMeansObserved /\ QueueFits /\ JobsFit

\* The rows and doubts of request r are written, no others, and what they are about stays.
LEMMA RowsFit ==
  ASSUME RowsInv, JobsFit, NEW r \in IcsJobs,
         \A q \in IcsJobs : q # r => /\ icsJob'[q] = icsJob[q] /\ icsRow'[q] = icsRow[q]
                                     /\ doubtful'[q] = doubtful[q],
         \A d \in icsJob'[r].payload : DeltaFits(r, d)'
  PROVE  JobsFit'
  BY DEF JobsFit, DeltaFits

LEMMA PayloadsFit ==
  ASSUME JobsFit, UNCHANGED <<icsRow, doubtful>>,
         \A q \in IcsJobs : icsJob'[q].payload = icsJob[q].payload
  PROVE  JobsFit'
  BY DEF JobsFit, DeltaFits

LEMMA StoresFits ==
  ASSUME RowsInv, CursorInv, NEW r \in IcsJobs, NEW x \in IcsResult, Stores(r, x), ResultFits(x),
         UNCHANGED <<feed, edits, setbacks, appliedVars>>
  PROVE  RowsInv' /\ CursorInv'
  <1>1. /\ RowsInv'
        /\ icsJob'[r].payload = {}
        /\ \A q \in IcsJobs : q # r => /\ icsJob'[q] = icsJob[q] /\ icsRow'[q] = icsRow[q]
                                       /\ doubtful'[q] = doubtful[q]
        /\ icsQueue' = Append(icsQueue, x)
    BY StoresTyped
  <1>2. JobsFit'
    BY <1>1, RowsFit DEF CursorInv
  <1>3. QueueFits'
    <2>1. icsQueue \in Seq(IcsResult)
      BY DEF RowsInv, DeltaTypes
    <2>2. /\ Len(icsQueue') = Len(icsQueue) + 1 /\ icsQueue'[Len(icsQueue) + 1] = x
          /\ \A i \in 1 .. Len(icsQueue) : icsQueue'[i] = icsQueue[i]
      BY <1>1, <2>1
    <2>3. ASSUME NEW i \in 1 .. Len(icsQueue')  PROVE ResultFits(icsQueue'[i])
      <3>1. i \in 1 .. Len(icsQueue) \/ i = Len(icsQueue) + 1
        BY <2>1, <2>2
      <3> QED  BY <2>2, <3>1 DEF CursorInv, QueueFits
    <2> QED  BY <2>3 DEF QueueFits
  <1>4. CursorMeansObserved'
    BY DEF CursorInv, CursorMeansObserved, Held, appliedVars
  <1> QED  BY <1>1, <1>2, <1>3, <1>4 DEF CursorInv

\* A fetch that finds nothing to parse.
LEMMA NoChangeFits ==
  ASSUME RowsInv, CursorInv, NEW r \in IcsJobs, NEW prints \in SUBSET Prints,
         NEW doubt \in SUBSET Components, StoresNoChange(r, prints, doubt),
         \A c \in Components \ doubt :
            /\ \A p \in prints : /\ p[c] \in {icsCursor.prints[c]} \cup Outside
                                 /\ p[c] = PrintsOf(feed)[c]
            /\ prints = {} => PrintsOf(feed)[c] = icsCursor.prints[c]
  PROVE  RowsInv' /\ CursorInv'
  <1>1. PICK x : x = [base |-> icsCursor.prints, prints |-> prints, etag |-> {feed},
                      record |-> [c \in Components |-> Absent], silent |-> Components,
                      doubtful |-> doubt]
    OBVIOUS
  <1>2. icsCursor.prints \in Prints /\ feed \in Feeds /\ [c \in Components |-> Absent] \in Prints
    BY DEF RowsInv, DeltaTypes, IcsCursor, Prints
  <1>3. /\ x \in IcsResult /\ x.base = icsCursor.prints /\ x.prints = prints /\ x.etag = {feed}
        /\ x.silent = Components /\ x.doubtful = doubt
    BY <1>1, <1>2 DEF IcsResult
  <1>4. ResultFits(x)
    BY <1>3 DEF ResultFits, Meant
  <1>5. Stores(r, x) /\ UNCHANGED <<feed, edits, setbacks, appliedVars>>
    BY <1>1 DEF StoresNoChange
  <1> QED  BY <1>3, <1>4, <1>5, StoresFits

LEMMA NotModifiedFits ==
  ASSUME RowsInv, CursorInv, NEW r \in IcsJobs, FetchNotModified(r)
  PROVE  RowsInv' /\ CursorInv'
  <1>1. PICK doubt : doubt = {c \in Components : PrintsOf(feed)[c] # icsCursor.prints[c]}
    OBVIOUS
  <1>2. doubt \in SUBSET Components
        /\ \A c \in Components \ doubt : PrintsOf(feed)[c] = icsCursor.prints[c]
    BY <1>1
  <1>3. StoresNoChange(r, {}, doubt)
    BY <1>1 DEF FetchNotModified
  <1>4. {} \in SUBSET Prints
    OBVIOUS
  <1> QED  BY <1>2, <1>3, <1>4, NoChangeFits

LEMMA NothingNewFits ==
  ASSUME RowsInv, CursorInv, NEW r \in IcsJobs, FetchNothingNew(r)
  PROVE  RowsInv' /\ CursorInv'
  <1>1. PICK d : d = [base |-> icsCursor.prints, seen |-> feed]
    OBVIOUS
  <1>2. d \in Delta /\ d.base = icsCursor.prints /\ d.seen = feed
    BY <1>1, DeltaType DEF RowsInv, DeltaTypes, IcsCursor
  <1>3. Parsed(d) \cup Removed(d) = {} /\ StoresNoChange(r, {PrintsOf(feed)}, {})
    BY <1>1 DEF FetchNothingNew
  <1>4. ASSUME NEW c \in Components
        PROVE  PrintsOf(feed)[c] \in {icsCursor.prints[c]} \cup Outside
    BY <1>2, <1>3, DeltaParts
  <1>5. {PrintsOf(feed)} \in SUBSET Prints /\ {} \in SUBSET Components
    BY PrintsType DEF RowsInv, DeltaTypes
  <1> QED  BY <1>3, <1>4, <1>5, NoChangeFits


LEMMA EditFits ==
  ASSUME RowsInv, CursorInv, NEW c \in Components, NEW v \in Contents \cup {Absent, Cancelled},
         EditFeed(c, v)
  PROVE  RowsInv' /\ CursorInv'
  <1>1. feed' \in Feeds
    BY DEF EditFeed, RowsInv, DeltaTypes, Feeds
  <1>2. edits' \in 0 .. MaxEdits
    BY DeltaBoundsAssumption DEF EditFeed, RowsInv, DeltaTypes
  <1>3. UNCHANGED <<setbacks, icsJob, icsRow, icsReduce, icsQueue, icsStored, doubtful,
                    icsCursor, shown, unresolved, adrift>>
    BY DEF EditFeed, parseVars, appliedVars
  <1>4. RowsInv'
    BY <1>1, <1>2, <1>3 DEF RowsInv, DeltaTypes, OnePayload, RowsWritten
  <1>5. CursorInv'
    BY <1>3 DEF CursorInv, CursorMeansObserved, Held, QueueFits, JobsFit, DeltaFits
  <1> QED  BY <1>4, <1>5

LEMMA MovesFit ==
  ASSUME RowsInv, CursorInv, NEW r \in IcsJobs,
         \/ RequestSync(r) \/ ClaimIcsJob(r) \/ BackoffElapses(r)
         \/ \E state \in {"asleep", "ended"} : JobGoesBack(r, state)
  PROVE  RowsInv' /\ CursorInv'
  <1>1. PICK state \in JobStates : Turns(r, state) \/ JobGoesBack(r, state)
    BY DEF RequestSync, ClaimIcsJob, BackoffElapses, JobStates
  <1>2. /\ RowsInv'
        /\ icsJob'[r].payload = icsJob[r].payload
        /\ \A q \in IcsJobs : q # r => icsJob'[q] = icsJob[q]
        /\ UNCHANGED <<feed, edits, icsQueue, icsStored, doubtful, parseVars, appliedVars>>
    BY <1>1, JobMoves
  <1>3. UNCHANGED <<icsQueue, icsRow, doubtful, icsCursor, shown, unresolved, adrift>>
    BY <1>2 DEF parseVars, appliedVars
  <1>4. JobsFit'
    BY <1>2, <1>3, PayloadsFit DEF CursorInv
  <1> QED  BY <1>2, <1>3, <1>4 DEF CursorInv, CursorMeansObserved, Held, QueueFits

\* A fetch with something to parse: what is taken up already is in doubt.
LEMMA FetchFits ==
  ASSUME RowsInv, CursorInv, NEW r \in IcsJobs, FetchDelta(r)
  PROVE  RowsInv' /\ CursorInv'
  <1>1. PICK d : d = [base |-> icsCursor.prints, seen |-> feed]
    OBVIOUS
  <1>2. d \in Delta
    BY <1>1, DeltaType DEF RowsInv, DeltaTypes, IcsCursor
  <1>3. PICK old \in SUBSET Components :
           old = {c \in Components : \/ icsRow[r][c].status \notin {"none", "pending"}
                                     \/ icsRow[r][c].threads # {}}
    OBVIOUS
  <1>4. /\ icsJob' = [icsJob EXCEPT ![r].stage = "dispatch", ![r].payload = {d}]
        /\ doubtful' = [doubtful EXCEPT ![r] = old]
        /\ UNCHANGED <<feed, edits, setbacks, icsQueue, icsStored, icsRow, icsReduce, icsCursor,
                       shown, unresolved, adrift>>
    BY <1>1, <1>3 DEF FetchDelta, parseVars, appliedVars
  <1>5. PICK j : j = [[icsJob[r] EXCEPT !.stage = "dispatch"] EXCEPT !.payload = {d}]
    OBVIOUS
  <1>6. j \in IcsJob /\ j.payload = {d}
    BY <1>2, <1>5, JobAt DEF IcsJob
  <1>7. icsJob' = [icsJob EXCEPT ![r] = j]
    BY <1>4, <1>5 DEF RowsInv, DeltaTypes
  <1>8. /\ icsJob' \in [IcsJobs -> IcsJob] /\ icsJob'[r].payload = {d}
        /\ \A q \in IcsJobs : q # r => icsJob'[q] = icsJob[q]
    BY <1>6, <1>7, OneJob
  <1>9. /\ doubtful' \in [IcsJobs -> SUBSET Components]
        /\ doubtful'[r] = old
        /\ \A q \in IcsJobs : q # r => doubtful'[q] = doubtful[q]
    BY <1>4 DEF RowsInv, DeltaTypes
  <1>10. DeltaTypes' /\ RowsWritten'
    BY <1>4, <1>8, <1>9 DEF RowsInv, DeltaTypes, RowsWritten
  <1>11. OnePayload'
    BY <1>8 DEF RowsInv, OnePayload
  <1>12. ASSUME NEW c \in Components \ doubtful'[r]  PROVE RowFits(icsRow'[r][c], d, c)
    <2>1. icsRow'[r][c] = icsRow[r][c] /\ c \notin old
      BY <1>4, <1>9
    <2>2. icsRow[r][c].status \in {"none", "pending"} /\ icsRow[r][c].threads = {}
      BY <1>3, <2>1
    <2> QED  BY <2>1, <2>2 DEF RowFits
  <1>13. \A e \in icsJob'[r].payload : DeltaFits(r, e)'
    BY <1>8, <1>9, <1>12 DEF DeltaFits
  <1>14. JobsFit'
    BY <1>4, <1>8, <1>9, <1>13, RowsFit DEF CursorInv
  <1>15. CursorMeansObserved' /\ QueueFits'
    BY <1>4 DEF CursorInv, CursorMeansObserved, Held, QueueFits
  <1> QED  BY <1>10, <1>11, <1>14, <1>15 DEF RowsInv, CursorInv


\* The rows of request r are written, and what may be in doubt of it grows.
LEMMA RowsMove ==
  ASSUME RowsInv, CursorInv, NEW r \in IcsJobs, NEW rows \in [Components -> IcsRow],
         NEW doubt \in SUBSET Components, doubtful[r] \subseteq doubt,
         icsRow' = [icsRow EXCEPT ![r] = rows], doubtful' = [doubtful EXCEPT ![r] = doubt],
         icsJob' \in [IcsJobs -> IcsJob], \A q \in IcsJobs : icsJob'[q].payload = icsJob[q].payload,
         UNCHANGED <<feed, edits, setbacks, icsReduce, icsQueue, icsStored, appliedVars>>,
         \A c \in Components : HasContent(rows[c]),
         \A d \in icsJob[r].payload : \A c \in Components \ doubt : RowFits(rows[c], d, c)
  PROVE  RowsInv' /\ CursorInv'
  <1>1. /\ icsRow' \in [IcsJobs -> [Components -> IcsRow]] /\ icsRow'[r] = rows
        /\ \A q \in IcsJobs : q # r => icsRow'[q] = icsRow[q]
        /\ RowsWritten'
    BY OneSetOfRows
  <1>2. /\ doubtful' \in [IcsJobs -> SUBSET Components] /\ doubtful'[r] = doubt
        /\ \A q \in IcsJobs : q # r => doubtful'[q] = doubtful[q]
    BY DEF RowsInv, DeltaTypes
  <1>3. DeltaTypes'
    BY <1>1, <1>2 DEF RowsInv, DeltaTypes, appliedVars
  <1>4. OnePayload'
    BY DEF RowsInv, OnePayload
  <1>5. ASSUME NEW q \in IcsJobs, NEW d \in icsJob'[q].payload  PROVE DeltaFits(q, d)'
    <2>1. d \in icsJob[q].payload /\ DeltaFits(q, d)
      BY DEF CursorInv, JobsFit
    <2>2. CASE q = r
      BY <1>1, <1>2, <2>1, <2>2 DEF DeltaFits
    <2>3. CASE q # r
      BY <1>1, <1>2, <2>1, <2>3 DEF DeltaFits
    <2> QED  BY <2>2, <2>3
  <1>6. CursorMeansObserved' /\ QueueFits'
    BY DEF CursorInv, CursorMeansObserved, Held, QueueFits, appliedVars
  <1> QED  BY <1>1, <1>3, <1>4, <1>5, <1>6 DEF RowsInv, CursorInv, JobsFit

\* What upserting leaves behind: rows of the same delta, those it parses with their content.
LEMMA UpsertedFits ==
  ASSUME RowsInv, NEW r \in IcsJobs, NEW d \in icsJob[r].payload, NEW rows, rows = Upserted(r, d)
  PROVE  /\ rows \in [Components -> IcsRow]
         /\ \A c \in Components : HasContent(rows[c])
         /\ \A c \in Components : RowFits(icsRow[r][c], d, c) => RowFits(rows[c], d, c)
  <1>1. d \in Delta
    BY JobAt
  <1>2. ASSUME NEW c \in Components
        PROVE  /\ rows[c] \in IcsRow /\ HasContent(rows[c])
               /\ RowFits(icsRow[r][c], d, c) => RowFits(rows[c], d, c)
    <2>1. icsRow[r][c] \in IcsRow /\ HasContent(icsRow[r][c])
      BY JobAt
    <2>2. CASE c \notin Parsed(d)
      <3>1. rows[c] = icsRow[r][c]
        BY <2>2 DEF Upserted
      <3> QED  BY <2>1, <3>1
    <2>3. CASE c \in Parsed(d)
      <3>1. d.seen[c] \in Contents
        BY <1>1, <2>3, DeltaParts
      <3>2. PICK x : x = [[icsRow[r][c] EXCEPT !.content = d.seen[c]] EXCEPT
                              !.status = IF icsRow[r][c].status = "none" THEN "pending"
                                         ELSE icsRow[r][c].status]
        OBVIOUS
      <3>3. /\ x \in IcsRow /\ x.content = d.seen[c] /\ x.threads = icsRow[r][c].threads
            /\ x.record = icsRow[r][c].record
            /\ x.status = IF icsRow[r][c].status = "none" THEN "pending"
                          ELSE icsRow[r][c].status
        BY <2>1, <3>1, <3>2 DEF IcsRow
      <3>4. rows[c] = x
        BY <2>1, <2>3, <3>2 DEF Upserted, IcsRow
      <3> QED  BY <3>1, <3>3, <3>4 DEF RowFits, HasContent
    <2> QED  BY <2>2, <2>3
  <1>3. DOMAIN rows = Components /\ rows = [c \in DOMAIN rows |-> rows[c]]
    BY DEF Upserted
  <1> QED  BY <1>2, <1>3

LEMMA DispatchFits ==
  ASSUME RowsInv, CursorInv, NEW r \in IcsJobs, DispatchDelta(r)
  PROVE  RowsInv' /\ CursorInv'
  <1>1. PICK d \in icsJob[r].payload : icsRow' = [icsRow EXCEPT ![r] = Upserted(r, d)]
    BY DEF DispatchDelta
  <1>2. PICK rows : rows = Upserted(r, d)
    OBVIOUS
  <1>3. PICK j : j = [icsJob[r] EXCEPT !.stage = "parse"]
    OBVIOUS
  <1>4. j \in IcsJob /\ j.payload = icsJob[r].payload
    BY <1>3, JobAt DEF IcsJob
  <1>5. icsJob' = [icsJob EXCEPT ![r] = j]
    BY <1>3 DEF DispatchDelta
  <1>6. /\ icsJob' \in [IcsJobs -> IcsJob]
        /\ \A q \in IcsJobs : icsJob'[q].payload = icsJob[q].payload
    BY <1>4, <1>5, OneJob
  <1>7. rows \in [Components -> IcsRow] /\ \A c \in Components : HasContent(rows[c])
    BY <1>2, UpsertedFits
  <1>8. ASSUME NEW e \in icsJob[r].payload, NEW c \in Components \ doubtful[r]
        PROVE  RowFits(rows[c], e, c)
    <2>1. e = d
      BY DEF RowsInv, OnePayload
    <2>2. RowFits(icsRow[r][c], d, c)
      BY DEF CursorInv, JobsFit, DeltaFits
    <2> QED  BY <1>2, <2>1, <2>2, UpsertedFits
  <1>9. doubtful' = [doubtful EXCEPT ![r] = doubtful[r]] /\ doubtful[r] \in SUBSET Components
    BY JobAt DEF DispatchDelta, RowsInv, DeltaTypes
  <1>10. UNCHANGED <<feed, edits, setbacks, icsReduce, icsQueue, icsStored, appliedVars>>
    BY DEF DispatchDelta
  <1>11. icsRow' = [icsRow EXCEPT ![r] = rows]
    BY <1>1, <1>2
  <1> QED  BY <1>6, <1>7, <1>8, <1>9, <1>10, <1>11, RowsMove

LEMMA StartFits ==
  ASSUME RowsInv, CursorInv, NEW r \in IcsJobs, NEW c \in Components, StartComponent(r, c)
  PROVE  RowsInv' /\ CursorInv'
  <1>1. PICK d, rows, old, x :
           /\ d \in icsJob[r].payload
           /\ rows = IF icsRow[r][c].status = "none" THEN Upserted(r, d) ELSE icsRow[r]
           /\ old = {c} \ {y \in Parsed(d) : rows[y].content = d.seen[y]}
           /\ rows[c].status \in {"pending", "running"}
           /\ x = [rows[c] EXCEPT !.status = "running", !.threads = @ \cup {rows[c].content}]
           /\ icsRow' = [icsRow EXCEPT ![r] = [rows EXCEPT ![c] = x]]
           /\ doubtful' = [doubtful EXCEPT ![r] = @ \cup old]
    <2>1. PICK d \in icsJob[r].payload :
             LET rows == IF icsRow[r][c].status = "none" THEN Upserted(r, d) ELSE icsRow[r]
                 row  == [rows[c] EXCEPT !.status = "running",
                                         !.threads = @ \cup {rows[c].content}]
                 old  == {c} \ {x \in Parsed(d) : rows[x].content = d.seen[x]}
             IN  /\ rows[c].status \in {"pending", "running"}
                 /\ icsRow' = [icsRow EXCEPT ![r] = [rows EXCEPT ![c] = row]]
                 /\ doubtful' = [doubtful EXCEPT ![r] = @ \cup old]
      BY Zenon DEF StartComponent
    <2>2. PICK rows :
             rows = IF icsRow[r][c].status = "none" THEN Upserted(r, d) ELSE icsRow[r]
      OBVIOUS
    <2>3. PICK x :
             x = [rows[c] EXCEPT !.status = "running", !.threads = @ \cup {rows[c].content}]
      OBVIOUS
    <2>4. PICK old : old = {c} \ {y \in Parsed(d) : rows[y].content = d.seen[y]}
      OBVIOUS
    <2>5. /\ rows[c].status \in {"pending", "running"}
          /\ icsRow' = [icsRow EXCEPT ![r] = [rows EXCEPT ![c] = x]]
          /\ doubtful' = [doubtful EXCEPT ![r] = @ \cup old]
      BY <2>1, <2>2, <2>3, <2>4
    <2> QED  BY <2>2, <2>3, <2>4, <2>5
  <1>2. /\ rows \in [Components -> IcsRow]
        /\ \A y \in Components : HasContent(rows[y])
        /\ \A y \in Components : RowFits(icsRow[r][y], d, y) => RowFits(rows[y], d, y)
    <2>1. CASE icsRow[r][c].status = "none"
      BY <1>1, <2>1, UpsertedFits
    <2>2. CASE icsRow[r][c].status # "none"
      BY <1>1, <2>2, JobAt
    <2> QED  BY <2>1, <2>2
  <1>3. rows[c] \in IcsRow /\ rows[c].content \in Contents
    BY <1>1, <1>2 DEF HasContent
  <1>4. x = [[rows[c] EXCEPT !.status = "running"] EXCEPT
                 !.threads = rows[c].threads \cup {rows[c].content}]
    BY <1>1, <1>3 DEF IcsRow
  <1>5. /\ x \in IcsRow /\ x.status = "running" /\ x.content = rows[c].content
        /\ x.threads = rows[c].threads \cup {rows[c].content} /\ x.record = rows[c].record
    BY <1>3, <1>4 DEF IcsRow
  <1>6. PICK new : new = [rows EXCEPT ![c] = x]
    OBVIOUS
  <1>7. /\ new \in [Components -> IcsRow] /\ new[c] = x
        /\ \A y \in Components : y # c => new[y] = rows[y]
    BY <1>2, <1>5, <1>6
  <1>8. \A y \in Components : HasContent(new[y])
    BY <1>2, <1>3, <1>5, <1>7 DEF HasContent
  <1>9. PICK doubt : doubt = doubtful[r] \cup old
    OBVIOUS
  <1>10. doubt \in SUBSET Components /\ doubtful[r] \subseteq doubt
    BY <1>1, <1>9, JobAt
  <1>11. ASSUME NEW e \in icsJob[r].payload, NEW y \in Components \ doubt
         PROVE  RowFits(new[y], e, y)
    <2>1. e = d
      BY <1>1 DEF RowsInv, OnePayload
    <2>2. RowFits(rows[y], d, y)
      BY <1>1, <1>2, <1>9 DEF CursorInv, JobsFit, DeltaFits
    <2>3. CASE y # c
      BY <1>7, <2>1, <2>2, <2>3
    <2>4. CASE y = c
      <3>1. c \in Parsed(d) /\ rows[c].content = d.seen[c]
        BY <1>1, <1>9, <2>4
      <3> QED  BY <1>5, <1>7, <2>1, <2>2, <2>4, <3>1 DEF RowFits
    <2> QED  BY <2>3, <2>4
  <1>12. icsRow' = [icsRow EXCEPT ![r] = new] /\ doubtful' = [doubtful EXCEPT ![r] = doubt]
    BY <1>1, <1>6, <1>9
  <1>13. /\ icsJob' \in [IcsJobs -> IcsJob]
         /\ \A q \in IcsJobs : icsJob'[q].payload = icsJob[q].payload
    BY DEF StartComponent, RowsInv, DeltaTypes
  <1>14. UNCHANGED <<feed, edits, setbacks, icsReduce, icsQueue, icsStored, appliedVars>>
    BY DEF StartComponent
  <1> QED  BY <1>7, <1>8, <1>10, <1>11, <1>12, <1>13, <1>14, RowsMove

LEMMA FinishFits ==
  ASSUME RowsInv, CursorInv, NEW r \in IcsJobs, NEW c \in Components, NEW v \in Contents,
         NEW status \in {"parsed", "pending", "given_up"}, FinishComponent(r, c, v, status)
  PROVE  RowsInv' /\ CursorInv'
  <1>1. PICK x : x = [[[icsRow[r][c] EXCEPT !.status = status] EXCEPT
                          !.threads = icsRow[r][c].threads \ {v}] EXCEPT
                          !.record = IF status = "parsed" THEN v ELSE icsRow[r][c].record]
    OBVIOUS
  <1>2. icsRow[r][c] \in IcsRow /\ HasContent(icsRow[r][c]) /\ v \in icsRow[r][c].threads
    BY JobAt DEF FinishComponent
  <1>3. /\ x \in IcsRow /\ x.status = status /\ x.content = icsRow[r][c].content
        /\ x.threads = icsRow[r][c].threads \ {v}
        /\ x.record = IF status = "parsed" THEN v ELSE icsRow[r][c].record
    BY <1>1, <1>2 DEF IcsRow
  <1>4. PICK new : new = [icsRow[r] EXCEPT ![c] = x]
    OBVIOUS
  <1>5. icsRow' = [icsRow EXCEPT ![r] = new]
    BY <1>1, <1>2, <1>4 DEF FinishComponent, IcsRow
  <1>6. /\ new \in [Components -> IcsRow] /\ new[c] = x
        /\ \A y \in Components : y # c => new[y] = icsRow[r][y]
    BY <1>3, <1>4, JobAt
  <1>7. \A y \in Components : HasContent(new[y])
    BY <1>2, <1>3, <1>6, JobAt DEF HasContent
  <1>8. PICK doubt : doubt = IF status = "given_up" THEN doubtful[r] \cup {c} ELSE doubtful[r]
    OBVIOUS
  <1>9. /\ doubt \in SUBSET Components /\ doubtful[r] \subseteq doubt
        /\ doubtful' = [doubtful EXCEPT ![r] = doubt]
    BY <1>8, JobAt DEF FinishComponent, RowsInv, DeltaTypes
  <1>10. ASSUME NEW d \in icsJob[r].payload, NEW y \in Components \ doubt
         PROVE  RowFits(new[y], d, y)
    <2>1. RowFits(icsRow[r][y], d, y)
      BY <1>9 DEF CursorInv, JobsFit, DeltaFits
    <2>2. CASE y # c
      BY <1>6, <2>1, <2>2
    <2>3. CASE y = c
      <3>1. status # "given_up"
        BY <1>8, <2>3
      <3>2. v = d.seen[c] /\ c \in Parsed(d)
        BY <1>2, <2>1, <2>3 DEF RowFits
      <3> QED  BY <1>3, <1>6, <2>1, <2>3, <3>1, <3>2 DEF RowFits
    <2> QED  BY <2>2, <2>3
  <1>11. /\ icsJob' \in [IcsJobs -> IcsJob]
         /\ \A q \in IcsJobs : icsJob'[q].payload = icsJob[q].payload
    BY DEF FinishComponent, RowsInv, DeltaTypes
  <1>12. UNCHANGED <<feed, edits, setbacks, icsReduce, icsQueue, icsStored, appliedVars>>
    BY DEF FinishComponent
  <1> QED  BY <1>5, <1>6, <1>7, <1>9, <1>10, <1>11, <1>12, RowsMove

LEMMA ReduceReadsFits ==
  ASSUME RowsInv, CursorInv, NEW r \in IcsJobs, ReduceReads(r)
  PROVE  RowsInv' /\ CursorInv'
  <1>1. icsReduce' \in [IcsJobs -> SUBSET Delta]
    BY JobAt DEF ReduceReads, RowsInv, DeltaTypes
  <1>2. UNCHANGED <<feed, edits, setbacks, icsJob, icsRow, icsQueue, icsStored, doubtful,
                    icsCursor, shown, unresolved, adrift>>
    BY DEF ReduceReads, appliedVars
  <1>3. RowsInv'
    BY <1>1, <1>2 DEF RowsInv, DeltaTypes, OnePayload, RowsWritten
  <1>4. CursorInv'
    BY <1>2 DEF CursorInv, CursorMeansObserved, Held, QueueFits, JobsFit, DeltaFits
  <1> QED  BY <1>3, <1>4


\* A reduce message's result speaks of what its delta removes and of the rows with a record;
\* what it is silent about the delta left as it was.
LEMMA ReduceFits ==
  ASSUME RowsInv, CursorInv, NEW r \in IcsJobs, NEW d \in icsReduce[r], ReduceCommits(r, d)
  PROVE  RowsInv' /\ CursorInv'
  <1> DEFINE parsed == {c \in Components : icsRow[r][c].status = "parsed"}
             unseen == {c \in Parsed(d) : icsRow[r][c].status = "none"}
             record == [c \in Components |-> IF c \in parsed THEN icsRow[r][c].record
                                             ELSE Absent]
             doubt == IF d \in icsJob[r].payload THEN doubtful[r] \cup unseen ELSE Components
  <1>1. PICK x : x = [base |-> d.base, prints |-> {PrintsOf(d.seen)}, etag |-> {d.seen},
                      record |-> record, silent |-> Components \ (parsed \cup Removed(d)),
                      doubtful |-> doubt]
    OBVIOUS
  <1>2. d \in Delta /\ d.base \in Prints /\ d.seen \in Feeds /\ PrintsOf(d.seen) \in Prints
    <2>1. d \in Delta
      BY JobAt
    <2>2. d.base \in Prints /\ d.seen \in Feeds
      BY <2>1 DEF Delta
    <2> QED  BY <2>1, <2>2, PrintsType
  <1>3. record \in Prints
    <2>1. \A c \in Components : icsRow[r][c].record \in Contents \cup {Absent}
      BY JobAt DEF IcsRow
    <2> QED  BY <2>1 DEF Prints
  <1>4. doubt \in SUBSET Components
    BY JobAt DEF Parsed, Changed
  <1>5. x \in IcsResult /\ x.base = d.base /\ x.prints = {PrintsOf(d.seen)} /\ x.etag = {d.seen}
        /\ x.record = record /\ x.silent = Components \ (parsed \cup Removed(d))
        /\ x.doubtful = doubt
    <2> HIDE DEF record, doubt, parsed, unseen
    <2> QED  BY <1>1, <1>2, <1>3, <1>4 DEF IcsResult
  <1>6. ASSUME NEW c \in Components \ doubt  PROVE PrintsOf(d.seen)[c] \in Meant(x, c)
    <2>1. d \in icsJob[r].payload /\ c \notin doubtful[r] /\ c \notin unseen
      OBVIOUS
    <2>2. RowFits(icsRow[r][c], d, c)
      BY <2>1 DEF CursorInv, JobsFit, DeltaFits
    <2>3. icsRow[r][c].status \in {"none", "parsed"}
      <3>1. icsRow[r][c].status \notin {"pending", "running"}
        BY DEF ReduceCommits, OpenRows
      <3>2. icsRow[r][c] \in IcsRow
        BY JobAt
      <3> QED  BY <2>2, <3>1, <3>2 DEF RowFits, IcsRow
    <2>4. CASE c \in parsed
      <3>1. c \in Parsed(d) /\ icsRow[r][c].record = d.seen[c]
        BY <2>2, <2>4 DEF RowFits
      <3>2. PrintsOf(d.seen)[c] = d.seen[c]
        BY <1>2, <3>1, DeltaParts
      <3>3. x.record[c] = icsRow[r][c].record /\ c \notin x.silent
        BY <1>5, <2>4
      <3> QED  BY <3>1, <3>2, <3>3 DEF Meant
    <2>5. CASE c \notin parsed /\ c \in Removed(d)
      <3>1. x.record[c] = Absent /\ c \notin x.silent
        BY <1>5, <2>5
      <3>2. PrintsOf(d.seen)[c] = Absent
        BY <1>2, <2>5, DeltaParts
      <3> QED  BY <3>1, <3>2 DEF Meant
    <2>6. CASE c \notin parsed /\ c \notin Removed(d)
      <3>1. c \in x.silent /\ x.base[c] = d.base[c]
        BY <1>5, <2>6
      <3>2. c \notin Parsed(d)
        BY <2>1, <2>3, <2>6
      <3>3. PrintsOf(d.seen)[c] \in {d.base[c]} \cup Outside
        BY <1>2, <2>6, <3>2, DeltaParts
      <3> QED  BY <3>1, <3>3 DEF Meant
    <2> QED  BY <2>4, <2>5, <2>6
  <1>7. ResultFits(x)
    <2> HIDE DEF record, doubt, parsed, unseen
    <2> QED  BY <1>5, <1>6 DEF ResultFits
  <1>8. Stores(r, x) /\ UNCHANGED <<feed, edits, setbacks, appliedVars>>
    BY <1>1 DEF ReduceCommits
  <1> QED  BY <1>5, <1>7, <1>8, StoresFits

-----------------------------------------------------------------------------
(* The apply loop.                                                         *)

\* Taking the head leaves a queue of the same results.
LEMMA QueueTail ==
  ASSUME RowsInv, QueueFits, icsQueue # <<>>, icsQueue' = Tail(icsQueue)
  PROVE  /\ Head(icsQueue) \in IcsResult /\ ResultFits(Head(icsQueue))
         /\ icsQueue' \in Seq(IcsResult) /\ QueueFits'
  <1>1. icsQueue \in Seq(IcsResult)
    BY DEF RowsInv, DeltaTypes
  <1>2. Head(icsQueue) = icsQueue[1] /\ 1 \in 1 .. Len(icsQueue) /\ icsQueue[1] \in IcsResult
    BY <1>1
  <1>3. /\ icsQueue' \in Seq(IcsResult)
        /\ \A i \in 1 .. Len(icsQueue') : i + 1 \in 1 .. Len(icsQueue)
                                          /\ icsQueue'[i] = icsQueue[i + 1]
    BY <1>1
  <1> QED  BY <1>2, <1>3 DEF QueueFits

\* Once a result is applied, a component that is not adrift is one the result told of, or one
\* whose record and fingerprint both stayed.
LEMMA ApplyFits ==
  ASSUME RowsInv, CursorInv, ApplyDelta
  PROVE  RowsInv' /\ CursorInv'
  <1> DEFINE res == Head(icsQueue)
             told == Components \ res.silent
             moved == {c \in Components : icsCursor.prints[c] # res.base[c]}
  <1>2. /\ res \in IcsResult /\ ResultFits(res)
        /\ icsQueue' \in Seq(IcsResult) /\ QueueFits'
    BY QueueTail DEF ApplyDelta, CursorInv
  <1>3. /\ told = Components \ res.silent
        /\ moved = {c \in Components : icsCursor.prints[c] # res.base[c]}
    OBVIOUS
  <1>4. /\ \E lost \in SUBSET {c \in told : res.record[c] # Absent} : Observes(res, lost)
        /\ \E prints \in IF res.prints = {} THEN {icsCursor.prints} ELSE res.prints :
              icsCursor' = [prints |-> prints, etag |-> res.etag]
        /\ adrift' = ((adrift \cup moved) \ told) \cup res.doubtful
    BY Zenon DEF ApplyDelta
  <1> HIDE DEF res, told, moved
  <1>5. PICK prints \in IF res.prints = {} THEN {icsCursor.prints} ELSE res.prints :
           icsCursor' = [prints |-> prints, etag |-> res.etag]
    BY <1>4
  <1>6. /\ res.base \in Prints /\ res.prints \subseteq Prints /\ res.etag \subseteq Feeds
        /\ res.record \in Prints /\ res.silent \subseteq Components
        /\ res.doubtful \subseteq Components
    BY <1>2 DEF IcsResult
  <1>7. /\ icsCursor.prints \in Prints /\ shown \in Prints /\ unresolved \in Prints
        /\ adrift \subseteq Components
    BY DEF RowsInv, DeltaTypes, IcsCursor
  <1>8. icsCursor' \in IcsCursor /\ icsCursor'.prints = prints /\ icsCursor'.etag = res.etag
    BY <1>5, <1>6, <1>7 DEF IcsCursor
  <1>9. shown' \in Prints /\ unresolved' \in Prints /\ adrift' \subseteq Components
    BY <1>3, <1>4, <1>6, <1>7 DEF Prints, Observes
  <1>10. UNCHANGED <<feed, edits, setbacks, icsJob, icsStored, doubtful, icsRow, icsReduce>>
    BY DEF ApplyDelta, parseVars
  <1>11. RowsInv'
    BY <1>2, <1>8, <1>9, <1>10 DEF RowsInv, DeltaTypes, OnePayload, RowsWritten
  <1>12. JobsFit'
    BY <1>10 DEF CursorInv, JobsFit, DeltaFits
  <1>13. ASSUME NEW c \in Components
         PROVE  /\ Absent \in {shown'[c], unresolved'[c]}
                /\ c \in told => Held(c)' = res.record[c]
                /\ c \notin told => Held(c)' = Held(c)
    <2>1. Absent \in {shown[c], unresolved[c]}
      BY DEF CursorInv, CursorMeansObserved
    <2> QED  BY <1>3, <1>4, <2>1 DEF Held, Observes
  <1>14. ASSUME NEW c \in Components \ adrift'
         PROVE  /\ prints[c] \in {Held(c)'} \cup Outside
                /\ \A f \in res.etag : PrintsOf(f)[c] = prints[c]
    <2>1. c \notin res.doubtful /\ (c \in told \/ c \notin adrift \cup moved)
      BY <1>4
    <2>2. /\ \A p \in res.prints : p[c] \in Meant(res, c)
          /\ \A f \in res.etag : /\ \A p \in res.prints : PrintsOf(f)[c] = p[c]
                                 /\ res.prints = {} => PrintsOf(f)[c] = res.base[c]
      BY <1>2, <2>1 DEF ResultFits
    <2>3. CASE c \in told
      <3>1. res.prints # {} /\ prints \in res.prints
        BY <1>2, <1>3, <1>5, <2>3 DEF ResultFits
      <3>2. prints[c] = res.record[c]
        BY <1>3, <2>2, <2>3, <3>1 DEF Meant
      <3> QED  BY <1>13, <2>2, <2>3, <3>1, <3>2
    <2>4. CASE c \notin told
      <3>1. icsCursor.prints[c] = res.base[c]
        BY <1>3, <2>1, <2>4
      <3>2. icsCursor.prints[c] \in {Held(c)'} \cup Outside
        BY <1>13, <2>1, <2>4 DEF CursorInv, CursorMeansObserved
      <3>3. CASE res.prints # {}
        BY <1>3, <1>5, <2>2, <2>4, <3>1, <3>2, <3>3 DEF Meant
      <3>4. CASE res.prints = {}
        BY <1>5, <2>2, <3>1, <3>2, <3>4
      <3> QED  BY <3>3, <3>4
    <2> QED  BY <2>3, <2>4
  <1>15. CursorMeansObserved'
    BY <1>8, <1>13, <1>14 DEF CursorMeansObserved
  <1> QED  BY <1>2, <1>11, <1>12, <1>15 DEF CursorInv

LEMMA ApplyFailsFits ==
  ASSUME RowsInv, CursorInv, ApplyDeltaFails
  PROVE  RowsInv' /\ CursorInv'
  <1>1. icsQueue' \in Seq(IcsResult) /\ QueueFits'
    BY QueueTail DEF ApplyDeltaFails, CursorInv
  <1>2. UNCHANGED <<feed, edits, setbacks, icsJob, icsStored, doubtful, icsRow, icsReduce,
                    icsCursor, shown, unresolved, adrift>>
    BY DEF ApplyDeltaFails, parseVars, appliedVars
  <1>3. RowsInv'
    BY <1>1, <1>2 DEF RowsInv, DeltaTypes, OnePayload, RowsWritten
  <1>4. CursorMeansObserved' /\ JobsFit'
    BY <1>2 DEF CursorInv, CursorMeansObserved, Held, JobsFit, DeltaFits
  <1> QED  BY <1>1, <1>3, <1>4 DEF CursorInv

-----------------------------------------------------------------------------
(* The theorems.                                                           *)

LEMMA CursorInvInit == DeltaInit => CursorInv
  <1> SUFFICES ASSUME DeltaInit  PROVE CursorInv
    OBVIOUS
  <1>1. icsCursor.prints = [c \in Components |-> Absent] /\ icsCursor.etag = {}
    BY DEF DeltaInit
  <1>2. CursorMeansObserved
    BY <1>1 DEF DeltaInit, CursorMeansObserved, Held
  <1>3. icsQueue = <<>> /\ \A r \in IcsJobs : icsJob[r].payload = {}
    BY DEF DeltaInit
  <1> QED  BY <1>2, <1>3 DEF CursorInv, QueueFits, JobsFit

LEMMA InvStep == RowsInv /\ CursorInv /\ [DeltaNext]_deltaVars => RowsInv' /\ CursorInv'
  <1> SUFFICES ASSUME RowsInv, CursorInv, [DeltaNext]_deltaVars  PROVE RowsInv' /\ CursorInv'
    OBVIOUS
  <1>1. CASE UNCHANGED deltaVars
    <2>1. UNCHANGED <<feed, edits, setbacks, icsCursor, icsJob, icsRow, icsReduce, icsQueue,
                      icsStored, shown, unresolved, doubtful, adrift>>
      BY <1>1 DEF deltaVars
    <2>2. RowsInv'
      BY <2>1 DEF RowsInv, DeltaTypes, OnePayload, RowsWritten
    <2>3. CursorInv'
      BY <2>1 DEF CursorInv, CursorMeansObserved, Held, QueueFits, JobsFit, DeltaFits
    <2> QED  BY <2>2, <2>3
  <1>2. ASSUME NEW c \in Components, NEW v \in Contents \cup {Absent, Cancelled}, EditFeed(c, v)
        PROVE  RowsInv' /\ CursorInv'
    BY <1>2, EditFits
  <1>3. ASSUME NEW r \in IcsJobs,
               \/ RequestSync(r) \/ ClaimIcsJob(r) \/ BackoffElapses(r)
               \/ \E state \in {"asleep", "ended"} : JobGoesBack(r, state)
        PROVE  RowsInv' /\ CursorInv'
    BY <1>3, MovesFit
  <1>4. ASSUME NEW r \in IcsJobs,
               \/ FetchNotModified(r) \/ FetchNothingNew(r) \/ FetchDelta(r)
               \/ DispatchDelta(r) \/ ReduceReads(r)
        PROVE  RowsInv' /\ CursorInv'
    BY <1>4, NotModifiedFits, NothingNewFits, FetchFits, DispatchFits, ReduceReadsFits
  <1>5. ASSUME NEW r \in IcsJobs, NEW c \in Components,
               \/ StartComponent(r, c)
               \/ \E v \in Contents, status \in {"parsed", "pending", "given_up"} :
                     FinishComponent(r, c, v, status)
        PROVE  RowsInv' /\ CursorInv'
    BY <1>5, StartFits, FinishFits
  <1>6. ASSUME NEW r \in IcsJobs, NEW d \in icsReduce[r], ReduceCommits(r, d)
        PROVE  RowsInv' /\ CursorInv'
    BY <1>6, ReduceFits
  <1> QED  BY <1>1, <1>2, <1>3, <1>4, <1>5, <1>6, ApplyFits, ApplyFailsFits DEF DeltaNext

\* Cursor, jobs, rows, queued results and observations keep their shape, and a job has one
\* payload at most: llm_parse_payload is replaced, never merged.
THEOREM CalendarTypeCorrect == DeltaSpec => []DeltaTypeOK
  <1>1. DeltaSpec => [](RowsInv /\ CursorInv)
    BY RowsInvInit, CursorInvInit, InvStep, PTL DEF DeltaSpec
  <1> QED  BY <1>1, TypeInvGives, PTL

\* However fetches, retries, late threads and late reduce messages interleave, a component
\* that is not adrift is observed as the cursor's fingerprint and validators say: the delta of
\* the next fetch leaves out nothing but what is observed already.
THEOREM CursorIsObserved == DeltaSpec => []CursorMeansObserved
  <1>1. DeltaSpec => [](RowsInv /\ CursorInv)
    BY RowsInvInit, CursorInvInit, InvStep, PTL DEF DeltaSpec
  <1>2. CursorInv => CursorMeansObserved
    BY DEF CursorInv
  <1> QED  BY <1>1, <1>2, PTL

-----------------------------------------------------------------------------
(* MailboxDelta: the bounds, and type correctness.                         *)

LEMMA Bounds ==
  /\ MaxMail \in Nat /\ MaxMailSyncs \in Nat /\ MaxMailSetbacks \in Nat
  /\ \A n \in 0 .. MaxMail : 1 .. n \subseteq Messages
  BY MailboxAssumption DEF Messages

LEMMA InitTypes == MailboxInit => MailboxTypeOK
  <1> SUFFICES ASSUME MailboxInit PROVE MailboxTypeOK
    OBVIOUS
  <1>1. [state |-> "none", stage |-> "fetch", continuation |-> {}, payload |-> {}] \in MailJob
    BY DEF MailJob, JobStates
  <1>2. mailJob \in [MailJobs -> MailJob]
    BY <1>1 DEF MailboxInit
  <1> QED  BY <1>2, Bounds DEF MailboxInit, MailboxTypeOK

-----------------------------------------------------------------------------
(* Jobs and results keep their shape.                                      *)

LEMMA StoresMailTypes ==
  ASSUME MailboxTypeOK, NEW r \in MailJobs, NEW found \in Found, StoresMail(r, found)
  PROVE  /\ mailJob' \in [MailJobs -> MailJob]
         /\ mailQueue' \in Seq(Found) /\ mailStored' \subseteq MailJobs
  <1>1. [state |-> "ended", stage |-> "fetch", continuation |-> {}, payload |-> {}] \in MailJob
    BY DEF MailJob, JobStates
  <1> QED  BY <1>1 DEF StoresMail, MailboxTypeOK

LEMMA ContinuesMailTypes ==
  ASSUME MailboxTypeOK, NEW r \in MailJobs, NEW k \in Continuation, ContinuesMail(r, k)
  PROVE  /\ mailJob' \in [MailJobs -> MailJob]
         /\ mailQueue' \in Seq(Found) /\ mailStored' \subseteq MailJobs
  <1>1. mailJob[r].payload \subseteq Found
    BY DEF MailboxTypeOK, MailJob
  <1>2. [state |-> "due", stage |-> "fetch", continuation |-> {k},
         payload |-> mailJob[r].payload] \in MailJob
    BY <1>1 DEF MailJob, JobStates
  <1> QED  BY <1>2 DEF ContinuesMail, mailResultVars, MailboxTypeOK

\* A fetch under way names a job of the source and what it read.
LEMMA FetchTypes ==
  ASSUME MailboxTypeOK, NEW f \in mailFetch
  PROVE  f.job \in MailJobs /\ f.profile \in 0 .. MaxMail /\ f.cursor \subseteq 0 .. MaxMail
  BY DEF MailboxTypeOK, MailFetch

LEMMA ListsTypes ==
  ASSUME MailboxTypeOK, NEW r \in MailJobs, NEW ids \in SUBSET Messages,
         NEW latest \in 0 .. MaxMail, Lists(r, ids, latest)
  PROVE  MailboxTypeOK'
  <1>1. [latest |-> latest, matched |-> {}, left |-> {}] \in Found
    BY DEF Found
  <1>2. [rest |-> ids, latest |-> latest, matched |-> {}, left |-> {}] \in Continuation
    BY DEF Continuation
  <1>3. /\ mailJob' \in [MailJobs -> MailJob]
        /\ mailQueue' \in Seq(Found) /\ mailStored' \subseteq MailJobs
    BY <1>1, <1>2, StoresMailTypes, ContinuesMailTypes DEF Lists
  <1>4. UNCHANGED <<box, kept, mailbacks, mailParse, mailCursor, taken, dismissed>> /\ mailFetch' = {}
    BY DEF Lists, providerVars, mailAppliedVars
  <1> QED  BY <1>3, <1>4 DEF MailboxTypeOK

LEMMA HydrateTypes ==
  ASSUME MailboxTypeOK, NEW f \in mailFetch, NEW passed \in SUBSET Messages, Hydrate(f, passed)
  PROVE  MailboxTypeOK'
  <1>1. PICK k \in mailJob[f.job].continuation : Hydrate(f, passed)!(k)
    BY DEF Hydrate
  <1> DEFINE matched == k.matched \cup passed
             left    == k.left \cup (Nearest(k.rest) \ passed)
             latest  == HistoryId(k, f)
  <1>2. f.job \in MailJobs
    BY FetchTypes
  <1>3. k \in Continuation
    BY <1>2 DEF MailboxTypeOK, MailJob
  <1>4. /\ k.latest \in 0 .. MaxMail
        /\ k.rest \subseteq Messages /\ k.matched \subseteq Messages /\ k.left \subseteq Messages
    BY <1>3 DEF Continuation
  <1>5. Nearest(k.rest) \subseteq Messages /\ Ahead(k.rest) \subseteq Messages
    BY <1>4 DEF Nearest, Ahead
  <1>6. [rest |-> Ahead(k.rest), latest |-> latest, matched |-> matched, left |-> left]
          \in Continuation
    BY <1>4, <1>5 DEF Continuation, HistoryId
  <1>7. [latest |-> latest, matched |-> matched, left |-> left] \in Found
    BY <1>4, <1>5 DEF Found, HistoryId
  <1>8. [state |-> "held", stage |-> "parse", continuation |-> {},
         payload |-> {[latest |-> latest, matched |-> matched, left |-> left]}] \in MailJob
    BY <1>7 DEF MailJob, JobStates
  <1> HIDE DEF matched, left, latest
  <1>9. /\ mailJob' \in [MailJobs -> MailJob]
        /\ mailQueue' \in Seq(Found) /\ mailStored' \subseteq MailJobs
    <2>1. CASE ContinuesMail(f.job, [rest |-> Ahead(k.rest), latest |-> latest,
                                     matched |-> matched, left |-> left])
      BY <1>2, <1>6, <2>1, ContinuesMailTypes
    <2>2. CASE StoresMail(f.job, [latest |-> latest, matched |-> matched, left |-> left])
      BY <1>2, <1>7, <2>2, StoresMailTypes
    <2>3. CASE /\ mailJob' = [mailJob EXCEPT ![f.job] =
                      [state |-> "held", stage |-> "parse", continuation |-> {},
                       payload |-> {[latest |-> latest, matched |-> matched, left |-> left]}]]
               /\ UNCHANGED mailResultVars
      BY <1>2, <1>8, <2>3 DEF MailboxTypeOK, mailResultVars
    <2> QED  BY <1>1, <2>1, <2>2, <2>3 DEF EndsMailFetch, matched, left, latest
  <1>10. UNCHANGED <<box, kept, mailbacks, mailParse, mailCursor, taken, dismissed>> /\ mailFetch' = {}
    BY <1>1 DEF providerVars, mailAppliedVars
  <1> QED  BY <1>9, <1>10 DEF MailboxTypeOK

LEMMA TurnsTypes ==
  ASSUME MailboxTypeOK, NEW r \in MailJobs, NEW state \in JobStates, MailTurns(r, state)
  PROVE  MailboxTypeOK'
  <1>1. mailJob' \in [MailJobs -> MailJob]
    BY DEF MailTurns, MailboxTypeOK, MailJob
  <1> QED  BY <1>1 DEF MailTurns, MailboxTypeOK, providerVars, mailResultVars, mailAppliedVars

LEMMA GoesBackTypes ==
  ASSUME MailboxTypeOK, NEW r \in MailJobs, NEW state \in {"asleep", "ended"},
         MailJobGoesBack(r, state)
  PROVE  MailboxTypeOK'
  <1>1. /\ mailJob[r] \in MailJob
        /\ state \in JobStates
    BY DEF MailboxTypeOK, JobStates
  <1>2. [[mailJob[r] EXCEPT !.state = state] EXCEPT !.stage = "fetch"] \in MailJob
    BY <1>1 DEF MailJob
  <1>3. mailJob' = [mailJob EXCEPT ![r] = [[@ EXCEPT !.state = state] EXCEPT !.stage = "fetch"]]
    BY DEF MailJobGoesBack, Backed, MailboxTypeOK
  <1>4. mailJob' \in [MailJobs -> MailJob]
    BY <1>2, <1>3 DEF MailboxTypeOK
  <1>5. mailbacks' \in 0 .. MaxMailSetbacks
    BY Bounds DEF MailJobGoesBack, MailboxTypeOK
  <1> QED  BY <1>4, <1>5
           DEF MailJobGoesBack, MailboxTypeOK, providerVars, mailResultVars, mailAppliedVars

LEMMA ApplyTypes ==
  ASSUME MailboxTypeOK, ApplyMail
  PROVE  MailboxTypeOK'
  <1>1. Head(mailQueue) \in Found /\ Tail(mailQueue) \in Seq(Found)
    BY DEF ApplyMail, MailboxTypeOK
  <1>2. /\ Head(mailQueue).latest \in 0 .. MaxMail
        /\ Head(mailQueue).matched \subseteq Messages /\ Head(mailQueue).left \subseteq Messages
    BY <1>1 DEF Found
  <1> QED  BY <1>1, <1>2 DEF ApplyMail, MailboxTypeOK, providerVars

LEMMA StepTypes == MailboxTypeOK /\ [MailboxNext]_mailVars => MailboxTypeOK'
  <1> SUFFICES ASSUME MailboxTypeOK, [MailboxNext]_mailVars PROVE MailboxTypeOK'
    OBVIOUS
  <1> USE DEF providerVars, mailResultVars, mailAppliedVars
  <1>1. ASSUME MailArrives \/ HistoryExpires PROVE MailboxTypeOK'
    <2>1. box' \in 0 .. MaxMail /\ kept' \in 0 .. box'
      BY <1>1, Bounds DEF MailArrives, HistoryExpires, MailboxTypeOK
    <2>2. UNCHANGED <<mailbacks, mailJob, mailFetch, mailParse, mailQueue, mailStored, mailCursor,
                      taken, dismissed>>
      BY <1>1 DEF MailArrives, HistoryExpires, Provides
    <2> QED  BY <2>1, <2>2 DEF MailboxTypeOK
  <1>2. ASSUME NEW r \in MailJobs, RequestMailSync(r) \/ ClaimMailJob(r) \/ MailBackoffElapses(r)
        PROVE  MailboxTypeOK'
    <2>1. "due" \in JobStates /\ "held" \in JobStates
      BY DEF JobStates
    <2> QED  BY <1>2, <2>1, TurnsTypes DEF RequestMailSync, ClaimMailJob, MailBackoffElapses
  <1>3. ASSUME NEW r \in MailJobs, NEW state \in {"asleep", "ended"}, MailJobGoesBack(r, state)
        PROVE  MailboxTypeOK'
    BY <1>3, GoesBackTypes
  <1>4. ASSUME MailFetchLost PROVE MailboxTypeOK'
    BY <1>4, Bounds DEF MailFetchLost, MailboxTypeOK
  <1>5. ASSUME NEW r \in MailJobs, BeginMailFetch(r) PROVE MailboxTypeOK'
    <2>1. [job |-> r, profile |-> box, cursor |-> mailCursor] \in MailFetch
      BY DEF MailboxTypeOK, MailFetch
    <2> QED  BY <1>5, <2>1 DEF BeginMailFetch, MailboxTypeOK
  <1>6. ASSUME NEW r \in MailJobs, ParseMailReads(r) PROVE MailboxTypeOK'
    BY <1>6 DEF ParseMailReads, MailboxTypeOK, MailJob
  <1>7. ASSUME NEW r \in MailJobs, ParseMailStores(r) PROVE MailboxTypeOK'
    <2>1. PICK found \in mailParse[r] : StoresMail(r, found)
      BY <1>7 DEF ParseMailStores
    <2>2. found \in Found
      BY DEF MailboxTypeOK
    <2>3. /\ mailJob' \in [MailJobs -> MailJob]
          /\ mailQueue' \in Seq(Found) /\ mailStored' \subseteq MailJobs
      BY <2>1, <2>2, StoresMailTypes
    <2> QED  BY <1>7, <2>3 DEF ParseMailStores, MailboxTypeOK
  <1>8. ASSUME NEW f \in mailFetch, ListHistory(f) PROVE MailboxTypeOK'
    <2>1. PICK h \in f.cursor : Lists(f.job, h + 1 .. box, box)
      BY <1>8 DEF ListHistory
    <2>2. h + 1 .. box \in SUBSET Messages /\ box \in 0 .. MaxMail
      BY FetchTypes, Bounds DEF MailboxTypeOK, Messages
    <2> QED  BY <2>1, <2>2, FetchTypes, ListsTypes
  <1>9. ASSUME NEW f \in mailFetch, ListBootstrap(f) PROVE MailboxTypeOK'
    <2>1. 1 .. box \in SUBSET Messages
      BY Bounds DEF MailboxTypeOK
    <2> QED  BY <1>9, <2>1, FetchTypes, ListsTypes DEF ListBootstrap
  <1>10. ASSUME NEW f \in mailFetch, NEW passed \in SUBSET Messages, Hydrate(f, passed)
         PROVE  MailboxTypeOK'
    BY <1>10, HydrateTypes
  <1>11. ASSUME ApplyMail PROVE MailboxTypeOK'
    BY <1>11, ApplyTypes
  <1>12. ASSUME ApplyMailFails PROVE MailboxTypeOK'
    BY <1>12 DEF ApplyMailFails, MailboxTypeOK
  <1>13. ASSUME UNCHANGED mailVars PROVE MailboxTypeOK'
    BY <1>13 DEF mailVars, MailboxTypeOK
  <1> QED  BY <1>1, <1>2, <1>3, <1>4, <1>5, <1>6, <1>7, <1>8, <1>9, <1>10, <1>11, <1>12, <1>13
           DEF MailboxNext

\* The cursor, jobs, fetches and results keep the shape the code gives them, for any
\* number of requests and messages.
THEOREM MailboxTypeCorrect == MailboxSpec => []MailboxTypeOK
  BY InitTypes, StepTypes, PTL DEF MailboxSpec

-----------------------------------------------------------------------------
(***************************************************************************)
(* Nothing is passed over.  The property speaks of the cursor alone; it     *)
(* holds because all that may yet become the cursor - the fetch that read   *)
(* it, the continuation, the payload, a thread's copy, a stored result -    *)
(* answers for the messages up to its history id.                           *)
(***************************************************************************)
Settled == taken \cup dismissed

Accounted(x) == 1 .. x.latest \subseteq Settled \cup x.matched \cup x.left

FetchesCovered ==
    \A f \in mailFetch : /\ f.profile <= box
                         /\ \A h \in f.cursor : 1 .. h \subseteq Settled

JobsCovered ==
    \A r \in MailJobs :
        /\ \A k \in mailJob[r].continuation :
              1 .. k.latest \subseteq Settled \cup k.rest \cup k.matched \cup k.left
        /\ \A x \in mailJob[r].payload : Accounted(x)
        /\ \A x \in mailParse[r] : Accounted(x)

QueueCovered == \A i \in 1 .. Len(mailQueue) : Accounted(mailQueue[i])

CoverInv == NoMessagePassedOver /\ FetchesCovered /\ JobsCovered /\ QueueCovered

LEMMA InitCovers == MailboxInit => CoverInv
  BY DEF MailboxInit, CoverInv, NoMessagePassedOver, FetchesCovered, JobsCovered, QueueCovered

LEMMA StoresMailCovers ==
  ASSUME MailboxTypeOK, JobsCovered, QueueCovered, NEW r \in MailJobs, NEW found \in Found,
         Accounted(found), StoresMail(r, found), UNCHANGED <<taken, dismissed>>,
         \A q \in MailJobs : mailParse'[q] \subseteq mailParse[q]
  PROVE  JobsCovered' /\ QueueCovered'
  <1>1. Settled' = Settled
    BY DEF Settled
  <1>2. JobsCovered'
    <2> SUFFICES ASSUME NEW q \in MailJobs
                 PROVE  /\ \A k \in mailJob'[q].continuation :
                              1 .. k.latest \subseteq Settled' \cup k.rest \cup k.matched \cup k.left
                        /\ \A x \in mailJob'[q].payload : Accounted(x)'
                        /\ \A x \in mailParse'[q] : Accounted(x)'
      BY DEF JobsCovered
    <2>1. /\ mailJob'[q].continuation \subseteq mailJob[q].continuation
          /\ mailJob'[q].payload \subseteq mailJob[q].payload
      BY DEF StoresMail, MailboxTypeOK
    <2> QED  BY <1>1, <2>1 DEF JobsCovered, Accounted
  <1>3. QueueCovered'
    <2> SUFFICES ASSUME NEW i \in 1 .. Len(mailQueue')
                 PROVE  1 .. mailQueue'[i].latest
                          \subseteq Settled' \cup mailQueue'[i].matched \cup mailQueue'[i].left
      BY DEF QueueCovered, Accounted
    <2>1. mailQueue \in Seq(Found) /\ mailQueue' = Append(mailQueue, found)
      BY DEF StoresMail, MailboxTypeOK
    <2>2. CASE i \in 1 .. Len(mailQueue)
      <3>1. mailQueue'[i] = mailQueue[i]
        BY <2>1, <2>2
      <3> QED  BY <1>1, <2>2, <3>1 DEF QueueCovered, Accounted
    <2>3. CASE i \notin 1 .. Len(mailQueue)
      <3>1. mailQueue'[i] = found
        BY <2>1, <2>3
      <3> QED  BY <1>1, <3>1 DEF Accounted
    <2> QED  BY <2>2, <2>3
  <1> QED  BY <1>2, <1>3

LEMMA ContinuesMailCovers ==
  ASSUME MailboxTypeOK, JobsCovered, QueueCovered, NEW r \in MailJobs, NEW k \in Continuation,
         1 .. k.latest \subseteq Settled \cup k.rest \cup k.matched \cup k.left,
         ContinuesMail(r, k), UNCHANGED <<taken, dismissed, mailParse>>
  PROVE  JobsCovered' /\ QueueCovered'
  <1>1. Settled' = Settled
    BY DEF Settled
  <1>2. JobsCovered'
    <2> SUFFICES ASSUME NEW q \in MailJobs
                 PROVE  /\ \A j \in mailJob'[q].continuation :
                              1 .. j.latest \subseteq Settled' \cup j.rest \cup j.matched \cup j.left
                        /\ \A x \in mailJob'[q].payload : Accounted(x)'
                        /\ \A x \in mailParse'[q] : Accounted(x)'
      BY DEF JobsCovered
    <2>1. /\ mailJob'[q].continuation \subseteq mailJob[q].continuation \cup {k}
          /\ mailJob'[q].continuation # mailJob[q].continuation => q = r
          /\ mailJob'[q].payload = mailJob[q].payload
      BY DEF ContinuesMail, MailboxTypeOK
    <2> QED  BY <1>1, <2>1 DEF JobsCovered, Accounted
  <1>3. QueueCovered'
    BY <1>1 DEF ContinuesMail, mailResultVars, QueueCovered, Accounted
  <1> QED  BY <1>2, <1>3

LEMMA EndsMailFetchCovers ==
  ASSUME MailboxTypeOK, JobsCovered, QueueCovered, NEW r \in MailJobs, NEW found \in Found,
         Accounted(found), EndsMailFetch(r, found), UNCHANGED <<taken, dismissed, mailParse>>
  PROVE  JobsCovered' /\ QueueCovered'
  <1>1. Settled' = Settled
    BY DEF Settled
  <1>2. CASE StoresMail(r, found)
    BY <1>2, StoresMailCovers
  <1>3. CASE /\ mailJob' = [mailJob EXCEPT ![r] = [state |-> "held", stage |-> "parse",
                                                  continuation |-> {}, payload |-> {found}]]
             /\ UNCHANGED mailResultVars
    <2>1. QueueCovered'
      BY <1>1, <1>3 DEF mailResultVars, QueueCovered, Accounted
    <2>2. ASSUME NEW q \in MailJobs
          PROVE  /\ \A k \in mailJob'[q].continuation :
                       1 .. k.latest \subseteq Settled' \cup k.rest \cup k.matched \cup k.left
                 /\ \A x \in mailJob'[q].payload :
                       1 .. x.latest \subseteq Settled' \cup x.matched \cup x.left
                 /\ \A x \in mailParse'[q] :
                       1 .. x.latest \subseteq Settled' \cup x.matched \cup x.left
      <3>1. /\ mailJob'[q].continuation \subseteq mailJob[q].continuation
            /\ mailJob'[q].payload \subseteq mailJob[q].payload \cup {found}
        BY <1>3 DEF MailboxTypeOK
      <3> QED  BY <1>1, <3>1 DEF JobsCovered, Accounted
    <2>3. JobsCovered'
      BY <2>2 DEF JobsCovered, Accounted
    <2> QED  BY <2>1, <2>3
  <1> QED  BY <1>2, <1>3 DEF EndsMailFetch

\* What is listed: all after the cursor, or all there are up to the profile's history id.
LEMMA ListsCovers ==
  ASSUME MailboxTypeOK, CoverInv, NEW r \in MailJobs, NEW ids \in SUBSET Messages,
         NEW latest \in 0 .. MaxMail, 1 .. latest \subseteq Settled \cup ids,
         Lists(r, ids, latest)
  PROVE  CoverInv'
  <1>1. UNCHANGED <<taken, dismissed, mailParse, mailCursor>> /\ mailFetch' = {}
    BY DEF Lists, mailAppliedVars
  <1>2. NoMessagePassedOver' /\ FetchesCovered'
    BY <1>1 DEF CoverInv, NoMessagePassedOver, FetchesCovered
  <1>3. JobsCovered' /\ QueueCovered'
    <2> DEFINE found == [latest |-> latest, matched |-> {}, left |-> {}]
               k     == [rest |-> ids, latest |-> latest, matched |-> {}, left |-> {}]
    <2>1. CASE ids = {} /\ StoresMail(r, found)
      <3>1. found \in Found /\ Accounted(found)
        BY <2>1 DEF Found, Accounted
      <3> HIDE DEF found
      <3> QED  BY <1>1, <2>1, <3>1, StoresMailCovers DEF CoverInv
    <2>2. CASE ContinuesMail(r, k)
      <3>1. /\ k \in Continuation
            /\ 1 .. k.latest \subseteq Settled \cup k.rest \cup k.matched \cup k.left
        BY DEF Continuation
      <3> HIDE DEF k
      <3> QED  BY <1>1, <2>2, <3>1, ContinuesMailCovers DEF CoverInv
    <2> QED  BY <2>1, <2>2 DEF Lists
  <1> QED  BY <1>2, <1>3 DEF CoverInv

\* A chunk leaves none of the listed messages out of account.
LEMMA HydrateCovers ==
  ASSUME MailboxTypeOK, CoverInv, NEW f \in mailFetch, NEW passed \in SUBSET Messages,
         Hydrate(f, passed)
  PROVE  CoverInv'
  <1>1. PICK k \in mailJob[f.job].continuation : Hydrate(f, passed)!(k)
    BY DEF Hydrate
  <1> DEFINE matched == k.matched \cup passed
             left    == k.left \cup (Nearest(k.rest) \ passed)
             latest  == HistoryId(k, f)
             next    == [rest |-> Ahead(k.rest), latest |-> latest,
                         matched |-> matched, left |-> left]
             found   == [latest |-> latest, matched |-> matched, left |-> left]
  <1>2. f.job \in MailJobs
    BY FetchTypes
  <1>3. k \in Continuation
    BY <1>2 DEF MailboxTypeOK, MailJob
  <1>4. /\ k.latest \in 0 .. MaxMail
        /\ k.rest \subseteq Messages /\ k.matched \subseteq Messages /\ k.left \subseteq Messages
    BY <1>3 DEF Continuation
  <1>5. Nearest(k.rest) \subseteq Messages /\ Ahead(k.rest) \subseteq Messages
    BY <1>4 DEF Nearest, Ahead
  <1>6. next \in Continuation /\ found \in Found
    BY <1>4, <1>5 DEF Continuation, Found, HistoryId
  <1>7. 1 .. k.latest \subseteq Settled \cup k.rest \cup k.matched \cup k.left
    BY <1>2 DEF CoverInv, JobsCovered
  <1>8. k.rest \cup k.matched \cup k.left \subseteq Ahead(k.rest) \cup matched \cup left
    BY DEF Ahead
  <1>9. 1 .. latest \subseteq Settled \cup Ahead(k.rest) \cup matched \cup left
    BY <1>7, <1>8 DEF HistoryId
  <1>10. /\ next.rest = Ahead(k.rest) /\ next.latest = latest
         /\ next.matched = matched /\ next.left = left
    OBVIOUS
  <1>11. found.latest = latest /\ found.matched = matched /\ found.left = left
    OBVIOUS
  <1> HIDE DEF matched, left, latest, next, found
  <1>12. UNCHANGED <<taken, dismissed, mailParse, mailCursor>> /\ mailFetch' = {}
    BY <1>1 DEF mailAppliedVars
  <1>13. NoMessagePassedOver' /\ FetchesCovered'
    BY <1>12 DEF CoverInv, NoMessagePassedOver, FetchesCovered
  <1>14. JobsCovered' /\ QueueCovered'
    <2>1. CASE ContinuesMail(f.job, next)
      <3>1. 1 .. next.latest \subseteq Settled \cup next.rest \cup next.matched \cup next.left
        BY <1>9, <1>10
      <3> QED  BY <1>2, <1>6, <1>12, <2>1, <3>1, ContinuesMailCovers DEF CoverInv
    <2>2. CASE Ahead(k.rest) = {} /\ EndsMailFetch(f.job, found)
      <3>1. Accounted(found)
        BY <1>9, <1>11, <2>2 DEF Accounted
      <3> QED  BY <1>2, <1>6, <1>12, <2>2, <3>1, EndsMailFetchCovers DEF CoverInv
    <2> QED  BY <1>1, <2>1, <2>2 DEF matched, left, latest, next, found
  <1> QED  BY <1>13, <1>14 DEF CoverInv

\* A failed or lost fetch keeps the continuation; jobs that only turn keep everything.
LEMMA SetbackCovers ==
  ASSUME MailboxTypeOK, CoverInv, NEW r \in MailJobs,
         mailJob' = mailJob \/ (\E s \in JobStates : MailTurns(r, s))
           \/ (\E s \in JobStates : MailJobGoesBack(r, s)),
         mailFetch' \subseteq mailFetch, box' = box,
         UNCHANGED <<taken, dismissed, mailCursor, mailParse, mailQueue>>
  PROVE  CoverInv'
  <1>1. Settled' = Settled
    BY DEF Settled
  <1>2. NoMessagePassedOver' /\ FetchesCovered' /\ QueueCovered'
    BY <1>1 DEF CoverInv, NoMessagePassedOver, FetchesCovered, QueueCovered, Accounted, Settled
  <1>3. ASSUME NEW q \in MailJobs
        PROVE  /\ mailJob'[q].continuation = mailJob[q].continuation
               /\ mailJob'[q].payload = mailJob[q].payload
    <2>1. mailJob \in [MailJobs -> MailJob]
      BY DEF MailboxTypeOK
    <2>2. ASSUME NEW s \in JobStates, MailTurns(r, s)
          PROVE  /\ mailJob'[q].continuation = mailJob[q].continuation
                 /\ mailJob'[q].payload = mailJob[q].payload
      BY <2>1, <2>2 DEF MailTurns, MailJob
    <2>3. ASSUME NEW s \in JobStates, MailJobGoesBack(r, s)
          PROVE  /\ mailJob'[q].continuation = mailJob[q].continuation
                 /\ mailJob'[q].payload = mailJob[q].payload
      <3>1. mailJob' = [mailJob EXCEPT ![r] = [[@ EXCEPT !.state = s] EXCEPT !.stage = "fetch"]]
        BY <2>1, <2>3 DEF MailJobGoesBack, Backed
      <3> QED  BY <2>1, <3>1 DEF MailJob
    <2> QED  BY <2>2, <2>3
  <1>4. JobsCovered'
    BY <1>1, <1>3 DEF CoverInv, JobsCovered, Accounted
  <1> QED  BY <1>2, <1>4 DEF CoverInv

\* A message that arrives is later than every history id that was read.
LEMMA ArrivalCovers ==
  ASSUME MailboxTypeOK, CoverInv, MailArrives \/ HistoryExpires
  PROVE  CoverInv'
  <1>1. /\ box \in Nat /\ box' >= box
        /\ UNCHANGED <<mailJob, mailFetch, mailParse, mailQueue, mailCursor, taken, dismissed>>
    BY Bounds DEF MailArrives, HistoryExpires, Provides, mailResultVars, mailAppliedVars,
                  MailboxTypeOK
  <1>2. FetchesCovered'
    <2> SUFFICES ASSUME NEW f \in mailFetch
                 PROVE  f.profile <= box' /\ \A h \in f.cursor : 1 .. h \subseteq Settled'
      BY <1>1 DEF FetchesCovered
    <2>1. f.profile \in Nat /\ f.profile <= box /\ box' \in Nat
      BY FetchTypes, Bounds, <1>1 DEF CoverInv, FetchesCovered, MailArrives, HistoryExpires
    <2>2. \A h \in f.cursor : 1 .. h \subseteq Settled'
      BY <1>1 DEF CoverInv, FetchesCovered, Settled
    <2> QED  BY <1>1, <2>1, <2>2
  <1> QED  BY <1>1, <1>2 DEF CoverInv, NoMessagePassedOver, JobsCovered, QueueCovered, Accounted,
                             Settled

LEMMA BeginCovers ==
  ASSUME MailboxTypeOK, CoverInv, NEW r \in MailJobs, BeginMailFetch(r)
  PROVE  CoverInv'
  <1>1. UNCHANGED <<mailJob, mailParse, mailQueue, mailCursor, taken, dismissed, box>>
    BY DEF BeginMailFetch, providerVars, mailResultVars, mailAppliedVars
  <1> DEFINE new == [job |-> r, profile |-> box, cursor |-> mailCursor]
  <1>2. new.profile = box /\ new.cursor = mailCursor /\ mailFetch' = {new}
    BY DEF BeginMailFetch
  <1> HIDE DEF new
  <1>3. ASSUME NEW f \in mailFetch'
        PROVE  f.profile <= box' /\ \A h \in f.cursor : 1 .. h \subseteq Settled'
    <2>1. f = new /\ box' = box /\ box \in Nat
      BY <1>1, <1>2 DEF MailboxTypeOK
    <2>2. \A h \in mailCursor : 1 .. h \subseteq Settled'
      BY <1>1 DEF CoverInv, NoMessagePassedOver, Settled
    <2>3. f.profile <= box'
      BY <1>2, <2>1
    <2> QED  BY <1>2, <2>1, <2>2, <2>3
  <1>4. FetchesCovered'
    BY <1>3 DEF FetchesCovered
  <1> QED  BY <1>1, <1>4 DEF CoverInv, NoMessagePassedOver, JobsCovered, QueueCovered, Accounted,
                             Settled

\* A thread's copy is the payload of the job as it was read.
LEMMA ParseReadsCovers ==
  ASSUME MailboxTypeOK, CoverInv, NEW r \in MailJobs, ParseMailReads(r)
  PROVE  CoverInv'
  <1>1. UNCHANGED <<mailJob, mailFetch, mailQueue, mailCursor, taken, dismissed, box>>
    BY DEF ParseMailReads, providerVars, mailResultVars, mailAppliedVars
  <1>2. Settled' = Settled
    BY <1>1 DEF Settled
  <1>3. JobsCovered'
    <2> SUFFICES ASSUME NEW q \in MailJobs
                 PROVE  \A x \in mailParse'[q] :
                          1 .. x.latest \subseteq Settled \cup x.matched \cup x.left
      BY <1>1, <1>2 DEF CoverInv, JobsCovered, Accounted
    <2>1. mailParse'[q] = mailParse[q] \/ mailParse'[q] = mailJob[q].payload
      BY DEF ParseMailReads, MailboxTypeOK
    <2> QED  BY <2>1 DEF CoverInv, JobsCovered, Accounted
  <1> QED  BY <1>1, <1>2, <1>3 DEF CoverInv, NoMessagePassedOver, FetchesCovered, QueueCovered,
                                   Accounted, Settled

LEMMA ParseStoresCovers ==
  ASSUME MailboxTypeOK, CoverInv, NEW r \in MailJobs, ParseMailStores(r)
  PROVE  CoverInv'
  <1>1. PICK found \in mailParse[r] : StoresMail(r, found)
    BY DEF ParseMailStores
  <1>2. found \in Found /\ Accounted(found)
    BY DEF MailboxTypeOK, CoverInv, JobsCovered
  <1>3. \A q \in MailJobs : mailParse'[q] \subseteq mailParse[q]
    BY DEF ParseMailStores, MailboxTypeOK
  <1>4. UNCHANGED <<taken, dismissed, mailCursor, mailFetch, box>>
    BY DEF ParseMailStores, mailAppliedVars, providerVars
  <1>5. JobsCovered' /\ QueueCovered'
    BY <1>1, <1>2, <1>3, <1>4, StoresMailCovers DEF CoverInv
  <1> QED  BY <1>4, <1>5 DEF CoverInv, NoMessagePassedOver, FetchesCovered, Settled

LEMMA ListHistoryCovers ==
  ASSUME MailboxTypeOK, CoverInv, NEW f \in mailFetch, ListHistory(f)
  PROVE  CoverInv'
  <1>1. PICK h \in f.cursor : Lists(f.job, h + 1 .. box, box)
    BY DEF ListHistory
  <1>2. h \in Nat /\ box \in Nat /\ h + 1 .. box \in SUBSET Messages /\ box \in 0 .. MaxMail
    BY FetchTypes, Bounds DEF MailboxTypeOK, Messages
  <1>3. 1 .. h \subseteq Settled
    BY DEF CoverInv, FetchesCovered
  <1>4. 1 .. box \subseteq 1 .. h \cup (h + 1 .. box)
    BY <1>2
  <1>5. 1 .. box \subseteq Settled \cup (h + 1 .. box)
    BY <1>3, <1>4
  <1> QED  BY <1>1, <1>2, <1>5, FetchTypes, ListsCovers

LEMMA ListBootstrapCovers ==
  ASSUME MailboxTypeOK, CoverInv, NEW f \in mailFetch, ListBootstrap(f)
  PROVE  CoverInv'
  <1>1. 1 .. box \in SUBSET Messages /\ f.profile \in 0 .. MaxMail /\ f.job \in MailJobs
    BY FetchTypes, Bounds DEF MailboxTypeOK
  <1>2. f.profile \in Nat /\ box \in Nat /\ f.profile <= box
    BY <1>1, Bounds DEF CoverInv, FetchesCovered, MailboxTypeOK
  <1>3. 1 .. f.profile \subseteq Settled \cup (1 .. box)
    BY <1>2
  <1> QED  BY <1>1, <1>3, ListsCovers DEF ListBootstrap

\* The cursor moves to a history id that the applied result answers for.
LEMMA ApplyCovers ==
  ASSUME MailboxTypeOK, CoverInv, ApplyMail \/ ApplyMailFails
  PROVE  CoverInv'
  <1>1. /\ mailQueue # <<>> /\ mailQueue \in Seq(Found) /\ mailQueue' = Tail(mailQueue)
        /\ UNCHANGED <<mailJob, mailFetch, mailParse, box>>
    BY DEF ApplyMail, ApplyMailFails, MailboxTypeOK, providerVars
  <1>2. Settled \subseteq Settled'
    BY DEF ApplyMail, ApplyMailFails, Settled, mailAppliedVars
  <1>3. Accounted(Head(mailQueue))
    <2>1. 1 \in 1 .. Len(mailQueue) /\ Head(mailQueue) = mailQueue[1]
      BY <1>1
    <2> QED  BY <2>1 DEF CoverInv, QueueCovered
  <1>4. NoMessagePassedOver'
    <2>1. CASE ApplyMail
      <3>1. /\ mailCursor' = {Head(mailQueue).latest}
            /\ Settled' = Settled \cup Head(mailQueue).matched \cup Head(mailQueue).left
        BY <2>1 DEF ApplyMail, Settled
      <3>2. \A h \in mailCursor' : 1 .. h \subseteq Settled'
        BY <1>3, <3>1 DEF Accounted
      <3> QED  BY <3>2 DEF NoMessagePassedOver, Settled
    <2>2. CASE ApplyMailFails
      BY <2>2 DEF ApplyMailFails, mailAppliedVars, CoverInv, NoMessagePassedOver
    <2> QED  BY <2>1, <2>2
  <1>5. FetchesCovered' /\ JobsCovered'
    BY <1>1, <1>2 DEF CoverInv, FetchesCovered, JobsCovered, Accounted
  <1>6. QueueCovered'
    <2> SUFFICES ASSUME NEW i \in 1 .. Len(mailQueue')
                 PROVE  1 .. mailQueue'[i].latest
                          \subseteq Settled' \cup mailQueue'[i].matched \cup mailQueue'[i].left
      BY DEF QueueCovered, Accounted
    <2>1. i + 1 \in 1 .. Len(mailQueue) /\ mailQueue'[i] = mailQueue[i + 1]
      BY <1>1
    <2>2. Accounted(mailQueue[i + 1])
      BY <2>1 DEF CoverInv, QueueCovered
    <2> QED  BY <1>2, <2>1, <2>2 DEF Accounted
  <1> QED  BY <1>4, <1>5, <1>6 DEF CoverInv

LEMMA StepCovers == MailboxTypeOK /\ CoverInv /\ [MailboxNext]_mailVars => CoverInv'
  <1> SUFFICES ASSUME MailboxTypeOK, CoverInv, [MailboxNext]_mailVars PROVE CoverInv'
    OBVIOUS
  <1> USE DEF providerVars, mailResultVars, mailAppliedVars
  <1>1. ASSUME NEW r \in MailJobs, RequestMailSync(r) \/ ClaimMailJob(r) \/ MailBackoffElapses(r)
        PROVE  CoverInv'
    <2>1. PICK s \in JobStates : MailTurns(r, s)
      BY <1>1 DEF RequestMailSync, ClaimMailJob, MailBackoffElapses, JobStates
    <2> QED  BY <2>1, SetbackCovers DEF MailTurns
  <1>2. ASSUME NEW r \in MailJobs, NEW state \in {"asleep", "ended"}, MailJobGoesBack(r, state)
        PROVE  CoverInv'
    <2>1. state \in JobStates
      BY DEF JobStates
    <2> QED  BY <1>2, <2>1, SetbackCovers DEF MailJobGoesBack
  <1>3. ASSUME MailFetchLost PROVE CoverInv'
    BY <1>3 DEF MailFetchLost, CoverInv, NoMessagePassedOver, FetchesCovered, JobsCovered,
                QueueCovered, Accounted, Settled
  <1>4. CASE UNCHANGED mailVars
    BY <1>4 DEF mailVars, CoverInv, NoMessagePassedOver, FetchesCovered, JobsCovered,
                QueueCovered, Accounted, Settled
  <1> QED  BY <1>1, <1>2, <1>3, <1>4, ArrivalCovers, BeginCovers, ParseReadsCovers,
              ParseStoresCovers, ListHistoryCovers, ListBootstrapCovers, HydrateCovers, ApplyCovers
           DEF MailboxNext

\* The cursor of a mailbox never passes a message over - whatever arrives while a fetch or
\* its chunks are under way, fails, is lost or is overtaken - for any number of messages
\* and requests and any chunk size.
THEOREM NothingPassedOver == MailboxSpec => []NoMessagePassedOver
  <1>1. MailboxInit => MailboxTypeOK /\ CoverInv
    BY InitTypes, InitCovers
  <1>2. MailboxTypeOK /\ CoverInv /\ [MailboxNext]_mailVars => (MailboxTypeOK /\ CoverInv)'
    BY StepTypes, StepCovers
  <1>3. CoverInv => NoMessagePassedOver
    BY DEF CoverInv
  <1> QED  BY <1>1, <1>2, <1>3, PTL DEF MailboxSpec

-----------------------------------------------------------------------------
(* Deltas and review side by side.                                         *)

\* A step of the composition is one of its parts, and a stutter of the others.
LEMMA StepOfPart ==
  [MCNext]_<<part, vars, deltaVars, mailVars>>
    => [Next]_vars /\ [DeltaNext]_deltaVars /\ [MailboxNext]_mailVars
  BY DEF MCNext

\* The composition does what each part does, so that what is proved of a part for any
\* feeds, messages and sessions holds of the three side by side.
THEOREM ObservationsDoParts == MCSpec => Spec /\ DeltaSpec /\ MailboxSpec
  <1>1. MCInit => Init /\ DeltaInit /\ MailboxInit
    BY DEF MCInit
  <1> QED  BY <1>1, StepOfPart, PTL DEF MCSpec, Spec, DeltaSpec, MailboxSpec

\* Calendars, mailboxes and what is proposed of them keep, side by side, the shape the code
\* gives them.
THEOREM ObservationsTypeCorrect == MCSpec => []ObservationsTypeOK
  <1>1. TypeOK /\ DeltaTypeOK /\ MailboxTypeOK => ObservationsTypeOK
    BY DEF ObservationsTypeOK
  <1> QED
    BY <1>1, ObservationsDoParts, TypeCorrect, CalendarTypeCorrect, MailboxTypeCorrect, PTL
=============================================================================
