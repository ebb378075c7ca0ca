------------------------ MODULE ReviewChangesProofs ------------------------
(***************************************************************************)
(* Proofs about ReviewChanges, for any events, sources, payloads, number   *)
(* of sessions and of changes.                                             *)
(***************************************************************************)
EXTENDS ReviewChanges, FiniteSetTheorems, WellFoundedInduction, TLAPS

-----------------------------------------------------------------------------
(* The operators the actions are built from.                               *)

\* A set of ids that is not empty has a youngest one.
LEMMA LatestIsMember ==
  ASSUME NEW S \in SUBSET Ids, S # {}
  PROVE  Latest(S) \in S /\ \A d \in S : d <= Latest(S)
  <1> DEFINE Above(c) == {d \in Ids : d > c}
             T == {Above(c) : c \in S}
             R == StrictSubsetOrdering(Ids)
  <1>1. IsFiniteSet(Ids)
    BY FS_Interval, MaxChangesAssumption DEF Ids
  <1>2. T \subseteq FiniteSubsetsOf(Ids) /\ T # {}
    <2>1. ASSUME NEW c \in S  PROVE IsFiniteSet(Above(c))
      <3>1. Above(c) \in SUBSET Ids
        OBVIOUS
      <3> HIDE DEF Above
      <3> QED  BY <1>1, <3>1, FS_Subset
    <2> QED  BY <2>1 DEF FiniteSubsetsOf
  <1>3. IsWellFoundedOn(R, FiniteSubsetsOf(Ids))
    BY FS_StrictSubsetOrderingWellFounded
  <1>4. PICK x \in T : \A y \in T : ~ (<<y, x>> \in R)
    BY <1>2, <1>3, WFMin
  <1>5. PICK c \in S : x = Above(c)
    OBVIOUS
  <1>6. ASSUME NEW d \in S  PROVE d <= c
    <2>1. SUFFICES ASSUME d > c  PROVE FALSE
      BY MaxChangesAssumption DEF Ids
    <2>2. Above(d) \in T /\ Above(d) \subseteq Above(c) /\ d \in Above(c) /\ d \notin Above(d)
      BY <2>1, MaxChangesAssumption DEF Ids
    <2>3. <<Above(d), x>> \in R
      BY <1>5, <2>2 DEF StrictSubsetOrdering
    <2> QED  BY <1>4, <2>2, <2>3
  <1>7. \E y \in S : \A d \in S : d <= y
    BY <1>6
  <1> QED  BY <1>7 DEF Latest

\* Whatever a plan is about, it is about changes the event waits for.
LEMMA HitsPending ==
  ASSUME NEW e, NEW plan, Pending(e) \subseteq Ids
  PROVE  Hits(e, plan) \subseteq Pending(e)
  BY LatestIsMember DEF Hits

LEMMA RowFields ==
  ASSUME NEW row \in Row
  PROVE  /\ row.life \in {"absent", "active", "removed"}
         /\ row.content \in Content
         /\ row.manual \in BOOLEAN
  BY DEF Row

LEMMA NoRowType == NoRow \in Row
  BY DEF NoRow, Row, Content

\* An approval makes a row of a row ...
LEMMA AppliedType ==
  ASSUME NEW row \in Row, NEW says \in Says
  PROVE  Applied(row, says) \in Row
  BY DEF Applied, Row, Says

\* ... and looks at no column but the life and the content.
LEMMA AppliedFields ==
  ASSUME NEW row \in Row, NEW says \in Says
  PROVE  /\ Applied(row, says).manual = row.manual
         /\ Applied(row, says).life =
              IF says.type # "REMOVED" THEN "active"
              ELSE IF row.life = "absent" THEN "absent" ELSE "removed"
         /\ Applied(row, says).content =
              IF says.type # "REMOVED" THEN says.after ELSE row.content
  BY DEF Applied, Row, Says

LEMMA WrittenRowType ==
  ASSUME NEW now \in Row, NEW copy \in Row, NEW new \in Row
  PROVE  WrittenRow(now, copy, new) \in Row
  BY DEF WrittenRow, Written, Row

\* Two rows with the same columns are the same row.
LEMMA SameRow ==
  ASSUME NEW r \in Row, NEW s \in Row,
         r.life = s.life, r.content = s.content, r.manual = s.manual
  PROVE  r = s
  BY DEF Row

LEMMA PlansType ==
  ASSUME NEW row, NEW o \in [Sources -> Content], NEW r
  PROVE  Plans(row, o, r) \subseteq Plan
  <1>1. Primary(o) \subseteq Content
    BY CalendarsAssumption DEF Primary
  <1>2. Reject \in Plan
    BY DEF Plan
  <1>3. \A p \in Content : /\ [type |-> "CREATED", after |-> p] \in Plan
                           /\ [type |-> "DUE_CHANGED", after |-> p] \in Plan
                           /\ [type |-> "REMOVED", after |-> p] \in Plan
    BY DEF Plan, Says, Types
  <1> QED  BY <1>1, <1>2, <1>3 DEF Plans, Content

\* A removal proposes no payload, and everything else one.
Complete(says) == says.type = "REMOVED" <=> says.after = Nothing

LEMMA PlansComplete ==
  ASSUME NEW row, NEW o \in [Sources -> Content], NEW r, NEW plan \in Plans(row, o, r),
         plan # Reject
  PROVE  Complete(plan)
  <1>1. \A p \in Primary(o) : p # Nothing
    BY CalendarsAssumption DEF Primary
  <1> QED  BY <1>1 DEF Plans, Complete

\* Sessions are told apart by their kind.
LEMMA SessionKinds ==
  ASSUME NEW b \in Session
  PROVE  /\ b = Idle <=> b.kind = "idle"
         /\ b.kind = "rebuild" => b \in Rebuild
         /\ b.kind = "learn" => b \in Learn
         /\ b.kind = "decide" => b \in Decide
         /\ b.kind = "edit" => b \in Edit
         /\ b # Idle => b.entity \in Entities
         /\ b.kind \in {"idle", "rebuild", "learn", "decide", "edit"}
  BY DEF Session, Idle, Rebuild, Learn, Decide, Edit

LEMMA RebuildFields ==
  ASSUME NEW b \in Rebuild
  PROVE  /\ b.kind = "rebuild" /\ b.entity \in Entities /\ b.source \in Sources
         /\ b.row \in Content /\ b.kept \in BOOLEAN
         /\ b.write \in {"held", "late", "none"} /\ b.step \in {"planned", "aimed", "rebuilt"}
         /\ b.plan \in Plan /\ b.seen \in Plan /\ b.held \in Plan
         /\ b.hits \subseteq Ids /\ b.learning \in Ids \cup {0}
  BY DEF Rebuild

-----------------------------------------------------------------------------
(* Rows of `changes`.                                                      *)

LEMMA UsedChange ==
  ASSUME TypeOK, NEW c \in Used
  PROVE  /\ c \in Ids /\ change[c] \in Change /\ change[c].entity \in Entities
         /\ change[c].says \in Says /\ change[c].status \in {"PENDING", "APPROVED", "REJECTED"}
         /\ change[c].origin \in {"ingest", "manual"}
  <1>1. c \in Ids /\ ~ (c > lastId)
    BY MaxChangesAssumption DEF TypeOK, Used, Ids
  <1>2. change[c] \in Change
    BY <1>1 DEF TypeOK
  <1> QED  BY <1>1, <1>2 DEF Change

LEMMA PendingUsed ==
  ASSUME TypeOK, NEW e
  PROVE  Pending(e) \subseteq Used /\ Pending(e) \subseteq Ids
  BY UsedChange DEF Pending

\* What the type invariant says of `changes`, on its own.
RowsOK(ch, n) ==
    /\ ch \in [Ids -> Change \cup {NoChange}]
    /\ \A c \in Ids : ch[c] = NoChange <=> c > n

\* The status of a change is set and nothing else.
LEMMA StatusSet ==
  ASSUME TypeOK, NEW c \in Used, NEW x \in {"PENDING", "APPROVED", "REJECTED"},
         change' = [change EXCEPT ![c].status = x]
  PROVE  /\ RowsOK(change', lastId)
         /\ \A d \in Ids : d # c => change'[d] = change[d]
         /\ change'[c].status = x /\ change'[c].entity = change[c].entity
         /\ change'[c].says = change[c].says /\ change'[c].origin = change[c].origin
  <1>1. c \in Ids /\ change[c] \in Change /\ change \in [Ids -> Change \cup {NoChange}]
    BY UsedChange DEF TypeOK
  <1>2. change' = [change EXCEPT ![c] = [change[c] EXCEPT !.status = x]]
    BY <1>1
  <1> DEFINE r == [change[c] EXCEPT !.status = x]
  <1>3. /\ r \in Change /\ r.status = x /\ r.entity = change[c].entity
        /\ r.says = change[c].says /\ r.origin = change[c].origin
    BY <1>1 DEF Change
  <1>4. r # NoChange /\ ~ (c > lastId)
    BY <1>3, MaxChangesAssumption DEF NoChange, TypeOK, Used
  <1> HIDE DEF r
  <1>5. change' = [change EXCEPT ![c] = r]
    BY <1>2 DEF r
  <1>6. change'[c] = r /\ \A d \in Ids : d # c => change'[d] = change[d]
    BY <1>1, <1>5
  <1>7. RowsOK(change', lastId)
    BY <1>1, <1>3, <1>4, <1>5, <1>6 DEF RowsOK, TypeOK
  <1> QED  BY <1>3, <1>6, <1>7

\* What a change says is set and nothing else.
LEMMA SaysSet ==
  ASSUME TypeOK, NEW c \in Used, NEW says \in Says,
         change' = [change EXCEPT ![c] = [change[c] EXCEPT !.says = says]]
  PROVE  /\ RowsOK(change', lastId)
         /\ \A d \in Ids : d # c => change'[d] = change[d]
         /\ change'[c].says = says /\ change'[c].entity = change[c].entity
         /\ change'[c].status = change[c].status /\ change'[c].origin = change[c].origin
  <1>1. c \in Ids /\ change[c] \in Change /\ change \in [Ids -> Change \cup {NoChange}]
    BY UsedChange DEF TypeOK
  <1> DEFINE r == [change[c] EXCEPT !.says = says]
  <1>3. /\ r \in Change /\ r.says = says /\ r.entity = change[c].entity
        /\ r.status = change[c].status /\ r.origin = change[c].origin
    BY <1>1 DEF Change
  <1>4. r # NoChange /\ ~ (c > lastId)
    <2>1. ~ (c > lastId)
      BY MaxChangesAssumption DEF TypeOK, Used
    <2>2. r.status # "none"
      BY <1>3 DEF Change
    <2> QED  BY <2>1, <2>2 DEF NoChange
  <1> HIDE DEF r
  <1>5. change' = [change EXCEPT ![c] = r]
    BY DEF r
  <1>6. change'[c] = r /\ \A d \in Ids : d # c => change'[d] = change[d]
    BY <1>1, <1>5
  <1>7. RowsOK(change', lastId)
    BY <1>1, <1>3, <1>4, <1>5, <1>6 DEF RowsOK, TypeOK
  <1> QED  BY <1>3, <1>6, <1>7

\* A row is added under the next id.
LEMMA RowAdded ==
  ASSUME TypeOK, lastId < MaxChanges, NEW r \in Change,
         change' = [change EXCEPT ![lastId + 1] = r]
  PROVE  /\ lastId + 1 \in Ids /\ lastId + 1 \notin Used /\ lastId + 1 \in 0 .. MaxChanges
         /\ 1 .. (lastId + 1) = Used \cup {lastId + 1}
         /\ RowsOK(change', lastId + 1)
         /\ change'[lastId + 1] = r
         /\ \A d \in Ids : d # lastId + 1 => change'[d] = change[d]
  <1>1. /\ lastId + 1 \in Ids /\ lastId + 1 \notin Used /\ lastId + 1 \in 0 .. MaxChanges
        /\ 1 .. (lastId + 1) = Used \cup {lastId + 1}
    BY MaxChangesAssumption DEF TypeOK, Used, Ids
  <1>2. r # NoChange
    BY DEF Change, NoChange
  <1>3. change \in [Ids -> Change \cup {NoChange}]
    BY DEF TypeOK
  <1>4. \A d \in Ids : d # lastId + 1 => (d > lastId <=> d > lastId + 1)
    BY MaxChangesAssumption DEF Ids, TypeOK
  <1>5. ~ (lastId + 1 > lastId + 1)
    BY MaxChangesAssumption DEF TypeOK
  <1>6. change' \in [Ids -> Change \cup {NoChange}] /\ change'[lastId + 1] = r
        /\ \A d \in Ids : d # lastId + 1 => change'[d] = change[d]
    BY <1>1, <1>3
  <1>7. \A c \in Ids : change'[c] = NoChange <=> c > lastId + 1
    BY <1>2, <1>4, <1>5, <1>6 DEF TypeOK
  <1> QED  BY <1>1, <1>6, <1>7 DEF RowsOK

\* Several changes are rejected.
LEMMA AllRejected ==
  ASSUME TypeOK, NEW S \in SUBSET Used, change' = [c \in Ids |-> IF c \in S THEN [change[c] EXCEPT !.status = "REJECTED"] ELSE change[c]]
  PROVE  /\ RowsOK(change', lastId)
         /\ \A d \in Ids : d \notin S => change'[d] = change[d]
         /\ \A d \in S : /\ change'[d].status = "REJECTED" /\ change'[d].entity = change[d].entity
                         /\ change'[d].says = change[d].says /\ change'[d].origin = change[d].origin
  <1>1. change \in [Ids -> Change \cup {NoChange}] /\ S \subseteq Ids
    BY UsedChange DEF TypeOK
  <1>2. ASSUME NEW c \in S
        PROVE  /\ change'[c] \in Change /\ change'[c] # NoChange /\ ~ (c > lastId)
               /\ change'[c].status = "REJECTED" /\ change'[c].entity = change[c].entity
               /\ change'[c].says = change[c].says /\ change'[c].origin = change[c].origin
    <2>1. change[c] \in Change /\ c \in Ids
      BY UsedChange
    <2>2. change'[c] = [change[c] EXCEPT !.status = "REJECTED"]
      BY <2>1
    <2>3. ~ (c > lastId)
      BY MaxChangesAssumption DEF TypeOK, Used
    <2>4. /\ change'[c] \in Change
          /\ change'[c].status = "REJECTED" /\ change'[c].entity = change[c].entity
          /\ change'[c].says = change[c].says /\ change'[c].origin = change[c].origin
      BY <2>1, <2>2 DEF Change
    <2> QED  BY <2>3, <2>4 DEF NoChange
  <1>3. \A d \in Ids : d \notin S => change'[d] = change[d]
    BY <1>1
  <1>4. change' \in [Ids -> Change \cup {NoChange}]
    <2>1. \A c \in Ids : change'[c] \in Change \cup {NoChange}
      BY <1>1, <1>2, <1>3
    <2> QED  BY <2>1
  <1> QED  BY <1>1, <1>2, <1>3, <1>4 DEF RowsOK, TypeOK

-----------------------------------------------------------------------------
(* Steps that change nothing but a session.                                *)

\* Session t goes on as r; no row changes.
OnlySession(t, r) ==
    /\ txn' = [txn EXCEPT ![t] = r]
    /\ raced \subseteq raced' /\ raced' \subseteq Entities
    /\ feeds' \in 0 .. MaxFeeds
    /\ UNCHANGED <<obs, refs, entity, reviewed, ledger, owed>>

\* The event of a transaction that meets another one without locks is raced.
LEMMA MeetsRaces ==
  ASSUME TypeOK, NEW e \in Entities, NEW kind, Meets(e, kind)
  PROVE  /\ raced \subseteq raced' /\ raced' \subseteq Entities
         /\ raced' \subseteq raced \cup {e}
         /\ \A u \in Threads : On(u, e) /\ e \notin raced'
               => kind \notin Unlocked /\ txn[u].kind \notin Unlocked
  BY DEF Meets, TypeOK

LEMMA OnlySessionType ==
  ASSUME TypeOK, NEW t \in Threads, NEW r \in Session, OnlySession(t, r)
  PROVE  TypeOK'
  BY DEF OnlySession, TypeOK, reviewed, Used

LEMMA IdleType == Idle \in Session
  BY DEF Session

\* The session of a rebuild that begins.
Planned(e, s, row, kept, write, plan, learning, held) ==
    [kind |-> "rebuild", step |-> "planned", entity |-> e, source |-> s, row |-> row,
     kept |-> kept, write |-> write, plan |-> plan, hits |-> {}, seen |-> Reject,
     learning |-> learning, held |-> held]

LEMMA PlannedType ==
  ASSUME NEW e \in Entities, NEW s \in Sources, NEW row \in Content, NEW kept \in BOOLEAN,
         NEW write \in {"held", "late", "none"}, NEW plan \in Plan,
         NEW learning \in Ids \cup {0}, NEW held \in Plan
  PROVE  Planned(e, s, row, kept, write, plan, learning, held) \in Session
  BY DEF Planned, Session, Rebuild, Plan

\* What a rebuild makes of the observations of e and of their sources.
ObsAfter(e, s, row) == [obs[e] EXCEPT ![s] = row]
RefsAfter(e, s, kept) == IF kept THEN refs[e] \cup {s} ELSE refs[e] \ {s}

\* A rebuild begins: it has a plan for the observations as it will leave them.
LEMMA RebuildStarts ==
  ASSUME TypeOK, NEW t \in Threads, NEW e \in Entities, NEW s \in Sources, NEW row \in Content,
         NEW kept \in BOOLEAN, NEW write \in {"held", "late"}, NEW learning \in {0} \cup Used,
         RebuildBegins(t, e, s, row, kept, write, learning)
  PROVE  \E plan \in Plans(entity[e], ObsAfter(e, s, row), RefsAfter(e, s, kept)), held \in Plan :
            /\ plan \in Plan /\ (plan # Reject => Complete(plan))
            /\ learning # 0 => held = change[learning].says
            /\ txn[t] = Idle
            /\ OnlySession(t, Planned(e, s, row, kept, write, plan, learning, held))
            /\ Planned(e, s, row, kept, write, plan, learning, held) \in Session
            /\ \A u \in Threads : On(u, e) => e \in raced'
  <1> DEFINE o == ObsAfter(e, s, row)
             r == RefsAfter(e, s, kept)
             h == IF learning = 0 THEN Reject ELSE change[learning].says
  <1>1. o \in [Sources -> Content]
    BY DEF TypeOK, ObsAfter
  <1>2. Plans(entity[e], o, r) \subseteq Plan
    BY <1>1, PlansType
  <1>3. h \in Plan /\ learning \in Ids \cup {0}
    BY UsedChange DEF Plan
  <1>4. learning # 0 => h = change[learning].says
    OBVIOUS
  <1>5. PICK plan \in Plans(entity[e], o, r) :
           Begins(t, Planned(e, s, row, kept, write, plan, learning, h))
    BY DEF RebuildBegins, Planned, ObsAfter, RefsAfter
  <1>6. Planned(e, s, row, kept, write, plan, learning, h) \in Session
    BY <1>2, <1>3, PlannedType
  <1>10. plan # Reject => Complete(plan)
    BY <1>1, PlansComplete
  <1>7. Meets(e, "rebuild") /\ feeds' \in 0 .. MaxFeeds
    BY MaxFeedsAssumption DEF RebuildBegins, TypeOK
  <1>8. /\ raced \subseteq raced' /\ raced' \subseteq Entities
        /\ \A u \in Threads : On(u, e) => e \in raced'
    BY <1>7, MeetsRaces DEF Unlocked
  <1> HIDE DEF h
  <1>9. txn[t] = Idle /\ OnlySession(t, Planned(e, s, row, kept, write, plan, learning, h))
    BY <1>5, <1>7, <1>8 DEF Begins, OnlySession, RebuildBegins
  <1> QED  BY <1>2, <1>3, <1>4, <1>5, <1>6, <1>8, <1>9, <1>10

\* What a step of one session that changes no row does: a rebuild, a label that is
\* learnt, a decision or an edit begins, or goes on to its next step, or ends.
LEMMA DirectiveStarts ==
  ASSUME TypeOK, NEW t \in Threads, NEW e \in Entities, NEW s \in Sources, NEW p \in Payloads,
         ApplyDirective(t, e, s, p)
  PROVE  LET r == Planned(e, s, Nothing, TRUE, "none", [type |-> "DUE_CHANGED", after |-> p], 0, Reject)
         IN  /\ txn[t] = Idle /\ OnlySession(t, r) /\ r \in Session
             /\ entity[e].life = "active"
             /\ \A u \in Threads : On(u, e) => e \in raced'
  <1> DEFINE plan == [type |-> "DUE_CHANGED", after |-> p]
             r == Planned(e, s, Nothing, TRUE, "none", plan, 0, Reject)
  <1>1. plan \in Plan /\ Reject \in Plan /\ Nothing \in Content
    BY DEF Plan, Says, Types, Content
  <1>2. r \in Session
    BY <1>1, PlannedType
  <1>3. /\ Meets(e, "rebuild") /\ feeds' \in 0 .. MaxFeeds /\ Begins(t, r)
        /\ entity[e].life = "active"
    BY MaxFeedsAssumption DEF ApplyDirective, TypeOK, Planned
  <1>4. /\ raced \subseteq raced' /\ raced' \subseteq Entities
        /\ \A u \in Threads : On(u, e) => e \in raced'
    BY <1>3, MeetsRaces DEF Unlocked
  <1> HIDE DEF r
  <1>5. txn[t] = Idle /\ OnlySession(t, r)
    BY <1>3, <1>4 DEF Begins, OnlySession, ApplyDirective
  <1> QED  BY <1>2, <1>3, <1>4, <1>5 DEF r

\* A session that has locked change c and read its event.
Deciding(e, c, says, copy) ==
    [kind |-> "decide", entity |-> e, change |-> c, says |-> says, copy |-> copy]

LEMMA DecidingType ==
  ASSUME TypeOK, NEW e \in Entities, NEW c \in Used, NEW says \in Says
  PROVE  Deciding(e, c, says, entity[e]) \in Session
  <1>1. c \in Ids /\ entity[e] \in Row
    BY UsedChange DEF TypeOK
  <1> QED  BY <1>1 DEF Deciding, Session, Decide

LEMMA ApprovalStarts ==
  ASSUME TypeOK, NEW t \in Threads, NEW c \in Ids, Approve(t, c)
  PROVE  LET e == change[c].entity
             r == Deciding(e, c, change[c].says, entity[e])
         IN  /\ c \in Used /\ c \in Pending(e) /\ e \in Entities /\ ~ChangeLocked(c)
             /\ txn[t] = Idle /\ OnlySession(t, r) /\ r \in Session
             /\ Meets(e, "decide")
  <1> DEFINE e == change[c].entity
             r == Deciding(e, c, change[c].says, entity[e])
  <1>1. c \in Used /\ c \in Pending(e) /\ ~ChangeLocked(c) /\ Meets(e, "decide") /\ Begins(t, r)
    BY DEF Approve, Pending, Deciding
  <1>2. e \in Entities /\ change[c].says \in Says
    BY <1>1, UsedChange
  <1> HIDE DEF e
  <1>3. r \in Session
    BY <1>1, <1>2, DecidingType
  <1>4. raced \subseteq raced' /\ raced' \subseteq Entities
    BY <1>1, <1>2, MeetsRaces
  <1> HIDE DEF r
  <1>5. txn[t] = Idle /\ OnlySession(t, r)
    BY <1>1, <1>4 DEF Begins, OnlySession, Approve, observed, TypeOK
  <1> QED  BY <1>1, <1>2, <1>3, <1>5 DEF e, r

LEMMA RebuiltType ==
  ASSUME NEW e \in Entities, NEW s \in Sources, NEW c \in Ids \cup {0}, NEW view \in Plan
  PROVE  Rebuilt(e, s, c, view) \in Rebuild /\ Rebuilt(e, s, c, view) \in Session
  <1>1. Nothing \in Content /\ Reject \in Plan
    BY DEF Content, Plan
  <1>2. Rebuilt(e, s, c, view) \in Rebuild
    BY <1>1 DEF Rebuilt, Rebuild
  <1> QED  BY <1>2 DEF Session

LEMMA LearningStarts ==
  ASSUME TypeOK, NEW t \in Threads, NEW c \in Ids, NEW s \in Sources, LearnKnownLabel(t, c, s)
  PROVE  LET e == change[c].entity
             r == Rebuilt(e, s, c, change[c].says)
         IN  /\ c \in Used /\ e \in Entities
             /\ txn[t] = Idle /\ OnlySession(t, r) /\ r \in Session
             /\ \A u \in Threads : On(u, e) => e \in raced'
  <1> DEFINE e == change[c].entity
             r == Rebuilt(e, s, c, change[c].says)
  <1>1. c \in Used /\ Meets(e, "learn") /\ Begins(t, r)
    BY DEF LearnKnownLabel
  <1>2. e \in Entities /\ change[c].says \in Plan
    BY <1>1, UsedChange DEF Plan
  <1> HIDE DEF e
  <1>3. r \in Session
    BY <1>2, RebuiltType
  <1>4. /\ raced \subseteq raced' /\ raced' \subseteq Entities
        /\ \A u \in Threads : On(u, e) => e \in raced'
    BY <1>1, <1>2, MeetsRaces DEF Unlocked
  <1> HIDE DEF r
  <1>5. txn[t] = Idle /\ OnlySession(t, r)
    BY <1>1, <1>4 DEF Begins, OnlySession, LearnKnownLabel, observed, TypeOK
  <1> QED  BY <1>1, <1>2, <1>3, <1>4, <1>5 DEF e, r

\* A session that edits the approved state of e.
Editing(e, says, copy) == [kind |-> "edit", entity |-> e, says |-> says, copy |-> copy]

LEMMA EditStarts ==
  ASSUME TypeOK, NEW t \in Threads, NEW e \in Entities,
         DeleteEvent(t, e) \/ \E p \in Payloads : EditEvent(t, e, p)
  PROVE  \E says \in Says :
            LET r == Editing(e, says, entity[e])
            IN  /\ Complete(says) /\ (says.type = "REMOVED" => entity[e].life = "active")
                /\ txn[t] = Idle /\ OnlySession(t, r) /\ r \in Session
                /\ ~RowLocked(e, t) /\ Meets(e, "edit")
  <1> DEFINE May(says) == Complete(says) /\ (says.type = "REMOVED" => entity[e].life = "active")
  <1>1. PICK says \in Says : May(says) /\ Begins(t, Editing(e, says, entity[e]))
    <2>1. CASE DeleteEvent(t, e)
      <3> DEFINE says == [type |-> "REMOVED", after |-> Nothing]
      <3>1. says \in Says
        BY DEF Says, Types, Content
      <3>2. May(says) /\ Begins(t, Editing(e, says, entity[e]))
        BY <2>1 DEF DeleteEvent, Editing, Complete
      <3> QED  BY <3>1, <3>2
    <2>2. ASSUME NEW p \in Payloads, EditEvent(t, e, p)
          PROVE  \E says \in Says : May(says) /\ Begins(t, Editing(e, says, entity[e]))
      <3> DEFINE says == [type |-> IF entity[e].life = "active" THEN "DUE_CHANGED" ELSE "CREATED",
                          after |-> p]
      <3>1. says \in Says /\ May(says)
        BY NothingAssumption DEF Says, Types, Content, Complete
      <3>2. Begins(t, Editing(e, says, entity[e]))
        BY <2>2 DEF EditEvent, Editing
      <3> QED  BY <3>1, <3>2
    <2> QED  BY <2>1, <2>2
  <1> DEFINE r == Editing(e, says, entity[e])
  <1>2. r \in Session
    <2>1. entity[e] \in Row
      BY DEF TypeOK
    <2> QED  BY <2>1 DEF Editing, Session, Edit
  <1>3. /\ ~RowLocked(e, t) /\ Meets(e, "edit")
        /\ UNCHANGED <<observed, entity, reviewed, ledger, owed>>
    BY DEF DeleteEvent, EditEvent
  <1>4. raced \subseteq raced' /\ raced' \subseteq Entities
    BY <1>3, MeetsRaces
  <1> HIDE DEF r
  <1>5. txn[t] = Idle /\ OnlySession(t, r)
    BY <1>1, <1>3, <1>4 DEF r, Begins, OnlySession, observed, TypeOK
  <1> QED  BY <1>1, <1>2, <1>3, <1>5 DEF r

\* A rebuild reads the pending changes its plan is about.
LEMMA RebuildAims ==
  ASSUME TypeOK, NEW t \in Threads, ReadPending(t)
  PROVE  \E r \in Rebuild :
            LET b == txn[t]
            IN  /\ b \in Rebuild /\ b.step = "planned" /\ r \in Session
                /\ OnlySession(t, r) /\ UNCHANGED raced
                /\ r.kind = "rebuild" /\ r.step = "aimed" /\ r.hits = Hits(b.entity, b.plan)
                /\ r.entity = b.entity /\ r.source = b.source /\ r.row = b.row /\ r.kept = b.kept
                /\ r.write = b.write /\ r.plan = b.plan
                /\ r.learning = b.learning /\ r.held = b.held
                /\ b.plan # Reject /\ r.hits # {} =>
                      r.seen = IF r.hits = {b.learning} THEN b.held
                               ELSE change[Latest(r.hits)].says
  <1> DEFINE b == txn[t]
             hits == Hits(b.entity, b.plan)
             seen == IF b.plan = Reject \/ hits = {} THEN Reject
                     ELSE IF hits = {b.learning} THEN b.held ELSE change[Latest(hits)].says
             r == [b EXCEPT !.step = "aimed", !.hits = hits, !.seen = seen]
  <1>1. b \in Session /\ b.kind = "rebuild" /\ b.step = "planned"
    BY DEF TypeOK, ReadPending
  <1>2. b \in Rebuild
    BY <1>1, SessionKinds
  <1>3. hits \subseteq Used /\ hits \subseteq Ids
    BY HitsPending, PendingUsed
  <1>4. seen \in Plan
    <2>1. CASE b.plan = Reject \/ hits = {}
      BY <2>1 DEF Plan
    <2>2. CASE hits # {}
      <3>1. Latest(hits) \in Used
        BY <1>3, <2>2, LatestIsMember
      <3>2. change[Latest(hits)].says \in Plan
        BY <3>1, UsedChange DEF Plan
      <3>3. b.held \in Plan
        BY <1>2, RebuildFields
      <3> QED  BY <3>2, <3>3 DEF Plan
    <2> QED  BY <2>1, <2>2
  <1>5. b.plan # Reject /\ hits # {} =>
           seen = IF hits = {b.learning} THEN b.held ELSE change[Latest(hits)].says
    OBVIOUS
  <1>6. txn' = [txn EXCEPT ![t] = r]
    BY DEF ReadPending
  <1> HIDE DEF b, hits, seen
  <1>7. /\ r \in Rebuild /\ r.kind = "rebuild" /\ r.step = "aimed"
        /\ r.hits = hits /\ r.seen = seen
        /\ r.entity = b.entity /\ r.source = b.source /\ r.row = b.row /\ r.kept = b.kept
        /\ r.write = b.write /\ r.plan = b.plan /\ r.learning = b.learning /\ r.held = b.held
    BY <1>2, <1>3, <1>4 DEF Rebuild
  <1> HIDE DEF r
  <1>8. OnlySession(t, r) /\ UNCHANGED raced
    BY <1>6 DEF OnlySession, ReadPending, observed, TypeOK
  <1>9. r \in Session
    BY <1>7 DEF Session
  <1> QED  BY <1>1, <1>2, <1>5, <1>7, <1>8, <1>9 DEF b, hits

\* Label learning picks a pending change of its event, or finds none.
Learning(e, c, says) == [kind |-> "learn", entity |-> e, change |-> c, says |-> says]

LEMMA LearningPicks ==
  ASSUME TypeOK, NEW t \in Threads, PickRebuilt(t)
  PROVE  LET b == txn[t]
         IN  /\ b \in Rebuild /\ b.step = "rebuilt" /\ UNCHANGED raced
             /\ \/ OnlySession(t, Idle)
                \/ \E c \in Pending(b.entity), says \in Plan :
                      /\ says = IF c = b.learning THEN b.held ELSE change[c].says
                      /\ OnlySession(t, Learning(b.entity, c, says))
                      /\ says \in Says => Learning(b.entity, c, says) \in Session
  <1> DEFINE b == txn[t]
  <1>1. b \in Session /\ b.kind = "rebuild" /\ b.step = "rebuilt"
    BY DEF TypeOK, PickRebuilt
  <1>2. b \in Rebuild
    BY <1>1, SessionKinds
  <1>3. /\ raced \subseteq raced' /\ raced' \subseteq Entities /\ feeds' \in 0 .. MaxFeeds
        /\ UNCHANGED <<obs, refs, entity, reviewed, ledger, owed, raced>>
    BY DEF PickRebuilt, observed, TypeOK
  <1>4. CASE Pending(b.entity) = {}
    <2>1. OnlySession(t, Idle)
      BY <1>3, <1>4 DEF PickRebuilt, Ends, OnlySession
    <2> QED  BY <1>1, <1>2, <1>3, <2>1
  <1>5. CASE Pending(b.entity) # {}
    <2>1. PICK c \in Pending(b.entity) : txn' = [txn EXCEPT ![t] =
             Learning(b.entity, c, IF c = b.learning THEN b.held ELSE change[c].says)]
      BY <1>5 DEF PickRebuilt, Learning
    <2> DEFINE says == IF c = b.learning THEN b.held ELSE change[c].says
    <2>2. c \in Used /\ c \in Ids /\ says \in Plan
      BY <1>2, PendingUsed, UsedChange, RebuildFields DEF Plan
    <2>3. OnlySession(t, Learning(b.entity, c, says))
      BY <1>3, <2>1 DEF OnlySession
    <2>4. says \in Says => Learning(b.entity, c, says) \in Session
      BY <1>2, <2>2, RebuildFields DEF Learning, Session, Learn
    <2> QED  BY <1>1, <1>2, <1>3, <2>2, <2>3, <2>4
  <1> QED  BY <1>4, <1>5

\* The picked change is locked.
LEMMA LearningLocks ==
  ASSUME TypeOK, NEW t \in Threads, LockPicked(t)
  PROVE  LET b == txn[t]
             r == Deciding(b.entity, b.change, b.says, entity[b.entity])
         IN  /\ b \in Learn /\ ~ChangeLocked(b.change) /\ UNCHANGED raced
             /\ OnlySession(t, r) /\ r \in Session
  <1> DEFINE b == txn[t]
             r == Deciding(b.entity, b.change, b.says, entity[b.entity])
  <1>1. b \in Session /\ b.kind = "learn" /\ ~ChangeLocked(b.change)
    BY DEF TypeOK, LockPicked
  <1>2. b \in Learn
    BY <1>1, SessionKinds
  <1>3. /\ txn' = [txn EXCEPT ![t] = r] /\ feeds' \in 0 .. MaxFeeds /\ raced' \subseteq Entities
        /\ UNCHANGED <<obs, refs, entity, reviewed, ledger, owed, raced>>
    BY DEF LockPicked, observed, TypeOK, Deciding
  <1>4. r \in Session
    <2>1. b.entity \in Entities /\ b.change \in Ids /\ b.says \in Says
      BY <1>2 DEF Learn
    <2>2. entity[b.entity] \in Row
      BY <2>1 DEF TypeOK
    <2> HIDE DEF b
    <2> QED  BY <2>1, <2>2 DEF Deciding, Session, Decide
  <1> HIDE DEF r
  <1>5. OnlySession(t, r)
    BY <1>3 DEF OnlySession
  <1> QED  BY <1>1, <1>2, <1>3, <1>4, <1>5 DEF r

LEMMA SessionAborts ==
  ASSUME TypeOK, NEW t \in Threads, Abort(t)
  PROVE  OnlySession(t, Idle) /\ UNCHANGED raced
  BY DEF Abort, Ends, OnlySession, observed, TypeOK

-----------------------------------------------------------------------------
(* Type correctness.  A commit writes to the changes its session knows, so *)
(* the shape of the rows depends on what the sessions hold.                *)

About(c, e) == c \in Used /\ change[c].entity = e

\* What session b holds fits the rows, whatever overlapped it.
SessionFits(b) ==
    /\ b.kind = "rebuild" =>
         /\ b.row # Nothing => b.kept
         /\ b.write = "none" /\ b.step # "rebuilt" => b.plan # Reject
         /\ b.plan # Reject => Complete(b.plan)
         /\ b.learning # 0 => b.held # Reject /\ About(b.learning, b.entity)
         /\ \A c \in b.hits : About(c, b.entity)
    /\ b.kind \in {"learn", "decide"} => About(b.change, b.entity)
    /\ b.kind = "edit" => Complete(b.says) /\ (b.says.type = "REMOVED" => b.copy.life = "active")

TypeInv == TypeOK /\ \A t \in Threads : SessionFits(txn[t])

\* No change is lost and none moves to another event.
RowsStay == \A c \in Used : c \in Used' /\ change'[c].entity = change[c].entity

LEMMA FitsStays ==
  ASSUME TypeInv, RowsStay, NEW t \in Threads, txn'[t] = txn[t]
  PROVE  SessionFits(txn[t])'
  <1>1. SessionFits(txn[t])
    BY DEF TypeInv
  <1> QED  BY <1>1 DEF SessionFits, About, RowsStay

LEMMA OnlySessionFits ==
  ASSUME TypeInv, NEW t \in Threads, NEW r \in Session, OnlySession(t, r), SessionFits(r)
  PROVE  TypeInv'
  <1>1. TypeOK'
    BY OnlySessionType DEF TypeInv
  <1>2. RowsStay
    BY DEF OnlySession, RowsStay, reviewed, Used
  <1>3. ASSUME NEW u \in Threads  PROVE SessionFits(txn[u])'
    <2>1. CASE u = t
      <3>1. txn'[u] = r
        BY <2>1 DEF OnlySession, TypeInv, TypeOK
      <3> QED  BY <1>2, <3>1 DEF SessionFits, About, RowsStay
    <2>2. CASE u # t
      <3>1. txn'[u] = txn[u]
        BY <2>2 DEF OnlySession, TypeInv, TypeOK
      <3> QED  BY <1>2, <3>1, FitsStays
    <2> QED  BY <2>1, <2>2
  <1> QED  BY <1>1, <1>3 DEF TypeInv

LEMMA IdleFits == SessionFits(Idle)
  BY DEF SessionFits, Idle

LEMMA PlannedFits ==
  ASSUME NEW e, NEW s, NEW row, NEW kept, NEW write, NEW plan, NEW learning, NEW held,
         row # Nothing => kept, write = "none" => plan # Reject,
         plan # Reject => Complete(plan),
         learning # 0 => held # Reject /\ About(learning, e)
  PROVE  SessionFits(Planned(e, s, row, kept, write, plan, learning, held))
  BY DEF SessionFits, Planned

LEMMA NotReject == Reject \notin Says
  BY DEF Reject, Says, Types

LEMMA RebuildTyped ==
  ASSUME TypeInv, NEW t \in Threads, NEW e \in Entities, NEW s \in Sources, NEW row \in Content,
         NEW kept \in BOOLEAN, NEW write \in {"held", "late"}, NEW learning \in {0} \cup Used,
         row # Nothing => kept, learning # 0 => change[learning].entity = e,
         RebuildBegins(t, e, s, row, kept, write, learning)
  PROVE  TypeInv'
  <1>1. PICK plan \in Plans(entity[e], ObsAfter(e, s, row), RefsAfter(e, s, kept)), held \in Plan :
            /\ plan # Reject => Complete(plan)
            /\ learning # 0 => held = change[learning].says
            /\ OnlySession(t, Planned(e, s, row, kept, write, plan, learning, held))
            /\ Planned(e, s, row, kept, write, plan, learning, held) \in Session
    <2>1. TypeOK
      BY DEF TypeInv
    <2> QED  BY <2>1, RebuildStarts
  <1>2. learning # 0 => held # Reject /\ About(learning, e)
    BY <1>1, UsedChange, NotReject DEF About, TypeInv
  <1>3. SessionFits(Planned(e, s, row, kept, write, plan, learning, held))
    BY <1>1, <1>2, PlannedFits
  <1> QED  BY <1>1, <1>3, OnlySessionFits

\* A session that is put in its place fits when it fitted the rows before.
LEMMA FitsAfter ==
  ASSUME TypeInv, RowsStay, NEW t \in Threads, NEW r, txn'[t] = r, SessionFits(r)
  PROVE  SessionFits(txn[t])'
  BY DEF SessionFits, About, RowsStay

LEMMA RetireTyped ==
  ASSUME TypeInv, NEW e \in Entities, NEW s \in Sources, RetireObservation(e, s)
  PROVE  TypeInv'
  <1>1. TypeOK
    BY DEF TypeInv
  <1>2. raced' \subseteq Entities /\ feeds' \in 0 .. MaxFeeds
    BY <1>1, MeetsRaces, MaxFeedsAssumption DEF RetireObservation, TypeOK
  <1>3. obs' \in [Entities -> [Sources -> Content]]
    BY <1>1 DEF RetireObservation, TypeOK, Content
  <1>4. TypeOK'
    BY <1>1, <1>2, <1>3 DEF RetireObservation, TypeOK, reviewed, Used
  <1>5. RowsStay /\ txn' = txn
    BY DEF RetireObservation, RowsStay, reviewed, Used
  <1> QED  BY <1>4, <1>5, FitsStays DEF TypeInv

\* The user rejects a change: it is the row's status that changes ...
LEMMA RejectRows ==
  ASSUME TypeOK, NEW c \in Ids, RejectChange(c)
  PROVE  /\ c \in Used /\ change[c].status = "PENDING" /\ ~ChangeLocked(c)
         /\ RowsOK(change', lastId)
         /\ \A d \in Ids : d # c => change'[d] = change[d]
         /\ change'[c].status = "REJECTED" /\ change'[c].entity = change[c].entity
         /\ change'[c].says = change[c].says
         /\ RowsStay /\ txn' = txn /\ lastId' = lastId
  <1>1. /\ c \in Used /\ change[c].status = "PENDING" /\ ~ChangeLocked(c)
        /\ change' = [change EXCEPT ![c].status = "REJECTED"] /\ txn' = txn /\ lastId' = lastId
    BY DEF RejectChange
  <1>2. /\ RowsOK(change', lastId)
        /\ \A d \in Ids : d # c => change'[d] = change[d]
        /\ change'[c].status = "REJECTED" /\ change'[c].entity = change[c].entity
        /\ change'[c].says = change[c].says
    BY <1>1, StatusSet
  <1>3. RowsStay
    BY <1>1, <1>2, UsedChange DEF RowsStay, Used
  <1> QED  BY <1>1, <1>2, <1>3

LEMMA VerdictType ==
  ASSUME TypeOK, NEW c \in Ids, NEW v \in {"approve", "reject"},
         verdict' = [verdict EXCEPT ![c] = Append(@, v)]
  PROVE  /\ verdict' \in [Ids -> Seq({"approve", "reject"})]
         /\ verdict'[c] = Append(verdict[c], v)
         /\ \A d \in Ids : d # c => verdict'[d] = verdict[d]
  BY DEF TypeOK

LEMMA RejectTyped ==
  ASSUME TypeInv, NEW c \in Ids, RejectChange(c)
  PROVE  TypeInv'
  <1>1. TypeOK
    BY DEF TypeInv
  <1>2. RowsOK(change', lastId) /\ RowsStay /\ txn' = txn /\ lastId' = lastId /\ c \in Used
    BY <1>1, RejectRows
  <1>3. raced' \subseteq Entities
    BY <1>1, <1>2, UsedChange, MeetsRaces DEF RejectChange
  <1>4. verdict' \in [Ids -> Seq({"approve", "reject"})]
    BY <1>1, VerdictType DEF RejectChange
  <1>5. TypeOK'
    BY <1>1, <1>2, <1>3, <1>4 DEF RejectChange, TypeOK, RowsOK, observed, Used
  <1> QED  BY <1>2, <1>5, FitsStays DEF TypeInv

\* ... and the user corrects a change: it is what the row says.
LEMMA EditRows ==
  ASSUME TypeOK, NEW c \in Ids, NEW p \in Payloads, EditProposal(c, p)
  PROVE  /\ c \in Used /\ change[c].status = "PENDING" /\ ~ChangeLocked(c)
         /\ RowsOK(change', lastId)
         /\ \A d \in Ids : d # c => change'[d] = change[d]
         /\ change'[c].status = "PENDING" /\ change'[c].entity = change[c].entity
         /\ change'[c].says.type = change[c].says.type
         /\ change[c].says.type # "REMOVED" /\ change'[c].says.after = p
         /\ RowsStay /\ txn' = txn /\ lastId' = lastId
  <1>1. /\ c \in Used /\ change[c].status = "PENDING" /\ ~ChangeLocked(c)
        /\ change' = [change EXCEPT ![c].says.after = p] /\ txn' = txn /\ lastId' = lastId
        /\ change[c].says.type # "REMOVED"
    BY DEF EditProposal
  <1>2. /\ c \in Ids /\ change[c] \in Change /\ change[c].says \in Says
        /\ change \in [Ids -> Change \cup {NoChange}]
    BY <1>1, UsedChange DEF TypeOK
  <1> DEFINE says == [change[c].says EXCEPT !.after = p]
  <1>3. says \in Says /\ says.type = change[c].says.type /\ says.after = p
    BY <1>2 DEF Says, Content
  <1>4. change' = [change EXCEPT ![c] = [change[c] EXCEPT !.says = says]]
    <2>1. [change[c] EXCEPT !.says.after = p] = [change[c] EXCEPT !.says = says]
      BY <1>2 DEF Change
    <2>2. change' = [change EXCEPT ![c] = [change[c] EXCEPT !.says.after = p]]
      BY <1>1, <1>2
    <2> QED  BY <2>1, <2>2
  <1> HIDE DEF says
  <1>5. /\ RowsOK(change', lastId)
        /\ \A d \in Ids : d # c => change'[d] = change[d]
        /\ change'[c].says = says /\ change'[c].entity = change[c].entity
        /\ change'[c].status = change[c].status
    BY <1>1, <1>3, <1>4, SaysSet
  <1>6. RowsStay
    BY <1>1, <1>5, UsedChange DEF RowsStay, Used
  <1> QED  BY <1>1, <1>3, <1>5, <1>6

LEMMA EditProposalTyped ==
  ASSUME TypeInv, NEW c \in Ids, NEW p \in Payloads, EditProposal(c, p)
  PROVE  TypeInv'
  <1>1. TypeOK
    BY DEF TypeInv
  <1>2. RowsOK(change', lastId) /\ RowsStay /\ txn' = txn /\ lastId' = lastId /\ c \in Used
    BY <1>1, EditRows
  <1>3. raced' \subseteq Entities
    BY <1>1, <1>2, UsedChange, MeetsRaces DEF EditProposal
  <1>4. TypeOK'
    BY <1>1, <1>2, <1>3 DEF EditProposal, TypeOK, RowsOK, observed, Used
  <1> QED  BY <1>2, <1>4, FitsStays DEF TypeInv

LEMMA KeepTyped ==
  ASSUME TypeInv, NEW e \in Entities, KeepEvent(e)
  PROVE  TypeInv'
  <1>1. TypeOK
    BY DEF TypeInv
  <1>2. raced' \subseteq Entities
    BY <1>1, MeetsRaces DEF KeepEvent
  <1>3. entity' \in [Entities -> Row] /\ ledger' \in [Entities -> Row]
    <2>1. \A row \in Row : [row EXCEPT !.manual = TRUE] \in Row
      BY DEF Row
    <2>2. /\ entity' = [entity EXCEPT ![e] = [entity[e] EXCEPT !.manual = TRUE]]
          /\ ledger' = [ledger EXCEPT ![e] = [ledger[e] EXCEPT !.manual = TRUE]]
      BY <1>1 DEF KeepEvent, TypeOK
    <2>3. entity[e] \in Row /\ ledger[e] \in Row
      BY <1>1 DEF TypeOK
    <2> QED  BY <1>1, <2>1, <2>2, <2>3 DEF TypeOK
  <1>4. TypeOK'
    BY <1>1, <1>2, <1>3 DEF KeepEvent, TypeOK, reviewed, observed, Used
  <1>5. RowsStay /\ txn' = txn
    BY DEF KeepEvent, RowsStay, reviewed, Used
  <1> QED  BY <1>4, <1>5, FitsStays DEF TypeInv

\* A rebuild inserts a proposal, ...
Inserted(b) ==
    /\ b.plan # Reject /\ b.hits = {}
    /\ lastId < MaxChanges /\ lastId' = lastId + 1
    /\ change'[lastId + 1].entity = b.entity /\ change'[lastId + 1].says = b.plan
    /\ change'[lastId + 1].status = "PENDING"
    /\ lastId + 1 \in Ids /\ lastId + 1 \notin Used /\ Used' = Used \cup {lastId + 1}
    /\ \A d \in Ids : d # lastId + 1 => change'[d] = change[d]

\* ... rewrites one that it read, ...
Rewritten(b) ==
    /\ b.plan # Reject
    /\ lastId' = lastId /\ Used' = Used
    /\ \E c \in b.hits :
         /\ c \in Used
         /\ change'[c].entity = change[c].entity /\ change'[c].status = change[c].status
         /\ change'[c].says =
              [type  |-> Written(change[c].says.type, b.seen.type, b.plan.type),
               after |-> Written(change[c].says.after, b.seen.after, b.plan.after)]
         /\ \A d \in Ids : d # c => change'[d] = change[d]

\* ... or rejects those that it read.
Rejected(b) ==
    /\ b.plan = Reject
    /\ lastId' = lastId /\ Used' = Used
    /\ \A c \in b.hits : /\ change'[c].status = "REJECTED" /\ change'[c].entity = change[c].entity
                         /\ change'[c].says = change[c].says
    /\ \A d \in Ids : d \notin b.hits => change'[d] = change[d]

LEMMA InsertRows ==
  ASSUME TypeInv, NEW b \in Rebuild, InsertProposal(b)
  PROVE  /\ Inserted(b) /\ RowsStay /\ RowsOK(change', lastId')
         /\ lastId' \in 0 .. MaxChanges /\ announced' \subseteq Used'
  <1>1. TypeOK /\ b.entity \in Entities /\ b.plan \in Says
    BY RebuildFields DEF TypeInv, Plan, InsertProposal
  <1> DEFINE r == [entity |-> b.entity, says |-> b.plan, status |-> "PENDING", origin |-> "ingest"]
  <1>2. /\ b.plan # Reject /\ b.hits = {} /\ lastId < MaxChanges /\ lastId' = lastId + 1
        /\ change' = [change EXCEPT ![lastId + 1] = r] /\ announced' = announced \cup {lastId + 1}
    BY DEF InsertProposal
  <1>3. r \in Change
    BY <1>1 DEF Change
  <1>4. r.entity = b.entity /\ r.says = b.plan /\ r.status = "PENDING"
    OBVIOUS
  <1> HIDE DEF r
  <1>5. /\ lastId + 1 \in Ids /\ lastId + 1 \notin Used /\ lastId + 1 \in 0 .. MaxChanges
        /\ 1 .. (lastId + 1) = Used \cup {lastId + 1}
        /\ RowsOK(change', lastId + 1)
        /\ change'[lastId + 1] = r
        /\ \A d \in Ids : d # lastId + 1 => change'[d] = change[d]
    BY <1>1, <1>2, <1>3, RowAdded
  <1>6. Used' = Used \cup {lastId + 1}
    BY <1>2, <1>5 DEF Used
  <1>7. Inserted(b)
    BY <1>2, <1>4, <1>5, <1>6 DEF Inserted
  <1>8. RowsStay
    BY <1>1, <1>5, <1>6, UsedChange DEF RowsStay
  <1> QED  BY <1>1, <1>2, <1>5, <1>6, <1>7, <1>8 DEF TypeOK

LEMMA RewriteRows ==
  ASSUME TypeInv, NEW b \in Rebuild, \A c \in b.hits : c \in Used, RewriteProposal(b)
  PROVE  /\ Rewritten(b) /\ RowsStay /\ RowsOK(change', lastId')
         /\ lastId' \in 0 .. MaxChanges /\ announced' \subseteq Used'
  <1>1. TypeOK /\ b.plan \in Says /\ b.plan # Reject /\ lastId' = lastId /\ announced' = announced
    BY RebuildFields DEF TypeInv, Plan, RewriteProposal
  <1>2. PICK c \in b.hits : change' = [change EXCEPT ![c].says =
                [type  |-> Written(@.type, b.seen.type, b.plan.type),
                 after |-> Written(@.after, b.seen.after, b.plan.after)]]
    BY DEF RewriteProposal
  <1>3. /\ c \in Used /\ c \in Ids /\ change[c] \in Change /\ change[c].says \in Says
        /\ change \in [Ids -> Change \cup {NoChange}]
    BY <1>1, UsedChange DEF TypeOK
  <1> DEFINE says == [type  |-> Written(change[c].says.type, b.seen.type, b.plan.type),
                      after |-> Written(change[c].says.after, b.seen.after, b.plan.after)]
  <1>4. says \in Says
    BY <1>1, <1>3 DEF Says, Written
  <1>5. change' = [change EXCEPT ![c] = [change[c] EXCEPT !.says = says]]
    BY <1>2, <1>3
  <1>6. Used' = Used
    BY <1>1 DEF Used
  <1> HIDE DEF says
  <1>7. /\ RowsOK(change', lastId)
        /\ \A d \in Ids : d # c => change'[d] = change[d]
        /\ change'[c].says = says /\ change'[c].entity = change[c].entity
        /\ change'[c].status = change[c].status
    BY <1>1, <1>3, <1>4, <1>5, SaysSet
  <1>8. Rewritten(b)
    BY <1>1, <1>3, <1>6, <1>7 DEF Rewritten, says
  <1>9. RowsStay
    BY <1>1, <1>6, <1>7, UsedChange DEF RowsStay
  <1> QED  BY <1>1, <1>6, <1>7, <1>8, <1>9 DEF TypeOK

LEMMA RejectionRows ==
  ASSUME TypeInv, NEW b \in Rebuild, \A c \in b.hits : c \in Used, RejectProposals(b)
  PROVE  /\ Rejected(b) /\ RowsStay /\ RowsOK(change', lastId')
         /\ lastId' \in 0 .. MaxChanges /\ announced' \subseteq Used'
  <1>1. TypeOK /\ b.hits \in SUBSET Used
    BY DEF TypeInv
  <1>2. /\ b.plan = Reject /\ lastId' = lastId /\ announced' = announced
        /\ change' = [c \in Ids |-> IF c \in b.hits THEN [change[c] EXCEPT !.status = "REJECTED"]
                                    ELSE change[c]]
    BY DEF RejectProposals
  <1> DEFINE S == b.hits
  <1>3. S \in SUBSET Used /\ change' = [c \in Ids |->
           IF c \in S THEN [change[c] EXCEPT !.status = "REJECTED"] ELSE change[c]]
    BY <1>1, <1>2
  <1> HIDE DEF S
  <1>4. /\ RowsOK(change', lastId)
        /\ \A d \in Ids : d \notin S => change'[d] = change[d]
        /\ \A d \in S : /\ change'[d].status = "REJECTED" /\ change'[d].entity = change[d].entity
                        /\ change'[d].says = change[d].says
    BY <1>1, <1>3, AllRejected
  <1>5. Used' = Used
    BY <1>2 DEF Used
  <1>6. RowsStay
    BY <1>1, <1>4, <1>5, UsedChange DEF RowsStay
  <1>7. Rejected(b)
    BY <1>2, <1>4, <1>5 DEF Rejected, S
  <1> QED  BY <1>1, <1>2, <1>4, <1>5, <1>6, <1>7 DEF TypeOK

\* The commit of a rebuild: its rows, and the session that learns a label goes on
\* with what it wrote, or with what it held.
LEMMA RebuildCommits ==
  ASSUME TypeInv, NEW t \in Threads, CommitRebuild(t)
  PROVE  LET b == txn[t]
             view == IF b.learning \in b.hits /\ b.plan # Reject THEN b.plan ELSE b.held
             r == IF b.learning = 0 THEN Idle ELSE Rebuilt(b.entity, b.source, b.learning, view)
         IN  /\ b \in Rebuild /\ b.step = "aimed"
             /\ Inserted(b) \/ Rewritten(b) \/ Rejected(b)
             /\ RowsStay /\ RowsOK(change', lastId')
             /\ lastId' \in 0 .. MaxChanges /\ announced' \subseteq Used'
             /\ txn' = [txn EXCEPT ![t] = r] /\ r \in Session
  <1> DEFINE b == txn[t]
             view == IF b.learning \in b.hits /\ b.plan # Reject THEN b.plan ELSE b.held
             r == IF b.learning = 0 THEN Idle ELSE Rebuilt(b.entity, b.source, b.learning, view)
  <1>1. b \in Session /\ b.kind = "rebuild" /\ b.step = "aimed" /\ SessionFits(b)
    BY DEF TypeInv, TypeOK, CommitRebuild
  <1>2. b \in Rebuild
    BY <1>1, SessionKinds
  <1>3. \A c \in b.hits : c \in Used
    BY <1>1 DEF SessionFits, About
  <1>4. InsertProposal(b) \/ RewriteProposal(b) \/ RejectProposals(b)
    BY DEF CommitRebuild
  <1>5. txn' = [txn EXCEPT ![t] = r]
    BY DEF CommitRebuild, Ends
  <1> HIDE DEF b
  <1>6. r \in Session
    BY <1>2, IdleType, RebuiltType, RebuildFields
  <1>7. /\ Inserted(b) \/ Rewritten(b) \/ Rejected(b)
        /\ RowsStay /\ RowsOK(change', lastId')
        /\ lastId' \in 0 .. MaxChanges /\ announced' \subseteq Used'
    BY <1>2, <1>3, <1>4, InsertRows, RewriteRows, RejectionRows
  <1> QED  BY <1>1, <1>2, <1>5, <1>6, <1>7 DEF b

LEMMA CommitRebuildTyped ==
  ASSUME TypeInv, NEW t \in Threads, CommitRebuild(t)
  PROVE  TypeInv'
  <1> DEFINE b == txn[t]
             view == IF b.learning \in b.hits /\ b.plan # Reject THEN b.plan ELSE b.held
             r == IF b.learning = 0 THEN Idle ELSE Rebuilt(b.entity, b.source, b.learning, view)
  <1>1. /\ b \in Rebuild /\ b.step = "aimed"
        /\ RowsStay /\ RowsOK(change', lastId')
        /\ lastId' \in 0 .. MaxChanges /\ announced' \subseteq Used'
        /\ txn' = [txn EXCEPT ![t] = r] /\ r \in Session
    BY RebuildCommits
  <1>2. TypeOK /\ SessionFits(b)
    BY DEF TypeInv
  <1>3. b.row \in Content /\ b.entity \in Entities /\ b.source \in Sources /\ b.kind = "rebuild"
    BY <1>1, RebuildFields
  <1>4. /\ obs' \in [Entities -> [Sources -> Content]]
        /\ refs' \in [Entities -> SUBSET Sources]
        /\ owed' \subseteq Entities
    <2>1. CASE b.write = "none"
      BY <1>2, <2>1 DEF CommitRebuild, TypeOK
    <2>2. CASE b.write # "none"
      <3>1. /\ obs' = [obs EXCEPT ![b.entity][b.source] = b.row]
            /\ refs' = [refs EXCEPT ![b.entity] = IF b.kept THEN @ \cup {b.source} ELSE @ \ {b.source}]
            /\ owed' = owed \cup {b.entity}
        BY <2>2 DEF CommitRebuild
      <3> HIDE DEF b
      <3>2. obs' \in [Entities -> [Sources -> Content]]
        BY <1>2, <1>3, <3>1 DEF TypeOK
      <3>3. refs' \in [Entities -> SUBSET Sources]
        BY <1>2, <1>3, <3>1 DEF TypeOK
      <3> QED  BY <1>2, <1>3, <3>1, <3>2, <3>3 DEF TypeOK
    <2> QED  BY <2>1, <2>2
  <1>5. txn' \in [Threads -> Session]
    BY <1>1, <1>2 DEF TypeOK
  <1>6. UNCHANGED <<feeds, entity, verdict, ledger, raced>>
    BY DEF CommitRebuild
  <1>7. TypeOK'
    <2> HIDE DEF b, r
    <2> QED  BY <1>1, <1>2, <1>4, <1>5, <1>6 DEF TypeOK, RowsOK
  <1>8. SessionFits(r)
    <2>1. CASE b.learning = 0
      BY <2>1, IdleFits
    <2>2. CASE b.learning # 0
      <3>1. About(b.learning, b.entity) /\ view # Reject
        BY <1>2, <1>3, <2>2 DEF SessionFits
      <3> HIDE DEF b, view
      <3> QED  BY <2>2, <3>1 DEF SessionFits, Rebuilt
    <2> QED  BY <2>1, <2>2
  <1> HIDE DEF r
  <1>9. ASSUME NEW u \in Threads  PROVE SessionFits(txn[u])'
    <2>1. CASE u = t
      BY <1>1, <1>2, <1>8, <2>1, FitsAfter DEF TypeOK
    <2>2. CASE u # t
      BY <1>1, <1>2, <2>2, FitsStays DEF TypeOK
    <2> QED  BY <2>1, <2>2
  <1> QED  BY <1>7, <1>9 DEF TypeInv

\* An approval commits: its change is approved, and the event is written where it
\* differs from the copy that was read.
LEMMA ApprovalCommits ==
  ASSUME TypeInv, NEW t \in Threads, CommitApproval(t)
  PROVE  LET b == txn[t]  e == b.entity  c == b.change  new == Applied(b.copy, b.says)
         IN  /\ b \in Decide /\ c \in Used /\ change[c].entity = e /\ e \in Entities
             /\ new \in Row
             /\ RowsStay /\ RowsOK(change', lastId') /\ lastId' = lastId
             /\ change'[c].status = "APPROVED" /\ change'[c].entity = e
             /\ change'[c].says = change[c].says
             /\ \A d \in Ids : d # c => change'[d] = change[d]
             /\ entity' \in [Entities -> Row] /\ ledger' \in [Entities -> Row]
             /\ entity'[e] = WrittenRow(entity[e], b.copy, new)
             /\ ledger'[e] = Applied(ledger[e], b.says)
             /\ \A f \in Entities : f # e => entity'[f] = entity[f] /\ ledger'[f] = ledger[f]
             /\ verdict' \in [Ids -> Seq({"approve", "reject"})]
             /\ verdict'[c] = Append(verdict[c], "approve")
             /\ \A d \in Ids : d # c => verdict'[d] = verdict[d]
             /\ txn' = [txn EXCEPT ![t] = Idle]
  <1> DEFINE b == txn[t]  e == b.entity  c == b.change  new == Applied(b.copy, b.says)
  <1>1. TypeOK /\ b \in Session /\ b.kind = "decide" /\ SessionFits(b)
    BY DEF TypeInv, TypeOK, CommitApproval
  <1>2. b \in Decide
    BY <1>1, SessionKinds
  <1>3. c \in Used /\ change[c].entity = e
    BY <1>1 DEF SessionFits, About
  <1>4. e \in Entities /\ c \in Ids /\ b.says \in Says /\ b.copy \in Row
    BY <1>2 DEF Decide
  <1>5. /\ entity' = [entity EXCEPT ![e] = WrittenRow(entity[e], b.copy, new)]
        /\ ledger' = [ledger EXCEPT ![e] = Applied(ledger[e], b.says)]
        /\ change' = [change EXCEPT ![c].status = "APPROVED"]
        /\ verdict' = [verdict EXCEPT ![c] = Append(@, "approve")]
        /\ txn' = [txn EXCEPT ![t] = Idle] /\ lastId' = lastId
    BY <1>1, <1>4 DEF CommitApproval, Ends, TypeOK
  <1> HIDE DEF c, e
  <1>6. new \in Row /\ Applied(ledger[e], b.says) \in Row /\ entity[e] \in Row
    BY <1>1, <1>4, AppliedType DEF TypeOK
  <1> HIDE DEF b, new
  <1>7. WrittenRow(entity[e], b.copy, new) \in Row
    BY <1>4, <1>6, WrittenRowType
  <1>8. /\ entity' \in [Entities -> Row] /\ ledger' \in [Entities -> Row]
        /\ entity'[e] = WrittenRow(entity[e], b.copy, new)
        /\ ledger'[e] = Applied(ledger[e], b.says)
        /\ \A f \in Entities : f # e => entity'[f] = entity[f] /\ ledger'[f] = ledger[f]
    BY <1>1, <1>4, <1>5, <1>6, <1>7 DEF TypeOK
  <1>9. /\ RowsOK(change', lastId)
        /\ \A d \in Ids : d # c => change'[d] = change[d]
        /\ change'[c].status = "APPROVED" /\ change'[c].entity = change[c].entity
        /\ change'[c].says = change[c].says
    BY <1>1, <1>3, <1>5, StatusSet
  <1>10. RowsStay
    BY <1>1, <1>5, <1>9, UsedChange DEF RowsStay, Used
  <1>11. /\ verdict' \in [Ids -> Seq({"approve", "reject"})]
         /\ verdict'[c] = Append(verdict[c], "approve")
         /\ \A d \in Ids : d # c => verdict'[d] = verdict[d]
    BY <1>1, <1>4, <1>5, VerdictType
  <1> QED  BY <1>2, <1>3, <1>4, <1>5, <1>6, <1>8, <1>9, <1>10, <1>11 DEF b, c, e, new

LEMMA CommitApprovalTyped ==
  ASSUME TypeInv, NEW t \in Threads, CommitApproval(t)
  PROVE  TypeInv'
  <1>1. /\ RowsStay /\ RowsOK(change', lastId') /\ lastId' = lastId
        /\ entity' \in [Entities -> Row] /\ ledger' \in [Entities -> Row]
        /\ verdict' \in [Ids -> Seq({"approve", "reject"})]
        /\ txn' = [txn EXCEPT ![t] = Idle]
    BY ApprovalCommits
  <1>2. TypeOK
    BY DEF TypeInv
  <1>3. owed' \subseteq Entities /\ UNCHANGED <<observed, lastId, announced, raced>>
    BY <1>2 DEF CommitApproval, TypeOK
  <1>4. txn' \in [Threads -> Session]
    BY <1>1, <1>2, IdleType DEF TypeOK
  <1>5. TypeOK'
    BY <1>1, <1>2, <1>3, <1>4 DEF TypeOK, RowsOK, observed, Used
  <1>6. ASSUME NEW u \in Threads  PROVE SessionFits(txn[u])'
    <2>1. CASE u = t
      BY <1>1, <1>2, <2>1, IdleFits, FitsAfter DEF TypeOK
    <2>2. CASE u # t
      BY <1>1, <1>2, <2>2, FitsStays DEF TypeOK
    <2> QED  BY <2>1, <2>2
  <1> QED  BY <1>5, <1>6 DEF TypeInv

\* What an edit makes of a row: it is applied, and the row has the user's support.
Edited(row, says) == [Applied(row, says) EXCEPT !.manual = TRUE]

LEMMA EditedType ==
  ASSUME NEW row \in Row, NEW says \in Says
  PROVE  /\ Edited(row, says) \in Row
         /\ Edited(row, says).life = Applied(row, says).life
         /\ Edited(row, says).content = Applied(row, says).content
         /\ Edited(row, says).manual = TRUE
  <1>1. Applied(row, says) \in Row
    BY AppliedType
  <1> QED  BY <1>1 DEF Edited, Row

\* An edit commits: a change that is approved from the start is added, and the
\* pending ones of the event are rejected.
LEMMA EditCommits ==
  ASSUME TypeInv, NEW t \in Threads, CommitEdit(t)
  PROVE  LET b == txn[t]  e == b.entity  n == lastId + 1
         IN  /\ b \in Edit /\ e \in Entities
             /\ n \in Ids /\ n \notin Used /\ lastId' = n /\ Used' = Used \cup {n}
             /\ RowsStay /\ RowsOK(change', n) /\ n \in 0 .. MaxChanges
             /\ change'[n].status = "APPROVED" /\ change'[n].entity = e
             /\ \A d \in Pending(e) : /\ change'[d].status = "REJECTED" /\ change'[d].entity = e
                                      /\ change'[d].says = change[d].says
             /\ \A d \in Ids : d # n /\ d \notin Pending(e) => change'[d] = change[d]
             /\ entity' \in [Entities -> Row] /\ ledger' \in [Entities -> Row]
             /\ entity'[e] = IF b.copy = NoRow THEN Edited(entity[e], b.says)
                             ELSE WrittenRow(entity[e], b.copy, Edited(b.copy, b.says))
             /\ ledger'[e] = Edited(ledger[e], b.says)
             /\ \A f \in Entities : f # e => entity'[f] = entity[f] /\ ledger'[f] = ledger[f]
             /\ verdict' \in [Ids -> Seq({"approve", "reject"})]
             /\ verdict'[n] = Append(verdict[n], "approve")
             /\ \A d \in Ids : d # n => verdict'[d] = verdict[d]
             /\ txn' = [txn EXCEPT ![t] = Idle]
  <1> DEFINE b == txn[t]  e == b.entity  n == lastId + 1
             wrote == IF b.copy = NoRow THEN Edited(entity[e], b.says)
                      ELSE WrittenRow(entity[e], b.copy, Edited(b.copy, b.says))
             ch == [c \in Ids |->
               IF c = n
               THEN [entity |-> e, says |-> b.says, status |-> "APPROVED", origin |-> "manual"]
               ELSE IF c \in Pending(e) THEN [change[c] EXCEPT !.status = "REJECTED"]
               ELSE change[c]]
  <1>1. TypeOK /\ b \in Session /\ b.kind = "edit"
    BY DEF TypeInv, TypeOK, CommitEdit
  <1>2. b \in Edit
    BY <1>1, SessionKinds
  <1>3. e \in Entities /\ b.says \in Says /\ b.copy \in Row
    BY <1>2 DEF Edit
  <1>4. /\ lastId < MaxChanges /\ lastId' = n
        /\ entity' = [entity EXCEPT ![e] = wrote]
        /\ ledger' = [ledger EXCEPT ![e] = Edited(ledger[e], b.says)]
        /\ change' = ch
        /\ verdict' = [verdict EXCEPT ![n] = Append(@, "approve")]
        /\ txn' = [txn EXCEPT ![t] = Idle]
    BY <1>1, <1>3 DEF CommitEdit, Ends, TypeOK, Edited
  <1>5. /\ n \in Ids /\ n \notin Used /\ n \in 0 .. MaxChanges
        /\ 1 .. n = Used \cup {n}
        /\ \A d \in Ids : d # n => (d > lastId <=> d > n)
        /\ ~ (n > n)
    BY <1>1, <1>4, MaxChangesAssumption DEF TypeOK, Used, Ids
  <1>6. Used' = Used \cup {n}
    BY <1>4, <1>5 DEF Used
  <1>7. Pending(e) \subseteq Used /\ Pending(e) \subseteq Ids
    BY <1>1, PendingUsed
  <1> HIDE DEF b, wrote
  <1>8. wrote \in Row /\ Edited(ledger[e], b.says) \in Row
    BY <1>1, <1>3, EditedType, WrittenRowType DEF wrote, TypeOK
  <1>9. /\ entity' \in [Entities -> Row] /\ ledger' \in [Entities -> Row]
        /\ entity'[e] = wrote /\ ledger'[e] = Edited(ledger[e], b.says)
        /\ \A f \in Entities : f # e => entity'[f] = entity[f] /\ ledger'[f] = ledger[f]
    BY <1>1, <1>3, <1>4, <1>8 DEF TypeOK
  <1>10. /\ ch[n] = [entity |-> e, says |-> b.says, status |-> "APPROVED", origin |-> "manual"]
         /\ \A d \in Pending(e) : ch[d] = [change[d] EXCEPT !.status = "REJECTED"]
         /\ \A d \in Ids : d # n /\ d \notin Pending(e) => ch[d] = change[d]
    BY <1>5, <1>7
  <1>11. ch[n] \in Change /\ ch[n] # NoChange /\ ch[n].status = "APPROVED" /\ ch[n].entity = e
    BY <1>3, <1>10 DEF Change, NoChange
  <1>12. ASSUME NEW d \in Pending(e)
         PROVE  /\ ch[d] \in Change /\ ch[d] # NoChange
                /\ ch[d].status = "REJECTED" /\ ch[d].entity = e /\ ch[d].says = change[d].says
    <2>1. d \in Used /\ change[d] \in Change /\ change[d].entity = e
      BY <1>1, <1>7, UsedChange DEF Pending
    <2>2. ch[d] = [change[d] EXCEPT !.status = "REJECTED"]
      BY <1>10
    <2>3. /\ ch[d] \in Change
          /\ ch[d].status = "REJECTED" /\ ch[d].entity = e /\ ch[d].says = change[d].says
      BY <2>1, <2>2 DEF Change
    <2> QED  BY <2>3 DEF NoChange
  <1>13. \A d \in Pending(e) : ~ (d > lastId)
    BY <1>1, <1>7, MaxChangesAssumption DEF TypeOK, Used
  <1>14. ch \in [Ids -> Change \cup {NoChange}]
    <2>1. \A d \in Ids : ch[d] \in Change \cup {NoChange}
      BY <1>1, <1>10, <1>11, <1>12 DEF TypeOK
    <2> QED  BY <2>1
  <1>15. \A d \in Ids : ch[d] = NoChange <=> d > n
    <2> HIDE DEF ch
    <2> QED  BY <1>1, <1>5, <1>10, <1>11, <1>12, <1>13 DEF TypeOK
  <1>16. RowsOK(ch, n)
    BY <1>14, <1>15 DEF RowsOK
  <1> HIDE DEF ch
  <1>17. RowsStay
    BY <1>1, <1>4, <1>5, <1>6, <1>7, <1>10, <1>12, UsedChange DEF RowsStay, Pending
  <1>18. /\ verdict' \in [Ids -> Seq({"approve", "reject"})]
         /\ verdict'[n] = Append(verdict[n], "approve")
         /\ \A d \in Ids : d # n => verdict'[d] = verdict[d]
    BY <1>1, <1>4, <1>5, VerdictType
  <1> QED  BY <1>2, <1>3, <1>4, <1>5, <1>6, <1>9, <1>10, <1>11, <1>12, <1>16, <1>17, <1>18
           DEF b, wrote

LEMMA CommitEditTyped ==
  ASSUME TypeInv, NEW t \in Threads, CommitEdit(t)
  PROVE  TypeInv'
  <1>1. /\ RowsStay /\ RowsOK(change', lastId + 1) /\ lastId' = lastId + 1
        /\ lastId + 1 \in 0 .. MaxChanges /\ Used' = Used \cup {lastId + 1}
        /\ entity' \in [Entities -> Row] /\ ledger' \in [Entities -> Row]
        /\ verdict' \in [Ids -> Seq({"approve", "reject"})]
        /\ txn' = [txn EXCEPT ![t] = Idle]
    BY EditCommits
  <1>2. TypeOK
    BY DEF TypeInv
  <1>3. owed' \subseteq Entities /\ UNCHANGED <<observed, announced, raced>>
    BY <1>2 DEF CommitEdit, TypeOK
  <1>4. txn' \in [Threads -> Session]
    BY <1>1, <1>2, IdleType DEF TypeOK
  <1>5. TypeOK'
    BY <1>1, <1>2, <1>3, <1>4 DEF TypeOK, RowsOK, observed
  <1>6. ASSUME NEW u \in Threads  PROVE SessionFits(txn[u])'
    <2>1. CASE u = t
      BY <1>1, <1>2, <2>1, IdleFits, FitsAfter DEF TypeOK
    <2>2. CASE u # t
      BY <1>1, <1>2, <2>2, FitsStays DEF TypeOK
    <2> QED  BY <2>1, <2>2
  <1> QED  BY <1>5, <1>6 DEF TypeInv

LEMMA ManualCreated ==
  ASSUME TypeOK, NEW e \in Entities, NEW p \in Payloads, CreateManualEvent(e, p)
  PROVE  LET n == lastId + 1  row == [life |-> "active", content |-> p, manual |-> TRUE]
         IN  /\ n \in Ids /\ n \notin Used /\ lastId' = n /\ Used' = Used \cup {n}
             /\ RowsStay /\ RowsOK(change', n) /\ n \in 0 .. MaxChanges
             /\ change'[n].status = "APPROVED" /\ change'[n].entity = e
             /\ \A d \in Ids : d # n => change'[d] = change[d]
             /\ entity' \in [Entities -> Row] /\ ledger' \in [Entities -> Row]
             /\ entity'[e] = row /\ ledger'[e] = row
             /\ \A f \in Entities : f # e => entity'[f] = entity[f] /\ ledger'[f] = ledger[f]
             /\ verdict' \in [Ids -> Seq({"approve", "reject"})]
             /\ verdict'[n] = Append(verdict[n], "approve")
             /\ \A d \in Ids : d # n => verdict'[d] = verdict[d]
  <1> DEFINE n == lastId + 1
             row == [life |-> "active", content |-> p, manual |-> TRUE]
             r == [entity |-> e, says |-> [type |-> "CREATED", after |-> p],
                   status |-> "APPROVED", origin |-> "manual"]
  <1>1. row \in Row
    BY DEF Row, Content
  <1>2. r \in Change /\ r.status = "APPROVED" /\ r.entity = e
    BY DEF Change, Says, Types, Content
  <1>3. /\ lastId < MaxChanges /\ lastId' = n
        /\ entity' = [entity EXCEPT ![e] = row] /\ ledger' = [ledger EXCEPT ![e] = row]
        /\ change' = [change EXCEPT ![n] = r]
        /\ verdict' = [verdict EXCEPT ![n] = Append(@, "approve")]
    BY DEF CreateManualEvent
  <1> HIDE DEF row, r
  <1>4. /\ n \in Ids /\ n \notin Used /\ n \in 0 .. MaxChanges
        /\ 1 .. n = Used \cup {n} /\ RowsOK(change', n)
        /\ change'[n] = r
        /\ \A d \in Ids : d # n => change'[d] = change[d]
    BY <1>2, <1>3, RowAdded
  <1>5. Used' = Used \cup {n}
    BY <1>3, <1>4 DEF Used
  <1>6. RowsStay
    BY <1>4, <1>5, UsedChange DEF RowsStay
  <1>7. /\ entity' \in [Entities -> Row] /\ ledger' \in [Entities -> Row]
        /\ entity'[e] = row /\ ledger'[e] = row
        /\ \A f \in Entities : f # e => entity'[f] = entity[f] /\ ledger'[f] = ledger[f]
    BY <1>1, <1>3 DEF TypeOK
  <1>8. /\ verdict' \in [Ids -> Seq({"approve", "reject"})]
        /\ verdict'[n] = Append(verdict[n], "approve")
        /\ \A d \in Ids : d # n => verdict'[d] = verdict[d]
    BY <1>3, <1>4, VerdictType
  <1> QED  BY <1>2, <1>3, <1>4, <1>5, <1>6, <1>7, <1>8 DEF row

LEMMA CreateTyped ==
  ASSUME TypeInv, NEW e \in Entities, NEW p \in Payloads, CreateManualEvent(e, p)
  PROVE  TypeInv'
  <1>1. TypeOK
    BY DEF TypeInv
  <1>2. /\ RowsStay /\ RowsOK(change', lastId + 1) /\ lastId' = lastId + 1
        /\ lastId + 1 \in 0 .. MaxChanges /\ Used' = Used \cup {lastId + 1}
        /\ entity' \in [Entities -> Row] /\ ledger' \in [Entities -> Row]
        /\ verdict' \in [Ids -> Seq({"approve", "reject"})]
    BY <1>1, ManualCreated
  <1>3. UNCHANGED <<observed, announced, txn, owed, raced>>
    BY DEF CreateManualEvent
  <1>4. TypeOK'
    BY <1>1, <1>2, <1>3 DEF TypeOK, RowsOK, observed
  <1> QED  BY <1>2, <1>3, <1>4, FitsStays DEF TypeInv

\* The other steps of a session.
LEMMA SessionTyped ==
  ASSUME TypeInv, NEW t \in Threads,
         \/ ReadPending(t) \/ PickRebuilt(t) \/ LockPicked(t) \/ Abort(t)
         \/ \E e \in Entities : DeleteEvent(t, e) \/ \E p \in Payloads : EditEvent(t, e, p)
         \/ \E c \in Ids : Approve(t, c) \/ \E s \in Sources : LearnKnownLabel(t, c, s)
         \/ \E e \in Entities, s \in Sources, p \in Payloads : ApplyDirective(t, e, s, p)
  PROVE  TypeInv'
  <1>1. TypeOK /\ SessionFits(txn[t])
    BY DEF TypeInv
  <1>2. CASE ReadPending(t)
    <2> DEFINE b == txn[t]
    <2>1. PICK r \in Rebuild :
                /\ b \in Rebuild /\ b.step = "planned" /\ r \in Session
                /\ OnlySession(t, r)
                /\ r.kind = "rebuild" /\ r.step = "aimed" /\ r.hits = Hits(b.entity, b.plan)
                /\ r.entity = b.entity /\ r.row = b.row /\ r.kept = b.kept
                /\ r.write = b.write /\ r.plan = b.plan
                /\ r.learning = b.learning /\ r.held = b.held
      BY <1>1, <1>2, RebuildAims
    <2>2. Hits(b.entity, b.plan) \subseteq Pending(b.entity)
      BY <1>1, HitsPending, PendingUsed
    <2>3. \A c \in r.hits : About(c, b.entity)
      BY <2>1, <2>2 DEF About, Pending
    <2>4. SessionFits(r)
      BY <1>1, <2>1, <2>3, RebuildFields DEF SessionFits
    <2> QED  BY <2>1, <2>4, OnlySessionFits
  <1>3. CASE PickRebuilt(t)
    <2> DEFINE b == txn[t]
    <2>1. b \in Rebuild /\ b.step = "rebuilt"
      BY <1>1, <1>3, LearningPicks
    <2>2. CASE OnlySession(t, Idle)
      BY <2>2, IdleFits, IdleType, OnlySessionFits
    <2>3. ASSUME NEW c \in Pending(b.entity), NEW says \in Plan,
                 says = IF c = b.learning THEN b.held ELSE change[c].says,
                 OnlySession(t, Learning(b.entity, c, says)),
                 says \in Says => Learning(b.entity, c, says) \in Session
          PROVE  TypeInv'
      <3>1. c \in Used /\ c \in Ids /\ c # 0 /\ change[c].entity = b.entity
        BY <1>1, PendingUsed, MaxChangesAssumption DEF Pending, Ids
      <3>2. says # Reject
        BY <1>1, <2>1, <2>3, <3>1, UsedChange, NotReject, RebuildFields DEF SessionFits
      <3>3. Learning(b.entity, c, says) \in Session
        BY <2>3, <3>2 DEF Plan
      <3>4. SessionFits(Learning(b.entity, c, says))
        BY <3>1 DEF SessionFits, Learning, About
      <3> QED  BY <2>3, <3>3, <3>4, OnlySessionFits
    <2> QED  BY <1>1, <1>3, <2>2, <2>3, LearningPicks
  <1>4. CASE LockPicked(t)
    <2> DEFINE b == txn[t]
               r == Deciding(b.entity, b.change, b.says, entity[b.entity])
    <2>1. b \in Learn /\ OnlySession(t, r) /\ r \in Session
      BY <1>1, <1>4, LearningLocks
    <2>2. About(b.change, b.entity)
      BY <1>1, <2>1 DEF SessionFits, Learn
    <2>3. SessionFits(r)
      BY <2>2 DEF SessionFits, Deciding
    <2> HIDE DEF r
    <2> QED  BY <2>1, <2>3, OnlySessionFits
  <1>5. CASE Abort(t)
    BY <1>1, <1>5, SessionAborts, IdleFits, IdleType, OnlySessionFits
  <1>6. ASSUME NEW e \in Entities, DeleteEvent(t, e) \/ \E p \in Payloads : EditEvent(t, e, p)
        PROVE  TypeInv'
    <2>1. PICK says \in Says : /\ OnlySession(t, Editing(e, says, entity[e]))
                               /\ Editing(e, says, entity[e]) \in Session
                               /\ Complete(says)
                               /\ says.type = "REMOVED" => entity[e].life = "active"
      BY <1>1, <1>6, EditStarts
    <2>2. SessionFits(Editing(e, says, entity[e]))
      BY <2>1 DEF SessionFits, Editing
    <2> QED  BY <2>1, <2>2, OnlySessionFits
  <1>7. ASSUME NEW c \in Ids, Approve(t, c)
        PROVE  TypeInv'
    <2> DEFINE e == change[c].entity
               r == Deciding(e, c, change[c].says, entity[e])
    <2>1. c \in Used /\ OnlySession(t, r) /\ r \in Session
      BY <1>1, <1>7, ApprovalStarts
    <2>2. SessionFits(r)
      BY <2>1 DEF SessionFits, Deciding, About
    <2> HIDE DEF r
    <2> QED  BY <2>1, <2>2, OnlySessionFits
  <1>8. ASSUME NEW c \in Ids, NEW s \in Sources, LearnKnownLabel(t, c, s)
        PROVE  TypeInv'
    <2> DEFINE e == change[c].entity
               r == Rebuilt(e, s, c, change[c].says)
    <2>1. c \in Used /\ OnlySession(t, r) /\ r \in Session
      BY <1>1, <1>8, LearningStarts
    <2>2. change[c].says # Reject
      BY <1>1, <2>1, UsedChange, NotReject
    <2>3. SessionFits(r)
      BY <2>1, <2>2 DEF SessionFits, Rebuilt, About
    <2> HIDE DEF r
    <2> QED  BY <2>1, <2>3, OnlySessionFits
  <1>9. ASSUME NEW e \in Entities, NEW s \in Sources, NEW p \in Payloads, ApplyDirective(t, e, s, p)
        PROVE  TypeInv'
    <2> DEFINE plan == [type |-> "DUE_CHANGED", after |-> p]
               r == Planned(e, s, Nothing, TRUE, "none", plan, 0, Reject)
    <2>1. OnlySession(t, r) /\ r \in Session
      BY <1>1, <1>9, DirectiveStarts
    <2>2. plan # Reject /\ Complete(plan)
      BY NothingAssumption DEF Reject, Complete
    <2> HIDE DEF plan
    <2>3. SessionFits(r)
      BY <2>2, PlannedFits
    <2> HIDE DEF r
    <2> QED  BY <2>1, <2>3, OnlySessionFits
  <1> QED  BY <1>2, <1>3, <1>4, <1>5, <1>6, <1>7, <1>8, <1>9

LEMMA TypeInvInit == Init => TypeInv
  <1> SUFFICES ASSUME Init  PROVE TypeInv
    OBVIOUS
  <1>1. \A c \in Ids : c > 0
    BY MaxChangesAssumption DEF Ids
  <1>2. TypeOK
    BY <1>1, NoRowType, MaxChangesAssumption, MaxFeedsAssumption
       DEF Init, TypeOK, Session, Content, Used, Ids
  <1>3. ASSUME NEW t \in Threads  PROVE SessionFits(txn[t])
    <2>1. txn[t] = Idle
      BY DEF Init
    <2> QED  BY <2>1, IdleFits
  <1> QED  BY <1>2, <1>3 DEF TypeInv

LEMMA TypeInvNext == TypeInv /\ [Next]_vars => TypeInv'
  <1> SUFFICES ASSUME TypeInv, [Next]_vars  PROVE TypeInv'
    OBVIOUS
  <1>1. ASSUME NEW t \in Threads, NEW e \in Entities, NEW s \in Sources, NEW p \in Payloads,
               Observe(t, e, s, p) \/ RebuildUserWorkItemState(t, e, s, p)
        PROVE  TypeInv'
    <2>1. p \in Content
      BY DEF Content
    <2> QED  BY <1>1, <2>1, RebuildTyped DEF Observe, RebuildUserWorkItemState
  <1>2. ASSUME NEW t \in Threads, NEW c \in Ids, NEW s \in Sources, NEW p \in Payloads,
               LearnLabel(t, c, s, p)
        PROVE  TypeInv'
    <2>1. p \in Content
      BY DEF Content
    <2>2. c \in Used /\ RebuildBegins(t, change[c].entity, s, p, TRUE, "late", c)
      BY <1>2 DEF LearnLabel
    <2>3. change[c].entity \in Entities
      BY <2>2, UsedChange DEF TypeInv
    <2> QED  BY <2>1, <2>2, <2>3, RebuildTyped
  <1>3. ASSUME NEW t \in Threads, NEW e \in Entities, NEW s \in Sources,
               Vanish(t, e, s) \/ Rescope(t, e, s)
        PROVE  TypeInv'
    <2>1. Nothing \in Content
      BY DEF Content
    <2> QED  BY <1>3, <2>1, RebuildTyped DEF Vanish, Rescope
  <1>4. ASSUME NEW t \in Threads, Feed(t)  PROVE TypeInv'
    BY <1>1, <1>3, <1>4, RetireTyped, SessionTyped DEF Feed
  <1>5. ASSUME NEW t \in Threads, Decision(t)  PROVE TypeInv'
    BY <1>2, <1>5, RejectTyped, EditProposalTyped, KeepTyped, CreateTyped, SessionTyped DEF Decision
  <1>6. ASSUME NEW t \in Threads, Goes(t)  PROVE TypeInv'
    BY <1>6, CommitRebuildTyped, CommitApprovalTyped, CommitEditTyped, SessionTyped DEF Goes
  <1>7. CASE UNCHANGED vars
    BY <1>7 DEF vars, TypeInv, TypeOK, SessionFits, About, Used
  <1> QED  BY <1>4, <1>5, <1>6, <1>7 DEF Next

\* Rows, sessions and histories keep the shape the code gives them, whatever overlaps:
\* no commit writes to a change that is not there.
THEOREM TypeCorrect == Spec => []TypeOK
  <1>1. TypeInv => TypeOK
    BY DEF TypeInv
  <1> QED  BY <1>1, TypeInvInit, TypeInvNext, PTL DEF Spec

-----------------------------------------------------------------------------
(* Decisions are final, whatever overlaps them.                            *)

\* No step sets a change that was decided to PENDING.
LEMMA NotReopened ==
  ASSUME TypeInv, Next, NEW c \in Used, change[c].status # "PENDING"
  PROVE  change'[c].status # "PENDING"
  <1>1. TypeOK /\ c \in Ids
    BY UsedChange DEF TypeInv
  <1>2. CASE UNCHANGED change
    BY <1>2
  <1>3. ASSUME NEW d \in Ids, RejectChange(d)  PROVE change'[c].status # "PENDING"
    BY <1>1, <1>3, RejectRows
  <1>4. ASSUME NEW d \in Ids, NEW p \in Payloads, EditProposal(d, p)
        PROVE  change'[c].status # "PENDING"
    BY <1>1, <1>4, EditRows
  <1>5. ASSUME NEW e \in Entities, NEW p \in Payloads, CreateManualEvent(e, p)
        PROVE  change'[c].status # "PENDING"
    BY <1>1, <1>5, ManualCreated
  <1>6. ASSUME NEW t \in Threads, CommitRebuild(t)  PROVE change'[c].status # "PENDING"
    <2>1. Inserted(txn[t]) \/ Rewritten(txn[t]) \/ Rejected(txn[t])
      BY <1>6, RebuildCommits
    <2>2. CASE Inserted(txn[t])
      BY <1>1, <2>2 DEF Inserted
    <2>3. CASE Rewritten(txn[t])
      BY <1>1, <2>3 DEF Rewritten
    <2>4. CASE Rejected(txn[t])
      BY <1>1, <2>4 DEF Rejected
    <2> QED  BY <2>1, <2>2, <2>3, <2>4
  <1>7. ASSUME NEW t \in Threads, CommitApproval(t)  PROVE change'[c].status # "PENDING"
    BY <1>1, <1>7, ApprovalCommits
  <1>8. ASSUME NEW t \in Threads, CommitEdit(t)  PROVE change'[c].status # "PENDING"
    <2> DEFINE e == txn[t].entity
    <2>1. /\ lastId + 1 \notin Used
          /\ \A d \in Pending(e) : change'[d].status = "REJECTED"
          /\ \A d \in Ids : d # lastId + 1 /\ d \notin Pending(e) => change'[d] = change[d]
      BY <1>8, EditCommits
    <2> QED  BY <1>1, <2>1
  <1>9. ASSUME NEW t \in Threads, Feed(t)  PROVE change' = change
    <2>1. ASSUME NEW e, NEW s, NEW row, NEW kept, NEW write, NEW learning,
                 RebuildBegins(t, e, s, row, kept, write, learning)
          PROVE  change' = change
      BY <2>1 DEF RebuildBegins, reviewed
    <2>2. ASSUME NEW e, NEW s, NEW p, RetireObservation(e, s) \/ ApplyDirective(t, e, s, p)
          PROVE  change' = change
      BY <2>2 DEF RetireObservation, ApplyDirective, reviewed
    <2> QED  BY <1>9, <2>1, <2>2 DEF Feed, Vanish, Rescope, Observe, RebuildUserWorkItemState
  <1>10. ASSUME NEW t \in Threads, Decision(t)  PROVE change'[c].status # "PENDING"
    BY <1>2, <1>3, <1>4, <1>5, <1>10 DEF Decision, Approve, LearnKnownLabel, LearnLabel,
       RebuildBegins, DeleteEvent, KeepEvent, EditEvent, reviewed
  <1>11. ASSUME NEW t \in Threads, Goes(t)  PROVE change'[c].status # "PENDING"
    BY <1>2, <1>6, <1>7, <1>8, <1>11 DEF Goes, ReadPending, PickRebuilt, LockPicked, Abort, reviewed
  <1> QED  BY <1>9, <1>10, <1>11 DEF Next

\* Whatever overlaps, a change that was decided never waits for a decision again.
THEOREM DecidedStaysDecided == Spec => NeverReopened
  <1>1. TypeInv /\ [Next]_vars =>
           [\A c \in Used : change[c].status # "PENDING" => change'[c].status # "PENDING"]_vars
    BY NotReopened
  <1> QED  BY <1>1, TypeInvInit, TypeInvNext, PTL DEF Spec, NeverReopened

-----------------------------------------------------------------------------
(* What holds of the events that no transaction without locks overlapped   *)
(* another one on: the inductive invariant.                                *)

\* The row of an observation that is active is there.
RowsKept == \A e \in Entities : \A s \in Sources : obs[e][s] # Nothing => s \in refs[e]

\* No decision was recorded for a change that is still to come.
Unissued == \A c \in Ids : c \notin Used => verdict[c] = <<>>

\* The row that an edit holds is the one it read.
EditsHold == \A t \in Threads : txn[t].kind = "edit" /\ txn[t].copy # NoRow
                 => entity[txn[t].entity] = txn[t].copy

\* No two sessions hold the lock of a change, or of an event.
LocksExclude == \A t, u \in Threads : t # u =>
    /\ txn[t].kind = "decide" /\ txn[u].kind = "decide" => txn[t].change # txn[u].change
    /\ \A e \in Entities : ~ (HoldsRow(t, e) /\ HoldsRow(u, e))

\* Who works on an event without locks works on it alone, or the event is raced.
Alone == \A t, u \in Threads : t # u => \A e \in Entities :
    On(t, e) /\ On(u, e) /\ e \notin raced => txn[t].kind \notin Unlocked

\* A rebuild that is alone has a plan that fits the event and the observations it
\* leaves, and has read what the rows say.
RebuildSees(b) ==
    /\ b.step # "rebuilt" /\ b.plan # Reject =>
          (b.plan.type = "CREATED" <=> entity[b.entity].life # "active")
    /\ b.step # "rebuilt" /\ b.write # "none" =>
          b.plan \in Plans(entity[b.entity], ObsAfter(b.entity, b.source, b.row),
                           RefsAfter(b.entity, b.source, b.kept))
    /\ b.step = "aimed" => b.hits = Pending(b.entity)
    /\ b.step = "aimed" /\ b.plan # Reject => \A c \in b.hits : b.seen = change[c].says
    /\ b.learning # 0 => b.held = change[b.learning].says

\* A decision that meets no rebuild holds a pending change, and what it read of the
\* event is still so.
DecisionSees(b) ==
    /\ change[b.change].status = "PENDING" /\ b.says = change[b.change].says
    /\ b.kind = "decide" => /\ b.copy.life = entity[b.entity].life
                            /\ b.copy.content = entity[b.entity].content

SessionSees(b) ==
    /\ b.kind = "rebuild" => RebuildSees(b)
    /\ b.kind \in {"learn", "decide"} => DecisionSees(b)

SessionsSee == \A t \in Threads :
    txn[t] # Idle /\ txn[t].entity \notin raced => SessionSees(txn[t])

\* The decision events of change c are those of its status.
VerdictFits(c) ==
    /\ change[c].status = "PENDING" => verdict[c] = <<>>
    /\ change[c].status = "APPROVED" => verdict[c] = <<"approve">>
    /\ change[c].status = "REJECTED" => verdict[c] \in {<<>>, <<"reject">>}

EventFits(e) ==
    /\ entity[e] = ledger[e]
    /\ \A c, d \in Pending(e) : c = d
    /\ \A c \in Pending(e) : change[c].says.type = "CREATED" <=> entity[e].life # "active"
    /\ \A c \in Pending(e) : Complete(change[c].says)
    /\ e \in owed => Reject \in Plans(entity[e], obs[e], refs[e]) \/ Pending(e) # {}
    /\ \A c \in Used : change[c].entity = e => VerdictFits(c)

EventsFit == \A e \in Entities : e \notin raced => EventFits(e)

Locks == EditsHold /\ LocksExclude /\ Alone

IInv == TypeInv /\ RowsKept /\ Unissued /\ Locks /\ SessionsSee /\ EventsFit

\* The invariant says what the properties say.
LEMMA Consequences ==
  ASSUME IInv
  PROVE  StateFromApprovals /\ OneFittingProposal /\ VerdictMatches /\ NoSilentDrift
  <1>1. StateFromApprovals /\ OneFittingProposal
    BY DEF IInv, EventsFit, EventFits, StateFromApprovals, OneFittingProposal
  <1>2. VerdictMatches
    <2>1. ASSUME NEW c \in Used, change[c].entity \notin raced
          PROVE  VerdictFits(c) /\ change[c].status \in {"PENDING", "APPROVED", "REJECTED"}
      BY <2>1, UsedChange DEF IInv, TypeInv, EventsFit, EventFits
    <2> QED  BY <2>1 DEF VerdictMatches, VerdictFits
  <1>3. NoSilentDrift
    BY DEF IInv, TypeInv, TypeOK, EventsFit, EventFits, NoSilentDrift
  <1> QED  BY <1>1, <1>2, <1>3

LEMMA IInvInit == Init => IInv
  <1> SUFFICES ASSUME Init  PROVE IInv
    OBVIOUS
  <1>1. TypeInv
    BY TypeInvInit
  <1>2. /\ \A t \in Threads : txn[t] = Idle /\ txn[t].kind = "idle"
        /\ Used = {}
    BY DEF Init, Used, Idle
  <1>3. Locks
    BY <1>2 DEF Locks, EditsHold, LocksExclude, HoldsRow, Alone, On
  <1>4. SessionsSee
    BY <1>2 DEF SessionsSee
  <1>5. EventsFit
    BY <1>2 DEF Init, EventsFit, EventFits, Pending
  <1>6. RowsKept /\ Unissued
    BY DEF Init, RowsKept, Unissued
  <1> QED  BY <1>1, <1>3, <1>4, <1>5, <1>6 DEF IInv

-----------------------------------------------------------------------------
(* Steps of a session that change no row preserve the invariant when what  *)
(* the session holds afterwards is as the invariant has it.                *)

\* Session t may go on as r beside the others.
MayGoOn(t, r) ==
    /\ SessionFits(r)
    /\ r.kind = "decide" => \A u \in Threads \ {t} :
                               ~ (txn[u].kind = "decide" /\ txn[u].change = r.change)
    /\ r.kind = "edit" /\ r.copy # NoRow =>
          /\ entity[r.entity] = r.copy
          /\ \A u \in Threads \ {t} : ~ HoldsRow(u, r.entity)
    /\ r # Idle => \A u \in Threads \ {t} : On(u, r.entity) /\ r.entity \notin raced'
                      => r.kind \notin Unlocked /\ txn[u].kind \notin Unlocked
    /\ r # Idle /\ r.entity \notin raced' => SessionSees(r)

LEMMA OnlySessionLocks ==
  ASSUME IInv, NEW t \in Threads, NEW r \in Session, OnlySession(t, r), MayGoOn(t, r)
  PROVE  Locks'
  <1>1. /\ txn'[t] = r /\ \A u \in Threads : u # t => txn'[u] = txn[u]
        /\ entity' = entity /\ raced \subseteq raced'
    BY DEF OnlySession, IInv, TypeInv, TypeOK
  <1>2. EditsHold'
    BY <1>1 DEF EditsHold, MayGoOn, IInv, Locks
  <1>3. LocksExclude'
    <2> SUFFICES ASSUME NEW u \in Threads, NEW v \in Threads, u # v
                 PROVE  /\ txn'[u].kind = "decide" /\ txn'[v].kind = "decide"
                              => txn'[u].change # txn'[v].change
                        /\ \A e \in Entities : ~ (HoldsRow(u, e)' /\ HoldsRow(v, e)')
      BY DEF LocksExclude
    <2>1. CASE u = t
      BY <1>1, <2>1 DEF MayGoOn, HoldsRow
    <2>2. CASE v = t
      BY <1>1, <2>2 DEF MayGoOn, HoldsRow
    <2>3. CASE u # t /\ v # t
      BY <1>1, <2>3 DEF LocksExclude, HoldsRow, IInv, Locks
    <2> QED  BY <2>1, <2>2, <2>3
  <1>4. Alone'
    <2> SUFFICES ASSUME NEW u \in Threads, NEW v \in Threads, u # v, NEW e \in Entities,
                        On(u, e)', On(v, e)', e \notin raced'
                 PROVE  txn'[u].kind \notin Unlocked
      BY DEF Alone, Unlocked
    <2>1. CASE u = t
      BY <1>1, <2>1 DEF MayGoOn, On
    <2>2. CASE v = t
      BY <1>1, <2>2 DEF MayGoOn, On
    <2>3. CASE u # t /\ v # t
      BY <1>1, <2>3 DEF Alone, On, IInv, Locks
    <2> QED  BY <2>1, <2>2, <2>3
  <1> QED  BY <1>2, <1>3, <1>4 DEF Locks

LEMMA OnlySessionSees ==
  ASSUME IInv, NEW t \in Threads, NEW r \in Session, OnlySession(t, r), MayGoOn(t, r)
  PROVE  SessionsSee'
  <1>1. /\ txn'[t] = r /\ \A u \in Threads : u # t => txn'[u] = txn[u]
        /\ raced \subseteq raced'
        /\ entity' = entity /\ obs' = obs /\ refs' = refs /\ change' = change /\ lastId' = lastId
    BY DEF OnlySession, IInv, TypeInv, TypeOK, reviewed
  <1> SUFFICES ASSUME NEW u \in Threads, txn'[u] # Idle, txn'[u].entity \notin raced'
               PROVE  SessionSees(txn[u])'
    BY DEF SessionsSee, Idle
  <1>2. CASE u = t
    <2>1. SessionSees(r)
      BY <1>1, <1>2 DEF MayGoOn
    <2> QED  BY <1>1, <1>2, <2>1 DEF SessionSees, RebuildSees, DecisionSees, ObsAfter, RefsAfter,
                Plans, Pending, Used
  <1>3. CASE u # t
    <2>1. SessionSees(txn[u])
      BY <1>1, <1>3 DEF SessionsSee, IInv
    <2> QED  BY <1>1, <1>3, <2>1 DEF SessionSees, RebuildSees, DecisionSees, ObsAfter, RefsAfter,
                Plans, Pending, Used
  <1> QED  BY <1>2, <1>3

LEMMA OnlySessionPreserves ==
  ASSUME IInv, NEW t \in Threads, NEW r \in Session, OnlySession(t, r), MayGoOn(t, r)
  PROVE  IInv'
  <1>1. TypeInv'
    BY OnlySessionFits DEF IInv, MayGoOn
  <1>2. /\ raced \subseteq raced'
        /\ UNCHANGED <<obs, refs, entity, change, lastId, verdict, ledger, owed>>
    BY DEF OnlySession, reviewed
  <1>3. RowsKept' /\ Unissued'
    BY <1>2 DEF IInv, RowsKept, Unissued, Used
  <1>4. EventsFit'
    <2> SUFFICES ASSUME NEW e \in Entities, e \notin raced'  PROVE EventFits(e)'
      BY DEF EventsFit
    <2>1. EventFits(e)
      BY <1>2 DEF IInv, EventsFit
    <2> QED  BY <1>2, <2>1 DEF EventFits, VerdictFits, Plans, Pending, Used
  <1> QED  BY <1>1, <1>3, <1>4, OnlySessionLocks, OnlySessionSees DEF IInv

\* Locks that nobody else holds.
LEMMA NotLocked ==
  ASSUME NEW t \in Threads, NEW c, ~ChangeLocked(c)
  PROVE  \A u \in Threads : ~ (txn[u].kind = "decide" /\ txn[u].change = c)
  BY DEF ChangeLocked

LEMMA RebuildMayBegin ==
  ASSUME IInv, NEW t \in Threads, NEW e \in Entities, NEW s \in Sources, NEW row \in Content,
         NEW kept \in BOOLEAN, NEW write \in {"held", "late"}, NEW learning \in {0} \cup Used,
         row # Nothing => kept, learning # 0 => change[learning].entity = e,
         RebuildBegins(t, e, s, row, kept, write, learning)
  PROVE  IInv'
  <1>1. TypeOK
    BY DEF IInv, TypeInv
  <1>2. PICK plan \in Plans(entity[e], ObsAfter(e, s, row), RefsAfter(e, s, kept)), held \in Plan :
            /\ plan # Reject => Complete(plan)
            /\ learning # 0 => held = change[learning].says
            /\ OnlySession(t, Planned(e, s, row, kept, write, plan, learning, held))
            /\ Planned(e, s, row, kept, write, plan, learning, held) \in Session
            /\ \A u \in Threads : On(u, e) => e \in raced'
    BY <1>1, RebuildStarts
  <1> DEFINE r == Planned(e, s, row, kept, write, plan, learning, held)
  <1>3. learning # 0 => held # Reject /\ About(learning, e)
    BY <1>1, <1>2, UsedChange, NotReject DEF About
  <1>4. SessionFits(r)
    BY <1>2, <1>3, PlannedFits
  <1>5. plan # Reject => (plan.type = "CREATED" <=> entity[e].life # "active")
    BY DEF Plans
  <1>6. RebuildSees(r)
    BY <1>2, <1>5 DEF RebuildSees, Planned
  <1>7. r.kind = "rebuild" /\ r.entity = e
    BY DEF Planned
  <1> HIDE DEF r
  <1>8. MayGoOn(t, r)
    BY <1>2, <1>4, <1>6, <1>7 DEF MayGoOn, SessionSees
  <1> QED  BY <1>2, <1>8, OnlySessionPreserves DEF r

LEMMA DirectiveMayBegin ==
  ASSUME IInv, NEW t \in Threads, NEW e \in Entities, NEW s \in Sources, NEW p \in Payloads,
         ApplyDirective(t, e, s, p)
  PROVE  IInv'
  <1> DEFINE plan == [type |-> "DUE_CHANGED", after |-> p]
             r == Planned(e, s, Nothing, TRUE, "none", plan, 0, Reject)
  <1>1. /\ OnlySession(t, r) /\ r \in Session /\ entity[e].life = "active"
        /\ \A u \in Threads : On(u, e) => e \in raced'
    BY DirectiveStarts DEF IInv, TypeInv
  <1>2. plan # Reject /\ plan.type = "DUE_CHANGED" /\ Complete(plan)
    BY NothingAssumption DEF Reject, Complete
  <1> HIDE DEF plan
  <1>3. SessionFits(r)
    BY <1>2, PlannedFits
  <1>4. RebuildSees(r)
    BY <1>1, <1>2 DEF RebuildSees, Planned
  <1>5. r.kind = "rebuild" /\ r.entity = e
    BY DEF Planned
  <1> HIDE DEF r
  <1>6. MayGoOn(t, r)
    BY <1>1, <1>3, <1>4, <1>5 DEF MayGoOn, SessionSees
  <1> QED  BY <1>1, <1>6, OnlySessionPreserves

LEMMA ApprovalMayBegin ==
  ASSUME IInv, NEW t \in Threads, NEW c \in Ids, Approve(t, c)
  PROVE  IInv'
  <1> DEFINE e == change[c].entity
             r == Deciding(e, c, change[c].says, entity[e])
  <1>1. TypeOK
    BY DEF IInv, TypeInv
  <1>2. /\ c \in Used /\ c \in Pending(e) /\ e \in Entities /\ ~ChangeLocked(c)
        /\ OnlySession(t, r) /\ r \in Session /\ Meets(e, "decide")
    BY <1>1, ApprovalStarts
  <1>3. SessionFits(r) /\ SessionSees(r)
    BY <1>2 DEF SessionFits, SessionSees, DecisionSees, Deciding, About, Pending
  <1>4. \A u \in Threads : On(u, e) /\ e \notin raced' => txn[u].kind \notin Unlocked
    BY <1>1, <1>2, MeetsRaces
  <1>5. r.kind = "decide" /\ r.entity = e /\ r.change = c
    BY DEF Deciding
  <1> HIDE DEF r
  <1>6. MayGoOn(t, r)
    BY <1>2, <1>3, <1>4, <1>5, NotLocked DEF MayGoOn, Unlocked
  <1> QED  BY <1>2, <1>6, OnlySessionPreserves

LEMMA LearningMayBegin ==
  ASSUME IInv, NEW t \in Threads, NEW c \in Ids, NEW s \in Sources, LearnKnownLabel(t, c, s)
  PROVE  IInv'
  <1> DEFINE e == change[c].entity
             r == Rebuilt(e, s, c, change[c].says)
  <1>1. TypeOK
    BY DEF IInv, TypeInv
  <1>2. /\ c \in Used /\ e \in Entities /\ OnlySession(t, r) /\ r \in Session
        /\ \A u \in Threads : On(u, e) => e \in raced'
    BY <1>1, LearningStarts
  <1>3. change[c].says # Reject
    BY <1>1, <1>2, UsedChange, NotReject
  <1>4. SessionFits(r)
    BY <1>2, <1>3 DEF SessionFits, Rebuilt, About
  <1>5. SessionSees(r)
    BY DEF SessionSees, RebuildSees, Rebuilt
  <1>6. r.kind = "rebuild" /\ r.entity = e
    BY DEF Rebuilt
  <1> HIDE DEF r
  <1>7. MayGoOn(t, r)
    BY <1>2, <1>4, <1>5, <1>6 DEF MayGoOn
  <1> QED  BY <1>2, <1>7, OnlySessionPreserves

LEMMA EditMayBegin ==
  ASSUME IInv, NEW t \in Threads, NEW e \in Entities,
         DeleteEvent(t, e) \/ \E p \in Payloads : EditEvent(t, e, p)
  PROVE  IInv'
  <1>1. TypeOK
    BY DEF IInv, TypeInv
  <1>2. PICK says \in Says : /\ OnlySession(t, Editing(e, says, entity[e]))
                             /\ Editing(e, says, entity[e]) \in Session
                             /\ ~RowLocked(e, t) /\ Meets(e, "edit")
                             /\ Complete(says)
                             /\ says.type = "REMOVED" => entity[e].life = "active"
    BY <1>1, EditStarts
  <1> DEFINE r == Editing(e, says, entity[e])
  <1>3. SessionFits(r) /\ SessionSees(r)
    BY <1>2 DEF SessionFits, SessionSees, Editing
  <1>4. \A u \in Threads : On(u, e) /\ e \notin raced' => txn[u].kind \notin Unlocked
    BY <1>1, <1>2, MeetsRaces
  <1>5. r.kind = "edit" /\ r.entity = e /\ r.copy = entity[e]
    BY DEF Editing
  <1>6. \A u \in Threads \ {t} : ~ HoldsRow(u, e)
    BY <1>2 DEF RowLocked
  <1> HIDE DEF r
  <1>7. MayGoOn(t, r)
    BY <1>3, <1>4, <1>5, <1>6 DEF MayGoOn, Unlocked
  <1> QED  BY <1>2, <1>7, OnlySessionPreserves DEF r

\* Who is under way on an event that is not raced without locks is alone on it.
LEMMA NobodyElse ==
  ASSUME IInv, NEW t \in Threads, txn[t].kind \in Unlocked, txn[t].entity \notin raced
  PROVE  \A u \in Threads \ {t} : ~ On(u, txn[t].entity)
  <1>1. txn[t] # Idle /\ txn[t].entity \in Entities
    BY SessionKinds DEF IInv, TypeInv, TypeOK, Unlocked, Idle
  <1> QED  BY <1>1 DEF IInv, Locks, Alone, On

LEMMA EndPreserves ==
  ASSUME IInv, NEW t \in Threads, OnlySession(t, Idle)
  PROVE  IInv'
  <1>1. MayGoOn(t, Idle)
    BY IdleFits DEF MayGoOn, Idle
  <1> QED  BY <1>1, IdleType, OnlySessionPreserves

\* With at most one pending change, a plan is about all there are.
LEMMA HitsAll ==
  ASSUME TypeOK, NEW e, NEW plan, \A c, d \in Pending(e) : c = d
  PROVE  Hits(e, plan) = Pending(e)
  <1>1. CASE plan = Reject \/ Pending(e) = {}
    BY <1>1 DEF Hits
  <1>2. CASE ~ (plan = Reject \/ Pending(e) = {})
    <2>1. Latest(Pending(e)) \in Pending(e)
      BY <1>2, PendingUsed, LatestIsMember
    <2> QED  BY <1>2, <2>1 DEF Hits
  <1> QED  BY <1>1, <1>2

LEMMA RebuildMayAim ==
  ASSUME IInv, NEW t \in Threads, ReadPending(t)
  PROVE  IInv'
  <1> DEFINE b == txn[t]
             e == b.entity
  <1>1. TypeOK /\ SessionFits(b)
    BY DEF IInv, TypeInv
  <1>2. PICK r \in Rebuild :
            /\ b \in Rebuild /\ b.step = "planned" /\ r \in Session
            /\ OnlySession(t, r) /\ UNCHANGED raced
            /\ r.kind = "rebuild" /\ r.step = "aimed" /\ r.hits = Hits(b.entity, b.plan)
            /\ r.entity = b.entity /\ r.source = b.source /\ r.row = b.row /\ r.kept = b.kept
            /\ r.write = b.write /\ r.plan = b.plan
            /\ r.learning = b.learning /\ r.held = b.held
            /\ b.plan # Reject /\ r.hits # {} =>
                  r.seen = IF r.hits = {b.learning} THEN b.held ELSE change[Latest(r.hits)].says
    BY <1>1, RebuildAims
  <1>3. b.kind = "rebuild" /\ e \in Entities /\ b # Idle
    BY <1>2, RebuildFields DEF Idle
  <1>4. Hits(e, b.plan) \subseteq Pending(e) /\ Pending(e) \subseteq Ids
    BY <1>1, HitsPending, PendingUsed
  <1>5. SessionFits(r)
    <2>1. \A c \in r.hits : About(c, e)
      BY <1>2, <1>4 DEF About, Pending
    <2> QED  BY <1>1, <1>2, <1>3, <2>1 DEF SessionFits
  <1>6. e \notin raced => SessionSees(r)
    <2> SUFFICES ASSUME e \notin raced  PROVE RebuildSees(r)
      BY <1>2 DEF SessionSees
    <2>1. RebuildSees(b) /\ EventFits(e)
      BY <1>3 DEF IInv, SessionsSee, SessionSees, EventsFit
    <2>2. \A c, d \in Pending(e) : c = d
      BY <2>1 DEF EventFits
    <2>3. r.hits = Pending(e)
      BY <1>1, <1>2, <2>2, HitsAll
    <2>4. ASSUME NEW c \in r.hits, r.plan # Reject  PROVE r.seen = change[c].says
      <3>1. r.hits = {c} /\ r.hits \in SUBSET Ids /\ c \in Ids /\ c # 0
        BY <1>4, <2>2, <2>3, <2>4, MaxChangesAssumption DEF Ids
      <3>2. Latest(r.hits) = c
        BY <3>1, LatestIsMember
      <3>3. r.seen = IF c = b.learning THEN b.held ELSE change[c].says
        BY <1>2, <2>4, <3>1, <3>2
      <3>4. b.learning = c => b.held = change[c].says
        BY <2>1, <3>1 DEF RebuildSees
      <3> QED  BY <3>3, <3>4
    <2>5. /\ r.plan # Reject => (r.plan.type = "CREATED" <=> entity[r.entity].life # "active")
          /\ r.write # "none" =>
               r.plan \in Plans(entity[r.entity], ObsAfter(r.entity, r.source, r.row),
                                RefsAfter(r.entity, r.source, r.kept))
          /\ r.learning # 0 => r.held = change[r.learning].says
      BY <1>2, <2>1 DEF RebuildSees
    <2> QED  BY <1>2, <2>3, <2>4, <2>5 DEF RebuildSees
  <1>7. ASSUME NEW u \in Threads \ {t}, On(u, e), e \notin raced  PROVE FALSE
    BY <1>3, <1>7, NobodyElse DEF Unlocked
  <1>8. MayGoOn(t, r)
    BY <1>2, <1>5, <1>6, <1>7 DEF MayGoOn
  <1> QED  BY <1>2, <1>8, OnlySessionPreserves

LEMMA LearningMayPick ==
  ASSUME IInv, NEW t \in Threads, PickRebuilt(t)
  PROVE  IInv'
  <1> DEFINE b == txn[t]
             e == b.entity
  <1>1. TypeOK /\ SessionFits(b)
    BY DEF IInv, TypeInv
  <1>2. b \in Rebuild /\ b.step = "rebuilt" /\ UNCHANGED raced
    BY <1>1, LearningPicks
  <1>3. b.kind = "rebuild" /\ e \in Entities /\ b # Idle
    BY <1>2, RebuildFields DEF Idle
  <1>4. ASSUME NEW c \in Pending(e), NEW says \in Plan,
               says = IF c = b.learning THEN b.held ELSE change[c].says,
               OnlySession(t, Learning(e, c, says)),
               says \in Says => Learning(e, c, says) \in Session
        PROVE  IInv'
    <2> DEFINE r == Learning(e, c, says)
    <2>1. /\ c \in Used /\ c \in Ids /\ c # 0 /\ change[c].entity = e
          /\ change[c].status = "PENDING"
      BY <1>1, PendingUsed, MaxChangesAssumption DEF Pending, Ids
    <2>2. says # Reject
      BY <1>1, <1>2, <1>4, <2>1, UsedChange, NotReject, RebuildFields DEF SessionFits
    <2>3. r \in Session
      BY <1>4, <2>2 DEF Plan
    <2>4. r.kind = "learn" /\ r.entity = e /\ r.change = c /\ r.says = says
      BY DEF Learning
    <2> HIDE DEF r
    <2>5. SessionFits(r)
      BY <2>1, <2>4 DEF SessionFits, About
    <2>6. e \notin raced => SessionSees(r)
      <3> SUFFICES ASSUME e \notin raced  PROVE says = change[c].says
        BY <2>1, <2>4 DEF SessionSees, DecisionSees
      <3>1. RebuildSees(b)
        BY <1>3 DEF IInv, SessionsSee, SessionSees
      <3> QED  BY <1>4, <2>1, <3>1 DEF RebuildSees
    <2>7. ASSUME NEW u \in Threads \ {t}, On(u, e), e \notin raced  PROVE FALSE
      BY <1>3, <2>7, NobodyElse DEF Unlocked
    <2>8. MayGoOn(t, r)
      BY <1>2, <2>4, <2>5, <2>6, <2>7 DEF MayGoOn
    <2> QED  BY <1>4, <2>3, <2>8, OnlySessionPreserves DEF r
  <1> QED  BY <1>1, <1>4, LearningPicks, EndPreserves

LEMMA LearningMayLock ==
  ASSUME IInv, NEW t \in Threads, LockPicked(t)
  PROVE  IInv'
  <1> DEFINE b == txn[t]
             e == b.entity
             r == Deciding(e, b.change, b.says, entity[e])
  <1>1. TypeOK /\ SessionFits(b)
    BY DEF IInv, TypeInv
  <1>2. b \in Learn /\ ~ChangeLocked(b.change) /\ UNCHANGED raced /\ OnlySession(t, r) /\ r \in Session
    BY <1>1, LearningLocks
  <1>3. b.kind = "learn" /\ e \in Entities /\ b # Idle
    BY <1>2 DEF Learn, Idle
  <1>4. SessionFits(r)
    BY <1>1, <1>3 DEF SessionFits, Deciding
  <1>5. e \notin raced => SessionSees(r)
    <2> SUFFICES ASSUME e \notin raced  PROVE SessionSees(r)
      OBVIOUS
    <2>1. DecisionSees(b)
      BY <1>3 DEF IInv, SessionsSee, SessionSees
    <2> QED  BY <2>1 DEF SessionSees, DecisionSees, Deciding
  <1>6. r.kind = "decide" /\ r.entity = e /\ r.change = b.change
    BY DEF Deciding
  <1>7. ASSUME NEW u \in Threads \ {t}, On(u, e), e \notin raced  PROVE FALSE
    BY <1>3, <1>7, NobodyElse DEF Unlocked
  <1> HIDE DEF r
  <1>8. MayGoOn(t, r)
    BY <1>2, <1>4, <1>5, <1>6, <1>7, NotLocked DEF MayGoOn
  <1> QED  BY <1>2, <1>8, OnlySessionPreserves

-----------------------------------------------------------------------------
(* Steps that change rows change those of one event.                       *)

OnlyEvent(f) ==
    /\ raced \subseteq raced' /\ RowsStay
    /\ \A e \in Entities : e # f =>
         /\ entity'[e] = entity[e] /\ ledger'[e] = ledger[e]
         /\ obs'[e] = obs[e] /\ refs'[e] = refs[e]
         /\ e \in owed' <=> e \in owed
    /\ \A c \in Used : change[c].entity # f => change'[c] = change[c] /\ verdict'[c] = verdict[c]
    /\ \A c \in Used' : c \in Used \/ change'[c].entity = f

LEMMA OtherPending ==
  ASSUME IInv, NEW f, OnlyEvent(f), NEW e, e # f
  PROVE  Pending(e)' = Pending(e)
  BY DEF OnlyEvent, Pending, RowsStay

LEMMA OtherEvents ==
  ASSUME IInv, NEW f, OnlyEvent(f), NEW e \in Entities, e # f, e \notin raced'
  PROVE  EventFits(e)'
  <1>1. EventFits(e)
    BY DEF OnlyEvent, IInv, EventsFit
  <1>2. Pending(e)' = Pending(e)
    BY OtherPending
  <1>3. /\ entity'[e] = entity[e] /\ ledger'[e] = ledger[e]
        /\ obs'[e] = obs[e] /\ refs'[e] = refs[e] /\ (e \in owed' <=> e \in owed)
    BY DEF OnlyEvent
  <1>4. \A c \in Pending(e) : change'[c] = change[c]
    BY DEF OnlyEvent, Pending
  <1>5. \A c \in Used' : change'[c].entity = e => VerdictFits(c)'
    <2> SUFFICES ASSUME NEW c \in Used', change'[c].entity = e  PROVE VerdictFits(c)'
      OBVIOUS
    <2>1. c \in Used /\ change[c].entity = e
      BY DEF OnlyEvent, RowsStay
    <2>2. change'[c] = change[c] /\ verdict'[c] = verdict[c] /\ VerdictFits(c)
      BY <1>1, <2>1 DEF OnlyEvent, EventFits
    <2> QED  BY <2>2 DEF VerdictFits
  <1>6. Plans(entity[e], obs[e], refs[e])' = Plans(entity[e], obs[e], refs[e])
    BY <1>3 DEF Plans
  <1> QED  BY <1>1, <1>2, <1>3, <1>4, <1>5, <1>6 DEF EventFits

LEMMA OtherSessions ==
  ASSUME IInv, NEW f, OnlyEvent(f), NEW t \in Threads, txn'[t] = txn[t],
         txn[t] # Idle, txn[t].entity # f, txn[t].entity \notin raced'
  PROVE  SessionSees(txn[t])'
  <1> DEFINE b == txn[t]
             e == b.entity
  <1>1. b \in Session /\ SessionFits(b) /\ e \in Entities
    BY SessionKinds DEF IInv, TypeInv, TypeOK
  <1>2. SessionSees(b)
    BY DEF IInv, SessionsSee, OnlyEvent
  <1>3. Pending(e)' = Pending(e)
    <2>1. \A d : d # f => Pending(d)' = Pending(d)
      BY OtherPending
    <2>2. \A c \in Used' : change'[c].entity = e => c \in Used /\ change'[c] = change[c]
      BY DEF OnlyEvent, RowsStay
    <2> QED  BY <2>2 DEF Pending, OnlyEvent, RowsStay
  <1>4. /\ entity'[e] = entity[e] /\ obs'[e] = obs[e] /\ refs'[e] = refs[e]
    BY <1>1 DEF OnlyEvent
  <1>5. \A c : About(c, e) => change'[c] = change[c]
    BY DEF OnlyEvent, About
  <1>6. CASE b.kind = "rebuild"
    <2>1. RebuildSees(b) /\ b \in Rebuild
      BY <1>1, <1>2, <1>6, SessionKinds DEF SessionSees
    <2>2. /\ \A c \in b.hits : change'[c] = change[c]
          /\ b.learning # 0 => change'[b.learning] = change[b.learning]
      BY <1>1, <1>5, <1>6 DEF SessionFits
    <2>3. RebuildSees(txn[t])'
      BY <1>3, <1>4, <2>1, <2>2 DEF RebuildSees, ObsAfter, RefsAfter, Plans
    <2> QED  BY <1>6, <2>3 DEF SessionSees
  <1>7. CASE b.kind \in {"learn", "decide"}
    <2>1. DecisionSees(b) /\ change'[b.change] = change[b.change]
      BY <1>1, <1>2, <1>5, <1>7 DEF SessionSees, SessionFits
    <2>2. DecisionSees(txn[t])'
      BY <1>4, <2>1 DEF DecisionSees
    <2> QED  BY <1>7, <2>2 DEF SessionSees
  <1>8. CASE b.kind \notin {"rebuild", "learn", "decide"}
    BY <1>8 DEF SessionSees
  <1> QED  BY <1>6, <1>7, <1>8

\* Nothing about the sessions on event f is left to show when f is raced.
LEMMA EventStepPreserves ==
  ASSUME IInv, NEW f \in Entities, OnlyEvent(f), TypeInv', RowsKept', Unissued', Locks',
         f \notin raced' => EventFits(f)',
         \A t \in Threads : txn'[t] = txn[t] \/ txn'[t] = Idle \/ txn'[t].entity = f,
         \A t \in Threads : txn'[t] # Idle /\ txn'[t].entity = f /\ f \notin raced'
             => SessionSees(txn[t])'
  PROVE  IInv'
  <1>1. EventsFit'
    BY OtherEvents DEF EventsFit
  <1>2. SessionsSee'
    <2> SUFFICES ASSUME NEW t \in Threads, txn'[t] # Idle, txn'[t].entity \notin raced'
                 PROVE  SessionSees(txn[t])'
      BY DEF SessionsSee, Idle
    <2>1. CASE txn'[t].entity = f
      BY <2>1
    <2>2. CASE txn'[t].entity # f
      BY <2>2, OtherSessions
    <2> QED  BY <2>1, <2>2
  <1> QED  BY <1>1, <1>2 DEF IInv

\* The locks stay as they are when no session takes one and no row that is held changes.
LEMMA LocksStay ==
  ASSUME IInv, raced \subseteq raced',
         \A t \in Threads : \/ txn'[t] = txn[t]
                            \/ txn'[t] = Idle
                            \/ /\ txn'[t].kind = "rebuild" /\ txn[t].kind = "rebuild"
                               /\ txn'[t].entity = txn[t].entity,
         \A t \in Threads : txn'[t] = txn[t] /\ txn[t].kind = "edit" /\ txn[t].copy # NoRow
             => entity'[txn[t].entity] = entity[txn[t].entity]
  PROVE  Locks'
  <1>1. EditsHold'
    BY DEF EditsHold, IInv, Locks, Idle
  <1>2. LocksExclude'
    BY DEF LocksExclude, HoldsRow, IInv, Locks, Idle
  <1>3. Alone'
    <2> SUFFICES ASSUME NEW u \in Threads, NEW v \in Threads, u # v, NEW e \in Entities,
                        On(u, e)', On(v, e)', e \notin raced'
                 PROVE  txn'[u].kind \notin Unlocked
      BY DEF Alone, Unlocked
    <2>1. On(u, e) /\ On(v, e) /\ txn'[u].kind = txn[u].kind
      BY DEF On, Idle
    <2> QED  BY <2>1 DEF Alone, IInv, Locks
  <1> QED  BY <1>1, <1>2, <1>3 DEF Locks

LEMMA AppendOne ==
  ASSUME NEW v
  PROVE  Append(<<>>, v) = <<v>>
  OBVIOUS

LEMMA RetirePreserves ==
  ASSUME IInv, NEW e \in Entities, NEW s \in Sources, RetireObservation(e, s)
  PROVE  IInv'
  <1>1. TypeOK /\ TypeInv'
    BY RetireTyped DEF IInv, TypeInv
  <1>2. /\ obs' = [obs EXCEPT ![e][s] = Nothing] /\ owed' = owed \ {e} /\ Meets(e, "rebuild")
        /\ UNCHANGED <<refs, entity, change, lastId, verdict, txn, ledger>>
    BY DEF RetireObservation, reviewed
  <1>3. raced \subseteq raced' /\ \A u \in Threads : On(u, e) => e \in raced'
    BY <1>1, <1>2, MeetsRaces DEF Unlocked
  <1>4. /\ obs'[e][s] = Nothing
        /\ \A f \in Entities : f # e => obs'[f] = obs[f]
        /\ \A r \in Sources : r # s => obs'[e][r] = obs[e][r]
    BY <1>1, <1>2 DEF TypeOK
  <1>5. OnlyEvent(e)
    BY <1>2, <1>3, <1>4 DEF OnlyEvent, RowsStay, Used
  <1>6. RowsKept'
    BY <1>2, <1>4 DEF RowsKept, IInv
  <1>7. Unissued' /\ Locks'
    BY <1>2, <1>3, LocksStay DEF Unissued, IInv, Used
  <1>8. e \notin raced' => EventFits(e)'
    <2> SUFFICES ASSUME e \notin raced'  PROVE EventFits(e)'
      OBVIOUS
    <2>1. EventFits(e) /\ e \notin owed'
      BY <1>2, <1>3 DEF IInv, EventsFit
    <2> QED  BY <1>2, <2>1 DEF EventFits, VerdictFits, Pending, Used
  <1>9. \A t \in Threads : txn'[t] # Idle /\ txn'[t].entity = e => e \in raced'
    BY <1>2, <1>3 DEF On
  <1> QED  BY <1>1, <1>2, <1>5, <1>6, <1>7, <1>8, <1>9, EventStepPreserves

\* A step that decides or corrects a change that nobody holds, and no other change of
\* its event, leaves what the sessions of the event hold.
LEMMA DecisionsSee ==
  ASSUME IInv, NEW f \in Entities, NEW c \in Ids, change[c].entity = f,
         f \notin raced,
         \A d \in Ids : d # c => change'[d] = change[d],
         NEW t \in Threads, txn'[t] = txn[t], txn[t] # Idle, txn[t].entity = f,
         txn[t].kind \notin Unlocked,
         txn[t].kind = "decide" => txn[t].change # c,
         entity'[f].life = entity[f].life, entity'[f].content = entity[f].content
  PROVE  SessionSees(txn[t])'
  <1> DEFINE b == txn[t]
  <1>1. SessionSees(b) /\ SessionFits(b) /\ b \in Session
    BY DEF IInv, SessionsSee, TypeInv, TypeOK
  <1>2. CASE b.kind = "decide"
    <2>1. DecisionSees(b) /\ b.change \in Ids
      BY <1>1, <1>2, SessionKinds DEF SessionSees, Decide
    <2>2. change'[b.change] = change[b.change]
      BY <1>2, <2>1
    <2> QED  BY <1>2, <2>1, <2>2 DEF SessionSees, DecisionSees
  <1>3. CASE b.kind # "decide"
    BY <1>3 DEF SessionSees, Unlocked
  <1> QED  BY <1>2, <1>3

LEMMA RejectPreserves ==
  ASSUME IInv, NEW c \in Ids, RejectChange(c)
  PROVE  IInv'
  <1>0. PICK f \in Entities : f = change[c].entity
    BY RejectRows, UsedChange DEF IInv, TypeInv
  <1>1. TypeOK /\ TypeInv'
    BY RejectTyped DEF IInv, TypeInv
  <1>2. /\ c \in Used /\ change[c].status = "PENDING" /\ ~ChangeLocked(c)
        /\ \A d \in Ids : d # c => change'[d] = change[d]
        /\ change'[c].status = "REJECTED" /\ change'[c].entity = f
        /\ change'[c].says = change[c].says
        /\ RowsStay /\ txn' = txn /\ lastId' = lastId
    BY <1>1, <1>0, RejectRows
  <1>3. /\ verdict' = [verdict EXCEPT ![c] = Append(@, "reject")]
        /\ owed' = owed \ {f} /\ Meets(f, "decide")
        /\ UNCHANGED <<obs, refs, entity, ledger>>
    BY <1>0 DEF RejectChange, observed
  <1>4. f \in Entities /\ Used' = Used
    BY <1>1, <1>2, UsedChange DEF Used
  <1>5. /\ raced \subseteq raced'
        /\ \A u \in Threads : On(u, f) /\ f \notin raced' => txn[u].kind \notin Unlocked
    BY <1>1, <1>3, <1>4, MeetsRaces
  <1>6. /\ verdict'[c] = Append(verdict[c], "reject")
        /\ \A d \in Ids : d # c => verdict'[d] = verdict[d]
    BY <1>1, <1>3, VerdictType
  <1>7. Used \subseteq Ids
    BY <1>1, UsedChange
  <1>8. OnlyEvent(f)
    BY <1>0, <1>2, <1>3, <1>4, <1>5, <1>6, <1>7 DEF OnlyEvent
  <1>9. RowsKept' /\ Unissued' /\ Locks'
    BY <1>2, <1>3, <1>4, <1>5, <1>6, LocksStay DEF RowsKept, Unissued, IInv
  <1>10. f \notin raced' => EventFits(f)'
    <2> SUFFICES ASSUME f \notin raced'  PROVE EventFits(f)'
      OBVIOUS
    <2>1. EventFits(f)
      BY <1>4, <1>5 DEF IInv, EventsFit
    <2>2. Pending(f)' \subseteq Pending(f) /\ \A d \in Pending(f)' : d # c
      BY <1>2, <1>4, <1>7 DEF Pending
    <2>3. verdict[c] = <<>>
      BY <1>0, <1>2, <2>1 DEF EventFits, VerdictFits
    <2>4. verdict'[c] = <<"reject">>
      BY <1>6, <2>3, AppendOne
    <2>5. \A d \in Used' : change'[d].entity = f => VerdictFits(d)'
      BY <1>0, <1>2, <1>4, <1>6, <1>7, <2>1, <2>4 DEF EventFits, VerdictFits
    <2>6. \A d \in Pending(f)' : change'[d].says.type = "CREATED" <=> entity'[f].life # "active"
      BY <1>2, <1>3, <1>7, <2>1, <2>2 DEF EventFits, Pending
    <2>8. \A d \in Pending(f)' : Complete(change'[d].says)
      BY <1>2, <1>7, <2>1, <2>2 DEF EventFits, Pending
    <2>7. f \notin owed' /\ entity'[f] = ledger'[f] /\ \A d, g \in Pending(f)' : d = g
      BY <1>3, <2>1, <2>2 DEF EventFits
    <2> QED  BY <2>5, <2>6, <2>7, <2>8 DEF EventFits, Complete
  <1>11. ASSUME NEW t \in Threads, txn'[t] # Idle, txn'[t].entity = f, f \notin raced'
         PROVE  SessionSees(txn[t])'
    <2>1. txn[t].kind \notin Unlocked /\ f \notin raced
      BY <1>2, <1>5, <1>11 DEF On
    <2>2. txn[t].kind = "decide" => txn[t].change # c
      BY <1>2, NotLocked
    <2> QED  BY <1>0, <1>2, <1>3, <1>4, <1>11, <2>1, <2>2, DecisionsSee
  <1> QED  BY <1>1, <1>2, <1>4, <1>8, <1>9, <1>10, <1>11, EventStepPreserves

LEMMA EditProposalPreserves ==
  ASSUME IInv, NEW c \in Ids, NEW p \in Payloads, EditProposal(c, p)
  PROVE  IInv'
  <1>0. PICK f \in Entities : f = change[c].entity
    BY EditRows, UsedChange DEF IInv, TypeInv
  <1>1. TypeOK /\ TypeInv'
    BY EditProposalTyped DEF IInv, TypeInv
  <1>2. /\ c \in Used /\ change[c].status = "PENDING" /\ ~ChangeLocked(c)
        /\ \A d \in Ids : d # c => change'[d] = change[d]
        /\ change'[c].status = "PENDING" /\ change'[c].entity = f
        /\ change'[c].says.type = change[c].says.type
        /\ change[c].says.type # "REMOVED" /\ change'[c].says.after = p
        /\ RowsStay /\ txn' = txn /\ lastId' = lastId
    BY <1>0, <1>1, EditRows
  <1>3. /\ Meets(f, "decide")
        /\ UNCHANGED <<obs, refs, entity, verdict, ledger, owed>>
    BY <1>0 DEF EditProposal, observed
  <1>4. Used' = Used /\ Used \subseteq Ids
    BY <1>1, <1>2, UsedChange DEF Used
  <1>5. /\ raced \subseteq raced'
        /\ \A u \in Threads : On(u, f) /\ f \notin raced' => txn[u].kind \notin Unlocked
    BY <1>1, <1>3, MeetsRaces
  <1>6. OnlyEvent(f)
    BY <1>0, <1>2, <1>3, <1>4, <1>5 DEF OnlyEvent
  <1>7. RowsKept' /\ Unissued' /\ Locks'
    BY <1>2, <1>3, <1>4, <1>5, LocksStay DEF RowsKept, Unissued, IInv
  <1>8. f \notin raced' => EventFits(f)'
    <2> SUFFICES ASSUME f \notin raced'  PROVE EventFits(f)'
      OBVIOUS
    <2>1. EventFits(f)
      BY <1>5 DEF IInv, EventsFit
    <2>2. Pending(f)' = Pending(f)
      BY <1>0, <1>2, <1>4 DEF Pending
    <2>3. \A d \in Pending(f) : change'[d].says.type = change[d].says.type
      BY <1>2, <1>4 DEF Pending
    <2>4. \A d \in Used' : change'[d].entity = f => VerdictFits(d)'
      BY <1>0, <1>2, <1>3, <1>4, <2>1 DEF EventFits, VerdictFits
    <2>5. Plans(entity[f], obs[f], refs[f])' = Plans(entity[f], obs[f], refs[f])
      BY <1>3 DEF Plans
    <2>6. \A d \in Pending(f)' : Complete(change'[d].says)
      <3>1. Complete(change'[c].says)
        BY <1>2, NothingAssumption DEF Complete
      <3>2. \A d \in Pending(f) : d # c => Complete(change'[d].says)
        BY <1>2, <1>4, <2>1 DEF EventFits, Pending
      <3> QED  BY <2>2, <3>1, <3>2
    <2> QED  BY <1>3, <2>1, <2>2, <2>3, <2>4, <2>5, <2>6 DEF EventFits, Complete
  <1>9. ASSUME NEW t \in Threads, txn'[t] # Idle, txn'[t].entity = f, f \notin raced'
        PROVE  SessionSees(txn[t])'
    <2>1. txn[t].kind \notin Unlocked /\ f \notin raced
      BY <1>2, <1>5, <1>9 DEF On
    <2>2. txn[t].kind = "decide" => txn[t].change # c
      BY <1>2, NotLocked
    <2> QED  BY <1>0, <1>2, <1>3, <1>9, <2>1, <2>2, DecisionsSee
  <1> QED  BY <1>1, <1>2, <1>6, <1>7, <1>8, <1>9, EventStepPreserves

\* Support is noted on a row that nobody holds.
LEMMA KeepPreserves ==
  ASSUME IInv, NEW e \in Entities, KeepEvent(e)
  PROVE  IInv'
  <1>1. TypeOK /\ TypeInv'
    BY KeepTyped DEF IInv, TypeInv
  <1>2. /\ \A t \in Threads : ~HoldsRow(t, e)
        /\ entity' = [entity EXCEPT ![e] = [entity[e] EXCEPT !.manual = TRUE]]
        /\ ledger' = [ledger EXCEPT ![e] = [ledger[e] EXCEPT !.manual = TRUE]]
        /\ owed' = owed \ {e} /\ Meets(e, "edit")
        /\ UNCHANGED <<obs, refs, change, lastId, verdict, txn>>
    BY <1>1 DEF KeepEvent, observed, reviewed, TypeOK
  <1>3. entity[e] \in Row /\ ledger[e] \in Row
    BY <1>1 DEF TypeOK
  <1>4. /\ entity'[e] = [entity[e] EXCEPT !.manual = TRUE]
        /\ ledger'[e] = [ledger[e] EXCEPT !.manual = TRUE]
        /\ \A f \in Entities : f # e => entity'[f] = entity[f] /\ ledger'[f] = ledger[f]
    BY <1>1, <1>2 DEF TypeOK
  <1>5. entity'[e].life = entity[e].life /\ entity'[e].content = entity[e].content
    BY <1>3, <1>4 DEF Row
  <1>6. /\ raced \subseteq raced'
        /\ \A u \in Threads : On(u, e) /\ e \notin raced' => txn[u].kind \notin Unlocked
    BY <1>1, <1>2, MeetsRaces
  <1>7. OnlyEvent(e)
    BY <1>2, <1>4, <1>6 DEF OnlyEvent, RowsStay, Used
  <1>8. RowsKept' /\ Unissued'
    BY <1>2 DEF RowsKept, Unissued, IInv, Used
  <1>9. Locks'
    <2>1. ASSUME NEW t \in Threads, txn[t].kind = "edit", txn[t].copy # NoRow
          PROVE  entity'[txn[t].entity] = entity[txn[t].entity]
      <3>1. txn[t].entity # e /\ txn[t].entity \in Entities
        BY <1>1, <1>2, <2>1, SessionKinds DEF HoldsRow, TypeOK, Idle
      <3> QED  BY <1>4, <3>1
    <2> QED  BY <1>2, <1>6, <2>1, LocksStay
  <1>10. e \notin raced' => EventFits(e)'
    <2> SUFFICES ASSUME e \notin raced'  PROVE EventFits(e)'
      OBVIOUS
    <2>1. EventFits(e)
      BY <1>6 DEF IInv, EventsFit
    <2>2. Pending(e)' = Pending(e) /\ e \notin owed' /\ entity'[e] = ledger'[e]
      BY <1>2, <1>4, <2>1 DEF Pending, Used, EventFits
    <2> QED  BY <1>2, <1>5, <2>1, <2>2 DEF EventFits, VerdictFits, Used
  <1>11. ASSUME NEW t \in Threads, txn'[t] # Idle, txn'[t].entity = e, e \notin raced'
         PROVE  SessionSees(txn[t])'
    <2>1. SessionSees(txn[t]) /\ txn[t].kind \notin Unlocked
      BY <1>2, <1>6, <1>11 DEF IInv, SessionsSee, On
    <2> QED  BY <1>2, <1>5, <1>11, <2>1 DEF SessionSees, DecisionSees, Unlocked
  <1> QED  BY <1>1, <1>2, <1>7, <1>8, <1>9, <1>10, <1>11, EventStepPreserves

LEMMA CreatePreserves ==
  ASSUME IInv, NEW e \in Entities, NEW p \in Payloads, CreateManualEvent(e, p)
  PROVE  IInv'
  <1> DEFINE n == lastId + 1
             row == [life |-> "active", content |-> p, manual |-> TRUE]
  <1>1. TypeOK /\ TypeInv'
    BY CreateTyped DEF IInv, TypeInv
  <1>2. /\ n \in Ids /\ n \notin Used /\ lastId' = n /\ Used' = Used \cup {n} /\ RowsStay
        /\ change'[n].status = "APPROVED" /\ change'[n].entity = e
        /\ \A d \in Ids : d # n => change'[d] = change[d]
        /\ entity'[e] = row /\ ledger'[e] = row
        /\ \A f \in Entities : f # e => entity'[f] = entity[f] /\ ledger'[f] = ledger[f]
        /\ verdict'[n] = Append(verdict[n], "approve")
        /\ \A d \in Ids : d # n => verdict'[d] = verdict[d]
    BY <1>1, ManualCreated
  <1>3. /\ UNCHANGED <<obs, refs, txn, owed, raced>> /\ refs[e] = {}
        /\ \A c \in Used : change[c].entity # e
        /\ \A t \in Threads : ~On(t, e)
    BY DEF CreateManualEvent, observed
  <1>4. Used \subseteq Ids
    BY <1>1, UsedChange
  <1> HIDE DEF n, row
  <1>5. OnlyEvent(e)
    BY <1>2, <1>3, <1>4 DEF OnlyEvent
  <1>6. RowsKept' /\ Unissued'
    BY <1>2, <1>3 DEF RowsKept, Unissued, IInv
  <1>7. Locks'
    <2>1. ASSUME NEW t \in Threads, txn[t].kind = "edit"
          PROVE  entity'[txn[t].entity] = entity[txn[t].entity]
      <3>1. txn[t].entity # e /\ txn[t].entity \in Entities
        BY <1>1, <1>3, <2>1, SessionKinds DEF On, TypeOK, Idle
      <3> QED  BY <1>2, <3>1
    <2> QED  BY <1>3, <2>1, LocksStay
  <1>8. EventFits(e)'
    <2>1. Pending(e)' = {}
      BY <1>2, <1>3, <1>4 DEF Pending
    <2>2. verdict'[n] = <<"approve">>
      BY <1>2, AppendOne DEF IInv, Unissued
    <2>3. \A d \in Used' : change'[d].entity = e => VerdictFits(d)'
      BY <1>2, <1>3, <1>4, <2>2 DEF VerdictFits
    <2>4. Primary(obs[e]) = {}
      BY <1>3 DEF IInv, RowsKept, Primary
    <2>5. Reject \in Plans(entity'[e], obs[e], refs[e])
      BY <1>3, <2>4 DEF Plans
    <2>6. Reject \in Plans(entity[e], obs[e], refs[e])'
      BY <1>3, <2>5 DEF Plans
    <2> QED  BY <1>2, <2>1, <2>3, <2>6 DEF EventFits
  <1>9. \A t \in Threads : txn'[t] # Idle => txn'[t].entity # e
    BY <1>3 DEF On
  <1> QED  BY <1>1, <1>3, <1>5, <1>6, <1>7, <1>8, <1>9, EventStepPreserves

-----------------------------------------------------------------------------
(* The commit of a rebuild.                                                *)

\* What was read and is still so is overwritten by the plan.
LEMMA PlanWritten ==
  ASSUME NEW now \in Says, NEW plan \in Says
  PROVE  [type  |-> Written(now.type, now.type, plan.type),
          after |-> Written(now.after, now.after, plan.after)] = plan
  BY DEF Written, Says

LEMMA RebuildOnlyEvent ==
  ASSUME IInv, NEW t \in Threads, CommitRebuild(t),
         NEW b \in Rebuild, b = txn[t], NEW e \in Entities, e = b.entity
  PROVE  OnlyEvent(e)
  <1>1. TypeOK /\ SessionFits(b)
    BY DEF IInv, TypeInv
  <1>2. RowsStay /\ (Inserted(b) \/ Rewritten(b) \/ Rejected(b))
    BY RebuildCommits DEF IInv
  <1>3. \A c \in b.hits : c \in Used /\ change[c].entity = e
    BY <1>1, RebuildFields DEF SessionFits, About
  <1>4. Used \subseteq Ids
    BY <1>1, UsedChange
  <1>5. \A c \in Used : change[c].entity # e => change'[c] = change[c]
    BY <1>2, <1>3, <1>4 DEF Inserted, Rewritten, Rejected
  <1>6. \A c \in Used' : c \in Used \/ change'[c].entity = e
    BY <1>2 DEF Inserted, Rewritten, Rejected
  <1>7. UNCHANGED <<feeds, entity, verdict, ledger, raced>>
    BY DEF CommitRebuild
  <1>8. ASSUME NEW f \in Entities, f # e
        PROVE  obs'[f] = obs[f] /\ refs'[f] = refs[f] /\ (f \in owed' <=> f \in owed)
    <2>1. CASE b.write = "none"
      BY <2>1 DEF CommitRebuild
    <2>2. CASE b.write # "none"
      <3>1. /\ obs' = [obs EXCEPT ![e][b.source] = b.row]
            /\ refs' = [refs EXCEPT ![e] = IF b.kept THEN @ \cup {b.source} ELSE @ \ {b.source}]
            /\ owed' = owed \cup {e}
        BY <2>2 DEF CommitRebuild
      <3> QED  BY <1>1, <1>8, <3>1 DEF TypeOK
    <2> QED  BY <2>1, <2>2
  <1> QED  BY <1>2, <1>5, <1>6, <1>7, <1>8 DEF OnlyEvent

\* The observations are left as the rebuild saw them when it made its plan.
LEMMA RebuildObserves ==
  ASSUME IInv, NEW t \in Threads, CommitRebuild(t),
         NEW b \in Rebuild, b = txn[t], NEW e \in Entities, e = b.entity
  PROVE  /\ b.write = "none" => obs' = obs /\ refs' = refs /\ owed' = owed
         /\ b.write # "none" => /\ obs'[e] = ObsAfter(e, b.source, b.row)
                                /\ refs'[e] = RefsAfter(e, b.source, b.kept)
         /\ RowsKept'
  <1>1. TypeOK /\ SessionFits(b)
    BY DEF IInv, TypeInv
  <1>2. b.source \in Sources /\ (b.row # Nothing => b.kept)
    BY <1>1, RebuildFields DEF SessionFits
  <1>3. CASE b.write = "none"
    <2>1. obs' = obs /\ refs' = refs /\ owed' = owed
      BY <1>3 DEF CommitRebuild
    <2> QED  BY <1>3, <2>1 DEF IInv, RowsKept
  <1>4. CASE b.write # "none"
    <2>1. /\ obs' = [obs EXCEPT ![e][b.source] = b.row]
          /\ refs' = [refs EXCEPT ![e] = IF b.kept THEN @ \cup {b.source} ELSE @ \ {b.source}]
      BY <1>4 DEF CommitRebuild
    <2>2. /\ obs'[e] = ObsAfter(e, b.source, b.row)
          /\ refs'[e] = RefsAfter(e, b.source, b.kept)
          /\ \A f \in Entities : f # e => obs'[f] = obs[f] /\ refs'[f] = refs[f]
      BY <1>1, <2>1 DEF TypeOK, ObsAfter, RefsAfter
    <2>3. ASSUME NEW s \in Sources, obs'[e][s] # Nothing  PROVE s \in refs'[e]
      <3>1. obs[e] \in [Sources -> Content]
        BY <1>1 DEF TypeOK
      <3>2. CASE s = b.source
        BY <1>2, <2>2, <2>3, <3>1, <3>2 DEF ObsAfter, RefsAfter
      <3>3. CASE s # b.source
        <4>1. obs[e][s] # Nothing
          BY <2>2, <2>3, <3>1, <3>3 DEF ObsAfter
        <4>2. s \in refs[e]
          BY <4>1 DEF IInv, RowsKept
        <4> QED  BY <2>2, <3>3, <4>2 DEF RefsAfter
      <3> QED  BY <3>2, <3>3
    <2>4. RowsKept'
      BY <2>2, <2>3 DEF IInv, RowsKept
    <2> QED  BY <1>4, <2>2, <2>4
  <1> QED  BY <1>3, <1>4

\* A rebuild that was alone leaves one pending change that says its plan, or none.
LEMMA RebuildLeaves ==
  ASSUME IInv, NEW t \in Threads, CommitRebuild(t),
         NEW b \in Rebuild, b = txn[t], NEW e \in Entities, e = b.entity, e \notin raced
  PROVE  /\ b.plan # Reject => \E c : Pending(e)' = {c} /\ change'[c].says = b.plan
         /\ b.plan # Reject /\ Pending(e) # {} => Pending(e)' = Pending(e)
         /\ b.plan = Reject => Pending(e)' = {}
         /\ \A d \in Used : change'[d].says = IF b.plan # Reject /\ d \in b.hits THEN b.plan
                                              ELSE change[d].says
         /\ \A d \in Used' : change'[d].entity = e => VerdictFits(d)'
  <1>1. TypeOK /\ SessionFits(b) /\ EventFits(e) /\ b.kind = "rebuild" /\ b.step = "aimed"
    BY RebuildFields DEF IInv, TypeInv, EventsFit, CommitRebuild
  <1>2. RebuildSees(b)
    BY <1>1 DEF IInv, SessionsSee, SessionSees, Idle
  <1>3. b.hits = Pending(e) /\ \A c, d \in Pending(e) : c = d
    BY <1>1, <1>2 DEF RebuildSees, EventFits
  <1>4. Used \subseteq Ids /\ verdict' = verdict
    BY <1>1, UsedChange DEF CommitRebuild
  <1>5. \A d \in Used : change[d].entity = e => VerdictFits(d)
    BY <1>1 DEF EventFits
  <1>6. b.plan # Reject => b.plan \in Says
    BY RebuildFields DEF Plan
  <1>7. CASE Inserted(b)
    <2> DEFINE n == lastId + 1
    <2>1. /\ b.plan # Reject /\ b.hits = {}
          /\ change'[n].entity = e /\ change'[n].says = b.plan /\ change'[n].status = "PENDING"
          /\ n \in Ids /\ n \notin Used /\ Used' = Used \cup {n}
          /\ \A d \in Ids : d # n => change'[d] = change[d]
      BY <1>7 DEF Inserted
    <2> HIDE DEF n
    <2>2. Pending(e)' = {n}
      BY <1>3, <1>4, <2>1 DEF Pending
    <2>3. \A d \in Used : change'[d].says = change[d].says
      BY <1>4, <2>1
    <2>4. verdict'[n] = <<>>
      BY <1>4, <2>1 DEF IInv, Unissued
    <2>5. \A d \in Used' : change'[d].entity = e => VerdictFits(d)'
      BY <1>4, <1>5, <2>1, <2>4 DEF VerdictFits
    <2> QED  BY <1>3, <2>1, <2>2, <2>3, <2>5
  <1>8. CASE Rewritten(b)
    <2>1. PICK c \in b.hits :
            /\ b.plan # Reject /\ c \in Used /\ Used' = Used
            /\ change'[c].entity = change[c].entity /\ change'[c].status = change[c].status
            /\ change'[c].says =
                 [type  |-> Written(change[c].says.type, b.seen.type, b.plan.type),
                  after |-> Written(change[c].says.after, b.seen.after, b.plan.after)]
            /\ \A d \in Ids : d # c => change'[d] = change[d]
      BY <1>8 DEF Rewritten
    <2>2. b.seen = change[c].says /\ change[c].says \in Says
      BY <1>1, <1>2, <2>1, UsedChange DEF RebuildSees
    <2>3. change'[c].says = b.plan
      BY <1>6, <2>1, <2>2, PlanWritten
    <2>4. b.hits = {c} /\ Pending(e) = {c}
      BY <1>3
    <2>5. Pending(e)' = Pending(e)
      BY <1>4, <2>1 DEF Pending
    <2>6. \A d \in Used : change'[d].says = IF d \in b.hits THEN b.plan ELSE change[d].says
      BY <1>4, <2>1, <2>3, <2>4
    <2>7. \A d \in Used' : change'[d].entity = e => VerdictFits(d)'
      BY <1>4, <1>5, <2>1 DEF VerdictFits
    <2> QED  BY <2>1, <2>3, <2>4, <2>5, <2>6, <2>7
  <1>9. CASE Rejected(b)
    <2>1. /\ b.plan = Reject /\ Used' = Used
          /\ \A c \in b.hits : /\ change'[c].status = "REJECTED" /\ change'[c].entity = change[c].entity
                               /\ change'[c].says = change[c].says
          /\ \A d \in Ids : d \notin b.hits => change'[d] = change[d]
      BY <1>9 DEF Rejected
    <2>2. Pending(e)' = {}
      BY <1>3, <1>4, <2>1 DEF Pending
    <2>3. \A d \in Used : change'[d].says = change[d].says
      BY <1>4, <2>1
    <2>4. \A d \in b.hits : verdict[d] = <<>>
      BY <1>3, <1>5 DEF Pending, VerdictFits
    <2>5. \A d \in Used' : change'[d].entity = e => VerdictFits(d)'
      BY <1>3, <1>4, <1>5, <2>1, <2>4 DEF VerdictFits
    <2> QED  BY <2>1, <2>2, <2>3, <2>5
  <1> QED  BY <1>7, <1>8, <1>9, RebuildCommits DEF IInv

LEMMA RebuildPreserves ==
  ASSUME IInv, NEW t \in Threads, CommitRebuild(t)
  PROVE  IInv'
  <1>1. TypeOK /\ TypeInv' /\ txn[t] \in Rebuild
    BY CommitRebuildTyped, RebuildCommits DEF IInv, TypeInv
  <1>2. PICK b \in Rebuild : b = txn[t]
    BY <1>1
  <1>3. PICK e \in Entities : e = b.entity
    BY RebuildFields
  <1> DEFINE view == IF b.learning \in b.hits /\ b.plan # Reject THEN b.plan ELSE b.held
             r == IF b.learning = 0 THEN Idle ELSE Rebuilt(e, b.source, b.learning, view)
  <1>4. /\ txn' = [txn EXCEPT ![t] = r] /\ b.kind = "rebuild" /\ b.step = "aimed"
        /\ Inserted(b) \/ Rewritten(b) \/ Rejected(b)
    BY <1>2, <1>3, RebuildCommits, RebuildFields DEF IInv
  <1>5. txn'[t] = r /\ \A u \in Threads : u # t => txn'[u] = txn[u]
    BY <1>1, <1>4 DEF TypeOK
  <1>6. OnlyEvent(e)
    BY <1>2, <1>3, RebuildOnlyEvent
  <1>7. UNCHANGED <<feeds, entity, verdict, ledger, raced>>
    BY DEF CommitRebuild
  <1>8. b # Idle /\ SessionFits(b)
    BY <1>1, <1>2, <1>4 DEF IInv, TypeInv, Idle
  <1>9. r = Idle \/ (r.kind = "rebuild" /\ r.entity = e)
    <2>1. \A v : LET x == Rebuilt(e, b.source, b.learning, v) IN x.kind = "rebuild" /\ x.entity = e
      BY DEF Rebuilt
    <2> QED  BY <2>1
  <1>10. RowsKept'
    BY <1>2, <1>3, RebuildObserves
  <1>11. Unissued'
    BY <1>6, <1>7 DEF OnlyEvent, RowsStay, Unissued, IInv
  <1>12. Locks'
    <2>1. \A u \in Threads : \/ txn'[u] = txn[u]
                             \/ txn'[u] = Idle
                             \/ /\ txn'[u].kind = "rebuild" /\ txn[u].kind = "rebuild"
                                /\ txn'[u].entity = txn[u].entity
      BY <1>2, <1>3, <1>4, <1>5, <1>9
    <2> QED  BY <1>7, <2>1, LocksStay
  <1>13. e \notin raced' => EventFits(e)'
    <2> SUFFICES ASSUME e \notin raced  PROVE EventFits(e)'
      BY <1>7
    <2>1. EventFits(e)
      BY DEF IInv, EventsFit
    <2>2. RebuildSees(b)
      BY <1>2, <1>3, <1>4, <1>8 DEF IInv, SessionsSee, SessionSees
    <2>3. /\ b.plan # Reject => \E c : Pending(e)' = {c} /\ change'[c].says = b.plan
          /\ b.plan = Reject => Pending(e)' = {}
          /\ \A d \in Used' : change'[d].entity = e => VerdictFits(d)'
      BY <1>2, <1>3, RebuildLeaves
    <2>4. entity'[e] = ledger'[e] /\ \A c, d \in Pending(e)' : c = d
      BY <1>7, <2>1, <2>3 DEF EventFits
    <2>5. \A c \in Pending(e)' : change'[c].says.type = "CREATED" <=> entity'[e].life # "active"
      BY <1>3, <1>4, <1>7, <2>2, <2>3 DEF RebuildSees
    <2>6. e \in owed' => Reject \in Plans(entity[e], obs'[e], refs'[e]) \/ Pending(e)' # {}
      <3>1. CASE b.plan # Reject
        BY <2>3, <3>1
      <3>2. CASE b.plan = Reject
        <4>1. b.write # "none"
          BY <1>4, <1>8, <3>2 DEF SessionFits
        <4>2. Reject \in Plans(entity[e], ObsAfter(e, b.source, b.row), RefsAfter(e, b.source, b.kept))
          BY <1>3, <1>4, <2>2, <3>2, <4>1 DEF RebuildSees
        <4> QED  BY <1>2, <1>3, <4>1, <4>2, RebuildObserves
      <3> QED  BY <3>1, <3>2
    <2>7. Plans(entity[e], obs[e], refs[e])' = Plans(entity[e], obs'[e], refs'[e])
      BY <1>7 DEF Plans
    <2>8. \A c \in Pending(e)' : Complete(change'[c].says)
      BY <1>4, <1>8, <2>3 DEF SessionFits
    <2> QED  BY <2>3, <2>4, <2>5, <2>6, <2>7, <2>8 DEF EventFits, Complete
  <1>14. ASSUME NEW u \in Threads, txn'[u] # Idle, txn'[u].entity = e, e \notin raced'
         PROVE  SessionSees(txn[u])'
    <2>1. CASE u # t
      <3>1. ~ On(u, e)
        BY <1>2, <1>3, <1>4, <1>7, <1>14, <2>1, NobodyElse DEF Unlocked
      <3> QED  BY <1>5, <1>14, <2>1, <3>1 DEF On
    <2>2. CASE u = t
      <3>1. b.learning # 0 /\ txn'[u] = Rebuilt(e, b.source, b.learning, view)
        BY <1>5, <1>14, <2>2
      <3>2. /\ txn'[u].kind = "rebuild" /\ txn'[u].step = "rebuilt"
            /\ txn'[u].learning = b.learning /\ txn'[u].held = view
        BY <3>1 DEF Rebuilt
      <3>3. RebuildSees(b) /\ b.learning \in Used
        BY <1>2, <1>3, <1>4, <1>7, <1>8, <1>14, <3>1
           DEF IInv, SessionsSee, SessionSees, SessionFits, About
      <3>4. change'[b.learning].says = IF b.plan # Reject /\ b.learning \in b.hits THEN b.plan
                                       ELSE change[b.learning].says
        BY <1>2, <1>3, <1>7, <1>14, <3>3, RebuildLeaves
      <3>5. view = change'[b.learning].says
        BY <3>1, <3>3, <3>4 DEF RebuildSees
      <3> HIDE DEF view
      <3> QED  BY <3>2, <3>5 DEF SessionSees, RebuildSees
    <2> QED  BY <2>1, <2>2
  <1>15. \A u \in Threads : txn'[u] = txn[u] \/ txn'[u] = Idle \/ txn'[u].entity = e
    BY <1>5, <1>9
  <1> QED  BY <1>1, <1>6, <1>10, <1>11, <1>12, <1>13, <1>14, <1>15, EventStepPreserves

-----------------------------------------------------------------------------
(* The commits of an approval and of an edit.                              *)

\* What an UPDATE leaves alone it leaves alone, ...
LEMMA NothingWritten ==
  ASSUME NEW now \in Row, NEW copy \in Row
  PROVE  WrittenRow(now, copy, copy) = now
  BY DEF WrittenRow, Written, Row

\* ... and over the row that was read it writes the new one.
LEMMA AllWritten ==
  ASSUME NEW now \in Row, NEW new \in Row
  PROVE  WrittenRow(now, now, new) = new
  BY DEF WrittenRow, Written, Row

\* An approval writes what it would have made of the row as it is, although its copy
\* may lack the support noted since.
LEMMA ApprovalWrites ==
  ASSUME NEW now \in Row, NEW copy \in Row, NEW says \in Says,
         copy.life = now.life, copy.content = now.content
  PROVE  WrittenRow(now, copy, Applied(copy, says)) = Applied(now, says)
  <1>1. Applied(now, says) \in Row /\ Applied(copy, says) \in Row
    BY AppliedType
  <1>2. WrittenRow(now, copy, Applied(copy, says)) \in Row
    BY <1>1, WrittenRowType
  <1>3. /\ Applied(copy, says).life = Applied(now, says).life
        /\ Applied(copy, says).content = Applied(now, says).content
        /\ Applied(copy, says).manual = copy.manual
        /\ Applied(now, says).manual = now.manual
    BY AppliedFields
  <1> DEFINE w == WrittenRow(now, copy, Applied(copy, says))
  <1>4. w.life = Applied(now, says).life /\ w.content = Applied(now, says).content
    BY <1>3 DEF WrittenRow, Written
  <1>5. w.manual = Applied(now, says).manual
    BY <1>3 DEF WrittenRow, Written
  <1> HIDE DEF w
  <1> QED  BY <1>1, <1>2, <1>4, <1>5, SameRow DEF w

LEMMA ApprovalPreserves ==
  ASSUME IInv, NEW t \in Threads, CommitApproval(t)
  PROVE  IInv'
  <1>1. TypeOK /\ TypeInv' /\ txn[t] \in Decide
    BY CommitApprovalTyped, ApprovalCommits DEF IInv, TypeInv
  <1>2. PICK b \in Decide : b = txn[t]
    BY <1>1
  <1>3. PICK e \in Entities, c \in Ids : e = b.entity /\ c = b.change
    BY DEF Decide
  <1>4. b.kind = "decide" /\ b # Idle /\ b.says \in Says /\ b.copy \in Row
    BY DEF Decide, Idle
  <1> DEFINE new == Applied(b.copy, b.says)
  <1>5. /\ c \in Used /\ change[c].entity = e /\ new \in Row
        /\ RowsStay /\ lastId' = lastId
        /\ change'[c].status = "APPROVED" /\ change'[c].entity = e
        /\ \A d \in Ids : d # c => change'[d] = change[d]
        /\ entity'[e] = WrittenRow(entity[e], b.copy, new)
        /\ ledger'[e] = Applied(ledger[e], b.says)
        /\ \A f \in Entities : f # e => entity'[f] = entity[f] /\ ledger'[f] = ledger[f]
        /\ verdict'[c] = Append(verdict[c], "approve")
        /\ \A d \in Ids : d # c => verdict'[d] = verdict[d]
        /\ txn' = [txn EXCEPT ![t] = Idle]
    BY <1>2, <1>3, ApprovalCommits DEF IInv
  <1>6. /\ new # b.copy => ~RowLocked(e, t)
        /\ owed' = owed \ {e} /\ UNCHANGED <<obs, refs, raced>>
    BY <1>2, <1>3 DEF CommitApproval, observed
  <1> HIDE DEF new
  <1>7. Used' = Used /\ Used \subseteq Ids
    BY <1>1, <1>5, UsedChange DEF Used
  <1>8. txn'[t] = Idle /\ \A u \in Threads : u # t => txn'[u] = txn[u]
    BY <1>1, <1>5 DEF TypeOK
  <1>9. OnlyEvent(e)
    BY <1>5, <1>6, <1>7 DEF OnlyEvent
  <1>10. RowsKept' /\ Unissued'
    BY <1>5, <1>6, <1>7 DEF RowsKept, Unissued, IInv
  <1>11. Locks'
    <2>1. ASSUME NEW u \in Threads, txn'[u] = txn[u], txn[u].kind = "edit", txn[u].copy # NoRow
          PROVE  entity'[txn[u].entity] = entity[txn[u].entity]
      <3>1. CASE txn[u].entity = e
        <4>1. u # t /\ HoldsRow(u, e)
          BY <1>2, <1>4, <2>1, <3>1 DEF HoldsRow
        <4>2. new = b.copy
          BY <1>6, <4>1 DEF RowLocked
        <4>3. entity[e] \in Row
          BY <1>1 DEF TypeOK
        <4> QED  BY <1>4, <1>5, <3>1, <4>2, <4>3, NothingWritten
      <3>2. CASE txn[u].entity # e
        <4>1. txn[u].entity \in Entities
          BY <1>1, <2>1, SessionKinds DEF TypeOK, Idle
        <4> QED  BY <1>5, <3>2, <4>1
      <3> QED  BY <3>1, <3>2
    <2> QED  BY <1>6, <1>8, <2>1, LocksStay
  <1>12. ASSUME e \notin raced
         PROVE  /\ DecisionSees(b) /\ EventFits(e) /\ c \in Pending(e)
                /\ \A d \in Pending(e) : d = c
    <2>1. DecisionSees(b) /\ EventFits(e)
      BY <1>2, <1>3, <1>4, <1>12 DEF IInv, SessionsSee, SessionSees, EventsFit
    <2>2. c \in Pending(e)
      BY <1>3, <1>5, <2>1 DEF DecisionSees, Pending
    <2> QED  BY <2>1, <2>2 DEF EventFits
  <1>13. e \notin raced' => EventFits(e)'
    <2> SUFFICES ASSUME e \notin raced  PROVE EventFits(e)'
      BY <1>6
    <2>1. entity'[e] = ledger'[e]
      <3>1. b.copy.life = entity[e].life /\ b.copy.content = entity[e].content
        BY <1>3, <1>4, <1>12 DEF DecisionSees
      <3>2. entity[e] = ledger[e] /\ entity[e] \in Row
        BY <1>1, <1>12 DEF EventFits, TypeOK
      <3>3. WrittenRow(entity[e], b.copy, new) = Applied(entity[e], b.says)
        BY <1>4, <3>1, <3>2, ApprovalWrites DEF new
      <3> QED  BY <1>5, <3>2, <3>3
    <2>2. Pending(e)' = {}
      BY <1>5, <1>7, <1>12 DEF Pending
    <2>3. verdict'[c] = <<"approve">>
      BY <1>5, <1>12, AppendOne DEF EventFits, VerdictFits, Pending
    <2>4. \A d \in Used' : change'[d].entity = e => VerdictFits(d)'
      BY <1>5, <1>7, <1>12, <2>3 DEF EventFits, VerdictFits
    <2>5. e \notin owed'
      BY <1>6
    <2> QED  BY <2>1, <2>2, <2>4, <2>5 DEF EventFits
  <1>14. ASSUME NEW u \in Threads, txn'[u] # Idle, txn'[u].entity = e, e \notin raced'
         PROVE  SessionSees(txn[u])'
    <2>1. u # t /\ txn'[u] = txn[u] /\ On(u, e) /\ On(t, e) /\ e \notin raced
      BY <1>2, <1>3, <1>4, <1>6, <1>8, <1>14 DEF On
    <2>2. txn[u].kind \notin Unlocked
      BY <2>1 DEF IInv, Locks, Alone
    <2>3. txn[u].kind # "decide"
      <3> SUFFICES ASSUME txn[u].kind = "decide"  PROVE FALSE
        OBVIOUS
      <3>1. DecisionSees(txn[u]) /\ About(txn[u].change, e)
        BY <1>1, <1>6, <1>14, <2>1
           DEF IInv, SessionsSee, SessionSees, TypeInv, SessionFits, On
      <3>2. txn[u].change = c
        BY <1>12, <2>1, <3>1 DEF DecisionSees, About, Pending
      <3> QED  BY <1>2, <1>3, <1>4, <2>1, <3>2 DEF IInv, Locks, LocksExclude
    <2> QED  BY <2>1, <2>2, <2>3 DEF SessionSees, Unlocked
  <1>15. \A u \in Threads : txn'[u] = txn[u] \/ txn'[u] = Idle
    BY <1>8
  <1> QED  BY <1>1, <1>9, <1>10, <1>11, <1>13, <1>14, <1>15, EventStepPreserves

LEMMA EditPreserves ==
  ASSUME IInv, NEW t \in Threads, CommitEdit(t)
  PROVE  IInv'
  <1>1. TypeOK /\ TypeInv' /\ txn[t] \in Edit
    BY CommitEditTyped, EditCommits DEF IInv, TypeInv
  <1>2. PICK b \in Edit : b = txn[t]
    BY <1>1
  <1>3. PICK e \in Entities, n \in Ids : e = b.entity /\ n = lastId + 1
    BY <1>2, EditCommits DEF IInv
  <1>4. b.kind = "edit" /\ b # Idle /\ b.says \in Says /\ b.copy \in Row
    BY DEF Edit, Idle
  <1>5. /\ n \notin Used /\ lastId' = n /\ Used' = Used \cup {n} /\ RowsStay
        /\ change'[n].status = "APPROVED" /\ change'[n].entity = e
        /\ \A d \in Pending(e) : change'[d].status = "REJECTED" /\ change'[d].entity = e
        /\ \A d \in Ids : d # n /\ d \notin Pending(e) => change'[d] = change[d]
        /\ entity'[e] = IF b.copy = NoRow THEN Edited(entity[e], b.says)
                        ELSE WrittenRow(entity[e], b.copy, Edited(b.copy, b.says))
        /\ ledger'[e] = Edited(ledger[e], b.says)
        /\ \A f \in Entities : f # e => entity'[f] = entity[f] /\ ledger'[f] = ledger[f]
        /\ verdict'[n] = Append(verdict[n], "approve")
        /\ \A d \in Ids : d # n => verdict'[d] = verdict[d]
        /\ txn' = [txn EXCEPT ![t] = Idle]
    BY <1>2, <1>3, EditCommits DEF IInv
  <1>6. /\ ~RowLocked(e, t) /\ \A c \in Pending(e) : ~ChangeLocked(c)
        /\ owed' = owed \ {e} /\ UNCHANGED <<obs, refs, raced>>
    BY <1>2, <1>3 DEF CommitEdit, observed
  <1>7. Used \subseteq Ids /\ Pending(e) \subseteq Used
    BY <1>1, UsedChange, PendingUsed
  <1>8. txn'[t] = Idle /\ \A u \in Threads : u # t => txn'[u] = txn[u]
    BY <1>1, <1>5 DEF TypeOK
  <1>9. OnlyEvent(e)
    BY <1>5, <1>6, <1>7 DEF OnlyEvent, Pending
  <1>10. RowsKept' /\ Unissued'
    BY <1>5, <1>6 DEF RowsKept, Unissued, IInv
  <1>11. Locks'
    <2>1. ASSUME NEW u \in Threads, txn'[u] = txn[u], txn[u].kind = "edit", txn[u].copy # NoRow
          PROVE  entity'[txn[u].entity] = entity[txn[u].entity]
      <3>1. u # t
        BY <1>2, <1>4, <1>8, <2>1
      <3>2. txn[u].entity # e
        BY <1>6, <2>1, <3>1 DEF RowLocked, HoldsRow
      <3>3. txn[u].entity \in Entities
        BY <1>1, <2>1, SessionKinds DEF TypeOK, Idle
      <3> QED  BY <1>5, <3>2, <3>3
    <2> QED  BY <1>6, <1>8, <2>1, LocksStay
  <1>12. e \notin raced' => EventFits(e)'
    <2> SUFFICES ASSUME e \notin raced  PROVE EventFits(e)'
      BY <1>6
    <2>1. EventFits(e) /\ entity[e] \in Row
      BY <1>1 DEF IInv, EventsFit, TypeOK
    <2>2. entity'[e] = ledger'[e]
      <3>1. CASE b.copy = NoRow
        BY <1>5, <2>1, <3>1 DEF EventFits
      <3>2. CASE b.copy # NoRow
        <4>1. entity[e] = b.copy
          BY <1>2, <1>3, <1>4, <3>2 DEF IInv, Locks, EditsHold
        <4>2. Edited(b.copy, b.says) \in Row
          BY <1>4, EditedType
        <4> QED  BY <1>4, <1>5, <2>1, <3>2, <4>1, <4>2, AllWritten DEF EventFits
      <3> QED  BY <3>1, <3>2
    <2>3. Pending(e)' = {}
      BY <1>5, <1>7 DEF Pending
    <2>4. verdict'[n] = <<"approve">>
      BY <1>5, AppendOne DEF IInv, Unissued
    <2>5. \A d \in Pending(e) : verdict'[d] = <<>>
      BY <1>5, <1>7, <2>1 DEF EventFits, VerdictFits, Pending
    <2>6. ASSUME NEW d \in Used', change'[d].entity = e  PROVE VerdictFits(d)'
      <3>1. CASE d = n
        BY <1>5, <2>4, <3>1 DEF VerdictFits
      <3>2. CASE d \in Pending(e)
        BY <1>5, <2>5, <3>2 DEF VerdictFits
      <3>3. CASE d # n /\ d \notin Pending(e)
        <4>1. d \in Used /\ change'[d] = change[d] /\ verdict'[d] = verdict[d]
          BY <1>5, <1>7, <3>3
        <4> QED  BY <2>1, <2>6, <4>1 DEF EventFits, VerdictFits
      <3> QED  BY <3>1, <3>2, <3>3
    <2>7. e \notin owed'
      BY <1>6
    <2> QED  BY <2>2, <2>3, <2>6, <2>7 DEF EventFits
  <1>13. ASSUME NEW u \in Threads, txn'[u] # Idle, txn'[u].entity = e, e \notin raced'
         PROVE  SessionSees(txn[u])'
    <2>1. u # t /\ txn'[u] = txn[u] /\ On(u, e) /\ On(t, e) /\ e \notin raced
      BY <1>2, <1>3, <1>4, <1>6, <1>8, <1>13 DEF On
    <2>2. txn[u].kind \notin Unlocked
      BY <2>1 DEF IInv, Locks, Alone
    <2>3. txn[u].kind # "decide"
      <3> SUFFICES ASSUME txn[u].kind = "decide"  PROVE FALSE
        OBVIOUS
      <3>1. DecisionSees(txn[u]) /\ About(txn[u].change, e)
        BY <1>1, <1>6, <1>13, <2>1
           DEF IInv, SessionsSee, SessionSees, TypeInv, SessionFits, On
      <3>2. txn[u].change \in Pending(e)
        BY <3>1 DEF DecisionSees, About, Pending
      <3> QED  BY <1>6, <3>2 DEF ChangeLocked
    <2> QED  BY <2>1, <2>2, <2>3 DEF SessionSees, Unlocked
  <1>14. \A u \in Threads : txn'[u] = txn[u] \/ txn'[u] = Idle
    BY <1>8
  <1> QED  BY <1>1, <1>9, <1>10, <1>11, <1>12, <1>13, <1>14, EventStepPreserves

-----------------------------------------------------------------------------
(* Every step preserves the invariant.                                     *)

LEMMA FeedPreserves ==
  ASSUME IInv, NEW t \in Threads, Feed(t)
  PROVE  IInv'
  <1>1. Nothing \in Content /\ Payloads \subseteq Content /\ Nothing \notin Payloads
    BY NothingAssumption DEF Content
  <1>2. ASSUME NEW e \in Entities, NEW s \in Sources, NEW p \in Payloads, Observe(t, e, s, p)
        PROVE  IInv'
    BY <1>1, <1>2, RebuildMayBegin DEF Observe
  <1>3. ASSUME NEW e \in Entities, NEW s \in Sources, NEW p \in Payloads,
               RebuildUserWorkItemState(t, e, s, p)
        PROVE  IInv'
    BY <1>1, <1>3, RebuildMayBegin DEF RebuildUserWorkItemState
  <1>4. ASSUME NEW e \in Entities, NEW s \in Sources, Vanish(t, e, s)  PROVE IInv'
    BY <1>1, <1>4, RebuildMayBegin DEF Vanish
  <1>5. ASSUME NEW e \in Entities, NEW s \in Sources, Rescope(t, e, s)  PROVE IInv'
    BY <1>1, <1>5, RebuildMayBegin DEF Rescope
  <1> QED  BY <1>2, <1>3, <1>4, <1>5, RetirePreserves, DirectiveMayBegin DEF Feed

LEMMA DecisionPreserves ==
  ASSUME IInv, NEW t \in Threads, Decision(t)
  PROVE  IInv'
  <1>1. ASSUME NEW c \in Ids, NEW s \in Sources, NEW p \in Payloads, LearnLabel(t, c, s, p)
        PROVE  IInv'
    <2>1. p \in Content
      BY DEF Content
    <2>2. c \in Used /\ RebuildBegins(t, change[c].entity, s, p, TRUE, "late", c)
      BY <1>1 DEF LearnLabel
    <2>3. change[c].entity \in Entities
      BY <2>2, UsedChange DEF IInv, TypeInv
    <2> QED  BY <2>1, <2>2, <2>3, RebuildMayBegin
  <1> QED  BY <1>1, ApprovalMayBegin, RejectPreserves, EditProposalPreserves, LearningMayBegin,
              EditMayBegin, KeepPreserves, CreatePreserves DEF Decision

LEMMA GoesPreserves ==
  ASSUME IInv, NEW t \in Threads, Goes(t)
  PROVE  IInv'
  <1>1. ASSUME Abort(t)  PROVE IInv'
    BY <1>1, SessionAborts, EndPreserves DEF IInv, TypeInv
  <1> QED  BY <1>1, RebuildMayAim, RebuildPreserves, LearningMayPick, LearningMayLock,
              ApprovalPreserves, EditPreserves DEF Goes

LEMMA IInvNext == IInv /\ [Next]_vars => IInv'
  <1> SUFFICES ASSUME IInv, [Next]_vars  PROVE IInv'
    OBVIOUS
  <1>1. CASE Next
    BY <1>1, FeedPreserves, DecisionPreserves, GoesPreserves DEF Next
  <1>2. CASE UNCHANGED vars
    <2>1. /\ UNCHANGED <<obs, refs, entity, change, lastId, txn, verdict, ledger, owed, raced>>
          /\ TypeInv' /\ Used' = Used
      BY <1>2, TypeInvNext DEF vars, IInv, Used
    <2>2. RowsKept' /\ Unissued' /\ Locks'
      BY <2>1 DEF IInv, RowsKept, Unissued, Locks, EditsHold, LocksExclude, HoldsRow, Alone, On
    <2>3. SessionsSee'
      <3>1. \A e : Pending(e)' = Pending(e)
        BY <2>1 DEF Pending
      <3> SUFFICES ASSUME NEW t \in Threads, txn[t] # Idle, txn[t].entity \notin raced
                   PROVE  SessionSees(txn[t])'
        BY <2>1 DEF SessionsSee, Idle
      <3>2. SessionSees(txn[t])
        BY DEF IInv, SessionsSee
      <3>3. RebuildSees(txn[t]) => RebuildSees(txn[t])'
        BY <2>1, <3>1 DEF RebuildSees, ObsAfter, RefsAfter, Plans
      <3>4. DecisionSees(txn[t]) => DecisionSees(txn[t])'
        BY <2>1 DEF DecisionSees
      <3> QED  BY <2>1, <3>2, <3>3, <3>4 DEF SessionSees
    <2>4. EventsFit'
      <3> SUFFICES ASSUME NEW e \in Entities, e \notin raced'  PROVE EventFits(e)'
        BY DEF EventsFit
      <3>1. EventFits(e) /\ Pending(e)' = Pending(e)
        BY <2>1 DEF IInv, EventsFit, Pending
      <3> QED  BY <2>1, <3>1 DEF EventFits, VerdictFits, Plans, Complete
    <2> QED  BY <2>1, <2>2, <2>3, <2>4 DEF IInv
  <1> QED  BY <1>1, <1>2

\* Without an overlap with a session that takes no locks, the approved state of an event
\* is what the approvals and edits add up to in the order they committed: none of them
\* gets lost, is mixed with another or is done twice.
THEOREM ApprovalsAddUp == Spec => []StateFromApprovals
  BY IInvInit, IInvNext, Consequences, PTL DEF Spec

\* Without such an overlap there is at most one open proposal for an event, it is of a kind
\* that the event's state allows, ...
THEOREM ProposalSuitsEvent == Spec => []OneFittingProposal
  BY IInvInit, IInvNext, Consequences, PTL DEF Spec

\* ... and every change has the decision event its status calls for, once.
THEOREM DecidedOnce == Spec => []VerdictMatches
  BY IInvInit, IInvNext, Consequences, PTL DEF Spec

\* Without such an overlap, what the sources say is either the approved state, or a
\* proposal for it is open, or the user has decided since.
THEOREM DriftIsProposed == Spec => []NoSilentDrift
  BY IInvInit, IInvNext, Consequences, PTL DEF Spec

-----------------------------------------------------------------------------
(* A change that was decided is never touched again.                       *)

LEMMA NotTouched ==
  ASSUME IInv, Next, NEW c \in Used, change[c].status # "PENDING",
         change[c].entity \notin raced'
  PROVE  change'[c] = change[c]
  <1>1. TypeOK /\ TypeInv /\ c \in Ids
    BY UsedChange DEF IInv, TypeInv
  <1>2. CASE UNCHANGED change
    BY <1>2
  <1>3. ASSUME NEW d \in Ids, RejectChange(d)  PROVE change'[c] = change[c]
    BY <1>1, <1>3, RejectRows
  <1>4. ASSUME NEW d \in Ids, NEW p \in Payloads, EditProposal(d, p)
        PROVE  change'[c] = change[c]
    BY <1>1, <1>4, EditRows
  <1>5. ASSUME NEW e \in Entities, NEW p \in Payloads, CreateManualEvent(e, p)
        PROVE  change'[c] = change[c]
    BY <1>1, <1>5, ManualCreated
  <1>6. ASSUME NEW t \in Threads, CommitRebuild(t)  PROVE change'[c] = change[c]
    <2>1. PICK b \in Rebuild : b = txn[t]
      BY <1>1, <1>6, RebuildCommits
    <2>2. /\ Inserted(b) \/ Rewritten(b) \/ Rejected(b)
          /\ b.kind = "rebuild" /\ b.step = "aimed" /\ b # Idle /\ raced' = raced
      <3>1. (Inserted(b) \/ Rewritten(b) \/ Rejected(b)) /\ b.step = "aimed"
        BY <1>1, <1>6, <2>1, RebuildCommits
      <3>2. b.kind = "rebuild" /\ b # Idle
        BY RebuildFields DEF Idle
      <3>3. raced' = raced
        BY <1>6 DEF CommitRebuild
      <3> QED  BY <3>1, <3>2, <3>3
    <2>3. c \notin b.hits
      <3> SUFFICES ASSUME c \in b.hits  PROVE FALSE
        OBVIOUS
      <3>1. change[c].entity = b.entity
        BY <1>1, <2>1, <2>2 DEF TypeInv, SessionFits, About
      <3>2. RebuildSees(b)
        BY <2>1, <2>2, <3>1 DEF IInv, SessionsSee, SessionSees
      <3> QED  BY <2>2, <3>2 DEF RebuildSees, Pending
    <2>4. CASE Inserted(b)
      BY <1>1, <2>4 DEF Inserted
    <2>5. CASE Rewritten(b)
      BY <1>1, <2>3, <2>5 DEF Rewritten
    <2>6. CASE Rejected(b)
      BY <1>1, <2>3, <2>6 DEF Rejected
    <2> QED  BY <2>2, <2>4, <2>5, <2>6
  <1>7. ASSUME NEW t \in Threads, CommitApproval(t)  PROVE change'[c] = change[c]
    <2>1. PICK b \in Decide : b = txn[t]
      BY <1>1, <1>7, ApprovalCommits
    <2>2. /\ b.kind = "decide" /\ b # Idle /\ raced' = raced
          /\ change[b.change].entity = b.entity
          /\ \A d \in Ids : d # b.change => change'[d] = change[d]
      <3>1. /\ change[b.change].entity = b.entity
            /\ \A d \in Ids : d # b.change => change'[d] = change[d]
        BY <1>1, <1>7, <2>1, ApprovalCommits
      <3>2. b.kind = "decide" /\ b # Idle
        BY DEF Decide, Idle
      <3>3. raced' = raced
        BY <1>7 DEF CommitApproval
      <3> QED  BY <3>1, <3>2, <3>3
    <2>3. c # b.change
      BY <2>1, <2>2 DEF IInv, SessionsSee, SessionSees, DecisionSees
    <2> QED  BY <1>1, <2>2, <2>3
  <1>8. ASSUME NEW t \in Threads, CommitEdit(t)  PROVE change'[c] = change[c]
    <2> DEFINE e == txn[t].entity
    <2>1. /\ lastId + 1 \notin Used
          /\ \A d \in Ids : d # lastId + 1 /\ d \notin Pending(e) => change'[d] = change[d]
      BY <1>1, <1>8, EditCommits
    <2>2. c \notin Pending(e)
      BY DEF Pending
    <2> QED  BY <1>1, <2>1, <2>2
  <1>9. ASSUME NEW t \in Threads, Feed(t)  PROVE change' = change
    <2>1. ASSUME NEW e, NEW s, NEW row, NEW kept, NEW write, NEW learning,
                 RebuildBegins(t, e, s, row, kept, write, learning)
          PROVE  change' = change
      BY <2>1 DEF RebuildBegins, reviewed
    <2>2. ASSUME NEW e, NEW s, NEW p, RetireObservation(e, s) \/ ApplyDirective(t, e, s, p)
          PROVE  change' = change
      BY <2>2 DEF RetireObservation, ApplyDirective, reviewed
    <2> QED  BY <1>9, <2>1, <2>2 DEF Feed, Vanish, Rescope, Observe, RebuildUserWorkItemState
  <1>10. ASSUME NEW t \in Threads, Decision(t)  PROVE change'[c] = change[c]
    BY <1>2, <1>3, <1>4, <1>5, <1>10 DEF Decision, Approve, LearnKnownLabel, LearnLabel,
       RebuildBegins, DeleteEvent, KeepEvent, EditEvent, reviewed
  <1>11. ASSUME NEW t \in Threads, Goes(t)  PROVE change'[c] = change[c]
    BY <1>2, <1>6, <1>7, <1>8, <1>11 DEF Goes, ReadPending, PickRebuilt, LockPicked, Abort, reviewed
  <1> QED  BY <1>9, <1>10, <1>11 DEF Next

\* Without an overlap with a session that takes no locks, a change that was decided is
\* never touched again: neither its status nor what it says.
THEOREM DecidedStaysAsIs == Spec => DecidedIsFinal
  <1>1. IInv /\ [Next]_vars =>
           [\A c \in Used : change[c].status # "PENDING" /\ change[c].entity \notin raced'
                => change'[c] = change[c]]_vars
    BY NotTouched
  <1> QED  BY <1>1, IInvInit, IInvNext, PTL DEF Spec, DecidedIsFinal

-----------------------------------------------------------------------------
(* The review implements ReviewedEvents.                                   *)

OpenOf(e) == {[id |-> c, says |-> change[c].says] : c \in Pending(e)}

\* A step that changes rows of one event only, as a reader of the others sees it.
LEMMA OpenElsewhere ==
  ASSUME IInv, NEW f, OnlyEvent(f), NEW e, e # f
  PROVE  OpenOf(e)' = OpenOf(e)
  <1>1. Pending(e)' = Pending(e)
    BY OtherPending
  <1>2. \A c \in Pending(e) : change'[c] = change[c]
    BY DEF OnlyEvent, Pending
  <1> QED  BY <1>1, <1>2 DEF OpenOf

\* What is open for an event is what may be proposed for it.
OpensFit == \A e \in Entities : e \notin raced => OpenOf(e) \subseteq Reviewed!Fitting(entity[e])

LEMMA OpenFits == IInv => OpensFit
  <1> SUFFICES ASSUME IInv, NEW e \in Entities, e \notin raced
               PROVE  OpenOf(e) \subseteq Reviewed!Fitting(entity[e])
    BY DEF OpensFit
  <1>1. TypeOK /\ EventFits(e)
    BY DEF IInv, TypeInv, EventsFit
  <1>2. ASSUME NEW c \in Pending(e)
        PROVE  [id |-> c, says |-> change[c].says] \in Reviewed!Fitting(entity[e])
    <2>1. c \in Ids /\ change[c].says \in Says
      BY <1>1, PendingUsed, UsedChange
    <2>2. Complete(change[c].says) /\ (change[c].says.type = "CREATED" <=> entity[e].life # "active")
      BY <1>1 DEF EventFits
    <2>3. change[c].says \in Reviewed!Says
      BY <2>1, <2>2 DEF Reviewed!Says, Reviewed!Removal, Says, Types, Content, Complete
    <2> QED  BY <2>1, <2>2, <2>3 DEF Reviewed!Fitting, Reviewed!Fits
  <1> QED  BY <1>2 DEF OpenOf

\* A step about event f, in the terms of the abstract specification: the promise ends for
\* the event, or the step changes its state and its proposals.
LEMMA StepOnEvent ==
  ASSUME IInv, IInv', NEW f \in Entities, raced \subseteq raced', raced' \subseteq raced \cup {f},
         \A e \in Entities : e # f => entity'[e] = entity[e] /\ OpenOf(e)' = OpenOf(e)
  PROVE  /\ f \in raced' => Reviewed!Unwatch(f)
         /\ f \notin raced' => /\ \A S : S = OpenOf(f)' => Reviewed!Becomes(f, entity'[f], S)
                               /\ stateBar[f] = entity[f] /\ openBar[f] = OpenOf(f)
                               /\ openBar'[f] = OpenOf(f)'
  <1>1. /\ stateBar = [e \in Entities |-> IF e \in raced THEN NoRow ELSE entity[e]]
        /\ stateBar' = [e \in Entities |-> IF e \in raced' THEN NoRow ELSE entity'[e]]
        /\ openBar = [e \in Entities |-> IF e \in raced THEN {} ELSE OpenOf(e)]
        /\ openBar' = [e \in Entities |-> IF e \in raced' THEN {} ELSE OpenOf(e)']
    BY DEF stateBar, openBar, OpenOf
  <1>2. CASE f \in raced'
    <2>1. Entities \ raced' = (Entities \ raced) \ {f}
      BY <1>2
    <2>2. stateBar' = [stateBar EXCEPT ![f] = NoRow]
      BY <1>1, <1>2
    <2>3. openBar' = [openBar EXCEPT ![f] = {}]
      BY <1>1, <1>2
    <2> QED  BY <1>2, <2>1, <2>2, <2>3 DEF Reviewed!Unwatch, Reviewed!NoState, NoRow
  <1>3. CASE f \notin raced'
    <2>1. raced' = raced
      BY <1>3
    <2>2. stateBar' = [stateBar EXCEPT ![f] = entity'[f]]
      BY <1>1, <1>3, <2>1
    <2>3. openBar' = [openBar EXCEPT ![f] = OpenOf(f)']
      BY <1>1, <1>3, <2>1
    <2> QED  BY <1>1, <1>3, <2>1, <2>2, <2>3 DEF Reviewed!Becomes
  <1> QED  BY <1>2, <1>3

\* A step that leaves the state of its event alone proposes, revises or drops.
LEMMA ProposalsMove ==
  ASSUME IInv, IInv', NEW f \in Entities, raced \subseteq raced', raced' \subseteq raced \cup {f},
         \A e \in Entities : e # f => entity'[e] = entity[e] /\ OpenOf(e)' = OpenOf(e),
         f \notin raced' =>
            /\ entity'[f] = entity[f]
            /\ Pending(f) = {} \/ Pending(f)' = {} \/ Pending(f)' = Pending(f)
  PROVE  Reviewed!Next
  <1>1. CASE f \in raced'
    BY <1>1, StepOnEvent DEF Reviewed!Next
  <1>2. CASE f \notin raced'
    <2>1. /\ Reviewed!Becomes(f, entity[f], OpenOf(f)')
          /\ stateBar[f] = entity[f] /\ openBar[f] = OpenOf(f) /\ openBar'[f] = OpenOf(f)'
      BY <1>2, StepOnEvent
    <2>2. /\ \A c, d \in Pending(f) : c = d
          /\ \A c, d \in Pending(f)' : c = d
      BY <1>2 DEF IInv, EventsFit, EventFits
    <2>3. OpenOf(f)' \subseteq Reviewed!Fitting(entity[f])
      <3>1. OpensFit'
        BY OpenFits, PTL
      <3> QED  BY <1>2, <3>1 DEF OpensFit, Reviewed!Fitting
    <2>4. CASE Pending(f)' = {}
      <3>1. OpenOf(f)' = {}
        BY <2>4 DEF OpenOf
      <3> QED  BY <2>1, <3>1 DEF Reviewed!Next, Reviewed!Drop
    <2>5. ASSUME NEW c \in Pending(f)'  PROVE Reviewed!Next
      <3> DEFINE q == [id |-> c, says |-> change'[c].says]
      <3>1. OpenOf(f)' = {q}
        BY <2>2, <2>5 DEF OpenOf
      <3>2. CASE Pending(f) = {}
        <4>1. OpenOf(f) = {}
          BY <3>2 DEF OpenOf
        <4> HIDE DEF q
        <4> QED  BY <2>1, <2>3, <3>1, <4>1 DEF Reviewed!Next, Reviewed!Propose
      <3>3. CASE Pending(f)' = Pending(f)
        <4> DEFINE p == [id |-> c, says |-> change[c].says]
        <4>1. p \in OpenOf(f) /\ q.id = p.id
          BY <2>5, <3>3 DEF OpenOf
        <4> HIDE DEF p, q
        <4>2. p \in openBar[f] /\ q \in openBar'[f] /\ q \in Reviewed!Fitting(stateBar[f])
          BY <2>1, <2>3, <3>1, <4>1
        <4>3. Reviewed!Becomes(f, stateBar[f], {q})
          BY <2>1, <3>1
        <4>4. Reviewed!Revise(f)
          BY <4>1, <4>2, <4>3 DEF Reviewed!Revise
        <4> QED  BY <4>4 DEF Reviewed!Next
      <3> QED  BY <1>2, <2>5, <3>2, <3>3
    <2> QED  BY <2>4, <2>5
  <1> QED  BY <1>1, <1>2

\* Steps that change no row: a session begins, goes on, waits or breaks off.
LEMMA SessionsUnseen ==
  ASSUME IInv, IInv', UNCHANGED <<entity, change, lastId>>,
         \E f \in Entities : raced \subseteq raced' /\ raced' \subseteq raced \cup {f}
  PROVE  Reviewed!Next
  <1>1. PICK f \in Entities : raced \subseteq raced' /\ raced' \subseteq raced \cup {f}
    OBVIOUS
  <1>2. \A e : Pending(e)' = Pending(e) /\ OpenOf(e)' = OpenOf(e)
    BY DEF OpenOf, Pending, Used
  <1> QED  BY <1>1, <1>2, ProposalsMove

\* The commit of a rebuild.
LEMMA RebuildReviewed ==
  ASSUME IInv, IInv', NEW t \in Threads, CommitRebuild(t)
  PROVE  Reviewed!Next
  <1>1. txn[t] \in Rebuild
    BY RebuildCommits DEF IInv
  <1>2. PICK b \in Rebuild, e \in Entities : b = txn[t] /\ e = b.entity
    BY <1>1, RebuildFields
  <1>3. OnlyEvent(e) /\ UNCHANGED <<entity, raced>>
    BY <1>2, RebuildOnlyEvent DEF CommitRebuild
  <1>4. e \notin raced => \/ Pending(e) = {}
                          \/ Pending(e)' = {}
                          \/ Pending(e)' = Pending(e)
    BY <1>2, RebuildLeaves
  <1> QED  BY <1>3, <1>4, OpenElsewhere, ProposalsMove

\* The user rejects a proposal, ...
LEMMA RejectReviewed ==
  ASSUME IInv, IInv', NEW c \in Ids, RejectChange(c)
  PROVE  Reviewed!Next
  <1>0. PICK f \in Entities : f = change[c].entity
    BY RejectRows, UsedChange DEF IInv, TypeInv
  <1>1. TypeOK
    BY DEF IInv, TypeInv
  <1>2. /\ c \in Used /\ change[c].status = "PENDING"
        /\ \A d \in Ids : d # c => change'[d] = change[d]
        /\ change'[c].status = "REJECTED" /\ change'[c].entity = f
        /\ lastId' = lastId /\ Used' = Used /\ Used \subseteq Ids
    BY <1>0, <1>1, RejectRows, UsedChange DEF Used
  <1>3. /\ entity' = entity /\ raced \subseteq raced' /\ raced' \subseteq raced \cup {f}
    BY <1>0, <1>1, MeetsRaces DEF RejectChange
  <1>4. \A e : e # f => OpenOf(e)' = OpenOf(e)
    BY <1>0, <1>2 DEF OpenOf, Pending
  <1>5. f \notin raced' => Pending(f)' = {}
    <2> SUFFICES ASSUME f \notin raced'  PROVE Pending(f)' = {}
      OBVIOUS
    <2>1. \A d \in Pending(f) : d = c
      BY <1>0, <1>2, <1>3 DEF IInv, EventsFit, EventFits, Pending
    <2> QED  BY <1>2, <2>1 DEF Pending
  <1> QED  BY <1>3, <1>4, <1>5, ProposalsMove

\* ... or corrects it.
LEMMA CorrectionReviewed ==
  ASSUME IInv, IInv', NEW c \in Ids, NEW p \in Payloads, EditProposal(c, p)
  PROVE  Reviewed!Next
  <1>0. PICK f \in Entities : f = change[c].entity
    BY EditRows, UsedChange DEF IInv, TypeInv
  <1>1. TypeOK
    BY DEF IInv, TypeInv
  <1>2. /\ c \in Used /\ change[c].status = "PENDING"
        /\ \A d \in Ids : d # c => change'[d] = change[d]
        /\ change'[c].status = "PENDING" /\ change'[c].entity = f
        /\ lastId' = lastId /\ Used' = Used /\ Used \subseteq Ids
    BY <1>0, <1>1, EditRows, UsedChange DEF Used
  <1>3. /\ entity' = entity /\ raced \subseteq raced' /\ raced' \subseteq raced \cup {f}
    BY <1>0, <1>1, MeetsRaces DEF EditProposal
  <1>4. \A e : e # f => OpenOf(e)' = OpenOf(e)
    BY <1>0, <1>2 DEF OpenOf, Pending
  <1>5. Pending(f)' = Pending(f)
    BY <1>0, <1>2 DEF Pending
  <1> QED  BY <1>3, <1>4, <1>5, ProposalsMove

\* An approval commits: it makes of the event what its proposal says at that moment.
LEMMA ApprovalReviewed ==
  ASSUME IInv, IInv', NEW t \in Threads, CommitApproval(t)
  PROVE  Reviewed!Next
  <1>1. TypeOK /\ txn[t] \in Decide
    BY ApprovalCommits DEF IInv, TypeInv
  <1>2. PICK b \in Decide, e \in Entities, c \in Ids :
           b = txn[t] /\ e = b.entity /\ c = b.change
    BY <1>1 DEF Decide
  <1>3. b.kind = "decide" /\ b # Idle /\ b.says \in Says /\ b.copy \in Row
    BY DEF Decide, Idle
  <1> DEFINE new == Applied(b.copy, b.says)
  <1>4. /\ c \in Used /\ change[c].entity = e /\ new \in Row
        /\ lastId' = lastId
        /\ change'[c].status = "APPROVED" /\ change'[c].entity = e
        /\ \A d \in Ids : d # c => change'[d] = change[d]
        /\ entity'[e] = WrittenRow(entity[e], b.copy, new)
        /\ \A f \in Entities : f # e => entity'[f] = entity[f]
    BY <1>2, ApprovalCommits DEF IInv
  <1>5. raced' = raced /\ Used' = Used /\ Used \subseteq Ids
    BY <1>1, <1>4, UsedChange DEF CommitApproval, Used
  <1> HIDE DEF new
  <1>6. \A f : f # e => OpenOf(f)' = OpenOf(f)
    BY <1>4, <1>5 DEF OpenOf, Pending
  <1>7. CASE e \in raced'
    BY <1>4, <1>5, <1>6, <1>7, StepOnEvent DEF Reviewed!Next
  <1>8. CASE e \notin raced'
    <2>1. DecisionSees(b) /\ EventFits(e) /\ entity[e] \in Row
      BY <1>1, <1>2, <1>3, <1>5, <1>8 DEF IInv, SessionsSee, SessionSees, EventsFit, TypeOK
    <2>2. /\ c \in Pending(e) /\ \A d \in Pending(e) : d = c
          /\ b.says = change[c].says /\ Complete(b.says)
          /\ b.says.type = "REMOVED" => entity[e].life = "active"
          /\ b.copy.life = entity[e].life /\ b.copy.content = entity[e].content
      BY <1>2, <1>3, <1>4, <2>1 DEF DecisionSees, EventFits, Pending
    <2>3. entity'[e] = Applied(entity[e], b.says)
      BY <1>3, <1>4, <2>1, <2>2, ApprovalWrites DEF new
    <2>4. Applied(entity[e], b.says) = Reviewed!After(entity[e], b.says)
      <3>1. b.says = Reviewed!Removal <=> b.says.type = "REMOVED"
        BY <1>3, <2>2 DEF Says, Complete, Reviewed!Removal
      <3> QED  BY <2>2, <3>1 DEF Applied, Reviewed!After
    <2>5. OpenOf(e)' = {}
      BY <1>4, <1>5, <2>2 DEF OpenOf, Pending
    <2> DEFINE p == [id |-> c, says |-> b.says]
    <2>6. p \in OpenOf(e) /\ p.says = b.says
      BY <2>2 DEF OpenOf
    <2> HIDE DEF p
    <2>7. /\ Reviewed!Becomes(e, Reviewed!After(entity[e], p.says), {})
          /\ stateBar[e] = entity[e] /\ openBar[e] = OpenOf(e)
      BY <1>4, <1>5, <1>6, <1>8, <2>3, <2>4, <2>5, <2>6, StepOnEvent
    <2>8. Reviewed!Approve(e)
      BY <2>6, <2>7 DEF Reviewed!Approve
    <2> QED  BY <2>8 DEF Reviewed!Next
  <1> QED  BY <1>7, <1>8

\* An edit commits: it makes of the event what the user says, and closes what is open.
LEMMA EditReviewed ==
  ASSUME IInv, IInv', NEW t \in Threads, CommitEdit(t)
  PROVE  Reviewed!Next
  <1>1. TypeOK /\ txn[t] \in Edit
    BY EditCommits DEF IInv, TypeInv
  <1>2. PICK b \in Edit, e \in Entities, n \in Ids :
           b = txn[t] /\ e = b.entity /\ n = lastId + 1
    BY <1>1, EditCommits DEF IInv, Edit
  <1>3. b.kind = "edit" /\ b.says \in Says /\ b.copy \in Row /\ SessionFits(b)
    BY <1>2 DEF Edit, IInv, TypeInv
  <1>4. /\ n \notin Used /\ Used' = Used \cup {n}
        /\ change'[n].status = "APPROVED" /\ change'[n].entity = e
        /\ \A d \in Pending(e) : change'[d].status = "REJECTED" /\ change'[d].entity = e
        /\ \A d \in Ids : d # n /\ d \notin Pending(e) => change'[d] = change[d]
        /\ entity'[e] = IF b.copy = NoRow THEN Edited(entity[e], b.says)
                        ELSE WrittenRow(entity[e], b.copy, Edited(b.copy, b.says))
        /\ \A f \in Entities : f # e => entity'[f] = entity[f]
    BY <1>2, EditCommits DEF IInv
  <1>5. raced' = raced /\ Used \subseteq Ids /\ Pending(e) \subseteq Used
    BY <1>1, UsedChange, PendingUsed DEF CommitEdit
  <1>6. \A f : f # e => OpenOf(f)' = OpenOf(f)
    <2>1. \A d \in Used : change[d].entity # e => d \in Ids /\ change'[d] = change[d]
      BY <1>4, <1>5 DEF Pending
    <2>2. \A d \in Pending(e) : change[d].entity = e
      BY DEF Pending
    <2> SUFFICES ASSUME NEW f, f # e  PROVE OpenOf(f)' = OpenOf(f)
      OBVIOUS
    <2>3. Pending(f)' = Pending(f)
      BY <1>4, <1>5, <2>1 DEF Pending
    <2>4. \A d \in Pending(f) : change'[d] = change[d]
      BY <2>1 DEF Pending
    <2> QED  BY <2>3, <2>4 DEF OpenOf
  <1>7. CASE e \in raced'
    BY <1>4, <1>5, <1>6, <1>7, StepOnEvent DEF Reviewed!Next
  <1>8. CASE e \notin raced'
    <2>1. entity[e] \in Row /\ b.says.type \in Types
      BY <1>1, <1>3 DEF TypeOK, Says
    <2>2. b.copy # NoRow => entity[e] = b.copy
      BY <1>2, <1>3 DEF IInv, Locks, EditsHold
    <2>3. entity'[e] = Edited(entity[e], b.says)
      <3>1. CASE b.copy = NoRow
        BY <1>4, <3>1
      <3>2. CASE b.copy # NoRow
        <4>1. Edited(b.copy, b.says) \in Row
          BY <1>3, EditedType
        <4> QED  BY <1>3, <1>4, <2>2, <3>2, <4>1, AllWritten
      <3> QED  BY <3>1, <3>2
    <2>4. OpenOf(e)' = {}
      BY <1>4, <1>5 DEF OpenOf, Pending
    <2>5. /\ Reviewed!Becomes(e, Edited(entity[e], b.says), {})
          /\ stateBar[e] = entity[e]
      BY <1>4, <1>5, <1>6, <1>8, <2>3, <2>4, StepOnEvent
    <2>6. CASE b.says.type = "REMOVED"
      <3>1. entity[e].life = "active"
        BY <1>3, <2>2, <2>6 DEF SessionFits, NoRow
      <3>2. Edited(entity[e], b.says) = [entity[e] EXCEPT !.life = "removed", !.manual = TRUE]
        BY <2>1, <2>6, <3>1 DEF Edited, Applied, Row
      <3> QED  BY <2>5, <3>1, <3>2 DEF Reviewed!Next, Reviewed!Edit
    <2>7. CASE b.says.type # "REMOVED"
      <3>1. PICK p \in Payloads : p = b.says.after
        BY <1>3, <2>7 DEF SessionFits, Complete, Says, Content
      <3> DEFINE r == [life |-> "active", content |-> p, manual |-> TRUE]
      <3>2. r \in Row /\ r.life = "active" /\ r.content = p /\ r.manual = TRUE
        BY DEF Row, Content
      <3>3. /\ Edited(entity[e], b.says) \in Row
            /\ Edited(entity[e], b.says).life = "active"
            /\ Edited(entity[e], b.says).content = p
            /\ Edited(entity[e], b.says).manual = TRUE
        <4>1. PICK row \in Row, says \in Says : row = entity[e] /\ says = b.says
          BY <1>3, <2>1
        <4>2. /\ Edited(row, says) \in Row
              /\ Edited(row, says).life = Applied(row, says).life
              /\ Edited(row, says).content = Applied(row, says).content
              /\ Edited(row, says).manual = TRUE
          BY EditedType
        <4>3. Applied(row, says).life = "active" /\ Applied(row, says).content = p
          BY <2>7, <3>1, <4>1, AppliedFields
        <4> QED  BY <4>1, <4>2, <4>3
      <3> HIDE DEF r
      <3>4. Edited(entity[e], b.says) = r
        BY <3>2, <3>3, SameRow
      <3>5. Edited(entity[e], b.says) = [life |-> "active", content |-> p, manual |-> TRUE]
        BY <3>4 DEF r
      <3> QED  BY <2>5, <3>5 DEF Reviewed!Next, Reviewed!Edit
    <2> QED  BY <2>6, <2>7
  <1> QED  BY <1>7, <1>8

\* The user stands by an event, ...
LEMMA SupportReviewed ==
  ASSUME IInv, IInv', NEW e \in Entities, KeepEvent(e)
  PROVE  Reviewed!Next
  <1>1. TypeOK
    BY DEF IInv, TypeInv
  <1>2. /\ entity[e] # NoRow /\ UNCHANGED <<change, lastId>>
        /\ entity' = [entity EXCEPT ![e] = [entity[e] EXCEPT !.manual = TRUE]]
        /\ Meets(e, "edit")
    BY <1>1 DEF KeepEvent, TypeOK, reviewed
  <1>3. /\ raced \subseteq raced' /\ raced' \subseteq raced \cup {e}
        /\ entity'[e] = [entity[e] EXCEPT !.manual = TRUE]
        /\ \A f \in Entities : f # e => entity'[f] = entity[f]
        /\ \A f : OpenOf(f)' = OpenOf(f)
    BY <1>1, <1>2, MeetsRaces DEF OpenOf, Pending, Used, TypeOK
  <1>4. CASE e \in raced'
    BY <1>3, <1>4, StepOnEvent DEF Reviewed!Next
  <1>5. CASE e \notin raced'
    <2>1. /\ stateBar[e] = entity[e] /\ openBar[e] = OpenOf(e)'
          /\ \A S : S = OpenOf(e)' => Reviewed!Becomes(e, entity'[e], S)
      BY <1>3, <1>5, StepOnEvent
    <2>2. /\ Reviewed!Becomes(e, [stateBar[e] EXCEPT !.manual = TRUE], openBar[e])
          /\ stateBar[e] = entity[e]
      BY <1>3, <2>1
    <2>3. stateBar[e] # Reviewed!NoState
      BY <1>2, <2>2 DEF Reviewed!NoState, NoRow
    <2> QED  BY <2>2, <2>3 DEF Reviewed!Next, Reviewed!Support
  <1> QED  BY <1>4, <1>5

\* ... or makes one.
LEMMA CreationReviewed ==
  ASSUME IInv, IInv', NEW e \in Entities, NEW p \in Payloads, CreateManualEvent(e, p)
  PROVE  Reviewed!Next
  <1>1. TypeOK
    BY DEF IInv, TypeInv
  <1>2. PICK n \in Ids : n = lastId + 1
    BY <1>1, ManualCreated
  <1>3. /\ n \notin Used /\ Used' = Used \cup {n}
        /\ change'[n].status = "APPROVED" /\ change'[n].entity = e
        /\ \A d \in Ids : d # n => change'[d] = change[d]
        /\ entity'[e] = [life |-> "active", content |-> p, manual |-> TRUE]
        /\ \A f \in Entities : f # e => entity'[f] = entity[f]
    BY <1>1, <1>2, ManualCreated
  <1>4. raced' = raced /\ Used \subseteq Ids /\ \A c \in Used : change[c].entity # e
    BY <1>1, UsedChange DEF CreateManualEvent
  <1>5. /\ \A f : f # e => OpenOf(f)' = OpenOf(f)
        /\ OpenOf(e)' = {}
    <2>1. \A f : f # e => Pending(f)' = Pending(f)
      BY <1>3, <1>4 DEF Pending
    <2>2. \A f : f # e => \A c \in Pending(f) : change'[c] = change[c]
      BY <1>3, <1>4 DEF Pending
    <2>3. Pending(e)' = {}
      BY <1>3, <1>4 DEF Pending
    <2> QED  BY <2>1, <2>2, <2>3 DEF OpenOf
  <1>6. CASE e \in raced'
    BY <1>3, <1>4, <1>5, <1>6, StepOnEvent DEF Reviewed!Next
  <1>7. CASE e \notin raced'
    <2>1. Reviewed!Becomes(e, [life |-> "active", content |-> p, manual |-> TRUE], {})
      BY <1>3, <1>4, <1>5, <1>7, StepOnEvent
    <2> QED  BY <2>1 DEF Reviewed!Next, Reviewed!Edit
  <1> QED  BY <1>6, <1>7

\* A step of a session that changes no row is about one event.
LEMMA SessionsMeet ==
  ASSUME TypeOK, NEW e \in Entities, NEW kind, Meets(e, kind)
  PROVE  \E f \in Entities : raced \subseteq raced' /\ raced' \subseteq raced \cup {f}
  BY MeetsRaces

LEMMA FeedReviewed ==
  ASSUME IInv, IInv', NEW t \in Threads, Feed(t)
  PROVE  Reviewed!Next
  <1>1. TypeOK
    BY DEF IInv, TypeInv
  <1>2. ASSUME NEW e \in Entities, NEW s, NEW row, NEW kept, NEW write, NEW learning,
               RebuildBegins(t, e, s, row, kept, write, learning)
        PROVE  Reviewed!Next
    <2>1. Meets(e, "rebuild") /\ UNCHANGED <<entity, change, lastId>>
      BY <1>2 DEF RebuildBegins, reviewed
    <2> QED  BY <1>1, <2>1, SessionsMeet, SessionsUnseen
  <1>3. ASSUME NEW e \in Entities, NEW s \in Sources, NEW p \in Payloads,
               ApplyDirective(t, e, s, p)
        PROVE  Reviewed!Next
    <2>1. Meets(e, "rebuild") /\ UNCHANGED <<entity, change, lastId>>
      BY <1>3 DEF ApplyDirective, reviewed
    <2> QED  BY <1>1, <2>1, SessionsMeet, SessionsUnseen
  <1>4. ASSUME NEW e \in Entities, NEW s \in Sources, RetireObservation(e, s)  PROVE Reviewed!Next
    <2>1. Meets(e, "rebuild") /\ UNCHANGED <<entity, change, lastId>>
      BY <1>4 DEF RetireObservation, reviewed
    <2> QED  BY <1>1, <2>1, SessionsMeet, SessionsUnseen
  <1> QED  BY <1>2, <1>3, <1>4 DEF Feed, Vanish, Rescope, Observe, RebuildUserWorkItemState

LEMMA DecisionReviewed ==
  ASSUME IInv, IInv', NEW t \in Threads, Decision(t)
  PROVE  Reviewed!Next
  <1>1. TypeOK
    BY DEF IInv, TypeInv
  <1>2. ASSUME NEW c \in Ids,
               \/ Approve(t, c)
               \/ \E s \in Sources : LearnKnownLabel(t, c, s)
               \/ \E s \in Sources, p \in Payloads : LearnLabel(t, c, s, p)
        PROVE  Reviewed!Next
    <2>1. c \in Used
      BY <1>2 DEF Approve, LearnKnownLabel, LearnLabel
    <2>2. change[c].entity \in Entities
      BY <1>1, <2>1, UsedChange
    <2>3. /\ \E kind : Meets(change[c].entity, kind)
          /\ UNCHANGED <<entity, change, lastId>>
      BY <1>2 DEF Approve, LearnKnownLabel, LearnLabel, RebuildBegins, reviewed
    <2> QED  BY <1>1, <2>2, <2>3, SessionsMeet, SessionsUnseen
  <1>3. ASSUME NEW e \in Entities, DeleteEvent(t, e) \/ \E p \in Payloads : EditEvent(t, e, p)
        PROVE  Reviewed!Next
    <2>1. Meets(e, "edit") /\ UNCHANGED <<entity, change, lastId>>
      BY <1>3 DEF DeleteEvent, EditEvent, reviewed
    <2> QED  BY <1>1, <2>1, SessionsMeet, SessionsUnseen
  <1> QED  BY <1>2, <1>3, RejectReviewed, CorrectionReviewed, SupportReviewed, CreationReviewed
           DEF Decision

LEMMA GoesReviewed ==
  ASSUME IInv, IInv', NEW t \in Threads, Goes(t)
  PROVE  [Reviewed!Next]_(Reviewed!vars)
  <1>1. CASE ReadPending(t) \/ PickRebuilt(t) \/ LockPicked(t) \/ Abort(t)
    <2>1. UNCHANGED <<entity, change, lastId, raced>>
      BY <1>1 DEF ReadPending, PickRebuilt, LockPicked, Abort, reviewed
    <2> QED  BY <2>1 DEF Reviewed!vars, stateBar, openBar, Pending, Used
  <1> QED  BY <1>1, RebuildReviewed, ApprovalReviewed, EditReviewed DEF Goes

LEMMA StepReviewed ==
  ASSUME IInv, IInv', [Next]_vars
  PROVE  [Reviewed!Next]_(Reviewed!vars)
  <1>1. CASE Next
    BY <1>1, FeedReviewed, DecisionReviewed, GoesReviewed DEF Next
  <1>2. CASE UNCHANGED vars
    BY <1>2 DEF vars, Reviewed!vars, stateBar, openBar, Pending, Used
  <1> QED  BY <1>1, <1>2

\* However rebuilds, decisions, edits and label learning interleave, an event that no
\* transaction without locks overlapped another one on goes through the steps of a reviewed
\* event: the approval of its one proposal as it stands then, or an edit that closes it.
THEOREM ReviewIsImplemented == Spec => ImplementsReview
  <1>1. Init => Reviewed!Init
    <2> SUFFICES ASSUME Init  PROVE Reviewed!Init
      OBVIOUS
    <2>1. raced = {} /\ Used = {} /\ entity = [e \in Entities |-> NoRow]
      BY DEF Init, Used
    <2> QED  BY <2>1 DEF Reviewed!Init, Reviewed!NoState, NoRow, stateBar, openBar, Pending
  <1>2. IInv /\ IInv' /\ [Next]_vars => [Reviewed!Next]_(Reviewed!vars)
    BY StepReviewed
  <1> QED  BY <1>1, <1>2, IInvInit, IInvNext, PTL DEF Spec, ImplementsReview, Reviewed!Spec

=============================================================================
