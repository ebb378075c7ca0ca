---------------------------- MODULE IntakeProofs ----------------------------
(***************************************************************************)
(* Proofs about SyncIntake, for any windows and any number of requests,    *)
(* patches and failures; and about ChangeNotices, for any number of        *)
(* changes, users, workers, events and ticks that break off.  MCIntake     *)
(* runs one beside the other; what it does is a behaviour of each.         *)
(***************************************************************************)
EXTENDS MCIntake, FiniteSetTheorems, WellFoundedInduction, TLAPS

-----------------------------------------------------------------------------
(* SyncIntake: lists of requests.                                          *)

\* A request that works with a copy has one, and one that has fetched knows its window.
SyncFits(s) ==
    /\ s.stage \in {"fetching", "applying"} => s.copy \in Config
    /\ s.stage \in {"parsing", "parsed", "applying"} => s.seen \in Windows

\* What a request has looked at, or is about to look at, is window w.
LooksAt(s, w) == (s.seen # None => s.seen = w) /\ (s.stage = "fetching" => s.copy.window = w)

LEMMA NewSyncFits ==
  /\ NewSync \in Sync /\ SyncFits(NewSync) /\ Active(NewSync)
  /\ \A w : LooksAt(NewSync, w)
  BY DEF NewSync, Sync, Stages, SyncFits, LooksAt, Active

LEMMA RemovedList ==
  ASSUME NEW list \in Seq(Sync), NEW i \in 1 .. Len(list), NEW rest, rest = RemoveAt(list, i)
  PROVE  /\ rest \in Seq(Sync) /\ Len(rest) = Len(list) - 1
         /\ \A j \in 1 .. Len(rest) : \E k \in 1 .. Len(list) : rest[j] = list[k]
  <1>1. PICK a, b : a = SubSeq(list, 1, i - 1) /\ b = SubSeq(list, i + 1, Len(list))
    OBVIOUS
  <1>2. /\ a \in Seq(Sync) /\ Len(a) = i - 1
        /\ \A j \in 1 .. Len(a) : a[j] = list[j]
    BY <1>1
  <1>3. /\ b \in Seq(Sync) /\ Len(b) = Len(list) - i
        /\ \A j \in 1 .. Len(b) : b[j] = list[i + j]
    BY <1>1
  <1>4. rest = a \o b
    BY <1>1 DEF RemoveAt
  <1>5. rest \in Seq(Sync) /\ Len(rest) = Len(list) - 1
    BY <1>2, <1>3, <1>4
  <1>6. ASSUME NEW j \in 1 .. Len(rest)  PROVE \E k \in 1 .. Len(list) : rest[j] = list[k]
    <2>1. CASE j <= Len(a)
      BY <1>2, <1>3, <1>4, <2>1
    <2>2. CASE j > Len(a)
      <3>1. rest[j] = b[j - Len(a)] /\ j - Len(a) \in 1 .. Len(b)
        BY <1>2, <1>3, <1>4, <1>5, <2>2
      <3>2. rest[j] = list[i + (j - Len(a))] /\ i + (j - Len(a)) \in 1 .. Len(list)
        BY <1>2, <1>3, <3>1
      <3> QED  BY <3>2
    <2> QED  BY <1>2, <2>1, <2>2
  <1> QED  BY <1>5, <1>6

LEMMA ChangedList ==
  ASSUME NEW list \in Seq(Sync), NEW i \in 1 .. Len(list), NEW x \in Sync,
         NEW new, new = [list EXCEPT ![i] = x]
  PROVE  /\ new \in Seq(Sync) /\ Len(new) = Len(list) /\ new[i] = x
         /\ \A j \in 1 .. Len(list) : j # i => new[j] = list[j]
  OBVIOUS

LEMMA LongerList ==
  ASSUME NEW list \in Seq(Sync), NEW x \in Sync, NEW new, new = Append(list, x)
  PROVE  /\ new \in Seq(Sync) /\ Len(new) = Len(list) + 1 /\ new[Len(list) + 1] = x
         /\ \A j \in 1 .. Len(list) : new[j] = list[j]
  OBVIOUS

LEMMA SomeActive ==
  ASSUME NEW list \in Seq(Sync)
  PROVE  Some(list, Active) <=> \E i \in 1 .. Len(list) : Active(list[i])
  <1>1. DOMAIN list = 1 .. Len(list)
    OBVIOUS
  <1> QED  BY <1>1 DEF Some

LEMMA SomeHasLooked ==
  ASSUME NEW list \in Seq(Sync), ~Some(list, HasLooked), NEW i \in 1 .. Len(list), NEW w
  PROVE  LooksAt(list[i], w)
  <1>1. i \in DOMAIN list
    OBVIOUS
  <1>2. ~HasLooked(list[i])
    BY <1>1 DEF Some
  <1> QED  BY <1>2 DEF HasLooked, LooksAt

-----------------------------------------------------------------------------
(* The inductive invariant of SyncIntake.                                  *)

ListFits(list) == list \in Seq(Sync) /\ \A i \in 1 .. Len(list) : SyncFits(list[i])
ListLooksAt(list, w) == \A i \in 1 .. Len(list) : LooksAt(list[i], w)

\* The one request beyond MaxSyncs is that of a rescope, which has just purged the source
\* and asks for no other as long as this one is active.
Full(list, kept) == Len(list) = MaxSyncs + 1 => kept = {} /\ Some(list, Active)

WindowFits ==
    raced \/ (stored \subseteq {config.window} /\ ListLooksAt(syncs, config.window))

IntakeInv == IntakeTypeOK /\ ListFits(syncs) /\ Full(syncs, stored) /\ WindowFits

LEMMA ConfigType ==
  /\ \A w \in Windows : [window |-> w, pending |-> None] \in Config
  /\ \A c \in Config : c.window \in Windows /\ (c.pending # None => c.pending \in Windows)
  BY DEF Config

LEMMA IntakeInvInit == IntakeInit => IntakeInv
  <1> SUFFICES ASSUME IntakeInit  PROVE IntakeInv
    OBVIOUS
  <1>1. PICK w \in Windows : config = [window |-> w, pending |-> None] /\ wanted = w
                             /\ stored \in {{}, {w}}
    BY DEF IntakeInit
  <1>2. config \in Config /\ config.window = w /\ stored \subseteq {config.window}
    BY <1>1, ConfigType
  <1>3. syncs = <<>> /\ syncs \in Seq(Sync) /\ Len(syncs) = 0
    BY DEF IntakeInit
  <1>4. NoPatch \in Patching \cup {NoPatch}
    OBVIOUS
  <1>5. patch \in [Updaters -> Patching \cup {NoPatch}]
    BY <1>4 DEF IntakeInit
  <1>6. raced \in BOOLEAN
    BY DEF IntakeInit
  <1>7. IntakeTypeOK
    BY <1>1, <1>2, <1>3, <1>5, <1>6, SyncBoundsAssumption DEF IntakeInit, IntakeTypeOK
  <1>8. Full(syncs, stored)
    BY <1>3, SyncBoundsAssumption DEF Full
  <1> QED  BY <1>2, <1>3, <1>7, <1>8 DEF IntakeInv, ListFits, WindowFits, ListLooksAt

\* A list that differs in request i.
LEMMA ChangeFits ==
  ASSUME NEW list, ListFits(list), NEW i \in 1 .. Len(list), NEW x \in Sync, SyncFits(x),
         NEW new, new = [list EXCEPT ![i] = x]
  PROVE  /\ ListFits(new) /\ Len(new) = Len(list)
         /\ \A w : ListLooksAt(list, w) /\ LooksAt(x, w) => ListLooksAt(new, w)
  <1>1. list \in Seq(Sync) /\ \A j \in 1 .. Len(list) : SyncFits(list[j])
    BY DEF ListFits
  <1>2. /\ new \in Seq(Sync) /\ Len(new) = Len(list) /\ new[i] = x
        /\ \A j \in 1 .. Len(list) : j # i => new[j] = list[j]
    BY <1>1, ChangedList
  <1> QED  BY <1>1, <1>2 DEF ListFits, ListLooksAt

\* A list without request i.
LEMMA RemoveFits ==
  ASSUME NEW list, ListFits(list), NEW i \in 1 .. Len(list), NEW rest, rest = RemoveAt(list, i)
  PROVE  /\ ListFits(rest) /\ Len(rest) = Len(list) - 1
         /\ \A w : ListLooksAt(list, w) => ListLooksAt(rest, w)
  <1>1. list \in Seq(Sync) /\ \A j \in 1 .. Len(list) : SyncFits(list[j])
    BY DEF ListFits
  <1>2. /\ rest \in Seq(Sync) /\ Len(rest) = Len(list) - 1
        /\ \A j \in 1 .. Len(rest) : \E k \in 1 .. Len(list) : rest[j] = list[k]
    BY <1>1, RemovedList
  <1> QED  BY <1>1, <1>2 DEF ListFits, ListLooksAt

\* A list with a new request.
LEMMA AppendFits ==
  ASSUME NEW list, ListFits(list), NEW new, new = Append(list, NewSync)
  PROVE  /\ ListFits(new) /\ Len(new) = Len(list) + 1 /\ Some(new, Active)
         /\ \A w : ListLooksAt(list, w) => ListLooksAt(new, w)
  <1>1. list \in Seq(Sync) /\ \A j \in 1 .. Len(list) : SyncFits(list[j])
    BY DEF ListFits
  <1>2. /\ new \in Seq(Sync) /\ Len(new) = Len(list) + 1 /\ new[Len(list) + 1] = NewSync
        /\ \A j \in 1 .. Len(list) : new[j] = list[j]
    BY <1>1, NewSyncFits, LongerList
  <1>3. Len(list) \in Nat
    BY <1>1
  <1>4. \A j \in 1 .. Len(new) : j \in 1 .. Len(list) \/ j = Len(list) + 1
    BY <1>2, <1>3
  <1>5. Len(list) + 1 \in 1 .. Len(new)
    BY <1>2, <1>3
  <1>6. Some(new, Active)
    BY <1>2, <1>5, NewSyncFits, SomeActive
  <1> QED  BY <1>1, <1>2, <1>4, <1>6, NewSyncFits DEF ListFits, ListLooksAt

LEMMA RescopeFits ==
  ASSUME keyed \subseteq Windows, NEW w \in Windows, NEW list, ListFits(list),
         NEW active \in BOOLEAN, Len(list) <= MaxSyncs + 1,
         Len(list) = MaxSyncs + 1 => active /\ Some(list, Active),
         RescopeSync(w, list, active)
  PROVE  /\ ListFits(syncs') /\ Len(syncs') <= MaxSyncs + 1 /\ keyed' \subseteq Windows
         /\ Len(syncs') = MaxSyncs + 1 => Some(syncs', Active)
         /\ \A v : ListLooksAt(list, v) => ListLooksAt(syncs', v)
  <1>1. CASE active \/ w \in keyed
    <2>1. syncs' = list /\ keyed' = keyed
      BY <1>1 DEF RescopeSync
    <2> QED  BY <2>1
  <1>2. CASE ~(active \/ w \in keyed)
    <2>1. syncs' = Append(list, NewSync) /\ keyed' = keyed \cup {w}
      BY <1>2 DEF RescopeSync
    <2>2. /\ ListFits(syncs') /\ Len(syncs') = Len(list) + 1 /\ Some(syncs', Active)
          /\ \A v : ListLooksAt(list, v) => ListLooksAt(syncs', v)
      BY <2>1, AppendFits
    <2>3. Len(list) # MaxSyncs + 1
      BY <1>2
    <2>4. Len(list) \in Nat
      BY DEF ListFits
    <2>5. Len(syncs') <= MaxSyncs + 1
      BY <2>2, <2>3, <2>4, SyncBoundsAssumption
    <2> QED  BY <2>1, <2>2, <2>5
  <1> QED  BY <1>1, <1>2

\* A queued window that comes in force purges the source; and it is a new one only if no
\* request in the list has looked at the one before, or the overlap is recorded.
LEMMA RebindFits ==
  ASSUME IntakeInv, NEW c \in Config, NEW list, ListFits(list), Len(list) <= MaxSyncs,
         NEW kept \in SUBSET Windows, NEW active \in BOOLEAN,
         raced \/ (kept \subseteq {config.window} /\ ListLooksAt(list, config.window)),
         Rebind(c, list, kept, active)
  PROVE  /\ config' \in Config /\ stored' \subseteq Windows /\ keyed' \subseteq Windows
         /\ ListFits(syncs') /\ Len(syncs') <= MaxSyncs + 1 /\ Full(syncs', stored')
         /\ raced' \in BOOLEAN /\ WindowFits'
  <1>1. config \in Config /\ keyed \subseteq Windows /\ Len(list) \in Nat /\ MaxSyncs \in Nat
    BY SyncBoundsAssumption DEF IntakeInv, IntakeTypeOK, ListFits
  <1>2. PICK next : next = [window |-> c.pending, pending |-> None]
    OBVIOUS
  <1>3. /\ config' = IF c.pending = None THEN config ELSE next
        /\ next.window = c.pending /\ (c.pending # None => next \in Config)
    BY <1>2, ConfigType DEF Rebind
  <1>4. config' \in Config
    BY <1>1, <1>3
  <1>5. raced' = (raced \/ (c.pending # None /\ config # c)
                        \/ (c.pending # None /\ next.window # c.window /\ Some(list, HasLooked)))
    BY <1>2 DEF Rebind
  <1>6. raced' \in BOOLEAN
    BY <1>5
  <1>7. CASE c.pending # None /\ next.window # c.window
    <2>1. stored' = {} /\ RescopeSync(next.window, list, active)
      BY <1>2, <1>7 DEF Rebind
    <2>2. next.window \in Windows
      BY <1>3, <1>7, ConfigType
    <2>3. /\ ListFits(syncs') /\ Len(syncs') <= MaxSyncs + 1 /\ keyed' \subseteq Windows
          /\ Len(syncs') = MaxSyncs + 1 => Some(syncs', Active)
          /\ \A v : ListLooksAt(list, v) => ListLooksAt(syncs', v)
      <3>1. Len(list) # MaxSyncs + 1 /\ Len(list) <= MaxSyncs + 1
        BY <1>1
      <3> QED  BY <1>1, <2>1, <2>2, <3>1, RescopeFits
    <2>4. Full(syncs', stored')
      BY <2>1, <2>3 DEF Full
    <2>5. raced' \/ ListLooksAt(syncs', config'.window)
      <3>1. CASE Some(list, HasLooked)
        BY <1>5, <1>7, <3>1
      <3>2. CASE ~Some(list, HasLooked)
        <4>1. ListLooksAt(list, config'.window)
          BY <3>2, SomeHasLooked DEF ListFits, ListLooksAt
        <4> QED  BY <2>3, <4>1
      <3> QED  BY <3>1, <3>2
    <2>6. WindowFits'
      BY <2>1, <2>5 DEF WindowFits, ListLooksAt
    <2> QED  BY <1>4, <1>6, <2>1, <2>3, <2>4, <2>6
  <1>8. CASE ~(c.pending # None /\ next.window # c.window)
    <2>1. stored' = kept /\ syncs' = list /\ keyed' = keyed
      BY <1>2, <1>8 DEF Rebind
    <2>2. Full(syncs', stored') /\ Len(syncs') <= MaxSyncs + 1
      BY <1>1, <2>1 DEF Full
    <2>3. raced' \/ config'.window = config.window
      <3>1. CASE c.pending = None
        BY <1>3, <3>1
      <3>2. CASE c.pending # None /\ config # c
        BY <1>5, <3>2
      <3>3. CASE c.pending # None /\ config = c
        BY <1>3, <1>8, <3>3
      <3> QED  BY <3>1, <3>2, <3>3
    <2>4. raced => raced'
      BY <1>5
    <2>5. raced' \/ (stored' \subseteq {config'.window} /\ ListLooksAt(syncs', config'.window))
      BY <2>1, <2>3, <2>4
    <2>6. WindowFits'
      BY <2>5 DEF WindowFits, ListLooksAt
    <2> QED  BY <1>1, <1>4, <1>6, <2>1, <2>2, <2>6
  <1> QED  BY <1>7, <1>8

LEMMA RebindInv ==
  ASSUME IntakeInv, NEW c \in Config, NEW list, ListFits(list), Len(list) <= MaxSyncs,
         NEW kept \in SUBSET Windows, NEW active \in BOOLEAN,
         raced \/ (kept \subseteq {config.window} /\ ListLooksAt(list, config.window)),
         Rebind(c, list, kept, active),
         UNCHANGED <<patch, patches, wanted>>, failures' \in 0 .. MaxFailures
  PROVE  IntakeInv'
  <1>1. /\ config' \in Config /\ stored' \subseteq Windows /\ keyed' \subseteq Windows
        /\ ListFits(syncs') /\ Len(syncs') <= MaxSyncs + 1 /\ Full(syncs', stored')
        /\ raced' \in BOOLEAN /\ WindowFits'
    BY RebindFits
  <1>2. IntakeTypeOK'
    BY <1>1 DEF IntakeInv, IntakeTypeOK, ListFits
  <1> QED  BY <1>1, <1>2 DEF IntakeInv

-----------------------------------------------------------------------------
(* The actions of SyncIntake.                                              *)

\* Request i moves, and looks at the window in force if it did not look at one before.
LEMMA MovesInv ==
  ASSUME IntakeInv, NEW i \in 1 .. Len(syncs), NEW x \in Sync, SyncFits(x),
         x.over = syncs[i].over,
         raced \/ LooksAt(x, config.window),
         Moves(i, x), failures' \in 0 .. MaxFailures
  PROVE  IntakeInv'
  <1>1. syncs' = [syncs EXCEPT ![i] = x]
        /\ UNCHANGED <<config, stored, keyed, patch, patches, wanted, raced>>
    BY DEF Moves
  <1>2. ListFits(syncs) /\ syncs \in Seq(Sync)
    BY DEF IntakeInv, ListFits
  <1>3. /\ ListFits(syncs') /\ Len(syncs') = Len(syncs)
        /\ \A w : ListLooksAt(syncs, w) /\ LooksAt(x, w) => ListLooksAt(syncs', w)
    BY <1>1, <1>2, ChangeFits
  <1>4. IntakeTypeOK'
    BY <1>1, <1>3 DEF IntakeInv, IntakeTypeOK, ListFits
  <1>5. Some(syncs, Active) => Some(syncs', Active)
    <2>1. syncs' \in Seq(Sync) /\ Len(syncs') = Len(syncs)
      BY <1>3 DEF ListFits
    <2>2. \A j \in 1 .. Len(syncs) : Active(syncs[j]) => Active(syncs'[j])
      BY <1>1, <1>2, ChangedList DEF Active
    <2> QED  BY <1>2, <2>1, <2>2, SomeActive
  <1>6. Full(syncs', stored')
    BY <1>1, <1>3, <1>5 DEF IntakeInv, Full
  <1>7. WindowFits'
    BY <1>1, <1>3 DEF IntakeInv, WindowFits, ListLooksAt
  <1> QED  BY <1>3, <1>4, <1>6, <1>7 DEF IntakeInv

LEMMA EnqueueInv ==
  ASSUME IntakeInv, Enqueue
  PROVE  IntakeInv'
  <1>1. /\ Len(syncs) < MaxSyncs /\ syncs' = Append(syncs, NewSync)
        /\ UNCHANGED <<config, stored, keyed, patch, patches, failures, wanted, raced>>
    BY DEF Enqueue
  <1>2. ListFits(syncs) /\ Len(syncs) \in Nat /\ MaxSyncs \in Nat
    BY SyncBoundsAssumption DEF IntakeInv, ListFits
  <1>3. /\ ListFits(syncs') /\ Len(syncs') = Len(syncs) + 1
        /\ \A w : ListLooksAt(syncs, w) => ListLooksAt(syncs', w)
    BY <1>1, <1>2, AppendFits
  <1>4. Len(syncs') # MaxSyncs + 1 /\ Len(syncs') <= MaxSyncs + 1
    BY <1>1, <1>2, <1>3
  <1>5. IntakeTypeOK'
    BY <1>1, <1>3, <1>4 DEF IntakeInv, IntakeTypeOK, ListFits
  <1>6. Full(syncs', stored')
    BY <1>4 DEF Full
  <1>7. WindowFits'
    BY <1>1, <1>3 DEF IntakeInv, WindowFits, ListLooksAt
  <1> QED  BY <1>3, <1>5, <1>6, <1>7 DEF IntakeInv

LEMMA BeginPatchInv ==
  ASSUME IntakeInv, NEW u \in Updaters, NEW w \in Windows, BeginPatch(u, w)
  PROVE  IntakeInv'
  <1>1. PICK busy \in BOOLEAN : busy = Some(syncs, InFlight)
    BY DEF Some
  <1>2. [to |-> w, copy |-> config, busy |-> busy] \in Patching
    BY DEF Patching, IntakeInv, IntakeTypeOK
  <1>3. patch' \in [Updaters -> Patching \cup {NoPatch}]
    BY <1>1, <1>2 DEF BeginPatch, IntakeInv, IntakeTypeOK
  <1>4. patches' \in 0 .. MaxPatches
    BY SyncBoundsAssumption DEF BeginPatch, IntakeInv, IntakeTypeOK
  <1>5. UNCHANGED <<config, stored, syncs, keyed, failures, wanted, raced>>
    BY DEF BeginPatch
  <1> QED  BY <1>3, <1>4, <1>5 DEF IntakeInv, IntakeTypeOK, WindowFits

\* A window is changed at once only if no request was in flight when the PATCH looked; whether
\* one has looked at the window before since then is recorded.
LEMMA CommitPatchInv ==
  ASSUME IntakeInv, NEW u \in Updaters, CommitPatch(u)
  PROVE  IntakeInv'
  <1>1. PICK p : p = patch[u]
    OBVIOUS
  <1>2. p \in Patching
    BY <1>1 DEF CommitPatch, IntakeInv, IntakeTypeOK
  <1>3. p.to \in Windows /\ p.copy \in Config /\ p.busy \in BOOLEAN
    BY <1>2 DEF Patching
  <1>4. PICK next : next = IF Queues(u) THEN [p.copy EXCEPT !.pending = p.to]
                           ELSE [window |-> p.to, pending |-> None]
    OBVIOUS
  <1>5. /\ next \in Config
        /\ Queues(u) => next.window = p.copy.window
        /\ ~Queues(u) => next.window = p.to
    BY <1>3, <1>4 DEF Config
  <1>6. PICK list : list = IF p.busy THEN SelectSeq(syncs, Over) ELSE syncs
    OBVIOUS
  <1>7. /\ config' = IF next = p.copy THEN config ELSE next
        /\ wanted' = p.to
        /\ patch' = [patch EXCEPT ![u] = NoPatch]
        /\ IF next.window # p.copy.window
           THEN stored' = {} /\ RescopeSync(p.to, syncs, Some(syncs, Active))
           ELSE UNCHANGED <<stored, syncs, keyed>>
        /\ raced' = \/ raced
                    \/ config # p.copy
                    \/ (next.window # p.copy.window /\ Some(list, HasLooked))
        /\ UNCHANGED <<patches, failures>>
    BY <1>1, <1>4, <1>6 DEF CommitPatch
  <1>8. config' \in Config /\ wanted' \in Windows
    BY <1>3, <1>5, <1>7 DEF IntakeInv, IntakeTypeOK
  <1>9. patch' \in [Updaters -> Patching \cup {NoPatch}]
    BY <1>7 DEF IntakeInv, IntakeTypeOK
  <1>10. raced' \in BOOLEAN
    BY <1>7
  <1>11. ListFits(syncs) /\ syncs \in Seq(Sync) /\ Len(syncs) <= MaxSyncs + 1
         /\ keyed \subseteq Windows /\ Full(syncs, stored)
    BY DEF IntakeInv, IntakeTypeOK, ListFits
  <1>12. CASE next.window # p.copy.window
    <2>1. ~Queues(u) /\ next.window = p.to
      BY <1>5, <1>12
    <2>2. ~p.busy
      BY <1>1, <1>3, <1>12, <2>1 DEF Queues
    <2>3. stored' = {} /\ RescopeSync(p.to, syncs, Some(syncs, Active))
      BY <1>7, <1>12
    <2>4. Some(syncs, Active) \in BOOLEAN
      BY DEF Some
    <2>5. Len(syncs) = MaxSyncs + 1 => Some(syncs, Active)
      BY <1>11 DEF Full
    <2>6. /\ ListFits(syncs') /\ Len(syncs') <= MaxSyncs + 1 /\ keyed' \subseteq Windows
          /\ Len(syncs') = MaxSyncs + 1 => Some(syncs', Active)
          /\ \A v : ListLooksAt(syncs, v) => ListLooksAt(syncs', v)
      BY <1>3, <1>11, <2>3, <2>4, <2>5, RescopeFits
    <2>7. raced' \/ ListLooksAt(syncs', config'.window)
      <3>1. CASE Some(syncs, HasLooked)
        BY <1>6, <1>7, <1>12, <2>2, <3>1
      <3>2. CASE ~Some(syncs, HasLooked)
        <4>1. ListLooksAt(syncs, config'.window)
          BY <1>11, <3>2, SomeHasLooked DEF ListLooksAt
        <4> QED  BY <2>6, <4>1
      <3> QED  BY <3>1, <3>2
    <2>8. WindowFits'
      BY <2>3, <2>7 DEF WindowFits, ListLooksAt
    <2>9. Full(syncs', stored')
      BY <2>3, <2>6 DEF Full
    <2>10. IntakeTypeOK'
      BY <1>7, <1>8, <1>9, <1>10, <2>3, <2>6 DEF IntakeInv, IntakeTypeOK, ListFits
    <2> QED  BY <2>6, <2>8, <2>9, <2>10 DEF IntakeInv
  <1>13. CASE next.window = p.copy.window
    <2>1. UNCHANGED <<stored, syncs, keyed>>
      BY <1>7, <1>13
    <2>2. raced' \/ config'.window = config.window
      BY <1>7, <1>13
    <2>3. raced => raced'
      BY <1>7
    <2>4. raced' \/ (stored' \subseteq {config'.window} /\ ListLooksAt(syncs', config'.window))
      BY <2>1, <2>2, <2>3 DEF IntakeInv, WindowFits
    <2>5. WindowFits'
      BY <2>4 DEF WindowFits, ListLooksAt
    <2>6. IntakeTypeOK'
      BY <1>7, <1>8, <1>9, <1>10, <2>1 DEF IntakeInv, IntakeTypeOK
    <2> QED  BY <1>11, <2>1, <2>5, <2>6 DEF IntakeInv
  <1> QED  BY <1>12, <1>13

LEMMA SyncAt ==
  ASSUME IntakeInv, NEW i \in 1 .. Len(syncs)
  PROVE  /\ syncs[i] \in Sync /\ SyncFits(syncs[i])
         /\ raced \/ LooksAt(syncs[i], config.window)
         /\ config \in Config /\ config.window \in Windows /\ failures \in 0 .. MaxFailures
  BY ConfigType DEF IntakeInv, IntakeTypeOK, ListFits, WindowFits, ListLooksAt

\* The configuration a session goes by has the window in force, or else the change of it is
\* recorded.
LEMMA LoadedFits ==
  ASSUME IntakeInv, NEW i \in 1 .. Len(syncs), syncs[i].stage = "fetching", NEW c \in Loaded(i)
  PROVE  c \in Config /\ c.window \in Windows /\ (raced \/ c.window = config.window)
  BY SyncAt, ConfigType DEF Loaded, SyncFits, LooksAt

LEMMA FailuresGrow ==
  ASSUME IntakeInv, failures < MaxFailures, failures' = failures + 1
  PROVE  failures' \in 0 .. MaxFailures
  BY SyncBoundsAssumption DEF IntakeInv, IntakeTypeOK

\* What a worker does before the records: the request alone changes.
LEMMA StagesInv ==
  ASSUME IntakeInv, NEW i \in 1 .. Len(syncs),
         \/ ConsumeSync(i) \/ ClaimSync(i) \/ FetchFinds(i) \/ RetrySync(i) \/ ParseEnds(i)
         \/ BeginApply(i)
  PROVE  IntakeInv'
  <1>1. /\ syncs[i] \in Sync /\ SyncFits(syncs[i])
        /\ raced \/ LooksAt(syncs[i], config.window)
        /\ config \in Config /\ config.window \in Windows /\ failures \in 0 .. MaxFailures
    BY SyncAt
  <1>2. CASE ConsumeSync(i)
    <2>1. PICK x : x = [syncs[i] EXCEPT !.stage = "queued"]
      OBVIOUS
    <2>2. x \in Sync /\ x.stage = "queued" /\ x.seen = syncs[i].seen /\ x.over = syncs[i].over
      BY <1>1, <2>1 DEF Sync, Stages
    <2>3. SyncFits(x) /\ (raced \/ LooksAt(x, config.window))
      BY <1>1, <2>2 DEF SyncFits, LooksAt
    <2>4. Moves(i, x) /\ failures' \in 0 .. MaxFailures
      BY <1>1, <1>2, <2>1 DEF ConsumeSync
    <2> QED  BY <2>2, <2>3, <2>4, MovesInv
  <1>3. CASE ClaimSync(i)
    <2>1. PICK x : x = [[syncs[i] EXCEPT !.stage = "fetching"] EXCEPT !.copy = config]
      OBVIOUS
    <2>2. x \in Sync /\ x.stage = "fetching" /\ x.seen = syncs[i].seen /\ x.copy = config
          /\ x.over = syncs[i].over
      BY <1>1, <2>1 DEF Sync, Stages
    <2>3. SyncFits(x) /\ (raced \/ LooksAt(x, config.window))
      BY <1>1, <2>2 DEF SyncFits, LooksAt
    <2>4. Moves(i, x) /\ failures' \in 0 .. MaxFailures
      BY <1>1, <1>3, <2>1 DEF ClaimSync
    <2> QED  BY <2>2, <2>3, <2>4, MovesInv
  <1>4. CASE FetchFinds(i)
    <2>1. PICK c \in Loaded(i) :
             Moves(i, [syncs[i] EXCEPT !.stage = "parsing", !.seen = c.window, !.copy = None])
      BY <1>4 DEF FetchFinds
    <2>2. c \in Config /\ c.window \in Windows /\ (raced \/ c.window = config.window)
      BY <1>4, LoadedFits DEF FetchFinds
    <2>3. PICK x : x = [[[syncs[i] EXCEPT !.stage = "parsing"] EXCEPT !.seen = c.window]
                            EXCEPT !.copy = None]
      OBVIOUS
    <2>4. x \in Sync /\ x.stage = "parsing" /\ x.seen = c.window /\ x.over = syncs[i].over
      BY <1>1, <2>2, <2>3 DEF Sync, Stages
    <2>5. SyncFits(x) /\ (raced \/ LooksAt(x, config.window))
      BY <2>2, <2>4 DEF SyncFits, LooksAt
    <2>6. Moves(i, x) /\ failures' \in 0 .. MaxFailures
      BY <1>1, <1>4, <2>1, <2>3 DEF FetchFinds
    <2> QED  BY <2>4, <2>5, <2>6, MovesInv
  <1>5. CASE RetrySync(i)
    <2>1. PICK x : x = [[[syncs[i] EXCEPT !.stage = "asleep"] EXCEPT !.seen = None]
                            EXCEPT !.copy = None]
      OBVIOUS
    <2>2. x \in Sync /\ x.stage = "asleep" /\ x.seen = None /\ x.over = syncs[i].over
      BY <1>1, <2>1 DEF Sync, Stages
    <2>3. SyncFits(x) /\ (raced \/ LooksAt(x, config.window))
      BY <2>2 DEF SyncFits, LooksAt
    <2>4. Moves(i, x) /\ failures' \in 0 .. MaxFailures
      BY <1>5, <2>1, FailuresGrow DEF RetrySync
    <2> QED  BY <2>2, <2>3, <2>4, MovesInv
  <1>6. CASE ParseEnds(i)
    <2>1. PICK x : x = [syncs[i] EXCEPT !.stage = "parsed"]
      OBVIOUS
    <2>2. x \in Sync /\ x.stage = "parsed" /\ x.seen = syncs[i].seen /\ x.over = syncs[i].over
      BY <1>1, <2>1 DEF Sync, Stages
    <2>3. SyncFits(x) /\ (raced \/ LooksAt(x, config.window))
      BY <1>1, <1>6, <2>2 DEF SyncFits, LooksAt, ParseEnds
    <2>4. Moves(i, x) /\ failures' \in 0 .. MaxFailures
      BY <1>1, <1>6, <2>1 DEF ParseEnds
    <2> QED  BY <2>2, <2>3, <2>4, MovesInv
  <1>7. CASE BeginApply(i)
    <2>1. PICK x : x = [[syncs[i] EXCEPT !.stage = "applying"] EXCEPT !.copy = config]
      OBVIOUS
    <2>2. x \in Sync /\ x.stage = "applying" /\ x.seen = syncs[i].seen /\ x.copy = config
          /\ x.over = syncs[i].over
      BY <1>1, <2>1 DEF Sync, Stages
    <2>3. SyncFits(x) /\ (raced \/ LooksAt(x, config.window))
      BY <1>1, <1>7, <2>2 DEF SyncFits, LooksAt, BeginApply
    <2>4. Moves(i, x) /\ failures' \in 0 .. MaxFailures
      BY <1>1, <1>7, <2>1 DEF BeginApply
    <2> QED  BY <2>2, <2>3, <2>4, MovesInv
  <1> QED  BY <1>2, <1>3, <1>4, <1>5, <1>6, <1>7

LEMMA SeenActive ==
  ASSUME NEW i, NEW active \in SeesActive(i)
  PROVE  active \in BOOLEAN
  BY DEF SeesActive, Some

\* The request that ends leaves the list.
LEMMA RestFits ==
  ASSUME IntakeInv, NEW i \in 1 .. Len(syncs), NEW rest, rest = RemoveAt(syncs, i)
  PROVE  /\ ListFits(rest) /\ Len(rest) <= MaxSyncs
         /\ stored \in SUBSET Windows
         /\ raced \/ (stored \subseteq {config.window} /\ ListLooksAt(rest, config.window))
  <1>1. ListFits(syncs) /\ Len(syncs) <= MaxSyncs + 1 /\ Len(syncs) \in Nat
    BY DEF IntakeInv, IntakeTypeOK, ListFits
  <1>2. /\ ListFits(rest) /\ Len(rest) = Len(syncs) - 1
        /\ \A w : ListLooksAt(syncs, w) => ListLooksAt(rest, w)
    BY <1>1, RemoveFits
  <1>3. Len(rest) <= MaxSyncs
    BY <1>1, <1>2, SyncBoundsAssumption
  <1> QED  BY <1>2, <1>3 DEF IntakeInv, IntakeTypeOK, WindowFits

\* The request has looked, so a window that comes in force here is recorded.
LEMMA FindsNothingInv ==
  ASSUME IntakeInv, NEW i \in 1 .. Len(syncs), FetchFindsNothing(i)
  PROVE  IntakeInv'
  <1>1. PICK c \in Loaded(i), active \in SeesActive(i) :
           Rebind(c, [syncs EXCEPT ![i] = [stage |-> "parsed", seen |-> c.window, copy |-> None,
                                           over |-> TRUE]],
                  stored, active)
    BY DEF FetchFindsNothing
  <1>2. c \in Config /\ c.window \in Windows /\ (raced \/ c.window = config.window)
    BY LoadedFits DEF FetchFindsNothing
  <1>3. PICK x : x = [stage |-> "parsed", seen |-> c.window, copy |-> None, over |-> TRUE]
    OBVIOUS
  <1>4. x \in Sync /\ SyncFits(x) /\ (raced \/ LooksAt(x, config.window))
    BY <1>2, <1>3 DEF Sync, Stages, SyncFits, LooksAt
  <1>5. PICK list : list = [syncs EXCEPT ![i] = x]
    OBVIOUS
  <1>6. ListFits(syncs) /\ Len(syncs) \in Nat /\ Len(syncs) <= MaxSyncs + 1
        /\ stored \in SUBSET Windows
    BY DEF IntakeInv, IntakeTypeOK, ListFits
  <1>7. /\ ListFits(list) /\ Len(list) = Len(syncs)
        /\ \A w : ListLooksAt(syncs, w) /\ LooksAt(x, w) => ListLooksAt(list, w)
    BY <1>4, <1>5, <1>6, ChangeFits
  <1>8. Len(list) <= MaxSyncs
    <2>1. Len(syncs) # MaxSyncs + 1
      BY DEF IntakeInv, Full, FetchFindsNothing
    <2> QED  BY <1>6, <1>7, <2>1, SyncBoundsAssumption
  <1>9. raced \/ (stored \subseteq {config.window} /\ ListLooksAt(list, config.window))
    BY <1>4, <1>7 DEF IntakeInv, WindowFits
  <1>10. Rebind(c, list, stored, active)
    BY <1>1, <1>3, <1>5
  <1>11. UNCHANGED <<patch, patches, wanted>> /\ failures' \in 0 .. MaxFailures
    BY SyncAt DEF FetchFindsNothing
  <1> QED  BY <1>1, <1>2, <1>6, <1>7, <1>8, <1>9, <1>10, <1>11, SeenActive, RebindInv

LEMMA FailSyncInv ==
  ASSUME IntakeInv, NEW i \in 1 .. Len(syncs), FailSync(i)
  PROVE  IntakeInv'
  <1>1. PICK c \in IF syncs[i].stage = "fetching" THEN Loaded(i) ELSE {config},
             active \in SeesActive(i) : Rebind(c, RemoveAt(syncs, i), stored, active)
    BY DEF FailSync
  <1>2. c \in Config
    BY <1>1, LoadedFits, SyncAt
  <1>3. PICK rest : rest = RemoveAt(syncs, i)
    OBVIOUS
  <1>4. /\ ListFits(rest) /\ Len(rest) <= MaxSyncs
        /\ stored \in SUBSET Windows
        /\ raced \/ (stored \subseteq {config.window} /\ ListLooksAt(rest, config.window))
    BY <1>3, RestFits
  <1>5. UNCHANGED <<patch, patches, wanted>> /\ failures' \in 0 .. MaxFailures
    BY FailuresGrow DEF FailSync
  <1> QED  BY <1>1, <1>2, <1>3, <1>4, <1>5, SeenActive, RebindInv

LEMMA FailApplyInv ==
  ASSUME IntakeInv, NEW i \in 1 .. Len(syncs), FailApply(i)
  PROVE  IntakeInv'
  <1>1. PICK active \in SeesActive(i) : Rebind(config, RemoveAt(syncs, i), stored, active)
    BY DEF FailApply
  <1>2. config \in Config
    BY SyncAt
  <1>3. PICK rest : rest = RemoveAt(syncs, i)
    OBVIOUS
  <1>4. /\ ListFits(rest) /\ Len(rest) <= MaxSyncs
        /\ stored \in SUBSET Windows
        /\ raced \/ (stored \subseteq {config.window} /\ ListLooksAt(rest, config.window))
    BY <1>3, RestFits
  <1>5. UNCHANGED <<patch, patches, wanted>> /\ failures' \in 0 .. MaxFailures
    BY FailuresGrow DEF FailApply
  <1> QED  BY <1>1, <1>2, <1>3, <1>4, <1>5, SeenActive, RebindInv

\* The records are of the window the request has looked at.
LEMMA CommitApplyInv ==
  ASSUME IntakeInv, NEW i \in 1 .. Len(syncs), CommitApply(i)
  PROVE  IntakeInv'
  <1>1. PICK active \in SeesActive(i) :
           Rebind(syncs[i].copy, RemoveAt(syncs, i), stored \cup {syncs[i].seen}, active)
    BY DEF CommitApply
  <1>2. /\ syncs[i].copy \in Config /\ syncs[i].seen \in Windows
        /\ raced \/ syncs[i].seen = config.window
    BY SyncAt, WindowsAssumption DEF CommitApply, SyncFits, LooksAt
  <1>3. PICK rest, kept : rest = RemoveAt(syncs, i) /\ kept = stored \cup {syncs[i].seen}
    OBVIOUS
  <1>4. /\ ListFits(rest) /\ Len(rest) <= MaxSyncs
        /\ stored \in SUBSET Windows
        /\ raced \/ (stored \subseteq {config.window} /\ ListLooksAt(rest, config.window))
    BY <1>3, RestFits
  <1>5. /\ kept \in SUBSET Windows
        /\ raced \/ (kept \subseteq {config.window} /\ ListLooksAt(rest, config.window))
    BY <1>2, <1>3, <1>4
  <1>6. UNCHANGED <<patch, patches, wanted>> /\ failures' \in 0 .. MaxFailures
    BY SyncAt DEF CommitApply
  <1>7. Rebind(syncs[i].copy, rest, kept, active)
    BY <1>1, <1>3
  <1> QED  BY <1>1, <1>2, <1>4, <1>5, <1>6, <1>7, SeenActive, RebindInv

LEMMA IntakeStep == IntakeInv /\ [IntakeNext]_intakeVars => IntakeInv'
  <1> SUFFICES ASSUME IntakeInv, [IntakeNext]_intakeVars  PROVE IntakeInv'
    OBVIOUS
  <1>1. CASE UNCHANGED intakeVars
    BY <1>1 DEF intakeVars, IntakeInv, IntakeTypeOK, WindowFits
  <1>2. CASE ScheduleSync \/ WebhookSync \/ ManualSync
    BY <1>2, EnqueueInv DEF ScheduleSync, WebhookSync, ManualSync
  <1>3. ASSUME NEW u \in Updaters, NEW w \in Windows, BeginPatch(u, w)  PROVE IntakeInv'
    BY <1>3, BeginPatchInv
  <1>4. ASSUME NEW u \in Updaters, CommitPatch(u)  PROVE IntakeInv'
    BY <1>4, CommitPatchInv
  <1>5. ASSUME NEW i \in 1 .. MaxSyncs + 1, WorkOn(i)  PROVE IntakeInv'
    <2>1. i \in 1 .. Len(syncs)
      <3>1. syncs \in Seq(Sync) /\ i \in DOMAIN syncs
        BY <1>5 DEF WorkOn, IntakeInv, ListFits
      <3> QED  BY <3>1
    <2> QED  BY <1>5, <2>1, StagesInv, FindsNothingInv, FailSyncInv, CommitApplyInv, FailApplyInv
             DEF WorkOn
  <1> QED  BY <1>1, <1>2, <1>3, <1>4, <1>5 DEF IntakeNext

LEMMA IntakeInvariant == IntakeSpec => []IntakeInv
  BY IntakeInvInit, IntakeStep, PTL DEF IntakeSpec

\* Configuration, requests and PATCHes keep their shape, and there is never more than one
\* request beyond those the scheduler, webhooks and the user ask for: however often windows
\* change, a rescope asks for a sync only when none is active.
THEOREM IntakeTypeCorrect == IntakeSpec => []IntakeTypeOK
  <1>1. IntakeInv => IntakeTypeOK
    BY DEF IntakeInv
  <1> QED  BY <1>1, IntakeInvariant, PTL

\* What a source has stored, its cursor included, was fetched under the window in force,
\* unless a window came in force beside a request that had looked at the one before.
THEOREM StoredStemsFromWindow == IntakeSpec => []StoredFitsWindow
  <1>1. IntakeInv => StoredFitsWindow
    BY DEF IntakeInv, WindowFits, StoredFitsWindow
  <1> QED  BY <1>1, IntakeInvariant, PTL

-----------------------------------------------------------------------------
(* ChangeNotices: events and workers.                                      *)

LEMMA MinIn ==
  ASSUME NEW S \in SUBSET Events, S # {}
  PROVE  Min(S) \in S
  <1>1. S \subseteq Nat
    BY MaxEventsAssumption DEF Events
  <1>2. PICK x \in S : \A y \in S : ~(<<y, x>> \in OpToRel(<, Nat))
    BY <1>1, NatLessThanWellFounded, WFMin
  <1>3. \A y \in S : x <= y
    <2> TAKE y \in S
    <2>1. x \in Nat /\ y \in Nat
      BY <1>1, <1>2
    <2>2. ~(<<y, x>> \in OpToRel(<, Nat))
      BY <1>2
    <2>3. ~(y < x)
      BY <2>1, <2>2 DEF OpToRel
    <2> QED  BY <2>1, <2>3
  <1> QED  BY <1>3 DEF Min

LEMMA IdleType == IdleWorker \in Worker /\ IdleWorker.step = "idle" /\ IdleWorker.events = {}
                  /\ IdleWorker.locks = {} /\ IdleWorker.batch = {} /\ IdleWorker.mailed = {}
                  /\ IdleWorker.failed = {}
  BY DEF IdleWorker, Worker

LEMMA EventTypes ==
  /\ \A e \in Event : e # NoEvent /\ e.status \in {"PENDING", "PROCESSED"}
                      /\ e.changes \subseteq Changes
  /\ NoEvent.status = "none" /\ NoEvent.changes = {}
  BY DEF Event, NoEvent

-----------------------------------------------------------------------------
(* The inductive invariant of ChangeNotices.                               *)

\* A worker that goes through events has some, all of them announced; one that found the next
\* of them in the inbox was right.
EventsFit(k) ==
    /\ k.step \in {"next", "added", "known"} => k.events # {}
    /\ \A ev \in k.events : outbox[ev] # NoEvent
    /\ k.step = "known" => Min(k.events) \in inbox

EventsInv ==
    /\ \A w \in Workers : EventsFit(worker[w])
    /\ \A ev \in inbox : outbox[ev] # NoEvent
    /\ InboxHasNotices

\* A worker has a batch, and has mailed or failed users, only in the transaction of its
\* digest; what is in the batch is pending as long as it is locked.
BatchFits(k) ==
    /\ k.step # "sending" => k.batch = {} /\ k.mailed = {} /\ k.failed = {}
    /\ \A c \in k.batch : notice[c] = "PENDING"

BatchesApart == \A v, w \in Workers : v # w => worker[v].batch \cap worker[w].batch = {}

MailsFit ==
    \A c \in Changes : mails[c] = unrecorded[c] + (IF notice[c] = "SENT" THEN 1 ELSE 0)
                                                + (IF Mailing(c) THEN 1 ELSE 0)

MailsInv ==
    /\ \A w \in Workers : BatchFits(worker[w])
    /\ BatchesApart
    /\ \A c \in Changes : unrecorded[c] <= breaks
    /\ MailsFit

NoticesInv == NoticesTypeOK /\ EventsInv /\ MailsInv

LEMMA NoticesInvInit == NoticesInit => NoticesInv
  <1> SUFFICES ASSUME NoticesInit  PROVE NoticesInv
    OBVIOUS
  <1>1. \A w \in Workers : worker[w] = IdleWorker
    BY DEF NoticesInit
  <1>2. NoticesTypeOK
    BY IdleType, MaxBreaksAssumption DEF NoticesInit, NoticesTypeOK
  <1>3. \A ev \in Events : outbox[ev] = NoEvent /\ ev \notin inbox
    BY DEF NoticesInit
  <1>4. EventsInv
    BY <1>1, <1>3, IdleType, EventTypes DEF EventsInv, EventsFit, InboxHasNotices, NoticesInit
  <1>5. \A c \in Changes : ~Mailing(c)
    BY <1>1, IdleType DEF Mailing, MailedBy
  <1>6. \A c \in Changes : mails[c] = 0 /\ unrecorded[c] = 0 /\ notice[c] = "none" /\ breaks = 0
    BY DEF NoticesInit
  <1>7. MailsFit
    BY <1>5, <1>6 DEF MailsFit
  <1>8. MailsInv
    BY <1>1, <1>6, <1>7, IdleType DEF MailsInv, BatchFits, BatchesApart
  <1> QED  BY <1>2, <1>4, <1>8 DEF NoticesInv

LEMMA WorkerAt ==
  ASSUME NoticesInv, NEW w \in Workers
  PROVE  /\ worker[w] \in Worker /\ EventsFit(worker[w]) /\ BatchFits(worker[w])
         /\ worker[w].events \subseteq Events /\ worker[w].locks \subseteq Events
         /\ worker[w].batch \subseteq Changes /\ worker[w].mailed \subseteq Users
         /\ worker[w].failed \subseteq Users
  BY DEF NoticesInv, NoticesTypeOK, EventsInv, MailsInv, Worker

\* One worker moves.
LEMMA OneWorker ==
  ASSUME NoticesInv, NEW w \in Workers, NEW x \in Worker, worker' = [worker EXCEPT ![w] = x]
  PROVE  /\ worker' \in [Workers -> Worker] /\ worker'[w] = x
         /\ \A v \in Workers : v # w => worker'[v] = worker[v]
  BY DEF NoticesInv, NoticesTypeOK

\* As long as outbox and inbox stay, no notice is taken back, and every worker's events fit,
\* so does the rest.
LEMMA EventsStay ==
  ASSUME NoticesInv, UNCHANGED <<outbox, inbox>>,
         \A w \in Workers : \/ EventsFit(worker'[w])
                            \/ worker'[w] = worker[w],
         \A c \in Changes : notice[c] # "none" => notice'[c] # "none"
  PROVE  EventsInv'
  <1>1. ASSUME NEW w \in Workers  PROVE EventsFit(worker[w])'
    BY DEF EventsFit, NoticesInv, EventsInv
  <1>2. InboxHasNotices'
    <2>1. ASSUME NEW ev \in Events, NEW c \in outbox[ev].changes  PROVE c \in Changes
      BY EventTypes DEF NoticesInv, NoticesTypeOK
    <2> QED  BY <2>1 DEF NoticesInv, EventsInv, InboxHasNotices
  <1> QED  BY <1>1, <1>2 DEF NoticesInv, EventsInv

\* As long as nothing is mailed and no batch is taken or left, mails fit.
LEMMA MailsStay ==
  ASSUME NoticesInv, UNCHANGED <<mails, unrecorded, breaks>>,
         \A w \in Workers : worker'[w].batch = worker[w].batch /\ worker'[w].mailed = worker[w].mailed,
         \A w \in Workers : worker'[w].step # "sending" => /\ worker'[w].batch = {}
                                                           /\ worker'[w].mailed = {}
                                                           /\ worker'[w].failed = {},
         \A c \in Changes : notice'[c] = notice[c] \/ (notice[c] = "none" /\ notice'[c] = "PENDING")
  PROVE  MailsInv'
  <1>1. ASSUME NEW w \in Workers  PROVE BatchFits(worker[w])'
    <2>1. \A c \in worker[w].batch : notice[c] = "PENDING" /\ c \in Changes
      BY WorkerAt DEF BatchFits
    <2> QED  BY <2>1 DEF BatchFits
  <1>2. BatchesApart'
    BY DEF NoticesInv, MailsInv, BatchesApart
  <1>3. ASSUME NEW c \in Changes  PROVE Mailing(c)' <=> Mailing(c)
    BY DEF Mailing, MailedBy
  <1>4. \A c \in Changes : (notice'[c] = "SENT") <=> (notice[c] = "SENT")
    OBVIOUS
  <1>5. MailsFit'
    BY <1>3, <1>4 DEF MailsFit, NoticesInv, MailsInv
  <1> QED  BY <1>1, <1>2, <1>5 DEF NoticesInv, MailsInv

-----------------------------------------------------------------------------
(* The actions of ChangeNotices.                                           *)

\* A transaction announces its proposals in an event nobody has seen.
LEMMA EmitInv ==
  ASSUME NoticesInv, NEW S \in SUBSET Changes, EmitChangePendingCreated(S)
  PROVE  NoticesInv'
  <1>1. PICK ev \in Events : outbox[ev] = NoEvent
           /\ outbox' = [outbox EXCEPT ![ev] = [status |-> "PENDING", changes |-> S]]
    BY DEF EmitChangePendingCreated
  <1>2. UNCHANGED <<inbox, notice, worker, mails, unrecorded, breaks>>
    BY DEF EmitChangePendingCreated
  <1>3. PICK e : e = [status |-> "PENDING", changes |-> S]
    OBVIOUS
  <1>4. e \in Event /\ e # NoEvent /\ e.status = "PENDING"
    BY <1>3, EventTypes DEF Event
  <1>5. /\ outbox' \in [Events -> Event \cup {NoEvent}] /\ outbox'[ev] = e
        /\ \A f \in Events : f # ev => outbox'[f] = outbox[f]
    BY <1>1, <1>3, <1>4 DEF NoticesInv, NoticesTypeOK
  <1>6. NoticesTypeOK'
    BY <1>2, <1>5 DEF NoticesInv, NoticesTypeOK
  <1>7. ev \notin inbox
    BY <1>1 DEF NoticesInv, EventsInv
  <1>8. ASSUME NEW w \in Workers  PROVE EventsFit(worker[w])'
    <2>1. worker[w].events \subseteq Events /\ EventsFit(worker[w])
      BY WorkerAt
    <2> QED  BY <1>2, <1>4, <1>5, <2>1 DEF EventsFit
  <1>9. InboxHasNotices'
    <2>1. ASSUME NEW f \in Events
          PROVE  /\ f \in inbox => \A c \in outbox'[f].changes : notice[c] # "none"
                 /\ outbox'[f].status = "PROCESSED" => f \in inbox
      BY <1>4, <1>5, <1>7 DEF NoticesInv, EventsInv, InboxHasNotices
    <2> QED  BY <1>2, <2>1 DEF InboxHasNotices
  <1>10. EventsInv'
    <2>1. \A f \in inbox : outbox'[f] # NoEvent
      BY <1>4, <1>5, <1>7 DEF NoticesInv, EventsInv, NoticesTypeOK
    <2> QED  BY <1>2, <1>8, <1>9, <2>1 DEF EventsInv
  <1>11. MailsInv'
    BY <1>2, WorkerAt, MailsStay DEF BatchFits
  <1> QED  BY <1>6, <1>10, <1>11 DEF NoticesInv

LEMMA TakeEventsInv ==
  ASSUME NoticesInv, NEW w \in Workers, TakeEvents(w)
  PROVE  NoticesInv'
  <1>1. PICK S : S = {ev \in Events : outbox[ev].status = "PENDING"} \ EventLocks(w)
    OBVIOUS
  <1>2. /\ worker[w].step = "idle"
        /\ worker' = [worker EXCEPT ![w] =
               IF S = {} THEN [worker[w] EXCEPT !.step = "digest"]
               ELSE [worker[w] EXCEPT !.step = "next", !.events = S, !.locks = S]]
        /\ UNCHANGED <<outbox, inbox, notice, mails, unrecorded, breaks>>
    BY <1>1 DEF TakeEvents
  <1>3. S \subseteq Events /\ \A ev \in S : outbox[ev] # NoEvent
    BY <1>1, EventTypes
  <1>4. /\ worker[w] \in Worker /\ EventsFit(worker[w]) /\ BatchFits(worker[w])
    BY WorkerAt
  <1>5. PICK x : x = IF S = {} THEN [worker[w] EXCEPT !.step = "digest"]
                     ELSE [[[worker[w] EXCEPT !.step = "next"] EXCEPT !.events = S]
                              EXCEPT !.locks = S]
    OBVIOUS
  <1>6. /\ x \in Worker /\ x.batch = worker[w].batch /\ x.mailed = worker[w].mailed
        /\ x.failed = worker[w].failed
        /\ \/ S = {} /\ x.step = "digest" /\ x.events = worker[w].events
           \/ S # {} /\ x.step = "next" /\ x.events = S
    BY <1>3, <1>4, <1>5 DEF Worker
  <1>7. worker' = [worker EXCEPT ![w] = x]
    BY <1>2, <1>5
  <1>8. /\ worker' \in [Workers -> Worker] /\ worker'[w] = x
        /\ \A v \in Workers : v # w => worker'[v] = worker[v]
    BY <1>6, <1>7, OneWorker
  <1>9. EventsFit(x)
    BY <1>3, <1>4, <1>6 DEF EventsFit
  <1>10. EventsInv'
    BY <1>2, <1>8, <1>9, EventsStay
  <1>11. MailsInv'
    <2>1. ASSUME NEW v \in Workers
          PROVE  /\ worker'[v].batch = worker[v].batch /\ worker'[v].mailed = worker[v].mailed
                 /\ worker'[v].step # "sending" => /\ worker'[v].batch = {}
                                                   /\ worker'[v].mailed = {}
                                                   /\ worker'[v].failed = {}
      BY <1>2, <1>4, <1>6, <1>8, WorkerAt DEF BatchFits
    <2> QED  BY <1>2, <2>1, MailsStay
  <1>12. NoticesTypeOK'
    BY <1>2, <1>8 DEF NoticesInv, NoticesTypeOK
  <1> QED  BY <1>10, <1>11, <1>12 DEF NoticesInv

LEMMA AddInboxInv ==
  ASSUME NoticesInv, NEW w \in Workers, AddInbox(w)
  PROVE  NoticesInv'
  <1>1. PICK ev : ev = Min(worker[w].events)
    OBVIOUS
  <1>2. /\ worker[w].step = "next"
        /\ worker' = [worker EXCEPT ![w] =
               IF ev \in inbox THEN [worker[w] EXCEPT !.step = "known", !.locks = {}]
               ELSE [worker[w] EXCEPT !.step = "added"]]
        /\ UNCHANGED <<outbox, inbox, notice, mails, unrecorded, breaks>>
    BY <1>1 DEF AddInbox
  <1>3. /\ worker[w] \in Worker /\ EventsFit(worker[w]) /\ BatchFits(worker[w])
    BY WorkerAt
  <1>4. PICK x : x = IF ev \in inbox
                     THEN [[worker[w] EXCEPT !.step = "known"] EXCEPT !.locks = {}]
                     ELSE [worker[w] EXCEPT !.step = "added"]
    OBVIOUS
  <1>5. /\ x \in Worker /\ x.batch = worker[w].batch /\ x.mailed = worker[w].mailed
        /\ x.failed = worker[w].failed /\ x.events = worker[w].events
        /\ \/ ev \in inbox /\ x.step = "known"
           \/ ev \notin inbox /\ x.step = "added"
    BY <1>3, <1>4 DEF Worker
  <1>6. worker' = [worker EXCEPT ![w] = x]
    BY <1>2, <1>4
  <1>7. /\ worker' \in [Workers -> Worker] /\ worker'[w] = x
        /\ \A v \in Workers : v # w => worker'[v] = worker[v]
    BY <1>5, <1>6, OneWorker
  <1>8. EventsFit(x)
    BY <1>1, <1>2, <1>3, <1>5 DEF EventsFit
  <1>9. EventsInv'
    BY <1>2, <1>7, <1>8, EventsStay
  <1>10. MailsInv'
    <2>1. ASSUME NEW v \in Workers
          PROVE  /\ worker'[v].batch = worker[v].batch /\ worker'[v].mailed = worker[v].mailed
                 /\ worker'[v].step # "sending" => /\ worker'[v].batch = {}
                                                   /\ worker'[v].mailed = {}
                                                   /\ worker'[v].failed = {}
      BY <1>2, <1>3, <1>5, <1>7, WorkerAt DEF BatchFits
    <2> QED  BY <1>2, <2>1, MailsStay
  <1>11. NoticesTypeOK'
    BY <1>2, <1>7 DEF NoticesInv, NoticesTypeOK
  <1> QED  BY <1>9, <1>10, <1>11 DEF NoticesInv

\* The next event is done: it is in the inbox now, and each of its changes has a notice.
LEMMA CommitEventInv ==
  ASSUME NoticesInv, NEW w \in Workers, NEW ev, ev = Min(worker[w].events), CommitEvent(w, ev),
         worker[w].step \in {"added", "known"},
         inbox' = inbox \cup {ev},
         notice' \in [Changes -> {"none", "PENDING", "SENT", "FAILED"}],
         \A c \in Changes : notice'[c] = notice[c] \/ (notice[c] = "none" /\ notice'[c] = "PENDING"),
         \A c \in outbox[ev].changes : notice'[c] # "none"
  PROVE  NoticesInv'
  <1>1. /\ worker[w] \in Worker /\ EventsFit(worker[w]) /\ BatchFits(worker[w])
        /\ worker[w].events \subseteq Events
    BY WorkerAt
  <1>2. ev \in worker[w].events /\ ev \in Events /\ outbox[ev] # NoEvent
    BY <1>1, MinIn DEF EventsFit
  <1>3. /\ outbox' = [outbox EXCEPT ![ev].status = "PROCESSED"]
        /\ worker' = [worker EXCEPT ![w].events = @ \ {ev}, ![w].locks = {},
                      ![w].step = IF worker[w].events = {ev} THEN "digest" ELSE "next"]
        /\ UNCHANGED <<mails, unrecorded, breaks>>
    BY DEF CommitEvent
  <1>4. PICK e : e = [outbox[ev] EXCEPT !.status = "PROCESSED"]
    OBVIOUS
  <1>5. outbox[ev] \in Event
    BY <1>2 DEF NoticesInv, NoticesTypeOK
  <1>6. e \in Event /\ e.changes = outbox[ev].changes /\ e # NoEvent
    BY <1>4, <1>5, EventTypes DEF Event
  <1>7. outbox' = [outbox EXCEPT ![ev] = e]
    BY <1>3, <1>4
  <1>8. /\ outbox' \in [Events -> Event \cup {NoEvent}] /\ outbox'[ev] = e
        /\ \A f \in Events : f # ev => outbox'[f] = outbox[f]
    BY <1>2, <1>6, <1>7 DEF NoticesInv, NoticesTypeOK
  <1>9. PICK x : x = [[[worker[w] EXCEPT !.events = worker[w].events \ {ev}] EXCEPT !.locks = {}]
                         EXCEPT !.step = IF worker[w].events = {ev} THEN "digest" ELSE "next"]
    OBVIOUS
  <1>10. /\ x \in Worker /\ x.batch = worker[w].batch /\ x.mailed = worker[w].mailed
         /\ x.failed = worker[w].failed /\ x.events = worker[w].events \ {ev}
         /\ x.step = IF worker[w].events = {ev} THEN "digest" ELSE "next"
    BY <1>1, <1>9 DEF Worker
  <1>11. worker' = [worker EXCEPT ![w] = x]
    BY <1>3, <1>9 DEF NoticesInv, NoticesTypeOK
  <1>12. /\ worker' \in [Workers -> Worker] /\ worker'[w] = x
         /\ \A v \in Workers : v # w => worker'[v] = worker[v]
    BY <1>10, <1>11, OneWorker
  <1>13. NoticesTypeOK'
    BY <1>2, <1>3, <1>8, <1>12 DEF NoticesInv, NoticesTypeOK
  <1>14. \A f \in Events : outbox[f] # NoEvent => outbox'[f] # NoEvent
    BY <1>6, <1>8
  <1>15. ASSUME NEW v \in Workers  PROVE EventsFit(worker[v])'
    <2>1. CASE v = w
      <3>1. x.step \in {"digest", "next"} /\ (x.step = "next" => x.events # {})
        BY <1>2, <1>10
      <3>2. \A f \in x.events : outbox'[f] # NoEvent
        BY <1>1, <1>10, <1>14 DEF EventsFit
      <3> QED  BY <1>12, <2>1, <3>1, <3>2 DEF EventsFit
    <2>2. CASE v # w
      <3>1. EventsFit(worker[v]) /\ worker[v].events \subseteq Events /\ worker'[v] = worker[v]
        BY <1>12, <2>2, WorkerAt
      <3> QED  BY <1>14, <3>1 DEF EventsFit
    <2> QED  BY <2>1, <2>2
  <1>16. InboxHasNotices'
    <2>1. ASSUME NEW f \in Events
          PROVE  /\ f \in inbox' => \A c \in outbox'[f].changes : notice'[c] # "none"
                 /\ outbox'[f].status = "PROCESSED" => f \in inbox'
      <3>1. outbox[f].changes \subseteq Changes
        BY EventTypes DEF NoticesInv, NoticesTypeOK
      <3>2. CASE f = ev
        BY <1>6, <1>8, <3>2
      <3>3. CASE f # ev
        BY <1>8, <3>1, <3>3 DEF NoticesInv, EventsInv, InboxHasNotices
      <3> QED  BY <3>2, <3>3
    <2> QED  BY <2>1 DEF InboxHasNotices
  <1>17. \A f \in inbox' : outbox'[f] # NoEvent
    BY <1>2, <1>14 DEF NoticesInv, EventsInv, NoticesTypeOK
  <1>18. EventsInv'
    BY <1>15, <1>16, <1>17 DEF EventsInv
  <1>19. MailsInv'
    <2>1. ASSUME NEW v \in Workers
          PROVE  /\ worker'[v].batch = worker[v].batch /\ worker'[v].mailed = worker[v].mailed
                 /\ worker'[v].step # "sending" => /\ worker'[v].batch = {}
                                                   /\ worker'[v].mailed = {}
                                                   /\ worker'[v].failed = {}
      BY <1>1, <1>10, <1>12, WorkerAt DEF BatchFits
    <2> QED  BY <1>3, <2>1, MailsStay
  <1> QED  BY <1>13, <1>18, <1>19 DEF NoticesInv

LEMMA EnqueueNotificationsInv ==
  ASSUME NoticesInv, NEW w \in Workers, EnqueueNotifications(w)
  PROVE  NoticesInv'
  <1>1. PICK ev : ev = Min(worker[w].events)
    OBVIOUS
  <1>2. /\ worker[w].step = "added" /\ CommitEvent(w, ev) /\ inbox' = inbox \cup {ev}
        /\ notice' = [c \in Changes |->
               IF c \in outbox[ev].changes /\ notice[c] = "none" THEN "PENDING" ELSE notice[c]]
    BY <1>1 DEF EnqueueNotifications
  <1>3. ev \in Events
    BY <1>1, <1>2, WorkerAt, MinIn DEF EventsFit
  <1>4. outbox[ev].changes \subseteq Changes
    BY <1>3, EventTypes DEF NoticesInv, NoticesTypeOK
  <1>5. /\ notice' \in [Changes -> {"none", "PENDING", "SENT", "FAILED"}]
        /\ \A c \in Changes : notice'[c] = notice[c] \/ (notice[c] = "none" /\ notice'[c] = "PENDING")
        /\ \A c \in outbox[ev].changes : notice'[c] # "none"
    BY <1>2, <1>4 DEF NoticesInv, NoticesTypeOK
  <1> QED  BY <1>1, <1>2, <1>5, CommitEventInv

LEMMA MarkKnownInv ==
  ASSUME NoticesInv, NEW w \in Workers, MarkKnown(w)
  PROVE  NoticesInv'
  <1>1. PICK ev : ev = Min(worker[w].events)
    OBVIOUS
  <1>2. worker[w].step = "known" /\ CommitEvent(w, ev) /\ UNCHANGED <<inbox, notice>>
    BY <1>1 DEF MarkKnown
  <1>3. ev \in inbox /\ ev \in Events
    BY <1>1, <1>2, WorkerAt DEF EventsFit, NoticesInv, NoticesTypeOK
  <1>4. inbox' = inbox \cup {ev} /\ \A c \in outbox[ev].changes : notice'[c] # "none"
    BY <1>2, <1>3 DEF NoticesInv, EventsInv, InboxHasNotices
  <1> QED  BY <1>1, <1>2, <1>4, CommitEventInv DEF NoticesInv, NoticesTypeOK

\* What nobody has locked is in no other batch.
LEMMA TakeNoticesInv ==
  ASSUME NoticesInv, NEW w \in Workers, TakeNotices(w)
  PROVE  NoticesInv'
  <1>1. PICK S : S = {c \in Changes : notice[c] = "PENDING"} \ NoticeLocks(w)
    OBVIOUS
  <1>2. /\ worker[w].step = "digest"
        /\ worker' = [worker EXCEPT ![w] =
               IF S = {} THEN IdleWorker
               ELSE [worker[w] EXCEPT !.step = "sending", !.batch = S]]
        /\ UNCHANGED <<outbox, inbox, notice, mails, unrecorded, breaks>>
    BY <1>1 DEF TakeNotices
  <1>3. /\ worker[w] \in Worker /\ EventsFit(worker[w]) /\ BatchFits(worker[w])
    BY WorkerAt
  <1>4. worker[w].batch = {} /\ worker[w].mailed = {}
    BY <1>2, <1>3 DEF BatchFits
  <1>5. S \subseteq Changes /\ \A c \in S : notice[c] = "PENDING"
    BY <1>1
  <1>6. PICK x : x = IF S = {} THEN IdleWorker
                     ELSE [[worker[w] EXCEPT !.step = "sending"] EXCEPT !.batch = S]
    OBVIOUS
  <1>7. /\ x \in Worker /\ x.batch = S /\ x.mailed = {}
        /\ \/ x = IdleWorker
           \/ x.step = "sending" /\ x.events = worker[w].events
    BY <1>3, <1>4, <1>5, <1>6, IdleType DEF Worker
  <1>8. worker' = [worker EXCEPT ![w] = x]
    BY <1>2, <1>6
  <1>9. /\ worker' \in [Workers -> Worker] /\ worker'[w] = x
        /\ \A v \in Workers : v # w => worker'[v] = worker[v]
    BY <1>7, <1>8, OneWorker
  <1>10. EventsFit(x) /\ BatchFits(x)
    BY <1>3, <1>5, <1>7, IdleType DEF EventsFit, BatchFits
  <1>11. EventsInv'
    BY <1>2, <1>9, <1>10, EventsStay
  <1>12. NoticesTypeOK'
    BY <1>2, <1>9 DEF NoticesInv, NoticesTypeOK
  <1>13. ASSUME NEW v \in Workers  PROVE BatchFits(worker[v])'
    BY <1>2, <1>9, <1>10, WorkerAt DEF BatchFits
  <1>14. BatchesApart'
    <2>1. ASSUME NEW v \in Workers, v # w  PROVE worker[v].batch \cap S = {}
      BY <1>1, <2>1 DEF NoticeLocks
    <2> QED  BY <1>7, <1>9, <2>1 DEF BatchesApart, NoticesInv, MailsInv
  <1>15. ASSUME NEW c \in Changes  PROVE Mailing(c)' <=> Mailing(c)
    <2>1. \A v \in Workers : MailedBy(worker'[v], c) <=> MailedBy(worker[v], c)
      BY <1>4, <1>7, <1>9 DEF MailedBy
    <2> QED  BY <2>1 DEF Mailing, MailedBy
  <1>16. MailsFit'
    BY <1>2, <1>15 DEF MailsFit, NoticesInv, MailsInv
  <1>17. MailsInv'
    BY <1>2, <1>13, <1>14, <1>16 DEF NoticesInv, MailsInv
  <1> QED  BY <1>11, <1>12, <1>17 DEF NoticesInv

\* A digest's outcome for user u: he is among those mailed or failed.
LEMMA UserDone ==
  ASSUME NoticesInv, NEW w \in Workers, worker[w].step = "sending", NEW x \in Worker,
         x.step = "sending", x.events = worker[w].events, x.batch = worker[w].batch,
         worker' = [worker EXCEPT ![w] = x],
         UNCHANGED <<outbox, inbox, notice, unrecorded, breaks>>
  PROVE  /\ worker' \in [Workers -> Worker] /\ worker'[w] = x
         /\ \A v \in Workers : v # w => worker'[v] = worker[v]
         /\ EventsInv' /\ BatchesApart'
         /\ \A v \in Workers : BatchFits(worker[v])'
  <1>1. /\ worker' \in [Workers -> Worker] /\ worker'[w] = x
        /\ \A v \in Workers : v # w => worker'[v] = worker[v]
    BY OneWorker
  <1>2. EventsFit(x)
    BY WorkerAt DEF EventsFit
  <1>3. EventsInv'
    BY <1>1, <1>2, EventsStay
  <1>4. BatchesApart'
    BY <1>1 DEF BatchesApart, NoticesInv, MailsInv
  <1>5. ASSUME NEW v \in Workers  PROVE BatchFits(worker[v])'
    BY <1>1, WorkerAt DEF BatchFits
  <1> QED  BY <1>1, <1>3, <1>4, <1>5

\* Nobody else has a change of the digest in its batch.
LEMMA BatchIsOwn ==
  ASSUME NoticesInv, NEW w \in Workers, NEW v \in Workers, NEW c \in worker[w].batch,
         c \in worker[v].batch
  PROVE  v = w
  BY DEF NoticesInv, MailsInv, BatchesApart

LEMMA MailUserInv ==
  ASSUME NoticesInv, NEW w \in Workers, MailUser(w)
  PROVE  NoticesInv'
  <1>1. PICK u \in Waiting(w) :
           /\ worker' = [worker EXCEPT ![w].mailed = @ \cup {u}]
           /\ mails' = [c \in Changes |-> mails[c] + (IF c \in OfUser(w, u) THEN 1 ELSE 0)]
    BY DEF MailUser
  <1>2. worker[w].step = "sending" /\ UNCHANGED <<outbox, inbox, notice, unrecorded, breaks>>
    BY DEF MailUser
  <1>3. worker[w] \in Worker
    BY WorkerAt
  <1>4. u \in Users /\ u \notin worker[w].mailed
    BY DEF Waiting
  <1>5. PICK x : x = [worker[w] EXCEPT !.mailed = worker[w].mailed \cup {u}]
    OBVIOUS
  <1>6. /\ x \in Worker /\ x.step = worker[w].step /\ x.events = worker[w].events
        /\ x.batch = worker[w].batch /\ x.mailed = worker[w].mailed \cup {u}
    BY <1>3, <1>4, <1>5 DEF Worker
  <1>7. worker' = [worker EXCEPT ![w] = x]
    BY <1>1, <1>5
  <1>8. /\ worker' \in [Workers -> Worker] /\ worker'[w] = x
        /\ \A v \in Workers : v # w => worker'[v] = worker[v]
        /\ EventsInv' /\ BatchesApart'
        /\ \A v \in Workers : BatchFits(worker[v])'
    BY <1>2, <1>6, <1>7, UserDone
  <1>9. mails \in [Changes -> Nat] /\ unrecorded \in [Changes -> Nat]
    BY MaxBreaksAssumption DEF NoticesInv, NoticesTypeOK
  <1>10. mails' \in [Changes -> Nat]
    BY <1>1, <1>9
  <1>11. NoticesTypeOK'
    BY <1>2, <1>8, <1>10 DEF NoticesInv, NoticesTypeOK
  <1>12. ASSUME NEW c \in Changes
         PROVE  mails'[c] = unrecorded[c] + (IF notice[c] = "SENT" THEN 1 ELSE 0)
                                          + (IF Mailing(c)' THEN 1 ELSE 0)
    <2>1. mails[c] = unrecorded[c] + (IF notice[c] = "SENT" THEN 1 ELSE 0)
                                   + (IF Mailing(c) THEN 1 ELSE 0)
      BY DEF NoticesInv, MailsInv, MailsFit
    <2>2. CASE c \in OfUser(w, u)
      <3>1. c \in worker[w].batch /\ Owner[c] = u /\ notice[c] # "SENT"
        BY <2>2, WorkerAt DEF OfUser, BatchFits
      <3>2. ~Mailing(c)
        BY <1>4, <3>1, BatchIsOwn DEF Mailing, MailedBy
      <3>3. Mailing(c)'
        BY <1>6, <1>8, <3>1 DEF Mailing, MailedBy
      <3>4. mails'[c] = mails[c] + 1
        BY <1>1, <2>2
      <3> QED  BY <1>9, <2>1, <3>1, <3>2, <3>3, <3>4
    <2>3. CASE c \notin OfUser(w, u)
      <3>1. MailedBy(x, c) <=> MailedBy(worker[w], c)
        BY <1>6, <2>3 DEF MailedBy, OfUser
      <3>2. Mailing(c)' <=> Mailing(c)
        <4>1. \A v \in Workers : MailedBy(worker'[v], c) <=> MailedBy(worker[v], c)
          BY <1>8, <3>1
        <4> QED  BY <4>1 DEF Mailing, MailedBy
      <3>3. mails'[c] = mails[c]
        BY <1>1, <1>9, <2>3
      <3> QED  BY <2>1, <3>2, <3>3
    <2> QED  BY <2>2, <2>3
  <1>13. MailsFit'
    BY <1>2, <1>12 DEF MailsFit
  <1>14. MailsInv'
    BY <1>2, <1>8, <1>13 DEF NoticesInv, MailsInv
  <1> QED  BY <1>8, <1>11, <1>14 DEF NoticesInv

LEMMA FailUserInv ==
  ASSUME NoticesInv, NEW w \in Workers, FailUser(w)
  PROVE  NoticesInv'
  <1>1. PICK u \in Waiting(w) : worker' = [worker EXCEPT ![w].failed = @ \cup {u}]
    BY DEF FailUser
  <1>2. worker[w].step = "sending" /\ UNCHANGED <<outbox, inbox, notice, mails, unrecorded, breaks>>
    BY DEF FailUser
  <1>3. worker[w] \in Worker /\ u \in Users
    BY WorkerAt DEF Waiting
  <1>4. PICK x : x = [worker[w] EXCEPT !.failed = worker[w].failed \cup {u}]
    OBVIOUS
  <1>5. /\ x \in Worker /\ x.step = worker[w].step /\ x.events = worker[w].events
        /\ x.batch = worker[w].batch /\ x.mailed = worker[w].mailed
    BY <1>3, <1>4 DEF Worker
  <1>6. worker' = [worker EXCEPT ![w] = x]
    BY <1>1, <1>4
  <1>7. /\ worker' \in [Workers -> Worker] /\ worker'[w] = x
        /\ \A v \in Workers : v # w => worker'[v] = worker[v]
        /\ EventsInv' /\ BatchesApart'
        /\ \A v \in Workers : BatchFits(worker[v])'
    BY <1>2, <1>5, <1>6, UserDone
  <1>8. NoticesTypeOK'
    BY <1>2, <1>7 DEF NoticesInv, NoticesTypeOK
  <1>9. ASSUME NEW v \in Workers
        PROVE  /\ worker'[v].batch = worker[v].batch /\ worker'[v].mailed = worker[v].mailed
               /\ worker'[v].step # "sending" => /\ worker'[v].batch = {}
                                                 /\ worker'[v].mailed = {}
                                                 /\ worker'[v].failed = {}
    BY <1>2, <1>5, <1>7, WorkerAt DEF BatchFits
  <1>10. MailsInv'
    BY <1>2, <1>9, MailsStay
  <1> QED  BY <1>7, <1>8, <1>10 DEF NoticesInv

\* A worker's transaction ends, one way or the other: what it mailed is on its way no more.
LEMMA WorkerEnds ==
  ASSUME NoticesInv, NEW w \in Workers, worker' = [worker EXCEPT ![w] = IdleWorker]
  PROVE  /\ worker' \in [Workers -> Worker] /\ worker'[w] = IdleWorker
         /\ \A v \in Workers : v # w => worker'[v] = worker[v]
         /\ \A v \in Workers : EventsFit(worker'[v]) \/ worker'[v] = worker[v]
         /\ BatchesApart'
         /\ \A c \in Changes : Mailing(c)' <=> Mailing(c) /\ ~MailedBy(worker[w], c)
         /\ \A c \in Changes : MailedBy(worker[w], c) => Mailing(c)
  <1>1. /\ worker' \in [Workers -> Worker] /\ worker'[w] = IdleWorker
        /\ \A v \in Workers : v # w => worker'[v] = worker[v]
    BY IdleType, OneWorker
  <1>2. \A v \in Workers : EventsFit(worker'[v]) \/ worker'[v] = worker[v]
    BY <1>1, IdleType DEF EventsFit
  <1>3. BatchesApart'
    BY <1>1, IdleType DEF BatchesApart, NoticesInv, MailsInv
  <1>4. ASSUME NEW c \in Changes
        PROVE  Mailing(c)' <=> Mailing(c) /\ ~MailedBy(worker[w], c)
    <2>1. ~MailedBy(worker'[w], c)
      BY <1>1, IdleType DEF MailedBy
    <2>2. \A v \in Workers : v # w => (MailedBy(worker'[v], c) <=> MailedBy(worker[v], c))
      BY <1>1
    <2>3. \A v \in Workers : MailedBy(worker[w], c) /\ MailedBy(worker[v], c) => v = w
      BY BatchIsOwn DEF MailedBy
    <2>4. Mailing(c)' <=> \E v \in Workers : MailedBy(worker'[v], c)
      BY DEF Mailing, MailedBy
    <2> QED  BY <2>1, <2>2, <2>3, <2>4 DEF Mailing
  <1> QED  BY <1>1, <1>2, <1>3, <1>4 DEF Mailing

LEMMA CommitDigestInv ==
  ASSUME NoticesInv, NEW w \in Workers, CommitDigest(w)
  PROVE  NoticesInv'
  <1>1. /\ worker' = [worker EXCEPT ![w] = IdleWorker]
        /\ notice' = [c \in Changes |->
               IF c \notin worker[w].batch THEN notice[c]
               ELSE IF Owner[c] \in worker[w].mailed THEN "SENT" ELSE "FAILED"]
        /\ UNCHANGED <<outbox, inbox, mails, unrecorded, breaks>>
    BY DEF CommitDigest
  <1>2. /\ worker' \in [Workers -> Worker] /\ worker'[w] = IdleWorker
        /\ \A v \in Workers : v # w => worker'[v] = worker[v]
        /\ \A v \in Workers : EventsFit(worker'[v]) \/ worker'[v] = worker[v]
        /\ BatchesApart'
        /\ \A c \in Changes : Mailing(c)' <=> Mailing(c) /\ ~MailedBy(worker[w], c)
        /\ \A c \in Changes : MailedBy(worker[w], c) => Mailing(c)
    BY <1>1, WorkerEnds
  <1>3. NoticesTypeOK'
    BY <1>1, <1>2 DEF NoticesInv, NoticesTypeOK
  <1>4. EventsInv'
    <2>1. \A c \in Changes : notice[c] # "none" => notice'[c] # "none"
      BY <1>1
    <2> QED  BY <1>1, <1>2, <2>1, EventsStay
  <1>5. ASSUME NEW v \in Workers  PROVE BatchFits(worker[v])'
    <2>1. CASE v = w
      BY <1>2, <2>1, IdleType DEF BatchFits
    <2>2. CASE v # w
      <3>1. worker'[v] = worker[v] /\ BatchFits(worker[v]) /\ worker[v].batch \subseteq Changes
        BY <1>2, <2>2, WorkerAt
      <3>2. \A c \in worker[v].batch : c \notin worker[w].batch
        BY <2>2, BatchIsOwn
      <3> QED  BY <1>1, <3>1, <3>2 DEF BatchFits
    <2> QED  BY <2>1, <2>2
  <1>6. ASSUME NEW c \in Changes
        PROVE  mails[c] = unrecorded[c] + (IF notice'[c] = "SENT" THEN 1 ELSE 0)
                                        + (IF Mailing(c)' THEN 1 ELSE 0)
    <2>1. mails[c] = unrecorded[c] + (IF notice[c] = "SENT" THEN 1 ELSE 0)
                                   + (IF Mailing(c) THEN 1 ELSE 0)
      BY DEF NoticesInv, MailsInv, MailsFit
    <2>2. unrecorded[c] \in Nat
      BY MaxBreaksAssumption DEF NoticesInv, NoticesTypeOK
    <2>3. CASE c \notin worker[w].batch
      <3>1. notice'[c] = notice[c] /\ ~MailedBy(worker[w], c)
        BY <1>1, <2>3 DEF MailedBy
      <3>2. Mailing(c)' <=> Mailing(c)
        BY <1>2, <3>1
      <3> QED  BY <2>1, <3>1, <3>2
    <2>4. CASE c \in worker[w].batch
      <3>1. notice[c] # "SENT"
        BY <2>4, WorkerAt DEF BatchFits
      <3>2. Mailing(c) <=> MailedBy(worker[w], c)
        BY <2>4, BatchIsOwn DEF Mailing, MailedBy
      <3>3. ~Mailing(c)'
        BY <1>2, <3>2
      <3>4. (notice'[c] = "SENT") <=> MailedBy(worker[w], c)
        BY <1>1, <2>4 DEF MailedBy
      <3> QED  BY <2>1, <2>2, <3>1, <3>2, <3>3, <3>4
    <2> QED  BY <2>3, <2>4
  <1>7. MailsFit'
    BY <1>1, <1>6 DEF MailsFit
  <1>8. MailsInv'
    BY <1>1, <1>2, <1>5, <1>7 DEF NoticesInv, MailsInv
  <1> QED  BY <1>3, <1>4, <1>8 DEF NoticesInv

LEMMA TickBreaksInv ==
  ASSUME NoticesInv, NEW w \in Workers, TickBreaks(w)
  PROVE  NoticesInv'
  <1>1. /\ breaks < MaxBreaks /\ breaks' = breaks + 1
        /\ worker' = [worker EXCEPT ![w] = IdleWorker]
        /\ unrecorded' = [c \in Changes |-> unrecorded[c] +
               (IF c \in worker[w].batch /\ Owner[c] \in worker[w].mailed THEN 1 ELSE 0)]
        /\ UNCHANGED <<outbox, inbox, notice, mails>>
    BY DEF TickBreaks
  <1>2. /\ worker' \in [Workers -> Worker] /\ worker'[w] = IdleWorker
        /\ \A v \in Workers : v # w => worker'[v] = worker[v]
        /\ \A v \in Workers : EventsFit(worker'[v]) \/ worker'[v] = worker[v]
        /\ BatchesApart'
        /\ \A c \in Changes : Mailing(c)' <=> Mailing(c) /\ ~MailedBy(worker[w], c)
        /\ \A c \in Changes : MailedBy(worker[w], c) => Mailing(c)
    BY <1>1, WorkerEnds
  <1>3. /\ breaks' \in 0 .. MaxBreaks
        /\ \A c \in Changes : unrecorded[c] \in Nat /\ unrecorded[c] <= breaks /\ breaks \in Nat
    BY <1>1, MaxBreaksAssumption DEF NoticesInv, NoticesTypeOK, MailsInv
  <1>4. ASSUME NEW c \in Changes
        PROVE  unrecorded'[c] = unrecorded[c] + (IF MailedBy(worker[w], c) THEN 1 ELSE 0)
    BY <1>1 DEF MailedBy
  <1>5. ASSUME NEW c \in Changes
        PROVE  unrecorded'[c] \in 0 .. MaxBreaks /\ unrecorded'[c] <= breaks'
    BY <1>1, <1>3, <1>4, MaxBreaksAssumption
  <1>6. unrecorded' \in [Changes -> 0 .. MaxBreaks]
    BY <1>1, <1>5
  <1>7. NoticesTypeOK'
    BY <1>1, <1>2, <1>3, <1>6 DEF NoticesInv, NoticesTypeOK
  <1>8. EventsInv'
    BY <1>1, <1>2, EventsStay
  <1>9. ASSUME NEW v \in Workers  PROVE BatchFits(worker[v])'
    BY <1>1, <1>2, IdleType, WorkerAt DEF BatchFits
  <1>10. ASSUME NEW c \in Changes
         PROVE  mails[c] = unrecorded'[c] + (IF notice[c] = "SENT" THEN 1 ELSE 0)
                                          + (IF Mailing(c)' THEN 1 ELSE 0)
    <2>1. mails[c] = unrecorded[c] + (IF notice[c] = "SENT" THEN 1 ELSE 0)
                                   + (IF Mailing(c) THEN 1 ELSE 0)
      BY DEF NoticesInv, MailsInv, MailsFit
    <2>2. CASE MailedBy(worker[w], c)
      <3>1. Mailing(c) /\ ~Mailing(c)'
        BY <1>2, <2>2
      <3>2. unrecorded'[c] = unrecorded[c] + 1
        BY <1>4, <2>2
      <3> QED  BY <1>3, <2>1, <3>1, <3>2
    <2>3. CASE ~MailedBy(worker[w], c)
      <3>1. Mailing(c)' <=> Mailing(c)
        BY <1>2, <2>3
      <3>2. unrecorded'[c] = unrecorded[c]
        BY <1>3, <1>4, <2>3
      <3> QED  BY <2>1, <3>1, <3>2
    <2> QED  BY <2>2, <2>3
  <1>11. MailsFit'
    BY <1>1, <1>10 DEF MailsFit
  <1>12. MailsInv'
    BY <1>2, <1>5, <1>9, <1>11 DEF MailsInv
  <1> QED  BY <1>7, <1>8, <1>12 DEF NoticesInv

\* A deadlock is between two transactions that have mailed nothing.
LEMMA BreakDeadlockInv ==
  ASSUME NoticesInv, NEW v \in Workers, NEW w \in Workers, BreakDeadlock(v, w)
  PROVE  NoticesInv'
  <1>1. /\ worker[w].step = "added" /\ worker[v].step = "next"
        /\ UNCHANGED <<outbox, inbox, notice, mails, unrecorded, breaks>>
    BY DEF BreakDeadlock, Deadlocked
  <1>2. Min(worker[w].events) \in Events
    BY <1>1, WorkerAt, MinIn DEF EventsFit
  <1>3. /\ \A k \in {v, w} : worker[k].batch = {} /\ worker[k].mailed = {} /\ worker[k].failed = {}
        /\ worker[w] \in Worker
    BY <1>1, WorkerAt DEF BatchFits
  <1>4. PICK x : x = [worker[w] EXCEPT !.locks = {Min(worker[w].events)}]
    OBVIOUS
  <1>5. /\ x \in Worker /\ x.step = worker[w].step /\ x.events = worker[w].events
        /\ x.batch = worker[w].batch /\ x.mailed = worker[w].mailed /\ x.failed = worker[w].failed
    BY <1>2, <1>3, <1>4 DEF Worker
  <1>6. \/ worker' = [worker EXCEPT ![w] = IdleWorker]
        \/ worker' = [worker EXCEPT ![v] = IdleWorker, ![w] = x]
    BY <1>4, <1>1 DEF BreakDeadlock, NoticesInv, NoticesTypeOK
  <1>7. /\ worker' \in [Workers -> Worker]
        /\ \A k \in Workers : \/ worker'[k] = worker[k]
                              \/ k \in {v, w} /\ worker'[k] = IdleWorker
                              \/ k = w /\ worker'[k] = x
    BY <1>5, <1>6, IdleType DEF NoticesInv, NoticesTypeOK
  <1>8. EventsFit(x)
    BY <1>1, <1>5, WorkerAt DEF EventsFit
  <1>9. EventsFit(IdleWorker)
    BY IdleType DEF EventsFit
  <1>10. EventsInv'
    BY <1>1, <1>7, <1>8, <1>9, EventsStay
  <1>11. ASSUME NEW k \in Workers
         PROVE  /\ worker'[k].batch = worker[k].batch /\ worker'[k].mailed = worker[k].mailed
                /\ worker'[k].step # "sending" => /\ worker'[k].batch = {}
                                                  /\ worker'[k].mailed = {}
                                                  /\ worker'[k].failed = {}
    <2>1. CASE worker'[k] = worker[k]
      BY <2>1, WorkerAt DEF BatchFits
    <2>2. CASE k \in {v, w} /\ worker'[k] = IdleWorker
      BY <1>3, <2>2, IdleType
    <2>3. CASE k = w /\ worker'[k] = x
      BY <1>3, <1>5, <2>3
    <2> QED  BY <1>7, <2>1, <2>2, <2>3
  <1>12. MailsInv'
    BY <1>1, <1>11, MailsStay
  <1>13. NoticesTypeOK'
    BY <1>1, <1>7 DEF NoticesInv, NoticesTypeOK
  <1> QED  BY <1>10, <1>12, <1>13 DEF NoticesInv

LEMMA NoticesStep == NoticesInv /\ [NoticesNext]_noticeVars => NoticesInv'
  <1> SUFFICES ASSUME NoticesInv, [NoticesNext]_noticeVars  PROVE NoticesInv'
    OBVIOUS
  <1>1. CASE UNCHANGED noticeVars
    <2>1. UNCHANGED <<outbox, inbox, notice, worker, mails, unrecorded, breaks>>
      BY <1>1 DEF noticeVars
    <2>2. NoticesTypeOK'
      BY <2>1 DEF NoticesInv, NoticesTypeOK
    <2>3. EventsInv'
      BY <2>1, EventsStay
    <2>4. MailsInv'
      BY <2>1, WorkerAt, MailsStay DEF BatchFits
    <2> QED  BY <2>2, <2>3, <2>4 DEF NoticesInv
  <1>2. ASSUME NEW S \in SUBSET Changes, EmitChangePendingCreated(S)  PROVE NoticesInv'
    BY <1>2, EmitInv
  <1>3. ASSUME NEW w \in Workers, Steps(w) \/ TickBreaks(w)  PROVE NoticesInv'
    BY <1>3, TakeEventsInv, AddInboxInv, EnqueueNotificationsInv, MarkKnownInv, TakeNoticesInv,
       MailUserInv, FailUserInv, CommitDigestInv, TickBreaksInv DEF Steps
  <1>4. ASSUME NEW v \in Workers, NEW w \in Workers, BreakDeadlock(v, w)  PROVE NoticesInv'
    BY <1>4, BreakDeadlockInv
  <1> QED  BY <1>1, <1>2, <1>3, <1>4 DEF NoticesNext

LEMMA NoticesInvariant == NoticesSpec => []NoticesInv
  BY NoticesInvInit, NoticesStep, PTL DEF NoticesSpec

\* Events, notices and workers keep their shape, and no more digests are unrecorded than
\* ticks broke off.
THEOREM NoticesTypeCorrect == NoticesSpec => []NoticesTypeOK
  <1>1. NoticesInv => NoticesTypeOK
    BY DEF NoticesInv
  <1> QED  BY <1>1, NoticesInvariant, PTL

\* An event in the inbox has its notices, and an event that is processed is in the inbox:
\* however ticks of any number of workers overlap, deadlock and break off, no announcement is
\* dropped between the two tables.
THEOREM KnownEventsAreNoticed == NoticesSpec => []InboxHasNotices
  <1>1. NoticesInv => InboxHasNotices
    BY DEF NoticesInv, EventsInv
  <1> QED  BY <1>1, NoticesInvariant, PTL

\* A change is mailed once for the outcome that is recorded or will be, and once more for each
\* transaction that broke off after its digest went out.
THEOREM MailsAddUp == NoticesSpec => []MailsAccountedFor
  <1>1. ASSUME NoticesInv  PROVE MailsAccountedFor
    <2>1. ASSUME NEW c \in Changes
          PROVE  Cardinality({w \in Workers : MailedBy(worker[w], c)})
                   = IF Mailing(c) THEN 1 ELSE 0
      <3>1. CASE Mailing(c)
        <4>1. PICK w \in Workers : MailedBy(worker[w], c)
          BY <3>1 DEF Mailing
        <4>2. \A v \in Workers : MailedBy(worker[v], c) => v = w
          BY <1>1, <4>1, BatchIsOwn DEF MailedBy
        <4>3. {v \in Workers : MailedBy(worker[v], c)} = {w}
          BY <4>1, <4>2
        <4> QED  BY <3>1, <4>3, FS_Singleton
      <3>2. CASE ~Mailing(c)
        <4>1. {w \in Workers : MailedBy(worker[w], c)} = {}
          BY <3>2 DEF Mailing
        <4> QED  BY <3>2, <4>1, FS_EmptySet
      <3> QED  BY <3>1, <3>2
    <2> QED  BY <1>1, <2>1 DEF MailsAccountedFor, NoticesInv, MailsInv, MailsFit, MailedBy
  <1> QED  BY <1>1, NoticesInvariant, PTL

-----------------------------------------------------------------------------
(* ChangeNotices implements NoticeDelivery.                                *)

\* Only what was announced has a notice.
NoticedAnnounced == \A c \in Changes : notice[c] # "none" => c \in Announced

PhasesKnown == \A c \in Changes :
    /\ notice[c] \in {"none", "PENDING", "SENT", "FAILED"}
    /\ notice[c] = "none" => noticePhase[c] = IF c \in Announced THEN "announced" ELSE "silent"
    /\ notice[c] = "PENDING" => noticePhase[c] = IF Mailing(c) THEN "out" ELSE "due"
    /\ notice[c] = "SENT" => noticePhase[c] = "sent"
    /\ notice[c] = "FAILED" => noticePhase[c] = "failed"

LEMMA PhasesBefore == NoticesInv => PhasesKnown
  BY DEF PhasesKnown, noticePhase, NoticesInv, NoticesTypeOK

LEMMA PhasesAfter == NoticesInv' => PhasesKnown'
  BY PhasesBefore, PTL

\* A change whose row, announcement and mail stay is in the phase it was in.
LEMMA PhaseStays ==
  ASSUME PhasesKnown, PhasesKnown', NEW c \in Changes, notice'[c] = notice[c],
         notice[c] = "none" => ((c \in Announced)' <=> c \in Announced),
         notice[c] = "PENDING" => (Mailing(c)' <=> Mailing(c))
  PROVE  noticePhase'[c] = noticePhase[c]
  BY DEF PhasesKnown

PhaseFits == noticePhase \in [Changes -> {"silent", "announced", "due", "out", "sent", "failed"}]

LEMMA PhaseBefore == NoticesInv => PhaseFits
  BY DEF PhaseFits, noticePhase, NoticesInv, NoticesTypeOK

LEMMA PhaseAfter == NoticesInv' => PhaseFits'
  BY PhaseBefore, PTL

\* A step that moves nobody's phase and counts nothing is none of NoticeDelivery.
LEMMA QuietStep ==
  ASSUME NoticesInv, NoticesInv', UNCHANGED <<notice, mails, unrecorded>>,
         Announced' = Announced, \A c \in Changes : Mailing(c)' <=> Mailing(c)
  PROVE  UNCHANGED Delivery!vars
  <1>1. \A c \in Changes : noticePhase'[c] = noticePhase[c]
    BY PhasesBefore, PhasesAfter, PhaseStays
  <1>2. noticePhase' = noticePhase
    BY <1>1, PhaseBefore, PhaseAfter DEF PhaseFits
  <1> QED  BY <1>2 DEF Delivery!vars

\* A group of changes moves.
LEMMA GroupMoves ==
  ASSUME NoticesInv', NEW S \in SUBSET Changes, NEW from, NEW to,
         \A c \in S : noticePhase[c] = from /\ noticePhase'[c] = to,
         \A c \in Changes : c \notin S => noticePhase'[c] = noticePhase[c]
  PROVE  Delivery!Move(S, from, to)
  <1>1. \A c \in Changes : noticePhase'[c] = IF c \in S THEN to ELSE noticePhase[c]
    OBVIOUS
  <1>2. noticePhase' = [c \in Changes |-> IF c \in S THEN to ELSE noticePhase[c]]
    BY <1>1, PhaseAfter DEF PhaseFits
  <1> QED  BY <1>2 DEF Delivery!Move

LEMMA AnnouncedStays ==
  ASSUME \A ev \in Events : outbox'[ev].changes = outbox[ev].changes
  PROVE  Announced' = Announced
  BY DEF Announced

\* Who is not at its digest, before or after, has mailed nothing.
LEMMA MailingStays ==
  ASSUME NoticesInv, NoticesInv',
         \A w \in Workers : \/ worker'[w] = worker[w]
                            \/ worker[w].step # "sending" /\ worker'[w].step # "sending",
         NEW c \in Changes
  PROVE  Mailing(c)' <=> Mailing(c)
  <1>1. ASSUME NEW w \in Workers  PROVE MailedBy(worker'[w], c) <=> MailedBy(worker[w], c)
    <2>1. /\ worker[w].step # "sending" => worker[w].batch = {}
          /\ worker'[w].step # "sending" => worker'[w].batch = {}
      BY DEF NoticesInv, MailsInv, BatchFits
    <2> QED  BY <2>1 DEF MailedBy
  <1> QED  BY <1>1 DEF Mailing, MailedBy

\* One worker's place after a step that replaces its record.
LEMMA StepAfter ==
  ASSUME NoticesInv, NEW w \in Workers, NEW x, worker' = [worker EXCEPT ![w] = x]
  PROVE  worker'[w] = x /\ \A v \in Workers : v # w => worker'[v] = worker[v]
  BY DEF NoticesInv, NoticesTypeOK

LEMMA TakeEventsQuiet ==
  ASSUME NoticesInv, NoticesInv', NEW w \in Workers, TakeEvents(w)
  PROVE  UNCHANGED Delivery!vars
  <1>1. PICK x : /\ worker' = [worker EXCEPT ![w] = x]
                 /\ x.step # "sending" /\ worker[w].step # "sending"
    <2>1. worker[w] \in Worker
      BY WorkerAt
    <2>2. PICK S : S = {ev \in Events : outbox[ev].status = "PENDING"} \ EventLocks(w)
      OBVIOUS
    <2>3. PICK x : x = IF S = {} THEN [worker[w] EXCEPT !.step = "digest"]
                       ELSE [[[worker[w] EXCEPT !.step = "next"] EXCEPT !.events = S]
                                EXCEPT !.locks = S]
      OBVIOUS
    <2>4. x.step # "sending"
      BY <2>1, <2>3 DEF Worker
    <2>5. worker[w].step # "sending" /\ worker' = [worker EXCEPT ![w] = x]
      BY <2>2, <2>3 DEF TakeEvents
    <2> QED  BY <2>4, <2>5
  <1>2. Announced' = Announced /\ UNCHANGED <<notice, mails, unrecorded>>
    BY DEF TakeEvents, Announced
  <1> QED  BY <1>1, <1>2, StepAfter, MailingStays, QuietStep

LEMMA AddInboxQuiet ==
  ASSUME NoticesInv, NoticesInv', NEW w \in Workers, AddInbox(w)
  PROVE  UNCHANGED Delivery!vars
  <1>1. PICK x : /\ worker' = [worker EXCEPT ![w] = x]
                 /\ x.step # "sending" /\ worker[w].step # "sending"
    <2>1. worker[w] \in Worker
      BY WorkerAt
    <2>2. PICK x : x = IF Min(worker[w].events) \in inbox
                       THEN [[worker[w] EXCEPT !.step = "known"] EXCEPT !.locks = {}]
                       ELSE [worker[w] EXCEPT !.step = "added"]
      OBVIOUS
    <2>3. x.step # "sending"
      BY <2>1, <2>2 DEF Worker
    <2>4. worker[w].step # "sending" /\ worker' = [worker EXCEPT ![w] = x]
      BY <2>2 DEF AddInbox
    <2> QED  BY <2>3, <2>4
  <1>2. Announced' = Announced /\ UNCHANGED <<notice, mails, unrecorded>>
    BY DEF AddInbox, Announced
  <1> QED  BY <1>1, <1>2, StepAfter, MailingStays, QuietStep

\* An event is marked as processed.
LEMMA CommittedEvent ==
  ASSUME NoticesInv, NoticesInv', NEW w \in Workers, NEW ev \in Events, CommitEvent(w, ev),
         worker[w].step # "sending"
  PROVE  /\ Announced' = Announced
         /\ \A c \in Changes : Mailing(c)' <=> Mailing(c)
         /\ UNCHANGED <<mails, unrecorded>>
  <1>1. Announced' = Announced
    <2>1. \A f \in Events : outbox'[f].changes = outbox[f].changes
      BY EventTypes DEF CommitEvent, NoticesInv, NoticesTypeOK
    <2> QED  BY <2>1, AnnouncedStays
  <1>2. PICK x : x = [[[worker[w] EXCEPT !.events = worker[w].events \ {ev}] EXCEPT !.locks = {}]
                        EXCEPT !.step = IF worker[w].events = {ev} THEN "digest" ELSE "next"]
    OBVIOUS
  <1>3. worker[w] \in Worker
    BY WorkerAt
  <1>4. x.step # "sending"
    BY <1>2, <1>3 DEF Worker
  <1>5. worker' = [worker EXCEPT ![w] = x] /\ UNCHANGED <<mails, unrecorded>>
    BY <1>2 DEF CommitEvent, NoticesInv, NoticesTypeOK
  <1>6. \A v \in Workers : \/ worker'[v] = worker[v]
                           \/ worker[v].step # "sending" /\ worker'[v].step # "sending"
    BY <1>4, <1>5, StepAfter
  <1> QED  BY <1>1, <1>5, <1>6, MailingStays

\* The announced changes of the event that have no notice yet fall due.
LEMMA EnqueueFallsDue ==
  ASSUME NoticesInv, NoticesInv', NEW w \in Workers, EnqueueNotifications(w)
  PROVE  Delivery!Next
  <1>1. PICK ev : ev = Min(worker[w].events)
    OBVIOUS
  <1>2. /\ worker[w].step = "added" /\ CommitEvent(w, ev)
        /\ notice' = [c \in Changes |->
               IF c \in outbox[ev].changes /\ notice[c] = "none" THEN "PENDING" ELSE notice[c]]
    BY <1>1 DEF EnqueueNotifications
  <1>3. ev \in Events
    BY <1>1, <1>2, WorkerAt, MinIn DEF EventsFit
  <1>4. /\ Announced' = Announced /\ UNCHANGED <<mails, unrecorded>>
        /\ \A c \in Changes : Mailing(c)' <=> Mailing(c)
    BY <1>2, <1>3, CommittedEvent
  <1>5. PICK S : S = {c \in Changes : c \in outbox[ev].changes /\ notice[c] = "none"}
    OBVIOUS
  <1>6. ASSUME NEW c \in S  PROVE noticePhase[c] = "announced" /\ noticePhase'[c] = "due"
    <2>1. c \in Changes /\ notice[c] = "none" /\ notice'[c] = "PENDING"
      BY <1>2, <1>5
    <2>2. c \in Announced
      BY <1>3, <1>5 DEF Announced
    <2>3. ~Mailing(c)'
      <3>1. ~Mailing(c)
        BY <2>1, WorkerAt DEF Mailing, MailedBy, BatchFits
      <3> QED  BY <1>4, <2>1, <3>1
    <2> QED  BY <2>1, <2>2, <2>3, PhasesBefore, PhasesAfter DEF PhasesKnown
  <1>7. ASSUME NEW c \in Changes, c \notin S  PROVE noticePhase'[c] = noticePhase[c]
    <2>1. notice'[c] = notice[c]
      BY <1>2, <1>5, <1>7
    <2> QED  BY <1>4, <2>1, PhaseStays, PhasesBefore, PhasesAfter
  <1>8. Delivery!Move(S, "announced", "due")
    BY <1>5, <1>6, <1>7, GroupMoves
  <1>9. Delivery!FallDue(S)
    BY <1>4, <1>8 DEF Delivery!FallDue
  <1> QED  BY <1>5, <1>9 DEF Delivery!Next

LEMMA MarkKnownQuiet ==
  ASSUME NoticesInv, NoticesInv', NEW w \in Workers, MarkKnown(w)
  PROVE  UNCHANGED Delivery!vars
  <1>1. PICK ev : ev = Min(worker[w].events)
    OBVIOUS
  <1>2. worker[w].step = "known" /\ CommitEvent(w, ev) /\ UNCHANGED notice
    BY <1>1 DEF MarkKnown
  <1>3. ev \in Events
    BY <1>1, <1>2, WorkerAt DEF EventsFit, NoticesInv, NoticesTypeOK
  <1> QED  BY <1>2, <1>3, CommittedEvent, QuietStep

\* A worker that takes notices has mailed none of them.
LEMMA TakeNoticesQuiet ==
  ASSUME NoticesInv, NoticesInv', NEW w \in Workers, TakeNotices(w)
  PROVE  UNCHANGED Delivery!vars
  <1>1. /\ worker[w].step = "digest"
        /\ Announced' = Announced /\ UNCHANGED <<notice, mails, unrecorded>>
    BY DEF TakeNotices, Announced
  <1>2. worker[w].mailed = {} /\ worker[w] \in Worker
    BY <1>1, WorkerAt DEF BatchFits
  <1>3. PICK S : S = {c \in Changes : notice[c] = "PENDING"} \ NoticeLocks(w)
    OBVIOUS
  <1>4. PICK x : x = IF S = {} THEN IdleWorker
                     ELSE [[worker[w] EXCEPT !.step = "sending"] EXCEPT !.batch = S]
    OBVIOUS
  <1>5. x.mailed = {}
    BY <1>2, <1>4, IdleType DEF Worker
  <1>6. worker' = [worker EXCEPT ![w] = x]
    BY <1>3, <1>4 DEF TakeNotices
  <1>7. ASSUME NEW c \in Changes  PROVE Mailing(c)' <=> Mailing(c)
    <2>1. \A v \in Workers : MailedBy(worker'[v], c) <=> MailedBy(worker[v], c)
      BY <1>2, <1>5, <1>6, StepAfter DEF MailedBy
    <2> QED  BY <2>1 DEF Mailing, MailedBy
  <1> QED  BY <1>1, <1>7, QuietStep

\* The changes of user u in the batch are due, and go out; the others' mails stay.
LEMMA MailUserMails ==
  ASSUME NoticesInv, NoticesInv', NEW w \in Workers, MailUser(w)
  PROVE  Delivery!Next
  <1>1. PICK u \in Waiting(w) :
           /\ worker' = [worker EXCEPT ![w].mailed = @ \cup {u}]
           /\ mails' = [c \in Changes |-> mails[c] + (IF c \in OfUser(w, u) THEN 1 ELSE 0)]
    BY DEF MailUser
  <1>2. Announced' = Announced /\ UNCHANGED <<notice, unrecorded>>
    BY DEF MailUser, Announced
  <1>3. worker[w] \in Worker /\ u \notin worker[w].mailed
    BY <1>1, WorkerAt DEF Waiting
  <1>4. PICK x : x = [worker[w] EXCEPT !.mailed = worker[w].mailed \cup {u}]
    OBVIOUS
  <1>5. x.batch = worker[w].batch /\ x.mailed = worker[w].mailed \cup {u}
    BY <1>3, <1>4 DEF Worker
  <1>6. worker' = [worker EXCEPT ![w] = x]
    BY <1>1, <1>4
  <1>7. worker'[w] = x /\ \A v \in Workers : v # w => worker'[v] = worker[v]
    BY <1>6, StepAfter
  <1>8. OfUser(w, u) \subseteq Changes
    BY WorkerAt DEF OfUser
  <1>9. ASSUME NEW c \in OfUser(w, u)  PROVE noticePhase[c] = "due" /\ noticePhase'[c] = "out"
    <2>1. c \in worker[w].batch /\ c \in Changes /\ Owner[c] = u /\ notice[c] = "PENDING"
      BY <1>8, WorkerAt DEF OfUser, BatchFits
    <2>2. ~Mailing(c)
      BY <1>3, <2>1, BatchIsOwn DEF Mailing, MailedBy
    <2>3. Mailing(c)'
      BY <1>5, <1>7, <2>1 DEF Mailing, MailedBy
    <2> QED  BY <1>2, <2>1, <2>2, <2>3, PhasesBefore, PhasesAfter DEF PhasesKnown
  <1>10. ASSUME NEW c \in Changes, c \notin OfUser(w, u)  PROVE noticePhase'[c] = noticePhase[c]
    <2>1. MailedBy(x, c) <=> MailedBy(worker[w], c)
      BY <1>5, <1>10 DEF MailedBy, OfUser
    <2>2. \A v \in Workers : MailedBy(worker'[v], c) <=> MailedBy(worker[v], c)
      BY <1>7, <2>1
    <2>3. Mailing(c)' <=> Mailing(c)
      BY <2>2 DEF Mailing, MailedBy
    <2> QED  BY <1>2, <2>3, PhaseStays, PhasesBefore, PhasesAfter
  <1>11. Delivery!Move(OfUser(w, u), "due", "out")
    BY <1>8, <1>9, <1>10, GroupMoves
  <1>12. Delivery!Mail(OfUser(w, u))
    BY <1>1, <1>2, <1>11 DEF Delivery!Mail, Delivery!Counted
  <1> QED  BY <1>8, <1>12 DEF Delivery!Next

LEMMA FailUserQuiet ==
  ASSUME NoticesInv, NoticesInv', NEW w \in Workers, FailUser(w)
  PROVE  UNCHANGED Delivery!vars
  <1>1. PICK u \in Waiting(w) : worker' = [worker EXCEPT ![w].failed = @ \cup {u}]
    BY DEF FailUser
  <1>2. Announced' = Announced /\ UNCHANGED <<notice, mails, unrecorded>>
    BY DEF FailUser, Announced
  <1>3. PICK x : x = [worker[w] EXCEPT !.failed = worker[w].failed \cup {u}]
    OBVIOUS
  <1>4. x.batch = worker[w].batch /\ x.mailed = worker[w].mailed
    BY <1>3, WorkerAt DEF Worker
  <1>5. worker' = [worker EXCEPT ![w] = x]
    BY <1>1, <1>3
  <1>6. ASSUME NEW c \in Changes  PROVE Mailing(c)' <=> Mailing(c)
    <2>1. \A v \in Workers : MailedBy(worker'[v], c) <=> MailedBy(worker[v], c)
      BY <1>4, <1>5, StepAfter DEF MailedBy
    <2> QED  BY <2>1 DEF Mailing, MailedBy
  <1> QED  BY <1>2, <1>6, QuietStep

\* The commit of a digest records the outcome of all of its batch.
LEMMA CommitDigestRecords ==
  ASSUME NoticesInv, NoticesInv', NEW w \in Workers, CommitDigest(w)
  PROVE  Delivery!Next
  <1>1. /\ worker' = [worker EXCEPT ![w] = IdleWorker]
        /\ notice' = [c \in Changes |->
               IF c \notin worker[w].batch THEN notice[c]
               ELSE IF Owner[c] \in worker[w].mailed THEN "SENT" ELSE "FAILED"]
        /\ UNCHANGED <<mails, unrecorded>>
    BY DEF CommitDigest
  <1>2. Announced' = Announced
    BY DEF CommitDigest, Announced
  <1>3. PICK S : S = {c \in worker[w].batch : Owner[c] \in worker[w].mailed}
    OBVIOUS
  <1>4. PICK T : T = {c \in worker[w].batch : Owner[c] \notin worker[w].mailed}
    OBVIOUS
  <1>5. S \subseteq Changes /\ T \subseteq Changes
    BY <1>3, <1>4, WorkerAt
  <1>6. ASSUME NEW c \in S  PROVE noticePhase[c] = "out" /\ noticePhase'[c] = "sent"
    <2>1. c \in Changes /\ notice[c] = "PENDING" /\ Mailing(c) /\ notice'[c] = "SENT"
      BY <1>1, <1>3, <1>5, WorkerAt DEF BatchFits, Mailing, MailedBy
    <2> QED  BY <2>1, PhasesBefore, PhasesAfter DEF PhasesKnown
  <1>7. ASSUME NEW c \in T  PROVE c \notin S /\ noticePhase[c] = "due" /\ noticePhase'[c] = "failed"
    <2>1. /\ c \in Changes /\ c \in worker[w].batch /\ notice[c] = "PENDING"
          /\ notice'[c] = "FAILED" /\ c \notin S
      BY <1>1, <1>3, <1>4, <1>5, WorkerAt DEF BatchFits
    <2>2. ~Mailing(c)
      BY <1>4, <2>1, BatchIsOwn DEF Mailing, MailedBy
    <2> QED  BY <2>1, <2>2, PhasesBefore, PhasesAfter DEF PhasesKnown
  <1>8. ASSUME NEW c \in Changes, c \notin S, c \notin T  PROVE noticePhase'[c] = noticePhase[c]
    <2>1. c \notin worker[w].batch /\ notice'[c] = notice[c] /\ ~MailedBy(worker[w], c)
      BY <1>1, <1>3, <1>4, <1>8 DEF MailedBy
    <2>2. Mailing(c)' <=> Mailing(c)
      BY <1>1, <2>1, WorkerEnds
    <2> QED  BY <1>2, <2>1, <2>2, PhaseStays, PhasesBefore, PhasesAfter
  <1>9. noticePhase' = [c \in Changes |-> IF c \in S THEN "sent"
                                         ELSE IF c \in T THEN "failed" ELSE noticePhase[c]]
    <2>1. \A c \in Changes : noticePhase'[c] = IF c \in S THEN "sent"
                                               ELSE IF c \in T THEN "failed" ELSE noticePhase[c]
      BY <1>6, <1>7, <1>8
    <2> QED  BY <2>1, PhaseAfter DEF PhaseFits
  <1>10. Delivery!Record(S, T)
    BY <1>1, <1>6, <1>7, <1>9 DEF Delivery!Record
  <1> QED  BY <1>5, <1>10 DEF Delivery!Next

\* What a worker that breaks off had mailed is due again.
LEMMA TickBreaksLoses ==
  ASSUME NoticesInv, NoticesInv', NEW w \in Workers, TickBreaks(w)
  PROVE  Delivery!Next
  <1>1. /\ worker' = [worker EXCEPT ![w] = IdleWorker]
        /\ unrecorded' = [c \in Changes |-> unrecorded[c] +
               (IF c \in worker[w].batch /\ Owner[c] \in worker[w].mailed THEN 1 ELSE 0)]
        /\ UNCHANGED <<notice, mails>>
    BY DEF TickBreaks
  <1>2. Announced' = Announced
    BY DEF TickBreaks, Announced
  <1>3. PICK S : S = {c \in Changes : MailedBy(worker[w], c)}
    OBVIOUS
  <1>4. ASSUME NEW c \in S  PROVE noticePhase[c] = "out" /\ noticePhase'[c] = "due"
    <2>1. c \in Changes /\ MailedBy(worker[w], c) /\ notice[c] = "PENDING" /\ notice'[c] = notice[c]
      BY <1>1, <1>3, WorkerAt DEF BatchFits, MailedBy
    <2>2. Mailing(c) /\ ~Mailing(c)'
      BY <1>1, <2>1, WorkerEnds
    <2> QED  BY <2>1, <2>2, PhasesBefore, PhasesAfter DEF PhasesKnown
  <1>5. ASSUME NEW c \in Changes, c \notin S  PROVE noticePhase'[c] = noticePhase[c]
    <2>1. Mailing(c)' <=> Mailing(c)
      BY <1>1, <1>3, <1>5, WorkerEnds
    <2> QED  BY <1>1, <1>2, <2>1, PhaseStays, PhasesBefore, PhasesAfter
  <1>6. Delivery!Move(S, "out", "due")
    BY <1>3, <1>4, <1>5, GroupMoves
  <1>7. unrecorded' = Delivery!Counted(S, unrecorded)
    BY <1>1, <1>3 DEF Delivery!Counted, MailedBy
  <1>8. Delivery!Lose(S)
    BY <1>1, <1>6, <1>7 DEF Delivery!Lose
  <1> QED  BY <1>3, <1>8 DEF Delivery!Next

LEMMA BreakDeadlockQuiet ==
  ASSUME NoticesInv, NoticesInv', NEW v \in Workers, NEW w \in Workers, BreakDeadlock(v, w)
  PROVE  UNCHANGED Delivery!vars
  <1>1. /\ worker[w].step = "added" /\ worker[v].step = "next"
        /\ UNCHANGED <<notice, mails, unrecorded>>
    BY DEF BreakDeadlock, Deadlocked
  <1>2. Announced' = Announced
    BY DEF BreakDeadlock, Announced
  <1>3. PICK x : x = [worker[w] EXCEPT !.locks = {Min(worker[w].events)}]
    OBVIOUS
  <1>4. x.step = "added"
    BY <1>1, <1>3, WorkerAt DEF Worker
  <1>5. \/ worker' = [worker EXCEPT ![w] = IdleWorker]
        \/ worker' = [worker EXCEPT ![v] = IdleWorker, ![w] = x]
    BY <1>1, <1>3 DEF BreakDeadlock, NoticesInv, NoticesTypeOK
  <1>6. \A k \in Workers : \/ worker'[k] = worker[k]
                           \/ worker[k].step # "sending" /\ worker'[k].step # "sending"
    BY <1>1, <1>4, <1>5, IdleType DEF NoticesInv, NoticesTypeOK
  <1> QED  BY <1>1, <1>2, <1>6, MailingStays, QuietStep

\* Changes that nobody has announced are announced, and have no notice yet.
LEMMA EmitAnnounces ==
  ASSUME NoticesInv, NoticesInv', NoticedAnnounced, NEW S \in SUBSET Changes,
         EmitChangePendingCreated(S)
  PROVE  Delivery!Next
  <1>1. PICK ev \in Events : outbox[ev] = NoEvent
           /\ outbox' = [outbox EXCEPT ![ev] = [status |-> "PENDING", changes |-> S]]
    BY DEF EmitChangePendingCreated
  <1>2. S \cap Announced = {} /\ UNCHANGED <<notice, worker, mails, unrecorded>>
    BY DEF EmitChangePendingCreated
  <1>3. Announced' = Announced \cup S
    <2>1. /\ \A f \in Events : f # ev => outbox'[f] = outbox[f]
          /\ outbox'[ev].changes = S /\ outbox[ev].changes = {}
      BY <1>1, EventTypes DEF NoticesInv, NoticesTypeOK
    <2>2. \A c : c \in Announced' <=> \E f \in Events : c \in outbox'[f].changes
      BY DEF Announced
    <2>3. \A c : c \in Announced <=> \E f \in Events : c \in outbox[f].changes
      BY DEF Announced
    <2> QED  BY <2>1, <2>2, <2>3
  <1>4. \A c \in Changes : Mailing(c)' <=> Mailing(c)
    BY <1>2 DEF Mailing, MailedBy
  <1>5. ASSUME NEW c \in S  PROVE noticePhase[c] = "silent" /\ noticePhase'[c] = "announced"
    <2>1. notice[c] = "none"
      BY <1>2, <1>5 DEF NoticedAnnounced
    <2> QED  BY <1>2, <1>3, <2>1, PhasesBefore, PhasesAfter DEF PhasesKnown
  <1>6. ASSUME NEW c \in Changes, c \notin S  PROVE noticePhase'[c] = noticePhase[c]
    BY <1>2, <1>3, <1>4, <1>6, PhaseStays, PhasesBefore, PhasesAfter
  <1>7. Delivery!Move(S, "silent", "announced")
    BY <1>5, <1>6, GroupMoves
  <1>8. Delivery!Announce(S)
    BY <1>2, <1>7 DEF Delivery!Announce
  <1> QED  BY <1>8 DEF Delivery!Next

LEMMA NoticedAnnouncedStep ==
  ASSUME NoticesInv, NoticedAnnounced, [NoticesNext]_noticeVars
  PROVE  NoticedAnnounced'
  <1>1. ASSUME Announced \subseteq Announced', UNCHANGED notice  PROVE NoticedAnnounced'
    BY <1>1 DEF NoticedAnnounced
  <1>2. CASE UNCHANGED noticeVars
    BY <1>1, <1>2 DEF noticeVars, Announced
  <1>3. ASSUME NEW S \in SUBSET Changes, EmitChangePendingCreated(S)  PROVE NoticedAnnounced'
    <2>1. PICK ev \in Events : outbox[ev] = NoEvent
             /\ outbox' = [outbox EXCEPT ![ev] = [status |-> "PENDING", changes |-> S]]
      BY <1>3 DEF EmitChangePendingCreated
    <2>2. \A f \in Events : outbox[f].changes \subseteq outbox'[f].changes
      BY <2>1, EventTypes DEF NoticesInv, NoticesTypeOK
    <2>3. Announced \subseteq Announced'
      BY <2>2 DEF Announced
    <2> QED  BY <1>1, <1>3, <2>3 DEF EmitChangePendingCreated
  <1>4. ASSUME NEW w \in Workers, CommitEvent(w, Min(worker[w].events)),
               worker[w].step \in {"added", "known"},
               \A c \in Changes : \/ notice'[c] = notice[c]
                                  \/ c \in outbox[Min(worker[w].events)].changes
        PROVE  NoticedAnnounced'
    <2>1. PICK ev : ev = Min(worker[w].events)
      OBVIOUS
    <2>2. ev \in Events
      BY <1>4, <2>1, WorkerAt, MinIn DEF EventsFit
    <2>3. \A f \in Events : outbox'[f].changes = outbox[f].changes
      BY <1>4, <2>1, EventTypes DEF CommitEvent, NoticesInv, NoticesTypeOK
    <2>4. Announced' = Announced
      BY <2>3, AnnouncedStays
    <2>5. outbox[ev].changes \subseteq Announced
      BY <2>2 DEF Announced
    <2> QED  BY <1>4, <2>1, <2>4, <2>5 DEF NoticedAnnounced
  <1>5. ASSUME NEW w \in Workers, Steps(w) \/ TickBreaks(w)  PROVE NoticedAnnounced'
    <2>1. CASE \/ TakeEvents(w) \/ AddInbox(w) \/ TakeNotices(w) \/ MailUser(w) \/ FailUser(w)
               \/ TickBreaks(w)
      <3>1. UNCHANGED <<outbox, notice>>
        BY <2>1 DEF TakeEvents, AddInbox, TakeNotices, MailUser, FailUser, TickBreaks
      <3> QED  BY <1>1, <3>1 DEF Announced
    <2>2. CASE EnqueueNotifications(w)
      BY <1>4, <2>2 DEF EnqueueNotifications
    <2>3. CASE MarkKnown(w)
      BY <1>4, <2>3 DEF MarkKnown
    <2>4. CASE CommitDigest(w)
      <3>1. Announced' = Announced
        BY <2>4 DEF CommitDigest, Announced
      <3>2. \A c \in Changes : notice'[c] = notice[c] \/ notice[c] = "PENDING"
        BY <2>4, WorkerAt DEF CommitDigest, BatchFits
      <3> QED  BY <3>1, <3>2 DEF NoticedAnnounced
    <2> QED  BY <1>5, <2>1, <2>2, <2>3, <2>4 DEF Steps
  <1>6. ASSUME NEW v \in Workers, NEW w \in Workers, BreakDeadlock(v, w)
        PROVE  NoticedAnnounced'
    BY <1>1, <1>6 DEF BreakDeadlock, Announced
  <1> QED  BY <1>2, <1>3, <1>5, <1>6 DEF NoticesNext

LEMMA NoticesStepDelivered ==
  NoticesInv /\ NoticesInv' /\ NoticedAnnounced /\ [NoticesNext]_noticeVars
     => [Delivery!Next]_(Delivery!vars)
  <1> SUFFICES ASSUME NoticesInv, NoticesInv', NoticedAnnounced, [NoticesNext]_noticeVars
               PROVE  Delivery!Next \/ UNCHANGED Delivery!vars
    OBVIOUS
  <1>1. CASE UNCHANGED noticeVars
    <2>1. UNCHANGED <<notice, mails, unrecorded>> /\ Announced' = Announced
      BY <1>1 DEF noticeVars, Announced
    <2>2. \A c \in Changes : Mailing(c)' <=> Mailing(c)
      BY <1>1 DEF noticeVars, Mailing, MailedBy
    <2> QED  BY <2>1, <2>2, QuietStep
  <1>2. ASSUME NEW S \in SUBSET Changes, EmitChangePendingCreated(S)  PROVE Delivery!Next
    BY <1>2, EmitAnnounces
  <1>3. ASSUME NEW w \in Workers, Steps(w) \/ TickBreaks(w)
        PROVE  Delivery!Next \/ UNCHANGED Delivery!vars
    BY <1>3, TakeEventsQuiet, AddInboxQuiet, EnqueueFallsDue, MarkKnownQuiet, TakeNoticesQuiet,
       MailUserMails, FailUserQuiet, CommitDigestRecords, TickBreaksLoses DEF Steps
  <1>4. ASSUME NEW v \in Workers, NEW w \in Workers, BreakDeadlock(v, w)
        PROVE  UNCHANGED Delivery!vars
    BY <1>4, BreakDeadlockQuiet
  <1> QED  BY <1>1, <1>2, <1>3, <1>4 DEF NoticesNext

LEMMA NoticesInitDelivered == NoticesInit => NoticedAnnounced /\ Delivery!Init
  <1> SUFFICES ASSUME NoticesInit  PROVE NoticedAnnounced /\ Delivery!Init
    OBVIOUS
  <1>1. \A c \in Changes : notice[c] = "none" /\ c \notin Announced
    BY EventTypes DEF NoticesInit, Announced
  <1>2. \A c \in Changes : noticePhase[c] = "silent"
    BY <1>1, NoticesInvInit, PhasesBefore DEF PhasesKnown
  <1>3. noticePhase = [c \in Changes |-> "silent"]
    BY <1>2, NoticesInvInit, PhaseBefore DEF PhaseFits
  <1> QED  BY <1>1, <1>3 DEF NoticedAnnounced, Delivery!Init, NoticesInit

\* The notification workers keep the promise of NoticeDelivery, however many there are and
\* however their ticks overlap, deadlock and break off: a change falls due once, is out in one
\* digest at a time, its outcome is final, and only a lost outcome leads to another mail.
THEOREM NoticesAreDelivered == NoticesSpec => ImplementsNotices
  <1>1. NoticesInv /\ NoticedAnnounced /\ [NoticesNext]_noticeVars => NoticedAnnounced'
    BY NoticedAnnouncedStep
  <1> QED
    BY <1>1, NoticesInvariant, NoticesInitDelivered, NoticesStepDelivered, PTL
    DEF NoticesSpec, ImplementsNotices, Delivery!Spec

-----------------------------------------------------------------------------
(* The two of them side by side.                                           *)

\* A step of the composition is one of either, and a stutter of the other.
LEMMA StepOfEither ==
  [MCNext]_vars => [IntakeNext]_intakeVars /\ [NoticesNext]_noticeVars
  <1> SUFFICES ASSUME [MCNext]_vars
               PROVE  [IntakeNext]_intakeVars /\ [NoticesNext]_noticeVars
    OBVIOUS
  <1>1. CASE UNCHANGED vars
    BY <1>1 DEF vars
  <1>2. CASE Intake(IntakeNext)
    BY <1>2 DEF Intake
  <1>3. CASE Notices(NoticesNext)
    BY <1>3 DEF Notices
  <1> QED  BY <1>1, <1>2, <1>3 DEF MCNext

\* What the intake and the notification workers rely on holds of their composition, too.
LEMMA EndsInvariant == MCSpec => [](IntakeInv /\ NoticesInv)
  <1>1. MCInit => IntakeInv /\ NoticesInv
    BY IntakeInvInit, NoticesInvInit DEF MCInit
  <1> QED  BY <1>1, StepOfEither, IntakeStep, NoticesStep, PTL DEF MCSpec

\* Syncs and notices side by side keep the shape the code gives them.
THEOREM EndsTypeCorrect == MCSpec => []EndsTypeOK
  <1>1. IntakeInv /\ NoticesInv => EndsTypeOK
    BY DEF IntakeInv, NoticesInv, EndsTypeOK
  <1> QED  BY <1>1, EndsInvariant, PTL
=============================================================================
