--------------------------- MODULE SnapshotProofs ---------------------------
(***************************************************************************)
(* What readers are told agrees with what the engine does: explanations,   *)
(* the last retained snapshot of every set, and the diffs of snapshots,    *)
(* for every number of sets, paths and workers and any length of the       *)
(* history.                                                                *)
(***************************************************************************)
EXTENDS Snapshots, HistoryProofs

\* Every step with its captures is a step of the engine.
LEMMA StepsOfTheEngine == [SnapshotNext]_snapshot_vars => [Next]_vars
BY DEF SnapshotNext, Next, snapshot_vars

\* The engine below the snapshots is the engine, so what is proved of it holds here.
THEOREM ReadersWatchTheEngine == SnapshotSpec => Spec
<1>1. SnapshotInit => Init
  BY DEF SnapshotInit
<1> QED BY <1>1, StepsOfTheEngine, PTL DEF SnapshotSpec, Spec

LEMMA SnapshotHealthy == SnapshotSpec => []Healthy
BY ReadersWatchTheEngine, HealthPersists, PTL

-----------------------------------------------------------------------------
\* Explanations.

\* A member is explained as usable exactly when it counts.
LEMMA ReasonOfMember ==
    ASSUME NEW m \in Members, Usable(m) => m.admin_enabled
    PROVE  Usable(m) <=> MemberReason(m) \in {"MEMBER_USABLE", "MEMBER_PENDING_REVALIDATION"}
<1>0. m.admin_enabled \in BOOLEAN /\ m.currentness \in MemberCurrentnesses
  BY DEF Members
<1>1. CASE ~m.admin_enabled
  BY <1>1 DEF MemberReason
<1>2. CASE m.admin_enabled /\ m.currentness = "CURRENT"
  BY <1>2 DEF MemberReason, Usable
<1>3. CASE m.admin_enabled /\ m.currentness # "CURRENT"
  BY <1>0, <1>3 DEF MemberReason, Usable, MemberCurrentnesses
<1> QED BY <1>0, <1>1, <1>2, <1>3

\* The reasons for a set, given that the threshold rule holds of it.
LEMMA ReasonsOfSet ==
    ASSUME NEW r \in SetRecords, Accounted(r), ~Absent(r)
    PROVE  LET readiness == RouteReadiness(r.lifecycle, r.currentness)
               reasons   == Explanation(r).reasons
           IN  /\ readiness = "READY" <=>
                     reasons \ {"EXPLANATION_TRUNCATED"} = {"SET_PUBLISHED_AND_THRESHOLD_MET"}
               /\ readiness \in {"READY", "DEGRADED_BUT_READY"} <=> SetIsConsumable(r)
<1> DEFINE reasons == Explanation(r).reasons
           told == reasons \ {"EXPLANATION_TRUNCATED"}
           readiness == RouteReadiness(r.lifecycle, r.currentness)
<1>1. /\ r.lifecycle \in SetLifecycles /\ r.usable \in Nat /\ r.minimum \in Nat
      /\ r.currentness \in {"CURRENT", "REVALIDATION_REQUIRED"} /\ r.admin_enabled \in BOOLEAN
  BY DEF SetRecords, Absent
<1>2. told = LifecycleReasons(r) \cup
                 (IF r.currentness = "CURRENT" THEN {} ELSE {"SET_CURRENTNESS_NOT_ESTABLISHED"})
  <2>1. "EXPLANATION_TRUNCATED" \notin LifecycleReasons(r)
    BY <1>1 DEF LifecycleReasons, SetLifecycles, Derived, TerminalSet
  <2> QED BY <2>1 DEF Explanation
<1>3. /\ r.lifecycle = "ACTIVE" => MinimumSatisfied(r) /\ r.admin_enabled
      /\ r.lifecycle = "DEGRADED" => r.admin_enabled
  BY <1>1 DEF Accounted, Derived, DeriveLifecycle, MinimumSatisfied
<1> HIDE DEF told
<1>4. readiness = "READY" <=> r.lifecycle = "ACTIVE" /\ r.currentness = "CURRENT"
  BY <1>1 DEF RouteReadiness, Derived, SetLifecycles, TerminalSet
<1>5. readiness \in {"READY", "DEGRADED_BUT_READY"} <=>
          r.lifecycle \in {"ACTIVE", "DEGRADED"} /\ r.currentness = "CURRENT"
  BY <1>1 DEF RouteReadiness, Derived, SetLifecycles, TerminalSet
<1>6. told = {"SET_PUBLISHED_AND_THRESHOLD_MET"} <=>
          r.lifecycle = "ACTIVE" /\ r.currentness = "CURRENT"
  <2>1. CASE r.lifecycle = "ACTIVE"
    <3>1. LifecycleReasons(r) = {"SET_PUBLISHED_AND_THRESHOLD_MET"}
      BY <1>3, <2>1 DEF LifecycleReasons
    <3> QED BY <1>2, <2>1, <3>1
  <2>2. CASE r.lifecycle # "ACTIVE"
    <3>1. /\ "SET_PUBLISHED_AND_THRESHOLD_MET" \notin LifecycleReasons(r)
      BY <1>1, <2>2 DEF LifecycleReasons, SetLifecycles, Derived, TerminalSet
    <3>2. "SET_PUBLISHED_AND_THRESHOLD_MET" \notin told
      BY <1>2, <3>1
    <3> QED BY <2>2, <3>2
  <2> QED BY <2>1, <2>2
<1>7. SetIsConsumable(r) <=> r.lifecycle \in {"ACTIVE", "DEGRADED"} /\ r.currentness = "CURRENT"
  BY <1>3 DEF SetIsConsumable
<1> QED BY <1>4, <1>5, <1>6, <1>7 DEF told

\* explain_set(), readiness and set_is_consumable() give one answer about every
\* set in every state, and each member that is explained is called usable exactly
\* when it counts.
THEOREM ExplanationsAgree == SnapshotSpec => []ExplanationAgrees
<1>1. Healthy => ExplanationAgrees
  <2> SUFFICES ASSUME Healthy, NEW s \in SetIds, Exists(s)
               PROVE  LET r == sets[s]
                          e == Explanation(r)
                          readiness == RouteReadiness(r.lifecycle, r.currentness)
                      IN  /\ \A p \in DOMAIN e.members :
                                 Usable(r.members[p]) <=>
                                     e.members[p] \in {"MEMBER_USABLE", "MEMBER_PENDING_REVALIDATION"}
                          /\ readiness = "READY" <=>
                                 e.reasons \ {"EXPLANATION_TRUNCATED"} =
                                     {"SET_PUBLISHED_AND_THRESHOLD_MET"}
                          /\ readiness \in {"READY", "DEGRADED_BUT_READY"} <=> SetIsConsumable(r)
    BY DEF ExplanationAgrees
  <2> DEFINE r == sets[s]
             e == Explanation(r)
  <2>1. r \in SetRecords /\ Accounted(r) /\ Justified(r) /\ ~Absent(r)
    BY HealthyRecords DEF Right, Exists, Absent
  <2> HIDE DEF r
  <2>2. ASSUME NEW p \in DOMAIN e.members
        PROVE  Usable(r.members[p]) <=>
                   e.members[p] \in {"MEMBER_USABLE", "MEMBER_PENDING_REVALIDATION"}
    <3>1. p \in Paths /\ e.members[p] = MemberReason(r.members[p])
      BY <2>2 DEF Explanation, Explained, PresentPaths
    <3>2. r.members[p] \in Members
      BY <2>1, <3>1 DEF SetRecords
    <3>3. Usable(r.members[p]) => r.members[p].admin_enabled
      BY <2>1, <3>1 DEF Justified
    <3> HIDE DEF e
    <3> QED BY <3>1, <3>2, <3>3, ReasonOfMember
  <2> QED BY <2>1, <2>2, ReasonsOfSet DEF r
<1> QED BY <1>1, SnapshotHealthy, PTL

-----------------------------------------------------------------------------
\* The history of snapshots.

\* A snapshot is a record under the id of its own content.
Snaps == {Snapshot(r, n) : r \in SetRecords, n \in Nat}

LEMMA SnapFields ==
    ASSUME NEW x \in Snaps
    PROVE  /\ x.record \in SetRecords /\ x.authority_generation \in Nat
           /\ x.snapshot_id = Digest(x.record, x.authority_generation)
           /\ x.readiness = RouteReadiness(x.record.lifecycle, x.record.currentness)
BY DEF Snaps, Snapshot

\* One id is one generation, lifecycle and currentness.
LEMMA SameDigest ==
    ASSUME NEW a \in SetRecords, NEW b \in SetRecords, NEW m \in Nat, NEW n \in Nat,
           Digest(a, m) = Digest(b, n)
    PROVE  /\ a.generation = b.generation /\ a.lifecycle = b.lifecycle
           /\ a.currentness = b.currentness
<1>1. Digest(a, m).set = Digest(b, n).set
  OBVIOUS
<1> QED BY <1>1 DEF Digest

\* A capture leaves a history that ends with the id of what was captured.
LEMMA RetainedFacts ==
    ASSUME NEW h \in Seq(Snaps), NEW x \in Snaps
    PROVE  LET k == Retained(h, x)
           IN  k \in Seq(Snaps) /\ k # <<>> /\ k[Len(k)].snapshot_id = x.snapshot_id
<1> DEFINE k == Retained(h, x)
           longer == Append(h, x)
<1>1. CASE h # <<>> /\ h[Len(h)].snapshot_id = x.snapshot_id
  BY <1>1 DEF Retained
<1>2. CASE ~(h # <<>> /\ h[Len(h)].snapshot_id = x.snapshot_id)
  <2>1. k = IF Len(longer) > MaxSnapshotHistory THEN Tail(longer) ELSE longer
    BY <1>2 DEF Retained
  <2>2. /\ longer \in Seq(Snaps) /\ Len(longer) = Len(h) + 1 /\ Len(h) \in Nat
        /\ longer[Len(longer)] = x
    OBVIOUS
  <2>3. MaxSnapshotHistory \in Nat /\ MaxSnapshotHistory >= 1
    BY SnapshotAssumption
  <2> HIDE DEF k, longer
  <2>4. CASE Len(longer) > MaxSnapshotHistory
    <3>1. k = Tail(longer) /\ Len(longer) >= 2
      BY <2>1, <2>2, <2>3, <2>4
    <3>2. longer # <<>> /\ k \in Seq(Snaps) /\ Len(k) = Len(longer) - 1
      BY <2>2, <3>1
    <3>3. k[Len(k)] = longer[Len(longer)]
      BY <2>2, <3>1, <3>2
    <3>4. k # <<>>
      <4>1. Len(k) # 0
        BY <2>2, <3>1, <3>2
      <4> QED BY <4>1
    <3> QED BY <2>2, <3>2, <3>3, <3>4 DEF k
  <2>5. CASE ~(Len(longer) > MaxSnapshotHistory)
    BY <2>1, <2>2, <2>5 DEF k
  <2> QED BY <2>4, <2>5
<1> QED BY <1>1, <1>2

\* The stamps are numbers and the histories hold snapshots.
Retention ==
    /\ authority_generation \in Nat
    /\ stamped \in [SetIds -> Nat]
    /\ snapshot_history \in [SetIds -> Seq(Snaps)]

\* The authority generation goes up by one or stays.
LEMMA AuthorityNumbered ==
    ASSUME authority_generation \in Nat, [Next]_vars
    PROVE  authority_generation' \in Nat
<1>1. ASSUME NEW w, NEW scope, NEW session, RegisterPublisher(w, scope, session)
      PROVE  authority_generation' \in Nat
  <2>1. Authority!RegisterPublisher(w, scope, session)
    BY <1>1 DEF RegisterPublisher
  <2> QED BY <2>1 DEF Authority!RegisterPublisher
<1>2. ASSUME NEW w, UnregisterPublisher(w) PROVE authority_generation' \in Nat
  <2>1. Authority!UnregisterPublisher(w)
    BY <1>2 DEF UnregisterPublisher
  <2> QED BY <2>1 DEF Authority!UnregisterPublisher
<1>3. ASSUME NEW w, FenceWorker(w) PROVE authority_generation' \in Nat
  <2>1. Authority!FenceWorker(w)
    BY <1>3 DEF FenceWorker
  <2> QED BY <2>1 DEF Authority!FenceWorker
<1>4. ASSUME NEW w, NEW session, AdvanceEpoch(w, session) PROVE authority_generation' \in Nat
  <2>1. Authority!AdvanceEpoch(w, session)
    BY <1>4 DEF AdvanceEpoch
  <2> QED BY <2>1 DEF Authority!AdvanceEpoch
<1>5. CASE AuthorityStep
  BY <1>1, <1>2, <1>3, <1>4, <1>5 DEF AuthorityStep
<1>6. ASSUME UNCHANGED authority_vars PROVE authority_generation' \in Nat
  BY <1>6 DEF authority_vars
<1>7. CASE ViewStep
  <2>1. UNCHANGED authority_vars
    BY <1>7 DEF ViewStep, DeclarePathAuthority, ApplyPathAuthority, ExternalChange,
                AbandonMemberRevalidation, Quiet
  <2> QED BY <2>1, <1>6
<1>8. CASE UNCHANGED vars
  BY <1>8 DEF vars, authority_vars
<1> QED
  BY <1>5, <1>6, <1>7, <1>8, SetStepKeepsAuthority, StartCallKeepsAuthority,
     CallStepKeepsAuthority DEF Next

LEMMA StampsNumbered ==
    ASSUME Retention, authority_generation' \in Nat, SnapshotNext
    PROVE  stamped' \in [SetIds -> Nat]
<1>1. CASE StampCreated
  BY <1>1 DEF StampCreated, Retention
<1>2. CASE StampUncurrent
  BY <1>2 DEF StampUncurrent, Retention
<1>3. ASSUME NEW t, StampRevalidated(t) PROVE stamped' \in [SetIds -> Nat]
  BY <1>3 DEF StampRevalidated, Retention
<1>4. CASE UNCHANGED stamped
  BY <1>4 DEF Retention
<1> QED BY <1>1, <1>2, <1>3, <1>4 DEF SnapshotNext

\* What a step does to the history of one set.
LEMMA CaptureOf ==
    ASSUME Capture, NEW s \in SetIds
    PROVE  snapshot_history'[s] =
               IF Captures(sets[s], sets'[s])
               THEN Retained(snapshot_history[s], Snapshot(sets'[s], stamped'[s]))
               ELSE snapshot_history[s]
BY DEF Capture

LEMMA RetentionStep ==
    ASSUME Healthy, Retention, [SnapshotNext]_snapshot_vars
    PROVE  Retention'
<1>1. CASE UNCHANGED snapshot_vars
  BY <1>1 DEF snapshot_vars, vars, authority_vars, Retention
<1>2. CASE SnapshotNext
  <2>1. authority_generation' \in Nat
    BY StepsOfTheEngine, AuthorityNumbered DEF Retention
  <2>2. stamped' \in [SetIds -> Nat]
    BY <1>2, <2>1, StampsNumbered
  <2>3. Capture
    BY <1>2 DEF SnapshotNext
  <2>4. ASSUME NEW s \in SetIds
        PROVE  /\ Retained(snapshot_history[s], Snapshot(sets'[s], stamped'[s])) \in Seq(Snaps)
               /\ snapshot_history[s] \in Seq(Snaps)
    <3>1. Healthy'
      BY StepsOfTheEngine, NextHealthy
    <3>2. sets'[s] \in SetRecords
      BY <3>1 DEF Healthy, Inv, SetsInv
    <3>3. Snapshot(sets'[s], stamped'[s]) \in Snaps
      BY <2>2, <3>2 DEF Snaps
    <3> QED BY <3>3, RetainedFacts DEF Retention
  <2>5. snapshot_history' \in [SetIds -> Seq(Snaps)]
    BY <2>3, <2>4 DEF Capture
  <2> QED BY <2>1, <2>2, <2>5 DEF Retention
<1> QED BY <1>1, <1>2

LEMMA InitRetention == SnapshotInit => Retention
BY DEF SnapshotInit, Init, Authority!Init, Retention

LEMMA HistoriesRetained == SnapshotSpec => [](Healthy /\ Retention)
<1>1. SnapshotInit => Healthy
  BY InitHealthy DEF SnapshotInit
<1>2. Healthy /\ [SnapshotNext]_snapshot_vars => Healthy'
  BY StepsOfTheEngine, NextHealthy
<1> QED BY <1>1, <1>2, InitRetention, RetentionStep, PTL DEF SnapshotSpec

-----------------------------------------------------------------------------
\* The last snapshot of set s shows what routing goes by.
Shown(s) ==
    LET h == snapshot_history[s]
        last == h[Len(h)].record
    IN  Exists(s) =>
            /\ h # <<>>
            /\ GenerationRoom(sets[s]) =>
                   /\ last.generation = sets[s].generation
                   /\ last.lifecycle = sets[s].lifecycle
                   /\ last.currentness = sets[s].currentness

AllShown == \A s \in SetIds : Shown(s)

\* A set that is not captured looks as it did.
LEMMA UncapturedLooks ==
    ASSUME Healthy, [Next]_vars, NEW s \in SetIds, ~Captures(sets[s], sets'[s]),
           sets'[s].lifecycle # "NONE"
    PROVE  /\ sets[s].lifecycle # "NONE"
           /\ sets'[s].generation = sets[s].generation
           /\ GenerationRoom(sets'[s]) =>
                  /\ GenerationRoom(sets[s])
                  /\ sets'[s].lifecycle = sets[s].lifecycle
                  /\ sets'[s].currentness = sets[s].currentness
<1>1. PICK F : Evolves(sets[s], sets'[s], F)
  BY NextHistory, ProgressSets
<1>2. /\ sets[s].lifecycle # "NONE" /\ sets'[s].generation = sets[s].generation
      /\ sets'[s].watermark = sets[s].watermark
  BY DEF Captures
<1> QED BY <1>1, <1>2 DEF Evolves, Alike, GenerationRoom

LEMMA ShownStep ==
    ASSUME Healthy, Retention, AllShown, [SnapshotNext]_snapshot_vars
    PROVE  AllShown'
<1>1. CASE UNCHANGED snapshot_vars
  BY <1>1 DEF snapshot_vars, vars, engine_vars, AllShown, Shown, Exists
<1>2. CASE SnapshotNext
  <2>0. [Next]_vars /\ Healthy' /\ Retention'
    BY StepsOfTheEngine, NextHealthy, RetentionStep
  <2> SUFFICES ASSUME NEW s \in SetIds PROVE Shown(s)'
    BY DEF AllShown
  <2> DEFINE b == sets'[s]
             h == snapshot_history'[s]
             last == h[Len(h)].record
             x == Snapshot(sets'[s], stamped'[s])
  <2> SUFFICES ASSUME b.lifecycle # "NONE"
               PROVE  /\ h # <<>>
                      /\ GenerationRoom(b) =>
                             /\ last.generation = b.generation
                             /\ last.lifecycle = b.lifecycle
                             /\ last.currentness = b.currentness
    BY DEF Shown, Exists
  <2>1. Capture
    BY <1>2 DEF SnapshotNext
  <2>2. CASE Captures(sets[s], sets'[s])
    <3>1. b \in SetRecords /\ stamped'[s] \in Nat
      BY <2>0 DEF Healthy, Inv, SetsInv, Retention
    <3>2. x \in Snaps /\ x.record = b /\ x.authority_generation = stamped'[s]
      BY <3>1 DEF Snaps, Snapshot
    <3>3. h = Retained(snapshot_history[s], x) /\ snapshot_history[s] \in Seq(Snaps)
      BY <2>1, <2>2, CaptureOf DEF Retention
    <3> HIDE DEF x, h
    <3>4. h \in Seq(Snaps) /\ h # <<>> /\ h[Len(h)].snapshot_id = x.snapshot_id
      BY <3>2, <3>3, RetainedFacts
    <3>5. h[Len(h)] \in Snaps
      BY <3>4
    <3> QED BY <3>1, <3>2, <3>4, <3>5, SnapFields, SameDigest
  <2>3. CASE ~Captures(sets[s], sets'[s])
    <3>1. h = snapshot_history[s]
      BY <2>1, <2>3, CaptureOf
    <3>2. Shown(s)
      BY DEF AllShown
    <3> QED BY <2>0, <2>3, <3>1, <3>2, UncapturedLooks DEF Shown, Exists
  <2> QED BY <2>2, <2>3
<1> QED BY <1>1, <1>2

\* The last retained snapshot of every set shows its generation, its lifecycle
\* and its live currentness: whatever handler, invalidation or fence moves one of
\* them also leaves a snapshot, unless the generation of the set is exhausted.
THEOREM LatestIsShown == SnapshotSpec => []LatestShowsSet
<1>1. SnapshotInit => AllShown
  BY DEF SnapshotInit, Init, AllShown, Shown, Exists, NoRecord
<1>2. AllShown => LatestShowsSet
  BY DEF AllShown, Shown, LatestShowsSet
<1> QED BY <1>1, <1>2, HistoriesRetained, ShownStep, PTL DEF SnapshotSpec

-----------------------------------------------------------------------------
\* Diffs.

\* Members that a diff finds equal are equal in the digest.
LEMMA MemberFactsDecide ==
    ASSUME NEW m \in Members, NEW n \in Members, MemberFacts(m) = MemberFacts(n)
    PROVE  /\ Present(m) <=> Present(n)
           /\ Present(m) => <<m.id, m.bound, m.generation, m.lifecycle, m.currentness,
                              m.admin_enabled>> =
                            <<n.id, n.bound, n.generation, n.lifecycle, n.currentness,
                              n.admin_enabled>>
<1>1. ASSUME NEW a, NEW b, NEW c, NEW d, NEW e, NEW f, NEW g
      PROVE  <<a, b, c, d, e, f, g>> # <<>>
  OBVIOUS
<1>2. Present(m) <=> Present(n)
  BY <1>1 DEF MemberFacts
<1>3. CASE Present(m)
  BY <1>2, <1>3 DEF MemberFacts
<1> QED BY <1>2, <1>3

\* Snapshots of one set that a diff finds equal, and that name one predecessor,
\* have one id.
LEMMA EqualDiffs ==
    ASSUME NEW x \in Snaps, NEW y \in Snaps, Diff(x, y) = {},
           x.record.supersedes = y.record.supersedes
    PROVE  x.snapshot_id = y.snapshot_id
<1> DEFINE a == x.record
           b == y.record
           content(r) == [p \in PresentPaths(r.members) |->
                            LET m == r.members[p]
                            IN  <<m.id, m.bound, m.generation, m.lifecycle, m.currentness,
                                  m.admin_enabled>>]
<1>1. a \in SetRecords /\ b \in SetRecords
  BY SnapFields
<1>2. SetFacts(x) = SetFacts(y)
  BY DEF Diff
<1>3. \A p \in Paths : MemberFacts(a.members[p]) = MemberFacts(b.members[p])
  BY DEF Diff
<1>4. \A p \in Paths : a.members[p] \in Members /\ b.members[p] \in Members
  BY <1>1 DEF SetRecords
<1>5. PresentPaths(a.members) = PresentPaths(b.members)
  BY <1>3, <1>4, MemberFactsDecide DEF PresentPaths
<1>6. content(a) = content(b)
  <2>1. \A p \in PresentPaths(a.members) : content(a)[p] = content(b)[p]
    BY <1>3, <1>4, <1>5, MemberFactsDecide DEF PresentPaths
  <2> QED BY <1>5, <2>1
<1> HIDE DEF content
<1>7. <<a.generation, a.membership_generation, x.authority_generation, a.lifecycle,
        a.currentness, a.admin_enabled, a.minimum, a.conditional, a.governing_epoch,
        a.superseded_by, a.supersedes>> =
      <<b.generation, b.membership_generation, y.authority_generation, b.lifecycle,
        b.currentness, b.admin_enabled, b.minimum, b.conditional, b.governing_epoch,
        b.superseded_by, b.supersedes>>
  BY <1>2 DEF SetFacts
<1>8. Digest(a, x.authority_generation) = Digest(b, y.authority_generation)
  BY <1>6, <1>7 DEF Digest, content
<1> QED BY <1>8, SnapFields

\* Two retained snapshots of a set with different ids differ in something their
\* diff reports, unless it is the predecessor that was recorded in between: the
\* digest absorbs nothing else that diff_snapshots() does not compare.
THEOREM DiffsFollowIdentity == SnapshotSpec => []DiffFollowsIdentity
<1>1. Retention => DiffFollowsIdentity
  <2> SUFFICES ASSUME Retention, NEW s \in SetIds,
                      NEW i \in DOMAIN snapshot_history[s], NEW j \in DOMAIN snapshot_history[s]
               PROVE  LET before == snapshot_history[s][i]
                          after  == snapshot_history[s][j]
                      IN  before.snapshot_id # after.snapshot_id =>
                              \/ Diff(before, after) # {}
                              \/ before.record.supersedes # after.record.supersedes
    BY DEF DiffFollowsIdentity
  <2>1. snapshot_history[s][i] \in Snaps /\ snapshot_history[s][j] \in Snaps
    BY DEF Retention
  <2> QED BY <2>1, EqualDiffs
<1> QED BY <1>1, HistoriesRetained, PTL
=============================================================================
