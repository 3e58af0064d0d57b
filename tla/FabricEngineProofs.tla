------------------------- MODULE FabricEngineProofs -------------------------
(***************************************************************************)
(* The engine keeps its type, the threshold accounting, the justification  *)
(* of usable members, the nesting of generations, the dependency index and *)
(* the member counter, for any number of sets, paths, workers and threads  *)
(* and any limits.                                                         *)
(***************************************************************************)
EXTENDS FabricEngine, SetRecordProofs

\* The relations that the dependency index lists.
Indexed == {x \in SetIds \X Paths : x[1] \in path_dependents[x[2]]}

\* The counter covers them and keeps its limit.
Counted ==
    /\ IsFiniteSet(Indexed)
    /\ Cardinality(Indexed) <= total_members /\ total_members <= MaxTotalMembers

\* The inductive invariant, in three parts: the set records, the index and the
\* counter kept beside them, and everything else.
SetsInv ==
    /\ sets \in [SetIds -> SetRecords]
    /\ \A s \in SetIds : Right(sets[s])

IndexInv ==
    /\ total_members \in Nat
    /\ path_dependents \in [Paths -> SUBSET SetIds]
    /\ PathIndexConsistent
    /\ Counted

RestInv ==
    /\ next_id \in Nat \ {0}
    /\ directory \in [Paths -> Views]
    /\ tickets \in Seq(Tickets)
    /\ calls \in [Threads -> CallRecords]
    /\ \A t \in Threads : WellFormed(calls[t])
    /\ epoch \in Nat

Inv == SetsInv /\ IndexInv /\ RestInv

\* The invariant implies the properties that the runs check.
LEMMA InvImplies ==
    Inv => /\ TypeOK /\ ThresholdAccounting /\ UsableJustified
           /\ GenerationsNested /\ PathIndexConsistent
BY DEF Inv, SetsInv, IndexInv, RestInv, TypeOK, ThresholdAccounting, UsableJustified,
       GenerationsNested, Right

LEMMA IdleType == Idle \in CallRecords /\ WellFormed(Idle)
BY DEF Idle, CallRecords, WellFormed, Operations, Views, NoView

LEMMA InitInv == Init => Inv
<1> SUFFICES ASSUME Init PROVE Inv
  OBVIOUS
<1>1. SetsInv
  BY NoRecordRight DEF Init, SetsInv, Right
<1>2. IndexInv
  <2>1. \A s \in SetIds, p \in Paths : ~Present(sets[s].members[p])
    BY NoMemberFacts DEF Init, NoRecord
  <2>2. Indexed = {}
    BY DEF Init, Indexed
  <2>3. Counted
    BY <2>2, FS_EmptySet, LimitsAssumption DEF Init, Counted
  <2> QED
    BY <2>1, <2>3 DEF Init, IndexInv, PathIndexConsistent
<1>3. RestInv
  BY IdleType DEF Init, RestInv, Views, NoView, Authority!Init
<1> QED
  BY <1>1, <1>2, <1>3 DEF Inv
-----------------------------------------------------------------------------
\* The shared tails.

LEMMA LowerType ==
    ASSUME NEW n \in Nat, NEW k \in Nat PROVE Lower(n, k) \in Nat
BY DEF Lower

LEMMA GoneType ==
    ASSUME NEW ms, NEW dropped \in SUBSET Paths
    PROVE  Cardinality(dropped \cup Pruned(ms)) \in Nat
<1>1. dropped \cup Pruned(ms) \subseteq Paths
  BY DEF Pruned, ArchivedPaths
<1> QED
  BY <1>1, PathsAssumption, FS_Subset, FS_CardinalityType

LEMMA PrunedArePresent ==
    ASSUME NEW ms
    PROVE  Pruned(ms) \in SUBSET Paths /\ \A p \in Pruned(ms) : Present(ms[p])
BY DEF Pruned, ArchivedPaths, Archived, Present, TerminalMember

\* The pairs of a set with some paths are as many as the paths.
LEMMA PairsCount ==
    ASSUME NEW s, NEW F \in SUBSET Paths
    PROVE  /\ IsFiniteSet({s} \X F) /\ IsFiniteSet(F)
           /\ Cardinality({s} \X F) = Cardinality(F) /\ Cardinality(F) \in Nat
<1>1. IsFiniteSet(F) /\ Cardinality(F) \in Nat
  BY PathsAssumption, FS_Subset, FS_CardinalityType
<1> DEFINE f == [p \in F |-> <<s, p>>]
<1>2. f \in Bijection(F, {s} \X F)
  <2>1. f \in [F -> {s} \X F]
    OBVIOUS
  <2>2. \A p, q \in F : f[p] = f[q] => p = q
    OBVIOUS
  <2>3. \A x \in {s} \X F : \E p \in F : f[p] = x
    OBVIOUS
  <2> QED BY <2>1, <2>2, <2>3 DEF Bijection, Injection, Surjection, IsInjective
<1> QED BY <1>1, <1>2, FS_Bijection DEF ExistsBijection

\* The counter gains at least what the index gains, and loses as much.
LEMMA CountStep ==
    ASSUME Counted, total_members \in Nat, NEW s \in SetIds, NEW gained \in Nat,
           NEW added \in SUBSET Paths, NEW gone \in SUBSET Paths,
           \A p \in gone : p \in added \/ s \in path_dependents[p],
           Cardinality({p \in added : s \notin path_dependents[p]}) <= gained,
           total_members + gained <= MaxTotalMembers,
           total_members' = Lower(total_members + gained, Cardinality(gone)),
           \A p \in Paths, x \in SetIds \ {s} : x \in path_dependents'[p] <=> x \in path_dependents[p],
           \A p \in Paths : s \in path_dependents'[p] <=>
                               p \notin gone /\ (p \in added \/ s \in path_dependents[p])
    PROVE  Counted'
<1> DEFINE new == {p \in added : s \notin path_dependents[p]}
           I == Indexed
           N == {s} \X new
           G == {s} \X gone
           U == I \cup N
<1>1. /\ IsFiniteSet(N) /\ IsFiniteSet(G) /\ Cardinality(N) \in Nat /\ Cardinality(G) \in Nat
      /\ Cardinality(N) <= gained /\ Cardinality(G) = Cardinality(gone)
  BY PairsCount
<1>2. IsFiniteSet(I) /\ Cardinality(I) \in Nat /\ Cardinality(I) <= total_members
  BY FS_CardinalityType DEF Counted
<1>3. I \cap N = {} /\ G \subseteq U /\ Indexed' = U \ G
  BY DEF Indexed
<1> HIDE DEF I, N, G, new
<1>4. IsFiniteSet(U) /\ Cardinality(U) = Cardinality(I) + Cardinality(N)
  <2>1. /\ IsFiniteSet(U)
        /\ Cardinality(U) = Cardinality(I) + Cardinality(N) - Cardinality(I \cap N)
    BY <1>1, <1>2, FS_Union
  <2>2. Cardinality(I \cap N) = 0
    BY <1>3, FS_EmptySet
  <2> HIDE DEF U
  <2> QED BY <1>1, <1>2, <2>1, <2>2
<1> HIDE DEF U
<1>5. IsFiniteSet(Indexed') /\ Cardinality(Indexed') = Cardinality(U) - Cardinality(G)
  <2>1. U \cap G = G
    BY <1>3
  <2> QED BY <1>3, <1>4, <2>1, FS_Difference, ZenonT(30)
<1>6. Cardinality(Indexed') \in Nat
  BY <1>5, FS_CardinalityType
<1>7. /\ Cardinality(Indexed') <= total_members' /\ total_members' <= MaxTotalMembers
  BY <1>1, <1>2, <1>4, <1>5, <1>6, LimitsAssumption DEF Lower
<1> QED BY <1>5, <1>7 DEF Counted

\* Nothing is added.
LEMMA CountFalls ==
    ASSUME Counted, total_members \in Nat, NEW s \in SetIds, NEW gone \in SUBSET Paths,
           \A p \in gone : s \in path_dependents[p],
           total_members' = Lower(total_members, Cardinality(gone)),
           \A p \in Paths, x \in SetIds \ {s} : x \in path_dependents'[p] <=> x \in path_dependents[p],
           \A p \in Paths : s \in path_dependents'[p] <=> p \notin gone /\ s \in path_dependents[p]
    PROVE  Counted'
<1> DEFINE I == Indexed
           G == {s} \X gone
<1>1. IsFiniteSet(G) /\ Cardinality(G) \in Nat /\ Cardinality(G) = Cardinality(gone)
  BY PairsCount
<1>2. IsFiniteSet(I) /\ Cardinality(I) \in Nat /\ Cardinality(I) <= total_members
  BY FS_CardinalityType DEF Counted
<1>3. I \cap G = G /\ Indexed' = I \ G
  BY DEF Indexed
<1> HIDE DEF I, G
<1>4. IsFiniteSet(Indexed') /\ Cardinality(Indexed') = Cardinality(I) - Cardinality(G)
  BY <1>2, <1>3, FS_Difference, ZenonT(30)
<1>5. Cardinality(Indexed') \in Nat
  BY <1>4, FS_CardinalityType
<1>6. Cardinality(Indexed') <= total_members' /\ total_members' <= MaxTotalMembers
  BY <1>1, <1>2, <1>4, <1>5, LimitsAssumption DEF Lower, Counted
<1> QED BY <1>4, <1>6 DEF Counted

LEMMA CountStays ==
    ASSUME Counted, UNCHANGED <<total_members, path_dependents>> PROVE Counted'
BY DEF Counted, Indexed

\* One record is replaced by a right one.
LEMMA ReplaceRecord ==
    ASSUME SetsInv, NEW s \in SetIds, NEW q, Right(q), sets' = [sets EXCEPT ![s] = q]
    PROVE  SetsInv'
BY DEF SetsInv, Right

\* Store(): the same presence, so the index stays.
LEMMA StoreStep ==
    ASSUME SetsInv, IndexInv, NEW s \in SetIds, NEW q, Right(q),
           SamePresence(sets[s].members, q.members),
           sets' = [sets EXCEPT ![s] = q],
           UNCHANGED <<total_members, path_dependents>>
    PROVE  SetsInv' /\ IndexInv'
<1>1. SetsInv'
  BY ReplaceRecord
<1>2. \A x \in SetIds, p \in Paths : Present(sets'[x].members[p]) <=> Present(sets[x].members[p])
  BY DEF SetsInv, SamePresence
<1> QED
  BY <1>1, <1>2, CountStays DEF IndexInv, PathIndexConsistent

\* A commit: the record is right if it was right but for its generations, and
\* the index lists set s under exactly the relations that were not pruned.
LEMMA CommitStep ==
    ASSUME SetsInv, IndexInv, NEW s \in SetIds, NEW r,
           NEW worker \in Workers \cup {NoWorker}, NEW membership \in BOOLEAN,
           r \in SetRecords, Accounted(r), Justified(r), Blank(r), AboutToCommit(r),
           GenerationRoom(r), membership => MembershipRoom(r),
           sets' = [sets EXCEPT ![s] = Commit(r, worker, membership)],
           total_members' \in Nat, Counted',
           path_dependents' \in [Paths -> SUBSET SetIds],
           \A p \in Paths, x \in SetIds \ {s} : x \in path_dependents'[p] <=> x \in path_dependents[p],
           \A p \in Paths : s \in path_dependents'[p] <=>
                               Present(r.members[p]) /\ p \notin Pruned(r.members)
    PROVE  SetsInv' /\ IndexInv'
<1> DEFINE q == Commit(r, worker, membership)
<1>1. Right(q)
  BY CommitRight
<1>2. \A p \in Paths : Present(q.members[p]) <=> Present(r.members[p]) /\ p \notin Pruned(r.members)
  BY CommitRight
<1> HIDE DEF q
<1>3. sets' = [sets EXCEPT ![s] = q]
  BY DEF q
<1>4. SetsInv'
  BY <1>1, <1>3, ReplaceRecord
<1>5. ASSUME NEW x \in SetIds, NEW p \in Paths
      PROVE  x \in path_dependents'[p] <=> Present(sets'[x].members[p])
  <2>1. x \in path_dependents[p] <=> Present(sets[x].members[p])
    BY DEF IndexInv, PathIndexConsistent
  <2>2. sets'[x] = IF x = s THEN q ELSE sets[x]
    BY <1>3 DEF SetsInv
  <2> QED
    BY <1>2, <2>1, <2>2
<1> QED
  BY <1>4, <1>5 DEF IndexInv, PathIndexConsistent

\* The counter gains as much as set s gains relations on the paths "added", and
\* there is room.
Afforded(s, added, gained) ==
    /\ Cardinality({p \in added : ~Present(sets[s].members[p])}) <= gained
    /\ total_members + gained <= MaxTotalMembers

LEMMA NothingAfforded ==
    ASSUME IndexInv, NEW s \in SetIds
    PROVE  Afforded(s, {}, 0)
<1>1. {p \in {} : ~Present(sets[s].members[p])} = {}
  OBVIOUS
<1>2. Cardinality({p \in {} : ~Present(sets[s].members[p])}) = 0
  BY <1>1, FS_EmptySet
<1> QED BY <1>2 DEF Afforded, IndexInv, Counted

\* CommitSet(): the index and the counter follow the paths that joined, left and
\* were pruned.
LEMMA CommitSetStep ==
    ASSUME SetsInv, IndexInv, NEW s \in SetIds, NEW r,
           NEW worker \in Workers \cup {NoWorker},
           NEW added \in SUBSET Paths, NEW gained \in Nat, NEW dropped \in SUBSET Paths,
           r \in SetRecords, Accounted(r), Justified(r), Blank(r), AboutToCommit(r),
           GenerationRoom(r), MembershipRoom(r),
           \A p \in Paths : Present(r.members[p]) <=>
                               p \notin dropped /\ (p \in added \/ Present(sets[s].members[p])),
           \A p \in dropped : Present(sets[s].members[p]),
           Afforded(s, added, gained),
           CommitSet(s, r, worker, TRUE, added, gained, dropped)
    PROVE  SetsInv' /\ IndexInv'
<1> DEFINE gone == dropped \cup Pruned(r.members)
<1>1. /\ sets' = [sets EXCEPT ![s] = Commit(r, worker, TRUE)]
      /\ total_members' = Lower(total_members + gained, Cardinality(gone))
      /\ path_dependents' = [p \in Paths |-> IF p \in gone THEN path_dependents[p] \ {s}
                                             ELSE IF p \in added THEN path_dependents[p] \cup {s}
                                             ELSE path_dependents[p]]
  BY DEF CommitSet
<1>2. Cardinality(gone) \in Nat
  BY GoneType
<1> HIDE DEF gone
<1>3. total_members' \in Nat
  <2>1. total_members + gained \in Nat
    BY DEF IndexInv
  <2> QED
    BY <1>1, <1>2, <2>1, LowerType
<1>4. path_dependents' \in [Paths -> SUBSET SetIds]
  BY <1>1 DEF IndexInv
<1>5. \A p \in Paths, x \in SetIds \ {s} : x \in path_dependents'[p] <=> x \in path_dependents[p]
  BY <1>1
<1>6. \A p \in Paths : s \in path_dependents'[p] <=>
                          Present(r.members[p]) /\ p \notin Pruned(r.members)
  BY <1>1 DEF IndexInv, PathIndexConsistent, gone
<1>7. Counted'
  <2>1. /\ gone \in SUBSET Paths
        /\ \A p \in gone : p \in added \/ Present(sets[s].members[p])
    BY PrunedArePresent DEF gone
  <2>2. \A p \in Paths : Present(sets[s].members[p]) <=> s \in path_dependents[p]
    BY DEF IndexInv, PathIndexConsistent
  <2>3. {p \in added : s \notin path_dependents[p]} = {p \in added : ~Present(sets[s].members[p])}
    BY <2>2
  <2>4. \A p \in Paths : s \in path_dependents'[p] <=>
                              p \notin gone /\ (p \in added \/ s \in path_dependents[p])
    BY <1>1, <1>4 DEF IndexInv
  <2> QED
    BY <1>1, <1>5, <2>1, <2>2, <2>3, <2>4, CountStep DEF IndexInv, Afforded
<1> QED
  BY <1>1, <1>3, <1>4, <1>5, <1>6, <1>7, CommitStep

\* CommitInPlace(): a right record whose relations are those of the old one.
LEMMA CommitInPlaceStep ==
    ASSUME SetsInv, IndexInv, NEW s \in SetIds, NEW r,
           NEW worker \in Workers \cup {NoWorker},
           r \in SetRecords, Accounted(r), Justified(r), Blank(r), AboutToCommit(r),
           GenerationRoom(r), SamePresence(sets[s].members, r.members),
           CommitInPlace(s, r, worker)
    PROVE  SetsInv' /\ IndexInv'
<1> DEFINE gone == {} \cup Pruned(r.members)
<1>1. /\ sets' = [sets EXCEPT ![s] = Commit(r, worker, FALSE)]
      /\ total_members' = Lower(total_members + 0, Cardinality(gone))
      /\ path_dependents' = [p \in Paths |-> IF p \in gone THEN path_dependents[p] \ {s}
                                             ELSE IF p \in {} THEN path_dependents[p] \cup {s}
                                             ELSE path_dependents[p]]
  BY DEF CommitInPlace, CommitSet
<1>2. Cardinality(gone) \in Nat
  BY GoneType
<1> HIDE DEF gone
<1>3. total_members' \in Nat
  BY <1>1, <1>2, LowerType DEF IndexInv
<1>4. path_dependents' \in [Paths -> SUBSET SetIds]
  BY <1>1 DEF IndexInv
<1>5. \A p \in Paths, x \in SetIds \ {s} : x \in path_dependents'[p] <=> x \in path_dependents[p]
  BY <1>1
<1>6. \A p \in Paths : s \in path_dependents'[p] <=>
                          Present(r.members[p]) /\ p \notin Pruned(r.members)
  BY <1>1 DEF IndexInv, PathIndexConsistent, SamePresence, gone
<1>7. Counted'
  <2>1. gone \in SUBSET Paths /\ \A p \in gone : s \in path_dependents[p]
    BY PrunedArePresent DEF gone, IndexInv, PathIndexConsistent, SamePresence
  <2>2. \A p \in Paths : s \in path_dependents'[p] <=> p \notin gone /\ s \in path_dependents[p]
    BY <1>1 DEF IndexInv
  <2>3. Counted /\ total_members \in Nat /\ total_members' = Lower(total_members, Cardinality(gone))
    BY <1>1 DEF IndexInv
  <2> QED
    BY <1>5, <2>1, <2>2, <2>3, CountFalls, SMTT(30)
<1> QED
  BY <1>1, <1>3, <1>4, <1>5, <1>6, <1>7, CommitStep

\* apply_view_locked() over the dependents of a path.
LEMMA ApplyToDependentsStep ==
    ASSUME SetsInv, IndexInv, NEW p \in Paths, NEW view \in Views, ApplyToDependents(p, view)
    PROVE  SetsInv' /\ IndexInv'
<1>1. /\ sets' = [s \in SetIds |-> IF s \in path_dependents[p]
                                   THEN ApplyView(sets[s], p, view) ELSE sets[s]]
      /\ UNCHANGED <<total_members, path_dependents>>
  BY DEF ApplyToDependents
<1>2. \A s \in SetIds : Right(sets[s])
  BY DEF SetsInv
<1>3. ASSUME NEW s \in SetIds
      PROVE  /\ Right(ApplyView(sets[s], p, view))
             /\ SamePresence(sets[s].members, ApplyView(sets[s], p, view).members)
  BY <1>2, ApplyViewRight
<1>4. \A s \in SetIds : /\ Right(sets'[s])
                        /\ SamePresence(sets[s].members, sets'[s].members)
  BY <1>1, <1>2, <1>3 DEF SamePresence
<1>5. SetsInv'
  BY <1>1, <1>4 DEF SetsInv, Right
<1> QED
  BY <1>1, <1>4, <1>5, CountStays DEF IndexInv, PathIndexConsistent, SamePresence
-----------------------------------------------------------------------------
\* The handlers that run under the lock from start to end, one lemma each.

LEMMA QuietRest == RestInv /\ Quiet => RestInv'
BY DEF RestInv, Quiet, authority_vars

\* A right record committed in place, or stored, by a quiet handler.
LEMMA RightCommit ==
    ASSUME Inv, NEW s \in SetIds, NEW r, NEW w \in Workers,
           Right(r), r.generation = sets[s].generation, GenerationRoom(sets[s]),
           SamePresence(sets[s].members, r.members), CommitInPlace(s, r, w)
    PROVE  SetsInv' /\ IndexInv'
<1>1. AboutToCommit(r) /\ GenerationRoom(r)
  BY RightIsAboutToCommit DEF GenerationRoom
<1> QED
  BY <1>1, CommitInPlaceStep DEF Inv, Right

LEMMA RightStore ==
    ASSUME Inv, NEW s \in SetIds, NEW r,
           Right(r), SamePresence(sets[s].members, r.members), Store(s, r)
    PROVE  SetsInv' /\ IndexInv'
BY StoreStep DEF Inv, Store

LEMMA CreateSetStep ==
    ASSUME Inv, NEW w \in Workers, NEW s \in SetIds, NEW n \in Minimums,
           NEW admin \in Enablements, NEW conditional \in Policies,
           CreateSet(w, s, n, admin, conditional)
    PROVE  Inv'
<1> DEFINE q == [NoRecord EXCEPT !.lifecycle = "DECLARED", !.currentness = "CURRENT",
                                 !.admin_enabled = admin, !.minimum = n,
                                 !.conditional = conditional, !.generation = 1,
                                 !.membership_generation = 1,
                                 !.governing_epoch = epoch, !.worker = w]
<1>1. n \in Nat /\ admin \in BOOLEAN /\ conditional \in BOOLEAN /\ epoch \in Nat /\ 1 \in Generations
  BY LimitsAssumption, CounterAssumption DEF Inv, RestInv, Generations
<1>2. NoRecord \in SetRecords /\ "DECLARED" \in SetLifecycles
  BY NoRecordRight DEF Right, SetLifecycles
<1>3. q \in SetRecords
  BY <1>1, <1>2 DEF SetRecords
<1>4. /\ q.members = NoRecord.members /\ q.usable = NoRecord.usable /\ q.lifecycle = "DECLARED"
      /\ q.generation = 1 /\ q.membership_generation = 1
  BY <1>2 DEF SetRecords
<1>5. \A p \in Paths : NoRecord.members[p] = NoMember
  BY DEF NoRecord
<1>6. Store(s, q) /\ Quiet /\ sets[s].lifecycle = "NONE"
  BY DEF CreateSet, Exists
<1> HIDE DEF q
<1>7. Right(q)
  <2>1. Accounted(q)
    BY <1>4, NoRecordRight DEF Right, Accounted, Derived
  <2>2. Justified(q) /\ Nested(q)
    BY <1>4, <1>5, NoMemberFacts DEF Justified, Nested
  <2> QED
    BY <1>3, <1>4, <2>1, <2>2 DEF Right, Blank, Absent
<1>8. \A p \in Paths : ~Present(sets[s].members[p]) /\ ~Present(q.members[p])
  BY <1>4, <1>5, <1>6, NoMemberFacts DEF Inv, SetsInv, Right, Blank, Absent
<1>9. SetsInv' /\ IndexInv'
  BY <1>6, <1>7, <1>8, RightStore DEF SamePresence
<1> QED
  BY <1>6, <1>9, QuietRest DEF Inv

LEMMA PublishSetStep ==
    ASSUME Inv, NEW w \in Workers, NEW s \in SetIds, PublishSet(w, s)
    PROVE  Inv'
<1> DEFINE r == ApplyTransition(sets[s], "PUBLISH")
<1>1. Right(r) /\ Frame(sets[s], r)
  BY TransitionRight DEF Inv, SetsInv
<1>2. CommitInPlace(s, r, w) /\ GenerationRoom(sets[s]) /\ Quiet
  BY DEF PublishSet, Mutates
<1> HIDE DEF r
<1>3. SetsInv' /\ IndexInv'
  BY <1>1, <1>2, RightCommit DEF Frame, SamePresence
<1> QED
  BY <1>2, <1>3, QuietRest DEF Inv

LEMMA SetMinimumStep ==
    ASSUME Inv, NEW w \in Workers, NEW s \in SetIds, NEW n \in Minimums,
           SetMinimumUsableMembers(w, s, n)
    PROVE  Inv'
<1> DEFINE r == ApplyTransition(sets[s], "MINIMUM_CHANGED")
           x == [r EXCEPT !.minimum = n]
           q == Recompute(x)
<1>1. Right(r) /\ Frame(sets[s], r)
  BY TransitionRight DEF Inv, SetsInv
<1>2. /\ Quiet
      /\ IF n > MaxMembersPerSet \/ n = r.minimum \/ ~GenerationRoom(r)
         THEN Store(s, r) ELSE CommitInPlace(s, q, w)
  BY DEF SetMinimumUsableMembers, Mutates
<1> HIDE DEF r
<1>3. /\ x \in SetRecords /\ x.members = r.members /\ x.conditional = r.conditional
      /\ x.generation = r.generation /\ x.membership_generation = r.membership_generation
      /\ x.lifecycle = r.lifecycle
  BY <1>1, LimitsAssumption DEF Right, SetRecords
<1> HIDE DEF x
<1>4. Right(q) /\ Frame(x, q)
  BY <1>1, <1>3, RecomputeRight DEF Right, Justified, Nested, Blank, Absent
<1> HIDE DEF q
<1>5. CASE n > MaxMembersPerSet \/ n = r.minimum \/ ~GenerationRoom(r)
  BY <1>1, <1>2, <1>5, RightStore, QuietRest DEF Inv, Frame, SamePresence
<1>6. CASE ~(n > MaxMembersPerSet \/ n = r.minimum \/ ~GenerationRoom(r))
  <2>1. /\ q.generation = sets[s].generation /\ GenerationRoom(sets[s])
        /\ SamePresence(sets[s].members, q.members)
    BY <1>1, <1>3, <1>4, <1>6 DEF Frame, SamePresence, GenerationRoom
  <2> QED
    BY <1>2, <1>4, <1>6, <2>1, RightCommit, QuietRest DEF Inv
<1> QED
  BY <1>5, <1>6

LEMMA SetPolicyStep ==
    ASSUME Inv, NEW w \in Workers, NEW s \in SetIds, NEW permitted \in Policies,
           SetConditionalAuthorityPolicy(w, s, permitted)
    PROVE  Inv'
<1> DEFINE r == ApplyTransition(sets[s], "POLICY_CHANGED")
           x == [r EXCEPT !.conditional = permitted]
           q == Reevaluated(x)
<1>1. Right(r) /\ Frame(sets[s], r)
  BY TransitionRight DEF Inv, SetsInv
<1>2. /\ Quiet
      /\ IF permitted = r.conditional \/ ~GenerationRoom(r)
         THEN Store(s, r) ELSE CommitInPlace(s, q, w)
  BY DEF SetConditionalAuthorityPolicy, Mutates
<1> HIDE DEF r
<1>3. /\ x \in SetRecords /\ x.members = r.members
      /\ x.generation = r.generation /\ x.membership_generation = r.membership_generation
      /\ x.lifecycle = r.lifecycle
  BY <1>1, LimitsAssumption DEF Right, SetRecords
<1> HIDE DEF x
<1>4. /\ q \in SetRecords /\ Accounted(q) /\ Justified(q) /\ (Absent(q) <=> Absent(x))
      /\ q.generation = x.generation /\ q.membership_generation = x.membership_generation
      /\ SamePresence(x.members, q.members)
      /\ \A p \in Paths : q.members[p].generation = x.members[p].generation
  BY <1>3, ReevaluatedFacts
<1> HIDE DEF q
<1>5. Right(q)
  BY <1>1, <1>3, <1>4 DEF Right, Nested, Blank, Absent, SamePresence
<1>6. CASE permitted = r.conditional \/ ~GenerationRoom(r)
  BY <1>1, <1>2, <1>6, RightStore, QuietRest DEF Inv, Frame, SamePresence
<1>7. CASE ~(permitted = r.conditional \/ ~GenerationRoom(r))
  <2>1. /\ q.generation = sets[s].generation /\ GenerationRoom(sets[s])
        /\ SamePresence(sets[s].members, q.members)
    BY <1>1, <1>3, <1>4, <1>7 DEF Frame, SamePresence, GenerationRoom
  <2> QED
    BY <1>2, <1>5, <1>7, <2>1, RightCommit, QuietRest DEF Inv
<1> QED
  BY <1>6, <1>7

LEMMA SetAdminStep ==
    ASSUME Inv, NEW w \in Workers, NEW s \in SetIds, NEW enabled \in Enablements,
           SetAdminEnabled(w, s, enabled)
    PROVE  Inv'
<1> DEFINE event == IF enabled THEN "ADMIN_ENABLED" ELSE "ADMIN_DISABLED"
           r == ApplyTransition(sets[s], event)
           x == [r EXCEPT !.admin_enabled = enabled]
           q == Recompute(x)
<1>1. Right(r) /\ Frame(sets[s], r)
  BY TransitionRight DEF Inv, SetsInv
<1>2. /\ Quiet
      /\ IF enabled = r.admin_enabled \/ ~GenerationRoom(r)
         THEN Store(s, r) ELSE CommitInPlace(s, q, w)
  BY DEF SetAdminEnabled, Mutates
<1> HIDE DEF r
<1>3. /\ x \in SetRecords /\ x.members = r.members /\ x.conditional = r.conditional
      /\ x.generation = r.generation /\ x.membership_generation = r.membership_generation
      /\ x.lifecycle = r.lifecycle
  BY <1>1, LimitsAssumption DEF Right, SetRecords
<1> HIDE DEF x
<1>4. Right(q) /\ Frame(x, q)
  BY <1>1, <1>3, RecomputeRight DEF Right, Justified, Nested, Blank, Absent
<1> HIDE DEF q
<1>5. CASE enabled = r.admin_enabled \/ ~GenerationRoom(r)
  BY <1>1, <1>2, <1>5, RightStore, QuietRest DEF Inv, Frame, SamePresence
<1>6. CASE ~(enabled = r.admin_enabled \/ ~GenerationRoom(r))
  <2>1. /\ q.generation = sets[s].generation /\ GenerationRoom(sets[s])
        /\ SamePresence(sets[s].members, q.members)
    BY <1>1, <1>3, <1>4, <1>6 DEF Frame, SamePresence, GenerationRoom
  <2> QED
    BY <1>2, <1>4, <1>6, <2>1, RightCommit, QuietRest DEF Inv
<1> QED
  BY <1>5, <1>6

LEMMA WithdrawSetStep ==
    ASSUME Inv, NEW w \in Workers, NEW s \in SetIds, WithdrawSet(w, s)
    PROVE  Inv'
<1> DEFINE a == ApplyTransition(sets[s], "BEGIN_WITHDRAW")
           r == Recompute(a)
           q == Consequences(r, sets[s].lifecycle)
<1>1. CommitInPlace(s, q, w) /\ GenerationRoom(sets[s]) /\ Quiet
  BY DEF WithdrawSet, Mutates
<1>2. Right(a) /\ Frame(sets[s], a)
  BY TransitionRight DEF Inv, SetsInv
<1> HIDE DEF a
<1>3. Right(r) /\ Frame(a, r)
  BY <1>2, RecomputeRight DEF Right
<1> HIDE DEF r
<1>4. Right(q) /\ q.generation = r.generation /\ SamePresence(r.members, q.members)
  BY <1>3, ConsequencesRight
<1> HIDE DEF q
<1>5. q.generation = sets[s].generation /\ SamePresence(sets[s].members, q.members)
  BY <1>2, <1>3, <1>4 DEF Frame, SamePresence
<1>6. SetsInv' /\ IndexInv'
  BY <1>1, <1>4, <1>5, RightCommit
<1> QED
  BY <1>1, <1>6, QuietRest DEF Inv

LEMMA CompleteWithdrawalStep ==
    ASSUME Inv, NEW w \in Workers, NEW s \in SetIds, CompleteWithdrawal(w, s)
    PROVE  Inv'
<1> DEFINE r == ApplyTransition(sets[s], "COMPLETE_WITHDRAW")
<1>1. Right(r) /\ Frame(sets[s], r)
  BY TransitionRight DEF Inv, SetsInv
<1>2. CommitInPlace(s, r, w) /\ GenerationRoom(sets[s]) /\ Quiet
  BY DEF CompleteWithdrawal, Mutates
<1> HIDE DEF r
<1>3. SetsInv' /\ IndexInv'
  BY <1>1, <1>2, RightCommit DEF Frame, SamePresence
<1> QED
  BY <1>2, <1>3, QuietRest DEF Inv

LEMMA EndSetStep ==
    ASSUME Inv, NEW operation, NEW event, NEW w \in Workers, NEW s \in SetIds,
           EndSet(operation, event, w, s)
    PROVE  Inv'
<1> DEFINE r == ApplyTransition(sets[s], event)
           q == Consequences(r, sets[s].lifecycle)
<1>1. CommitInPlace(s, q, w) /\ GenerationRoom(sets[s]) /\ Quiet
  BY DEF EndSet, Mutates
<1>2. Right(r) /\ Frame(sets[s], r)
  BY TransitionRight DEF Inv, SetsInv
<1> HIDE DEF r
<1>3. Right(q) /\ q.generation = r.generation /\ SamePresence(r.members, q.members)
  BY <1>2, ConsequencesRight
<1> HIDE DEF q
<1>4. q.generation = sets[s].generation /\ SamePresence(sets[s].members, q.members)
  BY <1>2, <1>3 DEF Frame, SamePresence
<1>5. SetsInv' /\ IndexInv'
  BY <1>1, <1>3, <1>4, RightCommit
<1> QED
  BY <1>1, <1>5, QuietRest DEF Inv

\* supersede_set() commits one set and names it in the record of another.
LEMMA SupersedeSetStep ==
    ASSUME Inv, NEW w \in Workers, NEW s \in SetIds, NEW successor \in SetIds,
           SupersedeSet(w, s, successor)
    PROVE  Inv'
<1> DEFINE a == ApplyTransition(sets[s], "SUPERSEDE")
           old == [a EXCEPT !.superseded_by = successor]
           ended == Consequences(old, sets[s].lifecycle)
           q == Commit(ended, w, FALSE)
           named == [sets[successor] EXCEPT !.supersedes = s]
           gone == Pruned(ended.members)
<1>1. /\ sets' = [sets EXCEPT ![s] = q, ![successor].supersedes = s]
      /\ total_members' = Lower(total_members, Cardinality(gone))
      /\ path_dependents' = [p \in Paths |-> IF p \in gone THEN path_dependents[p] \ {s}
                                                           ELSE path_dependents[p]]
      /\ GenerationRoom(sets[s]) /\ s # successor /\ Quiet
  BY DEF SupersedeSet, Mutates
<1>2. Right(a) /\ Frame(sets[s], a)
  BY TransitionRight DEF Inv, SetsInv
<1> HIDE DEF a
<1>3. /\ old \in SetRecords /\ old.members = a.members /\ old.conditional = a.conditional
      /\ old.generation = a.generation /\ old.membership_generation = a.membership_generation
      /\ old.lifecycle = a.lifecycle /\ old.usable = a.usable /\ old.minimum = a.minimum
      /\ old.admin_enabled = a.admin_enabled
  BY <1>2 DEF Right, SetRecords
<1> HIDE DEF old
<1>4. Right(old)
  BY <1>2, <1>3 DEF Right, Accounted, Justified, Nested, Blank, Absent
<1>5. Right(ended) /\ ended.generation = old.generation /\ SamePresence(old.members, ended.members)
  BY <1>4, ConsequencesRight
<1> HIDE DEF ended
<1>6. AboutToCommit(ended) /\ GenerationRoom(ended)
  BY <1>1, <1>2, <1>3, <1>5, RightIsAboutToCommit DEF Frame, GenerationRoom
<1>7. /\ Right(q)
      /\ \A p \in Paths : Present(q.members[p]) <=>
                             Present(ended.members[p]) /\ p \notin Pruned(ended.members)
  BY <1>5, <1>6, CommitRight DEF Right
<1> HIDE DEF q
<1>8. /\ named \in SetRecords /\ named.members = sets[successor].members
      /\ named.conditional = sets[successor].conditional
      /\ named.generation = sets[successor].generation
      /\ named.membership_generation = sets[successor].membership_generation
      /\ named.lifecycle = sets[successor].lifecycle /\ named.usable = sets[successor].usable
      /\ named.minimum = sets[successor].minimum
      /\ named.admin_enabled = sets[successor].admin_enabled
  BY SMTT(30) DEF Inv, SetsInv, SetRecords
<1>9. \A x \in SetIds : sets'[x] = IF x = s THEN q ELSE IF x = successor THEN named ELSE sets[x]
  BY <1>1 DEF Inv, SetsInv
<1> HIDE DEF named
<1>10. Right(sets[successor])
  BY DEF Inv, SetsInv
<1>11. Right(named)
  BY <1>8, <1>10 DEF Right, Accounted, Justified, Nested, Blank, Absent
<1>12. \A x \in SetIds : Right(sets'[x])
  BY <1>7, <1>9, <1>11 DEF Inv, SetsInv
<1>13. SetsInv'
  <2>1. DOMAIN sets' = SetIds /\ sets' = [x \in SetIds |-> sets'[x]]
    BY <1>1 DEF Inv, SetsInv
  <2> QED
    BY <1>12, <2>1 DEF SetsInv, Right
<1>14. Cardinality(gone) \in Nat
  BY GoneType, {} \cup gone = gone
<1>15. total_members' \in Nat /\ path_dependents' \in [Paths -> SUBSET SetIds]
  BY <1>1, <1>14, LowerType DEF Inv, IndexInv
<1>16. ASSUME NEW x \in SetIds, NEW p \in Paths
       PROVE  x \in path_dependents'[p] <=> Present(sets'[x].members[p])
  <2>1. x \in path_dependents[p] <=> Present(sets[x].members[p])
    BY DEF Inv, IndexInv, PathIndexConsistent
  <2>2. path_dependents'[p] = IF p \in gone THEN path_dependents[p] \ {s} ELSE path_dependents[p]
    BY <1>1
  <2>3. Present(ended.members[p]) <=> Present(sets[s].members[p])
    BY <1>2, <1>3, <1>5 DEF Frame, SamePresence
  <2> QED
    BY <1>7, <1>8, <1>9, <2>1, <2>2, <2>3
<1>17. Counted'
  <2>1. gone \in SUBSET Paths /\ \A p \in gone : s \in path_dependents[p]
    BY <1>2, <1>3, <1>5, PrunedArePresent DEF Inv, IndexInv, PathIndexConsistent,
                                              SamePresence, Frame
  <2>2. \A p \in Paths : s \in path_dependents'[p] <=> p \notin gone /\ s \in path_dependents[p]
    BY <1>1 DEF Inv, IndexInv
  <2>3. \A p \in Paths, x \in SetIds \ {s} : x \in path_dependents'[p] <=> x \in path_dependents[p]
    BY <1>1
  <2>4. Counted /\ total_members \in Nat /\ total_members' = Lower(total_members, Cardinality(gone))
    BY <1>1 DEF Inv, IndexInv
  <2> HIDE DEF gone
  <2> QED
    BY <2>1, <2>2, <2>3, <2>4, CountFalls
<1>18. IndexInv'
  BY <1>15, <1>16, <1>17 DEF IndexInv, PathIndexConsistent
<1> QED
  BY <1>1, <1>13, <1>18, QuietRest DEF Inv

LEMMA RemoveMemberStep ==
    ASSUME Inv, NEW w \in Workers, NEW s \in SetIds, NEW p \in Paths, RemoveMember(w, s, p)
    PROVE  Inv'
<1> DEFINE r == ApplyTransition(sets[s], "MEMBER_REMOVED")
           ms == [r.members EXCEPT ![p] = NoMember]
           q == Recompute([r EXCEPT !.members = ms])
           joined == {}
           left == {p}
           gained == 0
<1>1. /\ CommitSet(s, q, w, TRUE, joined, gained, left) /\ Quiet
      /\ GenerationRoom(sets[s]) /\ MembershipRoom(sets[s])
      /\ sets[s].lifecycle # "NONE"
  BY DEF RemoveMember, Mutates, Exists
<1>2. Right(r) /\ Frame(sets[s], r)
  BY TransitionRight DEF Inv, SetsInv
<1> HIDE DEF r
<1>3. /\ ms \in [Paths -> Members]
      /\ \A x \in Paths : ms[x] = IF x = p THEN NoMember ELSE r.members[x]
  BY <1>2, NoMemberFacts DEF Right, SetRecords
<1>4. \A x \in Paths : Evidenced(ms[x], r.conditional)
  BY <1>2, <1>3, NoMemberFacts DEF Right, Justified, Evidenced
<1> HIDE DEF ms
<1>5. /\ q \in SetRecords /\ Accounted(q) /\ Justified(q) /\ q.members = ms /\ (Absent(q) <=> Absent(r))
      /\ q.generation = r.generation /\ q.membership_generation = r.membership_generation
  BY <1>2, <1>3, <1>4, RecomputeWith DEF Right
<1> HIDE DEF q
<1>6. Blank(q)
  BY <1>1, <1>2, <1>5 DEF Frame, Blank, Absent
<1>7. GenerationRoom(q) /\ MembershipRoom(q)
  BY <1>1, <1>2, <1>5 DEF Frame, GenerationRoom, MembershipRoom
<1>8. AboutToCommit(q)
  BY <1>2, <1>3, <1>5, RightIsAboutToCommit, NoMemberFacts
     DEF AboutToCommit, Right, SetRecords, Generations
<1>9. \A x \in Paths : Present(q.members[x]) <=>
                          x \notin left /\ (x \in joined \/ Present(sets[s].members[x]))
  BY <1>2, <1>3, <1>5, NoMemberFacts DEF Frame
<1>10. /\ joined \in SUBSET Paths /\ left \in SUBSET Paths /\ gained \in Nat
       /\ Afforded(s, joined, gained) /\ \A x \in left : Present(sets[s].members[x])
  BY NothingAfforded DEF Inv, RemoveMember
<1> HIDE DEF joined, left, gained
<1>11. SetsInv' /\ IndexInv'
  BY <1>1, <1>5, <1>6, <1>7, <1>8, <1>9, <1>10, CommitSetStep DEF Inv
<1> QED
  BY <1>1, <1>11, QuietRest DEF Inv

LEMMA WithdrawMemberStep ==
    ASSUME Inv, NEW w \in Workers, NEW s \in SetIds, NEW p \in Paths, WithdrawMember(w, s, p)
    PROVE  Inv'
<1> DEFINE r == ApplyTransition(sets[s], "MEMBER_REMOVED")
           m == sets[s].members[p]
           n == Closed(m, "WITHDRAWN")
           ms == [r.members EXCEPT ![p] = n]
           q == Recompute([r EXCEPT !.members = ms])
           joined == {}
           left == {}
           gained == 0
<1>1. /\ CommitSet(s, q, w, TRUE, joined, gained, left) /\ Quiet
      /\ GenerationRoom(sets[s]) /\ MembershipRoom(sets[s])
      /\ sets[s].lifecycle # "NONE" /\ Live(m) /\ m.generation < MaxGeneration
  BY DEF WithdrawMember, Mutates, Exists
<1>2. Right(r) /\ Frame(sets[s], r) /\ Right(sets[s])
  BY TransitionRight DEF Inv, SetsInv
<1> HIDE DEF r
<1>3. /\ m \in Members /\ m.generation \in Nat
      /\ r.generation \in Nat /\ m.generation <= r.generation
  BY <1>2 DEF Right, Nested, Frame, SetRecords, Members, Generations
<1>4. Present(m)
  BY <1>1 DEF Live, LiveMember, Present
<1> HIDE DEF m
<1>5. n \in Members /\ n.generation = m.generation + 1 /\ Present(n) /\ ~Usable(n)
  BY <1>1, <1>3, ClosedFacts DEF TerminalMember
<1> HIDE DEF n
<1>6. /\ ms \in [Paths -> Members]
      /\ \A x \in Paths : ms[x] = IF x = p THEN n ELSE r.members[x]
  BY <1>2, <1>5 DEF Right, SetRecords
<1>7. \A x \in Paths : Evidenced(ms[x], r.conditional)
  BY <1>2, <1>5, <1>6 DEF Right, Justified, Evidenced
<1> HIDE DEF ms
<1>8. /\ q \in SetRecords /\ Accounted(q) /\ Justified(q) /\ q.members = ms /\ (Absent(q) <=> Absent(r))
      /\ q.generation = r.generation /\ q.membership_generation = r.membership_generation
  BY <1>2, <1>6, <1>7, RecomputeWith DEF Right
<1> HIDE DEF q
<1>9. Blank(q) /\ GenerationRoom(q) /\ MembershipRoom(q)
  BY <1>1, <1>2, <1>8 DEF Frame, Blank, Absent, GenerationRoom, MembershipRoom
<1>10. AboutToCommit(q)
  BY <1>2, <1>3, <1>5, <1>6, <1>8, RightIsAboutToCommit DEF AboutToCommit
<1>11. \A x \in Paths : Present(q.members[x]) <=>
                           x \notin left /\ (x \in joined \/ Present(sets[s].members[x]))
  BY <1>2, <1>4, <1>5, <1>6, <1>8 DEF Frame, m
<1>12. /\ joined \in SUBSET Paths /\ left \in SUBSET Paths /\ gained \in Nat
       /\ Afforded(s, joined, gained) /\ \A x \in left : Present(sets[s].members[x])
  BY NothingAfforded DEF Inv
<1> HIDE DEF joined, left, gained
<1>13. SetsInv' /\ IndexInv'
  BY <1>1, <1>8, <1>9, <1>10, <1>11, <1>12, CommitSetStep DEF Inv
<1> QED
  BY <1>1, <1>13, QuietRest DEF Inv

\* The pending count of one member changes and nothing else.
LEMMA PendingRight ==
    ASSUME NEW r, Right(r), NEW p \in Paths, NEW k \in Nat
    PROVE  LET q == [r EXCEPT !.members[p].pending = k]
           IN  Right(q) /\ SamePresence(r.members, q.members)
<1> DEFINE m == r.members[p]
           n == [m EXCEPT !.pending = k]
           ms == [r.members EXCEPT ![p] = n]
           q == [r EXCEPT !.members = ms]
<1>1. r \in SetRecords /\ r.members \in [Paths -> Members] /\ m \in Members
  BY DEF Right, SetRecords
<1>2. /\ n \in Members /\ n.lifecycle = m.lifecycle /\ n.currentness = m.currentness
      /\ n.generation = m.generation /\ n.bound = m.bound /\ n.observed = m.observed
      /\ n.admin_enabled = m.admin_enabled
  BY <1>1 DEF Members
<1> HIDE DEF m, n
<1>3. /\ ms \in [Paths -> Members]
      /\ \A x \in Paths : ms[x] = IF x = p THEN n ELSE r.members[x]
  BY <1>1, <1>2
<1> HIDE DEF ms
<1>4. \A x \in Paths : /\ ms[x].lifecycle = r.members[x].lifecycle
                       /\ ms[x].currentness = r.members[x].currentness
                       /\ ms[x].generation = r.members[x].generation
                       /\ ms[x].bound = r.members[x].bound
                       /\ ms[x].observed = r.members[x].observed
                       /\ ms[x].admin_enabled = r.members[x].admin_enabled
  BY <1>2, <1>3 DEF m
<1>5. UsableCount(ms) = UsableCount(r.members)
  BY <1>4, SameUsable DEF Usable
<1>6. /\ q \in SetRecords
      /\ q.members = ms /\ q.conditional = r.conditional
      /\ q.generation = r.generation
      /\ q.membership_generation = r.membership_generation
      /\ q.lifecycle = r.lifecycle /\ q.minimum = r.minimum
      /\ q.admin_enabled = r.admin_enabled /\ q.usable = r.usable
  BY <1>1, <1>3, WithMembers
<1> HIDE DEF q
<1>7. Accounted(q)
  BY <1>5, <1>6 DEF Right, Accounted
<1>8. Justified(q) /\ Nested(q) /\ Blank(q)
  BY <1>4, <1>6 DEF Right, Justified, Nested, Blank, Absent, Usable, Present
<1>9. SamePresence(r.members, q.members)
  BY <1>4, <1>6 DEF SamePresence, Present
<1>10. q = [r EXCEPT !.members[p].pending = k]
  BY <1>1 DEF q, ms, n, m
<1> QED
  BY <1>6, <1>7, <1>8, <1>9, <1>10 DEF Right

LEMMA BeginMemberRevalidationStep ==
    ASSUME Inv, NEW w \in Workers, NEW s \in SetIds, NEW p \in Paths,
           BeginMemberRevalidation(w, s, p)
    PROVE  Inv'
<1> DEFINE m == sets[s].members[p]
           q == [sets[s] EXCEPT !.members[p].pending = m.pending + 1]
           k == [set |-> s, set_watermark |-> sets[s].watermark, epoch |-> epoch, member |-> m]
<1>1. /\ Store(s, q) /\ tickets' = Append(tickets, k)
      /\ UNCHANGED <<next_id, directory, calls, authority_vars>>
  BY DEF BeginMemberRevalidation
<1>2. Right(sets[s]) /\ m \in Members /\ sets[s].watermark \in Nat /\ epoch \in Nat
  BY DEF Inv, SetsInv, RestInv, Right, SetRecords
<1>3. m.pending + 1 \in Nat /\ k \in Tickets
  BY <1>2 DEF Members, Tickets
<1>4. Right(q) /\ SamePresence(sets[s].members, q.members)
  BY <1>2, <1>3, PendingRight
<1> HIDE DEF m, q, k
<1>5. SetsInv' /\ IndexInv'
  BY <1>1, <1>4, RightStore
<1>6. RestInv'
  BY <1>1, <1>3 DEF Inv, RestInv, authority_vars
<1> QED
  BY <1>5, <1>6 DEF Inv

\* Releasing one pending revalidation of a member that has one.
LEMMA Released ==
    ASSUME Inv, NEW s \in SetIds, NEW p \in Paths, sets[s].members[p].pending > 0,
           Store(s, [sets[s] EXCEPT !.members[p].pending = @ - 1])
    PROVE  SetsInv' /\ IndexInv'
<1> DEFINE k == sets[s].members[p].pending - 1
           q == [sets[s] EXCEPT !.members[p].pending = k]
<1>1. Right(sets[s]) /\ k \in Nat
  BY DEF Inv, SetsInv, Right, SetRecords, Members
<1>2. Right(q) /\ SamePresence(sets[s].members, q.members)
  BY <1>1, PendingRight
<1>3. Store(s, q)
  OBVIOUS
<1> HIDE DEF q
<1> QED
  BY <1>2, <1>3, RightStore

LEMMA AbandonStep ==
    ASSUME Inv, NEW k \in 1 .. Len(tickets), AbandonMemberRevalidation(k)
    PROVE  Inv'
<1> DEFINE s == tickets[k].set
           id == tickets[k].member.id
           p == Slot(sets[s].members, id)
<1>1. tickets[k] \in Tickets
  BY DEF Inv, RestInv
<1>2. s \in SetIds
  BY <1>1 DEF Tickets
<1>3. /\ Holds(sets[s].members, id) /\ sets[s].members[p].pending > 0
      /\ Store(s, [sets[s] EXCEPT !.members[p].pending = @ - 1]) /\ Quiet
  BY DEF AbandonMemberRevalidation
<1>4. p \in Paths
  BY <1>3, SlotFacts
<1> HIDE DEF s, id, p
<1>5. SetsInv' /\ IndexInv'
  BY <1>2, <1>3, <1>4, Released
<1> QED
  BY <1>3, <1>5, QuietRest DEF Inv

LEMMA ReportsAreViews == Reports \subseteq Views
BY LimitsAssumption DEF Reports, Views

\* declare_path_authority(), apply_path_authority() and a silent change of the
\* external source.
LEMMA ViewStepInv ==
    ASSUME Inv, ViewStep
    PROVE  Inv'
<1>1. ASSUME NEW w \in Callers, NEW p \in Paths, NEW view \in Reports, DeclarePathAuthority(w, p, view)
      PROVE  Inv'
  <2>1. /\ directory' = [directory EXCEPT ![p] = view] /\ ApplyToDependents(p, view)
        /\ UNCHANGED <<next_id, tickets, calls, authority_vars>>
    BY <1>1 DEF DeclarePathAuthority
  <2>2. view \in Views
    BY ReportsAreViews
  <2>3. SetsInv' /\ IndexInv'
    BY <2>1, <2>2, ApplyToDependentsStep DEF Inv
  <2>4. RestInv'
    BY <2>1, <2>2 DEF Inv, RestInv, authority_vars
  <2> QED
    BY <2>3, <2>4 DEF Inv
<1>2. ASSUME NEW w \in Callers, NEW p \in Paths, NEW view \in Reports, ApplyPathAuthority(w, p, view)
      PROVE  Inv'
  <2>1. ApplyToDependents(p, view) /\ Quiet
    BY <1>2 DEF ApplyPathAuthority
  <2>2. SetsInv' /\ IndexInv'
    BY <2>1, ReportsAreViews, ApplyToDependentsStep DEF Inv
  <2> QED
    BY <2>1, <2>2, QuietRest DEF Inv
<1>3. ASSUME NEW p \in Paths, NEW view \in Reports \cup {NoView}, ExternalChange(p, view)
      PROVE  Inv'
  <2>1. view \in Views
    BY ReportsAreViews DEF Views, NoView
  <2>2. /\ directory' = [directory EXCEPT ![p] = view]
        /\ UNCHANGED <<engine_vars, calls, authority_vars>>
    BY <1>3 DEF ExternalChange
  <2>3. SetsInv' /\ IndexInv'
    BY <2>2, CountStays DEF Inv, SetsInv, IndexInv, PathIndexConsistent, engine_vars
  <2>4. RestInv'
    BY <2>1, <2>2 DEF Inv, RestInv, engine_vars, authority_vars
  <2> QED
    BY <2>3, <2>4 DEF Inv
<1> QED
  BY <1>1, <1>2, <1>3, AbandonStep DEF ViewStep
-----------------------------------------------------------------------------
\* Worker authority.

LEMMA UncurrentStep ==
    ASSUME Inv, NEW lost, NEW e \in Nat, Uncurrent(lost, e)
    PROVE  SetsInv' /\ IndexInv'
<1> DEFINE Stale(r) == [BumpAll(r) EXCEPT !.currentness = "REVALIDATION_REQUIRED",
                                          !.governing_epoch = e]
<1>1. /\ sets' = [s \in SetIds |-> IF s \in lost THEN Stale(sets[s]) ELSE sets[s]]
      /\ UNCHANGED <<total_members, path_dependents>>
  BY DEF Uncurrent
<1>2. ASSUME NEW r, Right(r)
      PROVE  Right(Stale(r)) /\ SamePresence(r.members, Stale(r).members)
  <2> DEFINE b == BumpAll(r)
             q == [b EXCEPT !.currentness = "REVALIDATION_REQUIRED", !.governing_epoch = e]
  <2>1. /\ b \in SetRecords
        /\ b.members = BumpMembers(r.members) /\ b.conditional = r.conditional
        /\ b.generation = r.generation /\ b.membership_generation = r.membership_generation
        /\ b.lifecycle = r.lifecycle /\ b.minimum = r.minimum
        /\ b.admin_enabled = r.admin_enabled /\ b.usable = r.usable
        /\ SamePresence(r.members, b.members)
        /\ UsableCount(b.members) = UsableCount(r.members)
        /\ Justified(b) /\ Nested(b)
    BY <1>2, BumpAllFacts DEF Right
  <2> HIDE DEF b
  <2>2. /\ q \in SetRecords /\ q.members = b.members /\ q.conditional = b.conditional
        /\ q.generation = b.generation /\ q.membership_generation = b.membership_generation
        /\ q.lifecycle = b.lifecycle /\ q.minimum = b.minimum
        /\ q.admin_enabled = b.admin_enabled /\ q.usable = b.usable
    BY <2>1 DEF SetRecords
  <2> HIDE DEF q
  <2>3. Accounted(q)
    BY <1>2, <2>1, <2>2 DEF Right, Accounted
  <2>4. Justified(q) /\ Nested(q)
    BY <2>1, <2>2 DEF Justified, Nested
  <2>5. Blank(q)
    BY <1>2, <2>1, <2>2 DEF Right, Blank, Absent, SamePresence
  <2> QED
    BY <2>1, <2>2, <2>3, <2>4, <2>5 DEF Right, q, b
<1> HIDE DEF Stale
<1>3. \A s \in SetIds : Right(sets[s])
  BY DEF Inv, SetsInv
<1>4. \A s \in SetIds : /\ Right(sets'[s])
                        /\ SamePresence(sets[s].members, sets'[s].members)
  BY <1>1, <1>2, <1>3 DEF SamePresence
<1>5. SetsInv'
  BY <1>1, <1>4 DEF SetsInv, Right
<1> QED
  BY <1>1, <1>4, <1>5, CountStays DEF Inv, IndexInv, PathIndexConsistent, SamePresence

LEMMA AuthorityStepInv ==
    ASSUME Inv, AuthorityStep
    PROVE  Inv'
<1>1. ASSUME NEW w \in Workers, NEW scope \in Scopes, NEW session \in Sessions,
             RegisterPublisher(w, scope, session)
      PROVE  Inv'
  BY <1>1, CountStays DEF RegisterPublisher, Authority!RegisterPublisher, Inv, SetsInv, IndexInv, RestInv,
              PathIndexConsistent, engine_vars
<1>2. ASSUME NEW w \in Workers, UnregisterPublisher(w)
      PROVE  Inv'
  BY <1>2, CountStays DEF UnregisterPublisher, Authority!UnregisterPublisher, Inv, SetsInv, IndexInv, RestInv,
              PathIndexConsistent, engine_vars
<1>3. ASSUME NEW w \in Workers, FenceWorker(w)
      PROVE  Inv'
  <2> DEFINE lost == {s \in SetIds : Exists(s) /\ sets[s].worker[1] = w[1]}
  <2>1. Uncurrent(lost, epoch) /\ epoch' = epoch
    BY <1>3 DEF FenceWorker, Authority!FenceWorker
  <2> HIDE DEF lost
  <2>2. SetsInv' /\ IndexInv'
    BY <2>1, UncurrentStep DEF Inv, RestInv
  <2>3. RestInv'
    BY <2>1 DEF Uncurrent, Inv, RestInv
  <2> QED
    BY <2>2, <2>3 DEF Inv
<1>4. ASSUME NEW w \in Workers, NEW session \in Sessions, AdvanceEpoch(w, session)
      PROVE  Inv'
  <2> DEFINE lost == {s \in SetIds : Exists(s)}
             e == epoch + 1
  <2>1. Uncurrent(lost, e) /\ epoch' = e
    BY <1>4 DEF AdvanceEpoch, Authority!AdvanceEpoch
  <2>2. e \in Nat
    BY DEF Inv, RestInv
  <2> HIDE DEF lost, e
  <2>3. SetsInv' /\ IndexInv'
    BY <2>1, <2>2, UncurrentStep
  <2>4. RestInv'
    BY <2>1, <2>2 DEF Uncurrent, Inv, RestInv
  <2> QED
    BY <2>3, <2>4 DEF Inv
<1> QED
  BY <1>1, <1>2, <1>3, <1>4 DEF AuthorityStep
-----------------------------------------------------------------------------
\* Calls in flight.

\* One call changes and the set records and the index do not.
LEMMA CallOnly ==
    ASSUME Inv, NEW t \in Threads, NEW c, c \in CallRecords, WellFormed(c),
           calls' = [calls EXCEPT ![t] = c], UNCHANGED <<engine_vars, directory, authority_vars>>
    PROVE  Inv'
<1>1. SetsInv' /\ IndexInv'
  BY CountStays DEF Inv, SetsInv, IndexInv, PathIndexConsistent, engine_vars
<1>2. calls' \in [Threads -> CallRecords] /\ \A u \in Threads : WellFormed(calls'[u])
  BY DEF Inv, RestInv
<1>3. RestInv'
  BY <1>2 DEF Inv, RestInv, engine_vars, authority_vars
<1> QED
  BY <1>1, <1>3 DEF Inv

\* The rest of the state after a handler that ends its step with a well-formed
\* call and changes neither the directory nor the tickets nor the authority.
LEMMA CallRest ==
    ASSUME RestInv, NEW t \in Threads, NEW c, c \in CallRecords, WellFormed(c),
           calls' = [calls EXCEPT ![t] = c], next_id' \in Nat \ {0},
           UNCHANGED <<directory, tickets, authority_vars>>
    PROVE  RestInv'
<1>1. calls' \in [Threads -> CallRecords] /\ \A u \in Threads : WellFormed(calls'[u])
  BY DEF RestInv
<1> QED
  BY <1>1 DEF RestInv, authority_vars

LEMMA BeginStep ==
    ASSUME Inv, NEW t \in Threads, NEW w \in Workers, NEW scope \in SUBSET Paths, NEW c,
           c \in CallRecords, c.op \in {"replace_member", "refresh_path"} => scope # {},
           c.op \notin {"none", "refresh_path"} => c.set \in SetIds,
           Begin(t, w, scope, c)
    PROVE  Inv'
<1> DEFINE d == [c EXCEPT !.step = "lookup", !.worker = w, !.epoch = epoch,
                          !.scope = scope, !.todo = scope]
<1>1. calls' = [calls EXCEPT ![t] = d] /\ UNCHANGED <<engine_vars, directory, authority_vars>>
  BY DEF Begin
<1>2. epoch \in Nat
  BY DEF Inv, RestInv
<1>3. d \in CallRecords
  BY <1>2 DEF CallRecords
<1>4. d.op = c.op /\ d.set = c.set /\ d.scope = scope /\ d.step = "lookup"
  BY DEF CallRecords
<1> HIDE DEF d
<1>5. WellFormed(d)
  BY <1>4 DEF WellFormed
<1> QED
  BY <1>1, <1>3, <1>5, CallOnly

\* Every call starts well-formed.
LEMMA StartCallStep ==
    ASSUME Inv, NEW t \in Threads, NEW w \in Workers, StartCall(t, w)
    PROVE  Inv'
<1> USE IdleType
<1>1. ASSUME NEW s \in SetIds, NEW requests \in [Paths -> 0 .. MaxPathGeneration],
             StartAddMembers(t, w, s, requests)
      PROVE  Inv'
  <2> DEFINE c == [Idle EXCEPT !.op = "add_members", !.set = s, !.requests = requests]
             scope == Requested(requests)
  <2>1. Begin(t, w, scope, c) /\ scope \in SUBSET Paths
    BY <1>1 DEF StartAddMembers, Requested
  <2>2. requests \in [Paths -> Nat]
    BY LimitsAssumption
  <2>3. c \in CallRecords /\ c.op = "add_members" /\ c.set = s
    BY <2>2 DEF CallRecords, Operations
  <2> HIDE DEF c, scope
  <2> QED
    BY <2>1, <2>3, BeginStep
<1>2. ASSUME NEW s \in SetIds, NEW p \in Paths, NEW q \in Paths, NEW gen \in 1 .. MaxPathGeneration,
             StartReplaceMember(t, w, s, p, q, gen)
      PROVE  Inv'
  <2> DEFINE id == sets[s].members[p].id
             requests == [Idle.requests EXCEPT ![q] = gen]
             c == [Idle EXCEPT !.op = "replace_member", !.set = s, !.member = id,
                               !.requests = requests]
             scope == {q}
  <2>1. Begin(t, w, scope, c)
    BY <1>2 DEF StartReplaceMember
  <2>2. id \in Nat
    BY DEF Inv, SetsInv, SetRecords, Members
  <2>3. Idle.requests \in [Paths -> Nat] /\ gen \in Nat
    BY LimitsAssumption DEF CallRecords
  <2>4. requests \in [Paths -> Nat]
    BY <2>3
  <2>5. scope \in SUBSET Paths /\ scope # {}
    OBVIOUS
  <2> HIDE DEF id, requests, scope
  <2>6. c \in CallRecords /\ c.op = "replace_member" /\ c.set = s
    BY <2>2, <2>4 DEF CallRecords, Operations
  <2> HIDE DEF c
  <2> QED
    BY <2>1, <2>5, <2>6, BeginStep
<1>3. ASSUME NEW s \in SetIds, NEW p \in Paths, NEW c, c \in CallRecords,
             c.op \in {"set_member_admin_enabled", "revalidate_member"},
             StartOnMember(t, w, s, p, c)
      PROVE  Inv'
  <2> DEFINE id == sets[s].members[p].id
             d == [c EXCEPT !.set = s, !.member = id]
             scope == {p}
  <2>1. Begin(t, w, scope, d)
    BY <1>3 DEF StartOnMember
  <2>2. id \in Nat
    BY DEF Inv, SetsInv, SetRecords, Members
  <2>3. scope \in SUBSET Paths /\ scope # {}
    OBVIOUS
  <2> HIDE DEF id, scope
  <2>4. d \in CallRecords /\ d.op = c.op /\ d.set = s
    BY <1>3, <2>2 DEF CallRecords
  <2> HIDE DEF d
  <2> QED
    BY <1>3, <2>1, <2>3, <2>4, BeginStep
<1>4. ASSUME NEW s \in SetIds, NEW p \in Paths, NEW enabled \in BOOLEAN,
             StartSetMemberAdminEnabled(t, w, s, p, enabled)
      PROVE  Inv'
  <2> DEFINE c == [Idle EXCEPT !.op = "set_member_admin_enabled", !.enabled = enabled]
  <2>1. StartOnMember(t, w, s, p, c)
    BY <1>4 DEF StartSetMemberAdminEnabled
  <2>2. c \in CallRecords /\ c.op = "set_member_admin_enabled"
    BY DEF CallRecords, Operations
  <2> HIDE DEF c
  <2> QED
    BY <1>3, <2>1, <2>2
<1>5. ASSUME NEW s \in SetIds, NEW p \in Paths, StartRevalidateMember(t, w, s, p)
      PROVE  Inv'
  <2> DEFINE c == [Idle EXCEPT !.op = "revalidate_member"]
  <2>1. StartOnMember(t, w, s, p, c)
    BY <1>5 DEF StartRevalidateMember
  <2>2. c \in CallRecords /\ c.op = "revalidate_member"
    BY DEF CallRecords, Operations
  <2> HIDE DEF c
  <2> QED
    BY <1>3, <2>1, <2>2
<1>6. ASSUME NEW s \in SetIds, StartRevalidateSet(t, w, s)
      PROVE  Inv'
  <2> DEFINE c == [Idle EXCEPT !.op = "revalidate_set", !.set = s]
             scope == LivePaths(sets[s].members)
  <2>1. Begin(t, w, scope, c) /\ scope \in SUBSET Paths
    BY <1>6 DEF StartRevalidateSet, LivePaths
  <2>2. c \in CallRecords /\ c.op = "revalidate_set" /\ c.set = s
    BY DEF CallRecords, Operations
  <2> HIDE DEF c, scope
  <2> QED
    BY <2>1, <2>2, BeginStep
<1>7. ASSUME NEW k \in 1 .. Len(tickets), StartCompleteMemberRevalidation(t, w, k)
      PROVE  Inv'
  <2> DEFINE s == tickets[k].set
             id == tickets[k].member.id
             c == [Idle EXCEPT !.op = "complete_member_revalidation", !.set = s,
                               !.member = id, !.ticket = k]
             scope == {Slot(sets[s].members, id)}
  <2>1. Begin(t, w, scope, c) /\ Holds(sets[s].members, id)
    BY <1>7 DEF StartCompleteMemberRevalidation
  <2>2. tickets[k] \in Tickets /\ k \in Nat
    BY DEF Inv, RestInv
  <2>3. s \in SetIds /\ id \in Nat
    BY <2>2 DEF Tickets, Members
  <2>4. scope \in SUBSET Paths
    BY <2>1, SlotFacts
  <2> HIDE DEF s, id, scope
  <2>5. c \in CallRecords /\ c.op = "complete_member_revalidation" /\ c.set = s
    BY <2>2, <2>3 DEF CallRecords, Operations
  <2> HIDE DEF c
  <2> QED
    BY <2>1, <2>3, <2>4, <2>5, BeginStep
<1>8. ASSUME NEW p \in Paths, StartRefreshPath(t, w, p)
      PROVE  Inv'
  <2> DEFINE c == [Idle EXCEPT !.op = "refresh_path"]
             scope == {p}
  <2>1. Begin(t, w, scope, c)
    BY <1>8 DEF StartRefreshPath
  <2>2. c \in CallRecords /\ c.op = "refresh_path"
    BY DEF CallRecords, Operations
  <2>3. scope \in SUBSET Paths /\ scope # {}
    OBVIOUS
  <2> HIDE DEF c, scope
  <2> QED
    BY <2>1, <2>2, <2>3, BeginStep
<1> QED
  BY <1>1, <1>2, <1>4, <1>5, <1>6, <1>7, <1>8 DEF StartCall

LEMMA CallType ==
    ASSUME Inv, NEW t \in Threads
    PROVE  /\ calls[t] \in CallRecords /\ WellFormed(calls[t])
           /\ calls[t].scope \in SUBSET Paths /\ calls[t].worker \in Workers \cup {NoWorker}
           /\ calls[t].enabled \in BOOLEAN
           /\ \A p \in Paths : calls[t].views[p] \in Views /\ calls[t].requests[p] \in Nat
BY DEF Inv, RestInv, CallRecords

\* Cardinalities of sets of paths are numbers.
LEMMA PathCount ==
    ASSUME NEW S \in SUBSET Paths PROVE Cardinality(S) \in Nat
BY PathsAssumption, FS_Subset, FS_CardinalityType

\* The two ways a call goes on after its critical section.
LEMMA AfterCall ==
    ASSUME Inv, NEW t \in Threads, Return(t) \/ Reconcile(t), next_id' \in Nat \ {0},
           UNCHANGED <<directory, tickets, authority_vars>>
    PROVE  RestInv'
<1> DEFINE c == calls[t]
           d == [c EXCEPT !.step = "reconcile", !.todo = c.scope]
<1>1. c \in CallRecords /\ WellFormed(c)
  BY CallType
<1>2. RestInv
  BY DEF Inv
<1>3. d \in CallRecords
  BY <1>1 DEF CallRecords
<1>4. d.op = c.op /\ d.set = c.set /\ d.scope = c.scope /\ d.step = "reconcile"
  BY <1>1 DEF CallRecords
<1>5. WellFormed(d)
  BY <1>1, <1>4 DEF WellFormed
<1>6. calls' = [calls EXCEPT ![t] = Idle] \/ calls' = [calls EXCEPT ![t] = d]
  BY DEF Return, Reconcile
<1> HIDE DEF d
<1> QED
  BY <1>2, <1>3, <1>5, <1>6, IdleType, CallRest

LEMMA LookupStep ==
    ASSUME Inv, NEW t \in Threads, NEW p \in Paths, Lookup(t, p)
    PROVE  Inv'
<1> DEFINE c == calls[t]
           views == [c.views EXCEPT ![p] = directory[p]]
           todo == c.todo \ {p}
           d == [c EXCEPT !.views = views, !.todo = todo]
<1>1. c \in CallRecords /\ WellFormed(c) /\ directory[p] \in Views
  BY CallType DEF Inv, RestInv
<1>2. views \in [Paths -> Views] /\ todo \in SUBSET Paths
  BY <1>1 DEF CallRecords
<1>3. /\ calls' = [calls EXCEPT ![t].views[p] = directory[p], ![t].todo = @ \ {p}]
      /\ UNCHANGED <<engine_vars, directory, authority_vars>>
  BY DEF Lookup
<1>4. calls' = [calls EXCEPT ![t] = d]
  BY <1>1, <1>3 DEF Inv, RestInv, CallRecords
<1> HIDE DEF views, todo
<1>5. d \in CallRecords
  BY <1>1, <1>2 DEF CallRecords
<1>6. d.op = c.op /\ d.set = c.set /\ d.scope = c.scope /\ d.step = c.step /\ d.path = c.path
  BY <1>1 DEF CallRecords
<1>7. WellFormed(d)
  BY <1>1, <1>6 DEF WellFormed
<1> HIDE DEF d
<1> QED
  BY <1>3, <1>4, <1>5, <1>7, CallOnly

LEMMA ObserveStep ==
    ASSUME Inv, NEW t \in Threads, NEW p \in Paths, Observe(t, p)
    PROVE  Inv'
<1> DEFINE c == calls[t]
           left == c.todo \ {p}
           seen == directory[p]
           d == [c EXCEPT !.step = "apply", !.path = p, !.seen = seen, !.todo = left]
           e == [c EXCEPT !.todo = left]
<1>1. /\ c \in CallRecords /\ WellFormed(c) /\ seen \in Views /\ p \in Nat
      /\ left \in SUBSET Paths
  BY CallType, PathsAssumption DEF Inv, RestInv, CallRecords
<1>2. \/ calls' = [calls EXCEPT ![t] = d]
      \/ calls' = [calls EXCEPT ![t] = Idle]
      \/ calls' = [calls EXCEPT ![t] = e]
  BY DEF Observe
<1>3. UNCHANGED <<engine_vars, directory, authority_vars>>
  BY DEF Observe
<1> HIDE DEF left, seen
<1>4. d \in CallRecords /\ d.op = c.op /\ d.set = c.set /\ d.scope = c.scope /\ d.path = p
  BY <1>1 DEF CallRecords
<1>5. e \in CallRecords /\ e.op = c.op /\ e.set = c.set /\ e.scope = c.scope /\ e.path = c.path
      /\ e.step = c.step
  BY <1>1 DEF CallRecords
<1>6. WellFormed(d) /\ WellFormed(e)
  BY <1>1, <1>4, <1>5 DEF WellFormed
<1> HIDE DEF d, e
<1> QED
  BY <1>2, <1>3, <1>4, <1>5, <1>6, IdleType, CallOnly

LEMMA ApplyObservedStep ==
    ASSUME Inv, NEW t \in Threads, ApplyObserved(t)
    PROVE  Inv'
<1> DEFINE c == calls[t]
           d == [c EXCEPT !.step = "reconcile", !.path = 0, !.seen = NoView]
<1>1. c \in CallRecords /\ WellFormed(c) /\ NoView \in Views
  BY CallType DEF Views, NoView
<1>2. /\ c.step = "apply" /\ ApplyToDependents(c.path, c.seen)
      /\ UNCHANGED <<next_id, directory, tickets, authority_vars>>
  BY DEF ApplyObserved
<1>3. calls' = [calls EXCEPT ![t] = Idle] \/ calls' = [calls EXCEPT ![t] = d]
  BY DEF ApplyObserved
<1>4. c.path \in Paths /\ c.seen \in Views
  BY <1>1, <1>2 DEF WellFormed, CallRecords
<1>5. SetsInv' /\ IndexInv'
  BY <1>2, <1>4, ApplyToDependentsStep DEF Inv
<1>6. d \in CallRecords /\ d.op = c.op /\ d.set = c.set /\ d.scope = c.scope /\ d.step = "reconcile"
  BY <1>1 DEF CallRecords
<1>7. WellFormed(d)
  BY <1>1, <1>6 DEF WellFormed
<1> HIDE DEF d
<1>8. RestInv /\ next_id' \in Nat \ {0}
  BY <1>2 DEF Inv, RestInv
<1>9. RestInv'
  BY <1>2, <1>3, <1>6, <1>7, <1>8, IdleType, CallRest
<1> QED
  BY <1>5, <1>9 DEF Inv

LEMMA RefuseStep ==
    ASSUME Inv, NEW t \in Threads, Refuse(t)
    PROVE  Inv'
BY IdleType, CallOnly DEF Refuse, Return

LEMMA RefreshPathStep ==
    ASSUME Inv, NEW t \in Threads, RefreshPath(t)
    PROVE  Inv'
<1> DEFINE c == calls[t]
           p == Successor(c)
<1>1. /\ c.op = "refresh_path" /\ ApplyToDependents(p, c.views[p]) /\ Return(t)
      /\ UNCHANGED <<next_id, directory, tickets, authority_vars>>
  BY DEF RefreshPath, Ready
<1>2. p \in Paths /\ c.views[p] \in Views
  BY <1>1, CallType DEF WellFormed, Successor
<1> HIDE DEF p
<1>3. SetsInv' /\ IndexInv'
  BY <1>1, <1>2, ApplyToDependentsStep DEF Inv
<1>4. RestInv'
  BY <1>1, AfterCall DEF Inv, RestInv
<1> QED
  BY <1>3, <1>4 DEF Inv

LEMMA RefuseCompletionStep ==
    ASSUME Inv, NEW t \in Threads, RefuseCompletion(t)
    PROVE  Inv'
<1> DEFINE c == calls[t]
           s == c.set
           p == Slot(sets[s].members, c.member)
<1>1. /\ c.op = "complete_member_revalidation" /\ Return(t)
      /\ Holds(sets[s].members, c.member) /\ sets[s].members[p].pending > 0
      /\ Store(s, [sets[s] EXCEPT !.members[p].pending = @ - 1])
      /\ UNCHANGED <<next_id, directory, tickets, authority_vars>>
  BY DEF RefuseCompletion, Ready, Answerable
<1>2. s \in SetIds
  BY <1>1, CallType DEF WellFormed
<1>3. p \in Paths
  BY <1>1, SlotFacts
<1>4. RestInv'
  BY <1>1, AfterCall DEF Inv, RestInv
<1> HIDE DEF s, p
<1>5. SetsInv' /\ IndexInv'
  BY <1>1, <1>2, <1>3, Released
<1> QED
  BY <1>4, <1>5 DEF Inv

\* add_members_internal(): every new relation was evaluated against the view the
\* call looked up, and the table grows by exactly the requested paths.
LEMMA AddMembersStep ==
    ASSUME Inv, NEW t \in Threads, AddMembers(t)
    PROVE  Inv'
<1> DEFINE c == calls[t]
           s == c.set
           r == ApplyTransition(sets[s], "MEMBER_ADDED")
           id(p) == next_id + Cardinality({q \in c.scope : q < p})
           ms == [p \in Paths |->
                    IF p \in c.scope
                    THEN NewMember(id(p), c.requests[p], c.views[p], r.conditional)
                    ELSE r.members[p]]
           q == Recompute([r EXCEPT !.members = ms])
           joined == c.scope
           left == {}
           gained == Cardinality(Fresh(c))
<1>1. /\ c.op = "add_members"
      /\ CommitSet(s, q, c.worker, TRUE, joined, gained, left)
      /\ next_id' = next_id + Cardinality(c.scope)
      /\ Reconcile(t) /\ UNCHANGED <<directory, tickets, authority_vars>>
  BY DEF AddMembers, Ready, Issue
<1>2. /\ sets[s].lifecycle # "NONE" /\ GenerationRoom(sets[s]) /\ MembershipRoom(sets[s])
  BY DEF AddMembers, AddAdmissible, Admitted, Exists
<1>3. /\ s \in SetIds /\ c.scope \in SUBSET Paths /\ c.worker \in Workers \cup {NoWorker}
      /\ \A p \in Paths : c.views[p] \in Views /\ c.requests[p] \in Nat
  BY <1>1, CallType DEF WellFormed
<1>4. next_id \in Nat \ {0}
  BY DEF Inv, RestInv
<1>5. gained \in Nat /\ Cardinality(c.scope) \in Nat
  <2>1. Fresh(c) \in SUBSET Paths
    BY <1>3 DEF Fresh
  <2> QED
    BY <1>3, <2>1, PathCount
<1>6. RestInv'
  BY <1>1, <1>4, <1>5, AfterCall
<1>7. Right(r) /\ Frame(sets[s], r)
  BY <1>3, TransitionRight DEF Inv, SetsInv
<1>8. \A p \in Paths : id(p) \in Nat
  <2>1. ASSUME NEW p \in Paths PROVE Cardinality({x \in c.scope : x < p}) \in Nat
    <3>1. {x \in c.scope : x < p} \in SUBSET Paths
      BY <1>3
    <3> QED
      BY <3>1, PathCount
  <2> QED
    BY <1>4, <2>1
<1> HIDE DEF r, id
<1>9. r.conditional \in BOOLEAN /\ \A p \in Paths : r.members[p] \in Members
  BY <1>7 DEF Right, SetRecords
<1>10. ASSUME NEW p \in Paths
       PROVE  LET n == NewMember(id(p), c.requests[p], c.views[p], r.conditional)
              IN  n \in Members /\ n.generation = 1 /\ Present(n) /\ Evidenced(n, r.conditional)
  BY <1>3, <1>8, <1>9, NewMemberFacts, NewMemberEvidenced
<1>11. ASSUME NEW p \in Paths
       PROVE  /\ ms[p] \in Members /\ Evidenced(ms[p], r.conditional)
              /\ p \in c.scope => Present(ms[p]) /\ ms[p].generation = 1
              /\ p \notin c.scope => ms[p] = r.members[p]
  BY <1>7, <1>9, <1>10 DEF Right, Justified, Evidenced
<1>12. ms \in [Paths -> Members]
  BY <1>11
<1> HIDE DEF ms
<1>13. /\ q \in SetRecords /\ Accounted(q) /\ Justified(q) /\ q.members = ms /\ (Absent(q) <=> Absent(r))
       /\ q.generation = r.generation /\ q.membership_generation = r.membership_generation
  BY <1>7, <1>11, <1>12, RecomputeWith DEF Right
<1> HIDE DEF q
<1>14. Blank(q) /\ GenerationRoom(q) /\ MembershipRoom(q)
  BY <1>2, <1>7, <1>13 DEF Frame, Blank, Absent, GenerationRoom, MembershipRoom
<1>15. AboutToCommit(q)
  <2>1. r.generation \in Nat /\ AboutToCommit(r)
    BY <1>7, RightIsAboutToCommit DEF Right, SetRecords, Generations
  <2> QED
    BY <1>11, <1>13, <2>1 DEF AboutToCommit
<1>16. \A p \in Paths : Present(q.members[p]) <=>
                           p \notin left /\ (p \in joined \/ Present(sets[s].members[p]))
  BY <1>7, <1>11, <1>13 DEF Frame
<1>17. /\ joined \in SUBSET Paths /\ left \in SUBSET Paths
       /\ Afforded(s, joined, gained) /\ \A p \in left : Present(sets[s].members[p])
  <2>1. Fresh(c) = {p \in joined : ~Present(sets[s].members[p])}
    BY DEF Fresh
  <2>2. total_members + gained <= MaxTotalMembers
    BY DEF AddMembers, AddAdmissible
  <2>3. Cardinality({p \in joined : ~Present(sets[s].members[p])}) <= gained
    BY <1>5, <2>1
  <2> QED
    BY <1>3, <2>2, <2>3 DEF Afforded
<1> HIDE DEF joined, left, gained, s
<1>18. SetsInv' /\ IndexInv'
  BY <1>1, <1>3, <1>5, <1>13, <1>14, <1>15, <1>16, <1>17, CommitSetStep DEF Inv
<1> QED
  BY <1>6, <1>18 DEF Inv

\* replace_member(): one relation is closed and one joins.
LEMMA ReplaceMemberStep ==
    ASSUME Inv, NEW t \in Threads, ReplaceMember(t)
    PROVE  Inv'
<1> DEFINE c == calls[t]
           s == c.set
           y == Successor(c)
           p == Slot(sets[s].members, c.member)
           r == ApplyTransition(sets[s], "MEMBER_REPLACED")
           m == sets[s].members[p]
           o == Closed(m, "SUPERSEDED")
           n == NewMember(next_id, c.requests[y], c.views[y], r.conditional)
           ms == [r.members EXCEPT ![p] = o, ![y] = n]
           q == Recompute([r EXCEPT !.members = ms])
           joined == {y}
           left == {}
           gained == 1
<1>1. /\ c.op = "replace_member"
      /\ CommitSet(s, q, c.worker, TRUE, joined, gained, left)
      /\ next_id' = next_id + 1
      /\ Return(t) /\ UNCHANGED <<directory, tickets, authority_vars>>
  BY DEF ReplaceMember, Ready, Issue
<1>2. /\ sets[s].lifecycle # "NONE" /\ GenerationRoom(sets[s]) /\ MembershipRoom(sets[s])
      /\ Holds(sets[s].members, c.member) /\ m.generation < MaxGeneration
  BY DEF ReplaceMember, ReplaceAdmissible, Admitted, Exists
<1>3. /\ s \in SetIds /\ c.worker \in Workers \cup {NoWorker}
      /\ y \in Paths /\ c.views[y] \in Views /\ c.requests[y] \in Nat
  BY <1>1, CallType DEF WellFormed, Successor
<1>4. p \in Paths /\ Present(m)
  BY <1>2, SlotFacts
<1>5. next_id \in Nat \ {0}
  BY DEF Inv, RestInv
<1>6. RestInv'
  BY <1>1, <1>5, AfterCall
<1>7. Right(r) /\ Frame(sets[s], r) /\ Right(sets[s])
  BY <1>3, TransitionRight DEF Inv, SetsInv
<1> HIDE DEF r
<1>8. /\ r.conditional \in BOOLEAN /\ r.members \in [Paths -> Members] /\ r.generation \in Nat
      /\ r.members = sets[s].members /\ m \in Members
  BY <1>4, <1>7, RightShape DEF Frame
<1>9. m.generation <= r.generation /\ m.generation \in Nat
  <2>1. \A x \in Paths : r.members[x].generation <= r.generation
    BY <1>7 DEF Right, Nested
  <2>2. m.generation \in Nat
    BY <1>8, MemberNumbers
  <2>3. m = r.members[p]
    BY <1>8
  <2> QED
    BY <1>4, <2>1, <2>2, <2>3
<1> HIDE DEF m, y, p
<1>10. o \in Members /\ o.generation = m.generation + 1 /\ Present(o) /\ ~Usable(o)
  BY <1>2, <1>8, ClosedFacts DEF TerminalMember
<1>11. n \in Members /\ n.generation = 1 /\ Present(n) /\ Evidenced(n, r.conditional)
  <2>1. next_id \in Nat /\ c.requests[y] \in Nat /\ c.views[y] \in Views /\ r.conditional \in BOOLEAN
    BY <1>3, <1>5, <1>8
  <2>2. n \in Members /\ n.generation = 1 /\ Present(n)
    BY <2>1, NewMemberFacts
  <2>3. Evidenced(n, r.conditional)
    BY <2>1, NewMemberEvidenced
  <2> QED BY <2>2, <2>3
<1> HIDE DEF o, n
<1>12. /\ ms \in [Paths -> Members]
       /\ \A x \in Paths : ms[x] = IF x = y THEN n ELSE IF x = p THEN o ELSE r.members[x]
  BY <1>3, <1>4, <1>8, <1>10, <1>11
<1>13. \A x \in Paths : Evidenced(ms[x], r.conditional)
  BY <1>7, <1>10, <1>11, <1>12 DEF Right, Justified, Evidenced
<1> HIDE DEF ms
<1>14. /\ q \in SetRecords /\ Accounted(q) /\ Justified(q) /\ q.members = ms /\ (Absent(q) <=> Absent(r))
       /\ q.generation = r.generation /\ q.membership_generation = r.membership_generation
  BY <1>7, <1>12, <1>13, RecomputeWith DEF Right
<1> HIDE DEF q
<1>15. Blank(q) /\ GenerationRoom(q) /\ MembershipRoom(q)
  BY <1>2, <1>7, <1>14 DEF Frame, Blank, Absent, GenerationRoom, MembershipRoom
<1>16. AboutToCommit(q)
  <2>1. AboutToCommit(r)
    BY <1>7, RightIsAboutToCommit
  <2> QED
    BY <1>8, <1>9, <1>10, <1>11, <1>12, <1>14, <2>1 DEF AboutToCommit
<1>17. \A x \in Paths : Present(q.members[x]) <=>
                           x \notin left /\ (x \in joined \/ Present(sets[s].members[x]))
  BY <1>4, <1>8, <1>10, <1>11, <1>12, <1>14 DEF m
<1>18. /\ joined \in SUBSET Paths /\ left \in SUBSET Paths /\ gained \in Nat
       /\ Afforded(s, joined, gained) /\ \A x \in left : Present(sets[s].members[x])
  <2>1. {x \in joined : ~Present(sets[s].members[x])} \in SUBSET {y}
    OBVIOUS
  <2>2. Cardinality({x \in joined : ~Present(sets[s].members[x])}) <= 1
    <3>1. IsFiniteSet({y}) /\ Cardinality({y}) = 1
      BY FS_Singleton
    <3> QED BY ONLY <2>1, <3>1, FS_Subset
  <2>3. total_members + gained <= MaxTotalMembers
    <3>1. total_members < MaxTotalMembers
      BY DEF ReplaceMember, ReplaceAdmissible
    <3>2. total_members \in Nat /\ MaxTotalMembers \in Nat
      BY LimitsAssumption DEF Inv, IndexInv
    <3> QED BY <3>1, <3>2
  <2> QED BY <1>3, <2>2, <2>3 DEF Afforded
<1> HIDE DEF joined, left, gained, s
<1>19. SetsInv' /\ IndexInv'
  BY <1>1, <1>3, <1>14, <1>15, <1>16, <1>17, <1>18, CommitSetStep DEF Inv
<1> QED
  BY <1>6, <1>19 DEF Inv

\* A handler that edits one member and commits in place: the new member may be
\* one version ahead.
LEMMA EditCommit ==
    ASSUME Inv, NEW s \in SetIds, NEW p \in Paths, NEW n \in Members,
           NEW w \in Workers \cup {NoWorker},
           Present(n) <=> Present(sets[s].members[p]), Evidenced(n, sets[s].conditional),
           n.generation <= sets[s].generation + 1,
           sets[s].lifecycle # "NONE", GenerationRoom(sets[s]),
           CommitInPlace(s, Recompute([sets[s] EXCEPT !.members[p] = n]), w)
    PROVE  SetsInv' /\ IndexInv'
<1> DEFINE r == sets[s]
           ms == [r.members EXCEPT ![p] = n]
           q == Recompute([r EXCEPT !.members = ms])
<1>1. Right(r) /\ r \in SetRecords /\ r.members \in [Paths -> Members] /\ r.generation \in Nat
  BY DEF Inv, SetsInv, Right, SetRecords, Generations
<1>2. CommitInPlace(s, q, w)
  OBVIOUS
<1>3. /\ ms \in [Paths -> Members]
      /\ \A x \in Paths : ms[x] = IF x = p THEN n ELSE r.members[x]
  BY <1>1
<1>4. \A x \in Paths : Evidenced(ms[x], r.conditional)
  BY <1>1, <1>3 DEF Right, Justified, Evidenced
<1> HIDE DEF ms
<1>5. /\ q \in SetRecords /\ Accounted(q) /\ Justified(q) /\ q.members = ms /\ (Absent(q) <=> Absent(r))
      /\ q.generation = r.generation /\ q.membership_generation = r.membership_generation
  BY <1>1, <1>3, <1>4, RecomputeWith
<1> HIDE DEF q
<1>6. Blank(q) /\ GenerationRoom(q)
  BY <1>5 DEF Blank, Absent, GenerationRoom
<1>7. AboutToCommit(q)
  <2>1. AboutToCommit(r)
    BY <1>1, RightIsAboutToCommit
  <2> QED
    BY <1>1, <1>3, <1>5, <2>1 DEF AboutToCommit
<1>8. SamePresence(sets[s].members, q.members)
  BY <1>3, <1>5 DEF SamePresence
<1> QED
  BY <1>2, <1>5, <1>6, <1>7, <1>8, CommitInPlaceStep DEF Inv

\* The same without a commit: the member keeps its version.
LEMMA EditStore ==
    ASSUME Inv, NEW s \in SetIds, NEW p \in Paths, NEW n \in Members,
           Present(n) <=> Present(sets[s].members[p]), Evidenced(n, sets[s].conditional),
           n.generation <= sets[s].generation, sets[s].lifecycle # "NONE",
           Store(s, Recompute([sets[s] EXCEPT !.members[p] = n]))
    PROVE  SetsInv' /\ IndexInv'
<1> DEFINE r == sets[s]
           ms == [r.members EXCEPT ![p] = n]
           q == Recompute([r EXCEPT !.members = ms])
<1>1. Right(r) /\ r \in SetRecords /\ r.members \in [Paths -> Members] /\ r.generation \in Nat
  BY DEF Inv, SetsInv, Right, SetRecords, Generations
<1>2. Store(s, q)
  OBVIOUS
<1>3. /\ ms \in [Paths -> Members]
      /\ \A x \in Paths : ms[x] = IF x = p THEN n ELSE r.members[x]
  BY <1>1
<1>4. \A x \in Paths : Evidenced(ms[x], r.conditional)
  BY <1>1, <1>3 DEF Right, Justified, Evidenced
<1> HIDE DEF ms
<1>5. /\ q \in SetRecords /\ Accounted(q) /\ Justified(q) /\ q.members = ms /\ (Absent(q) <=> Absent(r))
      /\ q.generation = r.generation /\ q.membership_generation = r.membership_generation
  BY <1>1, <1>3, <1>4, RecomputeWith
<1> HIDE DEF q
<1>6. Blank(q)
  BY <1>5 DEF Blank, Absent
<1>7. Nested(q)
  BY <1>1, <1>3, <1>5 DEF Nested, Right
<1>8. SamePresence(sets[s].members, q.members)
  BY <1>3, <1>5 DEF SamePresence
<1> QED
  BY <1>2, <1>5, <1>6, <1>7, <1>8, RightStore DEF Right

\* set_member_admin_enabled(): the member is switched, then evaluated.
LEMMA SetMemberAdminEnabledStep ==
    ASSUME Inv, NEW t \in Threads, SetMemberAdminEnabled(t)
    PROVE  Inv'
<1> DEFINE c == calls[t]
           s == c.set
           r == sets[s]
           p == Slot(r.members, c.member)
           o == r.members[p]
           g == o.generation + 1
           v == o.watermark + 1
           m == [o EXCEPT !.admin_enabled = c.enabled, !.generation = g, !.watermark = v]
           n == EvaluateMember(m, c.views[p], r.conditional, c.enabled)
<1>1. /\ c.op = "set_member_admin_enabled" /\ Return(t)
      /\ CommitInPlace(s, Recompute([r EXCEPT !.members[p] = n]), c.worker)
      /\ UNCHANGED <<next_id, directory, tickets, authority_vars>>
  BY DEF SetMemberAdminEnabled, Ready
<1>2. /\ r.lifecycle # "NONE" /\ GenerationRoom(r)
      /\ Holds(r.members, c.member) /\ o.generation < MaxGeneration
  BY DEF SetMemberAdminEnabled, AdminAdmissible, Admitted, Exists
<1>3. s \in SetIds /\ c.worker \in Workers \cup {NoWorker} /\ c.enabled \in BOOLEAN
  BY <1>1, CallType DEF WellFormed
<1>4. p \in Paths /\ Present(o)
  BY <1>2, SlotFacts
<1>5. c.views[p] \in Views
  BY <1>4, CallType
<1>6. Right(r) /\ r.conditional \in BOOLEAN /\ o \in Members /\ r.generation \in Nat
  BY <1>3, <1>4, RightShape DEF Inv, SetsInv
<1>7. o.generation <= r.generation
  BY <1>4, <1>6 DEF Right, Nested
<1>8. g \in Generations /\ v \in Nat /\ g <= r.generation + 1
  <2>1. o.generation \in Nat /\ o.watermark \in Nat
    BY <1>6, MemberNumbers
  <2> HIDE DEF o, r
  <2> QED
    BY <1>2, <1>6, <1>7, <2>1, CounterAssumption DEF Generations
<1>9. RestInv'
  BY <1>1, AfterCall DEF Inv, RestInv
<1> HIDE DEF g, v, o
<1>10. m \in Members /\ m.generation = g /\ m.lifecycle = o.lifecycle
  BY <1>3, <1>6, <1>8 DEF Members
<1> HIDE DEF m
<1>11. n \in Members /\ n.generation = g /\ (Present(n) <=> Present(m)) /\ Evidenced(n, r.conditional)
  BY <1>3, <1>5, <1>6, <1>10, EvaluateMemberFacts, EvaluateMemberEvidenced
<1> HIDE DEF n
<1>12. Present(n) <=> Present(r.members[p])
  BY <1>4, <1>10, <1>11 DEF Present, o
<1> HIDE DEF p, s
<1>13. SetsInv' /\ IndexInv'
  BY <1>1, <1>2, <1>3, <1>4, <1>8, <1>11, <1>12, EditCommit
<1> QED
  BY <1>9, <1>13 DEF Inv

\* revalidate_member().
LEMMA RevalidateMemberStep ==
    ASSUME Inv, NEW t \in Threads, RevalidateMember(t)
    PROVE  Inv'
<1> DEFINE c == calls[t]
           s == c.set
           r == sets[s]
           p == Slot(r.members, c.member)
           m == r.members[p]
           n == Revalidated(m, c.views[p], r.conditional)
           v == Versioned(m, n)
           q == Recompute([r EXCEPT !.members[p] = v])
<1>1. /\ c.op = "revalidate_member" /\ (Return(t) \/ Reconcile(t))
      /\ \/ Moved(m, n) /\ CommitInPlace(s, q, c.worker)
         \/ ~Moved(m, n) /\ Store(s, q)
      /\ UNCHANGED <<next_id, directory, tickets, authority_vars>>
  BY DEF RevalidateMember, Ready
<1>2. /\ r.lifecycle # "NONE" /\ GenerationRoom(r)
      /\ Holds(r.members, c.member) /\ m.generation < MaxGeneration
  BY DEF RevalidateMember, RevalidateMemberAdmissible, Admitted, Exists
<1>3. s \in SetIds /\ c.worker \in Workers \cup {NoWorker}
  BY <1>1, CallType DEF WellFormed
<1>4. p \in Paths /\ Present(m)
  BY <1>2, SlotFacts
<1>5. c.views[p] \in Views
  BY <1>4, CallType
<1>6. Right(r) /\ r.conditional \in BOOLEAN /\ m \in Members /\ r.generation \in Nat
  BY <1>3, <1>4, RightShape DEF Inv, SetsInv
<1>7. m.generation <= r.generation /\ m.generation \in Nat
  <2>1. m.generation <= r.generation
    BY <1>4, <1>6 DEF Right, Nested
  <2>2. m.generation \in Nat
    BY <1>6, MemberNumbers
  <2> QED
    BY <2>1, <2>2
<1>8. RestInv'
  BY <1>1, AfterCall DEF Inv, RestInv
<1> HIDE DEF m
<1>9. n \in Members /\ n.generation = m.generation /\ (Present(n) <=> Present(m))
      /\ Evidenced(n, r.conditional)
  BY <1>5, <1>6, RevalidatedFacts, RevalidatedEvidenced
<1> HIDE DEF n
<1>10. /\ v \in Members /\ v.generation <= m.generation + 1
       /\ ~Moved(m, n) => v.generation = m.generation
       /\ v.admin_enabled = n.admin_enabled /\ v.observed = n.observed /\ v.bound = n.bound
       /\ v.lifecycle = n.lifecycle /\ v.currentness = n.currentness
  BY <1>2, <1>6, <1>9, VersionedFacts
<1>11. Evidenced(v, r.conditional) /\ (Present(v) <=> Present(r.members[p]))
  BY <1>9, <1>10 DEF Evidenced, Usable, Present, m
<1>12. /\ v.generation <= r.generation + 1
       /\ ~Moved(m, n) => v.generation <= r.generation
  <2>1. v.generation \in Nat
    BY <1>10, MemberNumbers
  <2> QED
    BY <1>6, <1>7, <1>10, <2>1
<1> HIDE DEF v, p, s
<1>13. SetsInv' /\ IndexInv'
  BY <1>1, <1>2, <1>3, <1>4, <1>10, <1>11, <1>12, EditCommit, EditStore
<1> QED
  BY <1>8, <1>13 DEF Inv

\* complete_member_revalidation() of a current ticket: the same, with one
\* pending revalidation less.
LEMMA CompleteMemberRevalidationStep ==
    ASSUME Inv, NEW t \in Threads, CompleteMemberRevalidation(t)
    PROVE  Inv'
<1> DEFINE c == calls[t]
           s == c.set
           r == sets[s]
           p == Slot(r.members, c.member)
           m == r.members[p]
           n == Revalidated(m, c.views[p], r.conditional)
           v == Versioned(m, n)
           k == v.pending - 1
           x == [v EXCEPT !.pending = k]
           q == Recompute([r EXCEPT !.members[p] = x])
<1>1. /\ c.op = "complete_member_revalidation" /\ Return(t)
      /\ \/ Moved(m, n) /\ CommitInPlace(s, q, c.worker)
         \/ ~Moved(m, n) /\ Store(s, q)
      /\ UNCHANGED <<next_id, directory, tickets, authority_vars>>
  BY DEF CompleteMemberRevalidation, Ready
<1>2. /\ r.lifecycle # "NONE" /\ GenerationRoom(r) /\ m.pending > 0
      /\ Holds(r.members, c.member) /\ m.generation < MaxGeneration
  BY DEF CompleteMemberRevalidation, Answerable, TicketCurrent, Admitted, Exists
<1>3. s \in SetIds /\ c.worker \in Workers \cup {NoWorker}
  BY <1>1, CallType DEF WellFormed
<1>4. p \in Paths /\ Present(m)
  BY <1>2, SlotFacts
<1>5. c.views[p] \in Views
  BY <1>4, CallType
<1>6. Right(r) /\ r.conditional \in BOOLEAN /\ m \in Members /\ r.generation \in Nat
  BY <1>3, <1>4, RightShape DEF Inv, SetsInv
<1>7. m.generation <= r.generation /\ m.generation \in Nat
  <2>1. m.generation <= r.generation
    BY <1>4, <1>6 DEF Right, Nested
  <2>2. m.generation \in Nat
    BY <1>6, MemberNumbers
  <2> QED
    BY <2>1, <2>2
<1>8. RestInv'
  BY <1>1, AfterCall DEF Inv, RestInv
<1> HIDE DEF m
<1>9. n \in Members /\ n.generation = m.generation /\ (Present(n) <=> Present(m))
      /\ n.pending = m.pending /\ Evidenced(n, r.conditional)
  BY <1>5, <1>6, RevalidatedFacts, RevalidatedEvidenced
<1> HIDE DEF n
<1>10. /\ v \in Members /\ v.generation <= m.generation + 1
       /\ ~Moved(m, n) => v.generation = m.generation
       /\ v.pending = n.pending
       /\ v.admin_enabled = n.admin_enabled /\ v.observed = n.observed /\ v.bound = n.bound
       /\ v.lifecycle = n.lifecycle /\ v.currentness = n.currentness
  BY <1>2, <1>6, <1>9, VersionedFacts
<1> HIDE DEF v
<1>11. k \in Nat
  <2>1. v.pending \in Nat
    BY <1>10 DEF Members
  <2> QED
    BY <1>2, <1>9, <1>10, <2>1
<1> HIDE DEF k
<1>12. /\ x \in Members /\ x.generation = v.generation
       /\ x.admin_enabled = v.admin_enabled /\ x.observed = v.observed /\ x.bound = v.bound
       /\ x.lifecycle = v.lifecycle /\ x.currentness = v.currentness
  BY <1>10, <1>11 DEF Members
<1>13. Evidenced(x, r.conditional) /\ (Present(x) <=> Present(r.members[p]))
  BY <1>9, <1>10, <1>12 DEF Evidenced, Usable, Present, m
<1>14. /\ x.generation <= r.generation + 1
       /\ ~Moved(m, n) => x.generation <= r.generation
  <2>1. v.generation \in Nat
    BY <1>10, MemberNumbers
  <2> QED
    BY <1>6, <1>7, <1>10, <1>12, <2>1
<1> HIDE DEF x, p, s
<1>15. SetsInv' /\ IndexInv'
  BY <1>1, <1>2, <1>3, <1>4, <1>12, <1>13, <1>14, EditCommit, EditStore
<1> QED
  BY <1>8, <1>15 DEF Inv

\* revalidate_set(): the members that were listed are rebound, the set takes the
\* governing epoch.
LEMMA RevalidateSetStep ==
    ASSUME Inv, NEW t \in Threads, RevalidateSet(t)
    PROVE  Inv'
<1> DEFINE c == calls[t]
           s == c.set
           r == sets[s]
           ms == [p \in Paths |->
                    IF Live(r.members[p]) /\ p \in c.scope
                    THEN Revalidated(r.members[p], c.views[p], r.conditional)
                    ELSE r.members[p]]
           complete == \A p \in LivePaths(r.members) \ c.scope :
                          r.members[p].currentness = "CURRENT"
           l == IF complete THEN "CURRENT" ELSE "REVALIDATION_REQUIRED"
           u == Recompute([r EXCEPT !.members = ms])
           q == [u EXCEPT !.currentness = l, !.governing_epoch = epoch]
<1>1. /\ c.op = "revalidate_set" /\ (Return(t) \/ Reconcile(t))
      /\ (GenerationRoom(r) /\ CommitInPlace(s, q, c.worker)) \/ Store(s, q)
      /\ UNCHANGED <<next_id, directory, tickets, authority_vars>>
  BY DEF RevalidateSet, Ready
<1>2. r.lifecycle # "NONE"
  BY DEF RevalidateSet, RevalidateSetAdmissible, Admitted, Exists
<1>3. s \in SetIds /\ c.worker \in Workers \cup {NoWorker}
  BY <1>1, CallType DEF WellFormed
<1>4. RestInv'
  BY <1>1, AfterCall DEF Inv, RestInv
<1>5. Right(r) /\ r \in SetRecords /\ r.conditional \in BOOLEAN /\ r.generation \in Nat
      /\ r.members \in [Paths -> Members]
  BY <1>3 DEF Inv, SetsInv, Right, SetRecords, Generations
<1>6. ASSUME NEW p \in Paths
      PROVE  LET n == Revalidated(r.members[p], c.views[p], r.conditional)
             IN  /\ n \in Members /\ n.generation = r.members[p].generation
                 /\ Present(n) <=> Present(r.members[p])
                 /\ Evidenced(n, r.conditional)
  <2>1. r.members[p] \in Members /\ c.views[p] \in Views
    BY <1>5, CallType
  <2> QED
    BY <1>5, <2>1, RevalidatedFacts, RevalidatedEvidenced
<1>7. ASSUME NEW p \in Paths
      PROVE  /\ ms[p] \in Members /\ ms[p].generation = r.members[p].generation
             /\ Present(ms[p]) <=> Present(r.members[p])
             /\ Evidenced(ms[p], r.conditional)
  BY <1>5, <1>6 DEF Right, Justified, Evidenced
<1>8. ms \in [Paths -> Members]
  BY <1>7
<1>9. l \in {"CURRENT", "REVALIDATION_REQUIRED"} /\ epoch \in Nat
  BY DEF Inv, RestInv
<1> HIDE DEF ms, l
<1>10. /\ u \in SetRecords /\ Accounted(u) /\ Justified(u) /\ u.members = ms
       /\ (Absent(u) <=> Absent(r))
       /\ u.generation = r.generation /\ u.membership_generation = r.membership_generation
  BY <1>5, <1>7, <1>8, RecomputeWith
<1> HIDE DEF u
<1>11. /\ q \in SetRecords /\ q.members = u.members /\ q.conditional = u.conditional
       /\ q.generation = u.generation /\ q.membership_generation = u.membership_generation
       /\ q.lifecycle = u.lifecycle /\ q.minimum = u.minimum
       /\ q.admin_enabled = u.admin_enabled /\ q.usable = u.usable
  BY <1>9, <1>10 DEF SetRecords
<1> HIDE DEF q
<1>12. Accounted(q) /\ Justified(q)
  BY <1>10, <1>11 DEF Accounted, Justified
<1>13. Nested(q)
  BY <1>5, <1>7, <1>10, <1>11 DEF Nested, Right
<1>14. Blank(q) /\ (GenerationRoom(r) => GenerationRoom(q))
  BY <1>2, <1>10, <1>11 DEF Blank, Absent, GenerationRoom
<1>15. Right(q) /\ SamePresence(r.members, q.members)
  BY <1>7, <1>10, <1>11, <1>12, <1>13, <1>14 DEF Right, SamePresence
<1>16. CommitInPlace(s, q, c.worker) /\ GenerationRoom(r) => SetsInv' /\ IndexInv'
  BY <1>3, <1>14, <1>15, CommitInPlaceStep, RightIsAboutToCommit DEF Inv, Right
<1>17. Store(s, q) => SetsInv' /\ IndexInv'
  BY <1>3, <1>15, RightStore DEF Inv
<1> QED
  BY <1>1, <1>4, <1>16, <1>17 DEF Inv
-----------------------------------------------------------------------------
\* The invariant is inductive.

LEMMA SetStepInv ==
    ASSUME Inv, NEW w \in Workers, NEW s \in SetIds, SetStep(w, s)
    PROVE  Inv'
<1>1. CASE RevokeSet(w, s)
  BY <1>1, EndSetStep DEF RevokeSet
<1>2. CASE RetireSet(w, s)
  BY <1>2, EndSetStep DEF RetireSet
<1> QED
  BY <1>1, <1>2, CreateSetStep, PublishSetStep, SetMinimumStep, SetPolicyStep, SetAdminStep,
     WithdrawSetStep, CompleteWithdrawalStep, SupersedeSetStep, RemoveMemberStep,
     WithdrawMemberStep, BeginMemberRevalidationStep DEF SetStep

LEMMA CallStepInv ==
    ASSUME Inv, NEW t \in Threads, CallStep(t)
    PROVE  Inv'
BY LookupStep, AddMembersStep, ReplaceMemberStep, SetMemberAdminEnabledStep, RevalidateSetStep,
   RevalidateMemberStep, RefuseCompletionStep, CompleteMemberRevalidationStep, RefreshPathStep,
   RefuseStep, ObserveStep, ApplyObservedStep DEF CallStep

LEMMA StutterInv ==
    ASSUME Inv, UNCHANGED vars
    PROVE  Inv'
BY CountStays DEF Inv, SetsInv, IndexInv, RestInv, PathIndexConsistent, vars, engine_vars, authority_vars

LEMMA NextInv ==
    ASSUME Inv, [Next]_vars
    PROVE  Inv'
<1>1. ASSUME NEW w \in Callers, NEW s \in SetIds, SetStep(w, s)
      PROVE  Inv'
  BY <1>1, SetStepInv DEF Callers
<1>2. ASSUME NEW t \in Threads, NEW w \in Callers, StartCall(t, w)
      PROVE  Inv'
  BY <1>2, StartCallStep DEF Callers
<1> QED
  BY <1>1, <1>2, ViewStepInv, AuthorityStepInv, CallStepInv, StutterInv DEF Next

\* Every reachable state of the engine satisfies the inductive invariant.
THEOREM Invariance == Spec => []Inv
BY InitInv, NextInv, PTL DEF Spec

\* Type correctness, and with it the bound on both generations of a set: no
\* handler reaches the overflow branches of commit_locked().
THEOREM TypeCorrectness == Spec => []TypeOK
BY Invariance, InvImplies, PTL

\* The cached usable count and the derived lifecycle of every set are always
\* those of its members: no early return and no pruning leaves them behind.
THEOREM AccountingHolds == Spec => []ThresholdAccounting
BY Invariance, InvImplies, PTL

\* A member only ever counts as usable on an observation that authorises exactly
\* the generation it is bound to, under the policy its set has now.
THEOREM UseIsJustified == Spec => []UsableJustified
BY Invariance, InvImplies, PTL

\* Member and membership generations stay below the generation of the set, so
\* the handlers' one test of the set's counter protects all three.
THEOREM GenerationsNest == Spec => []GenerationsNested
BY Invariance, InvImplies, PTL

\* The dependency index is the inverse of the membership tables: a Path Authority
\* change reaches every set that depends on the path, and no other.
THEOREM IndexIsExact == Spec => []PathIndexConsistent
BY Invariance, InvImplies, PTL

\* The member counter never falls behind the records that add_members() and
\* replace_member() limit with it, through replacements into archived slots,
\* removals and the pruning of archives, and it keeps its limit.
THEOREM CounterCovers == Spec => []MemberCountCovers
<1>1. Inv => MemberCountCovers
  <2> SUFFICES ASSUME Inv PROVE MemberCountCovers
    OBVIOUS
  <2>1. MemberRecords = Indexed
    BY DEF Inv, IndexInv, PathIndexConsistent, MemberRecords, Indexed
  <2> QED BY <2>1 DEF Inv, IndexInv, Counted, MemberCountCovers
<1> QED BY <1>1, Invariance, PTL
-----------------------------------------------------------------------------
\* The engine implements WorkerAuthority.

\* No handler about a set touches the authority state.
LEMMA SetStepKeepsAuthority ==
    ASSUME NEW w, NEW s, SetStep(w, s)
    PROVE  UNCHANGED authority_vars
<1> USE DEF Quiet, Mutates
<1>1. ASSUME NEW n, NEW a, NEW c, CreateSet(w, s, n, a, c) PROVE UNCHANGED authority_vars
  BY <1>1 DEF CreateSet
<1>2. ASSUME PublishSet(w, s) PROVE UNCHANGED authority_vars
  BY <1>2 DEF PublishSet
<1>3. ASSUME NEW n, SetMinimumUsableMembers(w, s, n) PROVE UNCHANGED authority_vars
  BY <1>3 DEF SetMinimumUsableMembers
<1>4. ASSUME NEW c, SetConditionalAuthorityPolicy(w, s, c) PROVE UNCHANGED authority_vars
  BY <1>4 DEF SetConditionalAuthorityPolicy
<1>5. ASSUME NEW e, SetAdminEnabled(w, s, e) PROVE UNCHANGED authority_vars
  BY <1>5 DEF SetAdminEnabled
<1>6. ASSUME WithdrawSet(w, s) \/ CompleteWithdrawal(w, s) PROVE UNCHANGED authority_vars
  BY <1>6 DEF WithdrawSet, CompleteWithdrawal
<1>7. ASSUME RevokeSet(w, s) \/ RetireSet(w, s) PROVE UNCHANGED authority_vars
  BY <1>7 DEF RevokeSet, RetireSet, EndSet
<1>8. ASSUME NEW x, SupersedeSet(w, s, x) PROVE UNCHANGED authority_vars
  BY <1>8 DEF SupersedeSet
<1>9. ASSUME NEW p, RemoveMember(w, s, p) \/ WithdrawMember(w, s, p) \/ BeginMemberRevalidation(w, s, p)
      PROVE  UNCHANGED authority_vars
  BY <1>9 DEF RemoveMember, WithdrawMember, BeginMemberRevalidation
<1> QED
  BY <1>1, <1>2, <1>3, <1>4, <1>5, <1>6, <1>7, <1>8, <1>9 DEF SetStep

LEMMA StartCallKeepsAuthority ==
    ASSUME NEW t, NEW w, StartCall(t, w)
    PROVE  UNCHANGED authority_vars
BY DEF StartCall, StartAddMembers, StartReplaceMember, StartSetMemberAdminEnabled,
       StartRevalidateMember, StartRevalidateSet, StartCompleteMemberRevalidation,
       StartRefreshPath, StartOnMember, Begin

LEMMA CallStepKeepsAuthority ==
    ASSUME NEW t, CallStep(t)
    PROVE  UNCHANGED authority_vars
<1>1. ASSUME NEW p, Lookup(t, p) \/ Observe(t, p) PROVE UNCHANGED authority_vars
  BY <1>1 DEF Lookup, Observe
<1>2. ASSUME AddMembers(t) PROVE UNCHANGED authority_vars
  BY <1>2 DEF AddMembers
<1>3. ASSUME ReplaceMember(t) PROVE UNCHANGED authority_vars
  BY <1>3 DEF ReplaceMember
<1>4. ASSUME SetMemberAdminEnabled(t) PROVE UNCHANGED authority_vars
  BY <1>4 DEF SetMemberAdminEnabled
<1>5. ASSUME RevalidateSet(t) PROVE UNCHANGED authority_vars
  BY <1>5 DEF RevalidateSet
<1>6. ASSUME RevalidateMember(t) PROVE UNCHANGED authority_vars
  BY <1>6 DEF RevalidateMember
<1>7. ASSUME RefuseCompletion(t) PROVE UNCHANGED authority_vars
  BY <1>7 DEF RefuseCompletion
<1>8. ASSUME CompleteMemberRevalidation(t) PROVE UNCHANGED authority_vars
  BY <1>8 DEF CompleteMemberRevalidation
<1>9. ASSUME RefreshPath(t) \/ Refuse(t) \/ ApplyObserved(t) PROVE UNCHANGED authority_vars
  BY <1>9 DEF RefreshPath, Refuse, ApplyObserved
<1> QED
  BY <1>1, <1>2, <1>3, <1>4, <1>5, <1>6, <1>7, <1>8, <1>9 DEF CallStep

LEMMA AuthorityStepRefines ==
    ASSUME AuthorityStep
    PROVE  Authority!Next
<1>1. ASSUME NEW w \in Workers, NEW scope \in Scopes, NEW session \in Sessions,
             RegisterPublisher(w, scope, session)
      PROVE  Authority!Next
  BY <1>1, LimitsAssumption DEF RegisterPublisher, Authority!Next, Workers, Authority!Workers
<1>2. ASSUME NEW w \in Workers, UnregisterPublisher(w) \/ FenceWorker(w)
      PROVE  Authority!Next
  BY <1>2 DEF UnregisterPublisher, FenceWorker, Authority!Next, Workers, Authority!Workers
<1>3. ASSUME NEW w \in Workers, NEW session \in Sessions, AdvanceEpoch(w, session)
      PROVE  Authority!Next
  BY <1>3 DEF AdvanceEpoch, Authority!Next, Workers, Authority!Workers
<1> QED
  BY <1>1, <1>2, <1>3 DEF AuthorityStep

\* The engine refines WorkerAuthority: whatever calls are in flight, the
\* registrations, fences, epoch and authority generation move only by its steps.
THEOREM RefinesAuthority == Spec => AuthorityRefined
<1>1. Init => Authority!Init
  BY DEF Init
<1>2. [Next]_vars => [Authority!Next]_(Authority!vars)
  <2> SUFFICES ASSUME [Next]_vars PROVE [Authority!Next]_(Authority!vars)
    OBVIOUS
  <2>1. CASE UNCHANGED vars
    BY <2>1 DEF vars, authority_vars, Authority!vars
  <2>2. CASE AuthorityStep
    BY <2>2, AuthorityStepRefines
  <2>3. CASE ViewStep
    BY <2>3 DEF ViewStep, DeclarePathAuthority, ApplyPathAuthority, ExternalChange,
                AbandonMemberRevalidation, Quiet, authority_vars, Authority!vars
  <2>4. ASSUME UNCHANGED authority_vars PROVE UNCHANGED Authority!vars
    BY <2>4 DEF authority_vars, Authority!vars
  <2> QED
    BY <2>1, <2>2, <2>3, <2>4, SetStepKeepsAuthority, StartCallKeepsAuthority,
       CallStepKeepsAuthority DEF Next
<1> QED
  BY <1>1, <1>2, PTL DEF Spec, AuthorityRefined, Authority!Spec
=============================================================================
