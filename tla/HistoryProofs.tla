--------------------------- MODULE HistoryProofs ---------------------------
(***************************************************************************)
(* What the sets of the engine go through over time, for every number of   *)
(* sets, paths, workers and calls: how they end and who succeeds them,     *)
(* that every change is versioned and authorized, that no invalidation     *)
(* revives anything, that identities are never used twice and tickets      *)
(* notice every change.                                                    *)
(***************************************************************************)
EXTENDS FabricEngineProofs

-----------------------------------------------------------------------------
(***************************************************************************)
(* The ending of sets: endings are final, and supersession keeps the two   *)
(* sides of the lineage together however long its chains are and whatever  *)
(* else runs.                                                              *)
(***************************************************************************)

\* What EndingIsFinal allows, and that a set is never lost.
Follows(from, to) ==
    /\ from \in TerminalSet => to \in {from, "REVOKED", "RETIRED"}
    /\ from = "RETIRED" => to = "RETIRED"
    /\ from \in {"SUPERSEDED", "REVOKED"} => to \in {from, "RETIRED"}
    /\ to = "DECLARED" => from \in {"NONE", "DECLARED"}
    /\ from # "NONE" => to # "NONE"

Shaped(r) == {"lifecycle", "superseded_by", "supersedes"} \subseteq DOMAIN r

\* Record b comes from record a by steps that touch no lineage.
Kept(a, b) ==
    /\ Shaped(b)
    /\ b.superseded_by = a.superseded_by
    /\ b.supersedes = a.supersedes
    /\ Follows(a.lifecycle, b.lifecycle)

LEMMA KeptTwice ==
    ASSUME NEW a, NEW b, NEW c, Kept(a, b), Kept(b, c)
    PROVE  Kept(a, c)
BY DEF Kept, Follows, TerminalSet

LEMMA KeptSame ==
    ASSUME NEW r \in SetRecords
    PROVE  Shaped(r) /\ Kept(r, r)
BY DEF Kept, Shaped, Follows, TerminalSet, SetRecords

-----------------------------------------------------------------------------
\* The steps on a record, in the order a handler takes them.

\* A recomputation ends nothing and touches no lineage.
LEMMA RecomputeKept ==
    ASSUME NEW r, Shaped(r)
    PROVE  Kept(r, Recompute(r))
<1> DEFINE derived == DeriveLifecycle(UsableCount(r.members), r.minimum, r.admin_enabled)
<1>1. derived \in Derived \cup {"ADMIN_DISABLED"}
  BY DEF DeriveLifecycle, Derived
<1> HIDE DEF derived
<1>2. Recompute(r) = [r EXCEPT !.usable = UsableCount(r.members),
                               !.lifecycle = IF @ \in Derived \cup {"ADMIN_DISABLED"}
                                             THEN derived ELSE @]
  BY DEF Recompute, derived
<1> QED
  BY <1>1, <1>2 DEF Kept, Shaped, Follows, TerminalSet, Derived

LEMMA ConsequencesKept ==
    ASSUME NEW r, NEW from, Shaped(r)
    PROVE  Kept(r, Consequences(r, from)) /\ Consequences(r, from).lifecycle = r.lifecycle
BY DEF Consequences, BumpAll, Kept, Shaped, Follows, TerminalSet

LEMMA CommitKept ==
    ASSUME NEW r, NEW w, NEW b, Shaped(r)
    PROVE  Kept(r, Commit(r, w, b)) /\ Commit(r, w, b).lifecycle = r.lifecycle
BY DEF Commit, Kept, Shaped, Follows, TerminalSet

LEMMA TransitionKept ==
    ASSUME NEW r, Shaped(r), r.lifecycle # "NONE",
           NEW e, Allowed(r.lifecycle, e)
    PROVE  Kept(r, ApplyTransition(r, e))
<1> DEFINE derived == DeriveLifecycle(UsableCount(r.members), r.minimum, r.admin_enabled)
           act == SetTransition(r.lifecycle, e)
<1>1. derived \in Derived \cup {"ADMIN_DISABLED"}
  BY DEF DeriveLifecycle, Derived
<1>2. CASE act \in {"RECOMPUTE", "STAY"}
  <2>1. Kept(r, r)
    BY DEF Kept, Follows, TerminalSet
  <2> QED BY <1>2, <2>1, RecomputeKept DEF ApplyTransition
<1>3. CASE act = "BECOME_PUBLISHED"
  <2>1. r.lifecycle = "DECLARED"
    BY <1>3 DEF SetTransition
  <2> HIDE DEF derived
  <2>2. ApplyTransition(r, e) = [r EXCEPT !.usable = UsableCount(r.members), !.lifecycle = derived]
    BY <1>3 DEF ApplyTransition, derived
  <2> QED BY <1>1, <2>1, <2>2 DEF Kept, Shaped, Follows, TerminalSet, Derived
<1>4. CASE act \in {"BECOME_ADMIN_DISABLED", "BECOME_WITHDRAWING"}
  <2>1. r.lifecycle \notin TerminalSet
    BY <1>4 DEF SetTransition, Derived, TerminalSet, EditEvents, DrainEvents
  <2> QED BY <1>4, <2>1 DEF ApplyTransition, Kept, Shaped, Follows, TerminalSet
<1>5. CASE act = "BECOME_WITHDRAWN"
  <2>1. r.lifecycle = "WITHDRAWING"
    BY <1>5 DEF SetTransition
  <2> QED BY <1>5, <2>1 DEF ApplyTransition, Kept, Shaped, Follows, TerminalSet
<1>6. CASE act = "BECOME_SUPERSEDED"
  <2>1. r.lifecycle \notin TerminalSet
    BY <1>6 DEF SetTransition
  <2> QED BY <1>6, <2>1 DEF ApplyTransition, Kept, Shaped, Follows, TerminalSet
<1>7. CASE act = "BECOME_REVOKED"
  <2>1. r.lifecycle \notin {"SUPERSEDED", "REVOKED", "RETIRED"}
    BY <1>7 DEF SetTransition
  <2> QED BY <1>7, <2>1 DEF ApplyTransition, Kept, Shaped, Follows, TerminalSet
<1>8. CASE act = "BECOME_RETIRED"
  BY <1>8 DEF ApplyTransition, Kept, Shaped, Follows, TerminalSet
<1> QED
  BY <1>2, <1>3, <1>4, <1>5, <1>6, <1>7, <1>8, SMTT(30) DEF SetTransition, Allowed

LEMMA ReevaluatedKept ==
    ASSUME NEW r, Shaped(r)
    PROVE  Kept(r, Reevaluated(r))
<1> PICK ms : Reevaluated(r) = Recompute([r EXCEPT !.members = ms])
  BY DEF Reevaluated
<1>1. Kept(r, [r EXCEPT !.members = ms])
  BY DEF Kept, Shaped, Follows, TerminalSet
<1>2. Kept([r EXCEPT !.members = ms], Recompute([r EXCEPT !.members = ms]))
  BY <1>1, RecomputeKept DEF Kept
<1> QED BY <1>1, <1>2, KeptTwice

LEMMA ApplyViewKept ==
    ASSUME NEW r \in SetRecords, NEW p, NEW view
    PROVE  Kept(r, ApplyView(r, p, view))
<1> DEFINE e == [r EXCEPT !.members[p] = EvaluateMember(r.members[p], view, r.conditional, FALSE)]
           c == Recompute(e)
<1>1. Kept(r, e)
  BY DEF Kept, Shaped, Follows, TerminalSet, SetRecords
<1> HIDE DEF e
<1>2. Kept(e, c)
  BY <1>1, RecomputeKept DEF Kept
<1> HIDE DEF c
<1>3. Kept(r, c)
  BY <1>1, <1>2, KeptTwice
<1>4. Kept(r, r)
  BY KeptSame
<1>5. CASE ApplyView(r, p, view) \in {r, e}
  BY <1>1, <1>4, <1>5
<1>6. CASE \E g, k : ApplyView(r, p, view) = [c EXCEPT !.watermark = g, !.generation = k]
  <2>1. PICK g, k : ApplyView(r, p, view) = [c EXCEPT !.watermark = g, !.generation = k]
    BY <1>6
  <2>2. Kept(c, [c EXCEPT !.watermark = g, !.generation = k])
    BY <1>3 DEF Kept, Shaped, Follows, TerminalSet
  <2> QED BY <1>3, <2>1, <2>2, KeptTwice
<1> QED BY <1>5, <1>6 DEF ApplyView, e, c
-----------------------------------------------------------------------------
\* The steps of the engine but creation and supersession.

LineageStays == \A x \in SetIds : Kept(sets[x], sets'[x])

Typed == sets \in [SetIds -> SetRecords]

LEMMA StoreKeeps ==
    ASSUME Typed, NEW s \in SetIds, NEW r, Kept(sets[s], r), Store(s, r)
    PROVE  LineageStays
BY KeptSame DEF Typed, LineageStays, Store

LEMMA CommitSetKeeps ==
    ASSUME Typed, NEW s \in SetIds, NEW r, Kept(sets[s], r),
           NEW w, NEW b, NEW added, NEW gained, NEW dropped,
           CommitSet(s, r, w, b, added, gained, dropped)
    PROVE  LineageStays
<1>1. Kept(sets[s], Commit(r, w, b))
  BY CommitKept, KeptTwice DEF Kept
<1>2. sets' = [sets EXCEPT ![s] = Commit(r, w, b)]
  BY DEF CommitSet
<1> QED BY <1>1, <1>2, KeptSame DEF Typed, LineageStays

LEMMA CommitInPlaceKeeps ==
    ASSUME Typed, NEW s \in SetIds, NEW r, Kept(sets[s], r), NEW w, CommitInPlace(s, r, w)
    PROVE  LineageStays
BY CommitSetKeeps DEF CommitInPlace

LEMMA UnchangedKeeps ==
    ASSUME Typed, UNCHANGED sets PROVE LineageStays
BY KeptSame DEF Typed, LineageStays

\* A record whose members, or other fields without lineage, were edited.
LEMMA EditKept ==
    ASSUME NEW r, Shaped(r), NEW u, NEW v
    PROVE  /\ Kept(r, [r EXCEPT !.members = u])
           /\ Kept(r, [r EXCEPT !.minimum = u])
           /\ Kept(r, [r EXCEPT !.conditional = u])
           /\ Kept(r, [r EXCEPT !.admin_enabled = u])
           /\ Kept(r, [r EXCEPT !.currentness = u, !.governing_epoch = v])
BY DEF Kept, Shaped, Follows, TerminalSet

\* Recomputation after an edit of the members.
LEMMA EditedKept ==
    ASSUME NEW a, NEW r, Kept(a, r), NEW u
    PROVE  /\ Kept(a, Recompute([r EXCEPT !.members = u]))
           /\ Kept(a, Recompute([r EXCEPT !.minimum = u]))
           /\ Kept(a, Recompute([r EXCEPT !.admin_enabled = u]))
           /\ Kept(a, Reevaluated([r EXCEPT !.conditional = u]))
<1>1. Shaped(r)
  BY DEF Kept
<1>2. ASSUME NEW e, Kept(r, e) PROVE Kept(a, Recompute(e)) /\ Kept(a, Reevaluated(e))
  <2>1. Shaped(e)
    BY <1>2 DEF Kept
  <2> QED BY <1>2, <2>1, RecomputeKept, ReevaluatedKept, KeptTwice
<1> QED BY <1>1, <1>2, EditKept

LEMMA MemberEdit ==
    ASSUME NEW r, Shaped(r), NEW p, NEW m
    PROVE  [r EXCEPT !.members[p] = m] = [r EXCEPT !.members = [r.members EXCEPT ![p] = m]]
OBVIOUS

LEMMA SetStepKeeps ==
    ASSUME Typed, NEW w, NEW s \in SetIds, SetStep(w, s),
           \A n, a, c : ~ CreateSet(w, s, n, a, c),
           \A x \in SetIds : ~ SupersedeSet(w, s, x)
    PROVE  LineageStays
<1> USE DEF Mutates, Exists
<1>0. Shaped(sets[s]) /\ sets[s] \in SetRecords
  BY KeptSame DEF Typed
<1>1. ASSUME sets[s].lifecycle # "NONE", NEW e, Allowed(sets[s].lifecycle, e)
      PROVE  LET r == ApplyTransition(sets[s], e) IN Shaped(r) /\ Kept(sets[s], r)
  BY <1>0, <1>1, TransitionKept DEF Kept
<1>2. CASE PublishSet(w, s)
  BY <1>1, <1>2, CommitInPlaceKeeps DEF PublishSet
<1>3. ASSUME NEW n, SetMinimumUsableMembers(w, s, n) PROVE LineageStays
  BY <1>1, <1>3, CommitInPlaceKeeps, StoreKeeps, EditedKept DEF SetMinimumUsableMembers
<1>4. ASSUME NEW c, SetConditionalAuthorityPolicy(w, s, c) PROVE LineageStays
  BY <1>1, <1>4, CommitInPlaceKeeps, StoreKeeps, EditedKept DEF SetConditionalAuthorityPolicy
<1>5. ASSUME NEW e, SetAdminEnabled(w, s, e) PROVE LineageStays
  <2> DEFINE event == IF e THEN "ADMIN_ENABLED" ELSE "ADMIN_DISABLED"
             r == ApplyTransition(sets[s], event)
  <2>1. Kept(sets[s], r)
    BY <1>1, <1>5 DEF SetAdminEnabled
  <2>2. Store(s, r) \/ CommitInPlace(s, Recompute([r EXCEPT !.admin_enabled = e]), w)
    BY <1>5 DEF SetAdminEnabled
  <2> HIDE DEF r
  <2> QED BY <2>1, <2>2, CommitInPlaceKeeps, StoreKeeps, EditedKept
<1>6. CASE WithdrawSet(w, s)
  <2> DEFINE r == ApplyTransition(sets[s], "BEGIN_WITHDRAW")
             q == Consequences(Recompute(r), sets[s].lifecycle)
  <2>1. Kept(sets[s], r) /\ Shaped(r)
    BY <1>1, <1>6 DEF WithdrawSet
  <2>2. CommitInPlace(s, q, w)
    BY <1>6 DEF WithdrawSet
  <2> HIDE DEF r
  <2>3. Kept(r, Recompute(r)) /\ Shaped(Recompute(r))
    BY <2>1, RecomputeKept DEF Kept
  <2>4. Kept(Recompute(r), q)
    BY <2>3, ConsequencesKept
  <2>5. Kept(sets[s], q)
    BY <2>1, <2>3, <2>4, KeptTwice
  <2> QED BY <2>2, <2>5, CommitInPlaceKeeps
<1>7. CASE CompleteWithdrawal(w, s)
  BY <1>1, <1>7, CommitInPlaceKeeps DEF CompleteWithdrawal
<1>8. ASSUME NEW operation, NEW event, EndSet(operation, event, w, s) PROVE LineageStays
  <2> DEFINE r == ApplyTransition(sets[s], event)
             q == Consequences(r, sets[s].lifecycle)
  <2>1. Kept(sets[s], r) /\ Shaped(r)
    BY <1>1, <1>8 DEF EndSet
  <2>2. CommitInPlace(s, q, w)
    BY <1>8 DEF EndSet
  <2> HIDE DEF r
  <2>3. Kept(sets[s], q)
    BY <2>1, ConsequencesKept, KeptTwice
  <2> QED BY <2>2, <2>3, CommitInPlaceKeeps
<1>9. ASSUME NEW p, RemoveMember(w, s, p) \/ WithdrawMember(w, s, p) PROVE LineageStays
  <2> DEFINE r == ApplyTransition(sets[s], "MEMBER_REMOVED")
             q(m) == Recompute([r EXCEPT !.members[p] = m])
  <2>1. Kept(sets[s], r) /\ Shaped(r)
    BY <1>1, <1>9 DEF RemoveMember, WithdrawMember
  <2>2. \/ CommitSet(s, q(NoMember), w, TRUE, {}, 0, {p})
        \/ CommitSet(s, q(Closed(sets[s].members[p], "WITHDRAWN")), w, TRUE, {}, 0, {})
    BY <1>9 DEF RemoveMember, WithdrawMember
  <2> HIDE DEF r
  <2>3. ASSUME NEW m PROVE Kept(sets[s], q(m))
    BY <2>1, EditedKept, MemberEdit
  <2> HIDE DEF q
  <2> QED BY <2>2, <2>3, CommitSetKeeps
<1>10. ASSUME NEW p, BeginMemberRevalidation(w, s, p) PROVE LineageStays
  <2>1. Kept(sets[s], [sets[s] EXCEPT !.members[p].pending = @ + 1])
    BY <1>0 DEF Kept, Shaped, Follows, TerminalSet
  <2> QED BY <1>10, <2>1, StoreKeeps DEF BeginMemberRevalidation
<1> QED
  BY <1>2, <1>3, <1>4, <1>5, <1>6, <1>7, <1>8, <1>9, <1>10
  DEF SetStep, RevokeSet, RetireSet

LEMMA DependentsKeep ==
    ASSUME Typed, NEW p, NEW view, ApplyToDependents(p, view)
    PROVE  LineageStays
BY KeptSame, ApplyViewKept DEF Typed, LineageStays, ApplyToDependents

LEMMA ViewStepKeeps ==
    ASSUME Typed, TypeOK, ViewStep
    PROVE  LineageStays
<1>1. ASSUME NEW w, NEW p, NEW view, DeclarePathAuthority(w, p, view) \/ ApplyPathAuthority(w, p, view)
      PROVE  LineageStays
  BY <1>1, DependentsKeep DEF DeclarePathAuthority, ApplyPathAuthority
<1>2. ASSUME NEW p, NEW view, ExternalChange(p, view) PROVE LineageStays
  BY <1>2, UnchangedKeeps DEF ExternalChange, engine_vars
<1>3. ASSUME NEW k \in 1 .. Len(tickets), AbandonMemberRevalidation(k) PROVE LineageStays
  <2> DEFINE s == tickets[k].set
  <2>0. tickets[k] \in Tickets
    BY DEF TypeOK
  <2>1. s \in SetIds
    BY <2>0 DEF Tickets
  <2>2. PICK p : Store(s, [sets[s] EXCEPT !.members[p].pending = @ - 1])
    BY <1>3 DEF AbandonMemberRevalidation
  <2> HIDE DEF s
  <2>3. Kept(sets[s], [sets[s] EXCEPT !.members[p].pending = @ - 1])
    BY <2>1, KeptSame DEF Typed, Kept, Shaped, Follows, TerminalSet
  <2> QED BY <2>1, <2>2, <2>3, StoreKeeps
<1> QED BY <1>1, <1>2, <1>3 DEF ViewStep

LEMMA AuthorityStepKeeps ==
    ASSUME Typed, AuthorityStep
    PROVE  LineageStays
<1>1. ASSUME NEW lost, NEW e, Uncurrent(lost, e) PROVE LineageStays
  <2>1. ASSUME NEW x \in SetIds
        PROVE  Kept(sets[x], [BumpAll(sets[x]) EXCEPT !.currentness = "REVALIDATION_REQUIRED",
                                                      !.governing_epoch = e])
    BY KeptSame DEF Typed, BumpAll, Kept, Shaped, Follows, TerminalSet
  <2> QED BY <1>1, <2>1, KeptSame DEF Typed, LineageStays, Uncurrent
<1>2. ASSUME NEW w, NEW scope, NEW session,
             RegisterPublisher(w, scope, session) \/ UnregisterPublisher(w)
      PROVE  LineageStays
  BY <1>2, UnchangedKeeps DEF RegisterPublisher, UnregisterPublisher, engine_vars
<1>3. ASSUME NEW w, NEW session, FenceWorker(w) \/ AdvanceEpoch(w, session) PROVE LineageStays
  BY <1>1, <1>3 DEF FenceWorker, AdvanceEpoch
<1> QED BY <1>2, <1>3 DEF AuthorityStep

LEMMA StartCallKeeps ==
    ASSUME Typed, NEW t, NEW w, StartCall(t, w)
    PROVE  LineageStays
<1>1. UNCHANGED sets
  BY DEF StartCall, StartAddMembers, StartReplaceMember, StartSetMemberAdminEnabled,
         StartRevalidateMember, StartRevalidateSet, StartCompleteMemberRevalidation,
         StartRefreshPath, StartOnMember, Begin, engine_vars
<1> QED BY <1>1, UnchangedKeeps

LEMMA CallStepKeeps ==
    ASSUME Typed, TypeOK, NEW t \in Threads, CallStep(t)
    PROVE  LineageStays
<1> DEFINE s == calls[t].set
<1>0. ASSUME calls[t].op \notin {"none", "refresh_path"}
      PROVE  s \in SetIds /\ Shaped(sets[s]) /\ Kept(sets[s], sets[s])
  BY <1>0, KeptSame DEF TypeOK, WellFormed, Typed
<1>1. ASSUME NEW e, s \in SetIds, Exists(s), Allowed(sets[s].lifecycle, e)
      PROVE  Kept(sets[s], ApplyTransition(sets[s], e))
  BY <1>1, KeptSame, TransitionKept DEF Typed, Exists
<1>2. ASSUME NEW p, Lookup(t, p) \/ Observe(t, p) \/ Refuse(t) PROVE LineageStays
  BY <1>2, UnchangedKeeps DEF Lookup, Observe, Refuse, engine_vars
<1>3. CASE AddMembers(t)
  <2> DEFINE r == ApplyTransition(sets[s], "MEMBER_ADDED")
  <2>1. s \in SetIds /\ Kept(sets[s], r)
    BY <1>0, <1>1, <1>3 DEF AddMembers, AddAdmissible, Admitted, Ready
  <2>2. PICK joined, w, n : CommitSet(s, Recompute([r EXCEPT !.members = joined]), w, TRUE,
                                      calls[t].scope, n, {})
    BY <1>3 DEF AddMembers
  <2> HIDE DEF r, s
  <2> QED BY <2>1, <2>2, EditedKept, CommitSetKeeps
<1>4. CASE ReplaceMember(t)
  <2> DEFINE r == ApplyTransition(sets[s], "MEMBER_REPLACED")
  <2>1. s \in SetIds /\ Kept(sets[s], r)
    BY <1>0, <1>1, <1>4 DEF ReplaceMember, ReplaceAdmissible, Admitted, Ready
  <2>2. PICK replaced, w, q : CommitSet(s, Recompute([r EXCEPT !.members = replaced]), w, TRUE,
                                        q, 1, {})
    BY <1>4 DEF ReplaceMember
  <2> HIDE DEF r, s
  <2> QED BY <2>1, <2>2, EditedKept, CommitSetKeeps
<1>5. CASE SetMemberAdminEnabled(t)
  <2>1. s \in SetIds /\ Shaped(sets[s]) /\ Kept(sets[s], sets[s])
    BY <1>0, <1>5 DEF SetMemberAdminEnabled, Ready
  <2>2. PICK p, m, w : CommitInPlace(s, Recompute([sets[s] EXCEPT !.members[p] = m]), w)
    BY <1>5 DEF SetMemberAdminEnabled
  <2> HIDE DEF s
  <2>3. Kept(sets[s], Recompute([sets[s] EXCEPT !.members[p] = m]))
    BY <2>1, EditedKept, MemberEdit
  <2> QED BY <2>1, <2>2, <2>3, CommitInPlaceKeeps
<1>6. CASE RevalidateSet(t)
  <2>1. s \in SetIds /\ Shaped(sets[s]) /\ Kept(sets[s], sets[s])
    BY <1>0, <1>6 DEF RevalidateSet, Ready
  <2>2. PICK ms, u, v, w :
            \/ CommitInPlace(s, [Recompute([sets[s] EXCEPT !.members = ms]) EXCEPT
                                    !.currentness = u, !.governing_epoch = v], w)
            \/ Store(s, [Recompute([sets[s] EXCEPT !.members = ms]) EXCEPT
                            !.currentness = u, !.governing_epoch = v])
    BY <1>6 DEF RevalidateSet
  <2> DEFINE q == Recompute([sets[s] EXCEPT !.members = ms])
  <2>3. Kept(sets[s], q)
    BY <2>1, EditedKept
  <2> HIDE DEF s, q
  <2>4. Shaped(q)
    BY <2>3 DEF Kept
  <2>5. Kept(q, [q EXCEPT !.currentness = u, !.governing_epoch = v])
    BY <2>4, EditKept
  <2>6. Kept(sets[s], [q EXCEPT !.currentness = u, !.governing_epoch = v])
    BY <2>3, <2>5, KeptTwice
  <2> QED BY <2>1, <2>2, <2>6, CommitInPlaceKeeps, StoreKeeps DEF q
<1>7. CASE RevalidateMember(t) \/ CompleteMemberRevalidation(t)
  <2>1. s \in SetIds /\ Shaped(sets[s]) /\ Kept(sets[s], sets[s])
    BY <1>0, <1>7 DEF RevalidateMember, CompleteMemberRevalidation, Ready
  <2>2. PICK p, m, w : \/ CommitInPlace(s, Recompute([sets[s] EXCEPT !.members[p] = m]), w)
                       \/ Store(s, Recompute([sets[s] EXCEPT !.members[p] = m]))
    BY <1>7 DEF RevalidateMember, CompleteMemberRevalidation
  <2> HIDE DEF s
  <2>3. Kept(sets[s], Recompute([sets[s] EXCEPT !.members[p] = m]))
    BY <2>1, EditedKept, MemberEdit
  <2> QED BY <2>1, <2>2, <2>3, CommitInPlaceKeeps, StoreKeeps
<1>8. CASE RefuseCompletion(t)
  <2>1. s \in SetIds /\ Shaped(sets[s])
    BY <1>0, <1>8 DEF RefuseCompletion, Ready
  <2>2. PICK p : Store(s, [sets[s] EXCEPT !.members[p].pending = @ - 1])
    BY <1>8 DEF RefuseCompletion
  <2> HIDE DEF s
  <2>3. Kept(sets[s], [sets[s] EXCEPT !.members[p].pending = @ - 1])
    BY <2>1 DEF Kept, Shaped, Follows, TerminalSet
  <2> QED BY <2>1, <2>2, <2>3, StoreKeeps
<1>9. CASE RefreshPath(t) \/ ApplyObserved(t)
  BY <1>9, DependentsKeep DEF RefreshPath, ApplyObserved
<1> QED
  BY <1>2, <1>3, <1>4, <1>5, <1>6, <1>7, <1>8, <1>9 DEF CallStep
-----------------------------------------------------------------------------
\* Creation and supersession.

LEMMA CreateSetLineage ==
    ASSUME Typed, NEW w, NEW s \in SetIds, NEW n, NEW a, NEW c, CreateSet(w, s, n, a, c)
    PROVE  /\ sets[s].lifecycle = "NONE"
           /\ sets'[s].lifecycle = "DECLARED"
           /\ sets'[s].superseded_by = NoSet /\ sets'[s].supersedes = NoSet
           /\ \A x \in SetIds \ {s} : sets'[x] = sets[x]
BY DEF CreateSet, Store, Exists, Typed, NoRecord

LEMMA SupersedeSetLineage ==
    ASSUME Typed, NEW w, NEW s \in SetIds, NEW y \in SetIds, SupersedeSet(w, s, y)
    PROVE  /\ s # y /\ Exists(y)
           /\ sets[s].lifecycle \notin TerminalSet \cup {"NONE"}
           /\ sets'[s].lifecycle = "SUPERSEDED"
           /\ sets'[s].superseded_by = y /\ sets'[s].supersedes = sets[s].supersedes
           /\ sets'[y].lifecycle = sets[y].lifecycle
           /\ sets'[y].superseded_by = sets[y].superseded_by /\ sets'[y].supersedes = s
           /\ \A x \in SetIds \ {s, y} : sets'[x] = sets[x]
<1> DEFINE old   == [ApplyTransition(sets[s], "SUPERSEDE") EXCEPT !.superseded_by = y]
           ended == Consequences(old, sets[s].lifecycle)
           q     == Commit(ended, w, FALSE)
<1>1. /\ s # y /\ Exists(y)
      /\ Exists(s) /\ Allowed(sets[s].lifecycle, "SUPERSEDE")
      /\ sets' = [sets EXCEPT ![s] = q, ![y].supersedes = s]
  BY DEF SupersedeSet, Mutates
<1>2. /\ sets[s].lifecycle \notin TerminalSet \cup {"NONE"}
      /\ SetTransition(sets[s].lifecycle, "SUPERSEDE") = "BECOME_SUPERSEDED"
  BY <1>1 DEF Exists, Allowed, SetTransition, EditEvents, DrainEvents
<1>3. /\ Shaped(old)
      /\ old.lifecycle = "SUPERSEDED" /\ old.superseded_by = y
      /\ old.supersedes = sets[s].supersedes
  BY <1>2, KeptSame DEF Typed, ApplyTransition, Shaped
<1> HIDE DEF old
<1>4. Kept(old, ended) /\ ended.lifecycle = "SUPERSEDED"
  BY <1>3, ConsequencesKept
<1> HIDE DEF ended
<1>5. Kept(ended, q) /\ q.lifecycle = "SUPERSEDED"
  <2>1. Shaped(ended)
    BY <1>4 DEF Kept
  <2> QED BY <1>4, <2>1, CommitKept
<1> HIDE DEF q
<1>6. sets[y] \in SetRecords /\ sets[s] \in SetRecords
  BY DEF Typed
<1>7. /\ sets'[s] = q /\ sets'[y] = [sets[y] EXCEPT !.supersedes = s]
      /\ \A x \in SetIds \ {s, y} : sets'[x] = sets[x]
  BY <1>1 DEF Typed
<1>8. q.superseded_by = y /\ q.supersedes = sets[s].supersedes
  BY <1>3, <1>4, <1>5 DEF Kept
<1>9. /\ sets'[y].lifecycle = sets[y].lifecycle
      /\ sets'[y].superseded_by = sets[y].superseded_by
      /\ sets'[y].supersedes = s
  BY <1>6, <1>7 DEF SetRecords
<1> QED
  BY <1>1, <1>2, <1>5, <1>7, <1>8, <1>9

\* Every step of the engine is one of the three kinds.
LEMMA StepKinds ==
    ASSUME TypeOK, [Next]_vars
    PROVE  \/ LineageStays
           \/ \E w \in Workers, s \in SetIds : \E n, a, c : CreateSet(w, s, n, a, c)
           \/ \E w \in Workers, s, y \in SetIds : SupersedeSet(w, s, y)
<1>0. Typed
  BY DEF TypeOK, Typed
<1>1. ASSUME NEW w \in Callers, NEW s \in SetIds, SetStep(w, s)
      PROVE  \/ LineageStays
             \/ \E n, a, c : CreateSet(w, s, n, a, c)
             \/ \E y \in SetIds : SupersedeSet(w, s, y)
  <2>1. CASE /\ \A n, a, c : ~ CreateSet(w, s, n, a, c)
             /\ \A y \in SetIds : ~ SupersedeSet(w, s, y)
    BY <1>0, <1>1, <2>1, SetStepKeeps
  <2> QED BY <2>1
<1>2. CASE ViewStep
  BY <1>0, <1>2, ViewStepKeeps
<1>3. CASE AuthorityStep
  BY <1>0, <1>3, AuthorityStepKeeps
<1>4. ASSUME NEW t, NEW w, StartCall(t, w) PROVE LineageStays
  BY <1>0, <1>4, StartCallKeeps
<1>5. ASSUME NEW t \in Threads, CallStep(t) PROVE LineageStays
  BY <1>0, <1>5, CallStepKeeps
<1>6. CASE UNCHANGED vars
  BY <1>0, <1>6, UnchangedKeeps DEF vars, engine_vars
<1>7. CASE Next
  BY <1>1, <1>2, <1>3, <1>4, <1>5, <1>7 DEF Next, Callers
<1> QED BY <1>6, <1>7

\* A set that ended stays ended, whatever governance calls, invalidations and
\* lost workers follow: RECOMPUTE never overwrites an explicit lifecycle.
THEOREM EndingsAreFinal == Spec => EndingIsFinal
<1>1. ASSUME TypeOK, [Next]_vars, NEW s \in SetIds
      PROVE  Follows(sets[s].lifecycle, sets'[s].lifecycle)
  <2>0. Typed
    BY <1>1 DEF TypeOK, Typed
  <2>1. CASE LineageStays
    BY <2>1 DEF LineageStays, Kept
  <2>2. ASSUME NEW w, NEW x \in SetIds, NEW n, NEW a, NEW c, CreateSet(w, x, n, a, c)
        PROVE  Follows(sets[s].lifecycle, sets'[s].lifecycle)
    BY <2>0, <2>2, CreateSetLineage DEF Follows, TerminalSet
  <2>3. ASSUME NEW w, NEW x \in SetIds, NEW y \in SetIds, SupersedeSet(w, x, y)
        PROVE  Follows(sets[s].lifecycle, sets'[s].lifecycle)
    BY <2>0, <2>3, SupersedeSetLineage, ZenonT(30) DEF Follows, TerminalSet
  <2> QED BY <1>1, <2>1, <2>2, <2>3, StepKinds
<1>2. TypeOK /\ [Next]_vars =>
          [\A s \in SetIds :
              LET from == sets[s].lifecycle
                  to   == sets[s].lifecycle'
              IN  /\ from \in TerminalSet => to \in {from, "REVOKED", "RETIRED"}
                  /\ from = "RETIRED" => to = "RETIRED"
                  /\ from \in {"SUPERSEDED", "REVOKED"} => to \in {from, "RETIRED"}
                  /\ to = "DECLARED" => from \in {"NONE", "DECLARED"}]_vars
  BY <1>1 DEF Follows
<1> QED BY <1>2, TypeCorrectness, PTL DEF Spec, EndingIsFinal

LEMMA EndedReadiness ==
    ASSUME NEW l \in {"SUPERSEDED", "REVOKED", "RETIRED"}, NEW c
    PROVE  RouteReadiness(l, c) = l
BY DEF RouteReadiness, Derived

LEMMA LineageStep ==
    ASSUME TypeOK, LineageHolds, [Next]_vars
    PROVE  LineageHolds'
<1> DEFINE Ended(l) == l \in {"SUPERSEDED", "REVOKED", "RETIRED"}
           Backward(s) == sets[s].supersedes # NoSet =>
                              sets[sets[s].supersedes].superseded_by = s
           Forward(s)  == sets[s].superseded_by # NoSet =>
                              /\ sets[s].superseded_by # s
                              /\ sets[sets[s].superseded_by].lifecycle # "NONE"
                              /\ Ended(sets[s].lifecycle)
<1>0. Typed /\ NoSet \notin SetIds
  BY LimitsAssumption DEF TypeOK, Typed
<1>1. \A s \in SetIds : /\ sets[s].supersedes \in SetIds \cup {NoSet}
                        /\ sets[s].superseded_by \in SetIds \cup {NoSet}
  BY <1>0 DEF Typed, SetRecords
<1>2. \A s \in SetIds : Backward(s) /\ Forward(s)
  BY DEF LineageHolds, Exists
<1>3. SUFFICES ASSUME NEW s \in SetIds PROVE Backward(s)' /\ Forward(s)'
  <2>1. ASSUME \A x \in SetIds : Backward(x)' /\ Forward(x)' PROVE LineageHolds'
    <3>1. \A x \in SetIds : Ended(sets'[x].lifecycle) =>
              RouteReadiness(sets'[x].lifecycle, sets'[x].currentness) = sets'[x].lifecycle
      BY EndedReadiness
    <3>2. \A x \in SetIds :
              /\ sets'[x].supersedes # NoSet => sets'[sets'[x].supersedes].superseded_by = x
              /\ sets'[x].superseded_by # NoSet =>
                    /\ sets'[x].superseded_by # x
                    /\ sets'[sets'[x].superseded_by].lifecycle # "NONE"
                    /\ Ended(sets'[x].lifecycle)
      BY <2>1
    <3> QED BY <3>1, <3>2 DEF LineageHolds, Exists
  <2> QED BY <2>1
<1>4. CASE LineageStays
  <2>1. \A x \in SetIds : /\ sets'[x].supersedes = sets[x].supersedes
                          /\ sets'[x].superseded_by = sets[x].superseded_by
                          /\ sets[x].lifecycle # "NONE" => sets'[x].lifecycle # "NONE"
                          /\ Ended(sets[x].lifecycle) => Ended(sets'[x].lifecycle)
    BY <1>4 DEF LineageStays, Kept, Follows, TerminalSet
  <2> QED BY <1>0, <1>1, <1>2, <2>1
<1>5. ASSUME NEW w, NEW x \in SetIds, NEW n, NEW a, NEW c, CreateSet(w, x, n, a, c)
      PROVE  Backward(s)' /\ Forward(s)'
  <2>1. /\ sets[x].lifecycle = "NONE" /\ sets'[x].lifecycle = "DECLARED"
        /\ sets'[x].superseded_by = NoSet /\ sets'[x].supersedes = NoSet
        /\ \A z \in SetIds \ {x} : sets'[z] = sets[z]
    BY <1>0, <1>5, CreateSetLineage
  <2>2. sets[x].superseded_by = NoSet
    BY <1>2, <2>1
  <2> QED BY <1>0, <1>1, <1>2, <2>1, <2>2
<1>6. ASSUME NEW w, NEW x \in SetIds, NEW y \in SetIds, SupersedeSet(w, x, y)
      PROVE  Backward(s)' /\ Forward(s)'
  <2>1. /\ x # y /\ sets[y].lifecycle # "NONE"
        /\ sets[x].lifecycle \notin TerminalSet \cup {"NONE"}
        /\ sets'[x].lifecycle = "SUPERSEDED"
        /\ sets'[x].superseded_by = y /\ sets'[x].supersedes = sets[x].supersedes
        /\ sets'[y].lifecycle = sets[y].lifecycle
        /\ sets'[y].superseded_by = sets[y].superseded_by /\ sets'[y].supersedes = x
        /\ \A z \in SetIds \ {x, y} : sets'[z] = sets[z]
    BY <1>0, <1>6, SupersedeSetLineage DEF Exists
  <2>2. sets[x].superseded_by = NoSet
    BY <1>2, <2>1 DEF TerminalSet
  <2> QED BY <1>0, <1>1, <1>2, <2>1, <2>2
<1> QED BY <1>4, <1>5, <1>6, StepKinds

\* The two sides of every supersession agree, over chains of any length: whoever
\* a set names as its predecessor was superseded by exactly that set, exists,
\* and has left authority for good.
THEOREM LineageIsKept == Spec => []LineageHolds
<1>1. Init => LineageHolds
  BY DEF Init, LineageHolds, NoRecord
<1>2. TypeOK /\ LineageHolds /\ [Next]_vars => LineageHolds'
  BY LineageStep
<1> QED BY <1>1, <1>2, TypeCorrectness, PTL DEF Spec

-----------------------------------------------------------------------------
(***************************************************************************)
(* The history of the sets.  A step of the engine lets every set evolve,   *)
(* with new relations in the slots of one set only, and moves live         *)
(* currentness only in a commit that is authorized or in a step of the     *)
(* worker authority.                                                       *)
(***************************************************************************)

\* What the history of the sets rests on.
Healthy == Inv /\ \A s \in SetIds : Sound(sets[s])

\* The relations in the slots F of record r are live and have identities that
\* this step hands out, each its own.
Numbered(r, F) ==
    /\ \A p \in F : Live(r.members[p]) /\ r.members[p].id \in next_id .. next_id' - 1
    /\ \A p, q \in F : r.members[p].id = r.members[q].id => p = q

\* A step about set s, where it fills the slots F with new relations.
History(s, F) ==
    /\ next_id <= next_id'
    /\ \A x \in SetIds : Evolves(sets[x], sets'[x], IF x = s THEN F ELSE {})
    /\ F # {} => s \in SetIds
    /\ Numbered(sets'[s], F)

Progress == \E s : \E F \in SUBSET Paths : History(s, F)

\* A set becomes current in the governing epoch, in a commit that is authorized.
Renewed(a, b, s) ==
    /\ b.governing_epoch = epoch /\ b.lifecycle \notin TerminalSet
    /\ b.currentness = "CURRENT" /\ GenerationRoom(b) =>
          \/ a.currentness = "CURRENT" /\ Kin(a, b)
          \/ Authority!AuthorizedFor(b.worker, epoch, s)

\* How authority moves in a step that leaves the authority state alone.
Steers(a, b, s) ==
    /\ Kin(a, b) \/ Authority!AuthorizedFor(b.worker, epoch, s)
    /\ Inherits(a, b) \/ Renewed(a, b, s)

Governed == \A s \in SetIds : Steers(sets[s], sets'[s], s)

\* The records of a healthy engine.
LEMMA HealthyRecords ==
    ASSUME Healthy, NEW s \in SetIds
    PROVE  /\ sets[s] \in SetRecords /\ Right(sets[s]) /\ Sound(sets[s])
           /\ Accounted(sets[s]) /\ sets \in [SetIds -> SetRecords]
BY DEF Healthy, Inv, SetsInv, Right

\* A record that stays keeps its authority.
LEMMA SteersSame ==
    ASSUME NEW a \in SetRecords, NEW s PROVE Steers(a, a, s)
BY DraftedSame DEF Steers, Kin

\* A step that leaves the sets alone.
LEMMA UnchangedHistory ==
    ASSUME Healthy, sets' = sets, next_id' = next_id
    PROVE  Progress /\ Governed
<1>1. \A x \in SetIds : Evolves(sets[x], sets'[x], {}) /\ Steers(sets[x], sets'[x], x)
  BY HealthyRecords, EvolvesSame, SteersSame
<1>2. next_id <= next_id'
  BY DEF Healthy, Inv, RestInv
<1>3. History(NoSet, {})
  BY <1>1, <1>2 DEF History, Numbered
<1> QED BY <1>1, <1>3 DEF Progress, Governed

\* One record moves.
LEMMA OneSetHistory ==
    ASSUME Healthy, NEW s \in SetIds, NEW q, sets' = [sets EXCEPT ![s] = q],
           NEW F \in SUBSET Paths, Evolves(sets[s], q, F), Steers(sets[s], q, s),
           next_id <= next_id',
           Numbered(q, F)
    PROVE  Progress /\ Governed
<1>1. sets'[s] = q /\ \A x \in SetIds \ {s} : sets'[x] = sets[x]
  BY HealthyRecords
<1>2. \A x \in SetIds \ {s} : Evolves(sets[x], sets'[x], {}) /\ Steers(sets[x], sets'[x], x)
  BY <1>1, HealthyRecords, EvolvesSame, SteersSame
<1>3. History(s, F)
  BY <1>1, <1>2 DEF History, Numbered
<1> QED BY <1>1, <1>2, <1>3 DEF Progress, Governed

\* The same when it takes no new relation.
LEMMA OneSetMoves ==
    ASSUME Healthy, NEW s \in SetIds, NEW q, sets' = [sets EXCEPT ![s] = q],
           Evolves(sets[s], q, {}), Steers(sets[s], q, s), next_id' = next_id
    PROVE  Progress /\ Governed
<1>1. sets'[s] = q /\ \A x \in SetIds \ {s} : sets'[x] = sets[x]
  BY HealthyRecords
<1>2. \A x \in SetIds \ {s} : Evolves(sets[x], sets'[x], {}) /\ Steers(sets[x], sets'[x], x)
  BY <1>1, HealthyRecords, EvolvesSame, SteersSame
<1>3. next_id <= next_id'
  BY DEF Healthy, Inv, RestInv
<1>4. History(NoSet, {})
  BY <1>1, <1>2, <1>3 DEF History, Numbered
<1> QED BY <1>1, <1>2, <1>4 DEF Progress, Governed

\* A step that stores a record without a commit.
LEMMA StoreHistory ==
    ASSUME Healthy, NEW s \in SetIds, NEW q, Store(s, q), next_id' = next_id,
           Evolves(sets[s], q, {}), Kin(sets[s], q),
           Inherits(sets[s], q) \/ Renewed(sets[s], q, s)
    PROVE  Progress /\ Governed
<1>1. sets' = [sets EXCEPT ![s] = q] /\ Steers(sets[s], q, s)
  BY DEF Store, Steers
<1> QED BY <1>1, OneSetMoves

\* A commit by an authorized worker.
LEMMA CommitHistory ==
    ASSUME Healthy, NEW s \in SetIds, ~Absent(sets[s]), GenerationRoom(sets[s]),
           NEW F \in SUBSET Paths, NEW q, Prepared(sets[s], q, F),
           \/ Inherits(sets[s], q)
           \/ q.governing_epoch = epoch /\ q.lifecycle \notin TerminalSet,
           NEW w \in Workers \cup {NoWorker}, Authority!AuthorizedFor(w, epoch, s),
           NEW membership \in BOOLEAN, membership => MembershipRoom(sets[s]),
           sets' = [sets EXCEPT ![s] = Commit(q, w, membership)],
           next_id <= next_id',
           Numbered(q, F)
    PROVE  Progress /\ Governed
<1> DEFINE c == Commit(q, w, membership)
<1>1. /\ Evolves(sets[s], c, F) /\ Inherits(q, c) /\ c.worker = w /\ c.lifecycle = q.lifecycle
      /\ c.governing_epoch = q.governing_epoch
      /\ \A p \in Paths : Live(q.members[p]) => c.members[p] = q.members[p]
  BY HealthyRecords, CommitEvolves DEF Prepared
<1> HIDE DEF c
<1>2. Inherits(sets[s], c) \/ Renewed(sets[s], c, s)
  BY <1>1, InheritsTwice DEF Renewed
<1>3. Steers(sets[s], c, s)
  BY <1>1, <1>2 DEF Steers
<1>4. Numbered(c, F)
  BY <1>1 DEF Numbered
<1>5. sets' = [sets EXCEPT ![s] = c]
  BY DEF c
<1> QED BY <1>1, <1>3, <1>4, <1>5, OneSetHistory

\* A commit that takes no new relation.
LEMMA CommitMoves ==
    ASSUME Healthy, NEW s \in SetIds, ~Absent(sets[s]), GenerationRoom(sets[s]),
           NEW q, Prepared(sets[s], q, {}),
           \/ Inherits(sets[s], q)
           \/ q.governing_epoch = epoch /\ q.lifecycle \notin TerminalSet,
           NEW w \in Workers \cup {NoWorker}, Authority!AuthorizedFor(w, epoch, s),
           NEW membership \in BOOLEAN, membership => MembershipRoom(sets[s]),
           sets' = [sets EXCEPT ![s] = Commit(q, w, membership)], next_id' = next_id
    PROVE  Progress /\ Governed
<1>1. next_id <= next_id'
  BY DEF Healthy, Inv, RestInv
<1>2. \E F \in SUBSET Paths :
         Prepared(sets[s], q, F) /\ Numbered(q, F)
  <2> WITNESS {} \in SUBSET Paths
  <2> QED BY DEF Numbered
<1> QED BY <1>1, <1>2, CommitHistory

\* A commit that touches no slot.
LEMMA CommitInPlaceHistory ==
    ASSUME Healthy, NEW s \in SetIds, ~Absent(sets[s]), GenerationRoom(sets[s]),
           NEW q, Prepared(sets[s], q, {}),
           \/ Inherits(sets[s], q)
           \/ q.governing_epoch = epoch /\ q.lifecycle \notin TerminalSet,
           NEW w \in Workers \cup {NoWorker}, Authority!AuthorizedFor(w, epoch, s),
           CommitInPlace(s, q, w), next_id' = next_id
    PROVE  Progress /\ Governed
<1>1. sets' = [sets EXCEPT ![s] = Commit(q, w, FALSE)]
  BY DEF CommitInPlace, CommitSet
<1> QED BY <1>1, CommitMoves
-----------------------------------------------------------------------------
\* The handlers that run under the lock from start to end.

\* create_set() and publish_set().
LEMMA CreateSetHistory ==
    ASSUME Healthy, NEW w \in Workers, NEW s \in SetIds, NEW n \in Minimums,
           NEW admin \in Enablements, NEW conditional \in Policies,
           CreateSet(w, s, n, admin, conditional)
    PROVE  Progress /\ Governed
<1> DEFINE q == Created(n, admin, conditional, epoch, w)
<1>1. n \in Nat /\ admin \in BOOLEAN /\ conditional \in BOOLEAN /\ epoch \in Nat
  BY LimitsAssumption DEF Healthy, Inv, RestInv
<1>2. /\ Evolves(NoRecord, q, {}) /\ q.worker = w /\ q.governing_epoch = epoch
      /\ q.lifecycle = "DECLARED"
  BY <1>1, CreatedEvolves
<1>3. /\ Store(s, q) /\ next_id' = next_id /\ sets[s].lifecycle = "NONE"
      /\ Authority!Authorized(w, epoch) /\ Authority!CoversNamespace(registrations[w].scope)
  BY DEF CreateSet, Quiet, Exists, Created
<1> HIDE DEF q
<1>4. sets[s] = NoRecord
  BY <1>3, HealthyRecords DEF Sound, Absent
<1>5. Authority!AuthorizedFor(w, epoch, s)
  BY <1>3 DEF Authority!AuthorizedFor, Authority!Covers, Authority!CoversNamespace
<1>6. Steers(sets[s], q, s)
  BY <1>2, <1>5 DEF Steers, Renewed, TerminalSet
<1>7. sets' = [sets EXCEPT ![s] = q]
  BY <1>3 DEF Store
<1> QED BY <1>2, <1>3, <1>4, <1>6, <1>7, OneSetMoves

\* What a handler about an existing set knows.
LEMMA MutatesFacts ==
    ASSUME Healthy, NEW operation, NEW w, NEW s \in SetIds, Mutates(operation, w, s)
    PROVE  ~Absent(sets[s]) /\ Authority!AuthorizedFor(w, epoch, s) /\ next_id' = next_id
BY DEF Mutates, Exists, Absent, Quiet

LEMMA PublishSetHistory ==
    ASSUME Healthy, NEW w \in Workers, NEW s \in SetIds, PublishSet(w, s)
    PROVE  Progress /\ Governed
<1>1. /\ Mutates("publish_set", w, s) /\ GenerationRoom(sets[s])
      /\ CommitInPlace(s, ApplyTransition(sets[s], "PUBLISH"), w)
  BY DEF PublishSet
<1> DEFINE q == ApplyTransition(sets[s], "PUBLISH")
<1>2. Prepared(sets[s], q, {}) /\ Inherits(sets[s], q)
  BY <1>1, HealthyRecords, TransitionPrepares
<1> HIDE DEF q
<1> QED BY <1>1, <1>2, MutatesFacts, CommitInPlaceHistory DEF q

\* An idempotent or refused governance request.
LEMMA IdleHistory ==
    ASSUME Healthy, NEW w \in Workers, NEW s \in SetIds, NEW operation, Mutates(operation, w, s),
           NEW e, Store(s, ApplyTransition(sets[s], e)),
           \/ e \in {"MINIMUM_CHANGED", "POLICY_CHANGED", "ADMIN_ENABLED"}
           \/ e = "ADMIN_DISABLED" /\ (~sets[s].admin_enabled \/ ~GenerationRoom(sets[s]))
    PROVE  Progress /\ Governed
<1> DEFINE a == sets[s]
           q == ApplyTransition(a, e)
<1>1. a \in SetRecords /\ Sound(a) /\ Accounted(a) /\ ~Absent(a)
  BY HealthyRecords, MutatesFacts
<1>2. /\ Drafted(a, q, {}) /\ Inherits(a, q) /\ Frame(a, q)
      /\ e # "ADMIN_DISABLED" /\ q.lifecycle = "ADMIN_DISABLED" =>
             ~q.admin_enabled \/ a.lifecycle = "ADMIN_DISABLED"
  BY <1>1, TransitionDrafted, ApplyTransitionFacts
<1>3. GenerationRoom(a) => q.lifecycle = a.lifecycle /\ q.currentness = a.currentness
  BY <1>1, IdleTransition DEF Sound, Switched
<1>4. Store(s, q)
  OBVIOUS
<1> HIDE DEF q
<1>5. Switched(q)
  BY <1>1, <1>2 DEF Sound, Switched, Frame, GenerationRoom
<1>6. GenerationRoom(a) => Alike(a, q)
  BY <1>2, <1>3 DEF Alike, Frame
<1>7. Kin(a, q)
  BY <1>2 DEF Drafted, Kin
<1>8. Evolves(a, q, {})
  BY <1>1, <1>2, <1>3, <1>5, <1>6, StoreEvolves
<1> QED BY <1>2, <1>4, <1>7, <1>8, MutatesFacts, StoreHistory

-----------------------------------------------------------------------------
\* A prepared record, committed.
LEMMA PreparedEvolves ==
    ASSUME NEW a \in SetRecords, Sound(a), ~Absent(a), GenerationRoom(a),
           NEW F, NEW q, Prepared(a, q, F),
           NEW w \in Workers \cup {NoWorker}, NEW b \in BOOLEAN, b => MembershipRoom(a)
    PROVE  LET c == Commit(q, w, b) IN Evolves(a, c, F) /\ Inherits(q, c) /\ c.worker = w
BY CommitEvolves DEF Prepared

\* A commit that leaves the membership alone.
LEMMA InPlaceEvolves ==
    ASSUME NEW a \in SetRecords, Sound(a), ~Absent(a), GenerationRoom(a),
           NEW q, Prepared(a, q, {}),
           NEW w \in Workers \cup {NoWorker}
    PROVE  LET c == Commit(q, w, FALSE) IN Evolves(a, c, {}) /\ Inherits(q, c) /\ c.worker = w
<1> DEFINE F == {}
           b == FALSE
           c == Commit(q, w, b)
<1>1. Prepared(a, q, F) /\ b \in BOOLEAN /\ ~b
  OBVIOUS
<1> HIDE DEF F, b
<1>2. Evolves(a, c, F) /\ Inherits(q, c) /\ c.worker = w
  BY <1>1, PreparedEvolves
<1> HIDE DEF c
<1>3. Evolves(a, c, {}) /\ Inherits(q, c) /\ c.worker = w
  BY <1>2 DEF F
<1> QED BY <1>3 DEF c, b

\* The governance handlers that may turn out to be idempotent.
LEMMA SetMinimumHistory ==
    ASSUME Healthy, NEW w \in Workers, NEW s \in SetIds, NEW n \in Minimums,
           SetMinimumUsableMembers(w, s, n)
    PROVE  Progress /\ Governed
<1> DEFINE r == ApplyTransition(sets[s], "MINIMUM_CHANGED")
           x == [r EXCEPT !.minimum = n]
           q == Recompute(x)
<1>1. /\ Mutates("set_minimum_usable_members", w, s)
      /\ \/ Store(s, r)
         \/ GenerationRoom(r) /\ CommitInPlace(s, q, w)
  BY DEF SetMinimumUsableMembers
<1>2. CASE Store(s, r)
  BY <1>1, <1>2, IdleHistory
<1>3. CASE GenerationRoom(r) /\ CommitInPlace(s, q, w)
  <2>1. Frame(sets[s], r) /\ r \in SetRecords
    BY HealthyRecords, ApplyTransitionFacts
  <2>2. GenerationRoom(sets[s])
    BY <1>3, <2>1 DEF Frame, GenerationRoom
  <2>3. Drafted(sets[s], r, {}) /\ Inherits(sets[s], r)
    BY HealthyRecords, TransitionDrafted
  <2> HIDE DEF r
  <2>4. Drafted(r, x, {}) /\ Inherits(r, x)
    BY <2>1, EditDrafted, LimitsAssumption
  <2> HIDE DEF x
  <2>5. Drafted(sets[s], x, {}) /\ Inherits(sets[s], x)
    BY <2>3, <2>4, HealthyRecords, DraftedTwice, InheritsTwice
  <2>6. Prepared(sets[s], q, {}) /\ Inherits(sets[s], q)
    BY <2>5, HealthyRecords, RecomputePrepares
  <2> HIDE DEF q
  <2> QED BY <1>1, <1>3, <2>2, <2>6, MutatesFacts, CommitInPlaceHistory
<1> QED BY <1>1, <1>2, <1>3

LEMMA SetPolicyHistory ==
    ASSUME Healthy, NEW w \in Workers, NEW s \in SetIds, NEW b \in Policies,
           SetConditionalAuthorityPolicy(w, s, b)
    PROVE  Progress /\ Governed
<1> DEFINE r == ApplyTransition(sets[s], "POLICY_CHANGED")
           x == [r EXCEPT !.conditional = b]
           q == Reevaluated(x)
<1>1. /\ Mutates("set_conditional_authority_policy", w, s)
      /\ \/ Store(s, r)
         \/ GenerationRoom(r) /\ CommitInPlace(s, q, w)
  BY DEF SetConditionalAuthorityPolicy
<1>2. CASE Store(s, r)
  BY <1>1, <1>2, IdleHistory
<1>3. CASE GenerationRoom(r) /\ CommitInPlace(s, q, w)
  <2>1. Frame(sets[s], r) /\ r \in SetRecords /\ b \in BOOLEAN
    BY HealthyRecords, ApplyTransitionFacts, LimitsAssumption
  <2>2. GenerationRoom(sets[s])
    BY <1>3, <2>1 DEF Frame, GenerationRoom
  <2>3. Drafted(sets[s], r, {}) /\ Inherits(sets[s], r)
    BY HealthyRecords, TransitionDrafted
  <2> HIDE DEF r
  <2>4. Drafted(r, x, {}) /\ Inherits(r, x)
    BY <2>1, EditDrafted
  <2> HIDE DEF x
  <2>5. Drafted(sets[s], x, {}) /\ Inherits(sets[s], x)
    BY <2>3, <2>4, HealthyRecords, DraftedTwice, InheritsTwice
  <2>6. Prepared(sets[s], q, {}) /\ Inherits(sets[s], q)
    BY <2>5, HealthyRecords, ReevaluatedPrepares
  <2> HIDE DEF q
  <2> QED BY <1>1, <1>3, <2>2, <2>6, MutatesFacts, CommitInPlaceHistory
<1> QED BY <1>1, <1>2, <1>3

LEMMA SetAdminHistory ==
    ASSUME Healthy, NEW w \in Workers, NEW s \in SetIds, NEW b \in Enablements,
           SetAdminEnabled(w, s, b)
    PROVE  Progress /\ Governed
<1> DEFINE event == IF b THEN "ADMIN_ENABLED" ELSE "ADMIN_DISABLED"
           r == ApplyTransition(sets[s], event)
           x == [r EXCEPT !.admin_enabled = b]
           q == Recompute(x)
<1>1. /\ Mutates("set_admin_enabled", w, s)
      /\ \/ Store(s, r) /\ (b = r.admin_enabled \/ ~GenerationRoom(r))
         \/ GenerationRoom(r) /\ CommitInPlace(s, q, w)
  BY DEF SetAdminEnabled
<1>2. Frame(sets[s], r) /\ r \in SetRecords /\ b \in BOOLEAN
  BY HealthyRecords, ApplyTransitionFacts, LimitsAssumption
<1>3. CASE Store(s, r) /\ (b = r.admin_enabled \/ ~GenerationRoom(r))
  <2>1. \/ event \in {"MINIMUM_CHANGED", "POLICY_CHANGED", "ADMIN_ENABLED"}
        \/ event = "ADMIN_DISABLED" /\ (~sets[s].admin_enabled \/ ~GenerationRoom(sets[s]))
    BY <1>2, <1>3 DEF Frame, GenerationRoom
  <2> HIDE DEF event
  <2> QED BY <1>1, <1>3, <2>1, IdleHistory
<1>4. CASE GenerationRoom(r) /\ CommitInPlace(s, q, w)
  <2>1. GenerationRoom(sets[s])
    BY <1>2, <1>4 DEF Frame, GenerationRoom
  <2>2. Drafted(sets[s], r, {}) /\ Inherits(sets[s], r)
    BY HealthyRecords, TransitionDrafted
  <2> HIDE DEF r, event
  <2>3. Drafted(r, x, {}) /\ Inherits(r, x)
    BY <1>2, EditDrafted
  <2> HIDE DEF x
  <2>4. Drafted(sets[s], x, {}) /\ Inherits(sets[s], x)
    BY <2>2, <2>3, HealthyRecords, DraftedTwice, InheritsTwice
  <2>5. Prepared(sets[s], q, {}) /\ Inherits(sets[s], q)
    BY <2>4, HealthyRecords, RecomputePrepares
  <2> HIDE DEF q
  <2> QED BY <1>1, <1>4, <2>1, <2>5, MutatesFacts, CommitInPlaceHistory
<1> QED BY <1>1, <1>3, <1>4

\* The governance handlers that end a set.
LEMMA WithdrawSetHistory ==
    ASSUME Healthy, NEW w \in Workers, NEW s \in SetIds, WithdrawSet(w, s)
    PROVE  Progress /\ Governed
<1> DEFINE from == sets[s].lifecycle
           r == ApplyTransition(sets[s], "BEGIN_WITHDRAW")
           x == Recompute(r)
           q == Consequences(x, from)
<1>1. Mutates("withdraw_set", w, s) /\ GenerationRoom(sets[s]) /\ CommitInPlace(s, q, w)
  BY DEF WithdrawSet
<1>2. Prepared(sets[s], r, {}) /\ Inherits(sets[s], r)
  BY <1>1, HealthyRecords, TransitionPrepares
<1> HIDE DEF r, from
<1>3. Prepared(sets[s], x, {}) /\ Inherits(sets[s], x)
  BY <1>2, HealthyRecords, RecomputePrepares DEF Prepared
<1> HIDE DEF x
<1>4. Prepared(sets[s], q, {}) /\ Inherits(sets[s], q)
  BY <1>3, HealthyRecords, ConsequencesPrepare
<1> HIDE DEF q
<1> QED BY <1>1, <1>4, MutatesFacts, CommitInPlaceHistory

LEMMA CompleteWithdrawalHistory ==
    ASSUME Healthy, NEW w \in Workers, NEW s \in SetIds, CompleteWithdrawal(w, s)
    PROVE  Progress /\ Governed
<1> DEFINE q == ApplyTransition(sets[s], "COMPLETE_WITHDRAW")
<1>1. Mutates("complete_withdrawal", w, s) /\ GenerationRoom(sets[s]) /\ CommitInPlace(s, q, w)
  BY DEF CompleteWithdrawal
<1>2. Prepared(sets[s], q, {}) /\ Inherits(sets[s], q)
  BY <1>1, HealthyRecords, TransitionPrepares
<1> HIDE DEF q
<1> QED BY <1>1, <1>2, MutatesFacts, CommitInPlaceHistory

LEMMA EndSetHistory ==
    ASSUME Healthy, NEW w \in Workers, NEW s \in SetIds, NEW operation,
           NEW event \in {"REVOKE", "RETIRE"}, EndSet(operation, event, w, s)
    PROVE  Progress /\ Governed
<1> DEFINE from == sets[s].lifecycle
           r == ApplyTransition(sets[s], event)
           q == Consequences(r, from)
<1>1. Mutates(operation, w, s) /\ GenerationRoom(sets[s]) /\ CommitInPlace(s, q, w)
  BY DEF EndSet
<1>2. Prepared(sets[s], r, {}) /\ Inherits(sets[s], r)
  BY <1>1, HealthyRecords, TransitionPrepares
<1> HIDE DEF r, from
<1>3. Prepared(sets[s], q, {}) /\ Inherits(sets[s], q)
  BY <1>2, HealthyRecords, ConsequencesPrepare
<1> HIDE DEF q
<1> QED BY <1>1, <1>3, MutatesFacts, CommitInPlaceHistory

\* The superseded set is committed and its successor names it.
LEMMA SupersedeSetHistory ==
    ASSUME Healthy, NEW w \in Workers, NEW s \in SetIds, NEW y \in SetIds, SupersedeSet(w, s, y)
    PROVE  Progress /\ Governed
<1> DEFINE from == sets[s].lifecycle
           r == ApplyTransition(sets[s], "SUPERSEDE")
           old == [r EXCEPT !.superseded_by = y]
           q == Consequences(old, from)
           c == Commit(q, w, FALSE)
           z == [sets[y] EXCEPT !.supersedes = s]
<1>1. /\ s # y /\ Mutates("supersede_set", w, s) /\ Exists(y) /\ GenerationRoom(sets[s])
      /\ sets' = [sets EXCEPT ![s] = c, ![y].supersedes = s]
  BY DEF SupersedeSet
<1>2. /\ ~Absent(sets[s]) /\ Authority!AuthorizedFor(w, epoch, s)
      /\ next_id' = next_id /\ ~Absent(sets[y])
  BY <1>1, MutatesFacts DEF Exists, Absent
<1>3. r \in SetRecords /\ Prepared(sets[s], r, {}) /\ Inherits(sets[s], r)
  BY <1>1, HealthyRecords, TransitionPrepares
<1> HIDE DEF r, from
<1>4. /\ Drafted(r, old, {}) /\ Inherits(r, old)
      /\ old.lifecycle = r.lifecycle /\ old.admin_enabled = r.admin_enabled
  BY <1>3, EditDrafted, CounterAssumption
<1> HIDE DEF old
<1>5. Prepared(sets[s], old, {}) /\ Inherits(sets[s], old)
  BY <1>3, <1>4, HealthyRecords, DraftedTwice, InheritsTwice DEF Prepared
<1>6. Prepared(sets[s], q, {}) /\ Inherits(sets[s], q)
  BY <1>5, HealthyRecords, ConsequencesPrepare
<1> HIDE DEF q
<1>7. Evolves(sets[s], c, {}) /\ Inherits(q, c) /\ c.worker = w
  BY <1>1, <1>2, <1>6, HealthyRecords, InPlaceEvolves
<1> HIDE DEF c
<1>8. Steers(sets[s], c, s)
  BY <1>2, <1>6, <1>7, InheritsTwice DEF Steers
<1>9. Evolves(sets[y], z, {}) /\ Inherits(sets[y], z) /\ Kin(sets[y], z)
  BY <1>2, HealthyRecords, PredecessorEvolves
<1> HIDE DEF z
<1>10. sets'[s] = c /\ sets'[y] = z /\ \A x \in SetIds \ {s, y} : sets'[x] = sets[x]
  BY <1>1, HealthyRecords DEF z
<1>11. ASSUME NEW x \in SetIds PROVE Evolves(sets[x], sets'[x], {}) /\ Steers(sets[x], sets'[x], x)
  <2>1. CASE x = s
    BY <1>7, <1>8, <1>10, <2>1
  <2>2. CASE x = y
    BY <1>9, <1>10, <2>2 DEF Steers
  <2>3. CASE x \notin {s, y}
    BY <1>10, <2>3, HealthyRecords, EvolvesSame, SteersSame
  <2> QED BY <2>1, <2>2, <2>3
<1>12. next_id <= next_id'
  BY <1>2 DEF Healthy, Inv, RestInv
<1>13. History(NoSet, {})
  BY <1>11, <1>12 DEF History, Numbered
<1> QED BY <1>11, <1>13 DEF Progress, Governed

\* The membership handlers that end a relation.
LEMMA RemoveMemberHistory ==
    ASSUME Healthy, NEW w \in Workers, NEW s \in SetIds, NEW p \in Paths, RemoveMember(w, s, p)
    PROVE  Progress /\ Governed
<1> DEFINE r == ApplyTransition(sets[s], "MEMBER_REMOVED")
           q == Recompute([r EXCEPT !.members[p] = NoMember])
<1>1. /\ Mutates("remove_member", w, s) /\ GenerationRoom(sets[s]) /\ MembershipRoom(sets[s])
      /\ sets' = [sets EXCEPT ![s] = Commit(q, w, TRUE)]
  BY DEF RemoveMember, CommitSet
<1>2. Drafted(sets[s], r, {}) /\ Inherits(sets[s], r)
  BY HealthyRecords, TransitionDrafted
<1> HIDE DEF r
<1>3. Vacant(NoMember) /\ Decided(NoMember) /\ NoMember \in Members
  BY NoMemberFacts DEF Vacant, Decided, NoMember
<1>4. Prepared(sets[s], q, {}) /\ Inherits(sets[s], q)
  BY <1>2, <1>3, HealthyRecords, MemberPrepares
<1> HIDE DEF q
<1> QED BY <1>1, <1>4, MutatesFacts, CommitMoves

LEMMA WithdrawMemberHistory ==
    ASSUME Healthy, NEW w \in Workers, NEW s \in SetIds, NEW p \in Paths, WithdrawMember(w, s, p)
    PROVE  Progress /\ Governed
<1> DEFINE r == ApplyTransition(sets[s], "MEMBER_REMOVED")
           m == sets[s].members[p]
           n == Closed(m, "WITHDRAWN")
           q == Recompute([r EXCEPT !.members[p] = n])
<1>1. /\ Mutates("withdraw_member", w, s) /\ GenerationRoom(sets[s]) /\ MembershipRoom(sets[s])
      /\ Live(m) /\ m.generation < MaxGeneration
      /\ sets' = [sets EXCEPT ![s] = Commit(q, w, TRUE)]
  BY DEF WithdrawMember, CommitSet
<1>2. Drafted(sets[s], r, {}) /\ Inherits(sets[s], r) /\ r.members = sets[s].members
  BY HealthyRecords, TransitionDrafted, ApplyTransitionFacts DEF Frame
<1> HIDE DEF r
<1>3. m \in Members /\ Present(m)
  BY <1>1, HealthyRecords, RecordTypes DEF Live, LiveMember, Present
<1>4. n \in Members /\ Decided(n) /\ Descends(m, n, TRUE)
  BY <1>1, <1>3, ClosedFacts, ClosedDescends DEF TerminalMember
<1> HIDE DEF n
<1>5. Prepared(sets[s], q, {}) /\ Inherits(sets[s], q)
  BY <1>2, <1>4, HealthyRecords, MemberPrepares
<1> HIDE DEF q
<1> QED BY <1>1, <1>5, MutatesFacts, CommitMoves

\* One pending revalidation more or less.
LEMMA PendingHistory ==
    ASSUME Healthy, NEW s \in SetIds, ~Absent(sets[s]), NEW p \in Paths, NEW k \in Nat,
           Store(s, [sets[s] EXCEPT !.members[p].pending = k]), next_id' = next_id
    PROVE  /\ Progress /\ Governed
           /\ Wanes(sets[s], sets'[s]) /\ \A x \in SetIds \ {s} : sets'[x] = sets[x]
<1> DEFINE q == [sets[s] EXCEPT !.members[p].pending = k]
<1>1. Evolves(sets[s], q, {}) /\ Inherits(sets[s], q) /\ Kin(sets[s], q) /\ Wanes(sets[s], q)
  BY HealthyRecords, PendingEvolves
<1> HIDE DEF q
<1>2. Store(s, q)
  BY DEF q
<1>3. Progress /\ Governed
  BY <1>1, <1>2, StoreHistory
<1>4. sets'[s] = q /\ \A x \in SetIds \ {s} : sets'[x] = sets[x]
  BY <1>2, HealthyRecords DEF Store
<1> QED BY <1>1, <1>3, <1>4

\* A ticket is issued, the set keeps its version.
LEMMA BeginMemberRevalidationHistory ==
    ASSUME Healthy, NEW w \in Workers, NEW s \in SetIds, NEW p \in Paths,
           BeginMemberRevalidation(w, s, p)
    PROVE  Progress /\ Governed
<1> DEFINE k == sets[s].members[p].pending + 1
<1>1. /\ ~Absent(sets[s]) /\ next_id' = next_id
      /\ Store(s, [sets[s] EXCEPT !.members[p].pending = k])
  BY DEF BeginMemberRevalidation, Exists, Absent
<1>2. k \in Nat
  BY HealthyRecords, RecordTypes DEF Members
<1> HIDE DEF k
<1> QED BY <1>1, <1>2, PendingHistory

\* All handlers about one set.
LEMMA SetStepHistory ==
    ASSUME Healthy, NEW w \in Workers, NEW s \in SetIds, SetStep(w, s)
    PROVE  Progress /\ Governed
<1>1. CASE RevokeSet(w, s) \/ RetireSet(w, s)
  BY <1>1, EndSetHistory DEF RevokeSet, RetireSet
<1> QED
  BY <1>1, CreateSetHistory, PublishSetHistory, SetMinimumHistory, SetPolicyHistory,
     SetAdminHistory, WithdrawSetHistory, CompleteWithdrawalHistory, SupersedeSetHistory,
     RemoveMemberHistory, WithdrawMemberHistory, BeginMemberRevalidationHistory DEF SetStep

-----------------------------------------------------------------------------
\* No member becomes usable and no binding moves.
Faded == \A s \in SetIds : Wanes(sets[s], sets'[s])

\* A step that leaves sets and identities alone, once more.
LEMMA StillHistory ==
    ASSUME Healthy, sets' = sets, next_id' = next_id
    PROVE  Progress /\ Governed /\ Faded
BY UnchangedHistory DEF Faded, Wanes

\* apply_view_locked(): the indexed sets, each by its own step.
LEMMA ApplyToDependentsHistory ==
    ASSUME Healthy, NEW p \in Paths, NEW view \in Views, ApplyToDependents(p, view),
           next_id' = next_id
    PROVE  Progress /\ Governed /\ Faded
<1>1. ASSUME NEW s \in SetIds
      PROVE  /\ Evolves(sets[s], sets'[s], {}) /\ Steers(sets[s], sets'[s], s)
             /\ Wanes(sets[s], sets'[s])
  <2> DEFINE q == ApplyView(sets[s], p, view)
  <2>1. sets'[s] = q \/ sets'[s] = sets[s]
    BY DEF ApplyToDependents
  <2>2. /\ Evolves(sets[s], q, {}) /\ Inherits(sets[s], q) /\ Kin(sets[s], q)
        /\ Wanes(sets[s], q)
    BY HealthyRecords, ApplyViewEvolves
  <2>3. Evolves(sets[s], sets[s], {}) /\ Steers(sets[s], sets[s], s)
    BY HealthyRecords, EvolvesSame, SteersSame
  <2> HIDE DEF q
  <2> QED BY <2>1, <2>2, <2>3 DEF Steers, Wanes
<1>2. next_id <= next_id'
  BY DEF Healthy, Inv, RestInv
<1>3. History(NoSet, {})
  BY <1>1, <1>2 DEF History, Numbered
<1> QED BY <1>1, <1>3 DEF Progress, Governed, Faded

\* One pending revalidation is released.
LEMMA ReleasedHistory ==
    ASSUME Healthy, NEW s \in SetIds, NEW p \in Paths, Present(sets[s].members[p]),
           sets[s].members[p].pending > 0,
           Store(s, [sets[s] EXCEPT !.members[p].pending = @ - 1]), next_id' = next_id
    PROVE  Progress /\ Governed /\ Faded
<1> DEFINE k == sets[s].members[p].pending - 1
<1>1. Store(s, [sets[s] EXCEPT !.members[p].pending = k])
  OBVIOUS
<1>2. k \in Nat
  BY HealthyRecords, RecordTypes DEF Members
<1>3. ~Absent(sets[s])
  BY HealthyRecords DEF Right, Blank
<1> HIDE DEF k
<1>4. /\ Progress /\ Governed
      /\ Wanes(sets[s], sets'[s]) /\ \A x \in SetIds \ {s} : sets'[x] = sets[x]
  BY <1>1, <1>2, <1>3, PendingHistory
<1> QED BY <1>4 DEF Faded, Wanes

\* abandon_member_revalidation().
LEMMA AbandonHistory ==
    ASSUME Healthy, NEW k \in 1 .. Len(tickets), AbandonMemberRevalidation(k)
    PROVE  Progress /\ Governed /\ Faded
<1> DEFINE s == tickets[k].set
           id == tickets[k].member.id
           p == Slot(sets[s].members, id)
<1>1. tickets[k] \in Tickets
  BY DEF Healthy, Inv, RestInv
<1>2. s \in SetIds
  BY <1>1 DEF Tickets
<1>3. /\ Holds(sets[s].members, id) /\ sets[s].members[p].pending > 0
      /\ Store(s, [sets[s] EXCEPT !.members[p].pending = @ - 1]) /\ next_id' = next_id
  BY DEF AbandonMemberRevalidation, Quiet
<1>4. p \in Paths /\ Present(sets[s].members[p])
  BY <1>3, SlotFacts
<1> HIDE DEF s, p
<1> QED BY <1>2, <1>3, <1>4, ReleasedHistory

\* All handlers about a view revive nothing.
LEMMA ViewStepHistory ==
    ASSUME Healthy, ViewStep
    PROVE  Progress /\ Governed /\ Faded
<1>1. ASSUME NEW w \in Callers, NEW p \in Paths, NEW view \in Reports,
             DeclarePathAuthority(w, p, view) \/ ApplyPathAuthority(w, p, view)
      PROVE  Progress /\ Governed /\ Faded
  <2>1. ApplyToDependents(p, view) /\ next_id' = next_id
    BY <1>1 DEF DeclarePathAuthority, ApplyPathAuthority, Quiet
  <2> QED BY <2>1, ReportsAreViews, ApplyToDependentsHistory
<1>2. ASSUME NEW p \in Paths, NEW view \in Reports \cup {NoView}, ExternalChange(p, view)
      PROVE  Progress /\ Governed /\ Faded
  BY <1>2, StillHistory DEF ExternalChange, engine_vars
<1> QED BY <1>1, <1>2, AbandonHistory DEF ViewStep
-----------------------------------------------------------------------------
\* Worker authority.

\* The sets in "lost" lose live currentness.
LEMMA UncurrentHistory ==
    ASSUME Healthy, NEW lost, NEW e \in Nat, Uncurrent(lost, e),
           \A s \in SetIds : s \in lost => ~Absent(sets[s])
    PROVE  /\ Progress
           /\ \A s \in SetIds :
                 /\ Kin(sets[s], sets'[s])
                 /\ IF s \in lost THEN sets'[s].currentness = "REVALIDATION_REQUIRED"
                                  ELSE sets'[s] = sets[s]
<1>1. ASSUME NEW s \in SetIds
      PROVE  /\ Evolves(sets[s], sets'[s], {}) /\ Kin(sets[s], sets'[s])
             /\ IF s \in lost THEN sets'[s].currentness = "REVALIDATION_REQUIRED"
                              ELSE sets'[s] = sets[s]
  <2> DEFINE q == [BumpAll(sets[s]) EXCEPT !.currentness = "REVALIDATION_REQUIRED",
                                          !.governing_epoch = e]
  <2>1. sets'[s] = IF s \in lost THEN q ELSE sets[s]
    BY DEF Uncurrent
  <2>2. s \in lost => Evolves(sets[s], q, {}) /\ Kin(sets[s], q)
                      /\ q.currentness = "REVALIDATION_REQUIRED"
    BY HealthyRecords, UncurrentEvolves
  <2>3. Evolves(sets[s], sets[s], {})
    BY HealthyRecords, EvolvesSame
  <2> HIDE DEF q
  <2> QED BY <2>1, <2>2, <2>3 DEF Kin
<1>2. next_id <= next_id'
  <2>1. next_id' = next_id
    BY DEF Uncurrent
  <2> QED BY <2>1 DEF Healthy, Inv, RestInv
<1>3. History(NoSet, {})
  BY <1>1, <1>2 DEF History, Numbered
<1> QED BY <1>1, <1>3 DEF Progress

\* The sets that a fence or an epoch takes live currentness from.
LEMMA FenceHistory ==
    ASSUME Healthy, NEW w \in Workers, FenceWorker(w)
    PROVE  /\ Progress
           /\ \A s \in SetIds :
                 /\ Kin(sets[s], sets'[s])
                 /\ \/ sets'[s] = sets[s] /\ (Absent(sets[s]) \/ sets[s].worker[1] # w[1])
                    \/ sets'[s].currentness = "REVALIDATION_REQUIRED"
<1> DEFINE lost == {s \in SetIds : Exists(s) /\ sets[s].worker[1] = w[1]}
<1>1. Uncurrent(lost, epoch) /\ epoch \in Nat
  BY DEF FenceWorker, Healthy, Inv, RestInv
<1>2. \A s \in SetIds : s \in lost <=> ~Absent(sets[s]) /\ sets[s].worker[1] = w[1]
  BY DEF Exists, Absent
<1> HIDE DEF lost
<1>3. /\ Progress
      /\ \A s \in SetIds : /\ Kin(sets[s], sets'[s])
                           /\ IF s \in lost THEN sets'[s].currentness = "REVALIDATION_REQUIRED"
                                            ELSE sets'[s] = sets[s]
  BY <1>1, <1>2, UncurrentHistory
<1> QED BY <1>2, <1>3

\* A new epoch takes it from every set.
LEMMA EpochHistory ==
    ASSUME Healthy, NEW w \in Workers, NEW session \in Sessions, AdvanceEpoch(w, session)
    PROVE  /\ Progress
           /\ \A s \in SetIds :
                 /\ Kin(sets[s], sets'[s])
                 /\ \/ sets'[s] = sets[s] /\ Absent(sets[s])
                    \/ sets'[s].currentness = "REVALIDATION_REQUIRED"
<1> DEFINE lost == {s \in SetIds : Exists(s)}
           e == epoch + 1
<1>1. Uncurrent(lost, e) /\ e \in Nat
  BY DEF AdvanceEpoch, Healthy, Inv, RestInv
<1>2. \A s \in SetIds : s \in lost <=> ~Absent(sets[s])
  BY DEF Exists, Absent
<1> HIDE DEF lost, e
<1>3. /\ Progress
      /\ \A s \in SetIds : /\ Kin(sets[s], sets'[s])
                           /\ IF s \in lost THEN sets'[s].currentness = "REVALIDATION_REQUIRED"
                                            ELSE sets'[s] = sets[s]
  BY <1>1, <1>2, UncurrentHistory
<1> QED BY <1>2, <1>3

\* All handlers about workers.
LEMMA AuthorityStepHistory ==
    ASSUME Healthy, AuthorityStep
    PROVE  Progress /\ \A s \in SetIds : Kin(sets[s], sets'[s])
<1>1. CASE \/ \E w \in Workers, scope \in Scopes, session \in Sessions :
                 RegisterPublisher(w, scope, session)
           \/ \E w \in Workers : UnregisterPublisher(w)
  <2>1. sets' = sets /\ next_id' = next_id
    BY <1>1 DEF RegisterPublisher, UnregisterPublisher, engine_vars
  <2> QED BY <2>1, StillHistory DEF Kin
<1> QED BY <1>1, FenceHistory, EpochHistory DEF AuthorityStep

-----------------------------------------------------------------------------
\* A call that passes the first check under the lock.
LEMMA AdmittedFacts ==
    ASSUME Healthy, NEW t \in Threads, Admitted(calls[t])
    PROVE  /\ ~Absent(sets[calls[t].set])
           /\ Authority!AuthorizedFor(calls[t].worker, epoch, calls[t].set)
BY DEF Admitted, Exists, Absent, Authority!AuthorizedFor, Authority!Authorized

\* A handler that edits one member of a set and commits.
LEMMA EditCommitHistory ==
    ASSUME Healthy, NEW s \in SetIds, NEW p \in Paths, NEW n \in Members, Decided(n),
           Descends(sets[s].members[p], n, TRUE),
           NEW w \in Workers \cup {NoWorker}, Authority!AuthorizedFor(w, epoch, s),
           ~Absent(sets[s]), GenerationRoom(sets[s]),
           CommitInPlace(s, Recompute([sets[s] EXCEPT !.members[p] = n]), w), next_id' = next_id
    PROVE  Progress /\ Governed
<1> DEFINE q == Recompute([sets[s] EXCEPT !.members[p] = n])
<1>1. Prepared(sets[s], q, {}) /\ Inherits(sets[s], q)
  BY HealthyRecords, DraftedSame, MemberPrepares
<1>2. CommitInPlace(s, q, w)
  OBVIOUS
<1> HIDE DEF q
<1> QED BY <1>1, <1>2, CommitInPlaceHistory

\* The same without a commit, for an edit that the set does not show.
LEMMA EditStoreHistory ==
    ASSUME Healthy, NEW s \in SetIds, NEW p \in Paths, NEW n \in Members, Decided(n),
           Descends(sets[s].members[p], n, TRUE),
           n.lifecycle = sets[s].members[p].lifecycle,
           n.currentness = sets[s].members[p].currentness,
           ~Absent(sets[s]),
           Store(s, Recompute([sets[s] EXCEPT !.members[p] = n])), next_id' = next_id
    PROVE  Progress /\ Governed
<1> DEFINE r == sets[s]
           ms == [r.members EXCEPT ![p] = n]
           x == [r EXCEPT !.members = ms]
           q == Recompute(x)
<1>1. r \in SetRecords /\ Sound(r) /\ Accounted(r) /\ r.members \in [Paths -> Members]
  BY HealthyRecords, RecordTypes
<1>2. [r EXCEPT !.members[p] = n] = x
  OBVIOUS
<1>3. Prepared(r, q, {}) /\ Inherits(r, q)
  <2>1. LET y == Recompute([r EXCEPT !.members[p] = n])
        IN  Prepared(r, y, {}) /\ Inherits(r, y)
    BY <1>1, DraftedSame, MemberPrepares
  <2> HIDE DEF x
  <2> QED BY <1>2, <2>1
<1>4. Store(s, q)
  BY <1>2
<1>5. ms \in [Paths -> Members] /\ \A y \in Paths : ms[y] = IF y = p THEN n ELSE r.members[y]
  BY <1>1
<1> HIDE DEF ms
<1>6. /\ x \in SetRecords /\ x.members = ms /\ x.conditional = r.conditional
      /\ x.lifecycle = r.lifecycle /\ x.minimum = r.minimum
      /\ x.admin_enabled = r.admin_enabled
  BY <1>1, <1>5, WithMembers
<1>7. x.currentness = r.currentness
  BY <1>1 DEF SetRecords
<1> HIDE DEF x, r
<1>8. /\ q \in SetRecords /\ Frame(x, q) /\ q.currentness = x.currentness
  BY <1>6, RecomputeFacts, RecomputeDrafted
<1>9. \A y \in Paths : /\ Usable(ms[y]) <=> Usable(r.members[y])
                       /\ Live(ms[y]) <=> Live(r.members[y])
                       /\ ms[y].id = r.members[y].id
  BY <1>5 DEF Usable, Live, Descends, r
<1>10. GenerationRoom(r) => q.lifecycle = r.lifecycle
  BY <1>1, <1>6, <1>9, RecomputeSteady DEF Sound, Switched
<1> HIDE DEF q
<1>11. GenerationRoom(r) => Alike(r, q) /\ q.currentness = r.currentness
  BY <1>6, <1>7, <1>8, <1>9, <1>10 DEF Alike, Frame
<1>12. Switched(q) /\ Kin(r, q)
  BY <1>3 DEF Prepared, Drafted, Switched, Kin
<1>13. Evolves(r, q, {})
  BY <1>1, <1>3, <1>11, <1>12, StoreEvolves DEF Prepared, r
<1> QED BY <1>3, <1>4, <1>12, <1>13, StoreHistory DEF r

\* set_member_admin_enabled().
LEMMA SetMemberAdminEnabledHistory ==
    ASSUME Healthy, NEW t \in Threads, SetMemberAdminEnabled(t)
    PROVE  Progress /\ Governed
<1> DEFINE c == calls[t]
           s == c.set
           r == sets[s]
           p == Slot(r.members, c.member)
           o == r.members[p]
           g == o.generation + 1
           v == o.watermark + 1
           m == [o EXCEPT !.admin_enabled = c.enabled, !.generation = g, !.watermark = v]
           n == EvaluateMember(m, c.views[p], r.conditional, c.enabled)
<1>1. /\ c.op = "set_member_admin_enabled" /\ next_id' = next_id
      /\ CommitInPlace(s, Recompute([r EXCEPT !.members[p] = n]), c.worker)
  BY DEF SetMemberAdminEnabled, Ready
<1>2. /\ Admitted(c) /\ GenerationRoom(r)
      /\ Holds(r.members, c.member) /\ o.generation < MaxGeneration
  BY DEF SetMemberAdminEnabled, AdminAdmissible
<1>3. s \in SetIds /\ c.worker \in Workers \cup {NoWorker} /\ c.enabled \in BOOLEAN
  BY <1>1, CallType DEF Healthy, WellFormed
<1>4. p \in Paths /\ Present(o)
  BY <1>2, SlotFacts
<1>5. c.views[p] \in Views
  BY <1>4, CallType DEF Healthy
<1>6. r.conditional \in BOOLEAN /\ o \in Members
  BY <1>3, <1>4, HealthyRecords, RecordTypes
<1>7. g \in Generations /\ v \in Nat /\ o.watermark < v
  <2>1. o.generation \in Nat /\ o.watermark \in Nat
    BY <1>6, MemberNumbers
  <2> HIDE DEF o, r
  <2> QED BY <1>2, <2>1, CounterAssumption DEF Generations
<1>8. ~Absent(r) /\ Authority!AuthorizedFor(c.worker, epoch, s)
  BY <1>2, AdmittedFacts
<1> HIDE DEF g, v, o
<1>9. m \in Members /\ m.id = o.id /\ m.watermark = v /\ m.lifecycle = o.lifecycle
  BY <1>3, <1>6, <1>7 DEF Members
<1> HIDE DEF m
<1>10. /\ n \in Members /\ n.id = m.id /\ (Present(n) <=> Present(m))
       /\ m.watermark <= n.watermark /\ Decided(n)
  BY <1>3, <1>5, <1>6, <1>9, EvaluateMemberFacts, Evaluation
<1> HIDE DEF n
<1>11. Descends(o, n, TRUE)
  <2>1. o.watermark \in Nat /\ n.watermark \in Nat
    BY <1>6, <1>10 DEF Members
  <2>2. o.watermark < n.watermark
    BY <1>7, <1>9, <1>10, <2>1
  <2> QED BY <1>4, <1>9, <1>10, <2>1, <2>2 DEF Descends, Present
<1> HIDE DEF p, s
<1> QED BY <1>1, <1>2, <1>3, <1>4, <1>8, <1>10, <1>11, EditCommitHistory DEF o

\* What revalidate_member() and complete_member_revalidation() make of a member.
LEMMA VersionedFor ==
    ASSUME NEW m \in Members, Live(m), m.generation < MaxGeneration,
           NEW view \in Views, NEW conditional \in BOOLEAN
    PROVE  LET n == Revalidated(m, view, conditional)
               v == Versioned(m, n)
           IN  /\ v \in Members /\ Decided(v) /\ Descends(m, v, TRUE)
               /\ ~Moved(m, n) => v.lifecycle = m.lifecycle /\ v.currentness = m.currentness
<1> DEFINE n == Revalidated(m, view, conditional)
           v == Versioned(m, n)
<1>1. /\ n \in Members /\ Decided(n) /\ (\A still : Descends(m, n, still))
      /\ n.generation = m.generation
  BY RevalidatedDescends, RevalidatedFacts
<1> HIDE DEF n
<1>2. v \in Members /\ Decided(v) /\ \A still : Descends(m, v, still)
  BY <1>1, VersionedDescends
<1>3. ~Moved(m, n) => v = n /\ n.lifecycle = m.lifecycle /\ n.currentness = m.currentness
  BY DEF Moved, Versioned
<1> HIDE DEF v
<1>4. Descends(m, v, TRUE)
  BY <1>2
<1> QED BY <1>2, <1>3, <1>4 DEF n, v

\* revalidate_member().
LEMMA RevalidateMemberHistory ==
    ASSUME Healthy, NEW t \in Threads, RevalidateMember(t)
    PROVE  Progress /\ Governed
<1> DEFINE c == calls[t]
           s == c.set
           r == sets[s]
           p == Slot(r.members, c.member)
           m == r.members[p]
           n == Revalidated(m, c.views[p], r.conditional)
           v == Versioned(m, n)
           q == Recompute([r EXCEPT !.members[p] = v])
<1>1. /\ c.op = "revalidate_member" /\ next_id' = next_id
      /\ \/ Moved(m, n) /\ CommitInPlace(s, q, c.worker)
         \/ ~Moved(m, n) /\ Store(s, q)
  BY DEF RevalidateMember, Ready
<1>2. /\ Admitted(c) /\ GenerationRoom(r) /\ Live(m)
      /\ Holds(r.members, c.member) /\ m.generation < MaxGeneration
  BY DEF RevalidateMember, RevalidateMemberAdmissible
<1>3. s \in SetIds /\ c.worker \in Workers \cup {NoWorker}
  BY <1>1, CallType DEF Healthy, WellFormed
<1>4. p \in Paths
  BY <1>2, SlotFacts
<1>5. c.views[p] \in Views /\ r.conditional \in BOOLEAN /\ m \in Members
  BY <1>3, <1>4, CallType, HealthyRecords, RecordTypes DEF Healthy
<1>6. ~Absent(r) /\ Authority!AuthorizedFor(c.worker, epoch, s)
  BY <1>2, AdmittedFacts
<1> HIDE DEF m
<1>7. /\ v \in Members /\ Decided(v) /\ Descends(m, v, TRUE)
      /\ ~Moved(m, n) => v.lifecycle = m.lifecycle /\ v.currentness = m.currentness
  BY <1>2, <1>5, VersionedFor
<1> HIDE DEF n, v, p, s
<1> QED BY <1>1, <1>2, <1>3, <1>4, <1>6, <1>7, EditCommitHistory, EditStoreHistory DEF m

\* complete_member_revalidation(), and its refusal, which consumes the ticket.
LEMMA CompleteMemberRevalidationHistory ==
    ASSUME Healthy, NEW t \in Threads, CompleteMemberRevalidation(t)
    PROVE  Progress /\ Governed
<1> DEFINE c == calls[t]
           s == c.set
           r == sets[s]
           p == Slot(r.members, c.member)
           m == r.members[p]
           n == Revalidated(m, c.views[p], r.conditional)
           v == Versioned(m, n)
           k == v.pending - 1
           x == [v EXCEPT !.pending = k]
           q == Recompute([r EXCEPT !.members[p] = x])
<1>1. /\ c.op = "complete_member_revalidation" /\ next_id' = next_id
      /\ \/ Moved(m, n) /\ CommitInPlace(s, q, c.worker)
         \/ ~Moved(m, n) /\ Store(s, q)
  BY DEF CompleteMemberRevalidation, Ready
<1>2. /\ Admitted(c) /\ GenerationRoom(r) /\ Live(m) /\ m.pending > 0
      /\ Holds(r.members, c.member) /\ m.generation < MaxGeneration
  BY DEF CompleteMemberRevalidation, Answerable, TicketCurrent
<1>3. s \in SetIds /\ c.worker \in Workers \cup {NoWorker}
  BY <1>1, CallType DEF Healthy, WellFormed
<1>4. p \in Paths
  BY <1>2, SlotFacts
<1>5. c.views[p] \in Views /\ r.conditional \in BOOLEAN /\ m \in Members
  BY <1>3, <1>4, CallType, HealthyRecords, RecordTypes DEF Healthy
<1>6. ~Absent(r) /\ Authority!AuthorizedFor(c.worker, epoch, s)
  BY <1>2, AdmittedFacts
<1> HIDE DEF m
<1>7. /\ v \in Members /\ Decided(v) /\ Descends(m, v, TRUE)
      /\ ~Moved(m, n) => v.lifecycle = m.lifecycle /\ v.currentness = m.currentness
  BY <1>2, <1>5, VersionedFor
<1>8. v.pending = m.pending
  BY <1>2, <1>5, RevalidatedFacts, VersionedFacts
<1> HIDE DEF n, v
<1>9. k \in Nat
  BY <1>2, <1>7, <1>8 DEF Members
<1> HIDE DEF k
<1>10. /\ x \in Members /\ x.id = v.id /\ x.watermark = v.watermark /\ x.generation = v.generation
       /\ x.lifecycle = v.lifecycle /\ x.currentness = v.currentness
       /\ x.admin_enabled = v.admin_enabled
  BY <1>7, <1>9 DEF Members
<1> HIDE DEF x
<1>11. Decided(x) /\ Descends(m, x, TRUE)
  BY <1>7, <1>10 DEF Decided, Descends, Pins, Present
<1> HIDE DEF p, s
<1> QED
  BY <1>1, <1>2, <1>3, <1>4, <1>6, <1>7, <1>10, <1>11, EditCommitHistory, EditStoreHistory DEF m

LEMMA RefuseCompletionHistory ==
    ASSUME Healthy, NEW t \in Threads, RefuseCompletion(t)
    PROVE  Progress /\ Governed
<1> DEFINE c == calls[t]
           s == c.set
           p == Slot(sets[s].members, c.member)
<1>1. /\ c.op = "complete_member_revalidation" /\ next_id' = next_id
      /\ Holds(sets[s].members, c.member) /\ sets[s].members[p].pending > 0
      /\ Store(s, [sets[s] EXCEPT !.members[p].pending = @ - 1])
  BY DEF RefuseCompletion, Ready, Answerable
<1>2. s \in SetIds
  BY <1>1, CallType DEF Healthy, WellFormed
<1>3. p \in Paths /\ Present(sets[s].members[p])
  BY <1>1, SlotFacts
<1> HIDE DEF s, p
<1> QED BY <1>1, <1>2, <1>3, ReleasedHistory

-----------------------------------------------------------------------------
\* Numbering a set of paths by its smaller elements is injective.
LEMMA Ranks ==
    ASSUME NEW S \in SUBSET Paths
    PROVE  LET rank(p) == Cardinality({q \in S : q < p})
           IN  /\ Cardinality(S) \in Nat
               /\ \A p \in S : rank(p) \in 0 .. Cardinality(S) - 1
               /\ \A p, q \in S : rank(p) = rank(q) => p = q
<1> DEFINE B(p) == {q \in S : q < p}
<1>1. IsFiniteSet(S) /\ S \subseteq Nat
  BY PathsAssumption, FS_Subset
<1>2. Cardinality(S) \in Nat
  BY <1>1, FS_CardinalityType
<1>3. ASSUME NEW p \in S
      PROVE  Cardinality(B(p)) \in 0 .. Cardinality(S) - 1
  <2>1. B(p) \in SUBSET S /\ p \notin B(p)
    BY <1>1
  <2> HIDE DEF B
  <2>2. /\ IsFiniteSet(B(p)) /\ Cardinality(B(p)) <= Cardinality(S)
        /\ Cardinality(S) = Cardinality(B(p)) => S = B(p)
    BY <1>1, <2>1, FS_Subset
  <2>3. Cardinality(B(p)) # Cardinality(S) /\ Cardinality(B(p)) \in Nat
    BY <2>1, <2>2, FS_CardinalityType
  <2> QED BY <1>2, <2>2, <2>3
<1>4. ASSUME NEW p \in S, NEW q \in S, p < q
      PROVE  Cardinality(B(p)) # Cardinality(B(q))
  <2>1. p \in B(q) /\ p \notin B(p) /\ B(q) \in SUBSET S
    BY <1>1, <1>4
  <2>3. ASSUME NEW x \in B(p) PROVE x \in B(q)
    <3>1. x \in Nat /\ p \in Nat /\ q \in Nat /\ x < p
      BY <1>1
    <3>2. x < q /\ x \in S
      BY <3>1, <1>4
    <3> QED BY <3>2
  <2>4. B(p) \in SUBSET B(q)
    BY <2>3
  <2> HIDE DEF B
  <2>2. IsFiniteSet(B(q))
    BY <1>1, <2>1, FS_Subset
  <2> QED BY <2>1, <2>2, <2>4, FS_Subset
<1>5. ASSUME NEW p \in S, NEW q \in S, Cardinality(B(p)) = Cardinality(B(q))
      PROVE  p = q
  <2>1. p < q \/ q < p \/ p = q
    BY <1>1
  <2> HIDE DEF B
  <2> QED BY <1>4, <1>5, <2>1
<1> QED BY <1>2, <1>3, <1>5

\* The slots F are filled anew, the others go on.
Refilled(a, ms, F) ==
    /\ \A p \in Paths : Decided(a.members[p]) => Decided(ms[p])
    /\ \A p \in Paths \ F : Vacant(ms[p]) \/ Descends(a.members[p], ms[p], TRUE)

\* A refilled membership table, recomputed and ready to be committed.
LEMMA RefilledPrepares ==
    ASSUME NEW a \in SetRecords, NEW r, Drafted(a, r, {}), Inherits(a, r),
           NEW ms \in [Paths -> Members], NEW F, Refilled(r, ms, F)
    PROVE  LET q == Recompute([r EXCEPT !.members = ms])
           IN  Prepared(a, q, F) /\ Inherits(a, q) /\ q.members = ms
BY MembershipPrepares, ZenonT(30) DEF Refilled

\* add_members_internal(): the requested slots are filled anew.
LEMMA AddMembersHistory ==
    ASSUME Healthy, NEW t \in Threads, AddMembers(t)
    PROVE  Progress /\ Governed
<1> DEFINE c == calls[t]
           s == c.set
           F == c.scope
           r == ApplyTransition(sets[s], "MEMBER_ADDED")
           rank(p) == Cardinality({q \in F : q < p})
           id(p) == next_id + rank(p)
           ms == [p \in Paths |->
                    IF p \in F THEN NewMember(id(p), c.requests[p], c.views[p], r.conditional)
                               ELSE r.members[p]]
           q == Recompute([r EXCEPT !.members = ms])
<1>1. /\ c.op = "add_members" /\ next_id' = next_id + Cardinality(F)
      /\ sets' = [sets EXCEPT ![s] = Commit(q, c.worker, TRUE)]
  BY DEF AddMembers, Ready, Issue, CommitSet
<1>2. Admitted(c) /\ GenerationRoom(sets[s]) /\ MembershipRoom(sets[s])
  BY DEF AddMembers, AddAdmissible
<1>3. /\ s \in SetIds /\ F \in SUBSET Paths /\ c.worker \in Workers \cup {NoWorker}
      /\ \A p \in Paths : c.views[p] \in Views /\ c.requests[p] \in Nat
  BY <1>1, CallType DEF Healthy, WellFormed
<1>4. next_id \in Nat
  BY DEF Healthy, Inv, RestInv
<1>5. ~Absent(sets[s]) /\ Authority!AuthorizedFor(c.worker, epoch, s)
  BY <1>2, AdmittedFacts
<1>6. /\ Cardinality(F) \in Nat
      /\ \A p \in F : rank(p) \in 0 .. Cardinality(F) - 1
      /\ \A x, y \in F : rank(x) = rank(y) => x = y
  BY <1>3, Ranks
<1>7. /\ sets[s] \in SetRecords /\ r \in SetRecords
      /\ Drafted(sets[s], r, {}) /\ Inherits(sets[s], r)
  BY <1>3, HealthyRecords, ApplyTransitionFacts, TransitionDrafted
<1> HIDE DEF r, F, rank
<1>8. /\ \A p \in F : id(p) \in Nat /\ id(p) \in next_id .. next_id' - 1
      /\ \A x, y \in F : id(x) = id(y) => x = y
      /\ next_id <= next_id'
  BY <1>1, <1>4, <1>6
<1> HIDE DEF id
<1>9. r.conditional \in BOOLEAN /\ r.members \in [Paths -> Members]
  BY <1>7, RecordTypes
<1>10. ASSUME NEW p \in F
       PROVE  LET n == NewMember(id(p), c.requests[p], c.views[p], r.conditional)
              IN  n \in Members /\ n.id = id(p) /\ Decided(n) /\ Live(n)
  BY <1>3, <1>8, <1>9, NewMemberFacts, NewMemberDecided
<1>11. ASSUME NEW p \in Paths
       PROVE  /\ ms[p] \in Members
              /\ p \in F => ms[p].id = id(p) /\ Decided(ms[p]) /\ Live(ms[p])
              /\ p \notin F => ms[p] = r.members[p]
  BY <1>9, <1>10
<1>12. ms \in [Paths -> Members]
  BY <1>11
<1> HIDE DEF ms
<1>13. /\ \A p \in Paths : Decided(r.members[p]) => Decided(ms[p])
       /\ \A p \in Paths \ F : Vacant(ms[p]) \/ Descends(r.members[p], ms[p], TRUE)
  BY <1>9, <1>11, DescendsSame
<1>14. Prepared(sets[s], q, F) /\ Inherits(sets[s], q) /\ q.members = ms
  <2>1. Refilled(r, ms, F)
    BY <1>13 DEF Refilled
  <2> HIDE DEF s
  <2> QED BY <1>7, <1>12, <2>1, RefilledPrepares
<1> HIDE DEF q
<1>15. Numbered(q, F)
  BY <1>3, <1>8, <1>11, <1>14 DEF Numbered
<1> HIDE DEF s
<1> QED BY <1>1, <1>2, <1>3, <1>5, <1>8, <1>14, <1>15, CommitHistory DEF s

\* replace_member(): the predecessor is closed and the successor is new.
LEMMA ReplaceMemberHistory ==
    ASSUME Healthy, NEW t \in Threads, ReplaceMember(t)
    PROVE  Progress /\ Governed
<1> DEFINE c == calls[t]
           s == c.set
           y == Successor(c)
           p == Slot(sets[s].members, c.member)
           r == ApplyTransition(sets[s], "MEMBER_REPLACED")
           m == sets[s].members[p]
           o == Closed(m, "SUPERSEDED")
           n == NewMember(next_id, c.requests[y], c.views[y], r.conditional)
           ms == [r.members EXCEPT ![p] = o, ![y] = n]
           q == Recompute([r EXCEPT !.members = ms])
           F == {y}
<1>1. /\ c.op = "replace_member" /\ next_id' = next_id + 1
      /\ sets' = [sets EXCEPT ![s] = Commit(q, c.worker, TRUE)]
  BY DEF ReplaceMember, Ready, Issue, CommitSet
<1>2. /\ Admitted(c) /\ GenerationRoom(sets[s]) /\ MembershipRoom(sets[s])
      /\ Holds(sets[s].members, c.member) /\ m.generation < MaxGeneration
  BY DEF ReplaceMember, ReplaceAdmissible
<1>3. /\ s \in SetIds /\ c.worker \in Workers \cup {NoWorker}
      /\ y \in Paths /\ c.views[y] \in Views /\ c.requests[y] \in Nat
  BY <1>1, CallType DEF Healthy, WellFormed, Successor
<1>4. p \in Paths /\ Present(m)
  BY <1>2, SlotFacts
<1>5. next_id \in Nat
  BY DEF Healthy, Inv, RestInv
<1>6. ~Absent(sets[s]) /\ Authority!AuthorizedFor(c.worker, epoch, s)
  BY <1>2, AdmittedFacts
<1>7. /\ sets[s] \in SetRecords /\ r \in SetRecords /\ r.members = sets[s].members
      /\ Drafted(sets[s], r, {}) /\ Inherits(sets[s], r)
  BY <1>3, HealthyRecords, ApplyTransitionFacts, TransitionDrafted DEF Frame
<1> HIDE DEF r
<1>8. /\ r.conditional \in BOOLEAN /\ r.members \in [Paths -> Members] /\ m \in Members
      /\ r.members[p] = m
  BY <1>4, <1>7, RecordTypes
<1> HIDE DEF m, y, p
<1>9. o \in Members /\ Decided(o) /\ Descends(m, o, TRUE)
  BY <1>2, <1>4, <1>8, ClosedFacts, ClosedDescends DEF TerminalMember
<1>10. n \in Members /\ Decided(n) /\ n.id = next_id /\ Live(n)
  BY <1>3, <1>5, <1>8, NewMemberFacts, NewMemberDecided
<1> HIDE DEF o, n
<1>11. /\ ms \in [Paths -> Members]
       /\ \A x \in Paths : ms[x] = IF x = y THEN n ELSE IF x = p THEN o ELSE r.members[x]
  BY <1>3, <1>4, <1>8, <1>9, <1>10
<1> HIDE DEF ms
<1>12. F \in SUBSET Paths /\ \A x : x \in F <=> x = y
  BY <1>3
<1> HIDE DEF F
<1>13. \A x \in Paths : Decided(r.members[x]) => Decided(ms[x])
  BY <1>9, <1>10, <1>11
<1>14. \A x \in Paths \ F : Vacant(ms[x]) \/ Descends(r.members[x], ms[x], TRUE)
  BY <1>8, <1>9, <1>11, <1>12, DescendsSame
<1>15. Prepared(sets[s], q, F) /\ Inherits(sets[s], q) /\ q.members = ms
  <2>1. Refilled(r, ms, F)
    BY <1>13, <1>14 DEF Refilled
  <2> HIDE DEF s
  <2> QED BY <1>7, <1>11, <2>1, RefilledPrepares
<1> HIDE DEF q
<1>16. Numbered(q, F) /\ next_id <= next_id'
  BY <1>1, <1>3, <1>5, <1>10, <1>11, <1>12, <1>15 DEF Numbered
<1> HIDE DEF s
<1> QED BY <1>1, <1>2, <1>3, <1>6, <1>12, <1>15, <1>16, CommitHistory DEF s

\* revalidate_set(): the set takes the governing epoch.
LEMMA RevalidateSetHistory ==
    ASSUME Healthy, NEW t \in Threads, RevalidateSet(t)
    PROVE  Progress /\ Governed
<1> DEFINE c == calls[t]
           s == c.set
           r == sets[s]
           ms == [p \in Paths |->
                    IF Live(r.members[p]) /\ p \in c.scope
                    THEN Revalidated(r.members[p], c.views[p], r.conditional)
                    ELSE r.members[p]]
           complete == \A p \in LivePaths(r.members) \ c.scope :
                          r.members[p].currentness = "CURRENT"
           l == IF complete THEN "CURRENT" ELSE "REVALIDATION_REQUIRED"
           u == Recompute([r EXCEPT !.members = ms])
           q == [u EXCEPT !.currentness = l, !.governing_epoch = epoch]
<1>1. /\ c.op = "revalidate_set" /\ next_id' = next_id
      /\ \/ GenerationRoom(r) /\ CommitInPlace(s, q, c.worker)
         \/ /\ GenerationRoom(r) => q.lifecycle = r.lifecycle /\ q.currentness = r.currentness
            /\ Store(s, q)
  BY DEF RevalidateSet, Ready
<1>2. Admitted(c) /\ Allowed(r.lifecycle, "REVALIDATE_SET")
  BY DEF RevalidateSet, RevalidateSetAdmissible
<1>3. s \in SetIds /\ c.worker \in Workers \cup {NoWorker}
  BY <1>1, CallType DEF Healthy, WellFormed
<1>4. ~Absent(r) /\ Authority!AuthorizedFor(c.worker, epoch, s)
  BY <1>2, AdmittedFacts
<1>5. r.lifecycle \notin TerminalSet
  BY <1>2 DEF Allowed, SetTransition, TerminalSet, Derived
<1>6. /\ r \in SetRecords /\ Sound(r) /\ r.conditional \in BOOLEAN
      /\ r.members \in [Paths -> Members]
  BY <1>3, HealthyRecords, RecordTypes
<1>7. ASSUME NEW p \in Paths, Live(r.members[p])
      PROVE  LET n == Revalidated(r.members[p], c.views[p], r.conditional)
             IN  /\ n \in Members /\ Decided(n) /\ (Live(n) <=> Live(r.members[p]))
                 /\ Descends(r.members[p], n, TRUE)
  <2>1. r.members[p] \in Members /\ c.views[p] \in Views
    BY <1>6, CallType DEF Healthy
  <2> QED BY <1>6, <1>7, <2>1, RevalidatedDescends
<1>8. ASSUME NEW p \in Paths
      PROVE  /\ ms[p] \in Members /\ (Decided(r.members[p]) => Decided(ms[p]))
             /\ Live(ms[p]) <=> Live(r.members[p])
             /\ Descends(r.members[p], ms[p], TRUE)
  <2>1. r.members[p] \in Members /\ Descends(r.members[p], r.members[p], TRUE)
    BY <1>6, DescendsSame
  <2>2. ms[p] = IF Live(r.members[p]) /\ p \in c.scope
                THEN Revalidated(r.members[p], c.views[p], r.conditional)
                ELSE r.members[p]
    OBVIOUS
  <2> HIDE DEF ms
  <2> QED BY <1>7, <2>1, <2>2
<1>9. ms \in [Paths -> Members]
  BY <1>8
<1>10. l \in {"CURRENT", "REVALIDATION_REQUIRED"} /\ epoch \in Nat
  BY DEF Healthy, Inv, RestInv
<1> HIDE DEF ms, l
<1>11. Drafted(r, r, {}) /\ Inherits(r, r)
  BY <1>6, DraftedSame
<1>12. /\ Prepared(r, u, {}) /\ Inherits(r, u) /\ u.members = ms
       /\ u.minimum = r.minimum /\ u.conditional = r.conditional
       /\ u.admin_enabled = r.admin_enabled
       /\ u.lifecycle \in TerminalSet => r.lifecycle \in TerminalSet
  <2>1. \A p \in Paths \ {} : Vacant(ms[p]) \/ Descends(r.members[p], ms[p], TRUE)
    BY <1>8
  <2>2. \A p \in Paths : Decided(r.members[p]) => Decided(ms[p])
    BY <1>8
  <2> HIDE DEF r
  <2> QED BY <1>6, <1>9, <1>11, <2>1, <2>2, MembershipPrepares
<1> HIDE DEF u
<1>13. u \in SetRecords
  BY <1>12 DEF Prepared, Drafted
<1>14. /\ q \in SetRecords /\ q.members = u.members /\ q.conditional = u.conditional
       /\ q.generation = u.generation /\ q.membership_generation = u.membership_generation
       /\ q.lifecycle = u.lifecycle /\ q.minimum = u.minimum /\ q.worker = u.worker
       /\ q.admin_enabled = u.admin_enabled /\ q.watermark = u.watermark
       /\ q.governing_epoch = epoch
  BY <1>10, <1>13 DEF SetRecords
<1> HIDE DEF q
<1>15. Drafted(u, q, {})
  BY <1>13, <1>14, SameTable DEF Absent
<1>16. Drafted(r, q, {})
  BY <1>6, <1>12, <1>15, DraftedTwice DEF Prepared
<1>17. Prepared(r, q, {}) /\ q.lifecycle \notin TerminalSet
  BY <1>5, <1>12, <1>14, <1>16 DEF Prepared
<1>18. GenerationRoom(r) /\ CommitInPlace(s, q, c.worker) => Progress /\ Governed
  BY <1>1, <1>3, <1>4, <1>14, <1>17, CommitInPlaceHistory
<1>19. ASSUME Store(s, q),
              GenerationRoom(r) => q.lifecycle = r.lifecycle /\ q.currentness = r.currentness
       PROVE  Progress /\ Governed
  <2>1. GenerationRoom(r) => Alike(r, q)
    <3>1. \A p \in Paths : ms[p].id = r.members[p].id
      BY <1>8 DEF Descends
    <3> QED BY <1>8, <1>12, <1>14, <1>19, <3>1 DEF Alike
  <2>2. Kin(r, q) /\ q.generation = r.generation
    BY <1>16 DEF Drafted, Kin
  <2>3. Switched(q)
    BY <1>17 DEF Prepared, Switched
  <2>4. Evolves(r, q, {})
    BY <1>4, <1>6, <1>16, <1>19, <2>1, <2>3, StoreEvolves
  <2>5. Renewed(r, q, s)
    BY <1>14, <1>17, <1>19, <2>2 DEF Renewed, GenerationRoom
  <2> QED BY <1>1, <1>3, <1>19, <2>2, <2>4, <2>5, StoreHistory
<1> QED BY <1>1, <1>18, <1>19

\* refresh_path() and the reconciliation after a commit revive nothing.
LEMMA RefreshHistory ==
    ASSUME Healthy, NEW t \in Threads, RefreshPath(t) \/ ApplyObserved(t)
    PROVE  Progress /\ Governed /\ Faded
<1> DEFINE c == calls[t]
<1>1. CASE RefreshPath(t)
  <2> DEFINE p == Successor(c)
  <2>1. c.op = "refresh_path" /\ ApplyToDependents(p, c.views[p]) /\ next_id' = next_id
    BY <1>1 DEF RefreshPath, Ready
  <2>2. p \in Paths /\ c.views[p] \in Views
    BY <2>1, CallType DEF Healthy, WellFormed, Successor
  <2> HIDE DEF p
  <2> QED BY <2>1, <2>2, ApplyToDependentsHistory
<1>2. CASE ApplyObserved(t)
  <2>1. c.step = "apply" /\ ApplyToDependents(c.path, c.seen) /\ next_id' = next_id
    BY <1>2 DEF ApplyObserved
  <2>2. c.path \in Paths /\ c.seen \in Views
    BY <2>1, CallType DEF Healthy, WellFormed, CallRecords
  <2> QED BY <2>1, <2>2, ApplyToDependentsHistory
<1> QED BY <1>1, <1>2

\* All calls.
LEMMA CallStepHistory ==
    ASSUME Healthy, NEW t \in Threads, CallStep(t)
    PROVE  Progress /\ Governed
<1>1. CASE (\E p \in Paths : Lookup(t, p) \/ Observe(t, p)) \/ Refuse(t)
  <2>1. sets' = sets /\ next_id' = next_id
    BY <1>1 DEF Lookup, Observe, Refuse, engine_vars
  <2> QED BY <2>1, StillHistory
<1> QED
  BY <1>1, AddMembersHistory, ReplaceMemberHistory, SetMemberAdminEnabledHistory,
     RevalidateSetHistory, RevalidateMemberHistory, RefuseCompletionHistory,
     CompleteMemberRevalidationHistory, RefreshHistory DEF CallStep

-----------------------------------------------------------------------------
\* What every step does to the sets.
LEMMA NextHistory ==
    ASSUME Healthy, [Next]_vars
    PROVE  /\ Progress
           /\ Governed \/ (AuthorityStep /\ \A s \in SetIds : Kin(sets[s], sets'[s]))
<1>1. ASSUME NEW w \in Callers, NEW s \in SetIds, SetStep(w, s)
      PROVE  Progress /\ Governed
  BY <1>1, SetStepHistory DEF Callers
<1>2. ASSUME NEW t \in Threads, NEW w \in Callers, StartCall(t, w)
      PROVE  Progress /\ Governed
  <2>1. sets' = sets /\ next_id' = next_id
    BY <1>2 DEF StartCall, StartAddMembers, StartReplaceMember, StartSetMemberAdminEnabled,
                StartRevalidateMember, StartRevalidateSet, StartCompleteMemberRevalidation,
                StartRefreshPath, StartOnMember, Begin, engine_vars
  <2> QED BY <2>1, StillHistory
<1>3. CASE UNCHANGED vars
  <2>1. sets' = sets /\ next_id' = next_id
    BY <1>3 DEF vars, engine_vars
  <2> QED BY <2>1, StillHistory
<1> QED
  BY <1>1, <1>2, <1>3, ViewStepHistory, AuthorityStepHistory, CallStepHistory DEF Next

\* Every set goes on as a version of itself.
LEMMA ProgressSets ==
    ASSUME Progress
    PROVE  \A s \in SetIds : \E F : Evolves(sets[s], sets'[s], F)
BY DEF Progress, History

\* A new engine is healthy.
LEMMA InitHealthy == Init => Healthy
<1> SUFFICES ASSUME Init PROVE Healthy
  OBVIOUS
<1>1. Decided(NoMember)
  BY DEF Decided, NoMember
<1>2. Sound(NoRecord)
  BY <1>1 DEF Sound, Settled, Switched, NoRecord
<1> QED BY <1>2, InitInv DEF Init, Healthy

\* Every step keeps it so.
LEMMA NextHealthy ==
    ASSUME Healthy, [Next]_vars
    PROVE  Healthy'
<1>1. Inv'
  BY NextInv DEF Healthy
<1>2. \A s \in SetIds : Sound(sets'[s])
  BY NextHistory, ProgressSets DEF Evolves
<1> QED BY <1>1, <1>2 DEF Healthy

\* What the history rests on holds for ever: the invariants of the engine, every
\* live set settled (no member waits for an evaluation to promote it), and no set
\* left disabled that is enabled unless its generation is exhausted.
THEOREM HealthPersists == Spec => []Healthy
<1> QED BY InitHealthy, NextHealthy, PTL DEF Spec

-----------------------------------------------------------------------------
\* Action properties.

\* What a consumer can see of a set changes only together with its generation.
LEMMA StepIsVersioned ==
    ASSUME Healthy, [Next]_vars, NEW s \in SetIds
    PROVE  /\ sets[s].generation <= sets[s].generation'
           /\ sets[s].watermark <= sets[s].watermark'
           /\ Visible(sets[s]) # Visible(sets[s])' =>
                 sets[s].generation < sets[s].generation' \/ ~GenerationRoom(sets[s])
<1> DEFINE a == sets[s]
           b == sets'[s]
<1>1. PICK F : Evolves(a, b, F)
  BY NextHistory, ProgressSets
<1>2. a \in SetRecords /\ b \in SetRecords
  BY <1>1, HealthyRecords DEF Evolves
<1>3. a.generation \in Nat /\ b.generation \in Nat
  BY <1>2, RecordNumbers
<1> HIDE DEF a, b
<1>4. a.generation <= b.generation /\ a.watermark <= b.watermark
  BY <1>1 DEF Evolves
<1>5. ASSUME ~(a.generation < b.generation), GenerationRoom(a)
      PROVE  Visible(a) = Visible(b)
  <2>1. Alike(a, b)
    BY <1>1, <1>3, <1>4, <1>5 DEF Evolves
  <2> QED BY <2>1 DEF Alike, Visible
<1> QED BY <1>4, <1>5 DEF a, b

\* A consumer that watches the generation of a set misses no change of its
\* lifecycle, members, minimum or policy, in whatever handler or invalidation it happens.
THEOREM VersionsTell == Spec => ChangesAreVersioned
<1>1. Healthy /\ [Next]_vars =>
        [\A s \in SetIds :
           /\ sets[s].generation <= sets[s].generation'
           /\ sets[s].watermark <= sets[s].watermark'
           /\ Visible(sets[s]) # Visible(sets[s])' =>
                 sets[s].generation < sets[s].generation' \/ ~GenerationRoom(sets[s])]_vars
  BY StepIsVersioned
<1> QED BY <1>1, HealthPersists, PTL DEF Spec, ChangesAreVersioned

\* The membership generation moves only under authority.
LEMMA StepIsAuthorized ==
    ASSUME Healthy, [Next]_vars, NEW s \in SetIds
    PROVE  sets[s].membership_generation' # sets[s].membership_generation =>
               Authority!AuthorizedFor(sets[s].worker', epoch, s)
BY NextHistory DEF Governed, Steers, Kin

\* No commit carries the name of a worker whose authority ended between the start
\* of its call and the commit: every handler checks again under the lock.
THEOREM AuthorizedCommits == Spec => CommitsAreAuthorized
<1>1. Healthy /\ [Next]_vars =>
        [\A s \in SetIds :
           sets[s].membership_generation' # sets[s].membership_generation =>
               Authority!AuthorizedFor(sets[s].worker', epoch, s)]_vars
  BY StepIsAuthorized
<1> QED BY <1>1, HealthPersists, PTL DEF Spec, CommitsAreAuthorized

\* Directory changes, external views, abandoned tickets, refreshes and reconciliations
\* make nobody usable and move no binding: only a mutation by a worker does.
THEOREM NothingResurrects == Spec => NoSilentResurrection
<1>1. Healthy =>
        ((ViewStep \/ (\E t \in Threads : ApplyObserved(t) \/ RefreshPath(t))) =>
         \A s \in SetIds, p \in Paths :
             /\ Usable(sets[s].members[p])' => Usable(sets[s].members[p])
             /\ sets[s].members[p].bound' = sets[s].members[p].bound)
  BY ViewStepHistory, RefreshHistory DEF Faded, Wanes, Usable
<1>2. Healthy /\ [Next]_vars =>
        [(ViewStep \/ (\E t \in Threads : ApplyObserved(t) \/ RefreshPath(t))) =>
         \A s \in SetIds, p \in Paths :
             /\ Usable(sets[s].members[p])' => Usable(sets[s].members[p])
             /\ sets[s].members[p].bound' = sets[s].members[p].bound]_vars
  BY <1>1
<1> QED BY <1>2, HealthPersists, PTL DEF Spec, NoSilentResurrection

-----------------------------------------------------------------------------
\* Live currentness has an owner.

\* No step leaves a set current whose worker or epoch is gone.
LEMMA BackedStep ==
    ASSUME Healthy, CurrentnessBacked, [Next]_vars
    PROVE  CurrentnessBacked'
<1>1. ASSUME epoch' = epoch, fences' = fences, Governed
      PROVE  CurrentnessBacked'
  <2>1. ASSUME NEW s \in SetIds, sets'[s].currentness = "CURRENT"
        PROVE  /\ sets'[s].governing_epoch = epoch
               /\ sets'[s].lifecycle \notin TerminalSet
               /\ GenerationRoom(sets'[s]) => sets'[s].worker \notin fences
    <3> DEFINE a == sets[s]
               b == sets'[s]
    <3>1. PICK F : Evolves(a, b, F)
      BY NextHistory, ProgressSets
    <3>2. a.generation \in Nat /\ b.generation \in Nat
      BY <3>1, HealthyRecords, RecordNumbers DEF Evolves
    <3>3. GenerationRoom(b) => GenerationRoom(a)
      BY <3>1, <3>2, CounterAssumption DEF Evolves, GenerationRoom
    <3>4. /\ Kin(a, b) \/ Authority!AuthorizedFor(b.worker, epoch, s)
          /\ Inherits(a, b) \/ Renewed(a, b, s)
      BY <1>1 DEF Governed, Steers
    <3>5. a.currentness = "CURRENT" =>
             /\ a.governing_epoch = epoch /\ a.lifecycle \notin TerminalSet
             /\ GenerationRoom(a) => a.worker \notin fences
      BY DEF CurrentnessBacked
    <3>6. Authority!AuthorizedFor(b.worker, epoch, s) => b.worker \notin fences
      BY DEF Authority!AuthorizedFor, Authority!Authorized
    <3> HIDE DEF a, b
    <3>7. CASE Inherits(a, b)
      BY <2>1, <3>3, <3>4, <3>5, <3>6, <3>7 DEF Inherits, Kin, b
    <3>8. CASE Renewed(a, b, s)
      BY <2>1, <3>3, <3>4, <3>5, <3>6, <3>8 DEF Renewed, Kin, b
    <3> QED BY <3>4, <3>7, <3>8
  <2> QED BY <1>1, <2>1 DEF CurrentnessBacked
<1>2. CASE \/ \E w \in Workers, scope \in Scopes, session \in Sessions :
                 RegisterPublisher(w, scope, session)
           \/ \E w \in Workers : UnregisterPublisher(w)
  <2>1. sets' = sets /\ epoch' = epoch /\ fences' = fences
    BY <1>2 DEF RegisterPublisher, UnregisterPublisher, Authority!RegisterPublisher,
                Authority!UnregisterPublisher, engine_vars
  <2> QED BY <2>1 DEF CurrentnessBacked
<1>3. ASSUME NEW s \in SetIds, Absent(sets[s])
      PROVE  sets[s].currentness # "CURRENT"
  BY <1>3, HealthyRecords DEF Sound, NoRecord
<1>4. ASSUME NEW w \in Workers, FenceWorker(w)
      PROVE  CurrentnessBacked'
  <2>1. fences' = fences \cup {w} /\ epoch' = epoch
    BY <1>4 DEF FenceWorker, Authority!FenceWorker
  <2>2. \A s \in SetIds :
           \/ sets'[s] = sets[s] /\ (Absent(sets[s]) \/ sets[s].worker[1] # w[1])
           \/ sets'[s].currentness = "REVALIDATION_REQUIRED"
    BY <1>4, FenceHistory
  <2> QED BY <1>3, <2>1, <2>2 DEF CurrentnessBacked
<1>5. ASSUME NEW w \in Workers, NEW session \in Sessions, AdvanceEpoch(w, session)
      PROVE  CurrentnessBacked'
  <2>1. \A s \in SetIds : \/ sets'[s] = sets[s] /\ Absent(sets[s])
                          \/ sets'[s].currentness = "REVALIDATION_REQUIRED"
    BY <1>5, EpochHistory
  <2> QED BY <1>3, <2>1 DEF CurrentnessBacked
<1>6. CASE ~AuthorityStep
  <2>1. Governed
    BY <1>6, NextHistory
  <2>2. epoch' = epoch /\ fences' = fences
    <3>1. UNCHANGED authority_vars
      <4>1. CASE ViewStep
        BY <4>1 DEF ViewStep, DeclarePathAuthority, ApplyPathAuthority, ExternalChange,
                    AbandonMemberRevalidation, Quiet
      <4>2. CASE UNCHANGED vars
        BY <4>2 DEF vars
      <4> QED
        BY <1>6, <4>1, <4>2, SetStepKeepsAuthority, StartCallKeepsAuthority,
           CallStepKeepsAuthority DEF Next
    <3> QED BY <3>1 DEF authority_vars
  <2> QED BY <1>1, <2>1, <2>2
<1> QED BY <1>2, <1>4, <1>5, <1>6 DEF AuthorityStep

\* A set that is current is so under the present epoch, and in the name of a worker
\* that is not fenced: fence_worker() and advance_epoch() miss no set.
THEOREM CurrentnessIsBacked == Spec => []CurrentnessBacked
<1>1. Init => CurrentnessBacked
  BY DEF Init, CurrentnessBacked, NoRecord
<1> QED BY <1>1, BackedStep, HealthPersists, PTL DEF Spec

-----------------------------------------------------------------------------
\* Identities.

\* A relation has an identity below n, an empty slot has none.
Issued(m, n) == IF Present(m) THEN m.id \in 1 .. n - 1 ELSE m.id = 0

\* Every relation has an identity of its own that was handed out.
Identified ==
    /\ \A s \in SetIds, p \in Paths : Issued(sets[s].members[p], next_id)
    /\ \A s, x \in SetIds, p, y \in Paths :
          /\ sets[s].members[p].id = sets[x].members[y].id
          /\ sets[s].members[p].id # 0
          => s = x /\ p = y


\* What a step makes of a slot: a new relation, an empty slot, or a later version.
LEMMA SlotHistory ==
    ASSUME Healthy, NEW s, NEW F, History(s, F), NEW x \in SetIds, NEW p \in Paths
    PROVE  \/ /\ x = s /\ p \in F
              /\ Present(sets'[x].members[p]) /\ sets'[x].members[p].id \in next_id .. next_id' - 1
           \/ Vacant(sets'[x].members[p])
           \/ Descends(sets[x].members[p], sets'[x].members[p],
                       sets'[x].watermark = sets[x].watermark)
<1>1. Evolves(sets[x], sets'[x], IF x = s THEN F ELSE {}) /\ Numbered(sets'[s], F)
  BY DEF History
<1>2. CASE x = s /\ p \in F
  BY <1>1, <1>2 DEF Numbered, Live, LiveMember, Present
<1>3. CASE ~(x = s /\ p \in F)
  <2>1. p \in Paths \ (IF x = s THEN F ELSE {})
    BY <1>3
  <2>2. MembersDescend(sets[x], sets'[x], IF x = s THEN F ELSE {})
    BY <1>1 DEF Evolves
  <2> QED BY <2>1, <2>2 DEF MembersDescend
<1> QED BY <1>2, <1>3

\* A new engine has issued nothing.
LEMMA InitIdentified == Init => Identified
BY DEF Init, Identified, Issued, NoRecord, NoMember, Present

\* New identities lie beyond all that were issued, and old ones move to no other slot.
LEMMA IdentifiedStep ==
    ASSUME Healthy, Identified, [Next]_vars
    PROVE  Identified'
<1>0. PICK s : \E F \in SUBSET Paths : History(s, F)
  BY NextHistory DEF Progress
<1>1. PICK F \in SUBSET Paths : History(s, F)
  BY <1>0
<1>2. next_id \in Nat \ {0} /\ next_id' \in Nat \ {0} /\ next_id <= next_id'
  <2>1. Healthy'
    BY NextHealthy
  <2> QED BY <1>1, <2>1 DEF Healthy, Inv, RestInv, History
<1>3. \A x, y \in F : sets'[s].members[x].id = sets'[s].members[y].id => x = y
  BY <1>1 DEF History, Numbered
<1> DEFINE Taken(x, p) == /\ x = s /\ p \in F
                          /\ Present(sets'[x].members[p])
                          /\ sets'[x].members[p].id \in next_id .. next_id' - 1
           Void(x, p)  == ~Present(sets'[x].members[p]) /\ sets'[x].members[p].id = 0
           Held(x, p)  == /\ sets'[x].members[p].id = sets[x].members[p].id
                          /\ Present(sets'[x].members[p]) <=> Present(sets[x].members[p])
<1>4. ASSUME NEW x \in SetIds, NEW p \in Paths PROVE Taken(x, p) \/ Void(x, p) \/ Held(x, p)
  BY <1>1, SlotHistory DEF Vacant, Descends
<1>5. \A x \in SetIds, p \in Paths : Issued(sets[x].members[p], next_id)
  BY DEF Identified
<1>6. ASSUME NEW x \in SetIds, NEW p \in Paths
      PROVE  Issued(sets'[x].members[p], next_id')
  BY <1>2, <1>4, <1>5 DEF Issued
<1>7. ASSUME NEW x \in SetIds, NEW z \in SetIds, NEW p \in Paths, NEW y \in Paths,
             sets'[x].members[p].id = sets'[z].members[y].id, sets'[x].members[p].id # 0
      PROVE  x = z /\ p = y
  <2>1. CASE Taken(x, p) /\ Taken(z, y)
    BY <1>3, <1>7, <2>1
  <2>2. CASE Held(x, p) /\ Held(z, y)
    <3>1. sets[x].members[p].id = sets[z].members[y].id /\ sets[x].members[p].id # 0
      BY <1>7, <2>2
    <3> QED BY <3>1 DEF Identified
  <2>3. ASSUME NEW u \in SetIds, NEW v \in Paths, Held(u, v) PROVE sets'[u].members[v].id < next_id
    BY <1>2, <1>5, <2>3 DEF Issued
  <2>4. ~(Taken(x, p) /\ Held(z, y)) /\ ~(Held(x, p) /\ Taken(z, y))
    BY <1>2, <1>7, <2>3
  <2>5. ~Void(x, p) /\ ~Void(z, y)
    BY <1>7
  <2>6. (Taken(x, p) \/ Held(x, p)) /\ (Taken(z, y) \/ Held(z, y))
    BY <1>4, <2>5
  <2>7. (Taken(x, p) /\ Taken(z, y)) \/ (Held(x, p) /\ Held(z, y))
    BY ONLY <2>4, <2>6
  <2> QED BY <2>1, <2>2, <2>7
<1> QED BY <1>6, <1>7 DEF Identified

\* No two relations share an identity, whichever slots, sets, replacements and prunings
\* they went through.
THEOREM IdentitiesAreUnique == Spec => []MemberIdentityUnique
<1>1. Healthy /\ Identified /\ [Next]_vars => Identified'
  BY IdentifiedStep
<1>2. Identified => MemberIdentityUnique
  <2> SUFFICES ASSUME Identified PROVE MemberIdentityUnique
    OBVIOUS
  <2>1. ASSUME NEW x \in MemberRecords
        PROVE  /\ x[1] \in SetIds /\ x[2] \in Paths /\ x = <<x[1], x[2]>>
               /\ sets[x[1]].members[x[2]].id \in 1 .. next_id - 1
    BY DEF MemberRecords, Identified, Issued
  <2>2. ASSUME NEW x \in MemberRecords, NEW y \in MemberRecords,
               sets[x[1]].members[x[2]].id = sets[y[1]].members[y[2]].id
        PROVE  x = y
    <3>1. /\ sets[x[1]].members[x[2]].id = sets[y[1]].members[y[2]].id
          /\ sets[x[1]].members[x[2]].id # 0
      BY <2>1, <2>2
    <3> QED BY <2>1, <3>1, SMTT(30) DEF Identified
  <2> QED BY <2>1, <2>2 DEF MemberIdentityUnique
<1> QED BY <1>1, <1>2, InitIdentified, HealthPersists, PTL DEF Spec

-----------------------------------------------------------------------------
\* Revalidation tickets.

\* Ticket k does not lead the set record r it was issued on, and while neither
\* watermark has moved the member is as it was; n is the next identity.
Behind(k, r, n) ==
    /\ k.member.id \in 1 .. n - 1
    /\ k.set_watermark <= r.watermark
    /\ \A p \in Paths :
         LET m == r.members[p]
         IN  m.id = k.member.id =>
               /\ k.member.watermark <= m.watermark
               /\ r.watermark = k.set_watermark /\ m.watermark = k.member.watermark
                    => Pins(k.member, m)

Ticketed == \A k \in 1 .. Len(tickets) : Behind(tickets[k], sets[tickets[k].set], next_id)

\* Only begin_member_revalidation() issues tickets.
LEMMA SetStepKeepsTickets ==
    ASSUME NEW w, NEW s, SetStep(w, s)
    PROVE  tickets' = tickets \/ \E p \in Paths : BeginMemberRevalidation(w, s, p)
<1> USE DEF Quiet, Mutates
<1>1. ASSUME NEW n, NEW a, NEW c, CreateSet(w, s, n, a, c) PROVE tickets' = tickets
  BY <1>1 DEF CreateSet
<1>2. ASSUME PublishSet(w, s) PROVE tickets' = tickets
  BY <1>2 DEF PublishSet
<1>3. ASSUME NEW n, SetMinimumUsableMembers(w, s, n) PROVE tickets' = tickets
  BY <1>3 DEF SetMinimumUsableMembers
<1>4. ASSUME NEW c, SetConditionalAuthorityPolicy(w, s, c) PROVE tickets' = tickets
  BY <1>4 DEF SetConditionalAuthorityPolicy
<1>5. ASSUME NEW e, SetAdminEnabled(w, s, e) PROVE tickets' = tickets
  BY <1>5 DEF SetAdminEnabled
<1>6. ASSUME WithdrawSet(w, s) \/ CompleteWithdrawal(w, s) PROVE tickets' = tickets
  BY <1>6 DEF WithdrawSet, CompleteWithdrawal
<1>7. ASSUME RevokeSet(w, s) \/ RetireSet(w, s) PROVE tickets' = tickets
  BY <1>7 DEF RevokeSet, RetireSet, EndSet
<1>8. ASSUME NEW x, SupersedeSet(w, s, x) PROVE tickets' = tickets
  BY <1>8 DEF SupersedeSet
<1>9. ASSUME NEW p, RemoveMember(w, s, p) \/ WithdrawMember(w, s, p) PROVE tickets' = tickets
  BY <1>9 DEF RemoveMember, WithdrawMember
<1> QED
  BY <1>1, <1>2, <1>3, <1>4, <1>5, <1>6, <1>7, <1>8, <1>9 DEF SetStep

\* No call issues one.
LEMMA CallStepKeepsTickets ==
    ASSUME NEW t, CallStep(t)
    PROVE  tickets' = tickets
<1>1. ASSUME NEW p, Lookup(t, p) \/ Observe(t, p) PROVE tickets' = tickets
  BY <1>1 DEF Lookup, Observe, engine_vars
<1>2. ASSUME AddMembers(t) PROVE tickets' = tickets
  BY <1>2 DEF AddMembers
<1>3. ASSUME ReplaceMember(t) PROVE tickets' = tickets
  BY <1>3 DEF ReplaceMember
<1>4. ASSUME SetMemberAdminEnabled(t) PROVE tickets' = tickets
  BY <1>4 DEF SetMemberAdminEnabled
<1>5. ASSUME RevalidateSet(t) PROVE tickets' = tickets
  BY <1>5 DEF RevalidateSet
<1>6. ASSUME RevalidateMember(t) PROVE tickets' = tickets
  BY <1>6 DEF RevalidateMember
<1>7. ASSUME RefuseCompletion(t) PROVE tickets' = tickets
  BY <1>7 DEF RefuseCompletion
<1>8. ASSUME CompleteMemberRevalidation(t) PROVE tickets' = tickets
  BY <1>8 DEF CompleteMemberRevalidation
<1>9. ASSUME RefreshPath(t) \/ Refuse(t) \/ ApplyObserved(t) PROVE tickets' = tickets
  BY <1>9 DEF RefreshPath, Refuse, ApplyObserved, engine_vars
<1> QED
  BY <1>1, <1>2, <1>3, <1>4, <1>5, <1>6, <1>7, <1>8, <1>9 DEF CallStep

\* Tickets change in begin_member_revalidation() alone.
LEMMA NextTickets ==
    ASSUME [Next]_vars
    PROVE  \/ tickets' = tickets
           \/ \E w \in Callers, s \in SetIds, p \in Paths : BeginMemberRevalidation(w, s, p)
<1>1. ASSUME NEW t \in Threads, NEW w \in Callers, StartCall(t, w) PROVE tickets' = tickets
  BY <1>1 DEF StartCall, StartAddMembers, StartReplaceMember, StartSetMemberAdminEnabled,
              StartRevalidateMember, StartRevalidateSet, StartCompleteMemberRevalidation,
              StartRefreshPath, StartOnMember, Begin, engine_vars
<1>2. CASE ViewStep
  BY <1>2 DEF ViewStep, DeclarePathAuthority, ApplyPathAuthority, ExternalChange,
              AbandonMemberRevalidation, Quiet, engine_vars
<1>3. CASE AuthorityStep
  BY <1>3 DEF AuthorityStep, RegisterPublisher, UnregisterPublisher, FenceWorker, AdvanceEpoch,
              Uncurrent, engine_vars
<1>4. CASE UNCHANGED vars
  BY <1>4 DEF vars, engine_vars
<1> QED BY <1>1, <1>2, <1>3, <1>4, SetStepKeepsTickets, CallStepKeepsTickets DEF Next

\* A ticket stays behind the member it was issued for.
LEMMA OldTicket ==
    ASSUME Healthy, Identified, Ticketed, [Next]_vars, NEW k \in 1 .. Len(tickets),
           tickets'[k] = tickets[k]
    PROVE  Behind(tickets[k], sets'[tickets[k].set], next_id')
<1> DEFINE i == tickets[k].member
           x == tickets[k].set
           w == tickets[k].set_watermark
<1>0. PICK s : \E F \in SUBSET Paths : History(s, F)
  BY NextHistory DEF Progress
<1>1. PICK F \in SUBSET Paths : History(s, F)
  BY <1>0
<1>2. next_id \in Nat \ {0} /\ next_id' \in Nat \ {0} /\ next_id <= next_id'
  <2>1. Healthy'
    BY NextHealthy
  <2> QED BY <1>1, <2>1 DEF Healthy, Inv, RestInv, History
<1>3. x \in SetIds /\ i \in Members /\ w \in Nat
  <2>1. tickets[k] \in Tickets
    BY DEF Healthy, Inv, RestInv
  <2> QED BY <2>1 DEF Tickets
<1>4. i.id \in 1 .. next_id - 1 /\ w <= sets[x].watermark
  BY DEF Ticketed, Behind
<1>5. i.id \in 1 .. next_id' - 1
  BY <1>2, <1>4
<1>6. /\ sets[x] \in SetRecords /\ sets'[x] \in SetRecords
      /\ sets[x].watermark <= sets'[x].watermark
  BY <1>1, <1>3, HealthyRecords DEF History, Evolves
<1>7. sets[x].watermark \in Nat /\ sets'[x].watermark \in Nat /\ w <= sets'[x].watermark
      /\ (sets'[x].watermark = w => sets[x].watermark = w)
  BY <1>3, <1>4, <1>6, RecordNumbers
<1>8. ASSUME NEW p \in Paths, sets'[x].members[p].id = i.id
      PROVE  LET n == sets'[x].members[p]
             IN  /\ i.watermark <= n.watermark
                 /\ sets'[x].watermark = w /\ n.watermark = i.watermark => Pins(i, n)
  <2> DEFINE m == sets[x].members[p]
             n == sets'[x].members[p]
  <2>1. n.id = i.id
    BY <1>8
  <2>2. Descends(m, n, sets'[x].watermark = sets[x].watermark)
    <3>1. n.id < next_id /\ n.id # 0
      BY <1>2, <1>4, <2>1
    <3> QED BY <1>1, <1>2, <1>3, <3>1, SlotHistory, SMTT(30) DEF Vacant
  <2>3. m.id = i.id
    BY <2>1, <2>2 DEF Descends
  <2>4. /\ i.watermark <= m.watermark
        /\ sets[x].watermark = w /\ m.watermark = i.watermark => Pins(i, m)
    BY <2>3 DEF Ticketed, Behind
  <2>5. m \in Members /\ n \in Members
    BY <1>6, RecordTypes
  <2>6. i.watermark \in Nat /\ m.watermark \in Nat /\ n.watermark \in Nat
    BY <1>3, <2>5 DEF Members
  <2> HIDE DEF i, m, n, w, x
  <2>7. i.watermark <= n.watermark
        /\ (n.watermark = i.watermark => m.watermark = i.watermark /\ n.watermark = m.watermark)
    BY <2>2, <2>4, <2>6 DEF Descends
  <2>8. sets'[x].watermark = w /\ n.watermark = i.watermark => Pins(i, n)
    BY <1>7, <2>2, <2>4, <2>7 DEF Descends, Pins
  <2> QED BY <2>7, <2>8 DEF n
<1> QED BY <1>5, <1>7, <1>8 DEF Behind

\* A ticket pins the member it is issued for.
LEMMA NewTicket ==
    ASSUME Healthy, Identified, NEW w, NEW s \in SetIds, NEW p \in Paths,
           BeginMemberRevalidation(w, s, p)
    PROVE  LET issued == sets[s].members[p]
           IN  /\ tickets' = Append(tickets, [set |-> s, set_watermark |-> sets[s].watermark,
                                              epoch |-> epoch, member |-> issued])
               /\ issued.id \in 1 .. next_id - 1 /\ next_id' = next_id
               /\ sets[s].watermark \in Nat /\ sets'[s].watermark = sets[s].watermark
               /\ \A y \in Paths : LET m == sets'[s].members[y]
                                   IN  m.id = issued.id =>
                                         issued.watermark <= m.watermark /\ Pins(issued, m)
<1> DEFINE r == sets[s]
           o == r.members[p]
           k == o.pending + 1
           n == [o EXCEPT !.pending = k]
           ms == [r.members EXCEPT ![p] = n]
           q == [r EXCEPT !.members = ms]
<1>1. /\ Live(o) /\ next_id' = next_id
      /\ Store(s, [r EXCEPT !.members[p].pending = k])
      /\ tickets' = Append(tickets, [set |-> s, set_watermark |-> r.watermark,
                                     epoch |-> epoch, member |-> o])
  BY DEF BeginMemberRevalidation
<1>2. r \in SetRecords /\ r.members \in [Paths -> Members] /\ o \in Members /\ r.watermark \in Nat
  BY HealthyRecords, RecordTypes
<1>3. sets'[s] = q
  BY <1>1, HealthyRecords DEF Store
<1>4. q.members = ms /\ q.watermark = r.watermark
  BY <1>2 DEF SetRecords
<1>5. \A y \in Paths : ms[y] = IF y = p THEN n ELSE r.members[y]
  BY <1>2
<1>6. o.id \in 1 .. next_id - 1
  BY <1>1 DEF Identified, Issued, Live, LiveMember, Present
<1>7. o.id # 0
  BY <1>6
<1>8. \A y \in Paths : r.members[y].id = o.id => y = p
  BY <1>7 DEF Identified
<1>9. /\ n.id = o.id /\ n.watermark = o.watermark /\ o.watermark \in Nat
      /\ n.lifecycle = o.lifecycle /\ n.currentness = o.currentness
      /\ n.admin_enabled = o.admin_enabled /\ n.generation = o.generation
  BY <1>2 DEF Members
<1> HIDE DEF n, o, q, ms
<1>10. ASSUME NEW y \in Paths, sets'[s].members[y].id = o.id
       PROVE  o.watermark <= sets'[s].members[y].watermark /\ Pins(o, sets'[s].members[y])
  <2>1. sets'[s].members[y] = n
    BY <1>3, <1>4, <1>5, <1>8, <1>10
  <2> QED BY <1>9, <2>1 DEF Pins
<1> QED BY <1>1, <1>2, <1>3, <1>4, <1>6, <1>10 DEF o

\* Every step keeps all tickets behind their members.
LEMMA TicketedStep ==
    ASSUME Healthy, Identified, Ticketed, [Next]_vars
    PROVE  Ticketed'
<1>1. CASE tickets' = tickets
  BY <1>1, OldTicket DEF Ticketed
<1>2. ASSUME NEW w \in Callers, NEW s \in SetIds, NEW p \in Paths,
             BeginMemberRevalidation(w, s, p)
      PROVE  Ticketed'
  <2> DEFINE issued == sets[s].members[p]
             ticket == [set |-> s, set_watermark |-> sets[s].watermark,
                        epoch |-> epoch, member |-> issued]
             last == Len(tickets) + 1
  <2>1. /\ tickets' = Append(tickets, ticket)
        /\ issued.id \in 1 .. next_id - 1 /\ next_id' = next_id
        /\ sets[s].watermark \in Nat /\ sets'[s].watermark = sets[s].watermark
        /\ \A y \in Paths : LET m == sets'[s].members[y]
                            IN  m.id = issued.id =>
                                  issued.watermark <= m.watermark /\ Pins(issued, m)
    BY <1>2, NewTicket
  <2>2. tickets \in Seq(Tickets)
    BY DEF Healthy, Inv, RestInv
  <2> HIDE DEF ticket
  <2>3. /\ Len(tickets') = last /\ tickets'[last] = ticket /\ Len(tickets) \in Nat
        /\ \A k \in 1 .. Len(tickets) : tickets'[k] = tickets[k]
    BY <2>1, <2>2
  <2>4. /\ ticket.set = s /\ ticket.set_watermark = sets[s].watermark
        /\ ticket.member = issued
    BY DEF ticket
  <2>5. ASSUME NEW k \in 1 .. Len(tickets)
        PROVE  Behind(tickets'[k], sets'[tickets'[k].set], next_id')
    BY <2>3, OldTicket
  <2>6. Behind(tickets'[last], sets'[tickets'[last].set], next_id')
    <3>1. ticket.member.id \in 1 .. next_id' - 1
      BY <2>1, <2>4
    <3>2. ticket.set_watermark <= sets'[s].watermark
      BY <2>1, <2>4
    <3>3. ASSUME NEW y \in Paths, sets'[s].members[y].id = issued.id
          PROVE  /\ issued.watermark <= sets'[s].members[y].watermark
                 /\ Pins(issued, sets'[s].members[y])
      BY <2>1, <3>3
    <3> HIDE DEF issued
    <3> QED BY <2>3, <2>4, <3>1, <3>2, <3>3 DEF Behind
  <2>7. \A k \in 1 .. Len(tickets') : k \in 1 .. Len(tickets) \/ k = last
    BY <2>3
  <2> HIDE DEF last
  <2> QED BY <2>5, <2>6, <2>7 DEF Ticketed
<1> QED BY <1>1, <1>2, NextTickets

\* A ticket finds, by the two watermarks it recorded, whether the member it was issued
\* for is still as it was: a member whose watermarks match has the lifecycle,
\* currentness, switch and generation of the begin.
THEOREM TicketsPin == Spec => []TicketPinsMember
<1>1. Init => Ticketed
  BY DEF Init, Ticketed
<1>2. Healthy /\ Identified /\ Ticketed /\ [Next]_vars => Identified' /\ Ticketed'
  BY IdentifiedStep, TicketedStep
<1>3. Ticketed => TicketPinsMember
  BY DEF Ticketed, TicketPinsMember, Behind, Pins
<1> QED BY <1>1, <1>2, <1>3, InitIdentified, HealthPersists, PTL DEF Spec
-----------------------------------------------------------------------------
(***************************************************************************)
(* Reconciliation.  A member that is counted on a view which the directory *)
(* has replaced is in the hands of a call in flight, wherever every call   *)
(* that can make a member usable reconciles afterwards.                    *)
(***************************************************************************)


\* The clients ask for nothing that rebinds or re-evaluates a member and then
\* leaves without a fresh lookup, and only the engine changes the directory.
Reconciled ==
    /\ ~ExternalAuthority
    /\ Calls \cap {"replace_member", "set_member_admin_enabled",
                   "complete_member_revalidation", "revalidate_set",
                   "set_conditional_authority_policy"} = {}

Calming == \A x \in SetIds : Abides(sets[x], sets'[x])

LEMMA StillCalms == ASSUME sets' = sets PROVE Calming
BY DEF Calming, Abides

LEMMA OneSetCalms ==
    ASSUME Typed, NEW s \in SetIds, NEW q, Abides(sets[s], q), sets' = [sets EXCEPT ![s] = q]
    PROVE  Calming
BY DEF Typed, Calming, Abides

LEMMA StoreCalms ==
    ASSUME Typed, NEW s \in SetIds, NEW q, Tames(sets[s], q), Store(s, q)
    PROVE  Calming
BY OneSetCalms DEF Store, Tames

LEMMA CommitSetCalms ==
    ASSUME Typed, NEW s \in SetIds, NEW q, Tames(sets[s], q), NEW w, NEW b,
           NEW added, NEW gained, NEW dropped, CommitSet(s, q, w, b, added, gained, dropped)
    PROVE  Calming
<1>1. sets' = [sets EXCEPT ![s] = Commit(q, w, b)]
  BY DEF CommitSet
<1>2. Abides(sets[s], Commit(q, w, b))
  BY CommitTames
<1> QED BY <1>1, <1>2, OneSetCalms

LEMMA CommitInPlaceCalms ==
    ASSUME Typed, NEW s \in SetIds, NEW q, Tames(sets[s], q), NEW w, CommitInPlace(s, q, w)
    PROVE  Calming
BY CommitSetCalms DEF CommitInPlace

LEMMA SetStepCalms ==
    ASSUME Healthy, Reconciled, NEW w \in Workers, NEW s \in SetIds, SetStep(w, s)
    PROVE  Calming
<1> DEFINE r(e) == ApplyTransition(sets[s], e)
<1>0. /\ sets[s] \in SetRecords /\ Typed /\ Tames(sets[s], sets[s])
      /\ \A e : Tames(sets[s], r(e)) /\ r(e) \in SetRecords
  BY HealthyRecords, TamesSame, StepsTame DEF Typed, Tames
<1>1. ASSUME NEW n \in Minimums, NEW admin \in Enablements, NEW conditional \in Policies,
             CreateSet(w, s, n, admin, conditional)
      PROVE  Calming
  <2>1. PICK q : sets' = [sets EXCEPT ![s] = q] /\ q.members = NoRecord.members
    <3> DEFINE q == [NoRecord EXCEPT !.lifecycle = "DECLARED", !.currentness = "CURRENT",
                                 !.admin_enabled = admin, !.minimum = n,
                                 !.conditional = conditional, !.generation = 1,
                                 !.membership_generation = 1,
                                 !.governing_epoch = epoch, !.worker = w]
    <3>1. q.members = NoRecord.members
      BY DEF NoRecord
    <3>2. sets' = [sets EXCEPT ![s] = q]
      BY <1>1 DEF CreateSet, Store
    <3> QED BY <3>1, <3>2
  <2>2. \A p \in Paths : ~Usable(q.members[p])
    BY <2>1 DEF NoRecord, NoMember, Usable
  <2> QED BY <1>0, <2>1, <2>2, OneSetCalms DEF Abides
<1>2. CASE PublishSet(w, s) \/ CompleteWithdrawal(w, s)
  BY <1>0, <1>2, CommitInPlaceCalms DEF PublishSet, CompleteWithdrawal
<1>3. ASSUME NEW n \in Minimums, SetMinimumUsableMembers(w, s, n) PROVE Calming
  <2> DEFINE x == r("MINIMUM_CHANGED")
             e == [x EXCEPT !.minimum = n]
  <2>1. \/ Store(s, x) \/ CommitInPlace(s, Recompute(e), w)
    BY <1>3 DEF SetMinimumUsableMembers
  <2>2. Tames(sets[s], x) /\ n \in Nat
    BY <1>0, LimitsAssumption
  <2> HIDE DEF x
  <2>3. Tames(sets[s], e)
    BY <2>2, EditTames
  <2> HIDE DEF e
  <2>4. Tames(sets[s], Recompute(e))
    BY <2>3, StepsTame
  <2> QED BY <1>0, <2>1, <2>2, <2>4, StoreCalms, CommitInPlaceCalms
<1>4. ASSUME NEW b \in Policies, SetConditionalAuthorityPolicy(w, s, b) PROVE FALSE
  BY <1>4 DEF SetConditionalAuthorityPolicy, Mutates, Client, Reconciled
<1>5. ASSUME NEW b \in Enablements, SetAdminEnabled(w, s, b) PROVE Calming
  <2> DEFINE x == r(IF b THEN "ADMIN_ENABLED" ELSE "ADMIN_DISABLED")
             e == [x EXCEPT !.admin_enabled = b]
  <2>1. \/ Store(s, x) \/ CommitInPlace(s, Recompute(e), w)
    BY <1>5 DEF SetAdminEnabled
  <2>2. Tames(sets[s], x) /\ b \in BOOLEAN
    BY <1>0, LimitsAssumption
  <2> HIDE DEF x
  <2>3. Tames(sets[s], e)
    BY <2>2, EditTames
  <2> HIDE DEF e
  <2>4. Tames(sets[s], Recompute(e))
    BY <2>3, StepsTame
  <2> QED BY <1>0, <2>1, <2>2, <2>4, StoreCalms, CommitInPlaceCalms
<1>6. CASE WithdrawSet(w, s)
  <2>1. CommitInPlace(s, Consequences(Recompute(r("BEGIN_WITHDRAW")), sets[s].lifecycle), w)
    BY <1>6 DEF WithdrawSet
  <2>2. Tames(sets[s], Consequences(Recompute(r("BEGIN_WITHDRAW")), sets[s].lifecycle))
    BY <1>0, StepsTame
  <2> QED BY <1>0, <2>1, <2>2, CommitInPlaceCalms
<1>7. ASSUME NEW operation, NEW event, EndSet(operation, event, w, s) PROVE Calming
  <2>1. CommitInPlace(s, Consequences(r(event), sets[s].lifecycle), w)
    BY <1>7 DEF EndSet
  <2>2. Tames(sets[s], Consequences(r(event), sets[s].lifecycle))
    BY <1>0, StepsTame
  <2> QED BY <1>0, <2>1, <2>2, CommitInPlaceCalms
<1>8. ASSUME NEW y \in SetIds, SupersedeSet(w, s, y) PROVE Calming
  <2> DEFINE x == r("SUPERSEDE")
             old == [x EXCEPT !.superseded_by = y]
             ended == Consequences(old, sets[s].lifecycle)
             q == Commit(ended, w, FALSE)
  <2>1. s # y /\ sets' = [sets EXCEPT ![s] = q, ![y].supersedes = s]
    BY <1>8 DEF SupersedeSet
  <2>2. Tames(sets[s], x)
    BY <1>0
  <2> HIDE DEF x
  <2>3. Tames(sets[s], old)
    BY <2>2, EditTames, LimitsAssumption
  <2> HIDE DEF old
  <2>4. Abides(sets[s], q)
    BY <2>3, StepsTame, CommitTames
  <2>5. sets[y] \in SetRecords /\ Tames(sets[y], sets[y])
    BY HealthyRecords, TamesSame
  <2>6. Abides(sets[y], [sets[y] EXCEPT !.supersedes = s])
    BY <2>5, EditTames, LimitsAssumption DEF Tames
  <2> HIDE DEF q
  <2>7. /\ sets'[s] = q /\ sets'[y] = [sets[y] EXCEPT !.supersedes = s]
        /\ \A z \in SetIds \ {s, y} : sets'[z] = sets[z]
    BY <1>0, <2>1 DEF Typed
  <2>8. \A z \in SetIds \ {s, y} : Abides(sets[z], sets'[z])
    BY <2>7 DEF Abides
  <2> QED BY <2>4, <2>6, <2>7, <2>8 DEF Calming
<1>9. ASSUME NEW p \in Paths, RemoveMember(w, s, p) PROVE Calming
  <2> DEFINE x == r("MEMBER_REMOVED")
             e == [x EXCEPT !.members[p] = NoMember]
  <2>1. CommitSet(s, Recompute(e), w, TRUE, {}, 0, {p})
    BY <1>9 DEF RemoveMember
  <2>2. Tames(sets[s], x)
    BY <1>0
  <2> HIDE DEF x
  <2>3. Tames(sets[s], e)
    BY <2>2, NoMemberFacts, MemberTames
  <2> HIDE DEF e
  <2>4. Tames(sets[s], Recompute(e))
    BY <2>3, StepsTame
  <2> QED BY <1>0, <2>1, <2>4, CommitSetCalms
<1>10. ASSUME NEW p \in Paths, WithdrawMember(w, s, p) PROVE Calming
  <2> DEFINE x == r("MEMBER_REMOVED")
             n == Closed(sets[s].members[p], "WITHDRAWN")
             e == [x EXCEPT !.members[p] = n]
  <2>1. CommitSet(s, Recompute(e), w, TRUE, {}, 0, {}) /\ sets[s].members[p].generation < MaxGeneration
    BY <1>10 DEF WithdrawMember
  <2>2. Tames(sets[s], x)
    BY <1>0
  <2>3. n \in Members /\ ~Usable(n)
    <3>1. sets[s].members[p] \in Members /\ "WITHDRAWN" \in TerminalMember
      BY <1>0 DEF SetRecords, TerminalMember
    <3> QED BY <2>1, <3>1, ClosedFacts
  <2> HIDE DEF x, n
  <2>4. Tames(sets[s], e)
    BY <2>2, <2>3, MemberTames
  <2> HIDE DEF e
  <2>5. Tames(sets[s], Recompute(e))
    BY <2>4, StepsTame
  <2> QED BY <1>0, <2>1, <2>5, CommitSetCalms
<1>11. ASSUME NEW p \in Paths, BeginMemberRevalidation(w, s, p) PROVE Calming
  <2> DEFINE m == sets[s].members[p]
             n == [m EXCEPT !.pending = @ + 1]
  <2>1. Store(s, [sets[s] EXCEPT !.members[p].pending = @ + 1])
    BY <1>11 DEF BeginMemberRevalidation
  <2>2. m \in Members
    BY <1>0 DEF SetRecords
  <2>3. n \in Members /\ (Usable(n) <=> Usable(m)) /\ n.bound = m.bound
    BY <2>2 DEF Members, Usable
  <2>4. [sets[s] EXCEPT !.members[p].pending = @ + 1] = [sets[s] EXCEPT !.members[p] = n]
    BY <1>0, <2>2 DEF SetRecords
  <2>5. Store(s, [sets[s] EXCEPT !.members[p] = n])
    BY <2>1, <2>4
  <2> HIDE DEF n
  <2>6. Tames(sets[s], [sets[s] EXCEPT !.members[p] = n])
    BY <1>0, <2>3, MemberTames
  <2> QED BY <1>0, <2>5, <2>6, StoreCalms
<1> HIDE DEF r
<1> QED
  BY <1>1, <1>2, <1>3, <1>4, <1>5, <1>6, <1>7, <1>8, <1>9, <1>10, <1>11
  DEF SetStep, RevokeSet, RetireSet

LEMMA ApplyToDependentsCalms ==
    ASSUME Healthy, NEW p \in Paths, NEW view \in Views, ApplyToDependents(p, view)
    PROVE  /\ Calming
           /\ \A s \in SetIds :
                 sets'[s].lifecycle \notin TerminalSet /\ Usable(sets'[s].members[p]) =>
                     Classify(view, sets'[s].members[p].bound, sets'[s].conditional) = "CURRENT"
<1> SUFFICES ASSUME NEW s \in SetIds
             PROVE  /\ Abides(sets[s], sets'[s])
                    /\ sets'[s].lifecycle \notin TerminalSet /\ Usable(sets'[s].members[p]) =>
                           Classify(view, sets'[s].members[p].bound, sets'[s].conditional) = "CURRENT"
  BY DEF Calming
<1>1. sets[s] \in SetRecords /\ Right(sets[s]) /\ Sound(sets[s])
  BY HealthyRecords
<1>2. CASE s \in path_dependents[p]
  <2>1. sets'[s] = ApplyView(sets[s], p, view)
    BY <1>2 DEF ApplyToDependents
  <2>2. Absent(sets[s]) => sets[s] = NoRecord
    BY <1>1 DEF Sound
  <2> QED BY <1>1, <2>1, <2>2, ApplyViewAbides, ApplyViewFresh
<1>3. CASE s \notin path_dependents[p]
  <2>1. sets'[s] = sets[s]
    BY <1>3 DEF ApplyToDependents
  <2>2. ~Present(sets[s].members[p])
    BY <1>3, InvImplies DEF Healthy, PathIndexConsistent
  <2>3. ~Usable(sets[s].members[p])
    BY <2>2 DEF Present, Usable
  <2> QED BY <2>1, <2>3 DEF Abides
<1> QED BY <1>2, <1>3

\* A step of the authority moves watermarks, and the live currentness of sets.
LEMMA AuthorityStepCalms ==
    ASSUME Healthy, AuthorityStep
    PROVE  Calming /\ UNCHANGED <<directory, calls>>
<1>1. ASSUME NEW lost, NEW e, Uncurrent(lost, e)
      PROVE  Calming /\ UNCHANGED <<directory, calls>>
  <2> SUFFICES ASSUME NEW s \in SetIds PROVE Abides(sets[s], sets'[s])
    BY <1>1 DEF Uncurrent, Calming
  <2> DEFINE b == BumpAll(sets[s])
  <2>1. \/ sets'[s] = sets[s]
        \/ sets'[s] = [b EXCEPT !.currentness = "REVALIDATION_REQUIRED", !.governing_epoch = e]
    BY <1>1 DEF Uncurrent
  <2>2. Abides(sets[s], b) /\ b \in SetRecords
    BY HealthyRecords, BumpAllAbides
  <2> HIDE DEF b
  <2> QED BY <2>1, <2>2 DEF Abides, SetRecords
<1>2. ASSUME NEW w, FenceWorker(w) \/ \E session : AdvanceEpoch(w, session)
      PROVE  Calming /\ UNCHANGED <<directory, calls>>
  BY <1>1, <1>2 DEF FenceWorker, AdvanceEpoch
<1>3. ASSUME NEW w, UnregisterPublisher(w) \/ \E scope, session : RegisterPublisher(w, scope, session)
      PROVE  Calming /\ UNCHANGED <<directory, calls>>
  BY <1>3, StillCalms DEF UnregisterPublisher, RegisterPublisher, engine_vars
<1> QED BY <1>2, <1>3 DEF AuthorityStep

-----------------------------------------------------------------------------
\* The calls in flight.

\* Every call in flight is one that clients make, and an idle thread has none.
Engaged ==
    \A t \in Threads : /\ calls[t].step # "idle" => calls[t].op # "none"
                       /\ calls[t].op # "none" => calls[t].op \in Calls

\* Slot m holds the member id.
Holding(m, id) == Present(m) /\ m.id = id

\* The member that a call revalidates is at the path it looks up, if it still is
\* a member.
Aimed(c) ==
    /\ c.member \in 1 .. next_id - 1
    /\ \E p \in Paths :
          /\ c.scope = {p}
          /\ \A q \in Paths : Holding(sets[c.set].members[q], c.member) => q = p

OnItsSlot == \A t \in Threads : calls[t].op = "revalidate_member" => Aimed(calls[t])

\* c is the same call, later.
Carries(a, c) ==
    \/ c = Idle
    \/ /\ a.step # "idle"
       /\ c.op = a.op /\ c.set = a.set /\ c.member = a.member /\ c.scope = a.scope

LEMMA CallStepCarries ==
    ASSUME Inv, NEW t \in Threads, CallStep(t)
    PROVE  \E c : calls' = [calls EXCEPT ![t] = c] /\ Carries(calls[t], c)
<1>0. calls[t] \in CallRecords /\ calls \in [Threads -> CallRecords]
  BY CallType DEF Inv, RestInv
<1>1. ASSUME Return(t) PROVE \E c : calls' = [calls EXCEPT ![t] = c] /\ Carries(calls[t], c)
  BY <1>1 DEF Return, Carries
<1>2. ASSUME Reconcile(t), calls[t].step = "lookup"
      PROVE  \E c : calls' = [calls EXCEPT ![t] = c] /\ Carries(calls[t], c)
  <2> DEFINE c == IF calls[t].scope = {} THEN Idle
                  ELSE [calls[t] EXCEPT !.step = "reconcile", !.todo = calls[t].scope]
  <2>1. calls' = [calls EXCEPT ![t] = c]
    BY <1>2 DEF Reconcile
  <2>2. Carries(calls[t], c)
    BY <1>0, <1>2 DEF Carries, CallRecords
  <2> QED BY <2>1, <2>2
<1>3. ASSUME NEW p \in Paths, Lookup(t, p)
      PROVE  \E c : calls' = [calls EXCEPT ![t] = c] /\ Carries(calls[t], c)
  <2> DEFINE c == [calls[t] EXCEPT !.views[p] = directory[p], !.todo = @ \ {p}]
  <2>1. calls' = [calls EXCEPT ![t] = c]
    BY <1>0, <1>3 DEF Lookup, CallRecords
  <2>2. Carries(calls[t], c)
    BY <1>0, <1>3 DEF Lookup, Carries, CallRecords
  <2> QED BY <2>1, <2>2
<1>4. ASSUME NEW p \in Paths, Observe(t, p)
      PROVE  \E c : calls' = [calls EXCEPT ![t] = c] /\ Carries(calls[t], c)
  <2> DEFINE left == calls[t].todo \ {p}
             c == IF directory[p] # calls[t].views[p]
                  THEN [calls[t] EXCEPT !.step = "apply", !.path = p,
                                        !.seen = directory[p], !.todo = left]
                  ELSE IF left = {} THEN Idle ELSE [calls[t] EXCEPT !.todo = left]
  <2>1. calls' = [calls EXCEPT ![t] = c]
    BY <1>4 DEF Observe
  <2>2. Carries(calls[t], c)
    BY <1>0, <1>4 DEF Observe, Carries, CallRecords
  <2> QED BY <2>1, <2>2
<1>5. ASSUME ApplyObserved(t)
      PROVE  \E c : calls' = [calls EXCEPT ![t] = c] /\ Carries(calls[t], c)
  <2> DEFINE c == IF calls[t].todo = {} THEN Idle
                  ELSE [calls[t] EXCEPT !.step = "reconcile", !.path = 0, !.seen = NoView]
  <2>1. calls' = [calls EXCEPT ![t] = c]
    BY <1>5 DEF ApplyObserved
  <2>2. Carries(calls[t], c)
    BY <1>0, <1>5 DEF ApplyObserved, Carries, CallRecords
  <2> QED BY <2>1, <2>2
<1>6. ASSUME AddMembers(t) \/ RevalidateSet(t) \/ RevalidateMember(t)
      PROVE  (Return(t) \/ Reconcile(t)) /\ calls[t].step = "lookup"
  BY <1>6 DEF AddMembers, RevalidateSet, RevalidateMember, Ready
<1>7. ASSUME ReplaceMember(t) \/ SetMemberAdminEnabled(t) \/ RefuseCompletion(t)
             \/ CompleteMemberRevalidation(t) \/ RefreshPath(t) \/ Refuse(t)
      PROVE  Return(t)
  BY <1>7 DEF ReplaceMember, SetMemberAdminEnabled, RefuseCompletion,
              CompleteMemberRevalidation, RefreshPath, Refuse
<1> QED BY <1>1, <1>2, <1>3, <1>4, <1>5, <1>6, <1>7 DEF CallStep

\* A free thread starts a call on the paths of "scope".
LEMMA BeginFacts ==
    ASSUME NEW t, NEW w, NEW scope, NEW c, Begin(t, w, scope, c),
           {"op", "step", "worker", "epoch", "set", "member", "scope", "todo"} \subseteq DOMAIN c,
           c = [x \in DOMAIN c |-> c[x]]
    PROVE  /\ calls[t].op = "none" /\ UNCHANGED <<engine_vars, directory>>
           /\ c.op \in Calls
           /\ \E d : /\ calls' = [calls EXCEPT ![t] = d]
                     /\ d.op = c.op /\ d.set = c.set /\ d.member = c.member /\ d.scope = scope
<1> DEFINE d == [c EXCEPT !.step = "lookup", !.worker = w, !.epoch = epoch,
                          !.scope = scope, !.todo = scope]
<1>1. calls' = [calls EXCEPT ![t] = d]
  BY DEF Begin
<1>2. d.op = c.op /\ d.set = c.set /\ d.member = c.member /\ d.scope = scope
  OBVIOUS
<1> QED BY <1>1, <1>2 DEF Begin, Client

LEMMA StartCallBegins ==
    ASSUME NEW t, NEW w, StartCall(t, w)
    PROVE  /\ calls[t].op = "none" /\ UNCHANGED <<engine_vars, directory>>
           /\ \E c : /\ calls' = [calls EXCEPT ![t] = c]
                     /\ c.op \in Calls /\ c.op # "none"
                     /\ c.op = "revalidate_member" =>
                           \E p \in Paths : /\ c.set \in SetIds
                                            /\ Present(sets[c.set].members[p])
                                            /\ c.member = sets[c.set].members[p].id
                                            /\ c.scope = {p}
<1> DEFINE Goal == /\ calls[t].op = "none" /\ UNCHANGED <<engine_vars, directory>>
                   /\ \E c : /\ calls' = [calls EXCEPT ![t] = c]
                             /\ c.op \in Calls /\ c.op # "none"
                             /\ c.op = "revalidate_member" =>
                                   \E p \in Paths : /\ c.set \in SetIds
                                                    /\ Present(sets[c.set].members[p])
                                                    /\ c.member = sets[c.set].members[p].id
                                                    /\ c.scope = {p}
<1>1. ASSUME NEW s \in SetIds, NEW requests, StartAddMembers(t, w, s, requests) PROVE Goal
  <2> DEFINE c == [Idle EXCEPT !.op = "add_members", !.set = s, !.requests = requests]
  <2>1. Begin(t, w, Requested(requests), c)
    BY <1>1 DEF StartAddMembers
  <2>2. /\ {"op", "step", "worker", "epoch", "set", "member", "scope", "todo"} \subseteq DOMAIN c
        /\ c = [x \in DOMAIN c |-> c[x]] /\ c.op = "add_members"
    BY ZenonT(30) DEF Idle
  <2> HIDE DEF c
  <2> QED BY <2>1, <2>2, BeginFacts
<1>2. ASSUME NEW s \in SetIds, NEW p, NEW q, NEW gen, StartReplaceMember(t, w, s, p, q, gen) PROVE Goal
  <2> DEFINE c == [Idle EXCEPT !.op = "replace_member", !.set = s,
                          !.member = sets[s].members[p].id,
                          !.requests = [Idle.requests EXCEPT ![q] = gen]]
  <2>1. Begin(t, w, {q}, c)
    BY <1>2 DEF StartReplaceMember
  <2>2. /\ {"op", "step", "worker", "epoch", "set", "member", "scope", "todo"} \subseteq DOMAIN c
        /\ c = [x \in DOMAIN c |-> c[x]] /\ c.op = "replace_member"
    BY ZenonT(30) DEF Idle
  <2> HIDE DEF c
  <2> QED BY <2>1, <2>2, BeginFacts
<1>3. ASSUME NEW s \in SetIds, NEW p \in Paths, NEW enabled, StartSetMemberAdminEnabled(t, w, s, p, enabled)
      PROVE  Goal
  <2> DEFINE b == [Idle EXCEPT !.op = "set_member_admin_enabled", !.enabled = enabled]
             c == [b EXCEPT !.set = s, !.member = sets[s].members[p].id]
  <2>1. Begin(t, w, {p}, c)
    BY <1>3 DEF StartSetMemberAdminEnabled, StartOnMember
  <2>2. /\ {"op", "step", "worker", "epoch", "set", "member", "scope", "todo"} \subseteq DOMAIN c
        /\ c = [x \in DOMAIN c |-> c[x]] /\ c.op = "set_member_admin_enabled"
    BY ZenonT(30) DEF Idle
  <2> HIDE DEF c
  <2> QED BY <2>1, <2>2, BeginFacts
<1>4. ASSUME NEW s \in SetIds, NEW p \in Paths, StartRevalidateMember(t, w, s, p) PROVE Goal
  <2> DEFINE b == [Idle EXCEPT !.op = "revalidate_member"]
             c == [b EXCEPT !.set = s, !.member = sets[s].members[p].id]
  <2>1. Begin(t, w, {p}, c) /\ Present(sets[s].members[p])
    BY <1>4 DEF StartRevalidateMember, StartOnMember
  <2>2. /\ {"op", "step", "worker", "epoch", "set", "member", "scope", "todo"} \subseteq DOMAIN c
        /\ c = [x \in DOMAIN c |-> c[x]] /\ c.op = "revalidate_member"
        /\ c.set = s /\ c.member = sets[s].members[p].id
    BY ZenonT(30) DEF Idle
  <2> HIDE DEF c
  <2>3. PICK d : /\ calls' = [calls EXCEPT ![t] = d]
                 /\ d.op = c.op /\ d.set = c.set /\ d.member = c.member /\ d.scope = {p}
    BY <2>1, <2>2, BeginFacts
  <2>4. calls[t].op = "none" /\ UNCHANGED <<engine_vars, directory>> /\ c.op \in Calls
    BY <2>1, <2>2, BeginFacts
  <2>5. /\ d.set \in SetIds /\ Present(sets[d.set].members[p])
        /\ d.member = sets[d.set].members[p].id
        /\ d.op \in Calls /\ d.op # "none"
    BY <2>1, <2>2, <2>3, <2>4
  <2> QED BY <2>3, <2>4, <2>5
<1>5. ASSUME NEW s \in SetIds, StartRevalidateSet(t, w, s) PROVE Goal
  <2> DEFINE c == [Idle EXCEPT !.op = "revalidate_set", !.set = s]
  <2>1. Begin(t, w, LivePaths(sets[s].members), c)
    BY <1>5 DEF StartRevalidateSet
  <2>2. /\ {"op", "step", "worker", "epoch", "set", "member", "scope", "todo"} \subseteq DOMAIN c
        /\ c = [x \in DOMAIN c |-> c[x]] /\ c.op = "revalidate_set"
    BY DEF Idle
  <2> HIDE DEF c
  <2> QED BY <2>1, <2>2, BeginFacts
<1>6. ASSUME NEW k, StartCompleteMemberRevalidation(t, w, k) PROVE Goal
  <2> DEFINE c == [Idle EXCEPT !.op = "complete_member_revalidation", !.set = tickets[k].set,
                               !.member = tickets[k].member.id, !.ticket = k]
  <2>1. PICK scope : Begin(t, w, scope, c)
    BY <1>6 DEF StartCompleteMemberRevalidation
  <2>2. /\ {"op", "step", "worker", "epoch", "set", "member", "scope", "todo"} \subseteq DOMAIN c
        /\ c = [x \in DOMAIN c |-> c[x]] /\ c.op = "complete_member_revalidation"
    BY ZenonT(30) DEF Idle
  <2> HIDE DEF c
  <2> QED BY <2>1, <2>2, BeginFacts
<1>7. ASSUME NEW p, StartRefreshPath(t, w, p) PROVE Goal
  <2> DEFINE c == [Idle EXCEPT !.op = "refresh_path"]
  <2>1. Begin(t, w, {p}, c)
    BY <1>7 DEF StartRefreshPath
  <2>2. /\ {"op", "step", "worker", "epoch", "set", "member", "scope", "todo"} \subseteq DOMAIN c
        /\ c = [x \in DOMAIN c |-> c[x]] /\ c.op = "refresh_path"
    BY DEF Idle
  <2> HIDE DEF c
  <2> QED BY <2>1, <2>2, BeginFacts
<1> HIDE DEF Goal
<1>8. Goal
  BY <1>1, <1>2, <1>3, <1>4, <1>5, <1>6, <1>7 DEF StartCall
<1> QED BY <1>8 DEF Goal

\* Only its own thread touches a call.
LEMMA NextCalls ==
    ASSUME Inv, [Next]_vars
    PROVE  \/ calls' = calls
           \/ \E t \in Threads, w \in Callers : StartCall(t, w)
           \/ \E t \in Threads : CallStep(t)
<1>1. ASSUME NEW w, NEW s, SetStep(w, s) PROVE calls' = calls
  BY <1>1 DEF SetStep, CreateSet, PublishSet, SetMinimumUsableMembers,
       SetConditionalAuthorityPolicy, SetAdminEnabled, WithdrawSet, CompleteWithdrawal,
       RevokeSet, RetireSet, EndSet, SupersedeSet, RemoveMember, WithdrawMember,
       BeginMemberRevalidation, Mutates, Quiet
<1>2. ASSUME ViewStep PROVE calls' = calls
  BY <1>2 DEF ViewStep, DeclarePathAuthority, ApplyPathAuthority, ExternalChange,
       AbandonMemberRevalidation, Quiet
<1>3. ASSUME AuthorityStep PROVE calls' = calls
  BY <1>3 DEF AuthorityStep, RegisterPublisher, UnregisterPublisher, FenceWorker, AdvanceEpoch,
       Uncurrent
<1>4. ASSUME UNCHANGED vars PROVE calls' = calls
  BY <1>4 DEF vars
<1> QED BY <1>1, <1>2, <1>3, <1>4 DEF Next

LEMMA EngagedStep ==
    ASSUME Inv, Engaged, [Next]_vars
    PROVE  Engaged'
<1>0. calls \in [Threads -> CallRecords]
  BY DEF Inv, RestInv
<1>1. CASE calls' = calls
  BY <1>1 DEF Engaged
<1>2. ASSUME NEW t \in Threads, NEW w, StartCall(t, w) PROVE Engaged'
  <2>1. PICK c : calls' = [calls EXCEPT ![t] = c] /\ c.op \in Calls /\ c.op # "none"
    BY <1>2, StartCallBegins
  <2> QED BY <1>0, <2>1 DEF Engaged
<1>3. ASSUME NEW t \in Threads, CallStep(t) PROVE Engaged'
  <2>1. PICK c : calls' = [calls EXCEPT ![t] = c] /\ Carries(calls[t], c)
    BY <1>3, CallStepCarries
  <2>2. Idle.op = "none" /\ Idle.step = "idle"
    BY DEF Idle
  <2> QED BY <1>0, <2>1, <2>2 DEF Engaged, Carries
<1> QED BY <1>1, <1>2, <1>3, NextCalls

LEMMA OnItsSlotStep ==
    ASSUME Healthy, Identified, OnItsSlot, [Next]_vars
    PROVE  OnItsSlot'
<1>0. calls \in [Threads -> CallRecords] /\ Inv /\ next_id \in Nat \ {0}
  BY DEF Healthy, Inv, RestInv
<1>1. PICK s : \E F \in SUBSET Paths : History(s, F)
  BY NextHistory DEF Progress
<1>2. PICK F \in SUBSET Paths : History(s, F)
  BY <1>1
<1>3. next_id' \in Nat /\ next_id <= next_id'
  BY <1>0, <1>2, NextInv DEF History, Inv, RestInv
<1>4. ASSUME NEW c, c.set \in SetIds, Aimed(c)
      PROVE  /\ c.member \in 1 .. next_id' - 1
             /\ \E p \in Paths :
                   /\ c.scope = {p}
                   /\ \A q \in Paths : Holding(sets'[c.set].members[q], c.member) => q = p
  <2>1. c.member \in 1 .. next_id - 1
    BY <1>4 DEF Aimed
  <2>2. c.member \in 1 .. next_id' - 1 /\ c.member \notin next_id .. next_id' - 1
    BY <1>0, <1>3, <2>1
  <2>3. ASSUME NEW q \in Paths, Holding(sets'[c.set].members[q], c.member)
        PROVE  Holding(sets[c.set].members[q], c.member)
    BY <1>2, <1>4, <2>2, <2>3, SlotHistory DEF Vacant, Descends, Holding
  <2>4. PICK p \in Paths :
            /\ c.scope = {p}
            /\ \A q \in Paths : Holding(sets[c.set].members[q], c.member) => q = p
    BY <1>4 DEF Aimed
  <2>5. \A q \in Paths : Holding(sets'[c.set].members[q], c.member) => q = p
    BY <2>3, <2>4
  <2> QED BY <2>2, <2>4, <2>5
<1>5. ASSUME NEW t \in Threads, calls[t].op = "revalidate_member"
      PROVE  calls[t].set \in SetIds /\ Aimed(calls[t])
  BY <1>0, <1>5, CallType DEF OnItsSlot, WellFormed
<1>6. ASSUME NEW t \in Threads, calls'[t].op = "revalidate_member",
             \/ calls'[t] = calls[t]
             \/ Carries(calls[t], calls'[t])
      PROVE  Aimed(calls[t])' 
  <2>1. Idle.op # "revalidate_member"
    BY DEF Idle
  <2>2. /\ calls'[t].op = calls[t].op /\ calls'[t].set = calls[t].set
        /\ calls'[t].member = calls[t].member /\ calls'[t].scope = calls[t].scope
    BY <1>6, <2>1 DEF Carries
  <2> QED BY <1>4, <1>5, <1>6, <2>2 DEF Aimed
<1>7. CASE calls' = calls
  BY <1>6, <1>7 DEF OnItsSlot
<1>8. ASSUME NEW t \in Threads, NEW w, StartCall(t, w) PROVE OnItsSlot'
  <2>1. PICK c : /\ calls' = [calls EXCEPT ![t] = c]
                 /\ c.op = "revalidate_member" =>
                       \E p \in Paths : /\ c.set \in SetIds
                                        /\ Present(sets[c.set].members[p])
                                        /\ c.member = sets[c.set].members[p].id
                                        /\ c.scope = {p}
    BY <1>8, StartCallBegins
  <2>2. UNCHANGED <<sets, next_id>>
    BY <1>8, StartCallBegins DEF engine_vars
  <2>3. ASSUME c.op = "revalidate_member" PROVE Aimed(c)
    <3>1. PICK p \in Paths : /\ c.set \in SetIds
                             /\ Present(sets[c.set].members[p])
                             /\ c.member = sets[c.set].members[p].id
                             /\ c.scope = {p}
      BY <2>1, <2>3
    <3>2. c.member \in 1 .. next_id - 1
      BY <3>1 DEF Identified, Issued
    <3>3. ASSUME NEW q \in Paths, Holding(sets[c.set].members[q], c.member) PROVE q = p
      <4>1. c.member # 0
        BY <3>2
      <4> QED BY <3>1, <3>3, <4>1 DEF Identified, Holding
    <3>4. \A q \in Paths : Holding(sets[c.set].members[q], c.member) => q = p
      BY <3>3
    <3> QED BY <3>1, <3>2, <3>4 DEF Aimed
  <2>4. calls'[t] = c /\ \A u \in Threads \ {t} : calls'[u] = calls[u]
    BY <1>0, <2>1
  <2> QED BY <1>6, <2>2, <2>3, <2>4 DEF OnItsSlot, Aimed
<1>9. ASSUME NEW t \in Threads, CallStep(t) PROVE OnItsSlot'
  <2>1. PICK c : calls' = [calls EXCEPT ![t] = c] /\ Carries(calls[t], c)
    BY <1>0, <1>9, CallStepCarries
  <2>2. calls'[t] = c /\ \A u \in Threads \ {t} : calls'[u] = calls[u]
    BY <1>0, <2>1
  <2> QED BY <1>6, <2>1, <2>2 DEF OnItsSlot
<1> QED BY <1>0, <1>7, <1>8, <1>9, NextCalls

-----------------------------------------------------------------------------
\* Who covers a stale use.

\* Thread t has yet to compare path p with a fresh lookup, and what it committed
\* agrees with member p of set s; or it has compared, and holds the answer.
Reconciles(t, s, p) ==
    \/ /\ calls[t].step \in {"reconcile", "apply"}
       /\ p \in calls[t].todo
       /\ Classify(calls[t].views[p], sets[s].members[p].bound, sets[s].conditional) = "CURRENT"
    \/ calls[t].step = "apply" /\ calls[t].path = p /\ calls[t].seen = directory[p]

Covered == \A s \in SetIds, p \in Paths : StaleUse(s, p) => \E t \in Threads : Reconciles(t, s, p)

Watched == Healthy /\ Identified /\ Engaged /\ OnItsSlot /\ Covered

\* A set that has ended stays so.
LEMMA EndedStays ==
    ASSUME Healthy, [Next]_vars, NEW s \in SetIds, sets[s].lifecycle \in TerminalSet
    PROVE  sets'[s].lifecycle \in TerminalSet
<1>0. Typed /\ TypeOK
  BY InvImplies, HealthyRecords DEF Healthy, Typed, Inv, SetsInv
<1>1. CASE LineageStays
  BY <1>1 DEF LineageStays, Kept, Follows, TerminalSet
<1>2. ASSUME NEW w \in Workers, NEW x \in SetIds, NEW n, NEW a, NEW c, CreateSet(w, x, n, a, c)
      PROVE  sets'[s].lifecycle \in TerminalSet
  BY <1>0, <1>2, CreateSetLineage DEF TerminalSet
<1>3. ASSUME NEW w \in Workers, NEW x \in SetIds, NEW y \in SetIds, SupersedeSet(w, x, y)
      PROVE  sets'[s].lifecycle \in TerminalSet
  BY <1>0, <1>3, SupersedeSetLineage, ZenonT(30) DEF TerminalSet
<1> QED BY <1>0, <1>1, <1>2, <1>3, StepKinds

\* What is stale after a step that calms was stale before, and keeps its cover
\* where the cover does not move.
LEMMA StaysCovered ==
    ASSUME Watched, [Next]_vars, NEW s \in SetIds, NEW p \in Paths,
           Usable(sets'[s].members[p]) =>
               /\ Usable(sets[s].members[p])
               /\ sets'[s].members[p].bound = sets[s].members[p].bound
               /\ sets'[s].conditional = sets[s].conditional,
           directory'[p] = directory[p],
           \A t \in Threads : calls[t].step \in {"reconcile", "apply"} => calls'[t] = calls[t],
           StaleUse(s, p)'
    PROVE  \E t \in Threads : Reconciles(t, s, p)'
<1>1. /\ sets'[s].lifecycle \notin TerminalSet /\ Usable(sets'[s].members[p])
      /\ Classify(directory'[p], sets'[s].members[p].bound, sets'[s].conditional) # "CURRENT"
  BY DEF StaleUse
<1>2. sets[s].lifecycle \notin TerminalSet
  BY <1>1, EndedStays DEF Watched
<1>3. /\ sets'[s].members[p].bound = sets[s].members[p].bound
      /\ sets'[s].conditional = sets[s].conditional
  BY <1>1
<1>4. StaleUse(s, p)
  BY <1>1, <1>2, <1>3 DEF StaleUse
<1>5. PICK t \in Threads : Reconciles(t, s, p)
  BY <1>4 DEF Watched, Covered
<1>6. Reconciles(t, s, p)'
  BY <1>3, <1>5 DEF Reconciles
<1> QED BY <1>6

LEMMA CalmCovered ==
    ASSUME Watched, [Next]_vars, Calming, directory' = directory,
           \A t \in Threads : calls[t].step \in {"reconcile", "apply"} => calls'[t] = calls[t]
    PROVE  Covered'
<1> SUFFICES ASSUME NEW s \in SetIds, NEW p \in Paths, StaleUse(s, p)'
             PROVE  \E t \in Threads : Reconciles(t, s, p)'
  BY DEF Covered
<1> QED BY StaysCovered DEF Calming, Abides

LEMMA ViewStepCovered ==
    ASSUME Watched, Reconciled, [Next]_vars, ViewStep
    PROVE  Covered'
<1>0. Healthy
  BY DEF Watched
<1>1. ASSUME NEW w \in Callers, NEW q \in Paths, NEW view \in Reports,
             DeclarePathAuthority(w, q, view)
      PROVE  Covered'
  <2>0. /\ ApplyToDependents(q, view) /\ calls' = calls /\ view \in Views
        /\ directory' = [directory EXCEPT ![q] = view]
    BY <1>1, ReportsAreViews DEF DeclarePathAuthority
  <2>1. directory \in [Paths -> Views]
    BY <1>0 DEF Healthy, Inv, RestInv
  <2> SUFFICES ASSUME NEW s \in SetIds, NEW p \in Paths, StaleUse(s, p)'
               PROVE  \E t \in Threads : Reconciles(t, s, p)'
    BY DEF Covered
  <2>2. p # q
    BY <1>0, <2>0, <2>1, ApplyToDependentsCalms DEF StaleUse
  <2>3. directory'[p] = directory[p] /\ Calming
    BY <1>0, <2>0, <2>1, <2>2, ApplyToDependentsCalms
  <2> QED BY <2>0, <2>3, StaysCovered DEF Calming, Abides
<1>2. ASSUME NEW w \in Callers, NEW q \in Paths, NEW view \in Reports,
             ApplyPathAuthority(w, q, view)
      PROVE  Covered'
  <2>1. ApplyToDependents(q, view) /\ calls' = calls /\ view \in Views /\ directory' = directory
    BY <1>2, ReportsAreViews DEF ApplyPathAuthority, Quiet
  <2> QED BY <1>0, <2>1, ApplyToDependentsCalms, CalmCovered
<1>3. ASSUME NEW q, NEW view, ExternalChange(q, view) PROVE FALSE
  BY <1>3 DEF ExternalChange, Reconciled
<1>4. ASSUME NEW k \in 1 .. Len(tickets), AbandonMemberRevalidation(k) PROVE Covered'
  <2> DEFINE s == tickets[k].set
             q == Slot(sets[s].members, tickets[k].member.id)
             m == sets[s].members[q]
             n == [m EXCEPT !.pending = @ - 1]
  <2>0. s \in SetIds
    <3>1. tickets \in Seq(Tickets)
      BY <1>0 DEF Healthy, Inv, RestInv
    <3>2. tickets[k] \in Tickets
      BY <1>4, <3>1
    <3> QED BY <3>2 DEF Tickets
  <2>1. /\ Store(s, [sets[s] EXCEPT !.members[q].pending = @ - 1]) /\ m.pending > 0
        /\ calls' = calls /\ directory' = directory
        /\ q \in Paths
    BY <1>4, SlotFacts DEF AbandonMemberRevalidation, Quiet
  <2>2. m \in Members /\ sets[s] \in SetRecords /\ Typed
    BY <1>0, <2>0, <2>1, HealthyRecords DEF SetRecords, Typed
  <2> HIDE DEF s, q
  <2>3. n \in Members /\ (Usable(n) <=> Usable(m)) /\ n.bound = m.bound
    <3> HIDE DEF m
    <3>1. m.pending \in Nat \ {0} /\ m.pending - 1 \in Nat
      BY <2>1, <2>2 DEF Members
    <3> QED BY <2>2, <3>1 DEF Members, Usable
  <2>4. [sets[s] EXCEPT !.members[q].pending = @ - 1] = [sets[s] EXCEPT !.members[q] = n]
    BY <2>1, <2>2 DEF SetRecords
  <2>5. Store(s, [sets[s] EXCEPT !.members[q] = n])
    BY <2>1, <2>4
  <2> HIDE DEF n
  <2>6. Tames(sets[s], [sets[s] EXCEPT !.members[q] = n])
    BY <2>1, <2>2, <2>3, TamesSame, MemberTames
  <2>7. Calming
    BY <2>0, <2>2, <2>5, <2>6, StoreCalms
  <2> QED BY <2>1, <2>7, CalmCovered
<1> QED BY <1>1, <1>2, <1>3, <1>4 DEF ViewStep

\* The thread that adds members answers for them.
LEMMA AddMembersCovered ==
    ASSUME Watched, [Next]_vars, NEW t \in Threads, AddMembers(t)
    PROVE  Covered'
<1> DEFINE c == calls[t]
           s == c.set
           r == ApplyTransition(sets[s], "MEMBER_ADDED")
           id(p) == next_id + Cardinality({y \in c.scope : y < p})
           joined == [p \in Paths |->
                        IF p \in c.scope
                        THEN NewMember(id(p), c.requests[p], c.views[p], r.conditional)
                        ELSE r.members[p]]
           e == [r EXCEPT !.members = joined]
           q == Recompute(e)
           b == Commit(q, c.worker, TRUE)
<1>0. /\ Healthy /\ Inv /\ c \in CallRecords /\ WellFormed(c)
      /\ calls \in [Threads -> CallRecords]
      /\ c.op = "add_members" /\ c.step = "lookup" /\ AddAdmissible(c) /\ Reconcile(t)
      /\ directory' = directory /\ sets' = [sets EXCEPT ![s] = b]
  BY CallType DEF Watched, Healthy, Inv, RestInv, AddMembers, Ready, CommitSet
<1>1. s \in SetIds
  BY <1>0 DEF WellFormed
<1>2. sets[s] \in SetRecords /\ r \in SetRecords /\ Frame(sets[s], r) /\ Typed
  BY <1>0, <1>1, HealthyRecords, ApplyTransitionFacts DEF Typed
<1>3. r.members = sets[s].members /\ r.conditional = sets[s].conditional
  BY <1>2 DEF Frame
<1>4. ASSUME NEW p \in c.scope
      PROVE  /\ p \in Paths /\ id(p) \in Nat /\ c.requests[p] \in Nat /\ c.views[p] \in Views
             /\ Classify(c.views[p], c.requests[p], r.conditional) = "CURRENT"
  BY <1>0, <1>3, CallType, Ranks, SMTT(30) DEF AddAdmissible, Inv, RestInv
<1>5. \A p \in c.scope : LET n == NewMember(id(p), c.requests[p], c.views[p], r.conditional)
                         IN  n \in Members /\ n.bound = c.requests[p]
  <2> SUFFICES ASSUME NEW p \in c.scope
               PROVE  LET n == NewMember(id(p), c.requests[p], c.views[p], r.conditional)
                      IN  n \in Members /\ n.bound = c.requests[p]
    OBVIOUS
  <2>1. /\ id(p) \in Nat /\ c.requests[p] \in Nat /\ c.views[p] \in Views
        /\ r.conditional \in BOOLEAN
    BY <1>2, <1>4 DEF SetRecords
  <2> HIDE DEF id, r, c
  <2> QED BY <2>1, NewMemberFacts, NewMemberBinds
<1> HIDE DEF r, id
<1>6. joined \in [Paths -> Members]
  BY <1>2, <1>5 DEF SetRecords
<1>7. e \in SetRecords /\ e.members = joined /\ e.conditional = r.conditional
  BY <1>2, <1>6 DEF SetRecords
<1> HIDE DEF e
<1>8. q \in SetRecords /\ q.members = joined /\ q.conditional = r.conditional
  BY <1>7, RecomputeFacts DEF Frame
<1> HIDE DEF q
<1>9. Abides(q, b)
  BY <1>8, CommitAbides
<1> HIDE DEF b
<1> SUFFICES ASSUME NEW x \in SetIds, NEW p \in Paths, StaleUse(x, p)'
             PROVE  \E u \in Threads : Reconciles(u, x, p)'
  BY DEF Covered
<1>10. Usable(sets'[x].members[p])
  BY DEF StaleUse
<1>11. \A u \in Threads : calls[u].step \in {"reconcile", "apply"} => calls'[u] = calls[u]
  BY <1>0 DEF Reconcile
<1>12. CASE x = s /\ p \in c.scope
  <2>1. sets'[s] = b
    BY <1>0, <1>1, <1>2 DEF Typed
  <2>2. b.members[p].bound = c.requests[p] /\ b.conditional = r.conditional
    BY <1>5, <1>8, <1>9, <1>10, <1>12, <2>1 DEF Abides
  <2>3. calls'[t] = [c EXCEPT !.step = "reconcile", !.todo = c.scope]
    BY <1>0, <1>12 DEF Reconcile
  <2>4. calls'[t].step = "reconcile" /\ calls'[t].todo = c.scope /\ calls'[t].views = c.views
    BY <1>0, <2>3 DEF CallRecords
  <2>5. Reconciles(t, x, p)'
    BY <1>4, <1>12, <2>1, <2>2, <2>4 DEF Reconciles
  <2> QED BY <2>5
<1>13. CASE ~(x = s /\ p \in c.scope)
  <2>1. Usable(sets'[x].members[p]) =>
               /\ Usable(sets[x].members[p])
               /\ sets'[x].members[p].bound = sets[x].members[p].bound
               /\ sets'[x].conditional = sets[x].conditional
    <3>1. CASE x # s
      <4>1. sets'[x] = sets[x]
        BY <1>0, <1>2, <3>1 DEF Typed
      <4> QED BY <4>1
    <3>2. CASE x = s
      <4>1. sets'[x] = b
        BY <1>0, <1>1, <1>2, <3>2 DEF Typed
      <4>2. joined[p] = sets[s].members[p]
        BY <1>3, <1>13, <3>2
      <4> QED BY <1>3, <1>8, <1>9, <3>2, <4>1, <4>2 DEF Abides
    <3> QED BY <3>1, <3>2
  <2> QED BY <1>0, <1>11, <2>1, StaysCovered
<1> QED BY <1>12, <1>13

\* The thread that revalidates a member answers for it when it rebinds it or
\* makes it usable.
LEMMA RevalidateMemberCovered ==
    ASSUME Watched, [Next]_vars, NEW t \in Threads, RevalidateMember(t)
    PROVE  Covered'
<1> DEFINE c == calls[t]
           s == c.set
           a == sets[s]
           y == Slot(a.members, c.member)
           m == a.members[y]
           n == Revalidated(m, c.views[y], a.conditional)
           v == Versioned(m, n)
           e == [a EXCEPT !.members[y] = v]
           q == Recompute(e)
           b == Commit(q, c.worker, FALSE)
<1>0. /\ Healthy /\ Inv /\ c \in CallRecords /\ WellFormed(c)
      /\ calls \in [Threads -> CallRecords]
      /\ c.op = "revalidate_member" /\ c.step = "lookup" /\ RevalidateMemberAdmissible(c)
      /\ directory' = directory
      /\ IF Moved(m, n) THEN CommitInPlace(s, q, c.worker) /\ Reconcile(t)
                        ELSE Store(s, q) /\ Return(t)
  BY CallType DEF Watched, Healthy, Inv, RestInv, RevalidateMember, Ready
<1>1. s \in SetIds
  BY <1>0 DEF WellFormed
<1>2. a \in SetRecords /\ Typed /\ a.members \in [Paths -> Members] /\ a.conditional \in BOOLEAN
  BY <1>0, <1>1, HealthyRecords DEF Typed, SetRecords
<1>3. y \in Paths /\ Present(m) /\ m.id = c.member /\ Live(m) /\ m.generation < MaxGeneration
  BY <1>0, SlotFacts DEF RevalidateMemberAdmissible
<1>4. m \in Members /\ c.views[y] \in Views
  BY <1>0, <1>2, <1>3, CallType
<1>5. c.scope = {y}
  BY <1>0, <1>3 DEF Watched, OnItsSlot, Aimed, Holding
<1>6. /\ n \in Members /\ n.generation = m.generation
      /\ Usable(n) => Classify(c.views[y], n.bound, a.conditional) = "CURRENT"
  <2> DEFINE f == IF c.views[y] = NoView THEN m ELSE [m EXCEPT !.bound = c.views[y].gen]
  <2>1. f \in Members /\ Live(f) /\ (c.views[y] # NoView => c.views[y].gen \in Nat)
    BY <1>3, <1>4 DEF Members, Views, NoView, Live
  <2>2. n = EvaluateMember(f, c.views[y], a.conditional, TRUE)
    BY DEF Revalidated
  <2>3. n \in Members /\ n.generation = m.generation
    BY <1>2, <1>4, RevalidatedFacts
  <2>4. n.currentness = Observed(f, c.views[y], a.conditional)
    BY <2>1, <2>2 DEF EvaluateMember, Members, Archived, Live, LiveMember, TerminalMember
  <2> HIDE DEF f, n
  <2>5. n.bound = f.bound
    <3> DEFINE view == c.views[y]
               policy == a.conditional
    <3>1. view \in Views /\ policy \in BOOLEAN /\ n = EvaluateMember(f, view, policy, TRUE)
      BY <1>2, <1>4, <2>2
    <3> HIDE DEF view, policy
    <3> QED BY <2>1, <3>1, EvaluateMemberFacts
  <2> QED BY <1>2, <1>4, <2>1, <2>3, <2>4, <2>5, ObservedType DEF Usable
<1>7. /\ v \in Members /\ v.bound = n.bound
      /\ v.lifecycle = n.lifecycle /\ v.currentness = n.currentness
  BY <1>3, <1>4, <1>6, VersionedFacts
<1>8. ~Moved(m, n) => (Usable(v) <=> Usable(m)) /\ v.bound = m.bound
  BY <1>7 DEF Moved, Usable
<1>9. Usable(v) => Classify(c.views[y], v.bound, a.conditional) = "CURRENT"
  BY <1>6, <1>7 DEF Usable
<1> DEFINE ms == [a.members EXCEPT ![y] = v]
<1>10. e \in SetRecords /\ e.members = ms /\ e.conditional = a.conditional
  BY <1>2, <1>3, <1>7 DEF SetRecords
<1>11. ~Moved(m, n) => Tames(a, e)
  <2>1. Tames(a, a)
    BY <1>2, TamesSame
  <2> HIDE DEF a, m, n, v, y
  <2> QED BY <1>3, <1>7, <1>8, <2>1, MemberTames DEF m, a
<1> HIDE DEF n, v
<1> SUFFICES ASSUME NEW x \in SetIds, NEW p \in Paths, StaleUse(x, p)'
             PROVE  \E u \in Threads : Reconciles(u, x, p)'
  BY DEF Covered
<1>12. \A u \in Threads : calls[u].step \in {"reconcile", "apply"} => calls'[u] = calls[u]
  BY <1>0 DEF Reconcile, Return
<1>13. CASE ~Moved(m, n)
  <2>1. Store(s, q)
    BY <1>0, <1>13
  <2>2. Tames(a, q)
    BY <1>11, <1>13, StepsTame
  <2> HIDE DEF q, a
  <2>3. Calming
    BY <1>1, <1>2, <2>1, <2>2, StoreCalms DEF a
  <2> QED BY <1>0, <1>12, <2>3, StaysCovered DEF Calming, Abides
<1>14. CASE Moved(m, n)
  <2>1. sets' = [sets EXCEPT ![s] = b] /\ Reconcile(t)
    BY <1>0, <1>14 DEF CommitInPlace, CommitSet
  <2> HIDE DEF e
  <2>2. q \in SetRecords /\ q.members = ms /\ q.conditional = a.conditional
    BY <1>10, RecomputeFacts DEF Frame
  <2> HIDE DEF q
  <2>3. Abides(q, b)
    BY <2>2, CommitAbides
  <2> HIDE DEF b
  <2>4. sets'[s] = b /\ \A z \in SetIds \ {s} : sets'[z] = sets[z]
    BY <1>1, <1>2, <2>1 DEF Typed
  <2>5. Usable(sets'[x].members[p])
    BY DEF StaleUse
  <2>6. CASE x = s /\ p = y
    <3>1. /\ b.members[p].bound = v.bound /\ b.conditional = a.conditional /\ Usable(v)
      BY <1>2, <1>3, <2>2, <2>3, <2>4, <2>5, <2>6 DEF Abides
    <3>2. calls'[t] = [c EXCEPT !.step = "reconcile", !.todo = c.scope]
      BY <1>0, <1>5, <2>1 DEF Reconcile
    <3>3. calls'[t].step = "reconcile" /\ calls'[t].todo = {y} /\ calls'[t].views = c.views
      BY <1>0, <1>5, <3>2 DEF CallRecords
    <3>4. Reconciles(t, x, p)'
      BY <1>9, <2>4, <2>6, <3>1, <3>3 DEF Reconciles
    <3> QED BY <3>4
  <2>7. CASE ~(x = s /\ p = y)
    <3>1. Usable(sets'[x].members[p]) =>
               /\ Usable(sets[x].members[p])
               /\ sets'[x].members[p].bound = sets[x].members[p].bound
               /\ sets'[x].conditional = sets[x].conditional
      BY <1>2, <2>2, <2>3, <2>4, <2>7 DEF Abides
    <3> QED BY <1>0, <1>12, <3>1, StaysCovered
  <2> QED BY <2>6, <2>7
<1> QED BY <1>13, <1>14

\* A comparison ends the cover only where the views agree.
LEMMA ObserveCovered ==
    ASSUME Watched, NEW t \in Threads, NEW q \in Paths, Observe(t, q)
    PROVE  Covered'
<1> DEFINE c == calls[t]
           left == c.todo \ {q}
           applying == [c EXCEPT !.step = "apply", !.path = q,
                                 !.seen = directory[q], !.todo = left]
           waiting == [c EXCEPT !.todo = left]
<1>0. /\ c \in CallRecords /\ calls \in [Threads -> CallRecords]
      /\ c.step = "reconcile" /\ sets' = sets /\ directory' = directory
      /\ calls' = [calls EXCEPT ![t] =
                      IF directory[q] # c.views[q] THEN applying
                      ELSE IF left = {} THEN Idle ELSE waiting]
  BY CallType DEF Watched, Healthy, Inv, RestInv, Observe, engine_vars
<1>1. /\ applying.step = "apply" /\ applying.path = q /\ applying.seen = directory[q]
      /\ applying.todo = left /\ applying.views = c.views
      /\ waiting.step = "reconcile" /\ waiting.todo = left /\ waiting.views = c.views
  BY <1>0 DEF CallRecords
<1> HIDE DEF applying, waiting
<1> SUFFICES ASSUME NEW s \in SetIds, NEW p \in Paths, StaleUse(s, p)'
             PROVE  \E u \in Threads : Reconciles(u, s, p)'
  BY DEF Covered
<1>2. StaleUse(s, p)
  BY <1>0 DEF StaleUse
<1>3. PICK u \in Threads : Reconciles(u, s, p)
  BY <1>2 DEF Watched, Covered
<1>4. CASE u # t
  <2>1. calls'[u] = calls[u]
    BY <1>0, <1>4
  <2>2. Reconciles(u, s, p)'
    BY <1>0, <1>3, <2>1 DEF Reconciles
  <2> QED BY <2>2
<1>5. CASE u = t
  <2>1. /\ p \in c.todo
        /\ Classify(c.views[p], sets[s].members[p].bound, sets[s].conditional) = "CURRENT"
    BY <1>0, <1>3, <1>5 DEF Reconciles
  <2>2. CASE p # q
    <3>1. p \in left
      BY <2>1, <2>2
    <3>2. calls'[t] = applying \/ calls'[t] = waiting
      BY <1>0, <3>1
    <3>3. Reconciles(t, s, p)'
      BY <1>0, <1>1, <2>1, <3>1, <3>2 DEF Reconciles
    <3> QED BY <3>3
  <2>3. CASE p = q
    <3>1. directory[q] # c.views[q]
      BY <1>2, <2>1, <2>3 DEF StaleUse
    <3>2. calls'[t] = applying
      BY <1>0, <3>1
    <3>3. Reconciles(t, s, p)'
      BY <1>0, <1>1, <2>3, <3>2 DEF Reconciles
    <3> QED BY <3>3
  <2> QED BY <2>2, <2>3
<1> QED BY <1>4, <1>5

\* An answer that is applied leaves nothing of its path counted against it.
LEMMA ApplyObservedCovered ==
    ASSUME Watched, [Next]_vars, NEW t \in Threads, ApplyObserved(t)
    PROVE  Covered'
<1> DEFINE c == calls[t]
           back == [c EXCEPT !.step = "reconcile", !.path = 0, !.seen = NoView]
<1>0. /\ Healthy /\ c \in CallRecords /\ calls \in [Threads -> CallRecords] /\ WellFormed(c)
      /\ c.step = "apply" /\ directory' = directory /\ ApplyToDependents(c.path, c.seen)
      /\ calls' = [calls EXCEPT ![t] = IF c.todo = {} THEN Idle ELSE back]
  BY CallType DEF Watched, Healthy, Inv, RestInv, ApplyObserved
<1>1. /\ c.path \in Paths /\ c.seen \in Views
      /\ back.step = "reconcile" /\ back.todo = c.todo /\ back.views = c.views
  BY <1>0 DEF WellFormed, CallRecords
<1>2. /\ Calming
      /\ \A s \in SetIds :
            sets'[s].lifecycle \notin TerminalSet /\ Usable(sets'[s].members[c.path]) =>
                Classify(c.seen, sets'[s].members[c.path].bound, sets'[s].conditional) = "CURRENT"
  BY <1>0, <1>1, ApplyToDependentsCalms
<1> HIDE DEF back
<1> SUFFICES ASSUME NEW s \in SetIds, NEW p \in Paths, StaleUse(s, p)'
             PROVE  \E u \in Threads : Reconciles(u, s, p)'
  BY DEF Covered
<1>3. /\ sets'[s].lifecycle \notin TerminalSet /\ Usable(sets'[s].members[p])
      /\ Classify(directory[p], sets'[s].members[p].bound, sets'[s].conditional) # "CURRENT"
  BY <1>0 DEF StaleUse
<1>4. /\ Usable(sets[s].members[p])
      /\ sets'[s].members[p].bound = sets[s].members[p].bound
      /\ sets'[s].conditional = sets[s].conditional
  BY <1>2, <1>3 DEF Calming, Abides
<1>5. sets[s].lifecycle \notin TerminalSet
  BY <1>0, <1>3, EndedStays
<1>6. StaleUse(s, p)
  BY <1>3, <1>4, <1>5 DEF StaleUse
<1>7. PICK u \in Threads : Reconciles(u, s, p)
  BY <1>6 DEF Watched, Covered
<1>8. CASE u # t
  <2>1. calls'[u] = calls[u]
    BY <1>0, <1>8
  <2>2. Reconciles(u, s, p)'
    BY <1>0, <1>4, <1>7, <2>1 DEF Reconciles
  <2> QED BY <2>2
<1>9. CASE u = t
  <2>1. ~(c.path = p /\ c.seen = directory[p])
    BY <1>2, <1>3
  <2>2. /\ p \in c.todo
        /\ Classify(c.views[p], sets[s].members[p].bound, sets[s].conditional) = "CURRENT"
    BY <1>7, <1>9, <2>1 DEF Reconciles
  <2>3. calls'[t] = back
    BY <1>0, <2>2
  <2>4. Reconciles(t, s, p)'
    BY <1>1, <1>4, <2>2, <2>3 DEF Reconciles
  <2> QED BY <2>4
<1> QED BY <1>8, <1>9

LEMMA CoveredStep ==
    ASSUME Watched, Reconciled, [Next]_vars
    PROVE  Covered'
<1>0. Healthy /\ Typed /\ calls \in [Threads -> CallRecords]
  BY HealthyRecords DEF Watched, Healthy, Typed, Inv, SetsInv, RestInv
<1>1. ASSUME NEW w \in Callers, NEW s \in SetIds, SetStep(w, s) PROVE Covered'
  <2>1. w \in Workers
    BY DEF Callers
  <2>2. calls' = calls /\ directory' = directory
    BY <1>1 DEF SetStep, CreateSet, PublishSet, SetMinimumUsableMembers,
       SetConditionalAuthorityPolicy, SetAdminEnabled, WithdrawSet, CompleteWithdrawal,
       RevokeSet, RetireSet, EndSet, SupersedeSet, RemoveMember, WithdrawMember,
       BeginMemberRevalidation, Mutates, Quiet
  <2> QED BY <1>0, <1>1, <2>1, <2>2, SetStepCalms, CalmCovered
<1>2. ASSUME AuthorityStep PROVE Covered'
  BY <1>0, <1>2, AuthorityStepCalms, CalmCovered
<1>3. ASSUME NEW t \in Threads, NEW w \in Callers, StartCall(t, w) PROVE Covered'
  <2>1. /\ calls[t].op = "none" /\ sets' = sets /\ directory' = directory
        /\ \E c : calls' = [calls EXCEPT ![t] = c]
    BY <1>3, StartCallBegins DEF engine_vars
  <2>2. calls[t].step = "idle"
    BY <2>1 DEF Watched, Engaged
  <2> QED BY <2>1, <2>2, StillCalms, CalmCovered
<1>4. ASSUME NEW t \in Threads, NEW p \in Paths, Lookup(t, p) PROVE Covered'
  <2>1. /\ calls[t].step = "lookup" /\ sets' = sets /\ directory' = directory
        /\ \E c : calls' = [calls EXCEPT ![t] = c]
    BY <1>4 DEF Lookup, engine_vars
  <2> QED BY <2>1, StillCalms, CalmCovered
<1>5. ASSUME NEW t \in Threads, Refuse(t) PROVE Covered'
  <2>1. /\ calls[t].step = "lookup" /\ sets' = sets /\ directory' = directory
        /\ \E c : calls' = [calls EXCEPT ![t] = c]
    BY <1>5 DEF Refuse, Ready, Return, engine_vars
  <2> QED BY <2>1, StillCalms, CalmCovered
<1>6. ASSUME NEW t \in Threads, RefreshPath(t) PROVE Covered'
  <2>1. /\ calls[t].step = "lookup" /\ directory' = directory
        /\ \E c : calls' = [calls EXCEPT ![t] = c]
    BY <1>6 DEF RefreshPath, Ready, Return
  <2>2. /\ calls[t].op = "refresh_path" /\ WellFormed(calls[t]) /\ Inv
        /\ ApplyToDependents(Successor(calls[t]), calls[t].views[Successor(calls[t])])
    BY <1>0, <1>6, CallType DEF RefreshPath, Ready, Healthy
  <2>3. Successor(calls[t]) \in calls[t].scope
    BY <2>2 DEF WellFormed, Successor
  <2>4. Successor(calls[t]) \in Paths /\ calls[t].views[Successor(calls[t])] \in Views
    BY <2>2, <2>3, CallType
  <2>5. Calming
    BY <1>0, <2>2, <2>4, ApplyToDependentsCalms
  <2> QED BY <2>1, <2>5, CalmCovered
<1>7. ASSUME NEW t \in Threads,
             \/ ReplaceMember(t) \/ SetMemberAdminEnabled(t) \/ RevalidateSet(t)
             \/ RefuseCompletion(t) \/ CompleteMemberRevalidation(t)
      PROVE  FALSE
  <2>1. calls[t].op \in {"replace_member", "set_member_admin_enabled", "revalidate_set",
                         "complete_member_revalidation"}
    BY <1>7 DEF ReplaceMember, SetMemberAdminEnabled, RevalidateSet, RefuseCompletion,
                CompleteMemberRevalidation, Ready
  <2>2. calls[t].op \in Calls
    BY <2>1 DEF Watched, Engaged
  <2> QED BY <2>1, <2>2 DEF Reconciled
<1>8. ASSUME NEW t \in Threads, CallStep(t) PROVE Covered'
  BY <1>4, <1>5, <1>6, <1>7, <1>8, AddMembersCovered, RevalidateMemberCovered,
     ObserveCovered, ApplyObservedCovered DEF CallStep
<1>9. ASSUME UNCHANGED vars PROVE Covered'
  <2>1. sets' = sets /\ directory' = directory /\ calls' = calls
    BY <1>9 DEF vars, engine_vars
  <2> QED BY <2>1, StillCalms, CalmCovered
<1> QED BY <1>1, <1>2, <1>3, <1>8, <1>9, ViewStepCovered DEF Next

LEMMA InitWatched == Init => Watched
<1> SUFFICES ASSUME Init PROVE Watched
  OBVIOUS
<1>1. Healthy /\ Identified
  BY InitHealthy, InitIdentified
<1>2. Engaged /\ OnItsSlot
  BY DEF Init, Engaged, OnItsSlot, Idle
<1>3. Covered
  BY DEF Init, Covered, StaleUse, NoRecord, NoMember, Usable
<1> QED BY <1>1, <1>2, <1>3 DEF Watched

\* Where every client call that can make a member usable reconciles, a member
\* that is counted on a view the directory has replaced is in the hands of a call
\* that will apply the directory's answer, for any number of callers.
THEOREM StaleUseIsCovered ==
    ASSUME Reconciled
    PROVE  Spec => []StaleUseCovered
<1>1. Watched /\ [Next]_vars => Watched'
  <2> SUFFICES ASSUME Watched, [Next]_vars PROVE Watched'
    OBVIOUS
  <2>1. Healthy' /\ Identified'
    BY NextHealthy, IdentifiedStep DEF Watched
  <2>2. Engaged' /\ OnItsSlot'
    BY EngagedStep, OnItsSlotStep DEF Watched, Healthy
  <2> QED BY <2>1, <2>2, CoveredStep DEF Watched
<1>2. Watched => StaleUseCovered
  BY DEF Watched, Covered, StaleUseCovered, Reconciles, WillReconcile
<1> QED BY <1>1, <1>2, InitWatched, PTL DEF Spec
=============================================================================
