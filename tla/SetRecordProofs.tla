-------------------------- MODULE SetRecordProofs --------------------------
(***************************************************************************)
(* What the record operators of SetRecord return and preserve, for every   *)
(* record: its type, the threshold accounting and the justification of     *)
(* usable members.  FabricEngineProofs lifts these facts to the engine.    *)
(***************************************************************************)
EXTENDS SetRecord, FiniteSetTheorems, TLAPS

\* The member table leads from a member lifecycle to a member lifecycle, and
\* neither creates nor removes a relation.
LEMMA AfterType ==
    ASSUME NEW l \in MemberLifecycles \cup {"NONE"}, NEW e
    PROVE  /\ After(l, e) \in MemberLifecycles \cup {"NONE"}
           /\ After(l, e) = "NONE" <=> l = "NONE"
           /\ l \in TerminalMember => After(l, e) \in TerminalMember
BY DEF After, MemberTransition, MemberLifecycles, LiveMember, TerminalMember

\* Classification of a view is total.
LEMMA ObservedType ==
    ASSUME NEW m \in Members, NEW view \in Views, NEW conditional \in BOOLEAN
    PROVE  /\ Observed(m, view, conditional) \in MemberCurrentnesses
           /\ Observed(m, view, conditional) = "CURRENT" =>
                 m.admin_enabled /\ Classify(view, m.bound, conditional) = "CURRENT"
BY DEF Observed, Classify, Members, Views, NoView, PathStates, MemberCurrentnesses

\* Evaluation keeps the type, the identity and the presence of a member, and
\* the member it makes usable is justified by the view it recorded.
LEMMA EvaluateMemberFacts ==
    ASSUME NEW m \in Members, NEW view \in Views,
           NEW conditional \in BOOLEAN, NEW explicit \in BOOLEAN
    PROVE  LET n == EvaluateMember(m, view, conditional, explicit)
           IN  /\ n \in Members
               /\ n.id = m.id /\ n.bound = m.bound /\ n.generation = m.generation
               /\ n.admin_enabled = m.admin_enabled /\ n.pending = m.pending
               /\ Present(n) <=> Present(m)
               /\ Usable(n) => /\ n.admin_enabled
                               /\ Classify(n.observed, n.bound, conditional) = "CURRENT"
<1> DEFINE observed == Observed(m, view, conditional)
           to == After(m.lifecycle, InputEvent(observed, explicit))
           n == EvaluateMember(m, view, conditional, explicit)
<1>1. observed \in MemberCurrentnesses
  BY ObservedType
<1>2. observed = "CURRENT" => m.admin_enabled /\ Classify(view, m.bound, conditional) = "CURRENT"
  BY ObservedType
<1>3. /\ to \in MemberLifecycles \cup {"NONE"}
      /\ to = "NONE" <=> m.lifecycle = "NONE"
  BY AfterType DEF Members
<1>4. CASE Archived(m)
  <2>1. n = [m EXCEPT !.currentness = observed]
    BY <1>4 DEF EvaluateMember
  <2> HIDE DEF observed, n
  <2>2. n.lifecycle = m.lifecycle /\ m.lifecycle # "CURRENT"
    BY <2>1, <1>4 DEF Members, Archived, TerminalMember
  <2>3. n \in Members
    BY <2>1, <1>1 DEF Members
  <2>4. /\ n.id = m.id /\ n.bound = m.bound /\ n.generation = m.generation
        /\ n.admin_enabled = m.admin_enabled /\ n.pending = m.pending
    BY <2>1 DEF Members
  <2> QED
    BY <2>2, <2>3, <2>4 DEF Usable, Present, n
<1>5. CASE ~Archived(m)
  <2> DEFINE watermark == m.watermark + OneIf(m.currentness # observed)
                                      + OneIf(m.lifecycle # to)
  <2>1. n = [m EXCEPT !.observed = view, !.currentness = observed, !.lifecycle = to,
                      !.watermark = watermark]
    BY <1>5 DEF EvaluateMember
  <2>2. watermark \in Nat
    BY DEF OneIf, Members
  <2> HIDE DEF observed, to, n, watermark
  <2>3. n \in Members
    BY <2>1, <2>2, <1>1, <1>3 DEF Members
  <2>4. /\ n.id = m.id /\ n.bound = m.bound /\ n.generation = m.generation
        /\ n.admin_enabled = m.admin_enabled /\ n.pending = m.pending
        /\ n.lifecycle = to /\ n.currentness = observed /\ n.observed = view
    BY <2>1 DEF Members
  <2> QED
    BY <1>2, <1>3, <2>3, <2>4 DEF Usable, Present, n
<1> QED
  BY <1>4, <1>5
-----------------------------------------------------------------------------
\* Counting and the set lifecycle.

LEMMA UsableCountType ==
    ASSUME NEW ms PROVE UsableCount(ms) \in Nat
<1>1. UsablePaths(ms) \subseteq Paths
  BY DEF UsablePaths
<1>2. IsFiniteSet(UsablePaths(ms))
  BY <1>1, PathsAssumption, FS_Subset
<1> QED
  BY <1>2, FS_CardinalityType DEF UsableCount

\* The count depends on which members are usable and on nothing else.
LEMMA SameUsable ==
    ASSUME NEW ms, NEW ns, \A p \in Paths : Usable(ms[p]) <=> Usable(ns[p])
    PROVE  UsableCount(ms) = UsableCount(ns)
<1>1. UsablePaths(ms) = UsablePaths(ns)
  BY DEF UsablePaths
<1> QED
  BY <1>1 DEF UsableCount

LEMMA DeriveType ==
    ASSUME NEW usable, NEW minimum, NEW enabled
    PROVE  DeriveLifecycle(usable, minimum, enabled) \in Derived \cup {"ADMIN_DISABLED"}
BY DEF DeriveLifecycle, Derived

\* Whether a record is absent, and no relation belongs to an absent one.
Absent(r) == r.lifecycle = "NONE"
Blank(r)  == Absent(r) => \A p \in Paths : ~Present(r.members[p])

\* The parts of a record that a set transition leaves alone.
Frame(r, q) ==
    /\ q.members = r.members /\ q.conditional = r.conditional
    /\ q.generation = r.generation /\ q.membership_generation = r.membership_generation
    /\ q.minimum = r.minimum /\ q.admin_enabled = r.admin_enabled
    /\ Absent(q) <=> Absent(r)

\* recompute_locked() accounts for any record.
LEMMA RecomputeFacts ==
    ASSUME NEW r \in SetRecords
    PROVE  /\ Recompute(r) \in SetRecords
           /\ Accounted(Recompute(r))
           /\ Frame(r, Recompute(r))
<1> DEFINE usable == UsableCount(r.members)
           derived == DeriveLifecycle(usable, r.minimum, r.admin_enabled)
           l == IF r.lifecycle \in Derived \cup {"ADMIN_DISABLED"} THEN derived ELSE r.lifecycle
           q == Recompute(r)
<1>1. usable \in Nat
  BY UsableCountType
<1>2. derived \in Derived \cup {"ADMIN_DISABLED"}
  BY DeriveType
<1>3. l \in SetLifecycles \cup {"NONE"} /\ (l = "NONE" <=> r.lifecycle = "NONE")
  BY <1>2 DEF SetRecords, SetLifecycles, Derived
<1>4. q = [r EXCEPT !.usable = usable, !.lifecycle = l]
  BY DEF Recompute
<1> HIDE DEF usable, l, q
<1>5. q \in SetRecords
  BY <1>1, <1>3, <1>4 DEF SetRecords
<1>6. q.usable = usable /\ q.lifecycle = l
  BY <1>4 DEF SetRecords
<1>7. Frame(r, q)
  BY <1>3, <1>4 DEF SetRecords, Frame, Absent
<1>8. Accounted(q)
  BY <1>2, <1>6, <1>7 DEF Accounted, Frame, l, usable
<1> QED
  BY <1>5, <1>7, <1>8 DEF q

\* A set transition keeps the type and the accounting; the members, the policy
\* and the generations are not its business.
LEMMA ApplyTransitionFacts ==
    ASSUME NEW r \in SetRecords, NEW e
    PROVE  /\ ApplyTransition(r, e) \in SetRecords
           /\ Accounted(r) => Accounted(ApplyTransition(r, e))
           /\ Frame(r, ApplyTransition(r, e))
<1> DEFINE act == SetTransition(r.lifecycle, e)
           usable == UsableCount(r.members)
           q == ApplyTransition(r, e)
<1>1. /\ usable \in Nat
      /\ r.lifecycle = "NONE" => act \in {"STAY", "REJECT"}
  BY UsableCountType DEF SetTransition, Derived, TerminalSet
<1>2. CASE act = "RECOMPUTE"
  <2>1. q = Recompute(r)
    BY <1>2 DEF ApplyTransition
  <2> QED
    BY <2>1, RecomputeFacts
<1>3. CASE act = "BECOME_PUBLISHED"
  <2> DEFINE derived == DeriveLifecycle(usable, r.minimum, r.admin_enabled)
  <2>1. q = [r EXCEPT !.usable = usable, !.lifecycle = derived]
    BY <1>3 DEF ApplyTransition
  <2>2. derived \in SetLifecycles /\ derived # "NONE" /\ r.lifecycle # "NONE"
    BY <1>1, <1>3, DeriveType DEF SetLifecycles, Derived
  <2>3. q.lifecycle = derived /\ q.usable = usable /\ Frame(r, q)
    <3> HIDE DEF derived, usable, q
    <3> QED
      BY <2>1, <2>2 DEF SetRecords, Frame, Absent
  <2>4. Accounted(q)
    <3> HIDE DEF q
    <3> QED
      BY <2>3 DEF Accounted, Frame
  <2>5. q \in SetRecords
    <3> HIDE DEF derived, usable, q
    <3> QED
      BY <1>1, <2>1, <2>2 DEF SetRecords
  <2> QED
    BY <2>3, <2>4, <2>5
<1>4. CASE act = "BECOME_ADMIN_DISABLED" \/ act = "BECOME_WITHDRAWING"
  <2>1. PICK l \in {"ADMIN_DISABLED", "WITHDRAWING"} : q = [r EXCEPT !.lifecycle = l]
    BY <1>4 DEF ApplyTransition
  <2>2. l \in SetLifecycles /\ l \notin Derived \cup {"NONE"} /\ r.lifecycle # "NONE"
    BY <1>1, <1>4 DEF SetLifecycles, Derived
  <2> HIDE DEF q
  <2>3. q \in SetRecords
    BY <2>1, <2>2 DEF SetRecords
  <2>4. Frame(r, q) /\ q.lifecycle = l /\ q.usable = r.usable
    BY <2>1, <2>2 DEF SetRecords, Frame, Absent
  <2>5. Accounted(r) => Accounted(q)
    BY <2>2, <2>4 DEF Accounted, Frame
  <2> QED
    BY <2>3, <2>4, <2>5 DEF q
<1>5. CASE act \in {"BECOME_WITHDRAWN", "BECOME_SUPERSEDED", "BECOME_REVOKED", "BECOME_RETIRED"}
  <2>1. PICK l \in TerminalSet :
            q = [r EXCEPT !.lifecycle = l, !.currentness = "REVALIDATION_REQUIRED"]
    BY <1>5 DEF ApplyTransition, TerminalSet
  <2>2. l \in SetLifecycles /\ l \notin Derived \cup {"NONE"} /\ r.lifecycle # "NONE"
    BY <1>1, <1>5 DEF SetLifecycles, Derived, TerminalSet
  <2> HIDE DEF q
  <2>3. q \in SetRecords
    BY <2>1, <2>2 DEF SetRecords
  <2>4. Frame(r, q) /\ q.lifecycle = l /\ q.usable = r.usable
    BY <2>1, <2>2 DEF SetRecords, Frame, Absent
  <2>5. Accounted(r) => Accounted(q)
    BY <2>2, <2>4 DEF Accounted, Frame
  <2> QED
    BY <2>3, <2>4, <2>5 DEF q
<1>6. CASE act \notin {"RECOMPUTE", "BECOME_PUBLISHED", "BECOME_ADMIN_DISABLED", "BECOME_WITHDRAWING",
                       "BECOME_WITHDRAWN", "BECOME_SUPERSEDED", "BECOME_REVOKED", "BECOME_RETIRED"}
  <2>1. q = r
    BY <1>6 DEF ApplyTransition
  <2> QED
    BY <2>1 DEF Frame
<1> QED
  BY <1>2, <1>3, <1>4, <1>5, <1>6
-----------------------------------------------------------------------------
\* Members that leave, change or join.

LEMMA BumpMembersFacts ==
    ASSUME NEW ms \in [Paths -> Members]
    PROVE  /\ BumpMembers(ms) \in [Paths -> Members]
           /\ \A p \in Paths :
                /\ BumpMembers(ms)[p].lifecycle = ms[p].lifecycle
                /\ BumpMembers(ms)[p].currentness = ms[p].currentness
                /\ BumpMembers(ms)[p].generation = ms[p].generation
                /\ BumpMembers(ms)[p].bound = ms[p].bound
                /\ BumpMembers(ms)[p].observed = ms[p].observed
                /\ BumpMembers(ms)[p].admin_enabled = ms[p].admin_enabled
<1>1. ASSUME NEW m \in Members
      PROVE  LET n == [m EXCEPT !.watermark = @ + 1]
             IN  /\ n \in Members
                 /\ n.lifecycle = m.lifecycle /\ n.currentness = m.currentness
                 /\ n.generation = m.generation /\ n.bound = m.bound
                 /\ n.observed = m.observed /\ n.admin_enabled = m.admin_enabled
  BY DEF Members
<1>2. \A p \in Paths : ms[p] \in Members
  OBVIOUS
<1>3. \A p \in Paths : BumpMembers(ms)[p] = IF Present(ms[p]) THEN [ms[p] EXCEPT !.watermark = @ + 1]
                                                              ELSE ms[p]
  BY DEF BumpMembers
<1>4. BumpMembers(ms) = [p \in Paths |-> BumpMembers(ms)[p]]
  BY DEF BumpMembers
<1>5. \A p \in Paths : BumpMembers(ms)[p] \in Members
  BY <1>1, <1>2, <1>3
<1>6. BumpMembers(ms) \in [Paths -> Members]
  BY <1>4, <1>5
<1> QED
  BY <1>1, <1>2, <1>3, <1>6, ZenonT(30)

\* A departing member is usable only if it already was, on the same evidence.
LEMMA DepartedFacts ==
    ASSUME NEW m \in Members, NEW l
    PROVE  LET n == Departed(m, l)
           IN  /\ n \in Members
               /\ n.generation = m.generation /\ n.bound = m.bound
               /\ n.observed = m.observed /\ n.admin_enabled = m.admin_enabled
               /\ Present(n) <=> Present(m)
               /\ Usable(n) => Usable(m)
<1> DEFINE to == After(m.lifecycle, DepartureEvent(l))
           x == IF l = "REVOKED" THEN [m EXCEPT !.currentness = "SET_NOT_USABLE"]
                                 ELSE [m EXCEPT !.lifecycle = to]
           bump == OneIf(m.lifecycle # x.lifecycle \/ m.currentness # x.currentness)
           n == Departed(m, l)
<1>1. /\ to \in MemberLifecycles \cup {"NONE"}
      /\ to = "NONE" <=> m.lifecycle = "NONE"
  BY AfterType DEF Members
<1>2. to = "CURRENT" => m.lifecycle = "CURRENT"
  BY DEF After, DepartureEvent, MemberTransition, Members, MemberLifecycles, LiveMember, TerminalMember
<1> HIDE DEF to
<1>3. /\ x \in Members
      /\ x.generation = m.generation /\ x.bound = m.bound
      /\ x.observed = m.observed /\ x.admin_enabled = m.admin_enabled
      /\ Present(x) <=> Present(m)
      /\ Usable(x) => Usable(m)
  <2>1. CASE l = "REVOKED"
    BY <2>1 DEF Members, MemberCurrentnesses, Present, Usable
  <2>2. CASE l # "REVOKED"
    BY <2>2, <1>1, <1>2 DEF Members, Present, Usable
  <2> QED
    BY <2>1, <2>2
<1>4. bump \in Nat
  BY DEF OneIf
<1>5. n = [x EXCEPT !.watermark = @ + bump]
  BY DEF Departed, to
<1> HIDE DEF x, bump, n
<1>6. /\ n \in Members
      /\ n.generation = x.generation /\ n.bound = x.bound
      /\ n.observed = x.observed /\ n.admin_enabled = x.admin_enabled
      /\ n.lifecycle = x.lifecycle /\ n.currentness = x.currentness
  BY <1>3, <1>4, <1>5 DEF Members
<1> QED
  BY <1>3, <1>6 DEF Present, Usable, n

SamePresence(ms, ns) == \A p \in Paths : Present(ms[p]) <=> Present(ns[p])

\* Replacing the membership table of a record.
LEMMA WithMembers ==
    ASSUME NEW r \in SetRecords, NEW ms \in [Paths -> Members]
    PROVE  LET q == [r EXCEPT !.members = ms]
           IN  /\ q \in SetRecords
               /\ q.members = ms /\ q.conditional = r.conditional
               /\ q.generation = r.generation
               /\ q.membership_generation = r.membership_generation
               /\ q.lifecycle = r.lifecycle /\ q.minimum = r.minimum
               /\ q.admin_enabled = r.admin_enabled /\ q.usable = r.usable
BY DEF SetRecords

\* bump_set_watermark_locked() touches nothing the invariants are about.
LEMMA BumpAllFacts ==
    ASSUME NEW r \in SetRecords
    PROVE  LET q == BumpAll(r)
           IN  /\ q \in SetRecords
               /\ q.members = BumpMembers(r.members) /\ q.conditional = r.conditional
               /\ q.generation = r.generation
               /\ q.membership_generation = r.membership_generation
               /\ q.lifecycle = r.lifecycle /\ q.minimum = r.minimum
               /\ q.admin_enabled = r.admin_enabled /\ q.usable = r.usable
               /\ SamePresence(r.members, q.members)
               /\ UsableCount(q.members) = UsableCount(r.members)
               /\ Justified(r) => Justified(q)
               /\ Nested(r) => Nested(q)
<1> DEFINE q == BumpAll(r)
<1>1. r.members \in [Paths -> Members]
  BY DEF SetRecords
<1>2. BumpMembers(r.members) \in [Paths -> Members]
  BY <1>1, BumpMembersFacts
<1>3. /\ q \in SetRecords
      /\ q.members = BumpMembers(r.members) /\ q.conditional = r.conditional
      /\ q.generation = r.generation
      /\ q.membership_generation = r.membership_generation
      /\ q.lifecycle = r.lifecycle /\ q.minimum = r.minimum
      /\ q.admin_enabled = r.admin_enabled /\ q.usable = r.usable
  <2> DEFINE ms == BumpMembers(r.members)
  <2>1. q = [r EXCEPT !.watermark = r.watermark + 1, !.members = ms]
    BY DEF BumpAll
  <2>2. ms \in [Paths -> Members] /\ r.watermark + 1 \in Nat
    BY <1>2 DEF SetRecords
  <2> HIDE DEF ms, q
  <2>3. q \in SetRecords
    BY <2>1, <2>2 DEF SetRecords
  <2>4. /\ q.members = ms /\ q.conditional = r.conditional
        /\ q.generation = r.generation
        /\ q.membership_generation = r.membership_generation
        /\ q.lifecycle = r.lifecycle /\ q.minimum = r.minimum
        /\ q.admin_enabled = r.admin_enabled /\ q.usable = r.usable
    BY <2>1 DEF SetRecords
  <2> QED
    BY <2>3, <2>4 DEF ms
<1> HIDE DEF q
<1>4. \A p \in Paths : /\ q.members[p].lifecycle = r.members[p].lifecycle
                       /\ q.members[p].currentness = r.members[p].currentness
                       /\ q.members[p].generation = r.members[p].generation
                       /\ q.members[p].bound = r.members[p].bound
                       /\ q.members[p].observed = r.members[p].observed
                       /\ q.members[p].admin_enabled = r.members[p].admin_enabled
  BY <1>1, <1>3, BumpMembersFacts
<1>5. SamePresence(r.members, q.members)
  BY <1>4 DEF SamePresence, Present
<1>6. UsableCount(q.members) = UsableCount(r.members)
  BY <1>4, SameUsable DEF Usable
<1>7. Justified(r) => Justified(q)
  BY <1>3, <1>4 DEF Justified, Usable
<1>8. Nested(r) => Nested(q)
  BY <1>3, <1>4 DEF Nested
<1> QED
  BY <1>3, <1>5, <1>6, <1>7, <1>8 DEF q

\* apply_member_consequences_locked() after a transition out of authority: the
\* usable count is taken anew, so the accounting does not depend on the old one.
LEMMA ConsequencesFacts ==
    ASSUME NEW r \in SetRecords, NEW from
    PROVE  LET q == Consequences(r, from)
           IN  /\ q \in SetRecords
               /\ q.generation = r.generation /\ q.lifecycle = r.lifecycle
               /\ q.membership_generation = r.membership_generation
               /\ SamePresence(r.members, q.members)
               /\ Accounted(r) => Accounted(q)
               /\ Justified(r) => Justified(q)
               /\ Nested(r) => Nested(q)
<1> DEFINE q == Consequences(r, from)
<1>1. CASE from \notin Derived \/ r.lifecycle \notin TerminalSet \cup {"WITHDRAWING"}
  <2>1. q = r
    BY <1>1 DEF Consequences
  <2> QED
    BY <2>1 DEF SamePresence
<1>2. CASE ~(from \notin Derived \/ r.lifecycle \notin TerminalSet \cup {"WITHDRAWING"})
  <2> DEFINE departed == [p \in Paths |->
                             IF Present(r.members[p]) THEN Departed(r.members[p], r.lifecycle)
                                                      ELSE r.members[p]]
             d == [r EXCEPT !.members = departed]
             b == BumpAll(d)
  <2>1. q = [b EXCEPT !.usable = UsableCount(departed)]
    BY <1>2 DEF Consequences
  <2>2. \A p \in Paths : r.members[p] \in Members
    BY DEF SetRecords
  <2>3. \A p \in Paths : /\ departed[p] \in Members
                         /\ departed[p].generation = r.members[p].generation
                         /\ departed[p].bound = r.members[p].bound
                         /\ departed[p].observed = r.members[p].observed
                         /\ departed[p].admin_enabled = r.members[p].admin_enabled
                         /\ Present(departed[p]) <=> Present(r.members[p])
                         /\ Usable(departed[p]) => Usable(r.members[p])
    BY <2>2, DepartedFacts
  <2>4. departed \in [Paths -> Members]
    BY <2>3
  <2> HIDE DEF departed
  <2>5. /\ d \in SetRecords
        /\ d.members = departed /\ d.conditional = r.conditional
        /\ d.generation = r.generation /\ d.membership_generation = r.membership_generation
        /\ d.lifecycle = r.lifecycle
    BY <2>4, WithMembers
  <2> HIDE DEF d
  <2>6. Justified(r) => Justified(d)
    BY <2>3, <2>5 DEF Justified
  <2>7. Nested(r) => Nested(d)
    BY <2>3, <2>5 DEF Nested
  <2>8. SamePresence(r.members, d.members)
    BY <2>3, <2>5 DEF SamePresence
  <2>9. /\ b \in SetRecords
        /\ b.lifecycle = d.lifecycle /\ b.conditional = d.conditional
        /\ b.generation = d.generation /\ b.membership_generation = d.membership_generation
        /\ SamePresence(d.members, b.members)
        /\ UsableCount(b.members) = UsableCount(d.members)
        /\ Justified(d) => Justified(b)
        /\ Nested(d) => Nested(b)
    BY <2>5, BumpAllFacts
  <2> HIDE DEF b
  <2>10. UsableCount(departed) \in Nat
    BY UsableCountType
  <2> HIDE DEF q
  <2>11. /\ q \in SetRecords
         /\ q.members = b.members /\ q.conditional = b.conditional /\ q.lifecycle = b.lifecycle
         /\ q.generation = b.generation /\ q.membership_generation = b.membership_generation
         /\ q.usable = UsableCount(departed)
    BY <2>1, <2>9, <2>10 DEF SetRecords
  <2>12. Accounted(q)
    BY <1>2, <2>5, <2>9, <2>11 DEF Accounted, Derived, TerminalSet
  <2>13. (Justified(r) => Justified(q)) /\ (Nested(r) => Nested(q))
    BY <2>6, <2>7, <2>9, <2>11 DEF Justified, Nested
  <2>14. SamePresence(r.members, q.members)
    BY <2>8, <2>9, <2>11 DEF SamePresence
  <2> QED
    BY <2>5, <2>9, <2>11, <2>12, <2>13, <2>14 DEF q
<1> QED
  BY <1>1, <1>2

LEMMA NoMemberFacts ==
    NoMember \in Members /\ ~Present(NoMember) /\ ~Usable(NoMember) /\ NoMember.generation = 0
BY CounterAssumption
   DEF NoMember, Members, Present, Usable, Views, NoView, MemberCurrentnesses, Generations

\* A relation built by add_members_internal() or replace_member().
LEMMA NewMemberFacts ==
    ASSUME NEW id \in Nat, NEW bound \in Nat, NEW view \in Views, NEW conditional \in BOOLEAN
    PROVE  LET n == NewMember(id, bound, view, conditional)
           IN  /\ n \in Members /\ n.generation = 1 /\ Present(n)
               /\ Usable(n) => /\ n.admin_enabled
                               /\ Classify(n.observed, n.bound, conditional) = "CURRENT"
<1> DEFINE m == [NoMember EXCEPT !.id = id, !.bound = bound, !.generation = 1,
                                 !.lifecycle = "PENDING", !.admin_enabled = TRUE]
<1>1. 1 \in Generations /\ "PENDING" \in MemberLifecycles
  BY CounterAssumption DEF Generations, MemberLifecycles, LiveMember
<1>2. m \in Members
  BY <1>1, NoMemberFacts DEF Members
<1>3. m.generation = 1 /\ Present(m)
  BY NoMemberFacts DEF Members, Present
<1>4. NewMember(id, bound, view, conditional) = EvaluateMember(m, view, conditional, FALSE)
  BY DEF NewMember
<1> HIDE DEF m
<1> DEFINE n == EvaluateMember(m, view, conditional, FALSE)
<1>5. /\ n \in Members /\ n.generation = m.generation
      /\ Present(n) <=> Present(m)
      /\ Usable(n) => n.admin_enabled /\ Classify(n.observed, n.bound, conditional) = "CURRENT"
  BY <1>2, EvaluateMemberFacts
<1> HIDE DEF n
<1> QED
  BY <1>3, <1>4, <1>5 DEF n

\* Rebinding and explicit evaluation of one member.
LEMMA RevalidatedFacts ==
    ASSUME NEW m \in Members, NEW view \in Views, NEW conditional \in BOOLEAN
    PROVE  LET n == Revalidated(m, view, conditional)
           IN  /\ n \in Members /\ n.generation = m.generation /\ n.pending = m.pending
               /\ Present(n) <=> Present(m)
               /\ Usable(n) => /\ n.admin_enabled
                               /\ Classify(n.observed, n.bound, conditional) = "CURRENT"
<1> DEFINE x == IF view = NoView THEN m ELSE [m EXCEPT !.bound = view.gen]
<1>1. /\ x \in Members /\ x.generation = m.generation /\ x.pending = m.pending
      /\ Present(x) <=> Present(m)
  BY DEF Members, Views, Present
<1>2. Revalidated(m, view, conditional) = EvaluateMember(x, view, conditional, TRUE)
  BY DEF Revalidated
<1> HIDE DEF x
<1> DEFINE n == EvaluateMember(x, view, conditional, TRUE)
<1>3. /\ n \in Members /\ n.generation = x.generation /\ n.pending = x.pending
      /\ Present(n) <=> Present(x)
      /\ Usable(n) => n.admin_enabled /\ Classify(n.observed, n.bound, conditional) = "CURRENT"
  BY <1>1, EvaluateMemberFacts, ZenonT(30)
<1> HIDE DEF n
<1> QED
  BY <1>1, <1>2, <1>3 DEF n

\* The version a member that moved gets; the caller has tested that there is one.
LEMMA VersionedFacts ==
    ASSUME NEW m \in Members, NEW n \in Members, n.generation < MaxGeneration
    PROVE  LET v == Versioned(m, n)
           IN  /\ v \in Members /\ v.generation <= n.generation + 1
               /\ ~Moved(m, n) => v.generation = n.generation
               /\ v.pending = n.pending /\ v.admin_enabled = n.admin_enabled
               /\ v.observed = n.observed /\ v.bound = n.bound
               /\ v.lifecycle = n.lifecycle /\ v.currentness = n.currentness
<1> DEFINE g == n.generation + 1
           w == n.watermark + 1
           x == [n EXCEPT !.generation = g, !.watermark = w]
<1>1. g \in Generations /\ w \in Nat
  BY CounterAssumption DEF Members, Generations
<1>2. /\ x \in Members /\ x.generation = g
      /\ x.pending = n.pending /\ x.admin_enabled = n.admin_enabled
      /\ x.observed = n.observed /\ x.bound = n.bound
      /\ x.lifecycle = n.lifecycle /\ x.currentness = n.currentness
  <2> HIDE DEF g, w
  <2> QED
    BY <1>1 DEF Members
<1>3. Versioned(m, n) = IF Moved(m, n) THEN x ELSE n
  BY DEF Versioned
<1>4. n.generation \in Nat
  BY DEF Members, Generations
<1> HIDE DEF x
<1> QED
  BY <1>2, <1>3, <1>4

\* A closed relation: archived, so never usable, and one version later.
LEMMA ClosedFacts ==
    ASSUME NEW m \in Members, NEW l \in TerminalMember, m.generation < MaxGeneration
    PROVE  LET n == Closed(m, l)
           IN  /\ n \in Members /\ n.generation = m.generation + 1
               /\ n.lifecycle = l /\ Present(n) /\ ~Usable(n)
<1> DEFINE g == m.generation + 1
           v == m.watermark + 1
           n == [m EXCEPT !.lifecycle = l, !.currentness = "SET_NOT_USABLE",
                          !.generation = g, !.watermark = v]
<1>1. g \in Generations /\ v \in Nat
  BY CounterAssumption DEF Members, Generations
<1>2. /\ l \in MemberLifecycles /\ l \notin {"NONE", "CURRENT"}
      /\ "SET_NOT_USABLE" \in MemberCurrentnesses
  BY DEF MemberLifecycles, TerminalMember, MemberCurrentnesses
<1>3. Closed(m, l) = n
  BY DEF Closed
<1> HIDE DEF g, v
<1>4. n \in Members /\ n.generation = g /\ n.lifecycle = l
  BY <1>1, <1>2 DEF Members
<1> HIDE DEF n
<1> QED
  BY <1>2, <1>3, <1>4 DEF Present, Usable, g
-----------------------------------------------------------------------------
\* Commit and invalidation.

\* What holds of a record that is about to be committed: its member generations
\* may be one ahead of its own.
AboutToCommit(r) ==
    /\ r.membership_generation <= r.generation
    /\ \A p \in Paths : r.members[p].generation <= r.generation + 1

\* commit_locked() of a record whose generations have room.  Pruning the archive
\* removes relations but no usable one.
LEMMA CommitFacts ==
    ASSUME NEW r \in SetRecords, NEW worker \in Workers \cup {NoWorker}, NEW membership \in BOOLEAN,
           GenerationRoom(r), membership => MembershipRoom(r)
    PROVE  LET q == Commit(r, worker, membership)
           IN  /\ q \in SetRecords
               /\ Accounted(r) => Accounted(q)
               /\ Justified(r) => Justified(q)
               /\ AboutToCommit(r) => Nested(q)
               /\ Blank(r) => Blank(q)
               /\ \A p \in Paths : Present(q.members[p]) <=>
                                      Present(r.members[p]) /\ p \notin Pruned(r.members)
<1> DEFINE ms == Without(r.members, Pruned(r.members))
           g == r.generation + 1
           mg == r.membership_generation + OneIf(membership)
           q == Commit(r, worker, membership)
<1>1. g \in Generations /\ mg \in Generations /\ r.generation \in Nat /\ r.membership_generation \in Nat
  BY CounterAssumption DEF SetRecords, Generations, GenerationRoom, MembershipRoom, OneIf
<1>2. \A p \in Paths : r.members[p] \in Members
  BY DEF SetRecords
<1>3. \A p \in Paths : ms[p] = IF p \in Pruned(r.members) THEN NoMember ELSE r.members[p]
  BY DEF Without
<1>4. ms \in [Paths -> Members]
  BY <1>2, NoMemberFacts DEF Without
<1>5. q = [r EXCEPT !.generation = g, !.membership_generation = mg, !.worker = worker,
                    !.members = ms]
  BY DEF Commit
<1> HIDE DEF ms, g, mg, q
<1>6. q \in SetRecords
  BY <1>1, <1>4, <1>5 DEF SetRecords
<1>7. /\ q.members = ms /\ q.generation = g /\ q.membership_generation = mg
      /\ q.lifecycle = r.lifecycle /\ q.usable = r.usable /\ q.minimum = r.minimum
      /\ q.admin_enabled = r.admin_enabled /\ q.conditional = r.conditional
  BY <1>5 DEF SetRecords
<1>8. \A p \in Pruned(r.members) : Present(r.members[p]) /\ ~Usable(r.members[p])
  BY DEF Pruned, ArchivedPaths, Archived, Usable, Present, TerminalMember
<1>9. \A p \in Paths : Usable(ms[p]) <=> Usable(r.members[p])
  BY <1>3, <1>8, NoMemberFacts
<1>10. UsableCount(ms) = UsableCount(r.members)
  BY <1>9, SameUsable
<1>11. Accounted(r) => Accounted(q)
  BY <1>7, <1>10 DEF Accounted
<1>12. Justified(r) => Justified(q)
  BY <1>3, <1>7, <1>9, NoMemberFacts DEF Justified
<1>13. AboutToCommit(r) => Nested(q)
  <2> SUFFICES ASSUME AboutToCommit(r) PROVE Nested(q)
    OBVIOUS
  <2>1. mg <= g
    BY <1>1 DEF AboutToCommit, OneIf, mg, g
  <2>2. \A p \in Paths : ms[p].generation <= g
    BY <1>1, <1>3, NoMemberFacts DEF AboutToCommit, g
  <2> QED
    BY <1>7, <2>1, <2>2 DEF Nested
<1>14. \A p \in Paths : Present(q.members[p]) <=>
                           Present(r.members[p]) /\ p \notin Pruned(r.members)
  BY <1>3, <1>7, NoMemberFacts
<1>15. Blank(r) => Blank(q)
  BY <1>7, <1>14 DEF Blank, Absent
<1> QED
  BY <1>6, <1>11, <1>12, <1>13, <1>14, <1>15 DEF q

\* A member that is usable only on evidence.
Evidenced(m, conditional) ==
    Usable(m) => m.admin_enabled /\ Classify(m.observed, m.bound, conditional) = "CURRENT"

LEMMA EvaluateMemberEvidenced ==
    ASSUME NEW m \in Members, NEW view \in Views,
           NEW conditional \in BOOLEAN, NEW explicit \in BOOLEAN
    PROVE  Evidenced(EvaluateMember(m, view, conditional, explicit), conditional)
BY EvaluateMemberFacts, ZenonT(30) DEF Evidenced

LEMMA NewMemberEvidenced ==
    ASSUME NEW id \in Nat, NEW bound \in Nat, NEW view \in Views, NEW conditional \in BOOLEAN
    PROVE  Evidenced(NewMember(id, bound, view, conditional), conditional)
BY NewMemberFacts, ZenonT(30) DEF Evidenced

LEMMA RevalidatedEvidenced ==
    ASSUME NEW m \in Members, NEW view \in Views, NEW conditional \in BOOLEAN
    PROVE  Evidenced(Revalidated(m, view, conditional), conditional)
BY RevalidatedFacts, ZenonT(30) DEF Evidenced

LEMMA MemberNumbers ==
    ASSUME NEW m \in Members
    PROVE  m.generation \in Nat /\ m.watermark \in Nat
BY DEF Members, Generations

\* The pattern of most handlers: a new membership table, then recompute_locked().
LEMMA RecomputeWith ==
    ASSUME NEW r \in SetRecords, NEW ms \in [Paths -> Members],
           \A p \in Paths : Evidenced(ms[p], r.conditional)
    PROVE  LET q == Recompute([r EXCEPT !.members = ms])
           IN  /\ q \in SetRecords
               /\ Accounted(q) /\ Justified(q)
               /\ q.members = ms
               /\ q.conditional = r.conditional
               /\ Absent(q) <=> Absent(r)
               /\ q.generation = r.generation
               /\ q.membership_generation = r.membership_generation
<1> DEFINE x == [r EXCEPT !.members = ms]
           q == Recompute(x)
<1>1. /\ x \in SetRecords
      /\ x.members = ms /\ x.conditional = r.conditional /\ x.lifecycle = r.lifecycle
      /\ x.generation = r.generation /\ x.membership_generation = r.membership_generation
  BY WithMembers
<1> HIDE DEF x
<1>2. q \in SetRecords /\ Accounted(q) /\ Frame(x, q)
  BY <1>1, RecomputeFacts
<1> HIDE DEF q
<1>3. Justified(q)
  BY <1>1, <1>2 DEF Justified, Frame, Evidenced
<1> QED
  BY <1>1, <1>2, <1>3 DEF Frame, Absent, q, x

\* apply_view_locked() on one set.
LEMMA ApplyViewFacts ==
    ASSUME NEW r \in SetRecords, NEW p \in Paths, NEW view \in Views,
           Accounted(r), Justified(r)
    PROVE  LET q == ApplyView(r, p, view)
           IN  /\ q \in SetRecords
               /\ Accounted(q) /\ Justified(q)
               /\ Nested(r) => Nested(q)
               /\ Absent(q) <=> Absent(r)
               /\ SamePresence(r.members, q.members)
<1> DEFINE m == r.members[p]
           n == EvaluateMember(m, view, r.conditional, FALSE)
           ms == [r.members EXCEPT ![p] = n]
           e == [r EXCEPT !.members = ms]
           c == Recompute(e)
           q == ApplyView(r, p, view)
<1>1. r.members \in [Paths -> Members] /\ m \in Members /\ r.conditional \in BOOLEAN
      /\ r.generation \in Generations
  BY DEF SetRecords
<1>2. /\ n \in Members /\ n.generation = m.generation
      /\ Present(n) <=> Present(m)
      /\ Evidenced(n, r.conditional)
  BY <1>1, EvaluateMemberFacts DEF Evidenced
<1> HIDE DEF m, n
<1>3. /\ ms \in [Paths -> Members]
      /\ \A x \in Paths : ms[x] = IF x = p THEN n ELSE r.members[x]
  BY <1>1, <1>2
<1>4. \A x \in Paths : Evidenced(ms[x], r.conditional)
  BY <1>2, <1>3 DEF Justified, Evidenced
<1>5. SamePresence(r.members, ms)
  BY <1>2, <1>3 DEF SamePresence, m
<1>6. \A x \in Paths : ms[x].generation = r.members[x].generation
  BY <1>2, <1>3 DEF m
<1> HIDE DEF ms
<1>7. /\ e \in SetRecords /\ e.members = ms
      /\ e.conditional = r.conditional /\ e.generation = r.generation
      /\ e.membership_generation = r.membership_generation
      /\ e.lifecycle = r.lifecycle /\ e.minimum = r.minimum
      /\ e.admin_enabled = r.admin_enabled /\ e.usable = r.usable
  BY <1>3, WithMembers
<1>8. /\ Absent(c) <=> Absent(r)
      /\ c \in SetRecords /\ Accounted(c) /\ Justified(c) /\ c.members = ms
      /\ c.generation = r.generation /\ c.membership_generation = r.membership_generation
  BY <1>3, <1>4, RecomputeWith
<1> HIDE DEF e, c
<1>9. CASE r.lifecycle \in TerminalSet \cup {"NONE"} \/ ~Present(m)
  <2>1. q = r
    BY <1>9 DEF ApplyView, m
  <2> QED
    BY <2>1 DEF SamePresence
<1>10. CASE /\ ~(r.lifecycle \in TerminalSet \cup {"NONE"} \/ ~Present(m))
            /\ m.lifecycle = n.lifecycle /\ m.currentness = n.currentness
  <2>1. q = e
    BY <1>10 DEF ApplyView, m, n, e, ms
  <2>2. \A x \in Paths : Usable(ms[x]) <=> Usable(r.members[x])
    BY <1>3, <1>10 DEF Usable, m
  <2>3. UsableCount(ms) = UsableCount(r.members)
    BY <2>2, SameUsable
  <2>4. Accounted(e)
    BY <1>7, <2>3 DEF Accounted
  <2>5. Justified(e)
    BY <1>4, <1>7 DEF Justified, Evidenced
  <2>6. Nested(r) => Nested(e)
    BY <1>6, <1>7 DEF Nested
  <2> QED
    BY <1>5, <1>7, <2>1, <2>4, <2>5, <2>6 DEF Absent
<1>11. CASE /\ ~(r.lifecycle \in TerminalSet \cup {"NONE"} \/ ~Present(m))
            /\ ~(m.lifecycle = n.lifecycle /\ m.currentness = n.currentness)
  <2> DEFINE step == OneIf(c.lifecycle # r.lifecycle /\ GenerationRoom(r))
             g == c.generation + step
             w == c.watermark + 1
  <2>1. q = [c EXCEPT !.watermark = w, !.generation = g]
    BY <1>11 DEF ApplyView, m, n, c, e, ms
  <2>2. /\ g \in Generations /\ g >= r.generation /\ w \in Nat
        /\ r.generation \in Nat /\ c.membership_generation \in Nat
    BY <1>1, <1>8, CounterAssumption DEF OneIf, GenerationRoom, Generations, SetRecords
  <2>3. \A x \in Paths : ms[x].generation \in Nat
    BY <1>3 DEF Members, Generations
  <2> HIDE DEF g, w, q
  <2>4. q \in SetRecords
    BY <1>8, <2>1, <2>2 DEF SetRecords
  <2>5. /\ q.members = ms /\ q.generation = g /\ q.lifecycle = c.lifecycle
        /\ q.usable = c.usable /\ q.minimum = c.minimum /\ q.admin_enabled = c.admin_enabled
        /\ q.conditional = c.conditional /\ q.membership_generation = r.membership_generation
    BY <1>8, <2>1 DEF SetRecords
  <2>6. Accounted(q) /\ Justified(q)
    BY <1>8, <2>5 DEF Accounted, Justified
  <2>7. Nested(r) => Nested(q)
    BY <1>6, <1>8, <2>2, <2>3, <2>5 DEF Nested, Generations
  <2> QED
    BY <1>5, <1>8, <2>4, <2>5, <2>6, <2>7 DEF q, Absent
<1> QED
  BY <1>9, <1>10, <1>11

\* reevaluate_members_from_observations_locked(): whatever the record was, the
\* members it leaves usable are justified under the policy of the record.
LEMMA ReevaluatedFacts ==
    ASSUME NEW r \in SetRecords
    PROVE  LET q == Reevaluated(r)
           IN  /\ q \in SetRecords
               /\ Accounted(q) /\ Justified(q)
               /\ q.generation = r.generation
               /\ q.membership_generation = r.membership_generation
               /\ Absent(q) <=> Absent(r)
               /\ SamePresence(r.members, q.members)
               /\ \A p \in Paths : q.members[p].generation = r.members[p].generation
<1> DEFINE Again(m) == IF Live(m) THEN EvaluateMember(m, m.observed, r.conditional, TRUE) ELSE m
           ms == [p \in Paths |-> Again(r.members[p])]
           q == Reevaluated(r)
<1>1. \A p \in Paths : r.members[p] \in Members
  BY DEF SetRecords
<1>2. ASSUME NEW m \in Members
      PROVE  /\ Again(m) \in Members /\ Again(m).generation = m.generation
             /\ Present(Again(m)) <=> Present(m)
             /\ Evidenced(Again(m), r.conditional)
  <2>1. m.observed \in Views /\ r.conditional \in BOOLEAN
    BY DEF Members, SetRecords
  <2>2. CASE Live(m)
    <3> DEFINE n == EvaluateMember(m, m.observed, r.conditional, TRUE)
    <3>1. /\ n \in Members /\ n.generation = m.generation
          /\ Present(n) <=> Present(m)
          /\ Evidenced(n, r.conditional)
      BY <2>1, EvaluateMemberFacts DEF Evidenced
    <3> QED
      BY <2>2, <3>1
  <2>3. CASE ~Live(m)
    BY <2>3 DEF Live, LiveMember, Evidenced, Usable
  <2> QED
    BY <2>2, <2>3
<1> HIDE DEF Again
<1>3. /\ ms \in [Paths -> Members]
      /\ \A p \in Paths : /\ ms[p].generation = r.members[p].generation
                          /\ Present(ms[p]) <=> Present(r.members[p])
                          /\ Evidenced(ms[p], r.conditional)
  BY <1>1, <1>2
<1>4. q = Recompute([r EXCEPT !.members = ms])
  BY DEF Reevaluated, Again
<1> HIDE DEF ms
<1>5. /\ Absent(q) <=> Absent(r)
      /\ q \in SetRecords /\ Accounted(q) /\ Justified(q) /\ q.members = ms
      /\ q.generation = r.generation /\ q.membership_generation = r.membership_generation
  BY <1>3, <1>4, RecomputeWith
<1> QED
  BY <1>3, <1>5 DEF SamePresence
-----------------------------------------------------------------------------
\* The invariant of one record.

Right(r) == r \in SetRecords /\ Accounted(r) /\ Justified(r) /\ Nested(r) /\ Blank(r)

LEMMA RightShape ==
    ASSUME NEW r, Right(r)
    PROVE  r.conditional \in BOOLEAN /\ r.members \in [Paths -> Members] /\ r.generation \in Nat
BY DEF Right, SetRecords, Generations

LEMMA SlotFacts ==
    ASSUME NEW ms, NEW id, Holds(ms, id)
    PROVE  Slot(ms, id) \in Paths /\ Present(ms[Slot(ms, id)]) /\ ms[Slot(ms, id)].id = id
BY DEF Holds, Slot

LEMMA NoRecordRight == Right(NoRecord)
<1>1. NoRecord.members = [p \in Paths |-> NoMember]
  BY DEF NoRecord
<1>2. NoRecord \in SetRecords
  BY NoMemberFacts, CounterAssumption DEF NoRecord, SetRecords, Generations
<1>3. UsablePaths(NoRecord.members) = {}
  BY <1>1, NoMemberFacts DEF UsablePaths
<1>4. UsableCount(NoRecord.members) = 0
  BY <1>3, FS_EmptySet DEF UsableCount
<1>5. Accounted(NoRecord)
  BY <1>4 DEF Accounted, NoRecord, Derived
<1>6. Justified(NoRecord)
  BY <1>1, NoMemberFacts DEF Justified
<1>7. Nested(NoRecord)
  BY <1>1, NoMemberFacts DEF Nested, NoRecord
<1>8. Blank(NoRecord)
  BY <1>1, NoMemberFacts DEF Blank
<1> QED
  BY <1>2, <1>5, <1>6, <1>7, <1>8 DEF Right

\* A transition, then nothing or the member consequences, keeps a record right.
LEMMA TransitionRight ==
    ASSUME NEW r, Right(r), NEW e
    PROVE  /\ Right(ApplyTransition(r, e))
           /\ Frame(r, ApplyTransition(r, e))
<1> DEFINE q == ApplyTransition(r, e)
<1>1. q \in SetRecords /\ Accounted(q) /\ Frame(r, q)
  BY ApplyTransitionFacts DEF Right
<1> HIDE DEF q
<1>2. Justified(q) /\ Nested(q) /\ Blank(q)
  BY <1>1 DEF Right, Justified, Nested, Blank, Frame
<1> QED
  BY <1>1, <1>2 DEF Right, q

LEMMA ConsequencesRight ==
    ASSUME NEW r, Right(r), NEW from
    PROVE  /\ Right(Consequences(r, from))
           /\ Consequences(r, from).generation = r.generation
           /\ SamePresence(r.members, Consequences(r, from).members)
<1> DEFINE q == Consequences(r, from)
<1>1. /\ q \in SetRecords /\ Accounted(q) /\ Justified(q) /\ Nested(q)
      /\ q.generation = r.generation /\ q.lifecycle = r.lifecycle
      /\ SamePresence(r.members, q.members)
  BY ConsequencesFacts DEF Right
<1>2. Blank(q)
  BY <1>1 DEF Right, Blank, Absent, SamePresence
<1> QED
  BY <1>1, <1>2 DEF Right

LEMMA RecomputeRight ==
    ASSUME NEW r \in SetRecords, Justified(r), Nested(r), Blank(r)
    PROVE  Right(Recompute(r)) /\ Frame(r, Recompute(r))
<1> DEFINE q == Recompute(r)
<1>1. q \in SetRecords /\ Accounted(q) /\ Frame(r, q)
  BY RecomputeFacts
<1> HIDE DEF q
<1>2. Justified(q) /\ Nested(q) /\ Blank(q)
  BY <1>1 DEF Justified, Nested, Blank, Frame
<1> QED
  BY <1>1, <1>2 DEF Right, q

\* Committing a right record leaves a right record.
LEMMA CommitRight ==
    ASSUME NEW r, r \in SetRecords, Accounted(r), Justified(r), Blank(r), AboutToCommit(r),
           NEW worker \in Workers \cup {NoWorker}, NEW membership \in BOOLEAN,
           GenerationRoom(r), membership => MembershipRoom(r)
    PROVE  /\ Right(Commit(r, worker, membership))
           /\ \A p \in Paths : Present(Commit(r, worker, membership).members[p]) <=>
                                  Present(r.members[p]) /\ p \notin Pruned(r.members)
BY CommitFacts DEF Right

LEMMA RightIsAboutToCommit ==
    ASSUME NEW r, Right(r) PROVE AboutToCommit(r)
BY DEF Right, Nested, AboutToCommit, SetRecords, Members, Generations

LEMMA ApplyViewRight ==
    ASSUME NEW r, Right(r), NEW p \in Paths, NEW view \in Views
    PROVE  /\ Right(ApplyView(r, p, view))
           /\ SamePresence(r.members, ApplyView(r, p, view).members)
<1> DEFINE q == ApplyView(r, p, view)
<1>1. /\ q \in SetRecords /\ Accounted(q) /\ Justified(q) /\ Nested(q)
      /\ Absent(q) <=> Absent(r)
      /\ SamePresence(r.members, q.members)
  BY ApplyViewFacts DEF Right
<1>2. Blank(q)
  BY <1>1 DEF Right, Blank, SamePresence
<1> QED
  BY <1>1, <1>2 DEF Right

-----------------------------------------------------------------------------
(***************************************************************************)
(* What a critical section makes of a record over time.  A draft is what   *)
(* a handler has made of a record so far; a record that is stored or       *)
(* committed evolves: its counters do not go back, every relation in it    *)
(* descends from the one that had its slot, and what a consumer can see    *)
(* of it changes only with its generation.                                 *)
(***************************************************************************)

\* A slot without a relation.
Vacant(m) == ~Present(m) /\ m.id = 0

\* What a revalidation ticket relies on.
Pins(m, n) ==
    /\ n.lifecycle = m.lifecycle /\ n.currentness = m.currentness
    /\ n.admin_enabled = m.admin_enabled /\ n.generation = m.generation

\* n is the same relation as m, later; "still" says that the set did not move.
Descends(m, n, still) ==
    /\ n.id = m.id /\ (Present(n) <=> Present(m))
    /\ m.watermark <= n.watermark
    /\ still /\ n.watermark = m.watermark => Pins(m, n)

\* No usable input is waiting for an evaluation to promote the member.
Decided(m) == m.lifecycle # "PENDING" /\ (m.lifecycle = "CURRENT" => m.currentness = "CURRENT")
Settled(r) == r.lifecycle \notin TerminalSet => \A p \in Paths : Decided(r.members[p])

\* Only an exhausted generation leaves a set disabled that is enabled.
Switched(r) == r.lifecycle = "ADMIN_DISABLED" /\ r.admin_enabled => ~GenerationRoom(r)

\* What a consumer sees of a record.
Alike(a, b) ==
    /\ b.lifecycle = a.lifecycle /\ b.minimum = a.minimum
    /\ b.conditional = a.conditional /\ b.admin_enabled = a.admin_enabled
    /\ \A p \in Paths : /\ Live(b.members[p]) <=> Live(a.members[p])
                        /\ Live(b.members[p]) => b.members[p].id = a.members[p].id

MembersDescend(a, b, F) ==
    \A p \in Paths \ F : \/ Vacant(b.members[p])
                         \/ Descends(a.members[p], b.members[p], b.watermark = a.watermark)

Inherits(a, b) ==
    b.currentness = "CURRENT" =>
        /\ a.currentness = "CURRENT" /\ b.governing_epoch = a.governing_epoch
        /\ b.lifecycle \in TerminalSet => a.lifecycle \in TerminalSet

\* q is what a handler has made of a so far.
Drafted(a, q, F) ==
    /\ q \in SetRecords
    /\ q.generation = a.generation /\ q.membership_generation = a.membership_generation
    /\ q.worker = a.worker
    /\ a.watermark <= q.watermark
    /\ MembersDescend(a, q, F)
    /\ Settled(a) => Settled(q)
    /\ a.lifecycle \in TerminalSet => q.lifecycle \in TerminalSet
    /\ Absent(q) <=> Absent(a)

\* The types of the parts of a record.
LEMMA RecordTypes ==
    ASSUME NEW r \in SetRecords
    PROVE  /\ r.members \in [Paths -> Members] /\ r.watermark \in Nat
           /\ r.generation \in Nat /\ r.membership_generation \in Nat
           /\ r.conditional \in BOOLEAN
           /\ \A p \in Paths : /\ r.members[p] \in Members /\ r.members[p].watermark \in Nat
                               /\ r.members[p].generation \in Nat
BY DEF SetRecords, Members, Generations

\* Descent is reflexive and transitive.
LEMMA DescendsSame ==
    ASSUME NEW m \in Members, NEW still PROVE Descends(m, m, still)
BY DEF Descends, Pins, Members, Present

LEMMA DescendsTwice ==
    ASSUME NEW x \in Members, NEW y \in Members, NEW z \in Members,
           NEW i \in BOOLEAN, NEW j \in BOOLEAN,
           Descends(x, y, i), Descends(y, z, j)
    PROVE  Descends(x, z, i /\ j)
BY DEF Descends, Pins, Members, Present

\* A draft of a record is the record itself, and a draft of a draft.
LEMMA DraftedSame ==
    ASSUME NEW a \in SetRecords PROVE Drafted(a, a, {}) /\ Inherits(a, a)
<1>1. \A p \in Paths : Descends(a.members[p], a.members[p], a.watermark = a.watermark)
  BY RecordTypes, DescendsSame
<1> QED BY <1>1, RecordTypes DEF Drafted, MembersDescend, Inherits

LEMMA DraftedTwice ==
    ASSUME NEW a \in SetRecords, NEW b, NEW c, NEW F, Drafted(a, b, F), Drafted(b, c, {})
    PROVE  Drafted(a, c, F)
<1>1. b \in SetRecords /\ c \in SetRecords
  BY DEF Drafted
<1>2. a.watermark \in Nat /\ b.watermark \in Nat /\ c.watermark \in Nat
  BY <1>1, RecordTypes
<1>3. a.watermark <= b.watermark /\ b.watermark <= c.watermark
  BY DEF Drafted
<1>4. c.watermark = a.watermark => b.watermark = a.watermark /\ c.watermark = b.watermark
  BY <1>2, <1>3
<1>5. ASSUME NEW p \in Paths \ F
      PROVE  \/ Vacant(c.members[p])
             \/ Descends(a.members[p], c.members[p], c.watermark = a.watermark)
  <2> DEFINE x == a.members[p]
             y == b.members[p]
             z == c.members[p]
             i == b.watermark = a.watermark
             j == c.watermark = b.watermark
  <2>1. x \in Members /\ y \in Members /\ z \in Members
    BY <1>1, RecordTypes
  <2>2. Vacant(y) \/ Descends(x, y, i)
    BY DEF Drafted, MembersDescend
  <2>3. Vacant(z) \/ Descends(y, z, j)
    BY DEF Drafted, MembersDescend
  <2>4. CASE Vacant(y)
    BY <2>3, <2>4 DEF Vacant, Descends
  <2>5. CASE Descends(x, y, i) /\ Descends(y, z, j)
    <3>0. i \in BOOLEAN /\ j \in BOOLEAN
      OBVIOUS
    <3> HIDE DEF i, j, x, y, z
    <3>1. Descends(x, z, i /\ j)
      BY <2>1, <2>5, <3>0, DescendsTwice
    <3> QED BY <3>1, <1>4 DEF Descends, i, j, x, z
  <2> QED BY <2>2, <2>3, <2>4, <2>5
<1>6. MembersDescend(a, c, F)
  BY <1>5 DEF MembersDescend
<1> QED
  BY <1>1, <1>2, <1>3, <1>6 DEF Drafted

\* Inheriting authority is transitive.
LEMMA InheritsTwice ==
    ASSUME NEW a, NEW b, NEW c, Inherits(a, b), Inherits(b, c)
    PROVE  Inherits(a, c)
BY DEF Inherits

-----------------------------------------------------------------------------
\* The member operators.

\* Evaluation makes a later version of the same relation, and a decided one.
LEMMA Evaluation ==
    ASSUME NEW m \in Members, NEW view \in Views,
           NEW conditional \in BOOLEAN, NEW explicit \in BOOLEAN
    PROVE  LET n == EvaluateMember(m, view, conditional, explicit)
           IN  /\ m.watermark <= n.watermark
               /\ Live(n) <=> Live(m)
               /\ Decided(n)
               /\ ~Archived(m) /\ n.watermark = m.watermark => Pins(m, n)
               /\ ~explicit /\ Decided(m) /\ Usable(n) => Usable(m)
<1> DEFINE observed == Observed(m, view, conditional)
           to == After(m.lifecycle, InputEvent(observed, explicit))
           n == EvaluateMember(m, view, conditional, explicit)
<1>1. CASE Archived(m)
  <2>1. n = [m EXCEPT !.currentness = observed]
    BY <1>1 DEF EvaluateMember
  <2> HIDE DEF observed, n
  <2>2. n.lifecycle = m.lifecycle /\ n.watermark = m.watermark /\ m.watermark \in Nat
    BY <2>1 DEF Members
  <2>3. m.lifecycle \in TerminalMember
    BY <1>1 DEF Archived
  <2> QED
    BY <2>2, <2>3, <1>1 DEF Decided, Live, Usable, LiveMember, TerminalMember, n
<1>2. CASE ~Archived(m)
  <2> DEFINE up == OneIf(m.currentness # observed)
             on == OneIf(m.lifecycle # to)
  <2>1. n = [m EXCEPT !.observed = view, !.currentness = observed, !.lifecycle = to,
                      !.watermark = m.watermark + up + on]
    BY <1>2 DEF EvaluateMember
  <2>2. /\ up \in Nat /\ on \in Nat /\ m.watermark \in Nat
        /\ up = 0 => observed = m.currentness
        /\ on = 0 => to = m.lifecycle
    BY DEF OneIf, Members
  <2>3. m.lifecycle \in LiveMember \cup {"NONE"}
    BY <1>2 DEF Archived, Members, MemberLifecycles
  <2>4. /\ to \in LiveMember \cup {"NONE"}
        /\ to = "NONE" <=> m.lifecycle = "NONE"
        /\ to # "PENDING"
        /\ to = "CURRENT" => observed = "CURRENT"
        /\ to = "CURRENT" /\ ~explicit => m.lifecycle \in {"PENDING", "CURRENT"}
    <3> HIDE DEF observed
    <3> QED BY <2>3 DEF After, InputEvent, MemberTransition, LiveMember, MemberLifecycles,
                        TerminalMember, Recoverable
  <2> HIDE DEF observed, to, n, up, on
  <2>5. /\ n.currentness = observed /\ n.lifecycle = to /\ n.watermark = m.watermark + up + on
        /\ n.generation = m.generation /\ n.admin_enabled = m.admin_enabled
    BY <2>1 DEF Members
  <2>6. m.watermark <= n.watermark
    BY <2>2, <2>5
  <2>7. n.watermark = m.watermark => up = 0 /\ on = 0
    BY <2>2, <2>5
  <2>8. Live(n) <=> Live(m)
    BY <2>3, <2>4, <2>5 DEF Live, LiveMember
  <2>9. Decided(n)
    BY <2>4, <2>5 DEF Decided
  <2>10. n.watermark = m.watermark => Pins(m, n)
    BY <2>2, <2>5, <2>7 DEF Pins
  <2>11. ~explicit /\ Decided(m) /\ Usable(n) => Usable(m)
    BY <2>4, <2>5 DEF Decided, Usable
  <2> QED
    BY <2>6, <2>8, <2>9, <2>10, <2>11 DEF n
<1> QED
  BY <1>1, <1>2

\* An explicit revalidation, with the version it earns.  A relation that is
\* rebound keeps its watermark when nothing but the binding changed.
LEMMA RevalidatedDescends ==
    ASSUME NEW m \in Members, Live(m), NEW view \in Views, NEW conditional \in BOOLEAN
    PROVE  LET n == Revalidated(m, view, conditional)
           IN  /\ n \in Members /\ Decided(n) /\ (Live(n) <=> Live(m))
               /\ \A still : Descends(m, n, still)
<1> DEFINE x == IF view = NoView THEN m ELSE [m EXCEPT !.bound = view.gen]
           n == EvaluateMember(x, view, conditional, TRUE)
<1>1. /\ x \in Members /\ x.generation = m.generation /\ x.lifecycle = m.lifecycle
      /\ x.id = m.id /\ x.watermark = m.watermark /\ x.currentness = m.currentness
      /\ x.admin_enabled = m.admin_enabled
  BY DEF Members, Views
<1>2. Revalidated(m, view, conditional) = n
  BY DEF Revalidated
<1> HIDE DEF x
<1>3. /\ n \in Members /\ n.id = x.id
      /\ Present(n) <=> Present(x)
      /\ x.watermark <= n.watermark /\ Decided(n) /\ (Live(n) <=> Live(x))
      /\ ~Archived(x) /\ n.watermark = x.watermark => Pins(x, n)
  BY <1>1, EvaluateMemberFacts, Evaluation, ZenonT(30)
<1>4. ~Archived(x)
  BY <1>1 DEF Live, LiveMember, Archived, TerminalMember
<1> HIDE DEF n
<1> QED
  BY <1>1, <1>2, <1>3, <1>4 DEF Descends, Pins, Present, Live

\* versioned(): a new generation and watermark when something changed.
LEMMA VersionedDescends ==
    ASSUME NEW m \in Members, NEW n \in Members, n.generation < MaxGeneration,
           \A still : Descends(m, n, still), Decided(n)
    PROVE  LET v == Versioned(m, n)
           IN  /\ v \in Members /\ Decided(v) /\ (Live(v) <=> Live(n))
               /\ \A still : Descends(m, v, still)
<1> DEFINE v == Versioned(m, n)
<1>1. v \in Members /\ v.lifecycle = n.lifecycle /\ v.currentness = n.currentness
  BY VersionedFacts
<1> DEFINE Good == Decided(v) /\ (Live(v) <=> Live(n)) /\ \A still : Descends(m, v, still)
<1>2. CASE Moved(m, n)
  <2> DEFINE x == [n EXCEPT !.generation = n.generation + 1]
             w == n.watermark + 1
  <2>1. v = [x EXCEPT !.watermark = w]
    BY <1>2, Zenon DEF Versioned
  <2>2. v.id = n.id /\ v.watermark = n.watermark + 1
    BY <2>1 DEF Members
  <2>3. Descends(m, n, TRUE) /\ m.watermark \in Nat /\ n.watermark \in Nat
    BY DEF Members
  <2> HIDE DEF v
  <2>4. Good
    BY <1>1, <2>2, <2>3 DEF Decided, Live, Descends, Present
  <2> QED BY <1>1, <2>4 DEF v
<1>3. CASE ~Moved(m, n)
  <2>1. v = n
    BY <1>3 DEF Versioned
  <2> HIDE DEF v
  <2>2. Good
    BY <2>1
  <2> QED BY <1>1, <2>2 DEF v
<1> QED BY <1>2, <1>3

\* The end of a relation, by whatever ending.
LEMMA ClosedDescends ==
    ASSUME NEW m \in Members, Present(m), NEW l \in TerminalMember, m.generation < MaxGeneration
    PROVE  LET n == Closed(m, l)
           IN  Decided(n) /\ \A still : Descends(m, n, still)
<1> DEFINE n == Closed(m, l)
<1>1. n \in Members /\ n.lifecycle = l /\ Present(n)
  BY ClosedFacts
<1>2. n.id = m.id /\ n.watermark = m.watermark + 1 /\ m.watermark \in Nat
  BY DEF Closed, Members
<1> HIDE DEF n
<1> QED
  BY <1>1, <1>2 DEF Decided, Descends, TerminalMember, n

\* A relation as add_member() and replace_member() make it.
LEMMA NewMemberDecided ==
    ASSUME NEW id \in Nat, NEW bound \in Nat, NEW view \in Views, NEW conditional \in BOOLEAN
    PROVE  LET n == NewMember(id, bound, view, conditional)
           IN  /\ Decided(n) /\ n.id = id /\ Live(n)
<1> DEFINE m == [NoMember EXCEPT !.id = id, !.bound = bound, !.generation = 1,
                                 !.lifecycle = "PENDING", !.admin_enabled = TRUE]
           n == EvaluateMember(m, view, conditional, FALSE)
<1>1. 1 \in Generations /\ "PENDING" \in MemberLifecycles
  BY CounterAssumption DEF Generations, MemberLifecycles, LiveMember
<1>2. m \in Members
  BY <1>1, NoMemberFacts DEF Members
<1>3. m.id = id /\ Live(m)
  BY NoMemberFacts DEF Members, Live, LiveMember
<1>4. NewMember(id, bound, view, conditional) = n
  BY DEF NewMember
<1> HIDE DEF m
<1>5. n.id = m.id /\ Decided(n) /\ (Live(n) <=> Live(m))
  BY <1>2, EvaluateMemberFacts, Evaluation
<1> HIDE DEF n
<1> QED BY <1>3, <1>4, <1>5

\* A relation that leaves live authority with its set.
LEMMA DepartedDescends ==
    ASSUME NEW m \in Members, NEW l
    PROVE  LET n == Departed(m, l)
           IN  /\ n.id = m.id /\ m.watermark <= n.watermark
               /\ Decided(m) /\ l # "REVOKED" => Decided(n)
<1> DEFINE to == After(m.lifecycle, DepartureEvent(l))
           x == IF l = "REVOKED" THEN [m EXCEPT !.currentness = "SET_NOT_USABLE"]
                                 ELSE [m EXCEPT !.lifecycle = to]
           bump == OneIf(m.lifecycle # x.lifecycle \/ m.currentness # x.currentness)
           n == Departed(m, l)
<1>1. /\ to # "PENDING" \/ to = m.lifecycle
      /\ to = "CURRENT" => m.lifecycle = "CURRENT"
  BY DEF After, DepartureEvent, MemberTransition, Members, MemberLifecycles, LiveMember,
         TerminalMember
<1>2. bump \in Nat
  BY DEF OneIf
<1>3. n = [x EXCEPT !.watermark = @ + bump]
  BY DEF Departed
<1> HIDE DEF bump, n, to
<1>4. /\ x.id = m.id /\ x.watermark = m.watermark /\ m.watermark \in Nat
      /\ l # "REVOKED" => x.lifecycle = to /\ x.currentness = m.currentness
      /\ {"id", "watermark", "lifecycle", "currentness"} \subseteq DOMAIN x
  BY DEF Members
<1> HIDE DEF x
<1>5. /\ n.id = x.id /\ n.watermark = x.watermark + bump
      /\ n.lifecycle = x.lifecycle /\ n.currentness = x.currentness
  BY <1>3, <1>4
<1> QED
  BY <1>1, <1>2, <1>4, <1>5 DEF Decided, n

\* New watermarks for all members.
LEMMA BumpMembersDescend ==
    ASSUME NEW ms \in [Paths -> Members], NEW p \in Paths
    PROVE  LET n == BumpMembers(ms)[p]
           IN  /\ n.id = ms[p].id /\ (Present(n) <=> Present(ms[p]))
               /\ Decided(ms[p]) => Decided(n)
               /\ \A still : Descends(ms[p], n, still)
<1> DEFINE n == BumpMembers(ms)[p]
           m == ms[p]
<1>1. m \in Members /\ n \in Members /\ n.lifecycle = m.lifecycle /\ n.currentness = m.currentness
  BY BumpMembersFacts
<1>2. n = IF Present(m) THEN [m EXCEPT !.watermark = @ + 1] ELSE m
  BY DEF BumpMembers
<1>3. CASE Present(m)
  <2>1. n.id = m.id /\ n.watermark = m.watermark + 1 /\ m.watermark \in Nat
    BY <1>1, <1>2, <1>3 DEF Members
  <2> HIDE DEF n, m
  <2> QED BY <1>1, <1>3, <2>1 DEF Decided, Descends, Present, n, m
<1>4. CASE ~Present(m)
  <2>1. n = m
    BY <1>2, <1>4
  <2> QED BY <1>1, <2>1, DescendsSame DEF Decided
<1> QED BY <1>3, <1>4
-----------------------------------------------------------------------------
\* The record operators.

\* Operators that leave the membership table alone.
LEMMA SameTable ==
    ASSUME NEW r \in SetRecords, NEW q \in SetRecords,
           q.members = r.members, q.watermark = r.watermark,
           q.generation = r.generation, q.membership_generation = r.membership_generation,
           q.worker = r.worker,
           r.lifecycle \in TerminalSet => q.lifecycle \in TerminalSet,
           Absent(q) <=> Absent(r)
    PROVE  Drafted(r, q, {})
<1>1. \A p \in Paths : Descends(r.members[p], q.members[p], q.watermark = r.watermark)
  BY RecordTypes, DescendsSame
<1>2. Settled(r) => Settled(q)
  BY DEF Settled
<1> QED BY <1>1, <1>2, RecordTypes DEF Drafted, MembersDescend

\* A membership table that a handler has edited.
LEMMA EditedTable ==
    ASSUME NEW r \in SetRecords, NEW ms \in [Paths -> Members], NEW F,
           \A p \in Paths : Decided(r.members[p]) => Decided(ms[p]),
           \A p \in Paths \ F : Vacant(ms[p]) \/ Descends(r.members[p], ms[p], TRUE)
    PROVE  LET q == [r EXCEPT !.members = ms]
           IN  Drafted(r, q, F) /\ Inherits(r, q)
<1> DEFINE q == [r EXCEPT !.members = ms]
<1>1. /\ q \in SetRecords /\ q.members = ms /\ q.lifecycle = r.lifecycle
      /\ q.generation = r.generation /\ q.membership_generation = r.membership_generation
  BY WithMembers
<1>2. /\ q.worker = r.worker /\ q.watermark = r.watermark /\ q.currentness = r.currentness
      /\ q.governing_epoch = r.governing_epoch
  BY DEF SetRecords
<1> HIDE DEF q
<1>3. \A p \in Paths \ F : Vacant(ms[p]) \/ Descends(r.members[p], ms[p], q.watermark = r.watermark)
  BY <1>2
<1>4. Settled(r) => Settled(q)
  BY <1>1 DEF Settled
<1>5. Drafted(r, q, F)
  BY <1>1, <1>2, <1>3, <1>4, RecordTypes DEF Drafted, MembersDescend, Absent
<1>6. Inherits(r, q)
  BY <1>1, <1>2 DEF Inherits
<1> QED BY <1>5, <1>6 DEF q

\* recompute_locked() makes a draft.
LEMMA RecomputeDrafted ==
    ASSUME NEW r \in SetRecords
    PROVE  LET q == Recompute(r)
           IN  /\ Drafted(r, q, {}) /\ Inherits(r, q)
               /\ q.lifecycle = "ADMIN_DISABLED" => ~q.admin_enabled
               /\ q.currentness = r.currentness
               /\ q.lifecycle \in TerminalSet => r.lifecycle \in TerminalSet
<1> DEFINE usable == UsableCount(r.members)
           derived == DeriveLifecycle(usable, r.minimum, r.admin_enabled)
           l == IF r.lifecycle \in Derived \cup {"ADMIN_DISABLED"} THEN derived ELSE r.lifecycle
           q == Recompute(r)
<1>1. q \in SetRecords /\ Frame(r, q)
  BY RecomputeFacts
<1>2. /\ derived \in Derived \cup {"ADMIN_DISABLED"}
      /\ derived = "ADMIN_DISABLED" => ~r.admin_enabled
  BY DEF DeriveLifecycle, Derived
<1>3. q = [r EXCEPT !.usable = usable, !.lifecycle = l]
  BY DEF Recompute
<1> HIDE DEF usable, derived
<1>4. /\ r.lifecycle \in TerminalSet => l = r.lifecycle
      /\ l \in TerminalSet => l = r.lifecycle
      /\ l = "ADMIN_DISABLED" => ~r.admin_enabled
  BY <1>2 DEF TerminalSet, Derived
<1> HIDE DEF l, q
<1>5. /\ q.lifecycle = l /\ q.watermark = r.watermark /\ q.worker = r.worker
      /\ q.currentness = r.currentness /\ q.governing_epoch = r.governing_epoch
  BY <1>3 DEF SetRecords
<1>6. Drafted(r, q, {})
  BY <1>1, <1>4, <1>5, SameTable DEF Frame
<1>7. Inherits(r, q)
  BY <1>4, <1>5 DEF Inherits
<1> QED BY <1>1, <1>4, <1>5, <1>6, <1>7 DEF Frame, q

\* A recomputation of an accounted record whose usable members are the same.
LEMMA RecomputeSteady ==
    ASSUME NEW r \in SetRecords, Accounted(r), r.lifecycle = "ADMIN_DISABLED" => ~r.admin_enabled,
           NEW q \in SetRecords, q.lifecycle = r.lifecycle, q.minimum = r.minimum,
           q.admin_enabled = r.admin_enabled,
           \A p \in Paths : Usable(q.members[p]) <=> Usable(r.members[p])
    PROVE  Recompute(q).lifecycle = r.lifecycle
<1> DEFINE usable == UsableCount(q.members)
           derived == DeriveLifecycle(usable, q.minimum, q.admin_enabled)
           l == IF q.lifecycle \in Derived \cup {"ADMIN_DISABLED"} THEN derived ELSE q.lifecycle
<1>1. usable = r.usable
  BY SameUsable DEF Accounted
<1>2. r.lifecycle \in Derived \cup {"ADMIN_DISABLED"} => derived = r.lifecycle
  BY <1>1 DEF Accounted, DeriveLifecycle, Derived
<1>3. Recompute(q) = [q EXCEPT !.usable = usable, !.lifecycle = l]
  BY DEF Recompute
<1>4. l = r.lifecycle
  BY <1>2
<1> HIDE DEF usable, derived, l
<1> QED BY <1>3, <1>4 DEF SetRecords

\* So does a set transition with its recomputation.
LEMMA TransitionDrafted ==
    ASSUME NEW r \in SetRecords, NEW e
    PROVE  LET q == ApplyTransition(r, e)
           IN  /\ Drafted(r, q, {}) /\ Inherits(r, q)
               /\ e # "ADMIN_DISABLED" /\ q.lifecycle = "ADMIN_DISABLED" =>
                      ~q.admin_enabled \/ r.lifecycle = "ADMIN_DISABLED"
               /\ q.admin_enabled = r.admin_enabled
<1> DEFINE act == SetTransition(r.lifecycle, e)
           q == ApplyTransition(r, e)
<1>1. q \in SetRecords /\ Frame(r, q)
  BY ApplyTransitionFacts
<1> DEFINE Good == /\ q.watermark = r.watermark /\ q.worker = r.worker
                   /\ q.governing_epoch = r.governing_epoch
                   /\ r.lifecycle \in TerminalSet => q.lifecycle \in TerminalSet
                   /\ q.currentness = r.currentness \/ q.currentness = "REVALIDATION_REQUIRED"
                   /\ q.lifecycle \in TerminalSet /\ r.lifecycle \notin TerminalSet =>
                          q.currentness = "REVALIDATION_REQUIRED"
                   /\ e # "ADMIN_DISABLED" /\ q.lifecycle = "ADMIN_DISABLED" =>
                          ~q.admin_enabled \/ r.lifecycle = "ADMIN_DISABLED"
<1>2. CASE act = "RECOMPUTE"
  <2>1. q = Recompute(r)
    BY <1>2 DEF ApplyTransition
  <2> DEFINE x == Recompute(r)
  <2>2. /\ Drafted(r, x, {}) /\ Inherits(r, x)
        /\ x.lifecycle = "ADMIN_DISABLED" => ~x.admin_enabled
    BY RecomputeDrafted
  <2> HIDE DEF x
  <2> QED
    BY <1>1, <2>1, <2>2 DEF Frame, x
<1>3. CASE act = "BECOME_PUBLISHED"
  <2> DEFINE usable == UsableCount(r.members)
             derived == DeriveLifecycle(usable, r.minimum, r.admin_enabled)
  <2>1. q = [r EXCEPT !.usable = usable, !.lifecycle = derived]
    BY <1>3 DEF ApplyTransition
  <2>2. /\ derived \in Derived \cup {"ADMIN_DISABLED"}
        /\ derived = "ADMIN_DISABLED" => ~r.admin_enabled
        /\ r.lifecycle = "DECLARED"
    BY <1>3 DEF DeriveLifecycle, Derived, SetTransition
  <2> HIDE DEF derived, usable, q
  <2>3. /\ q.lifecycle = derived /\ q.watermark = r.watermark /\ q.worker = r.worker
        /\ q.governing_epoch = r.governing_epoch /\ q.currentness = r.currentness
        /\ q.admin_enabled = r.admin_enabled
    BY <2>1 DEF SetRecords
  <2>4. Good
    BY <2>2, <2>3 DEF TerminalSet, Derived
  <2>5. Drafted(r, q, {}) /\ Inherits(r, q)
    BY <1>1, <2>4, SameTable DEF Frame, Inherits
  <2> QED
    BY <2>3, <2>4, <2>5 DEF q
<1>4. CASE act \in {"BECOME_ADMIN_DISABLED", "BECOME_WITHDRAWING"}
  <2>1. PICK l \in {"ADMIN_DISABLED", "WITHDRAWING"} : q = [r EXCEPT !.lifecycle = l]
    BY <1>4 DEF ApplyTransition
  <2>2. /\ r.lifecycle \notin TerminalSet
        /\ e # "ADMIN_DISABLED" => act = "BECOME_WITHDRAWING"
    BY <1>4 DEF SetTransition, TerminalSet, Derived, EditEvents, DrainEvents
  <2>3. act = "BECOME_WITHDRAWING" => q = [r EXCEPT !.lifecycle = "WITHDRAWING"]
    BY DEF ApplyTransition
  <2> HIDE DEF q, act
  <2>4. /\ q.lifecycle = l /\ q.watermark = r.watermark /\ q.worker = r.worker
        /\ q.governing_epoch = r.governing_epoch /\ q.currentness = r.currentness
        /\ q.admin_enabled = r.admin_enabled
        /\ act = "BECOME_WITHDRAWING" => q.lifecycle = "WITHDRAWING"
    BY <2>1, <2>3 DEF SetRecords
  <2>5. Good
    BY <2>2, <2>4 DEF TerminalSet
  <2>6. Drafted(r, q, {}) /\ Inherits(r, q)
    BY <1>1, <2>5, SameTable DEF Frame, Inherits
  <2> QED
    BY <2>4, <2>5, <2>6 DEF q
<1>5. CASE act \in {"BECOME_WITHDRAWN", "BECOME_SUPERSEDED", "BECOME_REVOKED", "BECOME_RETIRED"}
  <2>1. PICK l \in TerminalSet :
            q = [r EXCEPT !.lifecycle = l, !.currentness = "REVALIDATION_REQUIRED"]
    BY <1>5 DEF ApplyTransition, TerminalSet
  <2> HIDE DEF q, act
  <2>2. /\ q.lifecycle = l /\ q.watermark = r.watermark /\ q.worker = r.worker
        /\ q.governing_epoch = r.governing_epoch /\ q.currentness = "REVALIDATION_REQUIRED"
        /\ q.admin_enabled = r.admin_enabled
    BY <2>1 DEF SetRecords
  <2>3. Good
    BY <2>2 DEF TerminalSet
  <2>4. Drafted(r, q, {}) /\ Inherits(r, q)
    BY <1>1, <2>2, <2>3, SameTable DEF Frame, Inherits
  <2> QED
    BY <2>2, <2>3, <2>4 DEF q
<1>6. CASE act \notin {"RECOMPUTE", "BECOME_PUBLISHED", "BECOME_ADMIN_DISABLED", "BECOME_WITHDRAWING",
                       "BECOME_WITHDRAWN", "BECOME_SUPERSEDED", "BECOME_REVOKED", "BECOME_RETIRED"}
  <2>1. q = r
    BY <1>6 DEF ApplyTransition
  <2> HIDE DEF q
  <2>2. Drafted(r, q, {}) /\ Inherits(r, q)
    BY <2>1, DraftedSame
  <2> QED
    BY <2>1, <2>2 DEF q
<1> QED
  BY <1>2, <1>3, <1>4, <1>5, <1>6

\* A request that turns out to be idempotent has already applied its transition;
\* of an accounted record that is not left disabled that changes nothing a
\* consumer sees.
LEMMA IdleTransition ==
    ASSUME NEW r \in SetRecords, Accounted(r),
           r.lifecycle = "ADMIN_DISABLED" => ~r.admin_enabled,
           NEW e, \/ e \in {"MINIMUM_CHANGED", "POLICY_CHANGED", "ADMIN_ENABLED"}
                  \/ e = "ADMIN_DISABLED" /\ ~r.admin_enabled
    PROVE  LET q == ApplyTransition(r, e)
           IN  q.lifecycle = r.lifecycle /\ q.currentness = r.currentness
<1> DEFINE act == SetTransition(r.lifecycle, e)
           q == ApplyTransition(r, e)
           usable == UsableCount(r.members)
           derived == DeriveLifecycle(usable, r.minimum, r.admin_enabled)
<1>1. \/ act = "RECOMPUTE" /\ r.lifecycle \in Derived \cup {"ADMIN_DISABLED"}
      \/ act \in {"STAY", "REJECT"}
  <2>1. r.lifecycle \in Derived => r.admin_enabled
    BY DEF Accounted, DeriveLifecycle, Derived
  <2> QED
    BY <2>1 DEF SetTransition, EditEvents, DrainEvents, Derived
<1>2. r.lifecycle \in Derived \cup {"ADMIN_DISABLED"} => derived = r.lifecycle
  BY DEF Accounted, DeriveLifecycle, Derived
<1>3. CASE act = "RECOMPUTE"
  <2>1. q = [r EXCEPT !.usable = usable, !.lifecycle = derived]
    BY <1>1, <1>3 DEF ApplyTransition, Recompute
  <2> HIDE DEF q, derived, usable, act
  <2>2. q.lifecycle = derived /\ q.currentness = r.currentness
    BY <2>1 DEF SetRecords
  <2> QED
    BY <1>1, <1>2, <1>3, <2>2 DEF q
<1>4. CASE act \in {"STAY", "REJECT"}
  <2>1. q = r
    BY <1>4 DEF ApplyTransition
  <2> HIDE DEF q
  <2> QED BY <2>1 DEF q
<1> QED BY <1>1, <1>3, <1>4

\* The other fields a handler edits.
LEMMA EditDrafted ==
    ASSUME NEW r \in SetRecords, NEW n \in Nat, NEW b \in BOOLEAN, NEW x \in SetIds
    PROVE  /\ LET q == [r EXCEPT !.minimum = n] IN Drafted(r, q, {}) /\ Inherits(r, q)
           /\ LET q == [r EXCEPT !.conditional = b] IN Drafted(r, q, {}) /\ Inherits(r, q)
           /\ LET q == [r EXCEPT !.admin_enabled = b] IN Drafted(r, q, {}) /\ Inherits(r, q)
           /\ LET q == [r EXCEPT !.superseded_by = x]
              IN  Drafted(r, q, {}) /\ Inherits(r, q) /\ q.lifecycle = r.lifecycle
                  /\ q.admin_enabled = r.admin_enabled
<1> DEFINE Frozen(q) ==
             /\ q \in SetRecords /\ q.members = r.members /\ q.watermark = r.watermark
             /\ q.generation = r.generation /\ q.membership_generation = r.membership_generation
             /\ q.worker = r.worker /\ q.lifecycle = r.lifecycle
             /\ q.currentness = r.currentness /\ q.governing_epoch = r.governing_epoch
<1>1. ASSUME NEW q, Frozen(q) PROVE Drafted(r, q, {}) /\ Inherits(r, q)
  BY <1>1, SameTable DEF Inherits, Absent
<1>2. Frozen([r EXCEPT !.minimum = n])
  BY DEF SetRecords
<1>3. Frozen([r EXCEPT !.conditional = b])
  BY DEF SetRecords
<1>4. Frozen([r EXCEPT !.admin_enabled = b])
  BY DEF SetRecords
<1>5. /\ Frozen([r EXCEPT !.superseded_by = x])
      /\ [r EXCEPT !.superseded_by = x].admin_enabled = r.admin_enabled
  BY DEF SetRecords
<1> HIDE DEF Frozen
<1>6. \A q : Frozen(q) => Drafted(r, q, {}) /\ Inherits(r, q)
  BY <1>1
<1>7. [r EXCEPT !.superseded_by = x].lifecycle = r.lifecycle
  BY DEF SetRecords
<1> QED BY <1>2, <1>3, <1>4, <1>5, <1>6, <1>7

\* Every member, and the set with it, gets a new watermark.
LEMMA BumpAllDrafted ==
    ASSUME NEW r \in SetRecords
    PROVE  LET q == BumpAll(r)
           IN  Drafted(r, q, {}) /\ Inherits(r, q) /\ q.watermark = r.watermark + 1
<1> DEFINE q == BumpAll(r)
           ms == BumpMembers(r.members)
           w == r.watermark + 1
<1>1. /\ q \in SetRecords /\ q.members = ms /\ q.generation = r.generation
      /\ q.membership_generation = r.membership_generation /\ q.lifecycle = r.lifecycle
  BY BumpAllFacts
<1>2. q = [r EXCEPT !.watermark = w, !.members = ms]
  BY DEF BumpAll
<1>3. \A p \in Paths : /\ \A still : Descends(r.members[p], ms[p], still)
                       /\ Decided(r.members[p]) => Decided(ms[p])
  BY RecordTypes, BumpMembersDescend
<1> HIDE DEF q, ms, w
<1>4. /\ q.watermark = w /\ q.worker = r.worker /\ q.currentness = r.currentness
      /\ q.governing_epoch = r.governing_epoch
  BY <1>2 DEF SetRecords
<1>5. MembersDescend(r, q, {})
  BY <1>1, <1>3 DEF MembersDescend
<1>6. Settled(r) => Settled(q)
  BY <1>1, <1>3 DEF Settled
<1>7. r.watermark <= w
  BY RecordTypes DEF w
<1>8. Drafted(r, q, {})
  BY <1>1, <1>4, <1>5, <1>6, <1>7 DEF Drafted, Absent
<1> QED BY <1>1, <1>4, <1>8 DEF Inherits, q, w

\* So do the consequences of a set transition for its members.
LEMMA ConsequencesDrafted ==
    ASSUME NEW r \in SetRecords, NEW from
    PROVE  LET q == Consequences(r, from)
           IN  /\ Drafted(r, q, {}) /\ Inherits(r, q)
               /\ q.lifecycle = r.lifecycle /\ q.admin_enabled = r.admin_enabled
<1> DEFINE q == Consequences(r, from)
<1>1. CASE from \notin Derived \/ r.lifecycle \notin TerminalSet \cup {"WITHDRAWING"}
  <2>1. q = r
    BY <1>1 DEF Consequences
  <2> HIDE DEF q
  <2>2. Drafted(r, q, {}) /\ Inherits(r, q)
    BY <2>1, DraftedSame
  <2> QED BY <2>1, <2>2 DEF q
<1>2. CASE ~(from \notin Derived \/ r.lifecycle \notin TerminalSet \cup {"WITHDRAWING"})
  <2> DEFINE departed == [p \in Paths |->
                             IF Present(r.members[p]) THEN Departed(r.members[p], r.lifecycle)
                                                      ELSE r.members[p]]
             d == [r EXCEPT !.members = departed]
             b == BumpAll(d)
             usable == UsableCount(departed)
  <2>1. q = [b EXCEPT !.usable = usable]
    BY <1>2 DEF Consequences
  <2>2. ASSUME NEW p \in Paths
        PROVE  /\ departed[p] \in Members /\ departed[p].id = r.members[p].id
               /\ Present(departed[p]) <=> Present(r.members[p])
               /\ r.members[p].watermark <= departed[p].watermark
               /\ Decided(r.members[p]) /\ r.lifecycle # "REVOKED" => Decided(departed[p])
    <3>1. r.members[p] \in Members /\ r.members[p].watermark \in Nat
      BY RecordTypes
    <3>2. CASE Present(r.members[p])
      <4> DEFINE n == Departed(r.members[p], r.lifecycle)
      <4>1. /\ n \in Members /\ n.id = r.members[p].id
            /\ Present(n) <=> Present(r.members[p])
            /\ r.members[p].watermark <= n.watermark
            /\ Decided(r.members[p]) /\ r.lifecycle # "REVOKED" => Decided(n)
        BY <3>1, DepartedFacts, DepartedDescends
      <4> HIDE DEF n
      <4>2. departed[p] = n
        BY <3>2 DEF n
      <4> QED BY <4>1, <4>2
    <3>3. CASE ~Present(r.members[p])
      <4>1. departed[p] = r.members[p]
        BY <3>3
      <4> QED BY <3>1, <4>1
    <3> QED BY <3>2, <3>3
  <2>3. departed \in [Paths -> Members]
    BY <2>2
  <2> HIDE DEF departed
  <2>4. /\ d \in SetRecords /\ d.members = departed /\ d.lifecycle = r.lifecycle
        /\ d.generation = r.generation /\ d.membership_generation = r.membership_generation
        /\ d.admin_enabled = r.admin_enabled
    BY <2>3, WithMembers
  <2>5. /\ d.worker = r.worker /\ d.watermark = r.watermark /\ d.currentness = r.currentness
        /\ d.governing_epoch = r.governing_epoch
    BY DEF SetRecords
  <2> HIDE DEF d
  <2>6. /\ Drafted(d, b, {}) /\ Inherits(d, b) /\ b.watermark = d.watermark + 1
        /\ b \in SetRecords /\ b.lifecycle = d.lifecycle /\ b.admin_enabled = d.admin_enabled
    BY <2>4, BumpAllDrafted, BumpAllFacts
  <2>7. usable \in Nat
    BY UsableCountType
  <2> HIDE DEF b, q, usable
  <2>8. /\ q \in SetRecords /\ q.members = b.members /\ q.lifecycle = b.lifecycle
        /\ q.generation = b.generation /\ q.membership_generation = b.membership_generation
        /\ q.worker = b.worker /\ q.watermark = b.watermark /\ q.currentness = b.currentness
        /\ q.governing_epoch = b.governing_epoch /\ q.admin_enabled = b.admin_enabled
    BY <2>1, <2>6, <2>7 DEF SetRecords
  <2>9. r.watermark \in Nat /\ q.watermark = r.watermark + 1
    BY <2>5, <2>6, <2>8, RecordTypes
  <2>10. ASSUME NEW p \in Paths
         PROVE  \/ Vacant(q.members[p])
                \/ Descends(r.members[p], q.members[p], q.watermark = r.watermark)
    <3>1. \/ Vacant(b.members[p])
          \/ Descends(departed[p], b.members[p], b.watermark = d.watermark)
      BY <2>4, <2>6 DEF Drafted, MembersDescend
    <3>2. /\ r.members[p].watermark \in Nat /\ departed[p].watermark \in Nat
          /\ b.members[p].watermark \in Nat
      BY <2>4, <2>6, RecordTypes
    <3> QED
      BY <2>2, <2>8, <2>9, <3>1, <3>2 DEF Descends
  <2>11. Settled(r) => Settled(q)
    <3>1. CASE r.lifecycle = "REVOKED"
      BY <3>1, <2>4, <2>6, <2>8 DEF Settled, TerminalSet
    <3>2. CASE r.lifecycle # "REVOKED"
      <4>1. Settled(r) => Settled(d)
        BY <3>2, <2>2, <2>4 DEF Settled
      <4>2. Settled(d) => Settled(b)
        BY <2>6 DEF Drafted
      <4> QED BY <4>1, <4>2, <2>8 DEF Settled
    <3> QED BY <3>1, <3>2
  <2>12. Drafted(r, q, {})
    BY <2>4, <2>5, <2>6, <2>8, <2>9, <2>10, <2>11 DEF Drafted, MembersDescend, Absent
  <2>13. Inherits(r, q)
    BY <2>4, <2>5, <2>6, <2>8 DEF Inherits
  <2> QED BY <2>4, <2>6, <2>8, <2>12, <2>13 DEF q
<1> QED BY <1>1, <1>2

\* So does the evaluation of every member.
LEMMA ReevaluatedDrafted ==
    ASSUME NEW r \in SetRecords
    PROVE  LET q == Reevaluated(r)
           IN  /\ Drafted(r, q, {}) /\ Inherits(r, q)
               /\ q.lifecycle = "ADMIN_DISABLED" => ~q.admin_enabled
<1> DEFINE Again(m) == IF Live(m) THEN EvaluateMember(m, m.observed, r.conditional, TRUE) ELSE m
           ms == [p \in Paths |-> Again(r.members[p])]
           x == [r EXCEPT !.members = ms]
           y == Recompute(x)
<1>1. ASSUME NEW m \in Members
      PROVE  /\ Again(m) \in Members /\ Descends(m, Again(m), TRUE)
             /\ Decided(m) => Decided(Again(m))
  <2>1. m.observed \in Views /\ r.conditional \in BOOLEAN
    BY DEF Members, SetRecords
  <2>2. CASE Live(m)
    <3> DEFINE n == EvaluateMember(m, m.observed, r.conditional, TRUE)
    <3>1. /\ n \in Members /\ n.id = m.id /\ (Present(n) <=> Present(m))
          /\ m.watermark <= n.watermark /\ Decided(n)
          /\ ~Archived(m) /\ n.watermark = m.watermark => Pins(m, n)
      BY <2>1, EvaluateMemberFacts, Evaluation
    <3>2. ~Archived(m)
      BY <2>2 DEF Live, Archived, LiveMember, TerminalMember
    <3> HIDE DEF n
    <3>3. Descends(m, n, TRUE)
      BY <3>1, <3>2 DEF Descends
    <3> QED BY <2>2, <3>1, <3>3 DEF n
  <2>3. CASE ~Live(m)
    BY <2>3, DescendsSame
  <2> QED BY <2>2, <2>3
<1> HIDE DEF Again
<1>2. /\ ms \in [Paths -> Members]
      /\ \A p \in Paths : Descends(r.members[p], ms[p], TRUE)
      /\ \A p \in Paths : Decided(r.members[p]) => Decided(ms[p])
  BY <1>1, RecordTypes
<1>3. Reevaluated(r) = y
  BY DEF Reevaluated, Again
<1> HIDE DEF ms
<1>4. Drafted(r, x, {}) /\ Inherits(r, x)
  BY <1>2, EditedTable
<1> HIDE DEF x
<1>5. x \in SetRecords
  BY <1>4 DEF Drafted
<1>6. Drafted(x, y, {}) /\ Inherits(x, y) /\ (y.lifecycle = "ADMIN_DISABLED" => ~y.admin_enabled)
  BY <1>5, RecomputeDrafted
<1> HIDE DEF y
<1>7. Drafted(r, y, {}) /\ Inherits(r, y)
  BY <1>4, <1>6, DraftedTwice, InheritsTwice
<1> QED BY <1>3, <1>6, <1>7

-----------------------------------------------------------------------------
Sound(r) == Settled(r) /\ Switched(r) /\ (Absent(r) => r = NoRecord)

\* What one critical section makes of a record; F are the slots it fills anew.
Evolves(a, b, F) ==
    /\ b \in SetRecords /\ Sound(b)
    /\ a.generation <= b.generation /\ a.watermark <= b.watermark
    /\ MembersDescend(a, b, F)
    /\ a.generation = b.generation /\ GenerationRoom(a) =>
           /\ Alike(a, b)
           /\ a.watermark = b.watermark => b.currentness = a.currentness

\* The counters of a record are naturals.
LEMMA RecordNumbers ==
    ASSUME NEW r \in SetRecords
    PROVE  r.generation \in Nat /\ r.watermark \in Nat /\ r.membership_generation \in Nat
BY DEF SetRecords, Generations

\* A record that stays is a later version of itself.
LEMMA EvolvesSame ==
    ASSUME NEW a \in SetRecords, Sound(a) PROVE Evolves(a, a, {}) /\ Inherits(a, a)
<1>1. MembersDescend(a, a, {}) /\ Inherits(a, a)
  BY DraftedSame DEF Drafted
<1> QED BY <1>1, RecordNumbers DEF Evolves, Alike

\* A draft that changes nothing a consumer sees may stand without a commit.
LEMMA StoreEvolves ==
    ASSUME NEW a \in SetRecords, Sound(a), ~Absent(a), NEW q, Drafted(a, q, {}), Switched(q),
           GenerationRoom(a) => /\ Alike(a, q)
                                /\ q.watermark = a.watermark => q.currentness = a.currentness
    PROVE  Evolves(a, q, {})
<1>1. q \in SetRecords /\ q.generation = a.generation
  BY DEF Drafted
<1> QED BY <1>1, RecordNumbers DEF Evolves, Drafted, Sound

\* A commit makes a later version of whatever was drafted.
LEMMA CommitEvolves ==
    ASSUME NEW a \in SetRecords, Sound(a), ~Absent(a), GenerationRoom(a),
           NEW F, NEW q, Drafted(a, q, F),
           q.lifecycle = "ADMIN_DISABLED" => ~q.admin_enabled,
           NEW w \in Workers \cup {NoWorker}, NEW membership \in BOOLEAN,
           membership => MembershipRoom(a)
    PROVE  LET c == Commit(q, w, membership)
           IN  /\ Evolves(a, c, F) /\ Inherits(q, c)
               /\ c.worker = w /\ c.generation = a.generation + 1
               /\ c.lifecycle = q.lifecycle
               /\ c.currentness = q.currentness /\ c.governing_epoch = q.governing_epoch
               /\ ~membership => c.membership_generation = a.membership_generation
               /\ \A p \in Paths : Live(q.members[p]) => c.members[p] = q.members[p]
<1> DEFINE c == Commit(q, w, membership)
           ms == Without(q.members, Pruned(q.members))
           g == q.generation + 1
           mg == q.membership_generation + OneIf(membership)
<1>1. q \in SetRecords /\ q.generation = a.generation
      /\ q.membership_generation = a.membership_generation
  BY DEF Drafted
<1>2. GenerationRoom(q) /\ (membership => MembershipRoom(q))
  BY <1>1 DEF GenerationRoom, MembershipRoom
<1>3. c \in SetRecords
  BY <1>1, <1>2, CommitFacts
<1>4. c = [q EXCEPT !.generation = g, !.membership_generation = mg, !.worker = w, !.members = ms]
  BY DEF Commit
<1>5. \A p \in Paths : /\ ms[p] = q.members[p] \/ ms[p] = NoMember
                       /\ Live(q.members[p]) => ms[p] = q.members[p]
  BY DEF Without, Pruned, ArchivedPaths, Archived, Live, LiveMember, TerminalMember
<1>6. ~membership => mg = a.membership_generation
  BY <1>1, RecordNumbers DEF OneIf
<1> HIDE DEF c, ms, g, mg
<1>7. /\ c.generation = g /\ c.membership_generation = mg /\ c.worker = w /\ c.members = ms
      /\ c.lifecycle = q.lifecycle /\ c.currentness = q.currentness
      /\ c.governing_epoch = q.governing_epoch /\ c.watermark = q.watermark
      /\ c.admin_enabled = q.admin_enabled
  BY <1>1, <1>4 DEF SetRecords
<1>8. c.generation = a.generation + 1
  BY <1>1, <1>7 DEF g
<1>9. Vacant(NoMember) /\ Decided(NoMember)
  BY NoMemberFacts DEF Vacant, Decided, NoMember
<1>10. MembersDescend(a, c, F)
  BY <1>5, <1>7, <1>9 DEF Drafted, MembersDescend
<1>11. Settled(c)
  BY <1>5, <1>7, <1>9 DEF Drafted, Sound, Settled
<1>12. Sound(c)
  BY <1>7, <1>11 DEF Sound, Switched, Drafted, Absent
<1>13. a.generation <= c.generation /\ a.generation # c.generation /\ a.watermark <= c.watermark
  BY <1>7, <1>8, RecordNumbers DEF Drafted
<1>14. Evolves(a, c, F)
  BY <1>3, <1>10, <1>12, <1>13 DEF Evolves
<1>15. Inherits(q, c)
  BY <1>7 DEF Inherits
<1> QED BY <1>5, <1>6, <1>7, <1>8, <1>14, <1>15 DEF c

-----------------------------------------------------------------------------
\* The steps that evolve a record without a commit.

\* The parts of a record that only a commit changes.
Kin(a, b) == b.worker = a.worker /\ b.membership_generation = a.membership_generation

\* No binding moves and nobody becomes usable.
Wanes(a, b) ==
    \A p \in Paths : /\ b.members[p].bound = a.members[p].bound
                     /\ Usable(b.members[p]) => Usable(a.members[p])

\* An invalidation makes a later version and revives nothing.
LEMMA ApplyViewEvolves ==
    ASSUME NEW r, Right(r), Sound(r), NEW p \in Paths, NEW view \in Views
    PROVE  LET q == ApplyView(r, p, view)
           IN  Evolves(r, q, {}) /\ Inherits(r, q) /\ Kin(r, q) /\ Wanes(r, q)
<1> DEFINE m == r.members[p]
           n == EvaluateMember(m, view, r.conditional, FALSE)
           ms == [r.members EXCEPT ![p] = n]
           e == [r EXCEPT !.members = ms]
           c == Recompute(e)
           g == c.generation + OneIf(c.lifecycle # r.lifecycle /\ GenerationRoom(r))
           w == c.watermark + 1
           x == [c EXCEPT !.watermark = w, !.generation = g]
           q == ApplyView(r, p, view)
<1>1. r \in SetRecords /\ m \in Members /\ r.conditional \in BOOLEAN /\ r.members \in [Paths -> Members]
  BY DEF Right, SetRecords
<1>2. q = IF r.lifecycle \in TerminalSet \cup {"NONE"} \/ ~Present(m) THEN r
          ELSE IF m.lifecycle = n.lifecycle /\ m.currentness = n.currentness THEN e
          ELSE x
  <2>1. [r EXCEPT !.members[p] = n] = e
    OBVIOUS
  <2>2. x = [c EXCEPT !.watermark = @ + 1,
                      !.generation = @ + OneIf(c.lifecycle # r.lifecycle /\ GenerationRoom(r))]
    OBVIOUS
  <2> HIDE DEF e, x
  <2> QED BY <2>1, <2>2, Zenon DEF ApplyView, c
<1>3. CASE r.lifecycle \in TerminalSet \cup {"NONE"} \/ ~Present(m)
  <2>1. q = r
    BY <1>2, <1>3
  <2> HIDE DEF q
  <2>2. Evolves(r, q, {}) /\ Inherits(r, q)
    BY <1>1, <2>1, EvolvesSame
  <2> QED BY <2>1, <2>2 DEF Kin, Wanes, q
<1>4. CASE ~(r.lifecycle \in TerminalSet \cup {"NONE"} \/ ~Present(m))
  <2>0. r.lifecycle \notin TerminalSet /\ ~Absent(r) /\ Present(m)
    BY <1>4 DEF Absent
  <2>1. Decided(m)
    BY <2>0 DEF Sound, Settled
  <2>2. /\ n \in Members /\ n.id = m.id /\ n.bound = m.bound /\ (Present(n) <=> Present(m))
        /\ n.generation = m.generation /\ n.admin_enabled = m.admin_enabled
        /\ m.watermark <= n.watermark /\ (Live(n) <=> Live(m)) /\ Decided(n)
        /\ ~Archived(m) /\ n.watermark = m.watermark => Pins(m, n)
        /\ Usable(n) => Usable(m)
    BY <1>1, <2>1, EvaluateMemberFacts, Evaluation, ZenonT(30)
  <2>3. /\ ms \in [Paths -> Members] /\ ms[p] = n
        /\ \A y \in Paths \ {p} : ms[y] = r.members[y]
    BY <1>1, <2>2
  <2> HIDE DEF n
  <2>4. /\ e \in SetRecords /\ e.members = ms /\ e.conditional = r.conditional
        /\ e.generation = r.generation /\ e.membership_generation = r.membership_generation
        /\ e.lifecycle = r.lifecycle /\ e.minimum = r.minimum /\ e.admin_enabled = r.admin_enabled
    BY <1>1, <2>3, WithMembers
  <2>5. /\ e.watermark = r.watermark /\ e.worker = r.worker /\ e.currentness = r.currentness
        /\ e.governing_epoch = r.governing_epoch
    BY <1>1 DEF SetRecords
  <2> HIDE DEF ms, e
  <2>6. /\ \A y \in Paths : Decided(r.members[y]) => Decided(e.members[y])
        /\ Wanes(r, e)
        /\ \A y \in Paths : /\ Live(e.members[y]) <=> Live(r.members[y])
                            /\ e.members[y].id = r.members[y].id
    <3>1. /\ Decided(e.members[p]) /\ e.members[p].bound = r.members[p].bound
          /\ Usable(e.members[p]) => Usable(r.members[p])
          /\ Live(e.members[p]) <=> Live(r.members[p])
          /\ e.members[p].id = r.members[p].id
      BY <2>2, <2>3, <2>4
    <3>2. \A y \in Paths \ {p} : e.members[y] = r.members[y]
      BY <2>3, <2>4
    <3> QED BY <3>1, <3>2 DEF Wanes
  <2>7. Settled(e)
    BY <2>0, <2>4, <2>6 DEF Sound, Settled
  <2>8. CASE m.lifecycle = n.lifecycle /\ m.currentness = n.currentness
    <3>1. q = e
      BY <1>2, <1>4, <2>8
    <3> HIDE DEF q
    <3>2. ASSUME NEW y \in Paths PROVE Descends(r.members[y], q.members[y], TRUE)
      <4>1. CASE y = p
        <5>1. n.lifecycle = m.lifecycle /\ n.currentness = m.currentness
          BY <2>8
        <5>2. Descends(m, n, TRUE)
          BY <2>2, <5>1 DEF Descends, Pins
        <5> QED BY <2>3, <2>4, <3>1, <4>1, <5>2
      <4>2. CASE y # p
        <5>1. q.members[y] = r.members[y] /\ r.members[y] \in Members
          BY <1>1, <2>3, <2>4, <3>1, <4>2
        <5> QED BY <5>1, DescendsSame
      <4> QED BY <4>1, <4>2
    <3>3. MembersDescend(r, q, {})
      BY <3>1, <3>2, <2>5 DEF MembersDescend
    <3>4. Drafted(r, q, {})
      BY <1>1, <2>0, <2>4, <2>5, <2>7, <3>1, <3>3, RecordNumbers DEF Drafted, Absent
    <3>5. Switched(q) /\ Alike(r, q) /\ q.currentness = r.currentness
      BY <2>4, <2>5, <2>6, <3>1 DEF Sound, Switched, GenerationRoom, Alike
    <3>6. Evolves(r, q, {})
      BY <1>1, <2>0, <3>4, <3>5, StoreEvolves
    <3>7. Inherits(r, q) /\ Kin(r, q) /\ Wanes(r, q)
      BY <2>4, <2>5, <2>6, <3>1 DEF Inherits, Kin
    <3> QED BY <3>6, <3>7 DEF q
  <2>9. CASE ~(m.lifecycle = n.lifecycle /\ m.currentness = n.currentness)
    <3>1. q = x
      BY <1>2, <1>4, <2>9
    <3>2. /\ c \in SetRecords /\ Frame(e, c) /\ Drafted(e, c, {}) /\ Inherits(e, c)
          /\ c.currentness = e.currentness
          /\ c.lifecycle = "ADMIN_DISABLED" => ~c.admin_enabled
      BY <2>4, RecomputeFacts, RecomputeDrafted
    <3>3. /\ r.generation \in Nat /\ r.watermark \in Nat /\ c.watermark \in Nat /\ c.generation = r.generation
          /\ r.watermark <= c.watermark
      BY <1>1, <2>4, <2>5, <3>2, RecordNumbers DEF Drafted
    <3> HIDE DEF q, c
    <3>4. /\ r.generation <= g /\ g \in Nat
          /\ GenerationRoom(r) /\ c.lifecycle # r.lifecycle => g # r.generation
          /\ ~GenerationRoom(r) => g = r.generation
          /\ w \in Nat /\ r.watermark < w
      BY <3>3 DEF OneIf
    <3>5. q \in SetRecords
      BY ApplyViewRight DEF Right, q
    <3> HIDE DEF g, w
    <3>6. /\ q.generation = g /\ q.watermark = w /\ q.members = c.members
          /\ q.membership_generation = c.membership_generation /\ q.worker = c.worker
          /\ q.lifecycle = c.lifecycle /\ q.currentness = c.currentness
          /\ q.governing_epoch = c.governing_epoch
          /\ q.minimum = c.minimum /\ q.conditional = c.conditional
          /\ q.admin_enabled = c.admin_enabled
      BY <3>1, <3>2 DEF SetRecords
    <3> HIDE DEF x
    <3>7. q.members = e.members
      BY <3>2, <3>6 DEF Frame
    <3>8. ASSUME NEW y \in Paths PROVE Descends(r.members[y], q.members[y], FALSE)
      <4>1. CASE y = p
        <5>1. Descends(m, n, FALSE)
          BY <2>2 DEF Descends
        <5> QED BY <2>3, <2>4, <3>7, <4>1, <5>1
      <4>2. CASE y # p
        <5>1. q.members[y] = r.members[y] /\ r.members[y] \in Members
          BY <1>1, <2>3, <2>4, <3>7, <4>2
        <5> QED BY <5>1, DescendsSame
      <4> QED BY <4>1, <4>2
    <3>9. q.watermark # r.watermark /\ r.watermark <= q.watermark
      BY <3>3, <3>4, <3>6
    <3>10. MembersDescend(r, q, {})
      BY <3>8, <3>9 DEF MembersDescend, Descends
    <3>11. Settled(q)
      BY <2>7, <3>2, <3>6 DEF Drafted, Settled
    <3>12. Sound(q)
      BY <2>0, <2>4, <3>2, <3>6, <3>11 DEF Sound, Switched, Absent, Frame
    <3>13. r.generation = q.generation /\ GenerationRoom(r) => Alike(r, q)
      <4>1. r.generation = q.generation /\ GenerationRoom(r) => q.lifecycle = r.lifecycle
        BY <3>4, <3>6
      <4> QED BY <2>4, <2>6, <3>2, <3>6, <3>7, <4>1 DEF Alike, Frame
    <3>14. Evolves(r, q, {})
      BY <3>4, <3>5, <3>6, <3>9, <3>10, <3>12, <3>13 DEF Evolves
    <3>15. Inherits(r, q)
      BY <2>4, <2>5, <3>2, <3>6 DEF Inherits
    <3>16. Kin(r, q) /\ Wanes(r, q)
      BY <2>4, <2>5, <2>6, <3>2, <3>6, <3>7 DEF Kin, Wanes, Drafted
    <3> QED BY <3>14, <3>15, <3>16 DEF q
  <2> QED BY <2>8, <2>9
<1> QED BY <1>3, <1>4

-----------------------------------------------------------------------------
\* A set that loses live currentness.
LEMMA UncurrentEvolves ==
    ASSUME NEW r \in SetRecords, Sound(r), ~Absent(r), NEW n \in Nat
    PROVE  LET q == [BumpAll(r) EXCEPT !.currentness = "REVALIDATION_REQUIRED", !.governing_epoch = n]
           IN  Evolves(r, q, {}) /\ Kin(r, q) /\ q.currentness = "REVALIDATION_REQUIRED"
<1> DEFINE b == BumpAll(r)
           q == [b EXCEPT !.currentness = "REVALIDATION_REQUIRED", !.governing_epoch = n]
<1>1. /\ b \in SetRecords /\ b.members = BumpMembers(r.members) /\ b.lifecycle = r.lifecycle
      /\ b.minimum = r.minimum /\ b.conditional = r.conditional
      /\ b.admin_enabled = r.admin_enabled
      /\ Drafted(r, b, {}) /\ b.watermark = r.watermark + 1
  BY BumpAllFacts, BumpAllDrafted
<1> HIDE DEF b
<1>2. /\ q \in SetRecords /\ q.members = b.members /\ q.watermark = b.watermark
      /\ q.generation = b.generation /\ q.membership_generation = b.membership_generation
      /\ q.worker = b.worker /\ q.lifecycle = b.lifecycle /\ q.minimum = b.minimum
      /\ q.conditional = b.conditional /\ q.admin_enabled = b.admin_enabled
      /\ q.currentness = "REVALIDATION_REQUIRED"
  BY <1>1 DEF SetRecords
<1> HIDE DEF q
<1>3. Drafted(r, q, {})
  <2>1. Drafted(b, q, {})
    BY <1>1, <1>2, SameTable DEF Absent
  <2> QED BY <1>1, <2>1, DraftedTwice
<1>4. q.watermark # r.watermark
  BY <1>1, <1>2, RecordNumbers
<1>5. Switched(q)
  BY <1>1, <1>2 DEF Sound, Switched, GenerationRoom, Drafted
<1>6. Alike(r, q)
  <2>1. ASSUME NEW p \in Paths
        PROVE  /\ q.members[p].id = r.members[p].id
               /\ Live(q.members[p]) <=> Live(r.members[p])
    BY <1>1, <1>2, RecordTypes, BumpMembersFacts, BumpMembersDescend DEF Live
  <2> QED BY <1>1, <1>2, <2>1 DEF Alike
<1>7. Evolves(r, q, {})
  BY <1>3, <1>4, <1>5, <1>6, StoreEvolves
<1> QED BY <1>1, <1>2, <1>7 DEF Kin, Drafted, q, b

\* The count of pending revalidations of a member is no part of its version.
LEMMA PendingEvolves ==
    ASSUME NEW r \in SetRecords, Sound(r), ~Absent(r), NEW p \in Paths, NEW k \in Nat
    PROVE  LET q == [r EXCEPT !.members[p].pending = k]
           IN  Evolves(r, q, {}) /\ Inherits(r, q) /\ Kin(r, q) /\ Wanes(r, q)
<1> DEFINE n == [r.members[p] EXCEPT !.pending = k]
           ms == [r.members EXCEPT ![p] = n]
           q == [r EXCEPT !.members = ms]
<1>1. q = [r EXCEPT !.members[p].pending = k]
  OBVIOUS
<1>2. r.members \in [Paths -> Members] /\ r.members[p] \in Members
  BY RecordTypes
<1>3. /\ n \in Members /\ n.id = r.members[p].id /\ n.bound = r.members[p].bound
      /\ n.lifecycle = r.members[p].lifecycle /\ n.currentness = r.members[p].currentness
      /\ n.watermark = r.members[p].watermark /\ n.generation = r.members[p].generation
      /\ n.admin_enabled = r.members[p].admin_enabled
  BY <1>2 DEF Members
<1> HIDE DEF n
<1>4. ms \in [Paths -> Members] /\ \A x \in Paths : ms[x] = IF x = p THEN n ELSE r.members[x]
  BY <1>2, <1>3
<1> HIDE DEF ms
<1>5. ASSUME NEW x \in Paths
      PROVE  /\ ms[x].id = r.members[x].id /\ ms[x].bound = r.members[x].bound
             /\ ms[x].lifecycle = r.members[x].lifecycle
             /\ ms[x].currentness = r.members[x].currentness
             /\ ms[x].watermark = r.members[x].watermark
             /\ ms[x].generation = r.members[x].generation
             /\ ms[x].admin_enabled = r.members[x].admin_enabled
  BY <1>3, <1>4
<1>6. ASSUME NEW x \in Paths PROVE Descends(r.members[x], ms[x], TRUE)
  BY <1>5, RecordTypes DEF Descends, Pins, Present
<1>7. \A x \in Paths : Decided(r.members[x]) => Decided(ms[x])
  BY <1>5 DEF Decided
<1>8. Drafted(r, q, {}) /\ Inherits(r, q)
  BY <1>4, <1>6, <1>7, EditedTable
<1>9. /\ q.members = ms /\ q.worker = r.worker /\ q.lifecycle = r.lifecycle
      /\ q.membership_generation = r.membership_generation /\ q.generation = r.generation
      /\ q.minimum = r.minimum /\ q.conditional = r.conditional
      /\ q.admin_enabled = r.admin_enabled /\ q.currentness = r.currentness
  BY <1>4 DEF SetRecords
<1> HIDE DEF q
<1>10. Switched(q) /\ Alike(r, q) /\ Kin(r, q) /\ Wanes(r, q)
  BY <1>5, <1>9 DEF Sound, Switched, GenerationRoom, Alike, Kin, Wanes, Live, Usable
<1>11. Evolves(r, q, {})
  BY <1>8, <1>9, <1>10, StoreEvolves
<1> QED BY <1>1, <1>8, <1>10, <1>11

\* The successor of a supersession is told its predecessor.
LEMMA PredecessorEvolves ==
    ASSUME NEW r \in SetRecords, Sound(r), ~Absent(r), NEW x \in SetIds
    PROVE  LET q == [r EXCEPT !.supersedes = x]
           IN  Evolves(r, q, {}) /\ Inherits(r, q) /\ Kin(r, q)
<1> DEFINE q == [r EXCEPT !.supersedes = x]
<1>1. /\ q \in SetRecords /\ q.members = r.members /\ q.watermark = r.watermark
      /\ q.generation = r.generation /\ q.membership_generation = r.membership_generation
      /\ q.worker = r.worker /\ q.lifecycle = r.lifecycle /\ q.minimum = r.minimum
      /\ q.conditional = r.conditional /\ q.admin_enabled = r.admin_enabled
      /\ q.currentness = r.currentness /\ q.governing_epoch = r.governing_epoch
  BY DEF SetRecords
<1> HIDE DEF q
<1>2. Drafted(r, q, {})
  BY <1>1, SameTable DEF Absent
<1>3. Switched(q) /\ Alike(r, q) /\ Kin(r, q) /\ Inherits(r, q)
  BY <1>1 DEF Sound, Switched, GenerationRoom, Alike, Kin, Inherits
<1>4. Evolves(r, q, {})
  BY <1>1, <1>2, <1>3, StoreEvolves
<1> QED BY <1>3, <1>4 DEF q

\* A set as create_set() makes it.
Created(n, admin, conditional, e, w) ==
    [NoRecord EXCEPT !.lifecycle = "DECLARED", !.currentness = "CURRENT",
                     !.admin_enabled = admin, !.minimum = n, !.conditional = conditional,
                     !.generation = 1, !.membership_generation = 1,
                     !.governing_epoch = e, !.worker = w]

\* A created set comes after no set.
LEMMA CreatedEvolves ==
    ASSUME NEW n \in Nat, NEW admin \in BOOLEAN, NEW conditional \in BOOLEAN, NEW e \in Nat,
           NEW w \in Workers
    PROVE  LET q == Created(n, admin, conditional, e, w)
           IN  /\ Evolves(NoRecord, q, {})
               /\ q.worker = w /\ q.governing_epoch = e /\ q.lifecycle = "DECLARED"
<1> DEFINE q == Created(n, admin, conditional, e, w)
<1>1. 1 \in Generations /\ "DECLARED" \in SetLifecycles /\ NoRecord \in SetRecords
  BY CounterAssumption, NoRecordRight DEF Generations, SetLifecycles, Right
<1>2. /\ q \in SetRecords /\ q.members = NoRecord.members /\ q.watermark = NoRecord.watermark
      /\ q.generation = 1 /\ q.worker = w /\ q.governing_epoch = e /\ q.lifecycle = "DECLARED"
  BY <1>1, ZenonT(30) DEF SetRecords, Created
<1> HIDE DEF q
<1>3. /\ NoRecord.generation = 0 /\ NoRecord.watermark = 0
      /\ \A p \in Paths : NoRecord.members[p] = NoMember
  BY DEF NoRecord
<1>4. Decided(NoMember) /\ \A still : Descends(NoMember, NoMember, still)
  BY NoMemberFacts, DescendsSame DEF Decided, NoMember
<1>5. MembersDescend(NoRecord, q, {})
  BY <1>2, <1>3, <1>4 DEF MembersDescend
<1>6. Sound(q)
  BY <1>2, <1>3, <1>4 DEF Sound, Settled, Switched, Absent
<1> QED BY <1>2, <1>3, <1>5, <1>6 DEF Evolves, q

-----------------------------------------------------------------------------
\* Slots that a later step fills anew need not descend from an earlier one.
LEMMA DraftedWiden ==
    ASSUME NEW a, NEW b, NEW F, Drafted(a, b, {}) PROVE Drafted(a, b, F)
BY DEF Drafted, MembersDescend

\* Drafts chain, the second one with new relations.
LEMMA DraftedThen ==
    ASSUME NEW a \in SetRecords, NEW b, NEW c, NEW F, Drafted(a, b, {}), Drafted(b, c, F)
    PROVE  Drafted(a, c, F)
<1>1. b \in SetRecords /\ c \in SetRecords
  BY DEF Drafted
<1>2. a.watermark \in Nat /\ b.watermark \in Nat /\ c.watermark \in Nat
  BY <1>1, RecordTypes
<1>3. a.watermark <= b.watermark /\ b.watermark <= c.watermark
  BY DEF Drafted
<1>4. c.watermark = a.watermark => b.watermark = a.watermark /\ c.watermark = b.watermark
  BY <1>2, <1>3
<1>5. ASSUME NEW p \in Paths \ F
      PROVE  \/ Vacant(c.members[p])
             \/ Descends(a.members[p], c.members[p], c.watermark = a.watermark)
  <2> DEFINE x == a.members[p]
             y == b.members[p]
             z == c.members[p]
             i == b.watermark = a.watermark
             j == c.watermark = b.watermark
  <2>1. x \in Members /\ y \in Members /\ z \in Members
    BY <1>1, RecordTypes
  <2>2. Vacant(y) \/ Descends(x, y, i)
    BY DEF Drafted, MembersDescend
  <2>3. Vacant(z) \/ Descends(y, z, j)
    BY DEF Drafted, MembersDescend
  <2>4. CASE Vacant(y)
    BY <2>3, <2>4 DEF Vacant, Descends
  <2>5. CASE Descends(x, y, i) /\ Descends(y, z, j)
    <3>0. i \in BOOLEAN /\ j \in BOOLEAN
      OBVIOUS
    <3> HIDE DEF i, j, x, y, z
    <3>1. Descends(x, z, i /\ j)
      BY <2>1, <2>5, <3>0, DescendsTwice
    <3> QED BY <3>1, <1>4 DEF Descends, i, j, x, z
  <2> QED BY <2>2, <2>3, <2>4, <2>5
<1>6. MembersDescend(a, c, F)
  BY <1>5 DEF MembersDescend
<1> QED
  BY <1>1, <1>2, <1>3, <1>6 DEF Drafted

\* q is ready to be committed over a.
Prepared(a, q, F) ==
    /\ Drafted(a, q, F)
    /\ q.lifecycle = "ADMIN_DISABLED" => ~q.admin_enabled

\* The steps of a handler, in the order it takes them.
LEMMA TransitionPrepares ==
    ASSUME NEW a \in SetRecords, Sound(a), GenerationRoom(a), NEW e, e # "ADMIN_DISABLED"
    PROVE  LET q == ApplyTransition(a, e)
           IN  /\ q \in SetRecords /\ Frame(a, q)
               /\ Prepared(a, q, {}) /\ Inherits(a, q)
BY ApplyTransitionFacts, TransitionDrafted DEF Sound, Switched, Prepared

\* A recomputation of a prepared record leaves it prepared.
LEMMA RecomputePrepares ==
    ASSUME NEW a \in SetRecords, NEW r, NEW F, Drafted(a, r, F), Inherits(a, r)
    PROVE  /\ Prepared(a, Recompute(r), F) /\ Inherits(a, Recompute(r))
           /\ Frame(r, Recompute(r))
           /\ Recompute(r).lifecycle \in TerminalSet => r.lifecycle \in TerminalSet
<1> DEFINE q == Recompute(r)
<1>1. r \in SetRecords
  BY DEF Drafted
<1>2. /\ Frame(r, q) /\ Drafted(r, q, {}) /\ Inherits(r, q)
      /\ q.lifecycle = "ADMIN_DISABLED" => ~q.admin_enabled
      /\ q.lifecycle \in TerminalSet => r.lifecycle \in TerminalSet
  BY <1>1, RecomputeFacts, RecomputeDrafted
<1> HIDE DEF q
<1>3. Drafted(a, q, F) /\ Inherits(a, q)
  BY <1>2, DraftedTwice, InheritsTwice
<1> QED BY <1>2, <1>3 DEF Prepared, q

\* So does the evaluation of every member.
LEMMA ReevaluatedPrepares ==
    ASSUME NEW a \in SetRecords, NEW r, Drafted(a, r, {}), Inherits(a, r)
    PROVE  Prepared(a, Reevaluated(r), {}) /\ Inherits(a, Reevaluated(r))
<1> DEFINE q == Reevaluated(r)
<1>1. r \in SetRecords
  BY DEF Drafted
<1>2. /\ Drafted(r, q, {}) /\ Inherits(r, q)
      /\ q.lifecycle = "ADMIN_DISABLED" => ~q.admin_enabled
  BY <1>1, ReevaluatedDrafted
<1> HIDE DEF q
<1>3. Drafted(a, q, {}) /\ Inherits(a, q)
  BY <1>2, DraftedTwice, InheritsTwice
<1> QED BY <1>2, <1>3 DEF Prepared, q

\* So do the consequences of a transition.
LEMMA ConsequencesPrepare ==
    ASSUME NEW a \in SetRecords, NEW r, Prepared(a, r, {}), Inherits(a, r), NEW from
    PROVE  Prepared(a, Consequences(r, from), {}) /\ Inherits(a, Consequences(r, from))
<1> DEFINE q == Consequences(r, from)
<1>1. r \in SetRecords
  BY DEF Prepared, Drafted
<1>2. /\ Drafted(r, q, {}) /\ Inherits(r, q)
      /\ q.lifecycle = r.lifecycle /\ q.admin_enabled = r.admin_enabled
  BY <1>1, ConsequencesDrafted
<1> HIDE DEF q
<1>3. Drafted(a, q, {}) /\ Inherits(a, q)
  BY <1>2, DraftedTwice, InheritsTwice DEF Prepared
<1> QED BY <1>2, <1>3 DEF Prepared, q

\* The pattern of the membership handlers: a set transition, a new membership
\* table, recompute_locked().
LEMMA MembershipPrepares ==
    ASSUME NEW a \in SetRecords, NEW r, Drafted(a, r, {}), Inherits(a, r),
           NEW ms \in [Paths -> Members], NEW F,
           \A p \in Paths : Decided(r.members[p]) => Decided(ms[p]),
           \A p \in Paths \ F : Vacant(ms[p]) \/ Descends(r.members[p], ms[p], TRUE)
    PROVE  LET q == Recompute([r EXCEPT !.members = ms])
           IN  /\ Prepared(a, q, F) /\ Inherits(a, q) /\ q.members = ms
               /\ q.minimum = r.minimum /\ q.conditional = r.conditional
               /\ q.admin_enabled = r.admin_enabled
               /\ q.lifecycle \in TerminalSet => r.lifecycle \in TerminalSet
<1> DEFINE x == [r EXCEPT !.members = ms]
           q == Recompute(x)
<1>1. r \in SetRecords
  BY DEF Drafted
<1>2. /\ x.members = ms /\ x.lifecycle = r.lifecycle /\ x.minimum = r.minimum
      /\ x.conditional = r.conditional /\ x.admin_enabled = r.admin_enabled
      /\ Drafted(r, x, F) /\ Inherits(r, x)
  BY <1>1, WithMembers, EditedTable
<1> HIDE DEF x
<1>3. Drafted(a, x, F) /\ Inherits(a, x)
  BY <1>2, DraftedThen, InheritsTwice
<1>4. /\ Prepared(a, q, F) /\ Inherits(a, q) /\ Frame(x, q)
      /\ q.lifecycle \in TerminalSet => x.lifecycle \in TerminalSet
  BY <1>3, RecomputePrepares
<1> HIDE DEF q
<1> QED BY <1>2, <1>4 DEF Frame, q, x

\* The same for one member of a record.
LEMMA MemberPrepares ==
    ASSUME NEW a \in SetRecords, NEW r, Drafted(a, r, {}), Inherits(a, r),
           NEW p \in Paths, NEW n \in Members, Decided(n),
           Vacant(n) \/ Descends(r.members[p], n, TRUE)
    PROVE  LET q == Recompute([r EXCEPT !.members[p] = n])
           IN  /\ Prepared(a, q, {}) /\ Inherits(a, q)
               /\ q.members = [r.members EXCEPT ![p] = n]
               /\ q.minimum = r.minimum /\ q.conditional = r.conditional
               /\ q.admin_enabled = r.admin_enabled
<1> DEFINE ms == [r.members EXCEPT ![p] = n]
<1>1. r \in SetRecords
  BY DEF Drafted
<1>2. r.members \in [Paths -> Members]
  BY <1>1, RecordTypes
<1>3. ms \in [Paths -> Members] /\ \A x \in Paths : ms[x] = IF x = p THEN n ELSE r.members[x]
  BY <1>2
<1>4. [r EXCEPT !.members[p] = n] = [r EXCEPT !.members = ms]
  OBVIOUS
<1> HIDE DEF ms
<1>5. \A x \in Paths : Decided(r.members[x]) => Decided(ms[x])
  BY <1>3
<1>6. \A x \in Paths \ {} : Vacant(ms[x]) \/ Descends(r.members[x], ms[x], TRUE)
  BY <1>2, <1>3, DescendsSame
<1> DEFINE q == Recompute([r EXCEPT !.members = ms])
<1>7. /\ Prepared(a, q, {}) /\ Inherits(a, q) /\ q.members = ms
      /\ q.minimum = r.minimum /\ q.conditional = r.conditional
      /\ q.admin_enabled = r.admin_enabled
  BY <1>3, <1>5, <1>6, MembershipPrepares, ZenonT(30)
<1>8. Recompute([r EXCEPT !.members[p] = n]) = q
  BY <1>4
<1> HIDE DEF q
<1> QED
  BY <1>7, <1>8 DEF ms
-----------------------------------------------------------------------------
(***************************************************************************)
(* What a record goes on counting.  Staleness is about a usable member,    *)
(* its binding and the policy of its set: a step that adds no usable       *)
(* member and moves neither of the two makes nothing stale.                *)
(***************************************************************************)

\* Record b counts no member that a did not, and for what it counts nothing has
\* moved that staleness depends on but the directory.
Abides(a, b) ==
    \A p \in Paths : Usable(b.members[p]) =>
        /\ Usable(a.members[p])
        /\ b.members[p].bound = a.members[p].bound
        /\ b.conditional = a.conditional

\* r is what a handler has made of a so far.
Tames(a, r) == r \in SetRecords /\ Abides(a, r)

LEMMA AbidesTwice ==
    ASSUME NEW a, NEW b, NEW c, Abides(a, b), Abides(b, c)
    PROVE  Abides(a, c)
BY DEF Abides

LEMMA AbidesFrame ==
    ASSUME NEW a, NEW b, Frame(a, b)
    PROVE  Abides(a, b)
BY DEF Abides, Frame

LEMMA AbidesSame == ASSUME NEW a PROVE Abides(a, a)
BY DEF Abides

LEMMA BumpAllAbides ==
    ASSUME NEW r \in SetRecords
    PROVE  Abides(r, BumpAll(r)) /\ BumpAll(r) \in SetRecords
<1>1. BumpAll(r).members = BumpMembers(r.members) /\ BumpAll(r).conditional = r.conditional
  BY BumpAllFacts
<1>2. ASSUME NEW p \in Paths
      PROVE  LET m == r.members[p]
                 n == BumpMembers(r.members)[p]
             IN  Usable(n) => Usable(m) /\ n.bound = m.bound
  <2>1. r.members[p] \in Members
    BY DEF SetRecords
  <2> QED BY <2>1 DEF BumpMembers, Members, Usable
<1> QED BY <1>1, <1>2, BumpAllFacts DEF Abides

LEMMA ConsequencesAbide ==
    ASSUME NEW r \in SetRecords, NEW from
    PROVE  Abides(r, Consequences(r, from)) /\ Consequences(r, from) \in SetRecords
<1> DEFINE q == Consequences(r, from)
           departed == [p \in Paths |-> IF Present(r.members[p]) THEN Departed(r.members[p], r.lifecycle)
                                                                 ELSE r.members[p]]
           x == [r EXCEPT !.members = departed]
           n == UsableCount(departed)
<1>1. q \in SetRecords
  BY ConsequencesFacts
<1>2. q = r \/ q = [BumpAll(x) EXCEPT !.usable = n]
  BY DEF Consequences
<1>3. \A p \in Paths : r.members[p] \in Members
  BY DEF SetRecords
<1>4. departed \in [Paths -> Members]
  BY <1>3, DepartedFacts
<1>5. /\ x \in SetRecords /\ x.members = departed /\ x.conditional = r.conditional
  BY <1>4 DEF SetRecords
<1>6. Abides(r, x)
  BY <1>3, <1>5, DepartedFacts DEF Abides
<1> HIDE DEF x, departed, n, q
<1>7. Abides(x, BumpAll(x)) /\ BumpAll(x) \in SetRecords
  BY <1>5, BumpAllAbides
<1>8. Abides(BumpAll(x), [BumpAll(x) EXCEPT !.usable = n])
  BY <1>7 DEF Abides, SetRecords
<1>9. Abides(r, q)
  BY <1>2, <1>6, <1>7, <1>8, AbidesTwice, AbidesSame
<1> QED BY <1>1, <1>9 DEF q

LEMMA CommitAbides ==
    ASSUME NEW r \in SetRecords, NEW w, NEW b
    PROVE  Abides(r, Commit(r, w, b))
<1>1. /\ Commit(r, w, b).conditional = r.conditional
      /\ Commit(r, w, b).members = Without(r.members, Pruned(r.members))
  BY DEF Commit, SetRecords
<1>2. ~Usable(NoMember)
  BY DEF Usable, NoMember
<1> QED BY <1>1, <1>2 DEF Abides, Without

LEMMA TamesSame == ASSUME NEW r \in SetRecords PROVE Tames(r, r)
BY DEF Tames, Abides

\* The steps on a record, in the order a handler takes them.
LEMMA StepsTame ==
    ASSUME NEW a, NEW r, Tames(a, r), NEW e
    PROVE  /\ Tames(a, Recompute(r)) /\ Tames(a, ApplyTransition(r, e))
           /\ Tames(a, Consequences(r, e))
<1>1. Abides(r, Recompute(r)) /\ Recompute(r) \in SetRecords
  BY RecomputeFacts, AbidesFrame DEF Tames
<1>2. Abides(r, ApplyTransition(r, e)) /\ ApplyTransition(r, e) \in SetRecords
  BY ApplyTransitionFacts, AbidesFrame DEF Tames
<1> QED BY <1>1, <1>2, ConsequencesAbide, AbidesTwice DEF Tames

\* Edits that leave policy and members alone.
LEMMA EditTames ==
    ASSUME NEW a, NEW r, Tames(a, r), NEW n \in Nat, NEW b \in BOOLEAN, NEW x \in SetIds
    PROVE  /\ Tames(a, [r EXCEPT !.minimum = n])
           /\ Tames(a, [r EXCEPT !.admin_enabled = b])
           /\ Tames(a, [r EXCEPT !.superseded_by = x])
           /\ Tames(a, [r EXCEPT !.supersedes = x])
<1>1. r \in SetRecords /\ Abides(a, r)
  BY DEF Tames
<1>2. Tames(a, [r EXCEPT !.minimum = n]) /\ Tames(a, [r EXCEPT !.admin_enabled = b])
  BY <1>1 DEF Tames, Abides, SetRecords
<1>3. Tames(a, [r EXCEPT !.superseded_by = x]) /\ Tames(a, [r EXCEPT !.supersedes = x])
  BY <1>1 DEF Tames, Abides, SetRecords
<1> QED BY <1>2, <1>3

\* One member is closed, removed or waits.
LEMMA MemberTames ==
    ASSUME NEW a, NEW r, Tames(a, r), NEW p \in Paths, NEW n \in Members,
           Usable(n) => Usable(r.members[p]) /\ n.bound = r.members[p].bound
    PROVE  Tames(a, [r EXCEPT !.members[p] = n])
<1> DEFINE q == [r EXCEPT !.members[p] = n]
<1>1. r \in SetRecords /\ r.members \in [Paths -> Members] /\ Abides(a, r)
  BY DEF Tames, SetRecords
<1>2. q \in SetRecords /\ q.members = [r.members EXCEPT ![p] = n] /\ q.conditional = r.conditional
  BY <1>1 DEF SetRecords
<1> HIDE DEF q
<1>3. Abides(r, q)
  BY <1>1, <1>2 DEF Abides
<1> QED BY <1>1, <1>2, <1>3, AbidesTwice DEF Tames, q

LEMMA CommitTames ==
    ASSUME NEW a, NEW r, Tames(a, r), NEW w, NEW b
    PROVE  Abides(a, Commit(r, w, b))
BY CommitAbides, AbidesTwice DEF Tames

LEMMA ApplyViewConditional ==
    ASSUME NEW r \in SetRecords, NEW p \in Paths, NEW view \in Views
    PROVE  ApplyView(r, p, view).conditional = r.conditional
<1> DEFINE n == EvaluateMember(r.members[p], view, r.conditional, FALSE)
           ms == [r.members EXCEPT ![p] = n]
           e == [r EXCEPT !.members = ms]
           c == Recompute(e)
<1>1. r.members[p] \in Members /\ r.members \in [Paths -> Members] /\ r.conditional \in BOOLEAN
  BY DEF SetRecords
<1>2. n \in Members
  BY <1>1, EvaluateMemberFacts
<1>3. e \in SetRecords /\ e.conditional = r.conditional
  BY <1>1, <1>2 DEF SetRecords
<1>4. e = [r EXCEPT !.members[p] = n]
  BY <1>1 DEF SetRecords
<1> HIDE DEF e, n
<1>5. c \in SetRecords /\ c.conditional = r.conditional
  BY <1>3, RecomputeFacts DEF Frame
<1>6. \/ ApplyView(r, p, view) \in {r, e}
      \/ \E g, k : ApplyView(r, p, view) = [c EXCEPT !.watermark = g, !.generation = k]
  BY <1>4 DEF ApplyView, n
<1> HIDE DEF c
<1> QED BY <1>3, <1>5, <1>6 DEF SetRecords

\* The view a step brings is the one that what it leaves counted is counted on.
LEMMA ApplyViewFresh ==
    ASSUME NEW r \in SetRecords, Absent(r) => r = NoRecord,
           NEW p \in Paths, NEW view \in Views
    PROVE  LET q == ApplyView(r, p, view)
           IN  q.lifecycle \notin TerminalSet /\ Usable(q.members[p]) =>
                   Classify(view, q.members[p].bound, q.conditional) = "CURRENT"
<1> DEFINE m == r.members[p]
           n == EvaluateMember(m, view, r.conditional, FALSE)
           ms == [r.members EXCEPT ![p] = n]
           e == [r EXCEPT !.members = ms]
           c == Recompute(e)
           q == ApplyView(r, p, view)
<1>1. m \in Members /\ r.members \in [Paths -> Members] /\ r.conditional \in BOOLEAN
  BY DEF SetRecords
<1>2. n \in Members
  BY <1>1, EvaluateMemberFacts
<1>3. e \in SetRecords /\ e.members = ms /\ ms[p] = n
  BY <1>1, <1>2 DEF SetRecords
<1>4. e = [r EXCEPT !.members[p] = n]
  BY <1>1 DEF SetRecords
<1>5. Usable(n) => Classify(view, n.bound, r.conditional) = "CURRENT"
  <2>1. Archived(m) => ~Usable(n)
    BY <1>1 DEF EvaluateMember, Archived, Usable, Members, TerminalMember
  <2>2. ~Archived(m) => n.currentness = Observed(m, view, r.conditional)
    BY <1>1 DEF EvaluateMember, Members
  <2>3. n.bound = m.bound
    BY <1>1, EvaluateMemberFacts
  <2> QED BY <1>1, <2>1, <2>2, <2>3, ObservedType DEF Usable
<1>6. CASE r.lifecycle \in TerminalSet \cup {"NONE"} \/ ~Present(m)
  <2>1. q = r
    BY <1>6 DEF ApplyView
  <2>2. ~Present(m) => ~Usable(m)
    BY DEF Present, Usable
  <2>3. r.lifecycle = "NONE" => ~Usable(m)
    BY DEF Absent, NoRecord, NoMember, Usable
  <2> QED BY <1>6, <2>1, <2>2, <2>3
<1>7. CASE ~(r.lifecycle \in TerminalSet \cup {"NONE"} \/ ~Present(m))
  <2> HIDE DEF e, n, ms
  <2>1. c \in SetRecords /\ c.members = ms
    BY <1>3, RecomputeFacts DEF Frame
  <2>2. q = e \/ \E g, k : q = [c EXCEPT !.watermark = g, !.generation = k]
    BY <1>4, <1>7 DEF ApplyView, n
  <2> HIDE DEF c, q
  <2>3. q.members = ms
    BY <1>3, <2>1, <2>2 DEF SetRecords
  <2>4. q.conditional = r.conditional
    BY ApplyViewConditional DEF q
  <2> QED BY <1>3, <1>5, <2>3, <2>4 DEF q
<1> QED BY <1>6, <1>7

LEMMA ApplyViewAbides ==
    ASSUME NEW r, Right(r), Sound(r), NEW p \in Paths, NEW view \in Views
    PROVE  Abides(r, ApplyView(r, p, view))
<1>1. r \in SetRecords
  BY DEF Right
<1> QED BY <1>1, ApplyViewEvolves, ApplyViewConditional DEF Abides, Wanes

LEMMA NewMemberBinds ==
    ASSUME NEW id \in Nat, NEW bound \in Nat, NEW view \in Views, NEW conditional \in BOOLEAN
    PROVE  NewMember(id, bound, view, conditional).bound = bound
<1> DEFINE m == [NoMember EXCEPT !.id = id, !.bound = bound, !.generation = 1,
                                 !.lifecycle = "PENDING", !.admin_enabled = TRUE]
<1>1. 1 \in Generations /\ "PENDING" \in MemberLifecycles
  BY CounterAssumption DEF Generations, MemberLifecycles, LiveMember
<1>2. m \in Members
  BY <1>1, NoMemberFacts DEF Members
<1>3. m.bound = bound
  BY NoMemberFacts DEF Members
<1>4. NewMember(id, bound, view, conditional) = EvaluateMember(m, view, conditional, FALSE)
  BY DEF NewMember
<1> HIDE DEF m
<1> DEFINE n == EvaluateMember(m, view, conditional, FALSE)
<1>5. n.bound = m.bound
  BY <1>2, EvaluateMemberFacts
<1> HIDE DEF n
<1> QED BY <1>3, <1>4, <1>5 DEF n
=============================================================================
