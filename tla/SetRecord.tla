----------------------------- MODULE SetRecord -----------------------------
(***************************************************************************)
(* The durable record of one multipath set and the engine helpers that     *)
(* compute a new record from an old one (detail/records.hpp,               *)
(* fabric_engine.cpp, fabric_commit.cpp).  Every operator is pure: the     *)
(* engine of FabricEngine.tla applies them under its lock.                 *)
(*                                                                         *)
(* A record holds one member slot per path, because the code keys the      *)
(* membership table by PathId; an empty slot is NoMember.  Member lineage, *)
(* history, snapshots, digests and reasons are left out: no guard of the   *)
(* engine reads them.                                                      *)
(***************************************************************************)
EXTENDS Lifecycle, Integers, FiniteSets

CONSTANTS
    SetIds,              \* set identities; a key names one set forever
    Paths,               \* PathIds, numbered in the order of PathId::operator<
    Publishers,          \* publisher identities
    Boots,               \* worker boot identities
    MaxGeneration,       \* the value at which a generation counter is exhausted
    MaxArchivedMembers   \* limits.max_archived_members_per_set

ASSUME PathsAssumption == Paths \subseteq Nat /\ IsFiniteSet(Paths)
ASSUME CounterAssumption == MaxGeneration \in Nat \ {0} /\ MaxArchivedMembers \in Nat

\* A worker is a publisher at one boot; authority is granted to the pair.
Workers == Publishers \X Boots

NoSet    == "no_set"
NoWorker == <<"no_publisher", "no_boot">>

Generations == 0 .. MaxGeneration

Members ==
    [id : Nat, bound : Nat, generation : Generations,
     lifecycle : MemberLifecycles \cup {"NONE"}, currentness : MemberCurrentnesses,
     admin_enabled : BOOLEAN, watermark : Nat, pending : Nat, observed : Views]

SetRecords ==
    [lifecycle : SetLifecycles \cup {"NONE"},
     currentness : {"CURRENT", "REVALIDATION_REQUIRED"},
     admin_enabled : BOOLEAN, minimum : Nat, conditional : BOOLEAN,
     generation : Generations, membership_generation : Generations,
     watermark : Nat, usable : Nat, governing_epoch : Nat,
     worker : Workers \cup {NoWorker},
     superseded_by : SetIds \cup {NoSet}, supersedes : SetIds \cup {NoSet},
     members : [Paths -> Members]]

NoMember ==
    [id |-> 0, bound |-> 0, generation |-> 0, lifecycle |-> "NONE",
     currentness |-> "PENDING_EVALUATION", admin_enabled |-> FALSE,
     watermark |-> 0, pending |-> 0, observed |-> NoView]

\* The slot of a set key that create_set() has not seen yet.
NoRecord ==
    [lifecycle |-> "NONE", currentness |-> "REVALIDATION_REQUIRED",
     admin_enabled |-> FALSE, minimum |-> 0, conditional |-> FALSE,
     generation |-> 0, membership_generation |-> 0, watermark |-> 0, usable |-> 0,
     governing_epoch |-> 0, worker |-> NoWorker,
     superseded_by |-> NoSet, supersedes |-> NoSet,
     members |-> [p \in Paths |-> NoMember]]
-----------------------------------------------------------------------------
\* Queries on members and records.

Present(m)          == m.lifecycle # "NONE"
Live(m)             == m.lifecycle \in LiveMember
Archived(m)         == m.lifecycle \in TerminalMember
Usable(m)           == m.lifecycle = "CURRENT" /\ m.currentness = "CURRENT"

PresentPaths(ms)    == {p \in Paths : Present(ms[p])}
LivePaths(ms)       == {p \in Paths : Live(ms[p])}
ArchivedPaths(ms)   == {p \in Paths : Archived(ms[p])}
UsablePaths(ms)     == {p \in Paths : Usable(ms[p])}

\* SetRecord::recompute_usable_members().
UsableCount(ms)     == Cardinality(UsablePaths(ms))

\* member_index: the slot that currently holds member id.
Slot(ms, id)        == CHOOSE p \in Paths : Present(ms[p]) /\ ms[p].id = id
Holds(ms, id)       == \E p \in Paths : Present(ms[p]) /\ ms[p].id = id

\* set_is_consumable(): may the usable members of this set be counted at all?
SetIsConsumable(r) ==
    /\ r.lifecycle # "DECLARED" /\ r.admin_enabled
    /\ r.currentness = "CURRENT"
    /\ r.lifecycle \in {"ACTIVE", "DEGRADED"}

\* Mutant: off by one.
GenerationRoomForOneMore(r) == r.generation <= MaxGeneration

GenerationRoom(r)   == r.generation < MaxGeneration
MembershipRoom(r)   == r.membership_generation < MaxGeneration
-----------------------------------------------------------------------------
\* Watermarks.

BumpMembers(ms) ==
    [p \in Paths |-> IF Present(ms[p]) THEN [ms[p] EXCEPT !.watermark = @ + 1] ELSE ms[p]]

\* bump_set_watermark_locked(): the set and every one of its members.
BumpAll(r) == [r EXCEPT !.watermark = @ + 1, !.members = BumpMembers(@)]
-----------------------------------------------------------------------------
\* Evaluation of a member against a Path Authority view.

\* What the inputs of m say: the administrative switch, then the view.
Observed(m, view, conditional) ==
    IF m.admin_enabled THEN Classify(view, m.bound, conditional) ELSE "ADMIN_DISABLED"

\* The lifecycle member_transition() leads to; no entry leaves it alone.
After(lifecycle, event) ==
    LET next == MemberTransition(lifecycle, event)
    IN  IF next = "NONE" THEN lifecycle ELSE next

OneIf(b) == IF b THEN 1 ELSE 0

\* Mutant: the member changes and its watermark does not.
EvaluateMemberUnmarked(m, view, conditional, explicit) ==
    LET observed == Observed(m, view, conditional)
    IN  IF Archived(m)
        THEN [m EXCEPT !.currentness = observed]
        ELSE [m EXCEPT !.observed = view, !.currentness = observed,
                       !.lifecycle = After(@, InputEvent(observed, explicit))]

\* evaluate_member_locked(): a terminal relation only has its currentness
\* refreshed; a live one records the view, reclassifies, takes the lifecycle
\* event, and bumps its watermark once per axis that moved.
EvaluateMember(m, view, conditional, explicit) ==
    LET observed == Observed(m, view, conditional)
        to       == After(m.lifecycle, InputEvent(observed, explicit))
    IN  IF Archived(m)
        THEN [m EXCEPT !.currentness = observed]
        ELSE [m EXCEPT !.observed = view,
                       !.currentness = observed,
                       !.lifecycle = to,
                       !.watermark = @ + OneIf(m.currentness # observed)
                                       + OneIf(m.lifecycle # to)]

\* A relation as add_members_internal() and replace_member() build it.
NewMember(id, bound, view, conditional) ==
    EvaluateMember([NoMember EXCEPT !.id = id, !.bound = bound, !.generation = 1,
                                    !.lifecycle = "PENDING", !.admin_enabled = TRUE],
                   view, conditional, FALSE)

\* Explicit revalidation of one member: rebind to the generation the view
\* reports, if there is a view, then evaluate.
Revalidated(m, view, conditional) ==
    EvaluateMember(IF view = NoView THEN m ELSE [m EXCEPT !.bound = view.gen],
                   view, conditional, TRUE)

\* The relation that withdraw_member() or replace_member() closes.
Closed(m, lifecycle) ==
    [m EXCEPT !.lifecycle = lifecycle, !.currentness = "SET_NOT_USABLE",
              !.generation = @ + 1, !.watermark = @ + 1]

\* The test of revalidate_member() and complete_member_revalidation().
Moved(m, n) ==
    m.lifecycle # n.lifecycle \/ m.currentness # n.currentness \/ m.bound # n.bound

\* Their trailing bookkeeping when the test holds.
Versioned(m, n) ==
    IF Moved(m, n)
    THEN [n EXCEPT !.generation = @ + 1, !.watermark = @ + 1]
    ELSE n
-----------------------------------------------------------------------------
\* Derived state and set transitions.

\* Mutant: the threshold rule overwrites explicit lifecycles too.
RecomputeOverwrites(r) ==
    LET usable == UsableCount(r.members)
    IN  [r EXCEPT !.usable = usable,
                  !.lifecycle = DeriveLifecycle(usable, r.minimum, r.admin_enabled)]

\* recompute_locked(): explicit lifecycles are never overwritten.
Recompute(r) ==
    LET usable == UsableCount(r.members)
    IN  [r EXCEPT !.usable = usable,
                  !.lifecycle =
                      IF @ \in Derived \cup {"ADMIN_DISABLED"}
                      THEN DeriveLifecycle(usable, r.minimum, r.admin_enabled)
                      ELSE @]

\* apply_transition_locked() for an event the table does not refuse.
ApplyTransition(r, e) ==
    LET act == SetTransition(r.lifecycle, e)
        Become(l) == [r EXCEPT !.lifecycle = l, !.currentness = "REVALIDATION_REQUIRED"]
    IN  CASE act = "RECOMPUTE"             -> Recompute(r)
          [] act = "BECOME_PUBLISHED"      ->
               [r EXCEPT !.usable = UsableCount(r.members),
                         !.lifecycle = DeriveLifecycle(UsableCount(r.members),
                                                       r.minimum, r.admin_enabled)]
          [] act = "BECOME_ADMIN_DISABLED" -> [r EXCEPT !.lifecycle = "ADMIN_DISABLED"]
          [] act = "BECOME_WITHDRAWING"    -> [r EXCEPT !.lifecycle = "WITHDRAWING"]
          [] act = "BECOME_WITHDRAWN"      -> Become("WITHDRAWN")
          [] act = "BECOME_SUPERSEDED"     -> Become("SUPERSEDED")
          [] act = "BECOME_REVOKED"        -> Become("REVOKED")
          [] act = "BECOME_RETIRED"        -> Become("RETIRED")
          [] OTHER                         -> r

\* The event that leaving authority for lifecycle l sends to every member.
DepartureEvent(l) ==
    CASE l \in {"WITHDRAWING", "WITHDRAWN"} -> "WITHDRAW"
      [] l = "SUPERSEDED"                   -> "SUPERSEDE"
      [] l = "RETIRED"                      -> "RETIRE"
      [] OTHER                              -> "NONE"

\* A member of a set that departs: its lifecycle event, or the currentness
\* SET_NOT_USABLE when the set is revoked.
Departed(m, l) ==
    LET n == IF l = "REVOKED" THEN [m EXCEPT !.currentness = "SET_NOT_USABLE"]
                              ELSE [m EXCEPT !.lifecycle = After(@, DepartureEvent(l))]
    IN  [n EXCEPT !.watermark = @ + OneIf(m.lifecycle # n.lifecycle \/
                                          m.currentness # n.currentness)]

\* Mutant: the members depart and the usable count stays.
ConsequencesUncounted(r, from) ==
    IF from \notin Derived \/ r.lifecycle \notin TerminalSet \cup {"WITHDRAWING"}
    THEN r
    ELSE BumpAll([r EXCEPT !.members =
                    [p \in Paths |-> IF Present(@[p]) THEN Departed(@[p], r.lifecycle) ELSE @[p]]])

\* apply_member_consequences_locked(): only a set that was authoritative
\* (ACTIVE, DEGRADED, EXHAUSTED) passes its departure on to its members.
Consequences(r, from) ==
    IF from \notin Derived \/ r.lifecycle \notin TerminalSet \cup {"WITHDRAWING"}
    THEN r
    ELSE LET departed == [p \in Paths |->
                             IF Present(r.members[p]) THEN Departed(r.members[p], r.lifecycle)
                                                      ELSE r.members[p]]
         IN  [BumpAll([r EXCEPT !.members = departed])
                EXCEPT !.usable = UsableCount(departed)]
-----------------------------------------------------------------------------
\* Commit and dependency invalidation.

\* prune_archive_locked(): terminal relations beyond the limit go, lowest
\* PathId first.
Pruned(ms) ==
    {p \in ArchivedPaths(ms) :
        Cardinality({q \in ArchivedPaths(ms) : q > p}) >= MaxArchivedMembers}

Without(ms, gone) == [p \in Paths |-> IF p \in gone THEN NoMember ELSE ms[p]]

\* Mutant: a membership change advances only the membership generation.
CommitMembershipApart(r, worker, membership) ==
    [r EXCEPT !.generation = @ + OneIf(~membership),
              !.membership_generation = @ + OneIf(membership),
              !.worker = worker,
              !.members = Without(@, Pruned(@))]

\* commit_locked(): advance the generation, and the membership generation of a
\* membership change, stamp the provenance, prune the archive.  Its overflow
\* branches are not modelled; the bound of TypeOK on the two generations says
\* that no caller ever reaches them.
Commit(r, worker, membership) ==
    [r EXCEPT !.generation = @ + 1,
              !.membership_generation = @ + OneIf(membership),
              !.worker = worker,
              !.members = Without(@, Pruned(@))]

\* apply_view_locked() on one dependent set: evaluate the member of path p, and
\* if it moved recompute the set, advance the generation when the published
\* lifecycle changed and the counter has room, bump the set watermark.
ApplyView(r, p, view) ==
    LET m == r.members[p]
        n == EvaluateMember(m, view, r.conditional, FALSE)
        e == [r EXCEPT !.members[p] = n]
        c == Recompute(e)
    IN  IF r.lifecycle \in TerminalSet \cup {"NONE"} \/ ~Present(m) THEN r
        ELSE IF m.lifecycle = n.lifecycle /\ m.currentness = n.currentness THEN e
        ELSE [c EXCEPT !.watermark = @ + 1,
                       !.generation = @ + OneIf(c.lifecycle # r.lifecycle /\ GenerationRoom(r))]

\* Mutant: the members keep the classification they have.
ReevaluatedLater(r) == Recompute(r)

\* reevaluate_members_from_observations_locked(): live members against the view
\* they were last evaluated with, as an explicit revalidation.
Reevaluated(r) ==
    LET Again(m) == IF Live(m) THEN EvaluateMember(m, m.observed, r.conditional, TRUE) ELSE m
    IN  Recompute([r EXCEPT !.members = [p \in Paths |-> Again(r.members[p])]])
-----------------------------------------------------------------------------
\* What makes a record right.

\* The usable count of a record is the number of its usable members, and a
\* derived lifecycle is the one the threshold rule gives for that count.
Accounted(r) ==
    /\ r.usable = UsableCount(r.members)
    /\ r.lifecycle \in Derived =>
           r.lifecycle = DeriveLifecycle(r.usable, r.minimum, r.admin_enabled)

\* A usable member is one whose last recorded observation says CURRENT for
\* exactly its binding under the policy of its set, and that is enabled.
Justified(r) ==
    \A p \in Paths :
        LET m == r.members[p]
        IN  Usable(m) => m.admin_enabled /\ Classify(m.observed, m.bound, r.conditional) = "CURRENT"

\* A member generation and the membership generation stay below the generation
\* of their set.
Nested(r) ==
    /\ r.membership_generation <= r.generation
    /\ \A p \in Paths : r.members[p].generation <= r.generation
=============================================================================
