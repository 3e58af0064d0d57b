---------------------------- MODULE FabricEngine ----------------------------
(***************************************************************************)
(* The Multipath Fabric engine: sets, their members, the Path Authority    *)
(* directory, the dependency index and the calls that worker threads have  *)
(* in flight (fabric_mutation.cpp, fabric_membership.cpp,                  *)
(* fabric_revalidation.cpp, fabric_authority.cpp).                         *)
(*                                                                         *)
(* The engine has one lock.  A handler that takes it once, at its start,   *)
(* is one action.  A handler that looks a path up BEFORE it takes the lock *)
(* is a call of a thread: it starts, looks its paths up one at a time,     *)
(* commits under the lock, and, if the code reconciles, then compares each *)
(* path with a fresh lookup and applies the difference under the lock.     *)
(* Directory changes and other calls interleave between those steps.       *)
(*                                                                         *)
(* A request that the code refuses changes nothing, so an atomic handler   *)
(* has the code's conditions as its guard; a refused call just ends.  The  *)
(* optional expected-generation preconditions only refuse more and are     *)
(* left out.  Every request carries a fresh attempt id.                    *)
(***************************************************************************)
EXTENDS SetRecord, Sequences

CONSTANTS
    Sessions,                 \* coordinator sessions
    Scopes,                   \* the scopes workers register with
    Threads,                  \* engine callers that run concurrently
    Calls,                    \* the operations that clients of this instance call
    Minimums,                 \* the minimum_usable_members clients ask for
    Policies, Enablements,    \* the conditional policies and set enablements they ask for
    AuthorityStates,          \* the states Path Authority reports
    MaxPathGeneration,        \* bound on Path Authority generations
    ExternalAuthority,        \* is an external Path Authority source bound?
    MaxSets, MaxMembersPerSet, MaxTotalMembers, MaxBatchSize,
    MaxDependenciesPerPath, MaxPendingRevalidations, MaxPublishers,
    MaxAuthorityGeneration,   \* exhausted value of epoch and authority generation
    MaxWatermark,             \* no call starts once a watermark is this high
    MaxTickets                \* bound on the revalidation tickets issued

VARIABLES
    sets,                     \* MultipathSetId |-> SetRecord
    total_members,            \* member records counted over all sets
    path_dependents,          \* PathId |-> the sets indexed under it
    next_id,                  \* next member identity
    directory,                \* PathId |-> what the Path Authority source answers
    tickets,                  \* revalidation tickets, in the order of issue
    calls,                    \* thread |-> its call in flight
    epoch, authority_generation, registrations, fences

authority_vars == <<epoch, authority_generation, registrations, fences>>
engine_vars    == <<sets, total_members, path_dependents, next_id, tickets>>
vars == <<engine_vars, directory, calls, authority_vars>>

Authority == INSTANCE WorkerAuthority

ASSUME LimitsAssumption ==
    /\ \A n \in {MaxSets, MaxMembersPerSet, MaxTotalMembers, MaxBatchSize,
                 MaxDependenciesPerPath, MaxPendingRevalidations, MaxPublishers,
                 MaxPathGeneration, MaxWatermark, MaxTickets} : n \in Nat
    /\ MaxAuthorityGeneration \in Nat \ {0}
    /\ Minimums \subseteq Nat
    /\ Policies \subseteq BOOLEAN /\ Enablements \subseteq BOOLEAN
    /\ Scopes \subseteq SUBSET SetIds
    /\ AuthorityStates \subseteq PathStates
    /\ ExternalAuthority \in BOOLEAN
    /\ NoSet \notin SetIds

\* The views a source can report for a path.
Reports == [gen : 1 .. MaxPathGeneration, state : AuthorityStates]

\* A revalidation ticket: the member as it was when the ticket was issued (the
\* code keeps its id, generation, binding and watermark), and the set's side.
Tickets == [set : SetIds, set_watermark : Nat, epoch : Nat, member : Members]

\* A call in flight.  requests and views cover every path: 0 is a path that is
\* not requested, and a path that was not looked up has no place in scope.
Operations ==
    {"add_members", "replace_member", "set_member_admin_enabled", "revalidate_set",
     "revalidate_member", "complete_member_revalidation", "refresh_path"}

Idle ==
    [op |-> "none", step |-> "idle", worker |-> NoWorker, epoch |-> 0, set |-> NoSet,
     member |-> 0, ticket |-> 0, enabled |-> FALSE,
     requests |-> [p \in Paths |-> 0], scope |-> {}, todo |-> {},
     views |-> [p \in Paths |-> NoView], path |-> 0, seen |-> NoView]

CallRecords ==
    [op : Operations \cup {"none"}, step : {"idle", "lookup", "reconcile", "apply"},
     worker : Workers \cup {NoWorker}, epoch : Nat, set : SetIds \cup {NoSet},
     member : Nat, ticket : Nat, enabled : BOOLEAN,
     requests : [Paths -> Nat], scope : SUBSET Paths, todo : SUBSET Paths,
     views : [Paths -> Views], path : Nat, seen : Views]

\* A call names a set unless it only refreshes a path, and a path where it needs
\* one.
WellFormed(c) ==
    /\ c.op \notin {"none", "refresh_path"} => c.set \in SetIds
    /\ c.op \in {"replace_member", "refresh_path"} => c.scope # {}
    /\ c.step = "apply" => c.path \in Paths

Exists(s) == sets[s].lifecycle # "NONE"

\* The sum the limits are about: member records, live and archived, of all sets.
MemberRecords == {x \in SetIds \X Paths : Present(sets[x[1]].members[x[2]])}

\* Bound on exploration: watermarks only ever grow.
Calm ==
    \A s \in SetIds :
        /\ sets[s].watermark < MaxWatermark
        /\ \A p \in Paths : sets[s].members[p].watermark < MaxWatermark

\* A client of this instance makes this call.
Client(operation) == operation \in Calls /\ Calm

Init ==
    /\ sets = [s \in SetIds |-> NoRecord]
    /\ total_members = 0
    /\ path_dependents = [p \in Paths |-> {}]
    /\ next_id = 1
    /\ directory = [p \in Paths |-> NoView]
    /\ tickets = <<>>
    /\ calls = [t \in Threads |-> Idle]
    /\ Authority!Init
-----------------------------------------------------------------------------
(***************************************************************************)
(* Shared tails of the handlers.                                           *)
(***************************************************************************)

Lower(n, k) == IF n >= k THEN n - k ELSE 0

\* Mutant: a pruned relation stays in the dependency index.
CommitSetKeepsIndex(s, r, worker, membership, added, gained, dropped) ==
    /\ sets' = [sets EXCEPT ![s] = Commit(r, worker, membership)]
    /\ total_members' = Lower(total_members + gained, Cardinality(dropped \cup Pruned(r.members)))
    /\ path_dependents' =
         [p \in Paths |-> IF p \in dropped THEN path_dependents[p] \ {s}
                          ELSE IF p \in added THEN path_dependents[p] \cup {s}
                          ELSE path_dependents[p]]

\* Mutant: the counter drops what goes to the archive, and again what is pruned.
CommitSetForgetsArchive(s, r, worker, membership, added, gained, dropped) ==
    LET gone == dropped \cup Pruned(r.members)
    IN  /\ sets' = [sets EXCEPT ![s] = Commit(r, worker, membership)]
        /\ total_members' = Lower(total_members + gained,
                                  Cardinality(dropped \cup ArchivedPaths(r.members)))
        /\ path_dependents' =
             [p \in Paths |-> IF p \in gone THEN path_dependents[p] \ {s}
                              ELSE IF p \in added THEN path_dependents[p] \cup {s}
                              ELSE path_dependents[p]]

\* Set s becomes Commit(r): the archive is pruned, so the pruned relations leave
\* the dependency index and the member count with it.  "added" are the paths
\* indexed, "dropped" those unindexed before the commit; "gained" and "lost" are
\* the changes of the counter.
CommitSet(s, r, worker, membership, added, gained, dropped) ==
    LET pruned == Pruned(r.members)
        gone   == dropped \cup pruned
    IN  /\ sets' = [sets EXCEPT ![s] = Commit(r, worker, membership)]
        /\ total_members' = Lower(total_members + gained, Cardinality(gone))
        /\ path_dependents' =
             [p \in Paths |-> IF p \in gone THEN path_dependents[p] \ {s}
                              ELSE IF p \in added THEN path_dependents[p] \cup {s}
                              ELSE path_dependents[p]]

\* Mutant: the record is saved and its generation is not advanced.
CommitInPlaceUnversioned(s, r, worker) ==
    /\ sets' = [sets EXCEPT ![s] = [r EXCEPT !.worker = worker]]
    /\ UNCHANGED <<total_members, path_dependents>>

\* A commit that touches no slot of the membership table.
CommitInPlace(s, r, worker) == CommitSet(s, r, worker, FALSE, {}, 0, {})

\* Set s becomes r without a commit.
Store(s, r) ==
    /\ sets' = [sets EXCEPT ![s] = r]
    /\ UNCHANGED <<total_members, path_dependents>>

\* apply_view_locked(): the indexed sets, each through ApplyView.
ApplyToDependents(p, view) ==
    /\ sets' = [s \in SetIds |-> IF s \in path_dependents[p]
                                 THEN ApplyView(sets[s], p, view) ELSE sets[s]]
    /\ UNCHANGED <<total_members, path_dependents>>

\* Mutant: identities are numbered by the count of members instead of by a
\* counter that never goes back.
IssueFromCount(n) == next_id' = total_members + n + 1

\* IdFactory: n member identities are handed out.
Issue(n) == next_id' = next_id + n

Quiet == UNCHANGED <<next_id, directory, tickets, calls, authority_vars>>
-----------------------------------------------------------------------------
(***************************************************************************)
(* Handlers that run under the lock from start to end.                     *)
(***************************************************************************)

CreateSet(w, s, minimum, admin, conditional) ==
    /\ Client("create_set")
    /\ Authority!Authorized(w, epoch)
    /\ Authority!CoversNamespace(registrations[w].scope)
    /\ ~Exists(s)
    /\ Cardinality({x \in SetIds : Exists(x)}) < MaxSets
    /\ minimum <= MaxMembersPerSet
    /\ Store(s, [NoRecord EXCEPT !.lifecycle = "DECLARED", !.currentness = "CURRENT",
                                 !.admin_enabled = admin, !.minimum = minimum,
                                 !.conditional = conditional, !.generation = 1,
                                 !.membership_generation = 1,
                                 !.governing_epoch = epoch, !.worker = w])
    /\ Quiet

\* The part every handler about an existing set shares.
Mutates(operation, w, s) ==
    /\ Client(operation)
    /\ Exists(s)
    /\ Authority!AuthorizedFor(w, epoch, s)
    /\ Quiet

PublishSet(w, s) ==
    /\ Mutates("publish_set", w, s)
    /\ GenerationRoom(sets[s])
    /\ Allowed(sets[s].lifecycle, "PUBLISH")
    /\ CommitInPlace(s, ApplyTransition(sets[s], "PUBLISH"), w)

\* The transition is applied before the threshold is looked at, so a refused or
\* idempotent request still leaves the recomputed record behind.
SetMinimumUsableMembers(w, s, minimum) ==
    LET r == ApplyTransition(sets[s], "MINIMUM_CHANGED")
    IN  /\ Mutates("set_minimum_usable_members", w, s)
        /\ Allowed(sets[s].lifecycle, "MINIMUM_CHANGED")
        /\ IF minimum > MaxMembersPerSet \/ minimum = r.minimum \/ ~GenerationRoom(r)
           THEN Store(s, r)
           ELSE CommitInPlace(s, Recompute([r EXCEPT !.minimum = minimum]), w)

SetConditionalAuthorityPolicy(w, s, permitted) ==
    LET r == ApplyTransition(sets[s], "POLICY_CHANGED")
    IN  /\ Mutates("set_conditional_authority_policy", w, s)
        /\ Allowed(sets[s].lifecycle, "POLICY_CHANGED")
        /\ IF permitted = r.conditional \/ ~GenerationRoom(r)
           THEN Store(s, r)
           ELSE CommitInPlace(s, Reevaluated([r EXCEPT !.conditional = permitted]), w)

\* ADMIN_DISABLED has changed the lifecycle by the time the request turns out to
\* be idempotent or the generation exhausted.
SetAdminEnabled(w, s, enabled) ==
    LET event == IF enabled THEN "ADMIN_ENABLED" ELSE "ADMIN_DISABLED"
        r     == ApplyTransition(sets[s], event)
    IN  /\ Mutates("set_admin_enabled", w, s)
        /\ Allowed(sets[s].lifecycle, event)
        /\ IF enabled = r.admin_enabled \/ ~GenerationRoom(r)
           THEN Store(s, r)
           ELSE CommitInPlace(s, Recompute([r EXCEPT !.admin_enabled = enabled]), w)

WithdrawSet(w, s) ==
    LET before == sets[s].lifecycle
    IN  /\ Mutates("withdraw_set", w, s)
        /\ GenerationRoom(sets[s])
        /\ Allowed(before, "BEGIN_WITHDRAW")
        /\ CommitInPlace(s, Consequences(Recompute(ApplyTransition(sets[s], "BEGIN_WITHDRAW")),
                                         before), w)

CompleteWithdrawal(w, s) ==
    /\ Mutates("complete_withdrawal", w, s)
    /\ GenerationRoom(sets[s])
    /\ Allowed(sets[s].lifecycle, "COMPLETE_WITHDRAW")
    /\ CommitInPlace(s, ApplyTransition(sets[s], "COMPLETE_WITHDRAW"), w)

\* revoke_set() and retire_set(): the transition, then its consequences.
EndSet(operation, event, w, s) ==
    LET before == sets[s].lifecycle
    IN  /\ Mutates(operation, w, s)
        /\ GenerationRoom(sets[s])
        /\ Allowed(before, event)
        /\ CommitInPlace(s, Consequences(ApplyTransition(sets[s], event), before), w)

RevokeSet(w, s) == EndSet("revoke_set", "REVOKE", w, s)
RetireSet(w, s) == EndSet("retire_set", "RETIRE", w, s)

\* Mutant: the successor is told before the transition is checked.
SupersedeSetAhead(w, s, successor) ==
    /\ s # successor
    /\ Mutates("supersede_set", w, s)
    /\ Exists(successor)
    /\ sets[s].superseded_by # successor
    /\ GenerationRoom(sets[s])
    /\ IF Allowed(sets[s].lifecycle, "SUPERSEDE")
       THEN sets' = [sets EXCEPT ![s].superseded_by = successor, ![s].lifecycle = "SUPERSEDED",
                                 ![s].generation = @ + 1, ![successor].supersedes = s]
       ELSE sets' = [sets EXCEPT ![successor].supersedes = s]
    /\ UNCHANGED <<total_members, path_dependents>>

\* The successor only has to exist; it is not asked for its lifecycle.
SupersedeSet(w, s, successor) ==
    LET before == sets[s].lifecycle
        old    == [ApplyTransition(sets[s], "SUPERSEDE") EXCEPT !.superseded_by = successor]
        ended  == Consequences(old, before)
    IN  /\ s # successor
        /\ Mutates("supersede_set", w, s)
        /\ Exists(successor)
        /\ Authority!AuthorizedFor(w, epoch, successor)
        /\ sets[s].superseded_by # successor
        /\ GenerationRoom(sets[s])
        /\ Allowed(before, "SUPERSEDE")
        /\ sets' = [sets EXCEPT ![s] = Commit(ended, w, FALSE),
                                ![successor].supersedes = s]
        /\ total_members' = Lower(total_members, Cardinality(Pruned(ended.members)))
        /\ path_dependents' =
             [p \in Paths |-> IF p \in Pruned(ended.members)
                              THEN path_dependents[p] \ {s} ELSE path_dependents[p]]

RemoveMember(w, s, p) ==
    LET r == ApplyTransition(sets[s], "MEMBER_REMOVED")
    IN  /\ Mutates("remove_member", w, s)
        /\ Present(sets[s].members[p])
        /\ Allowed(sets[s].lifecycle, "MEMBER_REMOVED")
        /\ GenerationRoom(sets[s]) /\ MembershipRoom(sets[s])
        /\ CommitSet(s, Recompute([r EXCEPT !.members[p] = NoMember]), w, TRUE, {}, 0, {p})

WithdrawMember(w, s, p) ==
    LET r == ApplyTransition(sets[s], "MEMBER_REMOVED")
        m == sets[s].members[p]
    IN  /\ Mutates("withdraw_member", w, s)
        /\ Live(m)
        /\ Allowed(sets[s].lifecycle, "MEMBER_REMOVED")
        /\ m.generation < MaxGeneration
        /\ GenerationRoom(sets[s]) /\ MembershipRoom(sets[s])
        /\ CommitSet(s, Recompute([r EXCEPT !.members[p] = Closed(m, "WITHDRAWN")]),
                     w, TRUE, {}, 0, {})

\* begin_member_revalidation(): the pending limit is the one named per set, but
\* it is compared with the pending count of the member.
BeginMemberRevalidation(w, s, p) ==
    LET m == sets[s].members[p]
    IN  /\ Client("begin_member_revalidation")
        /\ Len(tickets) < MaxTickets
        /\ Exists(s)
        /\ Authority!AuthorizedFor(w, epoch, s)
        /\ Live(m)
        /\ m.pending < MaxPendingRevalidations
        /\ Store(s, [sets[s] EXCEPT !.members[p].pending = @ + 1])
        /\ tickets' = Append(tickets, [set |-> s, set_watermark |-> sets[s].watermark,
                                       epoch |-> epoch, member |-> m])
        /\ UNCHANGED <<next_id, directory, calls, authority_vars>>

\* abandon_member_revalidation(): needs no authority, only a ticket.
AbandonMemberRevalidation(k) ==
    LET s  == tickets[k].set
        id == tickets[k].member.id
        p  == Slot(sets[s].members, id)
    IN  /\ Client("abandon_member_revalidation")
        /\ Holds(sets[s].members, id)
        /\ sets[s].members[p].pending > 0
        /\ Store(s, [sets[s] EXCEPT !.members[p].pending = @ - 1])
        /\ Quiet

\* The scope test of declare_path_authority() and apply_path_authority(): every
\* dependent set must be covered.
CoversDependents(w, p) ==
    \A s \in path_dependents[p] : Authority!Covers(registrations[w].scope, s)

\* Mutant: the directory changes and nobody is told.
DeclareWithoutConsequences(w, p, view) ==
    /\ Client("declare_path_authority")
    /\ ~ExternalAuthority
    /\ Authority!Authorized(w, epoch)
    /\ CoversDependents(w, p)
    /\ directory' = [directory EXCEPT ![p] = view]
    /\ UNCHANGED <<engine_vars, calls, authority_vars>>

\* declare_path_authority(): the directory entry and its consequences in one
\* critical section, refused when an external source is bound.
DeclarePathAuthority(w, p, view) ==
    /\ Client("declare_path_authority")
    /\ ~ExternalAuthority
    /\ Authority!Authorized(w, epoch)
    /\ CoversDependents(w, p)
    /\ directory' = [directory EXCEPT ![p] = view]
    /\ ApplyToDependents(p, view)
    /\ UNCHANGED <<next_id, tickets, calls, authority_vars>>

\* apply_path_authority(): a view the caller vouches for.
ApplyPathAuthority(w, p, view) ==
    /\ Client("apply_path_authority")
    /\ Authority!Authorized(w, epoch)
    /\ CoversDependents(w, p)
    /\ ApplyToDependents(p, view)
    /\ Quiet

\* An external source changes its answer; the engine is not told.
ExternalChange(p, view) ==
    /\ Client("external_change")
    /\ ExternalAuthority
    /\ directory' = [directory EXCEPT ![p] = view]
    /\ UNCHANGED <<engine_vars, calls, authority_vars>>
-----------------------------------------------------------------------------
(***************************************************************************)
(* Worker authority, with the consequences for the sets.                   *)
(***************************************************************************)

RegisterPublisher(w, scope, session) ==
    /\ Client("register_publisher")
    /\ Authority!RegisterPublisher(w, scope, session)
    /\ UNCHANGED <<engine_vars, directory, calls>>

UnregisterPublisher(w) ==
    /\ Client("unregister_publisher")
    /\ Authority!UnregisterPublisher(w)
    /\ UNCHANGED <<engine_vars, directory, calls>>

\* Mutant: only the watermarks and the epoch move.
UncurrentWatermarksOnly(lost, e) ==
    /\ sets' = [s \in SetIds |->
                  IF s \in lost THEN [BumpAll(sets[s]) EXCEPT !.governing_epoch = e]
                  ELSE sets[s]]
    /\ UNCHANGED <<total_members, path_dependents, next_id, tickets, directory, calls>>

\* The sets a step of the authority takes live currentness away from.
Uncurrent(lost, e) ==
    /\ sets' = [s \in SetIds |->
                  IF s \in lost
                  THEN [BumpAll(sets[s]) EXCEPT !.currentness = "REVALIDATION_REQUIRED",
                                                !.governing_epoch = e]
                  ELSE sets[s]]
    /\ UNCHANGED <<total_members, path_dependents, next_id, tickets, directory, calls>>

\* fence_worker(): the sets last mutated by the publisher, whichever its boot.
FenceWorker(w) ==
    /\ Client("fence_worker")
    /\ Authority!FenceWorker(w)
    /\ Uncurrent({s \in SetIds : Exists(s) /\ sets[s].worker[1] = w[1]}, epoch)

\* Mutant: the epoch advances over live registrations.
AdvanceEpochKeepsGrants(w, session) ==
    /\ Client("advance_epoch")
    /\ Authority!Registered(w)
    /\ Authority!AuthorityRoom
    /\ epoch' = epoch + 1
    /\ authority_generation' = authority_generation + 1
    /\ UNCHANGED <<registrations, fences>>
    /\ Uncurrent({s \in SetIds : Exists(s)}, epoch + 1)

AdvanceEpoch(w, session) ==
    /\ Client("advance_epoch")
    /\ Authority!AdvanceEpoch(w, session)
    /\ Uncurrent({s \in SetIds : Exists(s)}, epoch + 1)
-----------------------------------------------------------------------------
(***************************************************************************)
(* Calls that look paths up outside the lock.                              *)
(***************************************************************************)

\* Thread t starts call c on the paths of "scope".
Begin(t, w, scope, c) ==
    /\ calls[t].op = "none"
    /\ Client(c.op)
    /\ calls' = [calls EXCEPT ![t] =
                    [c EXCEPT !.step = "lookup", !.worker = w, !.epoch = epoch,
                              !.scope = scope, !.todo = scope]]
    /\ UNCHANGED <<engine_vars, directory, authority_vars>>

Requested(requests) == {p \in Paths : requests[p] # 0}

StartAddMembers(t, w, s, requests) ==
    /\ Requested(requests) # {}
    /\ Cardinality(Requested(requests)) <= MaxBatchSize
    /\ Begin(t, w, Requested(requests),
             [Idle EXCEPT !.op = "add_members", !.set = s, !.requests = requests])

StartReplaceMember(t, w, s, p, successor, gen) ==
    /\ Present(sets[s].members[p])
    /\ p # successor
    /\ Begin(t, w, {successor},
             [Idle EXCEPT !.op = "replace_member", !.set = s,
                          !.member = sets[s].members[p].id,
                          !.requests = [Idle.requests EXCEPT ![successor] = gen]])

\* member_path() resolves the member under a shared lock before the lookup.
StartOnMember(t, w, s, p, c) ==
    /\ Present(sets[s].members[p])
    /\ Begin(t, w, {p}, [c EXCEPT !.set = s, !.member = sets[s].members[p].id])

StartSetMemberAdminEnabled(t, w, s, p, enabled) ==
    StartOnMember(t, w, s, p,
        [Idle EXCEPT !.op = "set_member_admin_enabled", !.enabled = enabled])

StartRevalidateMember(t, w, s, p) ==
    StartOnMember(t, w, s, p, [Idle EXCEPT !.op = "revalidate_member"])

\* live_member_paths() lists the members under a shared lock.
StartRevalidateSet(t, w, s) ==
    /\ Exists(s)
    /\ Begin(t, w, LivePaths(sets[s].members),
             [Idle EXCEPT !.op = "revalidate_set", !.set = s])

\* The holder of a ticket asks Path Authority for the member's path before it
\* completes the revalidation.
StartCompleteMemberRevalidation(t, w, k) ==
    LET s  == tickets[k].set
        id == tickets[k].member.id
    IN  /\ Holds(sets[s].members, id)
        /\ Begin(t, w, {Slot(sets[s].members, id)},
                 [Idle EXCEPT !.op = "complete_member_revalidation", !.set = s,
                              !.member = id, !.ticket = k])

StartRefreshPath(t, w, p) ==
    Begin(t, w, {p}, [Idle EXCEPT !.op = "refresh_path"])

\* lookup_path() of one of the paths; any order will do.
Lookup(t, p) ==
    /\ calls[t].step = "lookup"
    /\ p \in calls[t].todo
    /\ calls' = [calls EXCEPT ![t].views[p] = directory[p], ![t].todo = @ \ {p}]
    /\ UNCHANGED <<engine_vars, directory, authority_vars>>

\* The lookups are done and the thread holds the lock.
Ready(t, op) == calls[t].op = op /\ calls[t].step = "lookup" /\ calls[t].todo = {}

Return(t) == calls' = [calls EXCEPT ![t] = Idle]

\* Mutant: the call trusts the view it looked up.
ReconcileSkipped(t) == Return(t)

Reconcile(t) ==
    LET c == calls[t]
    IN  calls' = [calls EXCEPT ![t] =
                     IF c.scope = {} THEN Idle
                     ELSE [c EXCEPT !.step = "reconcile", !.todo = c.scope]]

\* Mutant: authority is checked on entry only, not under the lock.
AdmittedOnEntry(c) == Exists(c.set)

\* The checks every committing call begins with.
Admitted(c) == Exists(c.set) /\ Authority!AuthorizedFor(c.worker, c.epoch, c.set)

\* add_members_internal(): every request must classify CURRENT and no requested
\* path may be a live member.  Only slots that are new to the set count against
\* the limits; an archived relation is replaced in place.
Fresh(c) == {p \in c.scope : ~Present(sets[c.set].members[p])}

AddAdmissible(c) ==
    LET r == sets[c.set]
    IN  /\ Admitted(c)
        /\ Allowed(r.lifecycle, "MEMBER_ADDED")
        /\ \A p \in c.scope : Classify(c.views[p], c.requests[p], r.conditional) = "CURRENT"
        /\ \A p \in c.scope : ~Live(r.members[p])
        /\ Cardinality(LivePaths(r.members)) + Cardinality(Fresh(c)) <= MaxMembersPerSet
        /\ total_members + Cardinality(Fresh(c)) <= MaxTotalMembers
        /\ \A p \in Fresh(c) : Cardinality(path_dependents[p]) < MaxDependenciesPerPath
        /\ GenerationRoom(r) /\ MembershipRoom(r)

\* Identities are handed out one per request; which request gets which does not
\* matter.
AddMembers(t) ==
    LET c      == calls[t]
        r      == ApplyTransition(sets[c.set], "MEMBER_ADDED")
        id(p)  == next_id + Cardinality({q \in c.scope : q < p})
        joined == [p \in Paths |->
                     IF p \in c.scope
                     THEN NewMember(id(p), c.requests[p], c.views[p], r.conditional)
                     ELSE r.members[p]]
    IN  /\ Ready(t, "add_members")
        /\ AddAdmissible(c)
        /\ CommitSet(c.set, Recompute([r EXCEPT !.members = joined]), c.worker, TRUE,
                     c.scope, Cardinality(Fresh(c)), {})
        /\ Issue(Cardinality(c.scope))
        /\ Reconcile(t)
        /\ UNCHANGED <<directory, tickets, authority_vars>>

\* replace_member(): a successor that takes an archived slot still "consumes"
\* one, so the member count grows by one although the table does not.
Successor(c) == CHOOSE p \in c.scope : TRUE

ReplaceAdmissible(c) ==
    LET r == sets[c.set]
        q == Successor(c)
        predecessor == r.members[Slot(r.members, c.member)]
        freed == OneIf(Live(predecessor))
    IN  /\ Admitted(c)
        /\ Allowed(r.lifecycle, "MEMBER_REPLACED")
        /\ Holds(r.members, c.member)
        /\ Classify(c.views[q], c.requests[q], r.conditional) = "CURRENT"
        /\ ~Live(r.members[q])
        /\ Cardinality(LivePaths(r.members)) + 1 - freed <= MaxMembersPerSet
        /\ total_members < MaxTotalMembers
        /\ Cardinality(path_dependents[q]) < MaxDependenciesPerPath
        /\ GenerationRoom(r) /\ MembershipRoom(r)
        /\ predecessor.generation < MaxGeneration

\* The predecessor becomes SUPERSEDED whatever its lifecycle was.
ReplaceMember(t) ==
    LET c == calls[t]
        q == Successor(c)
        p == Slot(sets[c.set].members, c.member)
        r == ApplyTransition(sets[c.set], "MEMBER_REPLACED")
        replaced == [r.members EXCEPT
                       ![p] = Closed(sets[c.set].members[p], "SUPERSEDED"),
                       ![q] = NewMember(next_id, c.requests[q], c.views[q], r.conditional)]
    IN  /\ Ready(t, "replace_member")
        /\ ReplaceAdmissible(c)
        /\ CommitSet(c.set, Recompute([r EXCEPT !.members = replaced]), c.worker, TRUE,
                     {q}, 1, {})
        /\ Issue(1)
        /\ Return(t)
        /\ UNCHANGED <<directory, tickets, authority_vars>>

\* set_member_admin_enabled(): the lifecycle of the set is not consulted.
AdminAdmissible(c) ==
    LET r == sets[c.set]
        m == r.members[Slot(r.members, c.member)]
    IN  /\ Admitted(c)
        /\ Holds(r.members, c.member)
        /\ Live(m)
        /\ m.admin_enabled # c.enabled
        /\ m.generation < MaxGeneration /\ GenerationRoom(r)

SetMemberAdminEnabled(t) ==
    LET c == calls[t]
        r == sets[c.set]
        p == Slot(r.members, c.member)
        m == [r.members[p] EXCEPT !.admin_enabled = c.enabled,
                                  !.generation = @ + 1, !.watermark = @ + 1]
    IN  /\ Ready(t, "set_member_admin_enabled")
        /\ AdminAdmissible(c)
        /\ CommitInPlace(c.set, Recompute([r EXCEPT !.members[p] =
                            EvaluateMember(m, c.views[p], r.conditional, c.enabled)]),
                         c.worker)
        /\ Return(t)
        /\ UNCHANGED <<next_id, directory, tickets, authority_vars>>

\* revalidate_set(): members listed before the lookups are rebound and
\* re-evaluated; one that joined since is left alone, and makes the
\* revalidation incomplete unless it is current.  The record is changed before
\* the call finds out that nothing visible changed or that the generation is
\* exhausted, and in both cases it returns without reconciling.
RevalidateSetAdmissible(c) ==
    Admitted(c) /\ Allowed(sets[c.set].lifecycle, "REVALIDATE_SET")

RevalidateSet(t) ==
    LET c        == calls[t]
        r        == sets[c.set]
        rebound  == [p \in Paths |->
                       IF Live(r.members[p]) /\ p \in c.scope
                       THEN Revalidated(r.members[p], c.views[p], r.conditional)
                       ELSE r.members[p]]
        complete == \A p \in LivePaths(r.members) \ c.scope :
                        r.members[p].currentness = "CURRENT"
        after    == [Recompute([r EXCEPT !.members = rebound]) EXCEPT
                       !.currentness = IF complete THEN "CURRENT" ELSE "REVALIDATION_REQUIRED",
                       !.governing_epoch = epoch]
        changed  == r.lifecycle # after.lifecycle \/ r.currentness # after.currentness
    IN  /\ Ready(t, "revalidate_set")
        /\ RevalidateSetAdmissible(c)
        /\ IF changed /\ GenerationRoom(r)
           THEN CommitInPlace(c.set, after, c.worker) /\ Reconcile(t)
           ELSE Store(c.set, after) /\ Return(t)
        /\ UNCHANGED <<next_id, directory, tickets, authority_vars>>

RevalidateMemberAdmissible(c) ==
    LET r == sets[c.set]
        m == r.members[Slot(r.members, c.member)]
    IN  /\ Admitted(c)
        /\ Holds(r.members, c.member)
        /\ Allowed(r.lifecycle, "MEMBERSHIP_RECHECK")
        /\ Live(m)
        /\ m.generation < MaxGeneration /\ GenerationRoom(r)

RevalidateMember(t) ==
    LET c == calls[t]
        r == sets[c.set]
        p == Slot(r.members, c.member)
        m == r.members[p]
        n == Revalidated(m, c.views[p], r.conditional)
        after == Recompute([r EXCEPT !.members[p] = Versioned(m, n)])
    IN  /\ Ready(t, "revalidate_member")
        /\ RevalidateMemberAdmissible(c)
        /\ IF Moved(m, n)
           THEN CommitInPlace(c.set, after, c.worker) /\ Reconcile(t)
           ELSE Store(c.set, after) /\ Return(t)
        /\ UNCHANGED <<next_id, directory, tickets, authority_vars>>

\* complete_member_revalidation(): a ticket is answered for as long as the
\* member has some pending revalidation, whoever began it.
Answerable(c) ==
    LET ms == sets[c.set].members
    IN  /\ Admitted(c)
        /\ Holds(ms, c.member)
        /\ ms[Slot(ms, c.member)].pending > 0

\* Nothing the watermarks cover has changed since the ticket was issued.
TicketCurrent(c) ==
    LET r == sets[c.set]
        m == r.members[Slot(r.members, c.member)]
        k == tickets[c.ticket]
    IN  /\ r.watermark = k.set_watermark
        /\ m.watermark = k.member.watermark
        /\ k.epoch = epoch
        /\ Live(m)
        /\ m.generation < MaxGeneration /\ GenerationRoom(r)

\* A refused completion still releases one pending revalidation.
RefuseCompletion(t) ==
    LET c == calls[t]
        p == Slot(sets[c.set].members, c.member)
    IN  /\ Ready(t, "complete_member_revalidation")
        /\ Answerable(c) /\ ~TicketCurrent(c)
        /\ Store(c.set, [sets[c.set] EXCEPT !.members[p].pending = @ - 1])
        /\ Return(t)
        /\ UNCHANGED <<next_id, directory, tickets, authority_vars>>

CompleteMemberRevalidation(t) ==
    LET c == calls[t]
        r == sets[c.set]
        p == Slot(r.members, c.member)
        m == r.members[p]
        n == Revalidated(m, c.views[p], r.conditional)
        after == Recompute([r EXCEPT !.members[p] = [Versioned(m, n) EXCEPT !.pending = @ - 1]])
    IN  /\ Ready(t, "complete_member_revalidation")
        /\ Answerable(c) /\ TicketCurrent(c)
        /\ IF Moved(m, n) THEN CommitInPlace(c.set, after, c.worker) ELSE Store(c.set, after)
        /\ Return(t)
        /\ UNCHANGED <<next_id, directory, tickets, authority_vars>>

\* refresh_path(): the looked-up view goes through apply_path_authority().
RefreshAdmissible(c) ==
    \A p \in c.scope : /\ c.views[p] # NoView
                       /\ Authority!Authorized(c.worker, c.epoch)
                       /\ CoversDependents(c.worker, p)

RefreshPath(t) ==
    LET c == calls[t]
        p == Successor(c)
    IN  /\ Ready(t, "refresh_path")
        /\ RefreshAdmissible(c)
        /\ ApplyToDependents(p, c.views[p])
        /\ Return(t)
        /\ UNCHANGED <<next_id, directory, tickets, authority_vars>>

\* A call that a check under the lock refuses.
Refused(c) ==
    CASE c.op = "add_members"                  -> ~AddAdmissible(c)
      [] c.op = "replace_member"               -> ~ReplaceAdmissible(c)
      [] c.op = "set_member_admin_enabled"     -> ~AdminAdmissible(c)
      [] c.op = "revalidate_set"               -> ~RevalidateSetAdmissible(c)
      [] c.op = "revalidate_member"            -> ~RevalidateMemberAdmissible(c)
      [] c.op = "complete_member_revalidation" -> ~Answerable(c)
      [] c.op = "refresh_path"                 -> ~RefreshAdmissible(c)
      [] OTHER                                 -> FALSE

Refuse(t) ==
    /\ Ready(t, calls[t].op)
    /\ Refused(calls[t])
    /\ Return(t)
    /\ UNCHANGED <<engine_vars, directory, authority_vars>>

\* Mutant: a path that agrees is looked up again.
ObserveAgain(t, p) ==
    LET c == calls[t]
    IN  /\ c.step = "reconcile"
        /\ p \in c.todo
        /\ calls' = [calls EXCEPT ![t] =
                        IF directory[p] # c.views[p]
                        THEN [c EXCEPT !.step = "apply", !.path = p,
                                       !.seen = directory[p], !.todo = @ \ {p}]
                        ELSE c]
        /\ UNCHANGED <<engine_vars, directory, authority_vars>>

\* reconcile_path(), first half: a fresh lookup outside the lock, compared with
\* the view the call committed.
Observe(t, p) ==
    LET c == calls[t]
        left == c.todo \ {p}
    IN  /\ c.step = "reconcile"
        /\ p \in c.todo
        /\ calls' = [calls EXCEPT ![t] =
                        IF directory[p] # c.views[p]
                        THEN [c EXCEPT !.step = "apply", !.path = p,
                                       !.seen = directory[p], !.todo = left]
                        ELSE IF left = {} THEN Idle ELSE [c EXCEPT !.todo = left]]
        /\ UNCHANGED <<engine_vars, directory, authority_vars>>

\* reconcile_path(), second half: the lock, and the view that was observed.
ApplyObserved(t) ==
    LET c == calls[t]
    IN  /\ c.step = "apply"
        /\ ApplyToDependents(c.path, c.seen)
        /\ calls' = [calls EXCEPT ![t] =
                        IF c.todo = {} THEN Idle
                        ELSE [c EXCEPT !.step = "reconcile", !.path = 0, !.seen = NoView]]
        /\ UNCHANGED <<next_id, directory, tickets, authority_vars>>
-----------------------------------------------------------------------------
(***************************************************************************)
(* The specification.                                                      *)
(***************************************************************************)

\* Registered workers call; a call may lose its authority while in flight.
Callers == {w \in Workers : Authority!Registered(w)}

SetStep(w, s) ==
    \/ \E n \in Minimums, admin \in Enablements, conditional \in Policies :
           CreateSet(w, s, n, admin, conditional)
    \/ PublishSet(w, s)
    \/ \E n \in Minimums : SetMinimumUsableMembers(w, s, n)
    \/ \E permitted \in Policies : SetConditionalAuthorityPolicy(w, s, permitted)
    \/ \E enabled \in Enablements : SetAdminEnabled(w, s, enabled)
    \/ WithdrawSet(w, s)
    \/ CompleteWithdrawal(w, s)
    \/ RevokeSet(w, s)
    \/ RetireSet(w, s)
    \/ \E successor \in SetIds : SupersedeSet(w, s, successor)
    \/ \E p \in Paths : RemoveMember(w, s, p)
    \/ \E p \in Paths : WithdrawMember(w, s, p)
    \/ \E p \in Paths : BeginMemberRevalidation(w, s, p)

ViewStep ==
    \/ \E w \in Callers, p \in Paths, view \in Reports : DeclarePathAuthority(w, p, view)
    \/ \E w \in Callers, p \in Paths, view \in Reports : ApplyPathAuthority(w, p, view)
    \/ \E p \in Paths, view \in Reports \cup {NoView} : ExternalChange(p, view)
    \/ \E k \in 1 .. Len(tickets) : AbandonMemberRevalidation(k)

AuthorityStep ==
    \/ \E w \in Workers, scope \in Scopes, session \in Sessions :
           RegisterPublisher(w, scope, session)
    \/ \E w \in Workers : UnregisterPublisher(w)
    \/ \E w \in Workers : FenceWorker(w)
    \/ \E w \in Workers, session \in Sessions : AdvanceEpoch(w, session)

StartCall(t, w) ==
    \/ \E s \in SetIds, requests \in [Paths -> 0 .. MaxPathGeneration] :
           StartAddMembers(t, w, s, requests)
    \/ \E s \in SetIds, p, q \in Paths, gen \in 1 .. MaxPathGeneration :
           StartReplaceMember(t, w, s, p, q, gen)
    \/ \E s \in SetIds, p \in Paths, enabled \in BOOLEAN :
           StartSetMemberAdminEnabled(t, w, s, p, enabled)
    \/ \E s \in SetIds, p \in Paths : StartRevalidateMember(t, w, s, p)
    \/ \E s \in SetIds : StartRevalidateSet(t, w, s)
    \/ \E k \in 1 .. Len(tickets) : StartCompleteMemberRevalidation(t, w, k)
    \/ \E p \in Paths : StartRefreshPath(t, w, p)

\* What the code does on its own once a call has started.
CallStep(t) ==
    \/ \E p \in Paths : Lookup(t, p)
    \/ AddMembers(t)
    \/ ReplaceMember(t)
    \/ SetMemberAdminEnabled(t)
    \/ RevalidateSet(t)
    \/ RevalidateMember(t)
    \/ RefuseCompletion(t)
    \/ CompleteMemberRevalidation(t)
    \/ RefreshPath(t)
    \/ Refuse(t)
    \/ \E p \in Paths : Observe(t, p)
    \/ ApplyObserved(t)

Next ==
    \/ \E w \in Callers, s \in SetIds : SetStep(w, s)
    \/ ViewStep
    \/ AuthorityStep
    \/ \E t \in Threads, w \in Callers : StartCall(t, w)
    \/ \E t \in Threads : CallStep(t)

Spec == Init /\ [][Next]_vars

\* A started call runs to its end: no lock is held across calls and no step of
\* a call waits for another call.  Clients owe nobody another call.
Fairness == \A t \in Threads : WF_vars(CallStep(t))

FairSpec == Spec /\ Fairness
-----------------------------------------------------------------------------
(***************************************************************************)
(* Properties.                                                             *)
(***************************************************************************)

\* Type invariant.  The bound on the generations is also what shows that
\* commit_locked() never reaches its overflow branches.
TypeOK ==
    /\ sets \in [SetIds -> SetRecords]
    /\ total_members \in Nat
    /\ path_dependents \in [Paths -> SUBSET SetIds]
    /\ next_id \in Nat \ {0}
    /\ directory \in [Paths -> Views]
    /\ tickets \in Seq(Tickets)
    /\ calls \in [Threads -> CallRecords]
    /\ \A t \in Threads : WellFormed(calls[t])

\* Every handler leaves every set accounted for, also where it returns early,
\* refuses on an exhausted counter, or prunes the archive: usable_member_count
\* and the lifecycle are cached, and nothing recomputes them on read.
ThresholdAccounting == \A s \in SetIds : Accounted(sets[s])

\* "A historical AUTHORIZED result never counts": no order of rebinds, policy
\* changes, toggles and invalidations counts a member on evidence for another
\* generation or under another policy.
UsableJustified == \A s \in SetIds : Justified(sets[s])

\* path_dependents is exactly the inverse of the membership tables, archived
\* relations included, so that an invalidation reaches every member and a scope
\* check sees every dependent set.
PathIndexConsistent ==
    \A s \in SetIds, p \in Paths :
        s \in path_dependents[p] <=> Present(sets[s].members[p])

\* The member counter never runs below the records that exist, so that the
\* limit it enforces is a limit on the records.
MemberCountCovers ==
    Cardinality(MemberRecords) <= total_members /\ total_members <= MaxTotalMembers

\* Identities are never shared or reissued: a member id names one slot of one
\* set, so the lookup of a member by id is unambiguous.
MemberIdentityUnique ==
    /\ \A x, y \in MemberRecords :
          sets[x[1]].members[x[2]].id = sets[y[1]].members[y[2]].id => x = y
    /\ \A x \in MemberRecords : sets[x[1]].members[x[2]].id \in 1 .. next_id - 1

\* Generations nest, so the set's own overflow test, made first, protects the
\* increments of the member and membership generations made after it.
GenerationsNested == \A s \in SetIds : Nested(sets[s])

\* Live currentness has an owner: a set is CURRENT only under the governing
\* epoch, only while the worker that last committed to it is not fenced, and
\* never once it has ended.  On an exhausted generation revalidate_set() makes
\* the set CURRENT and then refuses, so the second part excepts that case.
CurrentnessBacked ==
    \A s \in SetIds :
        sets[s].currentness = "CURRENT" =>
            /\ sets[s].governing_epoch = epoch
            /\ sets[s].lifecycle \notin TerminalSet
            /\ GenerationRoom(sets[s]) => sets[s].worker \notin fences

\* While its watermarks still match a ticket, a member is as it was when the
\* ticket was issued on every axis that makes it usable or not, and at the same
\* generation: this is what the stale-completion defence relies on.
TicketPinsMember ==
    \A k \in 1 .. Len(tickets) :
        LET issued == tickets[k].member
            r == sets[tickets[k].set]
        IN  \A p \in Paths :
              LET m == r.members[p]
              IN  /\ m.id = issued.id
                  /\ r.watermark = tickets[k].set_watermark
                  /\ m.watermark = issued.watermark
                  => /\ m.lifecycle = issued.lifecycle
                     /\ m.currentness = issued.currentness
                     /\ m.admin_enabled = issued.admin_enabled
                     /\ m.generation = issued.generation

\* Member p of set s is counted as usable although the source now says
\* otherwise about its exact binding.
StaleUse(s, p) ==
    /\ sets[s].lifecycle \notin TerminalSet
    /\ Usable(sets[s].members[p])
    /\ Classify(directory[p], sets[s].members[p].bound, sets[s].conditional) # "CURRENT"

\* Thread t still has to reconcile path p.
WillReconcile(t, p) ==
    /\ calls[t].step \in {"reconcile", "apply"}
    /\ p \in calls[t].todo \/ calls[t].path = p

\* The window between a lookup and its commit is closed by reconciliation:
\* whenever a member is counted on a view that the source has replaced, some
\* call in flight is going to apply the source's answer to it.
StaleUseCovered ==
    \A s \in SetIds, p \in Paths :
        StaleUse(s, p) => \E t \in Threads : WillReconcile(t, p)

\* ... and it does, because a call that has started ends.
StaleUseResolved ==
    \A s \in SetIds, p \in Paths : StaleUse(s, p) ~> ~StaleUse(s, p)

\* What a consumer can see of a set, apart from its live currentness.
Visible(r) ==
    <<r.lifecycle, r.minimum, r.conditional, r.admin_enabled,
      [p \in Paths |-> IF Live(r.members[p]) THEN r.members[p].id ELSE 0]>>

\* Consumers follow a set by its generation: no step changes what they can see
\* and keeps the generation, unless the counter is exhausted, and no step takes
\* a generation or a watermark back.
ChangesAreVersioned ==
    [][\A s \in SetIds :
         /\ sets[s].generation <= sets[s].generation'
         /\ sets[s].watermark <= sets[s].watermark'
         /\ Visible(sets[s]) # Visible(sets[s])' =>
               sets[s].generation < sets[s].generation' \/ ~GenerationRoom(sets[s])]_vars

\* "Terminal set states are fully frozen" for the lifecycle: a set that ended
\* stays ended, a retired one stays retired, and a created set is never
\* declared again.
EndingIsFinal ==
    [][\A s \in SetIds :
         LET from == sets[s].lifecycle
             to   == sets[s].lifecycle'
         IN  /\ from \in TerminalSet => to \in {from, "REVOKED", "RETIRED"}
             /\ from = "RETIRED" => to = "RETIRED"
             /\ from \in {"SUPERSEDED", "REVOKED"} => to \in {from, "RETIRED"}
             /\ to = "DECLARED" => from \in {"NONE", "DECLARED"}]_vars

\* An invalidation is never undone by a later observation: a member that fell
\* out of CURRENT keeps its binding and stays out until an explicit act, so no
\* directory change and no reconciliation can bring it back.
NoSilentResurrection ==
    [][(ViewStep \/ (\E t \in Threads : ApplyObserved(t) \/ RefreshPath(t))) =>
         \A s \in SetIds, p \in Paths :
             /\ Usable(sets[s].members[p])' => Usable(sets[s].members[p])
             /\ sets[s].members[p].bound' = sets[s].members[p].bound]_vars

\* A membership is only ever committed under authority that holds at the commit:
\* a call that was in flight when its worker was fenced, unregistered, narrowed
\* or left behind by an epoch commits nothing.
CommitsAreAuthorized ==
    [][\A s \in SetIds :
         sets[s].membership_generation' # sets[s].membership_generation =>
             Authority!AuthorizedFor(sets[s].worker', epoch, s)]_vars

\* The engine's handlers change the authority state only as WorkerAuthority does.
AuthorityRefined == Authority!Spec

\* Every call returns.
CallsReturn ==
    \A t \in Threads : calls[t].op # "none" ~> calls[t].op = "none"

\* Supersession writes two records in one commit and either of them may be
\* superseded, revoked or retired again: whoever is named as predecessor has been
\* superseded by exactly that set, and a superseded set has left authority for
\* good.
LineageHolds ==
    \A s \in SetIds :
        LET r == sets[s]
        IN  /\ r.supersedes # NoSet => sets[r.supersedes].superseded_by = s
            /\ r.superseded_by # NoSet =>
                   /\ r.superseded_by # s /\ Exists(r.superseded_by)
                   /\ r.lifecycle \in {"SUPERSEDED", "REVOKED", "RETIRED"}
                   /\ RouteReadiness(r.lifecycle, r.currentness) = r.lifecycle
=============================================================================
