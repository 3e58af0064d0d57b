-------------------------- MODULE WorkerAuthority --------------------------
(***************************************************************************)
(* Who may mutate: publisher registrations, permanent fences, the governing*)
(* epoch and the authority generation (fabric_authority.cpp, authority.cpp *)
(* and authority_check_locked() of fabric_engine.cpp).                     *)
(*                                                                         *)
(* Fabric and namespace are fixed to one, so a scope is the set of set ids *)
(* it lists; the empty scope covers the whole namespace, as in the code.   *)
(***************************************************************************)
EXTENDS Integers, FiniteSets

CONSTANTS
    Publishers, Boots,        \* a worker is a publisher at one boot
    Sessions,                 \* coordinator sessions
    SetIds,                   \* set identities that a scope can list
    MaxPublishers,            \* limits.max_publishers
    MaxAuthorityGeneration    \* the value at which the counters are exhausted

ASSUME AuthorityAssumption ==
    /\ MaxPublishers \in Nat
    /\ MaxAuthorityGeneration \in Nat \ {0}

VARIABLES
    epoch,                    \* current_epoch
    authority_generation,     \* current_authority_generation
    registrations,            \* publisher/boot |-> its registration, or NoRegistration
    fences                    \* publisher/boot pairs fenced for the life of the store

vars == <<epoch, authority_generation, registrations, fences>>

Workers == Publishers \X Boots

NoSession      == "no_session"
NoRegistration == [session |-> NoSession, scope |-> {}, epoch |-> 0]

Registrations ==
    [session : Sessions \cup {NoSession}, scope : SUBSET SetIds, epoch : Nat]

Registered(w) == registrations[w].epoch # 0
RegisteredWorkers == {w \in Workers : Registered(w)}

\* AuthorityScope::covers() and covers_namespace().
Covers(scope, s)       == scope = {} \/ s \in scope
CoversNamespace(scope) == scope = {}

\* authority_check_locked() up to the scope: the request epoch is the governing
\* one, the worker is not fenced and holds a registration of this epoch.
Authorized(w, e) ==
    /\ e = epoch
    /\ w \notin fences
    /\ Registered(w)
    /\ registrations[w].epoch = epoch

\* The whole check, for a request about set s.
AuthorizedFor(w, e, s) == Authorized(w, e) /\ Covers(registrations[w].scope, s)

Init ==
    /\ epoch = 1
    /\ authority_generation = 1
    /\ registrations = [w \in Workers |-> NoRegistration]
    /\ fences = {}

AuthorityRoom == authority_generation < MaxAuthorityGeneration

\* Mutant: a session keeps the registrations it had.
EvictedNobody(w, session) == registrations

\* Every registration but w's that the session holds is dropped.
Evicted(w, session) ==
    [v \in Workers |-> IF v # w /\ registrations[v].session = session
                       THEN NoRegistration ELSE registrations[v]]

\* register_publisher(): a changed or new registration of a worker that is not
\* fenced.  The eviction happens before the counter is tested, so it stands
\* even when the registration is then refused.
RegisterPublisher(w, scope, session) ==
    LET granted == [session |-> session, scope |-> scope, epoch |-> epoch]
    IN  /\ w \notin fences
        /\ registrations[w] # granted
        /\ Registered(w) \/ Cardinality(RegisteredWorkers) < MaxPublishers
        /\ IF AuthorityRoom
           THEN /\ registrations' = [Evicted(w, session) EXCEPT ![w] = granted]
                /\ authority_generation' = authority_generation + 1
           ELSE /\ registrations' = Evicted(w, session)
                /\ UNCHANGED authority_generation
        /\ UNCHANGED <<epoch, fences>>

\* unregister_publisher(): an exhausted counter does not keep the registration.
UnregisterPublisher(w) ==
    /\ Registered(w)
    /\ registrations' = [registrations EXCEPT ![w] = NoRegistration]
    /\ authority_generation' =
         IF AuthorityRoom THEN authority_generation + 1 ELSE authority_generation
    /\ UNCHANGED <<epoch, fences>>

\* Mutant: the fence leaves the registration in place.
FenceWorkerKeepsGrant(w) ==
    /\ w \notin fences
    /\ AuthorityRoom
    /\ fences' = fences \cup {w}
    /\ authority_generation' = authority_generation + 1
    /\ UNCHANGED <<epoch, registrations>>

\* fence_worker(): any pair can be fenced, registered or not.
FenceWorker(w) ==
    /\ w \notin fences
    /\ AuthorityRoom
    /\ fences' = fences \cup {w}
    /\ registrations' = [registrations EXCEPT ![w] = NoRegistration]
    /\ authority_generation' = authority_generation + 1
    /\ UNCHANGED epoch

\* Mutant: the fences of the new epoch replace the old ones.
AdvanceEpochForgetsFences(w, session) ==
    /\ w \notin fences
    /\ Registered(w)
    /\ registrations[w].session = session
    /\ epoch < MaxAuthorityGeneration
    /\ AuthorityRoom
    /\ fences' = RegisteredWorkers
    /\ registrations' = [v \in Workers |-> NoRegistration]
    /\ epoch' = epoch + 1
    /\ authority_generation' = authority_generation + 1

\* advance_epoch(), called by a registered worker over its own session: every
\* registration is dropped and fenced.
AdvanceEpoch(w, session) ==
    /\ w \notin fences
    /\ Registered(w)
    /\ registrations[w].session = session
    /\ epoch < MaxAuthorityGeneration
    /\ AuthorityRoom
    /\ fences' = fences \cup RegisteredWorkers
    /\ registrations' = [v \in Workers |-> NoRegistration]
    /\ epoch' = epoch + 1
    /\ authority_generation' = authority_generation + 1

Next ==
    \/ \E w \in Workers, scope \in SUBSET SetIds, session \in Sessions :
           RegisterPublisher(w, scope, session)
    \/ \E w \in Workers : UnregisterPublisher(w) \/ FenceWorker(w)
    \/ \E w \in Workers, session \in Sessions : AdvanceEpoch(w, session)

Spec == Init /\ [][Next]_vars
-----------------------------------------------------------------------------
\* Type invariant of the authority state.
TypeOK ==
    /\ epoch \in 1 .. MaxAuthorityGeneration
    /\ authority_generation \in 1 .. MaxAuthorityGeneration
    /\ registrations \in [Workers -> Registrations]
    /\ fences \subseteq Workers

\* "A fenced boot is rejected permanently": no fenced pair holds a registration,
\* and every registration that is held belongs to the governing epoch.
AuthorityIsLive ==
    \A w \in Workers :
        Registered(w) => w \notin fences /\ registrations[w].epoch = epoch

\* "One session holds at most one publisher/boot registration": what the
\* eviction loop of register_publisher() is for.
OneWorkerPerSession ==
    \A w, v \in RegisteredWorkers :
        registrations[w].session = registrations[v].session => w = v

\* A fence is never lifted, and neither the epoch nor the authority generation
\* goes back; an epoch change leaves no registration behind.
AuthorityMovesForward ==
    [][/\ fences \subseteq fences'
       /\ epoch' >= epoch
       /\ authority_generation' >= authority_generation
       /\ epoch' # epoch => RegisteredWorkers \subseteq fences']_vars
=============================================================================
