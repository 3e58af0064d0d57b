------------------------- MODULE CoordinatorProofs -------------------------
(***************************************************************************)
(* Proofs about WorkerAuthority and Coordinator, for every set of workers, *)
(* sessions and set ids and every limit: who is registered is not fenced   *)
(* and alone on its session; the server moves the authority only by steps  *)
(* of WorkerAuthority; and every registration belongs to a session that    *)
(* will fence its worker.                                                  *)
(***************************************************************************)
EXTENDS Coordinator, TLAPS, FiniteSetTheorems

\* One worker's registration after a step that only drops registrations.
LEMMA EvictedType ==
    ASSUME TypeOK, NEW w \in Workers, NEW session \in Sessions
    PROVE  Evicted(w, session) \in [Workers -> Registrations]
BY DEF Evicted, TypeOK, Registrations, NoRegistration, NoSession

\* What register_publisher() does to one registration v: grants it (v = w), drops
\* it, or leaves it alone; and a registration that it leaves alone next to the
\* granted one belongs to another session.
LEMMA GrantEffect ==
    ASSUME TypeOK, NEW w \in Workers, NEW scope \in SUBSET SetIds, NEW session \in Sessions,
           RegisterPublisher(w, scope, session), NEW v \in Workers
    PROVE  /\ \/ registrations'[v] = NoRegistration
              \/ registrations'[v] = registrations[v]
              \/ v = w /\ registrations'[v] = [session |-> session, scope |-> scope, epoch |-> epoch]
           /\ v # w => \/ registrations'[v] = NoRegistration
                       \/ /\ registrations'[v] = registrations[v]
                          /\ registrations[v].session # session
           /\ \/ registrations'[w] = registrations[w]
              \/ registrations'[w].session = session
<1>1. Evicted(w, session) \in [Workers -> Registrations]
  BY EvictedType
<1>2. /\ Evicted(w, session)[v] = IF v # w /\ registrations[v].session = session
                                   THEN NoRegistration ELSE registrations[v]
      /\ Evicted(w, session)[w] = registrations[w]
  BY DEF Evicted
<1>3. CASE AuthorityRoom
  <2> DEFINE grant == [session |-> session, scope |-> scope, epoch |-> epoch]
  <2>1. registrations' = [Evicted(w, session) EXCEPT ![w] = grant]
    BY <1>3 DEF RegisterPublisher
  <2>2. registrations'[w] = grant /\ (v # w => registrations'[v] = Evicted(w, session)[v])
    BY <1>1, <2>1
  <2> QED
    BY <1>2, <2>2
<1>4. CASE ~AuthorityRoom
  BY <1>2, <1>4 DEF RegisterPublisher
<1> QED
  BY <1>3, <1>4

\* Every step of the authority keeps its types.
LEMMA TypeStep == TypeOK /\ [Next]_vars => TypeOK'
<1> SUFFICES ASSUME TypeOK, [Next]_vars PROVE TypeOK'
  OBVIOUS
<1> USE AuthorityAssumption
<1>1. ASSUME NEW w \in Workers, NEW scope \in SUBSET SetIds, NEW session \in Sessions,
             RegisterPublisher(w, scope, session)
      PROVE  TypeOK'
  <2>1. Evicted(w, session) \in [Workers -> Registrations]
    BY EvictedType
  <2>2. [session |-> session, scope |-> scope, epoch |-> epoch] \in Registrations
    BY DEF TypeOK, Registrations
  <2> QED
    BY <1>1, <2>1, <2>2 DEF TypeOK, RegisterPublisher, AuthorityRoom
<1>2. ASSUME NEW w \in Workers, UnregisterPublisher(w)
      PROVE  TypeOK'
  BY <1>2 DEF TypeOK, UnregisterPublisher, AuthorityRoom, Registrations, NoRegistration, NoSession
<1>3. ASSUME NEW w \in Workers, FenceWorker(w)
      PROVE  TypeOK'
  BY <1>3 DEF TypeOK, FenceWorker, AuthorityRoom, Registrations, NoRegistration, NoSession
<1>4. ASSUME NEW w \in Workers, NEW session \in Sessions, AdvanceEpoch(w, session)
      PROVE  TypeOK'
  BY <1>4 DEF TypeOK, AdvanceEpoch, AuthorityRoom, Registrations, NoRegistration, NoSession,
              RegisteredWorkers
<1>5. CASE UNCHANGED vars
  BY <1>5 DEF vars, TypeOK
<1> QED
  BY <1>1, <1>2, <1>3, <1>4, <1>5 DEF Next

\* The authority state keeps its type: in particular neither the epoch nor the
\* authority generation runs past the value at which it is exhausted.
THEOREM TypeCorrect == Spec => []TypeOK
<1>1. Init => TypeOK
  BY AuthorityAssumption DEF Init, TypeOK, Registrations, NoRegistration, NoSession
<1> QED
  BY <1>1, TypeStep, PTL DEF Spec

\* ... and no fenced worker gains or keeps a registration by it.
LEMMA LiveStep == TypeOK /\ AuthorityIsLive /\ [Next]_vars => AuthorityIsLive'
<1> SUFFICES ASSUME TypeOK, AuthorityIsLive, [Next]_vars PROVE AuthorityIsLive'
  OBVIOUS
<1> USE DEF TypeOK, AuthorityIsLive, Registered, NoRegistration
<1>1. ASSUME NEW w \in Workers, NEW scope \in SUBSET SetIds, NEW session \in Sessions,
             RegisterPublisher(w, scope, session)
      PROVE  AuthorityIsLive'
  <2> SUFFICES ASSUME NEW v \in Workers, Registered(v)'
               PROVE  v \notin fences' /\ registrations'[v].epoch = epoch'
    OBVIOUS
  <2>1. /\ \/ registrations'[v] = registrations[v]
           \/ v = w /\ registrations'[v] = [session |-> session, scope |-> scope, epoch |-> epoch]
    BY <1>1, GrantEffect
  <2> QED
    BY <1>1, <2>1 DEF RegisterPublisher
<1>2. ASSUME NEW w \in Workers, UnregisterPublisher(w)
      PROVE  AuthorityIsLive'
  BY <1>2 DEF UnregisterPublisher
<1>3. ASSUME NEW w \in Workers, FenceWorker(w)
      PROVE  AuthorityIsLive'
  BY <1>3 DEF FenceWorker
<1>4. ASSUME NEW w \in Workers, NEW session \in Sessions, AdvanceEpoch(w, session)
      PROVE  AuthorityIsLive'
  BY <1>4 DEF AdvanceEpoch
<1>5. CASE UNCHANGED vars
  BY <1>5 DEF vars
<1> QED
  BY <1>1, <1>2, <1>3, <1>4, <1>5 DEF Next

\* "A fenced boot is rejected permanently", and no registration outlives its
\* epoch: whoever registers is not fenced, a fence removes the registration, and
\* an epoch change removes all of them.
THEOREM RegistrationsAreLive == Spec => []AuthorityIsLive
<1>1. Init => AuthorityIsLive
  BY DEF Init, AuthorityIsLive, Registered, NoRegistration
<1> QED
  BY <1>1, LiveStep, TypeCorrect, PTL DEF Spec

\* ... nor a session a second one.
LEMMA OneWorkerStep == TypeOK /\ OneWorkerPerSession /\ [Next]_vars => OneWorkerPerSession'
<1> SUFFICES ASSUME TypeOK, OneWorkerPerSession, [Next]_vars PROVE OneWorkerPerSession'
  OBVIOUS
<1>1. ASSUME NEW w \in Workers, NEW scope \in SUBSET SetIds, NEW session \in Sessions,
             RegisterPublisher(w, scope, session)
      PROVE  OneWorkerPerSession'
  <2> SUFFICES ASSUME NEW u \in Workers, NEW v \in Workers, Registered(u)', Registered(v)',
                      registrations'[u].session = registrations'[v].session
               PROVE  u = v
    BY DEF OneWorkerPerSession, RegisteredWorkers
  <2>1. \A x \in Workers : Registered(x)' =>
            \/ registrations'[x] = registrations[x] /\ (x # w => registrations[x].session # session)
            \/ x = w /\ registrations'[x].session = session
    <3> SUFFICES ASSUME NEW x \in Workers, Registered(x)'
                 PROVE  \/ /\ registrations'[x] = registrations[x]
                           /\ x # w => registrations[x].session # session
                        \/ x = w /\ registrations'[x].session = session
      OBVIOUS
    <3>1. registrations'[x] # NoRegistration
      BY DEF Registered, NoRegistration
    <3>2. x # w => \/ registrations'[x] = NoRegistration
                   \/ /\ registrations'[x] = registrations[x]
                      /\ registrations[x].session # session
      BY <1>1, GrantEffect DEF RegisterPublisher
    <3>3. registrations'[w] = registrations[w] \/ registrations'[w].session = session
      BY <1>1, GrantEffect DEF RegisterPublisher
    <3> QED
      BY <3>1, <3>2, <3>3
  <2> QED
    BY <2>1 DEF OneWorkerPerSession, RegisteredWorkers, Registered
<1>2. ASSUME NEW w \in Workers, UnregisterPublisher(w)
      PROVE  OneWorkerPerSession'
  BY <1>2 DEF UnregisterPublisher, TypeOK, OneWorkerPerSession, RegisteredWorkers,
              Registered, NoRegistration
<1>3. ASSUME NEW w \in Workers, FenceWorker(w)
      PROVE  OneWorkerPerSession'
  BY <1>3 DEF FenceWorker, TypeOK, OneWorkerPerSession, RegisteredWorkers,
              Registered, NoRegistration
<1>4. ASSUME NEW w \in Workers, NEW session \in Sessions, AdvanceEpoch(w, session)
      PROVE  OneWorkerPerSession'
  BY <1>4 DEF AdvanceEpoch, TypeOK, OneWorkerPerSession, RegisteredWorkers,
              Registered, NoRegistration
<1>5. CASE UNCHANGED vars
  BY <1>5 DEF vars, OneWorkerPerSession, RegisteredWorkers, Registered
<1> QED
  BY <1>1, <1>2, <1>3, <1>4, <1>5 DEF Next

\* "One session holds at most one publisher/boot registration": the eviction
\* loop of register_publisher() is enough, because nothing else grants.
THEOREM SessionsHoldOneWorker == Spec => []OneWorkerPerSession
<1>1. Init => OneWorkerPerSession
  BY DEF Init, OneWorkerPerSession, RegisteredWorkers, Registered, NoRegistration
<1> QED
  BY <1>1, OneWorkerStep, TypeCorrect, PTL DEF Spec

\* Fences, the epoch and the authority generation only move forward, and an
\* epoch change fences every worker that was registered.
THEOREM AuthorityProgresses == Spec => AuthorityMovesForward
<1>1. TypeOK /\ [Next]_vars =>
        [/\ fences \subseteq fences'
         /\ epoch' >= epoch
         /\ authority_generation' >= authority_generation
         /\ epoch' # epoch => RegisteredWorkers \subseteq fences']_vars
  <2> SUFFICES ASSUME TypeOK, Next
               PROVE  /\ fences \subseteq fences'
                      /\ epoch' >= epoch
                      /\ authority_generation' >= authority_generation
                      /\ epoch' # epoch => RegisteredWorkers \subseteq fences'
    OBVIOUS
  <2> USE DEF TypeOK
  <2>1. CASE \E w \in Workers, scope \in SUBSET SetIds, session \in Sessions :
                 RegisterPublisher(w, scope, session)
    BY <2>1 DEF RegisterPublisher
  <2>2. CASE \E w \in Workers : UnregisterPublisher(w)
    BY <2>2 DEF UnregisterPublisher
  <2>3. CASE \E w \in Workers : FenceWorker(w)
    BY <2>3 DEF FenceWorker
  <2>4. CASE \E w \in Workers, session \in Sessions : AdvanceEpoch(w, session)
    BY <2>4 DEF AdvanceEpoch
  <2> QED
    BY <2>1, <2>2, <2>3, <2>4 DEF Next
<1> QED
  BY <1>1, TypeCorrect, PTL DEF Spec, AuthorityMovesForward
-----------------------------------------------------------------------------

\* What the theorems above show of every reachable authority state.
AuthorityInv == TypeOK /\ AuthorityIsLive /\ OneWorkerPerSession

SessionTypes ==
    /\ phase \in [Sessions -> Phases]
    /\ table \subseteq Sessions /\ IsFiniteSet(table) /\ Cardinality(table) <= MaxSessions
    /\ granted \in [Sessions -> Workers \cup {NoWorker}]
    /\ bound \in [Sessions -> Workers \cup {NoWorker}]
    /\ stopping \in BOOLEAN
    /\ acceptor \in {"looping", "joining", "ended"}

\* Between the halves of a registration the session is open, and no other
\* worker is registered over it.
GrantsAreAlone ==
    \A x \in Sessions : granted[x] # NoWorker =>
        /\ phase[x] = "open"
        /\ \A v \in RegisteredWorkers : registrations[v].session = x => v = granted[x]

\* A registration names a session of the server.
SessionsAreNamed == \A v \in RegisteredWorkers : registrations[v].session \in Sessions

SessionInv ==
    SessionTypes /\ SessionsAreNamed /\ GrantsAreAlone /\ RegistrationsAreServed /\ LostWorkersAreFenced
-----------------------------------------------------------------------------
LEMMA NoWorkerIsNone == NoWorker \notin Workers
BY DEF NoWorker, Workers

\* What a step of the authority does to registrations, fences and counters.
LEMMA AuthorityEffect ==
    ASSUME AuthorityInv, NEW w \in Workers, NEW x \in Sessions, NEW scope \in SUBSET SetIds
    PROVE  /\ RegisterPublisher(w, scope, x) =>
                 /\ AuthorityRoom' => AuthorityRoom
                 /\ fences' = fences
                 /\ \A v \in Workers : Registered(v)' =>
                        \/ v = w /\ AuthorityRoom /\ registrations'[v].session = x
                        \/ /\ registrations'[v] = registrations[v] /\ Registered(v)
                           /\ v # w => registrations[v].session # x
           /\ FenceWorker(w) =>
                 /\ AuthorityRoom' => AuthorityRoom
                 /\ fences' = fences \cup {w}
                 /\ ~ Registered(w)'
                 /\ \A v \in Workers : Registered(v)' => registrations'[v] = registrations[v]
           /\ AdvanceEpoch(w, x) =>
                 /\ AuthorityRoom' => AuthorityRoom
                 /\ fences \subseteq fences'
                 /\ \A v \in Workers : ~ Registered(v)'
<1> USE AuthorityAssumption
<1>1. authority_generation \in Nat /\ MaxAuthorityGeneration \in Nat
  BY DEF AuthorityInv, TypeOK
<1>2. ASSUME RegisterPublisher(w, scope, x)
      PROVE  /\ AuthorityRoom' => AuthorityRoom
             /\ fences' = fences
             /\ \A v \in Workers : Registered(v)' =>
                    \/ v = w /\ AuthorityRoom /\ registrations'[v].session = x
                    \/ /\ registrations'[v] = registrations[v] /\ Registered(v)
                       /\ v # w => registrations[v].session # x
  <2>1. (AuthorityRoom' => AuthorityRoom) /\ fences' = fences
    BY <1>1, <1>2 DEF RegisterPublisher, AuthorityRoom
  <2>2. ASSUME NEW v \in Workers, Registered(v)'
        PROVE  \/ v = w /\ AuthorityRoom /\ registrations'[v].session = x
               \/ /\ registrations'[v] = registrations[v] /\ Registered(v)
                  /\ v # w => registrations[v].session # x
    <3>1. Evicted(w, x) \in [Workers -> Registrations]
      BY EvictedType DEF AuthorityInv
    <3>2. Evicted(w, x)[v] = IF v # w /\ registrations[v].session = x
                             THEN NoRegistration ELSE registrations[v]
      BY DEF Evicted
    <3>3. CASE AuthorityRoom
      <4>1. registrations' = [Evicted(w, x) EXCEPT
                                ![w] = [session |-> x, scope |-> scope, epoch |-> epoch]]
        BY <1>2, <3>3 DEF RegisterPublisher
      <4> QED BY <2>2, <3>1, <3>2, <3>3, <4>1 DEF Registered, NoRegistration
    <3>4. CASE ~ AuthorityRoom
      BY <1>2, <2>2, <3>2, <3>4 DEF RegisterPublisher, Registered, NoRegistration
    <3> QED BY <3>3, <3>4
  <2> QED BY <2>1, <2>2
<1>3. ASSUME FenceWorker(w)
      PROVE  /\ AuthorityRoom' => AuthorityRoom
             /\ fences' = fences \cup {w}
             /\ ~ Registered(w)'
             /\ \A v \in Workers : Registered(v)' => registrations'[v] = registrations[v]
  BY <1>1, <1>3 DEF FenceWorker, AuthorityRoom, Registered, NoRegistration, AuthorityInv, TypeOK
<1>4. ASSUME AdvanceEpoch(w, x)
      PROVE  /\ AuthorityRoom' => AuthorityRoom
             /\ fences \subseteq fences'
             /\ \A v \in Workers : ~ Registered(v)'
  BY <1>1, <1>4 DEF AdvanceEpoch, AuthorityRoom, Registered, NoRegistration
<1> QED BY <1>2, <1>3, <1>4
-----------------------------------------------------------------------------
\* The server moves the authority state only by steps of WorkerAuthority.
LEMMA ServerStepRefines ==
    ASSUME [ServerNext]_server_vars
    PROVE  [Next]_vars
<1>1. CASE UNCHANGED server_vars
  BY <1>1 DEF server_vars, authority, vars
<1>2. CASE Reap \/ LeaveAcceptLoop \/ EndAcceptThread \/ Stop
  BY <1>2 DEF Reap, LeaveAcceptLoop, EndAcceptThread, Stop, authority, vars
<1>3. ASSUME NEW x \in Sessions, Accept(x) \/ Bind(x) \/ Lose(x) \/ LeaveOnStop(x)
      PROVE  [Next]_vars
  BY <1>3 DEF Accept, Bind, Lose, LeaveOnStop, Leave, authority, vars
<1>4. ASSUME NEW x \in Sessions, EndSession(x) PROVE [Next]_vars
  BY <1>4 DEF EndSession, authority, vars, Next
<1>5. ASSUME NEW x \in Sessions, NEW w \in Workers, NEW scope \in SUBSET SetIds, Register(x, w, scope)
      PROVE  [Next]_vars
  BY <1>5 DEF Register, Next
<1>6. ASSUME NEW x \in Sessions, NEW w \in Workers, RegisterAgain(x, w) \/ RequestEpoch(x, w)
      PROVE  [Next]_vars
  BY <1>6 DEF RegisterAgain, RequestEpoch, authority, vars, Next
<1> QED BY <1>1, <1>2, <1>3, <1>4, <1>5, <1>6 DEF ServerNext

\* Whatever sessions do, registrations, fences and counters move as
\* WorkerAuthority says, so its theorems hold of the server.
THEOREM ServerRefinesAuthority == ServerSpec => Spec
<1>1. ServerInit => Init
  BY DEF ServerInit
<1> QED BY <1>1, ServerStepRefines, PTL DEF ServerSpec, Spec

LEMMA AuthorityStep == ASSUME AuthorityInv, [Next]_vars PROVE AuthorityInv'
BY TypeStep, LiveStep, OneWorkerStep DEF AuthorityInv

LEMMA AuthorityStart == ASSUME Init PROVE AuthorityInv
<1>1. TypeOK
  BY AuthorityAssumption DEF Init, TypeOK, Registrations, NoRegistration, NoSession
<1> QED BY <1>1 DEF AuthorityInv, Init, AuthorityIsLive, OneWorkerPerSession, RegisteredWorkers,
                    Registered, NoRegistration

LEMMA AuthorityHolds == ServerSpec => []AuthorityInv
BY ServerRefinesAuthority, TypeCorrect, RegistrationsAreLive, SessionsHoldOneWorker, PTL
   DEF AuthorityInv
-----------------------------------------------------------------------------
LEMMA SessionInit == ServerInit => SessionInv
<1> SUFFICES ASSUME ServerInit PROVE SessionInv
  OBVIOUS
<1>1. IsFiniteSet({}) /\ Cardinality({}) <= MaxSessions
  BY FS_EmptySet, CoordinatorAssumption
<1>2. SessionTypes
  BY <1>1 DEF ServerInit, SessionTypes, Phases
<1>3. SessionsAreNamed /\ GrantsAreAlone /\ RegistrationsAreServed /\ LostWorkersAreFenced
  BY DEF ServerInit, Init, SessionsAreNamed, GrantsAreAlone, RegistrationsAreServed, LostWorkersAreFenced,
         RegisteredWorkers, Registered, NoRegistration
<1> QED BY <1>2, <1>3 DEF SessionInv

\* Neither authority nor what a session is bound to changes, and the only change
\* of phase is that a session opens.
LEMMA CarriedOver ==
    ASSUME SessionInv, SessionTypes', UNCHANGED <<authority, granted, bound>>,
           \A y \in Sessions : phase'[y] # phase[y] => phase[y] = "unused" /\ phase'[y] = "open"
    PROVE  SessionInv'
<1>1. UNCHANGED <<epoch, authority_generation, registrations, fences, granted, bound>>
  BY DEF authority
<1>2. SessionsAreNamed' /\ GrantsAreAlone'
  BY <1>1 DEF SessionInv, SessionsAreNamed, GrantsAreAlone, RegisteredWorkers, Registered
<1>3. RegistrationsAreServed'
  BY <1>1 DEF SessionInv, SessionsAreNamed, RegistrationsAreServed, RegisteredWorkers, Registered,
              AuthorityRoom
<1>4. LostWorkersAreFenced'
  BY <1>1 DEF SessionInv, LostWorkersAreFenced, AuthorityRoom
<1> QED BY <1>2, <1>3, <1>4 DEF SessionInv

\* Steps that change neither authority, nor what a session is bound to, nor the
\* phase of a session that is in use.
LEMMA TableStep ==
    ASSUME SessionInv,
           \/ Reap \/ LeaveAcceptLoop \/ EndAcceptThread \/ Stop
           \/ \E x \in Sessions : Accept(x)
    PROVE  SessionInv'
<1> USE DEF authority
<1>1. SessionTypes'
  <2>1. CASE Reap
    <3>1. table' \subseteq table /\ IsFiniteSet(table)
      BY <2>1 DEF Reap, SessionInv, SessionTypes
    <3>2. IsFiniteSet(table') /\ Cardinality(table') <= Cardinality(table)
      BY <3>1, FS_Subset
    <3>3. Cardinality(table) \in Nat /\ Cardinality(table') \in Nat
      BY <3>1, <3>2, FS_CardinalityType
    <3> QED BY <2>1, <3>1, <3>2, <3>3, CoordinatorAssumption DEF Reap, SessionInv, SessionTypes
  <2>2. CASE LeaveAcceptLoop
    BY <2>2, FS_EmptySet, CoordinatorAssumption DEF LeaveAcceptLoop, SessionInv, SessionTypes
  <2>3. CASE EndAcceptThread \/ Stop
    BY <2>3 DEF EndAcceptThread, Stop, SessionInv, SessionTypes
  <2>4. ASSUME NEW x \in Sessions, Accept(x) PROVE SessionTypes'
    <3>1. IsFiniteSet(table) /\ Cardinality(table) < MaxSessions /\ table' = table \cup {x}
      BY <2>4 DEF Accept, SessionInv, SessionTypes
    <3>2. /\ IsFiniteSet(table')
          /\ Cardinality(table') = Cardinality(table) \/ Cardinality(table') = Cardinality(table) + 1
      BY <3>1, FS_AddElement
    <3>3. Cardinality(table) \in Nat
      BY <3>1, FS_CardinalityType
    <3> QED BY <2>4, <3>1, <3>2, <3>3, CoordinatorAssumption
            DEF Accept, SessionInv, SessionTypes, Phases
  <2> QED BY <2>1, <2>2, <2>3, <2>4
<1>2. UNCHANGED <<authority, granted, bound>>
  BY DEF Reap, LeaveAcceptLoop, EndAcceptThread, Stop, Accept
<1>3. \A y \in Sessions : phase'[y] # phase[y] => phase[y] = "unused" /\ phase'[y] = "open"
  <2>1. phase' = phase \/ \E x \in Sessions : Accept(x)
    BY DEF Reap, LeaveAcceptLoop, EndAcceptThread, Stop
  <2>2. ASSUME NEW x \in Sessions, Accept(x), NEW y \in Sessions
        PROVE  phase'[y] # phase[y] => phase[y] = "unused" /\ phase'[y] = "open"
    BY <2>2 DEF Accept, SessionInv, SessionTypes
  <2> QED BY <2>1, <2>2
<1> QED
  BY <1>1, <1>2, <1>3, CarriedOver

\* Of the steps of one session thread, those that leave the authority alone.
LEMMA QuietSessionStep ==
    ASSUME AuthorityInv, SessionInv, NEW x \in Sessions,
           \/ Bind(x) \/ Lose(x) \/ LeaveOnStop(x)
           \/ \E w \in Workers : RegisterAgain(x, w)
    PROVE  SessionInv'
<1> USE DEF SessionInv, authority
<1>1. SessionTypes'
  BY DEF Bind, Lose, LeaveOnStop, Leave, RegisterAgain, SessionTypes, Phases
<1>2. UNCHANGED <<epoch, authority_generation, registrations, fences>>
  BY DEF Bind, Lose, LeaveOnStop, Leave, RegisterAgain
<1>3. SessionsAreNamed'
  BY <1>2 DEF SessionsAreNamed, RegisteredWorkers, Registered
<1>4. CASE Bind(x)
  <2>1. /\ granted[x] # NoWorker /\ phase' = phase
        /\ bound' = [bound EXCEPT ![x] = granted[x]]
        /\ granted' = [granted EXCEPT ![x] = NoWorker]
    BY <1>4 DEF Bind
  <2>2. GrantsAreAlone'
    BY <1>2, <2>1 DEF GrantsAreAlone, SessionTypes, RegisteredWorkers, Registered
  <2>3. RegistrationsAreServed'
    BY <1>2, <2>1 DEF RegistrationsAreServed, GrantsAreAlone, SessionsAreNamed, SessionTypes,
                      RegisteredWorkers, Registered, AuthorityRoom
  <2>4. LostWorkersAreFenced'
    BY <1>2, <2>1 DEF LostWorkersAreFenced, GrantsAreAlone, SessionTypes, AuthorityRoom
  <2> QED BY <1>1, <1>3, <2>2, <2>3, <2>4
<1>5. CASE Leave(x)
  <2>1. /\ phase[x] = "open" /\ granted[x] = NoWorker /\ UNCHANGED <<granted, bound>>
        /\ phase' = [phase EXCEPT ![x] = "ending"]
    BY <1>5 DEF Leave, Idle
  <2> QED
    BY <1>1, <1>2, <1>3, <2>1
    DEF GrantsAreAlone, RegistrationsAreServed, LostWorkersAreFenced, SessionsAreNamed,
        SessionTypes, RegisteredWorkers, Registered, AuthorityRoom
<1>6. ASSUME NEW w \in Workers, RegisterAgain(x, w) PROVE SessionInv'
  <2>1. /\ phase[x] = "open" /\ granted[x] = NoWorker /\ UNCHANGED <<phase, bound>>
        /\ Registered(w) /\ registrations[w].session = x
        /\ granted' = [granted EXCEPT ![x] = w]
    BY <1>6 DEF RegisterAgain, Idle
  <2>2. \A v \in RegisteredWorkers : registrations[v].session = x => v = w
    BY <2>1 DEF AuthorityInv, OneWorkerPerSession, RegisteredWorkers
  <2>3. GrantsAreAlone'
    BY <1>2, <2>1, <2>2 DEF GrantsAreAlone, SessionTypes, RegisteredWorkers, Registered
  <2>4. RegistrationsAreServed'
    BY <1>2, <2>1, <2>2 DEF RegistrationsAreServed, SessionsAreNamed, SessionTypes,
                            RegisteredWorkers, Registered, AuthorityRoom
  <2>5. LostWorkersAreFenced'
    BY <1>2, <2>1 DEF LostWorkersAreFenced, AuthorityRoom
  <2> QED BY <1>1, <1>3, <2>3, <2>4, <2>5
<1> QED BY <1>4, <1>5, <1>6 DEF Lose, LeaveOnStop

\* A new registration: it evicts whoever the session served, and binds later.
LEMMA RegisterStep ==
    ASSUME AuthorityInv, SessionInv, NEW x \in Sessions, NEW w \in Workers,
           NEW scope \in SUBSET SetIds, Register(x, w, scope)
    PROVE  SessionInv'
<1> USE DEF SessionInv
<1>1. /\ phase[x] = "open" /\ granted[x] = NoWorker
      /\ UNCHANGED <<phase, table, bound, stopping, acceptor>>
      /\ granted' = IF AuthorityRoom THEN [granted EXCEPT ![x] = w] ELSE granted
      /\ RegisterPublisher(w, scope, x)
  BY DEF Register, Idle
<1>2. /\ AuthorityRoom' => AuthorityRoom
      /\ fences' = fences
      /\ \A v \in Workers : Registered(v)' =>
             \/ v = w /\ AuthorityRoom /\ registrations'[v].session = x
             \/ /\ registrations'[v] = registrations[v] /\ Registered(v)
                /\ v # w => registrations[v].session # x
  BY <1>1, AuthorityEffect
<1>3. SessionTypes'
  BY <1>1 DEF SessionTypes
<1>4. SessionsAreNamed'
  BY <1>2 DEF SessionsAreNamed, RegisteredWorkers
<1>5. GrantsAreAlone'
  <2> SUFFICES ASSUME NEW y \in Sessions, granted'[y] # NoWorker
               PROVE  /\ phase'[y] = "open"
                      /\ \A v \in Workers : Registered(v)' /\ registrations'[v].session = y
                                            => v = granted'[y]
    BY DEF GrantsAreAlone, RegisteredWorkers
  <2>1. CASE y = x
    BY <1>1, <1>2, <2>1 DEF SessionTypes
  <2>2. CASE y # x
    <3>1. granted'[y] = granted[y]
      BY <1>1, <2>2 DEF SessionTypes
    <3> QED BY <1>1, <1>2, <2>2, <3>1 DEF GrantsAreAlone, RegisteredWorkers
  <2> QED BY <2>1, <2>2
<1>6. RegistrationsAreServed'
  <2> SUFFICES ASSUME AuthorityRoom', NEW v \in Workers, Registered(v)'
               PROVE  /\ phase'[registrations'[v].session] \in {"open", "ending"}
                      /\ v \in {granted'[registrations'[v].session], bound'[registrations'[v].session]}
    BY DEF RegistrationsAreServed, RegisteredWorkers
  <2>1. AuthorityRoom /\ granted' = [granted EXCEPT ![x] = w]
    BY <1>1, <1>2
  <2>2. CASE v = w /\ registrations'[v].session = x
    BY <1>1, <2>1, <2>2 DEF SessionTypes
  <2>3. CASE registrations'[v] = registrations[v] /\ Registered(v) /\ registrations[v].session # x
    <3>1. registrations[v].session \in Sessions
      BY <2>3 DEF SessionsAreNamed, RegisteredWorkers
    <3> QED BY <1>1, <2>1, <2>3, <3>1 DEF RegistrationsAreServed, RegisteredWorkers, SessionTypes
  <2>4. CASE v = w /\ registrations'[v] = registrations[v] /\ registrations[v].session = x
    BY <1>1, <2>1, <2>4 DEF SessionTypes
  <2> QED BY <1>2, <2>2, <2>3, <2>4
<1>7. LostWorkersAreFenced'
  BY <1>1, <1>2 DEF LostWorkersAreFenced
<1> QED BY <1>3, <1>4, <1>5, <1>6, <1>7

LEMMA RequestEpochStep ==
    ASSUME AuthorityInv, SessionInv, NEW x \in Sessions, NEW w \in Workers, RequestEpoch(x, w)
    PROVE  SessionInv'
<1>1. AdvanceEpoch(w, x) /\ UNCHANGED <<phase, table, granted, bound, stopping, acceptor>>
  BY DEF RequestEpoch, server
<1>2. /\ AuthorityRoom' => AuthorityRoom
      /\ fences \subseteq fences'
      /\ \A v \in Workers : ~ Registered(v)'
  BY <1>1, AuthorityEffect
<1> QED
  BY <1>1, <1>2 DEF SessionInv, SessionTypes, SessionsAreNamed, GrantsAreAlone,
                    RegistrationsAreServed, LostWorkersAreFenced, RegisteredWorkers

\* The end of a session: whoever is registered over it is bound to it, and is
\* fenced unless the counter is exhausted.
LEMMA EndSessionStep ==
    ASSUME AuthorityInv, SessionInv, NEW x \in Sessions, EndSession(x)
    PROVE  SessionInv'
<1> USE DEF SessionInv
<1>1. /\ phase[x] = "ending" /\ phase' = [phase EXCEPT ![x] = "done"]
      /\ UNCHANGED <<table, granted, bound, stopping, acceptor>>
  BY DEF EndSession
<1>2. granted[x] = NoWorker
  BY <1>1 DEF GrantsAreAlone
<1>3. SessionTypes'
  BY <1>1 DEF SessionTypes, Phases
<1>4. /\ AuthorityRoom' => AuthorityRoom
      /\ fences \subseteq fences'
      /\ \A v \in Workers : Registered(v)' => Registered(v) /\ registrations'[v] = registrations[v]
      /\ AuthorityRoom' /\ bound[x] # NoWorker => bound[x] \in fences'
      /\ \A v \in Workers : AuthorityRoom' /\ v = bound[x] => ~ Registered(v)'
  <2>1. CASE bound[x] \in Workers \ fences /\ AuthorityRoom
    <3>1. PICK w \in Workers : w = bound[x] /\ FenceWorker(w)
      BY <2>1 DEF EndSession
    <3>2. /\ AuthorityRoom' => AuthorityRoom
          /\ fences' = fences \cup {w}
          /\ ~ Registered(w)'
          /\ \A v \in Workers : Registered(v)' => registrations'[v] = registrations[v]
      BY <3>1, AuthorityEffect, {} \in SUBSET SetIds
    <3>3. \A v \in Workers : Registered(v)' => Registered(v)
      BY <3>2 DEF Registered
    <3> QED BY <3>1, <3>2, <3>3
  <2>2. CASE ~ (bound[x] \in Workers \ fences /\ AuthorityRoom)
    <3>1. UNCHANGED <<epoch, authority_generation, registrations, fences>>
      BY <2>2 DEF EndSession, authority
    <3>2. bound[x] \in Workers \cup {NoWorker}
      BY DEF SessionTypes
    <3>3. /\ AuthorityRoom' <=> AuthorityRoom
          /\ \A v \in Workers : Registered(v)' <=> Registered(v)
      BY <3>1 DEF AuthorityRoom, Registered
    <3>4. \A v \in Workers : Registered(v) => v \notin fences
      BY DEF AuthorityInv, AuthorityIsLive
    <3>5. AuthorityRoom /\ bound[x] # NoWorker => bound[x] \in fences
      BY <2>2, <3>2
    <3>6. \A v \in Workers : AuthorityRoom /\ v = bound[x] => v \in fences
      BY <2>2
    <3> QED BY <3>1, <3>3, <3>4, <3>5, <3>6
  <2> QED BY <2>1, <2>2
<1>5. SessionsAreNamed' /\ GrantsAreAlone'
  BY <1>1, <1>2, <1>4 DEF SessionsAreNamed, GrantsAreAlone, RegisteredWorkers, SessionTypes
<1>6. RegistrationsAreServed'
  <2> SUFFICES ASSUME AuthorityRoom', NEW v \in Workers, Registered(v)'
               PROVE  /\ phase'[registrations'[v].session] \in {"open", "ending"}
                      /\ v \in {granted'[registrations'[v].session], bound'[registrations'[v].session]}
    BY DEF RegistrationsAreServed, RegisteredWorkers
  <2> DEFINE y == registrations[v].session
  <2>1. /\ AuthorityRoom /\ Registered(v) /\ registrations'[v] = registrations[v] /\ y \in Sessions
        /\ phase[y] \in {"open", "ending"} /\ v \in {granted[y], bound[y]}
    BY <1>4 DEF RegistrationsAreServed, SessionsAreNamed, RegisteredWorkers
  <2>2. y # x
    BY <1>2, <1>4, <2>1, NoWorkerIsNone
  <2> QED BY <1>1, <2>1, <2>2 DEF SessionTypes
<1>7. LostWorkersAreFenced'
  BY <1>1, <1>4 DEF LostWorkersAreFenced, SessionTypes
<1> QED BY <1>3, <1>5, <1>6, <1>7

LEMMA SessionStep ==
    ASSUME AuthorityInv, SessionInv, [ServerNext]_server_vars
    PROVE  SessionInv'
<1>1. CASE UNCHANGED server_vars
  <2>1. UNCHANGED <<authority, phase, table, granted, bound, stopping, acceptor>>
    BY <1>1 DEF server_vars, server
  <2>2. SessionTypes'
    BY <2>1 DEF SessionInv, SessionTypes
  <2> QED BY <2>1, <2>2, CarriedOver
<1> QED
  BY <1>1, TableStep, QuietSessionStep, RegisterStep, RequestEpochStep, EndSessionStep
  DEF ServerNext

\* The inductive invariant of the sessions.
THEOREM SessionsInvariant == ServerSpec => []SessionInv
BY SessionInit, SessionStep, AuthorityHolds, PTL DEF ServerSpec
-----------------------------------------------------------------------------
\* The server state has its type, and the session table stays within its limit.
THEOREM ServerTypeCorrect == ServerSpec => []ServerTypeOK
<1>1. AuthorityInv /\ SessionInv => ServerTypeOK
  BY DEF AuthorityInv, SessionInv, SessionTypes, ServerTypeOK
<1> QED BY <1>1, AuthorityHolds, SessionsInvariant, PTL

\* While the authority generation is not exhausted, every registered worker
\* belongs to a session that is still served and that fences it at its end: no
\* interleaving of registrations, losses and epochs leaves one without.
THEOREM EveryRegistrationIsServed == ServerSpec => []RegistrationsAreServed
<1>1. SessionInv => RegistrationsAreServed
  BY DEF SessionInv
<1> QED BY <1>1, SessionsInvariant, PTL

\* The worker that a session was bound to at its end is fenced for good.
THEOREM EveryLostWorkerIsFenced == ServerSpec => []LostWorkersAreFenced
<1>1. SessionInv => LostWorkersAreFenced
  BY DEF SessionInv
<1> QED BY <1>1, SessionsInvariant, PTL
=============================================================================
