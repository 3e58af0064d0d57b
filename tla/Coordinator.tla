---------------------------- MODULE Coordinator ----------------------------
(***************************************************************************)
(* The sessions of a coordinator (server.cpp) over the worker authority:   *)
(* the accept thread and its session table, one thread per session, the    *)
(* registration that a session binds, the fence that its end becomes, and  *)
(* stop().  Requests that change no authority are left out: a session      *)
(* answers them between the actions below.                                 *)
(***************************************************************************)
EXTENDS WorkerAuthority

CONSTANT MaxSessions       \* limits.max_sessions

ASSUME CoordinatorAssumption == MaxSessions \in Nat \ {0}

VARIABLES
    phase,      \* session |-> unused, open, ending (in end_session()) or done
    table,      \* sessions_, the sessions that are not reaped
    granted,    \* session |-> worker its thread just registered and has not bound yet
    bound,      \* session |-> worker it is bound to: publisher, worker_boot
    stopping,   \* stopping_
    acceptor    \* the accept thread: looping, joining the sessions, or ended

authority   == <<epoch, authority_generation, registrations, fences>>
server      == <<phase, table, granted, bound, stopping, acceptor>>
server_vars == <<authority, server>>

NoWorker == <<>>
Phases == {"unused", "open", "ending", "done"}

ServerInit ==
    /\ Init
    /\ phase = [x \in Sessions |-> "unused"]
    /\ table = {}
    /\ granted = [x \in Sessions |-> NoWorker]
    /\ bound = [x \in Sessions |-> NoWorker]
    /\ stopping = FALSE
    /\ acceptor = "looping"

-----------------------------------------------------------------------------
(***************************************************************************)
(* The accept thread.                                                      *)
(***************************************************************************)

\* reap_finished_sessions(false) at the head of the loop.
Reap ==
    /\ acceptor = "looping"
    /\ \E x \in table : phase[x] = "done"
    /\ table' = {x \in table : phase[x] # "done"}
    /\ UNCHANGED <<authority, phase, granted, bound, stopping, acceptor>>

\* Mutant: the table has no bound.
AcceptAlways(x) ==
    /\ acceptor = "looping"
    /\ phase[x] = "unused"
    /\ phase' = [phase EXCEPT ![x] = "open"]
    /\ table' = table \cup {x}
    /\ UNCHANGED <<authority, granted, bound, stopping, acceptor>>

\* A connection gets a session, under an identity never used before, when the
\* table has room; the loop may be past its test of stopping_.
Accept(x) ==
    /\ acceptor = "looping"
    /\ phase[x] = "unused"
    /\ Cardinality(table) < MaxSessions
    /\ phase' = [phase EXCEPT ![x] = "open"]
    /\ table' = table \cup {x}
    /\ UNCHANGED <<authority, granted, bound, stopping, acceptor>>

\* reap_finished_sessions(true) after the loop takes every session out of the
\* table and then joins their threads.
LeaveAcceptLoop ==
    /\ acceptor = "looping"
    /\ stopping
    /\ table' = {}
    /\ acceptor' = "joining"
    /\ UNCHANGED <<authority, phase, granted, bound, stopping>>

Finished(x) == phase[x] \in {"unused", "done"}

EndAcceptThread ==
    /\ acceptor = "joining"
    /\ \A x \in Sessions : Finished(x)
    /\ acceptor' = "ended"
    /\ UNCHANGED <<authority, phase, table, granted, bound, stopping>>

\* stop(): it waits for the accept thread, which leaves it an empty table.
Stop ==
    /\ ~stopping
    /\ stopping' = TRUE
    /\ UNCHANGED <<authority, phase, table, granted, bound, acceptor>>

-----------------------------------------------------------------------------
(***************************************************************************)
(* A session thread.  It answers one frame at a time.                      *)
(***************************************************************************)

\* The thread waits for the next frame.
Idle(x) == phase[x] = "open" /\ granted[x] = NoWorker

\* REGISTER_PUBLISHER, first half: the engine registers the worker over this
\* session.  A registration that the exhausted counter refuses is not bound.
Register(x, w, scope) ==
    /\ Idle(x)
    /\ RegisterPublisher(w, scope, x)
    /\ granted' = IF AuthorityRoom THEN [granted EXCEPT ![x] = w] ELSE granted
    /\ UNCHANGED <<phase, table, bound, stopping, acceptor>>

\* The same registration again is IDEMPOTENT, which succeeds.
RegisterAgain(x, w) ==
    /\ Idle(x)
    /\ w \notin fences
    /\ Registered(w)
    /\ registrations[w].session = x
    /\ registrations[w].epoch = epoch
    /\ granted' = [granted EXCEPT ![x] = w]
    /\ UNCHANGED <<authority, phase, table, bound, stopping, acceptor>>

\* Mutant: the first worker of a session stays bound.
BindOnce(x) ==
    /\ granted[x] # NoWorker
    /\ bound' = IF bound[x] = NoWorker THEN [bound EXCEPT ![x] = granted[x]] ELSE bound
    /\ granted' = [granted EXCEPT ![x] = NoWorker]
    /\ UNCHANGED <<authority, phase, table, stopping, acceptor>>

\* REGISTER_PUBLISHER, second half: the session is bound to that worker, under
\* sessions_mutex_ and after the engine lock was released.
Bind(x) ==
    /\ granted[x] # NoWorker
    /\ bound' = [bound EXCEPT ![x] = granted[x]]
    /\ granted' = [granted EXCEPT ![x] = NoWorker]
    /\ UNCHANGED <<authority, phase, table, stopping, acceptor>>

\* EPOCH_ADVANCE over the session that the worker registered on.
RequestEpoch(x, w) ==
    /\ Idle(x)
    /\ AdvanceEpoch(w, x)
    /\ UNCHANGED server

Leave(x) ==
    /\ Idle(x)
    /\ phase' = [phase EXCEPT ![x] = "ending"]
    /\ UNCHANGED <<authority, table, granted, bound, stopping, acceptor>>

\* The session loop returns: the peer closed, was killed, broke the protocol or
\* asked for SHUTDOWN.
Lose(x) == Leave(x)

\* Mutant: a session with a worker waits for its peer.
LeaveOnStopUnbound(x) == stopping /\ bound[x] = NoWorker /\ Leave(x)

\* The session loop notices stopping_, within one poll interval.
LeaveOnStop(x) == stopping /\ Leave(x)

\* Mutant: the session is closed and its worker stays registered.
EndSessionUnfenced(x) ==
    /\ phase[x] = "ending"
    /\ phase' = [phase EXCEPT ![x] = "done"]
    /\ UNCHANGED <<authority, table, granted, bound, stopping, acceptor>>

\* end_session(): the worker that the session is bound to is fenced.  A fence
\* that exists already, or that the exhausted counter refuses, is ignored.
EndSession(x) ==
    /\ phase[x] = "ending"
    /\ IF bound[x] \in Workers \ fences /\ AuthorityRoom
       THEN FenceWorker(bound[x])
       ELSE UNCHANGED authority
    /\ phase' = [phase EXCEPT ![x] = "done"]
    /\ UNCHANGED <<table, granted, bound, stopping, acceptor>>

ServerNext ==
    \/ Reap \/ LeaveAcceptLoop \/ EndAcceptThread \/ Stop
    \/ \E x \in Sessions : Accept(x) \/ Bind(x) \/ Lose(x) \/ LeaveOnStop(x) \/ EndSession(x)
    \/ \E x \in Sessions, w \in Workers, scope \in SUBSET SetIds : Register(x, w, scope)
    \/ \E x \in Sessions, w \in Workers : RegisterAgain(x, w) \/ RequestEpoch(x, w)

\* The threads of the process are scheduled; peers owe the coordinator nothing.
ServerFairness ==
    /\ WF_server_vars(LeaveAcceptLoop)
    /\ WF_server_vars(EndAcceptThread)
    /\ \A x \in Sessions :
           /\ WF_server_vars(Bind(x))
           /\ SF_server_vars(LeaveOnStop(x))
           /\ WF_server_vars(EndSession(x))

ServerSpec == ServerInit /\ [][ServerNext]_server_vars /\ ServerFairness
-----------------------------------------------------------------------------
\* Type invariant of the server.
ServerTypeOK ==
    /\ TypeOK
    /\ phase \in [Sessions -> Phases]
    /\ table \subseteq Sessions /\ Cardinality(table) <= MaxSessions
    /\ granted \in [Sessions -> Workers \cup {NoWorker}]
    /\ bound \in [Sessions -> Workers \cup {NoWorker}]
    /\ stopping \in BOOLEAN
    /\ acceptor \in {"looping", "joining", "ended"}

\* "Every mutation is bound to the connection that issued it": a registration
\* belongs to a session that is still served and that will fence its worker when
\* it ends, however the two halves of a registration interleave with other
\* sessions.  A fence needs an authority generation that is not exhausted.
RegistrationsAreServed ==
    AuthorityRoom =>
        \A w \in RegisteredWorkers :
            LET x == registrations[w].session
            IN  phase[x] \in {"open", "ending"} /\ w \in {granted[x], bound[x]}

\* "Real worker death becomes a permanent fence": the worker that a session was
\* bound to at its end is fenced, also when it has registered elsewhere since.
LostWorkersAreFenced ==
    AuthorityRoom =>
        \A x \in Sessions :
            phase[x] = "done" /\ bound[x] # NoWorker => bound[x] \in fences

\* stop() returns, and then no session thread is left that could change anything:
\* the final save sees every worker fenced.
StopEndsEverySession ==
    [](stopping => <>(acceptor = "ended" /\ \A x \in Sessions : Finished(x)))
=============================================================================
