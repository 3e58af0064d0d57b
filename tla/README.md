# Multipath Fabric in TLA+

Multipath Fabric keeps *multipath sets*: named sets of exact paths, each of which
may be used only while Path Authority says so about the exact generation that the
set bound. An engine holds the sets in memory behind one lock; a coordinator
process serves it to publisher workers over TCP and writes it through to a durable
store. This directory models the engine and what it shows its readers, the worker
authority, the attempt table, the client with its connections and the wire, the
sessions and the store; checks them with TLC on small instances; and proves the
central invariants with TLAPS for every size.

Paths below are relative to the repository; `fabric_*.cpp`, `server.cpp`,
`client.cpp`, `wire.cpp` and `persistence.cpp` are in its `src/`.

## 1. Inventory

### Engine

| Component | State | Operations | What makes it correct |
|---|---|---|---|
| Set record (`detail/records.*`, `lifecycle.cpp`, `fabric_engine.cpp`, `fabric_commit.cpp`) | lifecycle, currentness, policy, minimum, generations, watermark, members by path with their own lifecycle, currentness, binding, observation, generation and watermark; archived members | two transition tables; evaluate a member against a view; recompute the usable count and the lifecycle; consequences of a set transition on its members; commit; prune the archive | cached count and lifecycle equal what the members give; a member is usable only on evidence for its own binding; generations nest and never wrap |
| Set governance (`fabric_mutation.cpp`) | the set table, lineage | create, publish, minimum, policy, administrative switch, withdraw, complete, revoke, retire, supersede | endings are final; both sides of a lineage agree; consumers notice every change by its generation |
| Membership (`fabric_membership.cpp`) | members, `path_dependents`, `total_members`, issued identities | add (one or a batch), remove, withdraw, replace, member switch | the index is the inverse of membership; identities unique; limits hold |
| Path Authority and invalidation (`path_authority.cpp`, `fabric_revalidation.cpp`) | the directory of views, or an external source | declare, apply, refresh; classify; reconcile after a commit | no member stays usable on a replaced view; nothing comes back by itself |
| Revalidation (`fabric_revalidation.cpp`) | tickets, pending counts | set, member, and two-phase begin / complete / abandon | a ticket completes only on the member it was issued for |
| Worker authority (`fabric_authority.cpp`, `authority.cpp`) | registrations, fences, epoch, authority generation | register, unregister, fence, advance the epoch, the check of each request | fences are permanent; one worker per session; commits happen only under authority that holds |
| Attempt table (`fabric_engine.cpp`) | deque of records, index from attempt id to fingerprint | recognise a replay or a conflict; record; trim | a looked-up request runs once while it is remembered; the index never outlives the deque |
| Snapshots, diffs, explanations (`fabric_query.cpp`, `diff.cpp`, `explanation.cpp`) | bounded history of snapshots per set | content address, history, diff, explanation, readiness, consumability | the latest snapshot is what routing goes by; different contents differ in the diff; three answers about one set agree |

### Coordinator and client

| Component | State | Operations | What makes it correct |
|---|---|---|---|
| Sessions (`server.cpp`) | session table, worker bound to each session, `stopping_`, accept thread | accept, reap, serve a frame, bind a registration, end a session (fence), stop | every registration belongs to a served session that will fence it; stop ends every thread |
| Store (`persistence.cpp`) | the file, `.tmp`, `.bak` | save, decode with fall-back, load | what was reported saved is in a file that loads at every point of a save; a start never goes back behind what it loaded |
| Tool (`tools/mpf_coordinator.cpp`) | - | start with or without a load, autosave, final save | a restart that can read the store loses nothing that was saved |
| Wire, sockets, client (`wire.cpp`, `socket.cpp`, `client.cpp`) | frames under way, how much of one was received, the client's connection and what it remembers | encode and decode every request, dispatch them, frame and time-bound reads, connect, call, refresh, lose | the engine runs what the caller asked; an answer reaches its own caller; a repeated call commits once while the engine remembers it; every call returns |

### How they interact

Session threads call engine handlers. A handler takes the engine's lock once, or it
first looks paths up in Path Authority *without* the lock, then commits under it,
then (in most handlers) reconciles: a fresh lookup without the lock and, if the view
differs, an application under the lock. Directory changes call back into the same
application. Worker authority is checked under the lock at the commit. The end of a
session calls `fence_worker()`. After each request that succeeds, the session thread
calls `save_store()` outside every lock; the save encodes under the shared lock and
then touches the file system alone. A restart loads the store under a new epoch with
no registration and no live currentness. A client has one connection and one call in
flight; it learns the epoch from a greeting and stamps it, its worker and an attempt
id on every mutation.

### What is hard

Views looked up before the lock and used under it; two-phase tickets answered late;
workers fenced while their call is in flight; cached counts and derived lifecycles
that some twenty handlers must keep; generation counters at their end, tested at
different points; archive slots that are reused, replaced and pruned inside a commit;
two records changed in one supersession; retries whose first answer was lost, after the
attempt table moved on; registrations that move between sessions while those end; peers
that stop in the middle of a frame; a crash between any two file operations; saves by
several threads at once. `PROJECT.json` lists each hazard at its line, with the
properties that watch it.

## 2. Modules

| Module | Models | Extends |
|---|---|---|
| `Lifecycle` | both transition tables, the threshold rule, readiness, classification of a view | |
| `SetRecord` | a set record as a value and the pure steps of every handler: evaluate, recompute, apply a transition and its consequences, commit, prune, close, revalidate | `Lifecycle` |
| `WorkerAuthority` | registrations, fences, epoch, authority generation; an abstract machine of its own | |
| `FabricEngine` | the engine: every mutating handler as an action, calls with lookups as threads | `SetRecord`; `Authority == INSTANCE WorkerAuthority` |
| `Snapshots` | each engine step together with what it leaves in the snapshot history; content address, diff, explanation | `FabricEngine` |
| `AttemptWindow` | the abstract promise: a window over the last `max_attempts` requests | |
| `AttemptLog` | the deque and its index, with completions that are recorded but not looked up, and restarts | `Window == INSTANCE AttemptWindow` |
| `Coordinator` | accept thread, session threads, registrations in two halves, stop | `WorkerAuthority` |
| `Wire` | per message the fields written and read, what is malformed, what a method fills and what `dispatch()` calls | |
| `Exchange` | one client and the sessions it talks to, frame by frame, with failures on both sides | `Coordinator`, `Wire` |
| `DurableStore` | save, crash, restart and load over three file names | |
| `MCFabricEngine`, `MCSnapshots`, `MCCoordinator`, `MCExchange` | instances for TLC: which operations clients call, symmetry | the above |
| `SetRecordProofs`, `FabricEngineProofs`, `CoordinatorProofs` (and `WorkerAuthority`), `AttemptLogProofs`, `DurableStoreProofs` | the theorems about a component | the module in the name, `TLAPS` |
| `HistoryProofs` | what the steps of the engine do to a record over time: endings, lineage, versions, authority, identities, tickets, reconciliation | `FabricEngineProofs` |
| `SnapshotProofs` | the theorems about readers | `Snapshots`, `HistoryProofs` |
| `ExchangeProofs` | the round trip of every message, and the theorems about a client and its sessions | `Exchange`, `CoordinatorProofs` |

### State and actions against the code

* `sets[s]` is the `SetRecord` of the code; `NoRecord` stands for a set not created.
  A set has one slot per path, because the code keys members by path; an archived
  member keeps its slot, as in the code, until it is pruned or replaced.
* A handler that takes the lock once is one action (`PublishSet`, `RemoveMember`,
  `DeclarePathAuthority`, ...). It includes recomputation, consequences, watermarks, the
  commit and the pruning.
* A handler that looks paths up first is a *call* of a thread: `StartX`, one `Lookup`
  per path, `X` under the lock, then `Observe` and `ApplyObserved` per path where the
  code reconciles. `RevalidateSet` leaves early exactly where the code does.
* Sets of requests, policies, minimums and views are constants. A request that the code
  refuses leaves no trace, so its conditions are guards; `Refuse` ends a refused call.
  The refusals that do leave a trace are modelled: an administrative disable on an
  exhausted generation, a refused completion that consumes its ticket, a registration
  that evicts before it finds the counter exhausted.
* Generations are naturals up to `MaxGeneration`, where the code's counters refuse.
  Real counters are 64 bits wide; nothing depends on where the end is.
* Texts, provenance and history entries are left out, and so are expected generations in
  the engine (they only refuse more; `Wire` carries them). Fabric and namespace are
  fixed to one, so a scope is the set ids it lists.
* The requests of `FabricEngine` carry a fresh attempt id each. Replays are the subject of
  `AttemptLog`, where what a request does to the sets is abstracted to whether it commits,
  changes nothing or is rejected.
* `Snapshots` takes an engine step and the history entry it leaves together, because the
  code records the snapshot inside the commit. A snapshot's content address is its content.
* `Coordinator` keeps `granted` (engine registered, session not yet bound) apart from
  `bound` because the two halves run under two locks. `table` is `sessions_`, which still
  holds sessions that are done and not reaped.
* In `Wire` a payload is the sequence of the values `encode_request()` writes, and decoding gives
  them to the fields `decode_request()` reads, so that a disagreement of the two shows; a field that
  is not written keeps its default. Bytes are left out, the tests of the decoder are not.
* `Exchange` has a frame arrive in parts (`header_part`, `header`, `payload_part`,
  `frame`), each part within a budget that starts again for the payload, as in the code.
  The client receives header and payload as one part: its budget starts with the first
  byte. Calls are numbered by the client and the numbers go along as history, so that
  "its own answer" can be said; frames of the code carry no such number. A session never
  clears its response, and `scratch` keeps what is left in it. Sends do not block.
* The attempt table of `Exchange` is read off the history `ran`: `Recorded` is what `AttemptLog` keeps, the
  last `MaxAttempts` mutations. `advance_epoch()` is neither looked up nor recorded
  (`fabric_authority.cpp:211`): it has an action of its own (`DispatchEpochAdvance`), and only the epoch it
  expects protects it. `refresh_path()` applies its view under the name and fingerprint of
  `apply_path_authority()`, which is why two calls may be one request (`SameRequest`). The engine,
  and the table with it, lives as long as the run: `load_store()` clears the table, which is a
  restart of `AttemptLog`.
* `DurableStore` has one action per file operation of `save_store()`. A file is the
  image it decodes to, or missing, or unusable; an open file follows its renames, and the
  bytes of two savers in one file may mix to something that does not decode. The contents
  are the epoch, the fences and a count of changes. `main()` starts in one of three ways:
  `StartFromPrimary`; `StartFromBackup`, when the primary does not decode and, with `IOErrors`, also
  when an intact one cannot be opened, sized or read (`persistence.cpp:673`); `StartFresh` without a
  primary. When both files fail it stays down. `Read` is what a load gets when every read
  succeeds. A start from the backup or without a load begins a new `life`: the changes it does
  not have are not in the coordinator that runs, so that images of different histories are not
  compared. `exists()` may fail as well and then means no (`LookForStore`).

## 3. Runs

| Run | Asks | Distinct states |
|---|---|---|
| `governance` | Does any sequence of governance and membership operations, on exhausted generations, full sets and full archives too, break type, accounting, the counters, versioning or finality? | 176 k |
| `reconcile` | Two callers race directory changes, removals and revocation between lookup and commit: is every stale use covered by a reconciliation to come, and does nothing come back by itself? | 180 k |
| `liveness` | Do calls return and is every stale use resolved, also when the worker is lost in between? | 7 k |
| `authority` | Two workers on two sessions are registered, fenced, unregistered and overtaken by an epoch while calls are in flight and members are switched and revalidated: do commits stay authorised, and do currentness, snapshots, diffs and explanations say the same? | 594 k |
| `tickets` | Two-phase revalidation under an external source that answers differently without telling the engine, conditional answers and policy changes included. | 1.0 M |
| `shared_paths` | Two sets over the same two paths: index, counter, identities and lineage through replacement, supersession, pruning and the global limit. | 202 k |
| `attempts` | Two attempt ids, two requests, one id of completions: are the deque and its index the window that is promised, and does only an evicted request run again? | 196 k |
| `coordinator` | Three connections, two session slots, two workers: registration, takeover, loss, epoch, stop. | 66 k |
| `exchange` | Publications under two attempt ids, against a table that keeps one, and advances of the epoch, repeated over two connections while these break, answers are lost and its process comes back as the same or another boot: does a call run again only when it is no longer remembered? | 1.5 M |
| `methods` | Every method of the client, from its arguments to the engine and back, with texts and answers that do not fit, failed refreshes, stalled and broken connections. | 313 k |
| `store` | One saver; any call of a save fails, reads of a start fail, the process is killed anywhere, restarted, stopped. | 3.2 M |
| `claim_write_through` | A statement of the documentation that the code does not keep (section 6). | - |

### Bounds, and why they are enough

* **Two paths, two generations of a path.** Members interact only through the count, the
  archive and the limits of their set; two show order and reuse. A second generation is
  what makes a binding stale; a third repeats it.
* **`MaxGeneration` 3 to 5.** Enough for create, publish, a change and an exhausted counter
  in one run; the exhausted branches are reached in `governance`.
* **`MaxArchivedMembers` 1.** A second archived member forces pruning.
* **Two threads** in `reconcile` and `liveness`: the hazards are between one call in flight
  and either a directory change or a second call. Runs with one thread have the directory,
  the clients and the authority acting between its steps.
* **`MaxWatermark`** bounds exploration only (`Calm`): watermarks grow for ever and nothing
  compares them but for equality. `MaxTickets` bounds the tickets issued.
* **`MaxAuthorityGeneration`**: 4 in `authority` lets a worker be registered, fenced and
  followed by another or by an epoch, and the next registration be refused; 3 in `liveness`
  lets the worker be lost in mid-call. The calls of `authority` are those that change what a
  reader is shown (`ReaderCalls`) on one path.
* **`MaxSnapshotHistory` 2, `MaxExplanationEntries` 1.** The diff compares two retained
  snapshots, and a third evicts one; a limit of one entry is met with one member, so the cut
  is at its boundary.
* **`MaxAttempts` 2, `MaxRecords` 5** in `attempts`: eviction needs a third record, running
  again after eviction a fourth, and the fifth evicts the repetition.
* **Coordinator**: three sessions over two slots reach a full table and reuse of a slot; two
  workers reach takeover and eviction; authority generation 5 is reached, so the refusals
  at its end happen.
* **`MaxAttempts` 1** in `exchange`, with two attempt ids: the second request pushes the first out of the
  table, so that its repetition runs again, and a repetition before that is recognised. A larger
  table is the subject of `attempts`. A client that lost its first connection goes on over the
  second with its boot until the session of the first ends and fences it, or as the other boot. The caller
  registers first, and again only while it has not been told that it is registered
  (`RegistersFirst`); what a client is answered that does otherwise is in `methods`.
* **`MaxCalls`** is 4 in `exchange` (register, ask, register again, repeat) and 2 in
  `methods` (register and any method, or any two before registering); `MaxUnread` 1 lets a
  failed refresh leave an answer unread; `ListSize` 2 with `MaxResponse` 2 makes a response
  that still holds an earlier result too large to send.
* **Store**: three changes, three epochs and three lives cover a store, its backup and a
  newer save in flight, two restarts, and a start from the backup or without a load, twice.

`CHECK_DEADLOCK FALSE` is used because clients owe the system no calls, counters reach
their bound, and a stopped coordinator stays stopped. The run `exchange` has no temporal
property and uses symmetry; `methods` has them and uses none.

### Fairness

* `liveness`: weak fairness of each thread's steps. A C++ thread in a handler runs on; none of
  the handlers waits for anything but the lock. Clients and Path Authority are not fair.
* `coordinator`: weak fairness of the accept thread's exit, of binding and of the end of a
  session; strong fairness of a session noticing `stopping_`, because its loop tests the flag
  before every frame and every wait on the socket returns within a poll interval, so that
  answering frames in between cannot put it off for ever. Peers are not fair.
* `methods`: `ThreadFairness`, that threads of both processes run and that sockets report what
  they know (bytes that arrived, a closed peer, a budget that ran out); and `Delivery`, that
  the network delivers what was sent unless the connection breaks. Nothing makes the client
  ask, connect or give up a connection.

## 4. Proofs

`tlapm` proves, for any number of sets, paths, workers, threads, sessions, requests and any
limits:

| Theorem | Statement |
|---|---|
| `FabricEngineProofs!TypeCorrectness` | type, and so no generation passes its end |
| `AccountingHolds` | the cached usable count and the published lifecycle are what the members give, after every handler |
| `UseIsJustified` | every usable member has the observation that justifies it |
| `GenerationsNest`, `IndexIsExact` | generations nest; the dependency index is the inverse of membership |
| `RefinesAuthority` | the engine's steps are steps or stutters of `WorkerAuthority` |
| `CounterCovers` | `total_members` is never less than the members the index lists, and keeps its limit |
| `HistoryProofs!EndingsAreFinal`, `LineageIsKept` | a set that ended stays ended; the two sides of every supersession agree |
| `VersionsTell` | what a consumer goes by does not change under one generation, up to the exceptions `ChangesAreVersioned` names |
| `NothingResurrects` | no directory change, reconciliation or refresh makes a member usable or rebinds one; only operations that ask for it do |
| `AuthorizedCommits`, `CurrentnessIsBacked` | what commits is authorised at the commit; a current set is current under the governing epoch and by a worker that is not fenced |
| `IdentitiesAreUnique`, `TicketsPin` | no two relations share an identity, over all time; an outstanding ticket pins the member it was issued for |
| `StaleUseIsCovered` | a member that is counted on a replaced view is in the hands of a call that will reconcile it, for any number of callers (assumes `Reconciled`) |
| `SnapshotProofs!ReadersWatchTheEngine` | recording snapshots restricts the engine in nothing, so every theorem above holds of what readers see |
| `LatestIsShown`, `DiffsFollowIdentity`, `ExplanationsAgree` | the last snapshot shows what routing goes by; snapshots with different contents differ in the diff, or in `supersedes` only; readiness, explanation and consumability agree |
| `CoordinatorProofs!TypeCorrect`, `RegistrationsAreLive`, `SessionsHoldOneWorker`, `AuthorityProgresses` | type; no fenced or outdated worker is registered; one worker per session; fences, epoch and authority generation only move forward |
| `ServerRefinesAuthority` | the server implements `WorkerAuthority`, so that module's theorems hold of it |
| `ServerTypeCorrect`, `EveryRegistrationIsServed`, `EveryLostWorkerIsFenced` | type and table limit; every registered worker belongs to a served session; a lost one is fenced |
| `ExchangeProofs!CallsAreDispatchedAsAsked` | for every method, arguments and order of calls, the engine is asked what the client was asked, with the context that was stamped, but for the two requests that cannot be decoded |
| `AnswersBelongToTheirCalls`, `RepeatedCallsRunOnce` | an answer is that to its own call; a repeated call runs again only after `max_attempts` other mutations were recorded, an epoch is ended by a call once, and who is told OK is right |
| `ExchangeTypesHold`, `ExchangeRefinesServer` | type, and one frame at most under way until a refresh fails; with clients and frames the sessions are still those of `Coordinator`, so its theorems hold of them |
| `AttemptLogProofs!IndexFollowsLog`, `RunsOnceWhileRetained`, `RefinesWindow` | the index never outlives the deque; a retained request does not run again; the table implements `AttemptWindow` |
| `DurableStoreProofs!SavedStateIsRecoverable`, `BackupIsEarlier`, `RecoveryProgresses` | with one saver, what was reported saved is in the file that a start loads if it can read the primary, and the backup is older; a start from the primary runs in a later epoch than anything reported saved, with every saved fence, one from the backup runs after the backup |

**Assumptions**: the named assumptions on the constants (limits are naturals, a finite set of
paths that are naturals, the sentinel is no set id). Two theorems of `AttemptLogProofs` assume
`OwnAttempts`: completions use attempt ids that no looked-up request uses, because the code records
a completion without looking its attempt id up, and a shared id breaks the promise (section 6).
The theorems of `DurableStoreProofs` assume `OneSaver`: with two, `claim_write_through` refutes them.
`StaleUseIsCovered` assumes `Reconciled`: the directory is the engine's own, and clients call none of
`replace_member`, `set_member_admin_enabled`, `complete_member_revalidation`, `revalidate_set` and
`set_conditional_authority_policy`. Those rebind or evaluate a member on a view that was looked up
before, and return without another lookup, always or in a case (`revalidate_set` when nothing else
changed, section 6); for them the statement is false, and the run `reconcile`, whose clients satisfy
`Reconciled`, is where TLC checks it. `ExchangeAssumption` says what callers hand to the client: the
arguments of the method, with identities and generations that were parsed (a default-constructed one
makes a request that cannot be decoded), a known worker and scope to register, and an attempt id. No
fairness.

**Argument, the engine.** `ThresholdAccounting` is not inductive by itself: a handler evaluates
members, applies a transition with consequences, recomputes and commits, and the record is right
only at the end. `SetRecordProofs` therefore states for each pure step what it keeps of
`Right(r)` (type, `Accounted`, `Justified`, `Nested`), and which conjunct holds already in the
middle of a handler. `Inv` of `FabricEngineProofs` is the engine's type, `Right` of every
record, the exact index, and well-formed calls. The lemmas of each handler combine the record
lemmas; `NextInv` collects them. A pending call needs only its type: the code re-checks
everything it uses under the lock, and the proof needs no fact about the views it carries,
because a view justifies a member at the moment it is recorded whatever the source says since.

`RefinesAuthority` needs no invariant: each engine action changes the four authority variables
by an action of `WorkerAuthority` or not at all.

**The counter.** `MemberCountCovers` compares a counter with the size of a set. `Counted` says it of
the pairs the index lists; since the index is exact, each handler adds the pairs of a few new
members, and `CountStep` compares that with what the handler adds to the counter. It covers and does
not equal, because a replacement into an archived slot counts twice.

**Lineage.** `HistoryProofs` shows for each step on a record that it keeps `supersedes` and
`superseded_by` and leaves an ended lifecycle ended (`Kept`), so that every handler but
`SupersedeSet` keeps lineage, and that the two records `SupersedeSet` writes agree. That a
superseded set never becomes live again is what makes an earlier successor's claim stay true.

**History of a record.** A handler is a chain of pure steps that ends in a commit. `SetRecordProofs`
states for the steps before the commit what the record still owes (`Drafted`, `Prepared`), and for the
whole chain that the committed record `Evolves` from the old one: its generation tells, its members
regain nothing by themselves, slots are kept or filled anew. `HistoryProofs` collects this for every
action as `Progress`. It needs that records are `Sound`: a live set is *settled*, its lifecycle being what the
members give. Otherwise the recomputation at the end of a handler that has nothing to do with a
member could promote the set. `Healthy`, which is `Inv` with every record sound, is the
invariant; `VersionsTell` and `NothingResurrects` read their statement off `Evolves`.

**Authority over time.** `CurrentnessBacked` speaks of the worker and epoch that a set's last commit
recorded, while fences and epochs change without touching sets. Each step on a record either inherits
its currentness from the same committer under the same epoch, or renews it in a commit that is authorised now
(`Steers`). The steps that fence a worker or advance the epoch take currentness from the sets concerned
in the same step, which is what closes the induction.

**Identities and tickets.** `Identified` says that every identity in a slot was issued and that no two
slots share one; a step fills slots with identities that were not issued before. A ticket is
`Behind` its set: its watermarks do not exceed those of the record, and while both are
equal the member is what it was at the begin. Watermarks only grow, and every step that changes a
pinned part of a member raises one of the two.

**Reconciliation.** `StaleUseCovered` is not inductive, since it says nothing of calls that have not
committed yet. `Covered` strengthens it: for each stale use there is a call that
still has to look the path up and whose committed view agrees with the member, or that holds the
directory's present answer. `Abides` says that no other step adds a usable member or moves its
binding; `Engaged` and `OnItsSlot` say which path and member a call has in hand. Where a set ends while a call
still holds a view of one of its members, nothing is left to be counted.

**Readers.** Each step of `Snapshots` is a step of `FabricEngine`, so `Healthy` holds there. The last
snapshot shows its set because every commit records one, and what changes between commits is left out of
`LatestShowsSet`; `Shown` is conditional on the set having a generation left. `DiffsFollowIdentity` and
`ExplanationsAgree` are about single states.

**Sessions.** `RegistrationsAreServed` is not inductive: binding a session replaces the worker it was
bound to, which must not be registered any more. `GrantsAreAlone` says why it is not: between the two
halves of a registration the session is open and no other worker is registered over it. It rests on
`WorkerAuthority`'s own invariant (one worker per session, no fenced worker registered), which
`ServerRefinesAuthority` carries over.

**The wire.** `ExchangeProofs` shows message by message that the fields `encode_request()` writes and those
`decode_request()` reads are the same in the same order and that each entry accepts what its field can
hold (`Agrees`), and method by method that `dispatch()` takes from a request what the method has put
into it (`Delivers`). `RoundTrip` joins the two for every request; `SUPERSEDE_SET` fails the first, and a
mutation with no publisher fails to decode, which is what `Refused` names.

**The client's connection.** `AnswersAreOwn` is not inductive: it speaks of the last answer only. `ConnectionInv`
says that the request under way, the answer about to be sent and what is waiting to be received are one frame
together, none when nothing is awaited, and that it belongs to the awaited call. It holds until a
refresh fails and leaves the connection out of step; from then on nothing that arrives is taken for an answer.
Each step of a session takes a frame and adds one at most (`Serves`), each step of the client sends
only when nothing is under way. `Truthful` says of every response, under way or not yet sent, that an OK
for a mutation has its run in the history and that its results were read for its call, which gives the
last part of `RunsOnce`. The other two parts are `RunsInv`: between two runs under one attempt id lie at
least `MaxAttempts` recorded mutations, since the second ran only when the first was out of the table
and the history only grows; and a run of `advance_epoch()` expected an epoch that is over, so that
the same call cannot end another.

**Attempts.** The deque is the end of the recorded history, and an index entry is that of the last
record with its id. An evicted record takes its entry along exactly when no later record has
overwritten it, which is what the fingerprint comparison in `trim_attempts_locked()` decides.
With `OwnAttempts`, a retained id has one record only, and the deque is the window step by step.

**Store.** The strengthening says for each program counter of the saver which file holds what: the
temporary file is unusable while it is written and is the encoded image from then on; the
primary exists while it is rotated and is missing when the new one is installed; and no
file holds more than the engine or than the image about to be installed.

**Model-checked only**: liveness (out of reach of the prover): `StaleUseResolved`, both
`CallsReturn`, `GoneClientsAreFenced`, `StopEndsEverySession`. Every safety property and action property
that a run checks is also a theorem.

## 5. What the checks show

* The window between a lookup and its commit is closed wherever the code reconciles, with two
  callers and a changing source (`reconcile`), and the correction arrives (`liveness`).
* A call that was admitted and then lost its authority commits nothing (`authority`).
* Readiness, explanation and consumability agree on every set, and the last snapshot of a set has its
  lifecycle, currentness and generation; its members may lag behind a set revalidation that found
  nothing else changed (`authority`).
* Whatever ticket is outstanding, a member whose watermark still matches has the lifecycle,
  currentness, switch and generation it had at the begin (`tickets`).
* A retry is recognised for exactly `max_attempts` further records and no longer (`attempts`). From
  whatever connection it comes, a call runs again only after that, and an advance of the epoch, which no table
  protects, never does (`exchange`).
* The engine is asked exactly what the client was asked, for every method but one, and answers find
  their own call although frames carry no number (`methods`).
* However registrations move, a registered worker is always bound to a session that is still
  served, until the authority generation is exhausted (`coordinator`). From then on
  `fence_worker()` refuses, `end_session()` ignores it, and lost workers stay registered; that is
  why these properties are conditional on `AuthorityRoom`.
* With one saver, whatever call of `save_store()` fails and wherever it is killed, what was reported
  saved is in the file that a start loads, provided that it can read the primary. If reading an intact
  primary fails, the start falls back to the older backup, and nothing holds but that it
  runs after that (`store`, and section 6).

## 6. Where code and documentation part

One statement has a run that refutes it:

| Run | Statement | What the code does |
|---|---|---|
| `claim_write_through` | `README.md:485`: "Writes are atomic" | session threads save at once into one `.tmp`; one of them installs mixed bytes and reports `STORE_SAVED` |

Others were met while reading and modelling; the model behaves as described, no run is spent on
them.

Sets and members:

* `README.md:452`: late toggles on a retired set "are all refused and change nothing".
  `set_member_admin_enabled()` does not test the set lifecycle: on a set retired before it was
  published, whose members are live, it commits. The same line's "marks each member RETIRED"
  does not hold of a set that was declared, disabled or withdrawing (`fabric_engine.cpp:619`).
* `fabric_membership.cpp:250`: "Post-commit reconciliation closes the window". `revalidate_set()`
  returns before reconciling when lifecycle and currentness came out the same
  (`fabric_revalidation.cpp:95`); it can then have rebound members without a new generation or
  snapshot.
* `limits.hpp:18`, `max_members_per_set` "Consulted by: fabric add_member, ...": re-adding archived
  paths consumes no slot (`fabric_membership.cpp:143`), so a set can exceed the limit, and
  `persistence.cpp` then rejects its store as corrupt. `check_integrity()` demands that
  `total_members` equals the records, but a replacement into an archived slot counts it twice
  (`fabric_membership.cpp:587`); `MemberCountCovers` states what does hold.
* `fabric_mutation.cpp:16` "never leaves a half-applied change behind": an administrative disable
  on an exhausted generation is refused and leaves the lifecycle changed.
* `limits.hpp:25` "The oldest archive entries are pruned first": the lowest path is.
* `README.md:356`, member generation advances on a lifecycle or currentness change: not on an
  invalidation, nor in `revalidate_set()`.
* `README.md:442` "records lineage on both sides": a second predecessor overwrites the first on
  the successor (`fabric_mutation.cpp:707`); `LineageHolds` states what remains true. A diff
  does not report it, since it omits `supersedes` (`diff.cpp:127`).
* `detail/records.hpp:61`, the watermark covers "every input": a directory change that leaves the
  classification alone moves none, so a ticket may complete after the view it was
  issued on was replaced, and the completion itself runs no reconciliation.

Attempts, client and wire:

* `README.md:398` "Attempt identity gives exactly-once semantics. Replaying the same semantic request ...
  returns IDEMPOTENT": not for `advance_epoch()`, which neither looks its attempt id up nor records it
  (`fabric_authority.cpp:211`). Its repetition is refused as `STALE_EPOCH`, and its id is free for another
  request.
* Completions are recorded but never looked up (`fabric_revalidation.cpp:342`). When one is recorded
  twice under the id of a looked-up request, the eviction of its first record drops the index entry
  (`fabric_engine.cpp:193`) although later records of that id are retained, and the request runs
  again earlier than promised. `mpf_publisher` numbers its attempts `at-N` from 1 in every process,
  in a table that all processes share.
* `supersede_set` cannot be used over the wire: `client.cpp:442` puts the successor into `text`,
  `wire.cpp:1379` encodes `path_id`, and the request is found malformed. It is the named exception in
  `DispatchedAsAsked`.
* The budget of a frame starts again between header and payload (`server.cpp:476`), so a frame may
  take twice as long as configured.
* A response that cannot be encoded ends the session without an answer (`server.cpp:532`). A session
  never clears its response, so results of several queries add up to one.
* After a failed read, `refresh_epoch()` keeps the connection, with an answer unread in it.
* A peer that asks and does not read can block a send for good, and `stop()` with it.

Coordinator and store:

* `README.md:486`: the backup is loaded "when the primary store is unusable". `mpf_coordinator.cpp:62`
  loads only if the primary *exists*; killed between the two renames it starts at epoch 1 with
  nothing.
* `README.md:543` a lost session fences "every worker boot that registered on it": only the last
  one it was bound to (`server.cpp:193`).
* `README.md:510` "a fenced worker boot stays fenced": the fence of a lost session is not saved
  until the next successful request, and a crash before that lifts it (`EndSession` in `DurableStore`
  changes the engine without a save; `RecoveryMovesOn` speaks of what was saved).
* `README.md:505`, conservative recovery ("the epoch advances", "an old epoch or old worker boot cannot mutate the
  recovered state", "a fenced worker boot stays fenced"): an error while an intact primary is opened, sized
  or read is taken like a damaged primary (`persistence.cpp:693` to `709`). The coordinator then runs
  one epoch after the *backup*, which may be the epoch of the primary again, without the fences and
  changes that only the primary has. `RecoveryMovesOn` says what holds of each start.
* `README.md:358`, the epoch advances at every restart: past the *stored* epoch, so two restarts
  with no save between them run under the same one.
* After a recovery from the backup the next save rotates the damaged primary over the good
  backup before the new store is in place.

## 7. Not modelled

* Of the wire: bytes, frame header, checksum and versions; the fields of the response codec
  (`wire.cpp:420` to `1268`; a response is the query result it carries; the codec loses nothing but
  that an absent epoch or generation of a provenance is written as 1).
* Texts, provenance and history entries, `explain_rejection()`, the paging queries and statistics:
  they render state that the other modules hold.
* Of `check_integrity()`, only the conditions that properties state: index, counter, identities,
  attempt index.
* Identity grammar; command-line tools other than the coordinator's life; examples, benchmarks.
* More than one client per run of `Exchange`: clients meet in the engine and in `Coordinator`.
* Loss of power: nothing is fsynced, so renames could reach the disk before data. Renames are
  POSIX renames; on Windows a rename of an open file fails instead.
* Sends that block: they depend on buffer sizes of the operating system.
* Libraries that bind a Path Authority source in mid-life: the source is fixed per instance.

## 8. Plan

Done: everything above. Left, in this order:

1. An abstract `MultipathSet` (what a consumer is promised: lifecycle, generation, usable paths) and
   the refinement from `FabricEngine` to it.
2. The composition of `DurableStore` with `Coordinator`: which fences a restart keeps.
