----------------------------- MODULE AttemptLog -----------------------------
(***************************************************************************)
(* The attempt table of the engine (fabric_engine.cpp): a deque of the     *)
(* recorded requests and an index from attempt id to request fingerprint,  *)
(* both trimmed to max_attempts.  Requests arrive in any order, any number *)
(* of times and from any worker: a fingerprint covers the operation and    *)
(* its fields, not the caller.                                             *)
(*                                                                         *)
(* What a request does to the sets is abstracted to whether it commits,    *)
(* changes nothing or is rejected; FabricEngine models the rest.           *)
(***************************************************************************)
EXTENDS Integers, Sequences, FiniteSets, SequencesExt

CONSTANTS
    Attempts,            \* MutationAttemptIds of the requests that are looked up
    CompletionAttempts,  \* MutationAttemptIds of complete_member_revalidation()
    Requests,            \* semantic requests: an operation and its fields
    Tickets,             \* tickets of complete_member_revalidation(), on one member
    MaxAttempts,         \* limits.max_attempts
    MaxRecords           \* bound on the requests recorded in one life of the store

ASSUME AttemptAssumption == MaxAttempts \in Nat \ {0} /\ MaxRecords \in Nat

VARIABLES
    attempts,            \* the deque, oldest first
    attempt_index,       \* attempt id |-> the request recorded last, or NoRequest
    moved,               \* tickets whose watermark is no longer the member's
    reply,               \* the answer to the last call
    history              \* every record since the coordinator started

vars == <<attempts, attempt_index, moved, reply, history>>

Ids       == Attempts \cup CompletionAttempts
NoRequest == "no_request"
Accepted  == {"COMMITTED", "UNCHANGED"}

Reply(a, r, code, outcome) == [attempt |-> a, request |-> r, code |-> code, outcome |-> outcome]
NoReply == Reply("none", "none", "REJECTED", "none")

Init ==
    /\ attempts = <<>>
    /\ attempt_index = [a \in Ids |-> NoRequest]
    /\ moved = {}
    /\ reply = NoReply
    /\ history = <<>>
-----------------------------------------------------------------------------
\* Mutant: evicted records stay in the index.
TrimmedLogOnly(log, index) ==
    [log |-> SubSeq(log, IF Len(log) > MaxAttempts THEN 2 ELSE 1, Len(log)), index |-> index]

\* Mutant: the deque keeps one record fewer than its limit.
TrimmedEarly(log, index) ==
    IF Len(log) < MaxAttempts THEN [log |-> log, index |-> index]
    ELSE LET front == Head(log)
         IN  [log   |-> Tail(log),
              index |-> IF index[front.attempt] = front.request
                        THEN [index EXCEPT ![front.attempt] = NoRequest] ELSE index]

\* trim_attempts_locked(): one record is added at a time, so at most one leaves.
\* Its index entry leaves with it when the entry is about this very request.
Trimmed(log, index) ==
    IF Len(log) <= MaxAttempts THEN [log |-> log, index |-> index]
    ELSE LET front == Head(log)
         IN  [log   |-> Tail(log),
              index |-> IF index[front.attempt] = front.request
                        THEN [index EXCEPT ![front.attempt] = NoRequest] ELSE index]

\* record_attempt_locked(): push_back, overwrite the index entry, trim.
RecordAttempt(a, r, outcome) ==
    LET record == [attempt |-> a, request |-> r, outcome |-> outcome]
        kept   == Trimmed(Append(attempts, record), [attempt_index EXCEPT ![a] = r])
    IN  /\ Len(history) < MaxRecords
        /\ attempts' = kept.log
        /\ attempt_index' = kept.index
        /\ history' = Append(history, record)
        /\ reply' = Reply(a, r, outcome, outcome)

\* A rejection leaves no record: the same request may be tried again.
Reject(a, r) ==
    /\ reply' = Reply(a, r, "REJECTED", "none")
    /\ UNCHANGED <<attempts, attempt_index, moved, history>>

\* The first record of the deque with this attempt id.
FirstOf(a) == attempts[CHOOSE i \in DOMAIN attempts :
                          /\ attempts[i].attempt = a
                          /\ \A j \in 1 .. i - 1 : attempts[j].attempt # a]

Answered(a, r, code, outcome) ==
    /\ reply' = Reply(a, r, code, outcome)
    /\ UNCHANGED <<attempts, attempt_index, moved, history>>

\* Mutant: a known attempt id is a replay whatever it asks for.
AttemptCheckById(a, r) ==
    /\ attempt_index[a] # NoRequest
    /\ Answered(a, r, "IDEMPOTENT", FirstOf(a).outcome)

\* attempt_check_locked() on a known attempt id: a replay is answered with the
\* recorded outcome, another request is refused, and so is one whose record the
\* deque no longer holds.
AttemptCheck(a, r) ==
    /\ attempt_index[a] # NoRequest
    /\ IF attempt_index[a] = r /\ \E i \in DOMAIN attempts : attempts[i].attempt = a
       THEN Answered(a, r, "IDEMPOTENT", FirstOf(a).outcome)
       ELSE Answered(a, r, "ATTEMPT_CONFLICT", "none")

\* Any mutation but a completion, after its authority check.  A commit moves
\* the watermark of the member the tickets are about, or not.
Mutate(a, r) ==
    \/ AttemptCheck(a, r)
    \/ attempt_index[a] = NoRequest /\ Reject(a, r)
    \/ /\ attempt_index[a] = NoRequest
       /\ \/ RecordAttempt(a, r, "COMMITTED") /\ moved' \in {moved, Tickets}
          \/ RecordAttempt(a, r, "UNCHANGED") /\ UNCHANGED moved

\* complete_member_revalidation(): the ticket is checked and the attempt is not,
\* but it is recorded.  A completion that changes the member moves its
\* watermark, so no ticket issued before it can complete again.
CompleteMemberRevalidation(a, t) ==
    \/ Reject(a, t)
    \/ /\ t \notin moved
       /\ \/ RecordAttempt(a, t, "COMMITTED") /\ moved' = Tickets
          \/ RecordAttempt(a, t, "UNCHANGED") /\ UNCHANGED moved

\* load_store() clears the deque and the index.
Restart ==
    /\ history # <<>>
    /\ attempts' = <<>>
    /\ attempt_index' = [a \in Ids |-> NoRequest]
    /\ moved' = {}
    /\ reply' = NoReply
    /\ history' = <<>>

Next ==
    \/ \E a \in Attempts, r \in Requests : Mutate(a, r)
    \/ \E a \in CompletionAttempts, t \in Tickets : CompleteMemberRevalidation(a, t)
    \/ Restart

Spec == Init /\ [][Next]_vars
-----------------------------------------------------------------------------
\* The deque is within its limit and holds the end of what was recorded.
TypeOK ==
    /\ Len(attempts) <= MaxAttempts
    /\ attempts \in Seq([attempt : Ids, request : Requests \cup Tickets, outcome : Accepted])
    /\ attempt_index \in [Ids -> Requests \cup Tickets \cup {NoRequest}]
    /\ moved \subseteq Tickets
    /\ IsSuffix(attempts, history)

\* check_integrity(): "attempt index references an evicted attempt record" is
\* never reported, whatever mixture of replays, conflicting reuse and unchecked
\* completions came before, also when they share attempt ids.
IndexIsRetained ==
    \A a \in Ids : attempt_index[a] # NoRequest =>
        \E i \in DOMAIN attempts :
            attempts[i].attempt = a /\ attempts[i].request = attempt_index[a]

\* "After max_attempts further commits, a replay of an older attempt is no longer
\* recognised": and not before.  Of two looked-up requests that ran under one id,
\* the second came when the first was no longer retained.
OnlyEvictedRunAgain ==
    \A i, j \in DOMAIN history :
        /\ i < j /\ history[i].attempt = history[j].attempt
        /\ history[i].attempt \in Attempts
        => j - i > MaxAttempts

\* The deque and the index together are the window that AttemptWindow promises.
Window == INSTANCE AttemptWindow WITH window <- attempts, reply <- reply
WindowRefined == Window!Spec
=============================================================================
