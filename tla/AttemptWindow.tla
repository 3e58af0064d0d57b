--------------------------- MODULE AttemptWindow ---------------------------
(***************************************************************************)
(* What the attempt table promises, without its index: the coordinator     *)
(* remembers its last MaxAttempts recorded requests, and looks every       *)
(* checked request up among them.  AttemptLog implements it with a deque   *)
(* and an index that must be kept in step.                                 *)
(***************************************************************************)
EXTENDS Integers, Sequences, SequencesExt

CONSTANTS
    Attempts,            \* MutationAttemptIds of the requests that are looked up
    CompletionAttempts,  \* MutationAttemptIds of complete_member_revalidation()
    Requests,            \* semantic requests: an operation and its fields
    Tickets,             \* tickets of complete_member_revalidation(), on one member
    MaxAttempts          \* limits.max_attempts

VARIABLES
    window,              \* the retained requests and their outcomes, oldest first
    reply                \* the answer to the last call

\* The outcomes of an accepted request; only these are recorded.
Accepted == {"COMMITTED", "UNCHANGED"}

Reply(a, r, code, outcome) == [attempt |-> a, request |-> r, code |-> code, outcome |-> outcome]
NoReply == Reply("none", "none", "REJECTED", "none")

\* The last n elements of s.
LastN(s, n) == SubSeq(s, IF Len(s) > n THEN Len(s) - n + 1 ELSE 1, Len(s))

Retained(a) == {i \in DOMAIN window : window[i].attempt = a}

Init == window = <<>> /\ reply = NoReply

\* The request runs to an accepted outcome and is remembered.
Run(a, r, outcome) ==
    /\ window' = LastN(Append(window, [attempt |-> a, request |-> r, outcome |-> outcome]),
                       MaxAttempts)
    /\ reply' = Reply(a, r, outcome, outcome)

Refuse(a, r) == reply' = Reply(a, r, "REJECTED", "none") /\ UNCHANGED window

\* A request whose attempt is remembered is answered from memory alone.
Replay(a, r) ==
    /\ \E i \in Retained(a) :
           /\ window[i].request = r
           /\ reply' = Reply(a, r, "IDEMPOTENT", window[i].outcome)
    /\ UNCHANGED window

Conflict(a, r) ==
    /\ \E i \in Retained(a) : window[i].request # r
    /\ reply' = Reply(a, r, "ATTEMPT_CONFLICT", "none")
    /\ UNCHANGED window

Request(a, r) ==
    \/ Retained(a) = {} /\ (Refuse(a, r) \/ \E o \in Accepted : Run(a, r, o))
    \/ Replay(a, r)
    \/ Conflict(a, r)

\* A completion is not looked up; its ticket is what makes it happen once.
Completion(a, t) == Refuse(a, t) \/ \E o \in Accepted : Run(a, t, o)

\* A restarted coordinator remembers nothing.
Forget == window' = <<>> /\ reply' = NoReply

Next ==
    \/ \E a \in Attempts, r \in Requests : Request(a, r)
    \/ \E a \in CompletionAttempts, t \in Tickets : Completion(a, t)
    \/ Forget

Spec == Init /\ [][Next]_<<window, reply>>
=============================================================================
