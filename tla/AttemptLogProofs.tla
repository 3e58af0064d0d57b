-------------------------- MODULE AttemptLogProofs --------------------------
(***************************************************************************)
(* Proofs about AttemptLog, for every set of ids, requests and tickets and *)
(* every limit: the deque and its index stay in step, and together they    *)
(* are the window that AttemptWindow promises.                             *)
(***************************************************************************)
EXTENDS AttemptLog, SequenceTheorems, TLAPS

AllRequests == Requests \cup Tickets
Records     == [attempt : Ids, request : AllRequests, outcome : Accepted]
Indexes     == [Ids -> AllRequests \cup {NoRequest}]

\* The type of the state, and the deque as the end of the history, element by
\* element.
LogOK ==
    /\ attempts \in Seq(Records) /\ history \in Seq(Records)
    /\ attempt_index \in Indexes
    /\ moved \subseteq Tickets
    /\ Len(attempts) <= MaxAttempts
    /\ Len(attempts) <= Len(history)
    /\ Len(attempts) \in {MaxAttempts, Len(history)}
    /\ \A i \in 1 .. Len(attempts) :
           attempts[i] = history[Len(history) - Len(attempts) + i]

Inv == LogOK /\ IndexIsRetained
-----------------------------------------------------------------------------
\* A sequence whose elements are the last ones of another is a suffix of it.
LEMMA SuffixByElements ==
    ASSUME NEW S, NEW s \in Seq(S), NEW t \in Seq(S), Len(s) <= Len(t),
           \A i \in 1 .. Len(s) : s[i] = t[Len(t) - Len(s) + i]
    PROVE  IsSuffix(s, t)
<1> DEFINE rs == Reverse(s)
           rt == Reverse(t)
<1>1. /\ rs \in Seq(S) /\ Len(rs) = Len(s)
      /\ \A i \in 1 .. Len(s) : rs[i] = s[Len(s) - i + 1]
  BY DEF Reverse
<1>2. /\ rt \in Seq(S) /\ Len(rt) = Len(t)
      /\ \A i \in 1 .. Len(t) : rt[i] = t[Len(t) - i + 1]
  BY DEF Reverse
<1>3. \A i \in 1 .. Len(s) : rs[i] = rt[i]
  <2> TAKE i \in 1 .. Len(s)
  <2>1. Len(s) - i + 1 \in 1 .. Len(s) /\ i \in 1 .. Len(t)
    OBVIOUS
  <2>2. s[Len(s) - i + 1] = t[Len(t) - Len(s) + (Len(s) - i + 1)]
    BY <2>1
  <2>3. Len(t) - Len(s) + (Len(s) - i + 1) = Len(t) - i + 1
    OBVIOUS
  <2> QED BY <1>1, <1>2, <2>1, <2>2, <2>3
<1> HIDE DEF rs, rt
<1>4. SubSeq(rs, 1, Len(s)) = SubSeq(rt, 1, Len(s))
  BY <1>1, <1>2, <1>3
<1> QED BY <1>1, <1>2, <1>4 DEF IsSuffix, IsPrefix, rs, rt

\* What trimming does to a deque that is one record over its limit at most, and
\* to the index.
LEMMA TrimmedEffect ==
    ASSUME NEW log \in Seq(Records), log # <<>>, NEW index \in Indexes
    PROVE  LET kept == Trimmed(log, index)
           IN  \/ /\ Len(log) <= MaxAttempts
                  /\ kept.log = log /\ kept.index = index
               \/ /\ Len(log) > MaxAttempts
                  /\ kept.log = Tail(log)
                  /\ kept.log \in Seq(Records)
                  /\ Len(kept.log) = Len(log) - 1
                  /\ \A i \in 1 .. Len(log) - 1 : kept.log[i] = log[i + 1]
                  /\ kept.index \in Indexes
                  /\ \A b \in Ids : kept.index[b] =
                         IF b = log[1].attempt /\ index[b] = log[1].request
                         THEN NoRequest ELSE index[b]
<1>1. CASE Len(log) <= MaxAttempts
  BY <1>1 DEF Trimmed
<1>2. CASE ~ (Len(log) <= MaxAttempts)
  <2>1. /\ Head(log) = log[1] /\ log[1] \in Records
        /\ Tail(log) \in Seq(Records) /\ Len(Tail(log)) = Len(log) - 1
        /\ \A i \in 1 .. Len(log) - 1 : Tail(log)[i] = log[i + 1]
    BY HeadTailProperties
  <2>2. Len(log) > MaxAttempts
    BY <1>2, AttemptAssumption
  <2> QED BY <1>2, <2>1, <2>2 DEF Trimmed, Indexes, Records
<1> QED BY <1>1, <1>2

\* The deque that a record is appended to, before it is trimmed.
LEMMA AppendedEffect ==
    ASSUME NEW log \in Seq(Records), NEW record \in Records
    PROVE  /\ Append(log, record) \in Seq(Records) /\ Append(log, record) # <<>>
           /\ Len(Append(log, record)) = Len(log) + 1
           /\ \A i \in 1 .. Len(log) : Append(log, record)[i] = log[i]
           /\ Append(log, record)[Len(log) + 1] = record
BY AppendProperties

\* record_attempt_locked() keeps deque, index and history in step.
LEMMA RecordKeepsInv ==
    ASSUME Inv, NEW a \in Ids, NEW r \in AllRequests, NEW outcome \in Accepted,
           RecordAttempt(a, r, outcome), moved' \subseteq Tickets
    PROVE  Inv'
<1> DEFINE record == [attempt |-> a, request |-> r, outcome |-> outcome]
           log    == Append(attempts, record)
           index  == [attempt_index EXCEPT ![a] = r]
<1>1. record \in Records /\ index \in Indexes
  BY DEF Inv, LogOK, Records, Indexes
<1>2. /\ log \in Seq(Records) /\ log # <<>> /\ Len(log) = Len(attempts) + 1
      /\ \A i \in 1 .. Len(attempts) : log[i] = attempts[i]
      /\ log[Len(attempts) + 1] = record
  BY <1>1, AppendedEffect DEF Inv, LogOK
<1>3. /\ history' \in Seq(Records) /\ Len(history') = Len(history) + 1
      /\ \A i \in 1 .. Len(history) : history'[i] = history[i]
      /\ history'[Len(history) + 1] = record
  BY <1>1, AppendedEffect DEF Inv, LogOK, RecordAttempt
<1>4. attempts' = Trimmed(log, index).log /\ attempt_index' = Trimmed(log, index).index
  BY DEF RecordAttempt
<1>5. \A b \in Ids : index[b] # NoRequest =>
          \E i \in 1 .. Len(log) : log[i].attempt = b /\ log[i].request = index[b]
  <2> SUFFICES ASSUME NEW b \in Ids, index[b] # NoRequest
               PROVE  \E i \in 1 .. Len(log) : log[i].attempt = b /\ log[i].request = index[b]
    OBVIOUS
  <2>1. CASE b = a
    <3>1. Len(attempts) + 1 \in 1 .. Len(log)
      BY <1>2 DEF Inv, LogOK
    <3>2. index[b] = r
      BY <2>1 DEF Inv, LogOK, Indexes
    <3> QED BY <1>2, <2>1, <3>1, <3>2
  <2>2. CASE b # a
    <3>1. index[b] = attempt_index[b]
      BY <2>2 DEF Inv, LogOK, Indexes
    <3>2. PICK i \in DOMAIN attempts :
              attempts[i].attempt = b /\ attempts[i].request = attempt_index[b]
      BY <3>1 DEF Inv, IndexIsRetained
    <3>3. i \in 1 .. Len(attempts) /\ i \in 1 .. Len(log)
      BY <1>2, <3>2 DEF Inv, LogOK
    <3> QED BY <1>2, <3>1, <3>2, <3>3
  <2> QED BY <2>1, <2>2
<1>6. \A i \in 1 .. Len(log) : log[i] = history'[Len(history') - Len(log) + i]
  <2> TAKE i \in 1 .. Len(log)
  <2>1. CASE i \in 1 .. Len(attempts)
    <3>1. Len(history) - Len(attempts) + i \in 1 .. Len(history)
      BY <2>1 DEF Inv, LogOK
    <3>2. Len(history') - Len(log) + i = Len(history) - Len(attempts) + i
      BY <1>2, <1>3 DEF Inv, LogOK
    <3>3. attempts[i] = history[Len(history) - Len(attempts) + i]
      BY <2>1 DEF Inv, LogOK
    <3> QED BY <1>2, <1>3, <2>1, <3>1, <3>2, <3>3
  <2>2. CASE i = Len(attempts) + 1
    BY <1>2, <1>3, <2>2 DEF Inv, LogOK
  <2> QED BY <1>2, <2>1, <2>2 DEF Inv, LogOK
<1> HIDE DEF log, index, record
<1>7. CASE Len(log) <= MaxAttempts /\ attempts' = log /\ attempt_index' = index
  <2>1. /\ Len(attempts') <= MaxAttempts /\ Len(attempts') <= Len(history')
        /\ Len(attempts') \in {MaxAttempts, Len(history')}
    BY <1>2, <1>3, <1>7, AttemptAssumption DEF Inv, LogOK
  <2>2. \A i \in 1 .. Len(attempts') :
            attempts'[i] = history'[Len(history') - Len(attempts') + i]
    BY <1>6, <1>7
  <2>3. LogOK'
    BY <1>1, <1>2, <1>3, <1>7, <2>1, <2>2 DEF LogOK
  <2>4. IndexIsRetained'
    BY <1>2, <1>5, <1>7 DEF IndexIsRetained
  <2> QED BY <2>3, <2>4 DEF Inv
<1>8. CASE /\ Len(log) > MaxAttempts
           /\ attempts' \in Seq(Records) /\ Len(attempts') = Len(log) - 1
           /\ \A i \in 1 .. Len(log) - 1 : attempts'[i] = log[i + 1]
           /\ attempt_index' \in Indexes
           /\ \A b \in Ids : attempt_index'[b] =
                  IF b = log[1].attempt /\ index[b] = log[1].request
                  THEN NoRequest ELSE index[b]
  <2>1. \A i \in 1 .. Len(attempts') :
            attempts'[i] = history'[Len(history') - Len(attempts') + i]
    <3> TAKE i \in 1 .. Len(attempts')
    <3>1. i \in 1 .. Len(log) - 1 /\ i + 1 \in 1 .. Len(log)
      BY <1>2, <1>8 DEF Inv, LogOK
    <3>2. log[i + 1] = history'[Len(history') - Len(log) + (i + 1)]
      BY <1>6, <3>1
    <3>3. Len(history') - Len(log) + (i + 1) = Len(history') - Len(attempts') + i
      BY <1>2, <1>3, <1>8 DEF Inv, LogOK
    <3> QED BY <1>8, <3>1, <3>2, <3>3
  <2>2. LogOK'
    BY <1>2, <1>3, <1>8, <2>1, AttemptAssumption DEF Inv, LogOK
  <2>3. ASSUME NEW b \in Ids, attempt_index'[b] # NoRequest
        PROVE  \E i \in 1 .. Len(attempts') :
                   attempts'[i].attempt = b /\ attempts'[i].request = attempt_index'[b]
    <3>1. /\ attempt_index'[b] = index[b]
          /\ ~ (b = log[1].attempt /\ index[b] = log[1].request)
      BY <1>8, <2>3
    <3>2. PICK i \in 1 .. Len(log) : log[i].attempt = b /\ log[i].request = index[b]
      BY <1>5, <2>3, <3>1
    <3>3. i # 1
      BY <3>1, <3>2
    <3>4. i - 1 \in 1 .. Len(attempts') /\ attempts'[i - 1] = log[i]
      BY <1>2, <1>8, <3>2, <3>3
    <3> QED BY <3>1, <3>2, <3>4
  <2>4. IndexIsRetained'
    BY <1>8, <2>3 DEF IndexIsRetained
  <2> QED BY <2>2, <2>4 DEF Inv
<1> QED BY <1>1, <1>2, <1>4, <1>7, <1>8, TrimmedEffect

LEMMA InitInv == Init => Inv
<1> SUFFICES ASSUME Init PROVE Inv
  OBVIOUS
<1>1. <<>> \in Seq(Records) /\ Len(<<>>) = 0
  OBVIOUS
<1> QED BY <1>1, AttemptAssumption DEF Init, Inv, LogOK, IndexIsRetained, Indexes

LEMMA UnchangedInv ==
    ASSUME Inv, UNCHANGED <<attempts, attempt_index, moved, history>>
    PROVE  Inv'
BY DEF Inv, LogOK, IndexIsRetained

LEMMA MutateInv ==
    ASSUME Inv, NEW a \in Attempts, NEW r \in Requests, Mutate(a, r)
    PROVE  Inv'
<1>1. CASE AttemptCheck(a, r) \/ Reject(a, r)
  <2>1. UNCHANGED <<attempts, attempt_index, moved, history>>
    BY <1>1 DEF AttemptCheck, Reject, Answered
  <2> QED BY <2>1, UnchangedInv
<1>2. ASSUME NEW outcome \in Accepted, RecordAttempt(a, r, outcome), moved' \in {moved, Tickets}
      PROVE  Inv'
  <2>1. a \in Ids /\ r \in AllRequests /\ moved' \subseteq Tickets
    BY <1>2 DEF Inv, LogOK, Ids, AllRequests
  <2> QED BY <1>2, <2>1, RecordKeepsInv
<1> QED BY <1>1, <1>2 DEF Mutate, Accepted

LEMMA CompleteInv ==
    ASSUME Inv, NEW a \in CompletionAttempts, NEW t \in Tickets,
           CompleteMemberRevalidation(a, t)
    PROVE  Inv'
<1>1. CASE Reject(a, t)
  <2>1. UNCHANGED <<attempts, attempt_index, moved, history>>
    BY <1>1 DEF Reject
  <2> QED BY <2>1, UnchangedInv
<1>2. ASSUME NEW outcome \in Accepted, RecordAttempt(a, t, outcome), moved' \in {moved, Tickets}
      PROVE  Inv'
  <2>1. a \in Ids /\ t \in AllRequests /\ moved' \subseteq Tickets
    BY <1>2 DEF Inv, LogOK, Ids, AllRequests
  <2> QED BY <1>2, <2>1, RecordKeepsInv
<1> QED BY <1>1, <1>2 DEF CompleteMemberRevalidation, Accepted

LEMMA RestartInv == Restart => Inv'
<1> SUFFICES ASSUME Restart PROVE Inv'
  OBVIOUS
<1>1. <<>> \in Seq(Records) /\ Len(<<>>) = 0
  OBVIOUS
<1> QED BY <1>1, AttemptAssumption DEF Restart, Inv, LogOK, IndexIsRetained, Indexes

LEMMA NextInv == Inv /\ [Next]_vars => Inv'
<1> SUFFICES ASSUME Inv, [Next]_vars PROVE Inv'
  OBVIOUS
<1>1. CASE UNCHANGED vars
  BY <1>1, UnchangedInv DEF vars
<1> QED BY <1>1, MutateInv, CompleteInv, RestartInv DEF Next

\* The inductive invariant: type, the deque as the end of the history, and an
\* index that refers to retained records only.
THEOREM Invariance == Spec => []Inv
<1> QED BY InitInv, NextInv, PTL DEF Spec

\* The deque never passes max_attempts and is the end of what was recorded.
THEOREM TypeCorrect == Spec => []TypeOK
<1>1. Inv => TypeOK
  <2> SUFFICES ASSUME Inv PROVE TypeOK
    OBVIOUS
  <2>1. IsSuffix(attempts, history)
    BY SuffixByElements DEF Inv, LogOK
  <2> QED BY <2>1 DEF Inv, LogOK, TypeOK, Records, AllRequests, Indexes
<1> QED BY <1>1, Invariance, PTL

\* check_integrity() never finds an index entry whose record was evicted, whatever
\* attempt ids requests and completions share.
THEOREM IndexFollowsLog == Spec => []IndexIsRetained
<1>1. Inv => IndexIsRetained
  BY DEF Inv
<1> QED BY <1>1, Invariance, PTL
-----------------------------------------------------------------------------
(***************************************************************************)
(* What holds when completions use attempt ids of their own.               *)
(***************************************************************************)

OwnAttempts == Attempts \cap CompletionAttempts = {} /\ NoRequest \notin AllRequests

\* A looked-up attempt id is retained once, and the index has its request.
Unique ==
    /\ \A i \in 1 .. Len(attempts) :
           attempts[i].attempt \in Attempts =>
               attempt_index[attempts[i].attempt] = attempts[i].request
    /\ \A i, j \in 1 .. Len(attempts) :
           attempts[i].attempt \in Attempts /\ attempts[i].attempt = attempts[j].attempt
               => i = j

\* Under an attempt id that the index does not know, nothing is retained.
LEMMA UnknownIsNotRetained ==
    ASSUME OwnAttempts, Inv, Unique, NEW a \in Attempts, attempt_index[a] = NoRequest,
           NEW i \in 1 .. Len(attempts)
    PROVE  attempts[i].attempt # a
<1>1. attempts[i] \in Records
  BY ElementOfSeq DEF Inv, LogOK
<1>2. attempts[i].request # NoRequest
  BY <1>1 DEF OwnAttempts, Records
<1> QED BY <1>2 DEF Unique

LEMMA RecordKeepsUnique ==
    ASSUME OwnAttempts, Inv, Unique, NEW a \in Ids, NEW r \in AllRequests,
           NEW outcome \in Accepted, RecordAttempt(a, r, outcome),
           a \in Attempts => attempt_index[a] = NoRequest
    PROVE  Unique'
<1> DEFINE record == [attempt |-> a, request |-> r, outcome |-> outcome]
           log    == Append(attempts, record)
           index  == [attempt_index EXCEPT ![a] = r]
<1>1. record \in Records /\ index \in Indexes
  BY DEF Inv, LogOK, Records, Indexes
<1>2. /\ log \in Seq(Records) /\ log # <<>> /\ Len(log) = Len(attempts) + 1
      /\ \A i \in 1 .. Len(attempts) : log[i] = attempts[i]
      /\ log[Len(attempts) + 1] = record
  BY <1>1, AppendedEffect DEF Inv, LogOK
<1>3. \A i \in 1 .. Len(attempts) : attempts[i] \in Records
  BY ElementOfSeq DEF Inv, LogOK
<1>4. \A b \in Ids : index[b] = IF b = a THEN r ELSE attempt_index[b]
  BY DEF Inv, LogOK, Indexes
<1>5. ASSUME NEW i \in 1 .. Len(attempts), a \in Attempts PROVE attempts[i].attempt # a
  BY <1>5, UnknownIsNotRetained
<1>6. ASSUME NEW i \in 1 .. Len(log), log[i].attempt \in Attempts
      PROVE  log[i].attempt \in Ids /\ index[log[i].attempt] = log[i].request
  <2>1. CASE i = Len(attempts) + 1
    BY <1>2, <1>4, <2>1
  <2>2. CASE i \in 1 .. Len(attempts)
    <3>1. log[i] = attempts[i] /\ attempts[i].attempt \in Ids
      BY <1>2, <1>3, <2>2 DEF Records
    <3>2. attempts[i].attempt # a
      BY <1>5, <1>6, <2>2, <3>1
    <3> QED BY <1>4, <1>6, <2>2, <3>1, <3>2 DEF Unique
  <2> QED BY <1>2, <2>1, <2>2 DEF Inv, LogOK
<1>7. ASSUME NEW i \in 1 .. Len(log), NEW j \in 1 .. Len(log),
             log[i].attempt \in Attempts, log[i].attempt = log[j].attempt
      PROVE  i = j
  <2>1. CASE i \in 1 .. Len(attempts) /\ j \in 1 .. Len(attempts)
    BY <1>2, <1>7, <2>1 DEF Unique
  <2>2. CASE i = Len(attempts) + 1 /\ j \in 1 .. Len(attempts)
    BY <1>2, <1>5, <1>7, <2>2
  <2>3. CASE j = Len(attempts) + 1 /\ i \in 1 .. Len(attempts)
    BY <1>2, <1>5, <1>7, <2>3
  <2> QED BY <1>2, <2>1, <2>2, <2>3 DEF Inv, LogOK
<1>8. attempts' = Trimmed(log, index).log /\ attempt_index' = Trimmed(log, index).index
  BY DEF RecordAttempt
<1> HIDE DEF log, index, record
<1>9. CASE attempts' = log /\ attempt_index' = index
  BY <1>6, <1>7, <1>9 DEF Unique
<1>10. CASE /\ attempts' \in Seq(Records) /\ Len(attempts') = Len(log) - 1
            /\ \A i \in 1 .. Len(log) - 1 : attempts'[i] = log[i + 1]
            /\ \A b \in Ids : attempt_index'[b] =
                   IF b = log[1].attempt /\ index[b] = log[1].request
                   THEN NoRequest ELSE index[b]
  <2>1. \A i \in 1 .. Len(attempts') :
            /\ i + 1 \in 1 .. Len(log) /\ i + 1 # 1 /\ 1 \in 1 .. Len(log)
            /\ attempts'[i] = log[i + 1]
    BY <1>2, <1>10 DEF Inv, LogOK
  <2>2. ASSUME NEW i \in 1 .. Len(attempts'), attempts'[i].attempt \in Attempts
        PROVE  attempt_index'[attempts'[i].attempt] = attempts'[i].request
    <3>1. log[i + 1].attempt # log[1].attempt
      BY <1>7, <2>1, <2>2
    <3>2. log[i + 1].attempt \in Ids /\ index[log[i + 1].attempt] = log[i + 1].request
      BY <1>6, <2>1, <2>2
    <3> QED BY <1>10, <2>1, <3>1, <3>2
  <2>3. ASSUME NEW i \in 1 .. Len(attempts'), NEW j \in 1 .. Len(attempts'),
               attempts'[i].attempt \in Attempts,
               attempts'[i].attempt = attempts'[j].attempt
        PROVE  i = j
    <3>1. i + 1 = j + 1
      BY <1>7, <2>1, <2>3
    <3> QED BY <1>2, <3>1
  <2> QED BY <2>2, <2>3 DEF Unique
<1> QED BY <1>1, <1>2, <1>8, <1>9, <1>10, TrimmedEffect

\* Of two records under one looked-up id, the second was made when the first was
\* no longer retained.
LEMMA RecordKeepsDistance ==
    ASSUME OwnAttempts, Inv, Unique, OnlyEvictedRunAgain, NEW a \in Ids,
           NEW r \in AllRequests, NEW outcome \in Accepted, RecordAttempt(a, r, outcome),
           a \in Attempts => attempt_index[a] = NoRequest
    PROVE  OnlyEvictedRunAgain'
<1> DEFINE record == [attempt |-> a, request |-> r, outcome |-> outcome]
           n      == Len(history)
<1>1. record \in Records
  BY DEF Records
<1>2. /\ history' \in Seq(Records) /\ Len(history') = n + 1
      /\ \A i \in 1 .. n : history'[i] = history[i]
      /\ history'[n + 1] = record
  BY <1>1, AppendedEffect DEF Inv, LogOK, RecordAttempt
<1>3. n \in Nat /\ Len(attempts) \in Nat /\ Len(attempts) <= n
  BY DEF Inv, LogOK
<1> SUFFICES ASSUME NEW i \in 1 .. n + 1, NEW j \in 1 .. n + 1, i < j,
                    history'[i].attempt = history'[j].attempt,
                    history'[i].attempt \in Attempts
             PROVE  j - i > MaxAttempts
  BY <1>2 DEF OnlyEvictedRunAgain
<1>4. CASE j \in 1 .. n
  <2>1. i \in 1 .. n /\ i \in DOMAIN history /\ j \in DOMAIN history
    BY <1>3, <1>4 DEF Inv, LogOK
  <2> QED BY <1>2, <1>4, <2>1 DEF OnlyEvictedRunAgain
<1>5. CASE j = n + 1
  <2>1. i \in 1 .. n /\ history[i].attempt = a /\ a \in Attempts
    BY <1>2, <1>3, <1>5
  <2>2. SUFFICES ASSUME j - i <= MaxAttempts PROVE FALSE
    BY <1>3, AttemptAssumption
  <2> DEFINE k == i - (n - Len(attempts))
  <2>3. Len(attempts) = MaxAttempts \/ Len(attempts) = n
    BY DEF Inv, LogOK
  <2>4. k \in 1 .. Len(attempts)
    BY <1>3, <1>5, <2>1, <2>2, <2>3, AttemptAssumption
  <2>5. n - Len(attempts) + k = i
    BY <1>3
  <2> HIDE DEF k
  <2>6. attempts[k] = history[i]
    BY <2>4, <2>5 DEF Inv, LogOK
  <2> QED BY <2>1, <2>4, <2>6, UnknownIsNotRetained
<1> QED BY <1>3, <1>4, <1>5

OwnInv == Inv /\ Unique /\ OnlyEvictedRunAgain

LEMMA UnchangedOwnInv ==
    ASSUME OwnInv, UNCHANGED <<attempts, attempt_index, moved, history>>
    PROVE  OwnInv'
<1>1. Inv'
  BY UnchangedInv DEF OwnInv
<1>2. Unique' /\ OnlyEvictedRunAgain'
  BY DEF OwnInv, Unique, OnlyEvictedRunAgain
<1> QED BY <1>1, <1>2 DEF OwnInv

LEMMA InitOwnInv == Init => OwnInv
<1> SUFFICES ASSUME Init PROVE OwnInv
  OBVIOUS
<1>1. Unique /\ OnlyEvictedRunAgain
  BY DEF Init, Unique, OnlyEvictedRunAgain
<1> QED BY <1>1, InitInv DEF OwnInv

LEMMA NextOwnInv ==
    ASSUME OwnAttempts, OwnInv, [Next]_vars
    PROVE  OwnInv'
<1>1. Inv'
  BY NextInv DEF OwnInv
<1>2. ASSUME NEW a \in Ids, NEW r \in AllRequests, NEW outcome \in Accepted,
             RecordAttempt(a, r, outcome), a \in Attempts => attempt_index[a] = NoRequest
      PROVE  OwnInv'
  BY <1>1, <1>2, RecordKeepsUnique, RecordKeepsDistance DEF OwnInv
<1>3. ASSUME NEW a \in Attempts, NEW r \in Requests, Mutate(a, r) PROVE OwnInv'
  <2>1. a \in Ids /\ r \in AllRequests
    BY DEF Ids, AllRequests
  <2>2. CASE AttemptCheck(a, r) \/ Reject(a, r)
    <3>1. UNCHANGED <<attempts, attempt_index, moved, history>>
      BY <2>2 DEF AttemptCheck, Reject, Answered
    <3> QED BY <3>1, UnchangedOwnInv
  <2> QED BY <1>2, <1>3, <2>1, <2>2 DEF Mutate, Accepted
<1>4. ASSUME NEW a \in CompletionAttempts, NEW t \in Tickets, CompleteMemberRevalidation(a, t)
      PROVE  OwnInv'
  <2>1. a \in Ids /\ t \in AllRequests /\ a \notin Attempts
    BY DEF Ids, AllRequests, OwnAttempts
  <2>2. CASE Reject(a, t)
    <3>1. UNCHANGED <<attempts, attempt_index, moved, history>>
      BY <2>2 DEF Reject
    <3> QED BY <3>1, UnchangedOwnInv
  <2> QED BY <1>2, <1>4, <2>1, <2>2 DEF CompleteMemberRevalidation, Accepted
<1>5. ASSUME Restart PROVE OwnInv'
  <2>1. Unique' /\ OnlyEvictedRunAgain'
    BY <1>5 DEF Restart, Unique, OnlyEvictedRunAgain
  <2> QED BY <1>1, <2>1 DEF OwnInv
<1>6. CASE UNCHANGED vars
  BY <1>6, UnchangedOwnInv DEF vars
<1> QED BY <1>3, <1>4, <1>5, <1>6 DEF Next

\* While a looked-up request is retained, none runs under its attempt id.
THEOREM RunsOnceWhileRetained ==
    ASSUME OwnAttempts
    PROVE  Spec => []OnlyEvictedRunAgain
<1>1. OwnInv /\ [Next]_vars => OwnInv'
  BY NextOwnInv
<1>2. OwnInv => OnlyEvictedRunAgain
  BY DEF OwnInv
<1> QED BY InitOwnInv, <1>1, <1>2, PTL DEF Spec
-----------------------------------------------------------------------------
(***************************************************************************)
(* The deque and the index implement the window.                           *)
(***************************************************************************)

\* Trimming one record is keeping the last max_attempts.
LEMMA TrimmedIsLastN ==
    ASSUME NEW log \in Seq(Records), log # <<>>, Len(log) <= MaxAttempts + 1,
           NEW index \in Indexes
    PROVE  Trimmed(log, index).log = Window!LastN(log, MaxAttempts)
<1>1. Len(log) \in Nat /\ MaxAttempts \in Nat
  BY AttemptAssumption
<1>2. CASE Len(log) <= MaxAttempts
  <2>1. Trimmed(log, index).log = log
    BY <1>2 DEF Trimmed
  <2>2. Window!LastN(log, MaxAttempts) = SubSeq(log, 1, Len(log))
    <3>1. ~ (Len(log) > MaxAttempts)
      BY <1>1, <1>2
    <3> QED BY <3>1, Zenon DEF Window!LastN
  <2>3. SubSeq(log, 1, Len(log)) = log
    OBVIOUS
  <2> QED BY <2>1, <2>2, <2>3
<1>3. CASE Len(log) = MaxAttempts + 1
  <2>1. Trimmed(log, index).log = Tail(log)
    BY <1>1, <1>3 DEF Trimmed
  <2>2. Len(log) - MaxAttempts + 1 = 2
    BY <1>1, <1>3
  <2>3. Window!LastN(log, MaxAttempts) = SubSeq(log, 2, Len(log))
    <3>1. Len(log) > MaxAttempts
      BY <1>1, <1>3
    <3> QED BY <2>2, <3>1, Zenon DEF Window!LastN
  <2>4. Tail(log) = SubSeq(log, 2, Len(log))
    BY TailIsSubSeq
  <2> QED BY <2>1, <2>3, <2>4
<1> QED BY <1>1, <1>2, <1>3

LEMMA RecordIsRun ==
    ASSUME Inv, NEW a \in Ids, NEW r \in AllRequests, NEW outcome \in Accepted,
           RecordAttempt(a, r, outcome)
    PROVE  Window!Run(a, r, outcome)
<1> DEFINE record == [attempt |-> a, request |-> r, outcome |-> outcome]
           log    == Append(attempts, record)
           index  == [attempt_index EXCEPT ![a] = r]
<1>1. record \in Records /\ index \in Indexes
  BY DEF Inv, LogOK, Records, Indexes
<1>2. log \in Seq(Records) /\ log # <<>> /\ Len(log) <= MaxAttempts + 1
  BY <1>1, AppendedEffect, AttemptAssumption DEF Inv, LogOK
<1>3. Trimmed(log, index).log = Window!LastN(log, MaxAttempts)
  BY <1>1, <1>2, TrimmedIsLastN
<1> QED BY <1>3 DEF RecordAttempt, Window!Run, Reply, Window!Reply

\* The index and the deque agree on whether an attempt id is retained, and on the
\* request that was made under it.
LEMMA KnownIsRetained ==
    ASSUME OwnAttempts, OwnInv, NEW a \in Attempts
    PROVE  /\ attempt_index[a] = NoRequest <=> Window!Retained(a) = {}
           /\ \A i \in Window!Retained(a) : attempts[i].request = attempt_index[a]
           /\ Window!Retained(a) # {} => FirstOf(a) \in {attempts[i] : i \in Window!Retained(a)}
<1>1. \A i \in Window!Retained(a) : i \in 1 .. Len(attempts) /\ attempts[i].attempt = a
  BY DEF Window!Retained, OwnInv, Inv, LogOK
<1>2. attempt_index[a] = NoRequest => Window!Retained(a) = {}
  BY <1>1, UnknownIsNotRetained DEF OwnInv
<1>3. attempt_index[a] # NoRequest => Window!Retained(a) # {}
  BY DEF Window!Retained, OwnInv, Inv, IndexIsRetained, Ids
<1>4. \A i \in Window!Retained(a) : attempts[i].request = attempt_index[a]
  BY <1>1 DEF OwnInv, Unique
<1>5. ASSUME NEW i \in Window!Retained(a)
      PROVE  FirstOf(a) \in {attempts[k] : k \in Window!Retained(a)}
  <2> DEFINE First(k) == /\ attempts[k].attempt = a
                         /\ \A j \in 1 .. k - 1 : attempts[j].attempt # a
  <2>1. i \in DOMAIN attempts /\ First(i)
    <3>1. i \in 1 .. Len(attempts) /\ i \in DOMAIN attempts /\ attempts[i].attempt = a
      BY <1>1, <1>5 DEF OwnInv, Inv, LogOK
    <3>2. ASSUME NEW j \in 1 .. i - 1, attempts[j].attempt = a PROVE FALSE
      <4>1. j \in 1 .. Len(attempts) /\ j # i
        BY <3>1 DEF OwnInv, Inv, LogOK
      <4> QED BY <3>1, <3>2, <4>1 DEF OwnInv, Unique
    <3> QED BY <3>1, <3>2
  <2> DEFINE k == CHOOSE k \in DOMAIN attempts : First(k)
  <2>2. k \in DOMAIN attempts /\ First(k)
    BY <2>1
  <2>3. FirstOf(a) = attempts[k]
    BY DEF FirstOf
  <2> QED BY <2>2, <2>3 DEF Window!Retained
<1> QED BY <1>2, <1>3, <1>4, <1>5

LEMMA CheckIsReplayOrConflict ==
    ASSUME OwnAttempts, OwnInv, NEW a \in Attempts, NEW r \in Requests, AttemptCheck(a, r)
    PROVE  Window!Replay(a, r) \/ Window!Conflict(a, r)
<1>1. /\ attempt_index[a] # NoRequest /\ attempts' = attempts
      /\ Window!Retained(a) # {}
      /\ \A i \in Window!Retained(a) : attempts[i].request = attempt_index[a]
      /\ FirstOf(a) \in {attempts[i] : i \in Window!Retained(a)}
  BY KnownIsRetained DEF AttemptCheck, Answered
<1>2. CASE attempt_index[a] = r
  <2>1. \E i \in DOMAIN attempts : attempts[i].attempt = a
    BY <1>1 DEF Window!Retained
  <2>2. reply' = Reply(a, r, "IDEMPOTENT", FirstOf(a).outcome)
    BY <1>2, <2>1 DEF AttemptCheck, Answered
  <2>3. PICK i \in Window!Retained(a) : FirstOf(a) = attempts[i]
    BY <1>1
  <2> QED BY <1>1, <1>2, <2>2, <2>3 DEF Window!Replay, Reply, Window!Reply
<1>3. CASE attempt_index[a] # r
  <2>1. reply' = Reply(a, r, "ATTEMPT_CONFLICT", "none")
    BY <1>3 DEF AttemptCheck, Answered
  <2>2. PICK i \in Window!Retained(a) : attempts[i].request # r
    BY <1>1, <1>3
  <2> QED BY <1>1, <2>1, <2>2 DEF Window!Conflict, Reply, Window!Reply
<1> QED BY <1>2, <1>3

LEMMA StepsRefine ==
    ASSUME OwnAttempts, OwnInv, [Next]_vars
    PROVE  [Window!Next]_<<attempts, reply>>
<1>1. ASSUME NEW a \in Attempts, NEW r \in Requests, Mutate(a, r)
      PROVE  Window!Request(a, r)
  <2>1. a \in Ids /\ r \in AllRequests
    BY DEF Ids, AllRequests
  <2>2. CASE AttemptCheck(a, r)
    BY <2>2, CheckIsReplayOrConflict DEF Window!Request
  <2>3. CASE attempt_index[a] = NoRequest
    <3>1. Window!Retained(a) = {}
      BY <2>3, KnownIsRetained
    <3>2. CASE Reject(a, r)
      BY <3>1, <3>2 DEF Reject, Window!Request, Window!Refuse, Reply, Window!Reply
    <3>3. ASSUME NEW outcome \in Accepted, RecordAttempt(a, r, outcome)
          PROVE  Window!Request(a, r)
      <4>1. Window!Run(a, r, outcome)
        BY <2>1, <3>3, RecordIsRun DEF OwnInv
      <4> QED BY <3>1, <4>1 DEF Window!Request, Accepted, Window!Accepted
    <3> QED BY <1>1, <2>3, <3>2, <3>3 DEF Mutate, AttemptCheck, Accepted
  <2> QED BY <1>1, <2>2, <2>3 DEF Mutate
<1>2. ASSUME NEW a \in CompletionAttempts, NEW t \in Tickets, CompleteMemberRevalidation(a, t)
      PROVE  Window!Completion(a, t)
  <2>1. a \in Ids /\ t \in AllRequests
    BY DEF Ids, AllRequests
  <2>2. CASE Reject(a, t)
    BY <2>2 DEF Reject, Window!Completion, Window!Refuse, Reply, Window!Reply
  <2>3. ASSUME NEW outcome \in Accepted, RecordAttempt(a, t, outcome)
        PROVE  Window!Completion(a, t)
    <3>1. Window!Run(a, t, outcome)
      BY <2>1, <2>3, RecordIsRun DEF OwnInv
    <3> QED BY <3>1 DEF Window!Completion, Accepted, Window!Accepted
  <2> QED BY <1>2, <2>2, <2>3 DEF CompleteMemberRevalidation, Accepted
<1>3. ASSUME Restart PROVE Window!Forget
  BY <1>3 DEF Restart, Window!Forget, NoReply, Window!NoReply, Reply, Window!Reply
<1>4. CASE UNCHANGED vars
  BY <1>4 DEF vars
<1> QED BY <1>1, <1>2, <1>3, <1>4 DEF Next, Window!Next

\* The attempt table of the code is the window over the last max_attempts records
\* that its users are promised, as long as completions use attempt ids of their
\* own.
THEOREM RefinesWindow ==
    ASSUME OwnAttempts
    PROVE  Spec => WindowRefined
<1>1. Init => Window!Init
  BY DEF Init, Window!Init, NoReply, Window!NoReply, Reply, Window!Reply
<1>2. OwnInv /\ [Next]_vars => OwnInv'
  BY NextOwnInv
<1>3. OwnInv /\ [Next]_vars => [Window!Next]_<<attempts, reply>>
  BY StepsRefine
<1> QED BY InitOwnInv, <1>1, <1>2, <1>3, PTL DEF Spec, WindowRefined, Window!Spec
=============================================================================
