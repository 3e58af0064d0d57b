--------------------------- MODULE ExchangeProofs ---------------------------
(***************************************************************************)
(* Proofs about Wire and Exchange, for every set of calls, workers and     *)
(* sessions and every bound: the engine is asked to run the call that the  *)
(* client was asked to make, every answer reaches the call it was made     *)
(* for, a repeated call commits once while the table holds its attempt id, *)
(* and the sessions of the exchange are those of module Coordinator.       *)
(***************************************************************************)
EXTENDS Exchange, CoordinatorProofs

-----------------------------------------------------------------------------
(***************************************************************************)
(* The wire.  encode_request() and decode_request() agree, field by field, on*)
(* every message but SUPERSEDE_SET, and a method of the client and dispatch()*)
(* agree on what the fields mean.                                          *)
(***************************************************************************)

\* What the union of two functions is, left before right.
LEMMA WithFacts ==
    ASSUME NEW f, NEW g
    PROVE  /\ DOMAIN With(f, g) = DOMAIN f \cup DOMAIN g
           /\ \A x \in DOMAIN f : With(f, g)[x] = f[x]
           /\ \A x \in DOMAIN g \ DOMAIN f : With(f, g)[x] = g[x]
BY DEF With

\* The messages of each table of decode_request().
Groups ==
    /\ DOMAIN ReadControl = {"HELLO", "LIST_SETS", "SHUTDOWN", "REGISTER_PUBLISHER"}
    /\ DOMAIN ReadMembership =
           {"CREATE_SET", "ADD_MEMBER", "ADD_MEMBERS", "REMOVE_MEMBER", "WITHDRAW_MEMBER",
            "REPLACE_MEMBER", "REVALIDATE_MEMBER", "MEMBER_ADMIN_ENABLE", "MEMBER_ADMIN_DISABLE"}
    /\ DOMAIN ReadPolicy =
           {"SET_MINIMUM", "SET_CONDITIONAL_POLICY", "SET_ADMIN_ENABLE", "SET_ADMIN_DISABLE",
            "REVALIDATE_SET"}
    /\ DOMAIN ReadGovernance =
           {"REVOKE_SET", "RETIRE_SET", "SUPERSEDE_SET", "EPOCH_ADVANCE", "ADVANCE_SET_STATE"}
    /\ DOMAIN ReadPaths = {"APPLY_PATH_AUTHORITY", "DECLARE_PATH_AUTHORITY", "REFRESH_PATH"}
    /\ DOMAIN ReadQueries = {"QUERY_SET", "EXPLAIN_SET", "SNAPSHOT_REQUEST"}

\* Which messages each part of decode_request() reads.
LEMMA MessageGroups == Groups
BY DEF Groups, ReadControl, ReadMembership, ReadPolicy, ReadGovernance, ReadPaths, ReadQueries

\* What field f of message id holds when a method of the client has filled it.
Fine(id, f, value) ==
    /\ ValidArgument(f, value)
    /\ f = "session" => value # ""
    /\ f = "state_action" => value \in SetStateActions
    /\ id = "EPOCH_ADVANCE" /\ f = "number" => value # 0

\* The entry reads field f of message id, and takes what it holds.
Takes(id, entry, f) ==
    /\ entry.field = f
    /\ \A value : Fine(id, f, value) => Valid(entry, value)

\* Every kind of entry takes what a method puts into its field.
LEMMA EntriesTake ==
    ASSUME NEW id
    PROVE  /\ Takes(id, SetId, "set_id") /\ Takes(id, MemberId, "member_id")
           /\ Takes(id, PathId, "path_id")
           /\ \A f \in {"publisher", "worker_boot", "session", "key", "snapshot_id"} :
                  Takes(id, Id(f), f)
           /\ Takes(id, Generation("generation"), "generation")
           /\ \A f \in {"minimum", "admin", "conditional", "number", "flag"} :
                  Takes(id, Value(f), f)
           /\ Takes(id, Reason, "text")
           /\ \A f \in {"state_action", "revocation_reason", "path_state"} :
                  Takes(id, Selector(f), f)
           /\ Takes(id, List("scope"), "scope") /\ Takes(id, List("members"), "members")
<1>1. /\ Takes(id, SetId, "set_id") /\ Takes(id, MemberId, "member_id")
      /\ Takes(id, PathId, "path_id")
      /\ \A f \in {"publisher", "worker_boot", "session", "key", "snapshot_id"} :
             Takes(id, Id(f), f)
  BY DEF Takes, Fine, ValidArgument, Valid, SetId, MemberId, PathId, Id, List
<1>2. Takes(id, Generation("generation"), "generation")
  BY DEF Takes, Fine, ValidArgument, Valid, Generation, List
<1>3. /\ \A f \in {"minimum", "admin", "conditional", "number", "flag"} : Takes(id, Value(f), f)
      /\ Takes(id, Reason, "text")
  BY DEF Takes, Valid, Reason, Value, List
<1>4. \A f \in {"state_action", "revocation_reason", "path_state"} : Takes(id, Selector(f), f)
  BY DEF Takes, Fine, ValidArgument, Valid, Selector, List
<1>5. Takes(id, List("scope"), "scope") /\ Takes(id, List("members"), "members")
  BY DEF Takes, Fine, ValidArgument, Valid, List
<1> QED BY <1>1, <1>2, <1>3, <1>4, <1>5

\* The fields of a request, and what can be read into them.
FieldNames == DOMAIN NewRequest
ReadEntries == [field : FieldNames, valid : {"id", "generation", "any", "selector", "list"}]

\* The fields of WireRequest.
LEMMA NamesOfFields ==
    FieldNames =
        {"epoch", "publisher", "worker_boot", "session", "attempt", "expected_set",
         "expected_member", "scope", "key", "minimum", "admin", "conditional", "set_id",
         "member_id", "path_id", "generation", "members", "number", "flag", "state_action",
         "revocation_reason", "path_state", "text", "snapshot_id"}
BY DEF FieldNames, NewRequest

\* The entries of decode_request() read fields of a request.
LEMMA EntryTypes ==
    /\ \A f \in FieldNames : /\ Id(f) \in ReadEntries /\ Generation(f) \in ReadEntries
                             /\ Value(f) \in ReadEntries /\ Selector(f) \in ReadEntries
                             /\ List(f) \in ReadEntries
    /\ SetId \in ReadEntries /\ MemberId \in ReadEntries /\ PathId \in ReadEntries
    /\ Reason \in ReadEntries
<1>1. \A f \in FieldNames : /\ Id(f) \in ReadEntries /\ Generation(f) \in ReadEntries
                            /\ Value(f) \in ReadEntries /\ Selector(f) \in ReadEntries
                            /\ List(f) \in ReadEntries
  BY DEF ReadEntries, Id, Generation, Value, Selector, List
<1> QED BY <1>1, NamesOfFields DEF SetId, MemberId, PathId, Reason

\* Short tuples are sequences.
LEMMA Tuples ==
    ASSUME NEW S
    PROVE  /\ <<>> \in Seq(S)
           /\ \A a \in S : <<a>> \in Seq(S)
           /\ \A a, b \in S : <<a, b>> \in Seq(S)
           /\ \A a, b, c \in S : <<a, b, c>> \in Seq(S)
           /\ \A a, b, c, d \in S : <<a, b, c, d>> \in Seq(S)
           /\ \A a, b, c, d, e \in S : <<a, b, c, d, e>> \in Seq(S)
OBVIOUS

\* What is read for a message is what is written, field by field.
Agrees(id) ==
    /\ Written[id] \in Seq(FieldNames) /\ ReadFields(id) \in Seq(ReadEntries)
    /\ Len(ReadFields(id)) = Len(Written[id])
    /\ \A i \in 1 .. Len(Written[id]) : Takes(id, ReadFields(id)[i], Written[id][i])

\* HELLO, LIST_SETS, SHUTDOWN and REGISTER_PUBLISHER are read as they are written.
LEMMA ControlAgrees == ASSUME NEW id \in DOMAIN ReadControl PROVE Agrees(id)
<1>0. ReadFields(id) = ReadControl[id]
  BY MessageGroups DEF Groups, ReadFields
<1>1. CASE id = "HELLO"
  <2>1. /\ ReadFields(id) = <<>>
        /\ Written[id] = <<>>
    BY <1>0, <1>1 DEF ReadControl, Written
  <2>2. Written[id] \in Seq(FieldNames)
    BY <2>1, Tuples, NamesOfFields
  <2>3. ReadFields(id) \in Seq(ReadEntries)
    BY <2>1, Tuples, NamesOfFields, EntryTypes
  <2>4. /\ Len(ReadFields(id)) = Len(Written[id])
        /\ \A i \in 1 .. Len(Written[id]) : Takes(id, ReadFields(id)[i], Written[id][i])
    BY <2>1, EntriesTake
  <2> QED BY <2>2, <2>3, <2>4 DEF Agrees
<1>2. CASE id = "LIST_SETS"
  <2>1. /\ ReadFields(id) = <<>>
        /\ Written[id] = <<>>
    BY <1>0, <1>2 DEF ReadControl, Written
  <2>2. Written[id] \in Seq(FieldNames)
    BY <2>1, Tuples, NamesOfFields
  <2>3. ReadFields(id) \in Seq(ReadEntries)
    BY <2>1, Tuples, NamesOfFields, EntryTypes
  <2>4. /\ Len(ReadFields(id)) = Len(Written[id])
        /\ \A i \in 1 .. Len(Written[id]) : Takes(id, ReadFields(id)[i], Written[id][i])
    BY <2>1, EntriesTake
  <2> QED BY <2>2, <2>3, <2>4 DEF Agrees
<1>3. CASE id = "SHUTDOWN"
  <2>1. /\ ReadFields(id) = <<>>
        /\ Written[id] = <<>>
    BY <1>0, <1>3 DEF ReadControl, Written
  <2>2. Written[id] \in Seq(FieldNames)
    BY <2>1, Tuples, NamesOfFields
  <2>3. ReadFields(id) \in Seq(ReadEntries)
    BY <2>1, Tuples, NamesOfFields, EntryTypes
  <2>4. /\ Len(ReadFields(id)) = Len(Written[id])
        /\ \A i \in 1 .. Len(Written[id]) : Takes(id, ReadFields(id)[i], Written[id][i])
    BY <2>1, EntriesTake
  <2> QED BY <2>2, <2>3, <2>4 DEF Agrees
<1>4. CASE id = "REGISTER_PUBLISHER"
  <2>1. /\ ReadFields(id) = <<Id("publisher"), Id("worker_boot"), Id("session"), List("scope")>>
        /\ Written[id] = <<"publisher", "worker_boot", "session", "scope">>
    BY <1>0, <1>4 DEF ReadControl, Written
  <2>2. Written[id] \in Seq(FieldNames)
    BY <2>1, Tuples, NamesOfFields
  <2>3. ReadFields(id) \in Seq(ReadEntries)
    BY <2>1, Tuples, NamesOfFields, EntryTypes
  <2>4. /\ Len(ReadFields(id)) = Len(Written[id])
        /\ \A i \in 1 .. Len(Written[id]) : Takes(id, ReadFields(id)[i], Written[id][i])
    BY <2>1, EntriesTake
  <2> QED BY <2>2, <2>3, <2>4 DEF Agrees
<1> QED BY <1>1, <1>2, <1>3, <1>4, MessageGroups DEF Groups

\* The messages about members are read as they are written.
LEMMA MembershipAgrees == ASSUME NEW id \in DOMAIN ReadMembership PROVE Agrees(id)
<1>0. ReadFields(id) = ReadMembership[id]
  BY MessageGroups DEF Groups, ReadFields
<1>1. CASE id = "CREATE_SET"
  <2>1. /\ ReadFields(id) = <<Id("key"), Value("minimum"), Value("admin"), Value("conditional")>>
        /\ Written[id] = <<"key", "minimum", "admin", "conditional">>
    BY <1>0, <1>1 DEF ReadMembership, Written
  <2>2. Written[id] \in Seq(FieldNames)
    BY <2>1, Tuples, NamesOfFields
  <2>3. ReadFields(id) \in Seq(ReadEntries)
    BY <2>1, Tuples, NamesOfFields, EntryTypes
  <2>4. /\ Len(ReadFields(id)) = Len(Written[id])
        /\ \A i \in 1 .. Len(Written[id]) : Takes(id, ReadFields(id)[i], Written[id][i])
    BY <2>1, EntriesTake
  <2> QED BY <2>2, <2>3, <2>4 DEF Agrees
<1>2. CASE id = "ADD_MEMBER"
  <2>1. /\ ReadFields(id) = <<SetId, PathId, Generation("generation")>>
        /\ Written[id] = <<"set_id", "path_id", "generation">>
    BY <1>0, <1>2 DEF ReadMembership, Written
  <2>2. Written[id] \in Seq(FieldNames)
    BY <2>1, Tuples, NamesOfFields
  <2>3. ReadFields(id) \in Seq(ReadEntries)
    BY <2>1, Tuples, NamesOfFields, EntryTypes
  <2>4. /\ Len(ReadFields(id)) = Len(Written[id])
        /\ \A i \in 1 .. Len(Written[id]) : Takes(id, ReadFields(id)[i], Written[id][i])
    BY <2>1, EntriesTake
  <2> QED BY <2>2, <2>3, <2>4 DEF Agrees
<1>3. CASE id = "ADD_MEMBERS"
  <2>1. /\ ReadFields(id) = <<SetId, List("members")>>
        /\ Written[id] = <<"set_id", "members">>
    BY <1>0, <1>3 DEF ReadMembership, Written
  <2>2. Written[id] \in Seq(FieldNames)
    BY <2>1, Tuples, NamesOfFields
  <2>3. ReadFields(id) \in Seq(ReadEntries)
    BY <2>1, Tuples, NamesOfFields, EntryTypes
  <2>4. /\ Len(ReadFields(id)) = Len(Written[id])
        /\ \A i \in 1 .. Len(Written[id]) : Takes(id, ReadFields(id)[i], Written[id][i])
    BY <2>1, EntriesTake
  <2> QED BY <2>2, <2>3, <2>4 DEF Agrees
<1>4. CASE id = "REMOVE_MEMBER"
  <2>1. /\ ReadFields(id) = <<SetId, MemberId, Reason>>
        /\ Written[id] = <<"set_id", "member_id", "text">>
    BY <1>0, <1>4 DEF ReadMembership, Written
  <2>2. Written[id] \in Seq(FieldNames)
    BY <2>1, Tuples, NamesOfFields
  <2>3. ReadFields(id) \in Seq(ReadEntries)
    BY <2>1, Tuples, NamesOfFields, EntryTypes
  <2>4. /\ Len(ReadFields(id)) = Len(Written[id])
        /\ \A i \in 1 .. Len(Written[id]) : Takes(id, ReadFields(id)[i], Written[id][i])
    BY <2>1, EntriesTake
  <2> QED BY <2>2, <2>3, <2>4 DEF Agrees
<1>5. CASE id = "WITHDRAW_MEMBER"
  <2>1. /\ ReadFields(id) = <<SetId, MemberId, Reason>>
        /\ Written[id] = <<"set_id", "member_id", "text">>
    BY <1>0, <1>5 DEF ReadMembership, Written
  <2>2. Written[id] \in Seq(FieldNames)
    BY <2>1, Tuples, NamesOfFields
  <2>3. ReadFields(id) \in Seq(ReadEntries)
    BY <2>1, Tuples, NamesOfFields, EntryTypes
  <2>4. /\ Len(ReadFields(id)) = Len(Written[id])
        /\ \A i \in 1 .. Len(Written[id]) : Takes(id, ReadFields(id)[i], Written[id][i])
    BY <2>1, EntriesTake
  <2> QED BY <2>2, <2>3, <2>4 DEF Agrees
<1>6. CASE id = "REPLACE_MEMBER"
  <2>1. /\ ReadFields(id) = <<SetId, MemberId, PathId, Generation("generation"), Reason>>
        /\ Written[id] = <<"set_id", "member_id", "path_id", "generation", "text">>
    BY <1>0, <1>6 DEF ReadMembership, Written
  <2>2. Written[id] \in Seq(FieldNames)
    BY <2>1, Tuples, NamesOfFields
  <2>3. ReadFields(id) \in Seq(ReadEntries)
    BY <2>1, Tuples, NamesOfFields, EntryTypes
  <2>4. /\ Len(ReadFields(id)) = Len(Written[id])
        /\ \A i \in 1 .. Len(Written[id]) : Takes(id, ReadFields(id)[i], Written[id][i])
    BY <2>1, EntriesTake
  <2> QED BY <2>2, <2>3, <2>4 DEF Agrees
<1>7. CASE id = "REVALIDATE_MEMBER"
  <2>1. /\ ReadFields(id) = <<SetId, MemberId>>
        /\ Written[id] = <<"set_id", "member_id">>
    BY <1>0, <1>7 DEF ReadMembership, Written
  <2>2. Written[id] \in Seq(FieldNames)
    BY <2>1, Tuples, NamesOfFields
  <2>3. ReadFields(id) \in Seq(ReadEntries)
    BY <2>1, Tuples, NamesOfFields, EntryTypes
  <2>4. /\ Len(ReadFields(id)) = Len(Written[id])
        /\ \A i \in 1 .. Len(Written[id]) : Takes(id, ReadFields(id)[i], Written[id][i])
    BY <2>1, EntriesTake
  <2> QED BY <2>2, <2>3, <2>4 DEF Agrees
<1>8. CASE id = "MEMBER_ADMIN_ENABLE"
  <2>1. /\ ReadFields(id) = <<SetId, MemberId>>
        /\ Written[id] = <<"set_id", "member_id">>
    BY <1>0, <1>8 DEF ReadMembership, Written
  <2>2. Written[id] \in Seq(FieldNames)
    BY <2>1, Tuples, NamesOfFields
  <2>3. ReadFields(id) \in Seq(ReadEntries)
    BY <2>1, Tuples, NamesOfFields, EntryTypes
  <2>4. /\ Len(ReadFields(id)) = Len(Written[id])
        /\ \A i \in 1 .. Len(Written[id]) : Takes(id, ReadFields(id)[i], Written[id][i])
    BY <2>1, EntriesTake
  <2> QED BY <2>2, <2>3, <2>4 DEF Agrees
<1>9. CASE id = "MEMBER_ADMIN_DISABLE"
  <2>1. /\ ReadFields(id) = <<SetId, MemberId>>
        /\ Written[id] = <<"set_id", "member_id">>
    BY <1>0, <1>9 DEF ReadMembership, Written
  <2>2. Written[id] \in Seq(FieldNames)
    BY <2>1, Tuples, NamesOfFields
  <2>3. ReadFields(id) \in Seq(ReadEntries)
    BY <2>1, Tuples, NamesOfFields, EntryTypes
  <2>4. /\ Len(ReadFields(id)) = Len(Written[id])
        /\ \A i \in 1 .. Len(Written[id]) : Takes(id, ReadFields(id)[i], Written[id][i])
    BY <2>1, EntriesTake
  <2> QED BY <2>2, <2>3, <2>4 DEF Agrees
<1> QED BY <1>1, <1>2, <1>3, <1>4, <1>5, <1>6, <1>7, <1>8, <1>9, MessageGroups DEF Groups

\* The messages about a set's policy are read as they are written.
LEMMA PolicyAgrees == ASSUME NEW id \in DOMAIN ReadPolicy PROVE Agrees(id)
<1>0. ReadFields(id) = ReadPolicy[id]
  BY MessageGroups DEF Groups, ReadFields
<1>1. CASE id = "SET_MINIMUM"
  <2>1. /\ ReadFields(id) = <<SetId, Value("number")>>
        /\ Written[id] = <<"set_id", "number">>
    BY <1>0, <1>1 DEF ReadPolicy, Written
  <2>2. Written[id] \in Seq(FieldNames)
    BY <2>1, Tuples, NamesOfFields
  <2>3. ReadFields(id) \in Seq(ReadEntries)
    BY <2>1, Tuples, NamesOfFields, EntryTypes
  <2>4. /\ Len(ReadFields(id)) = Len(Written[id])
        /\ \A i \in 1 .. Len(Written[id]) : Takes(id, ReadFields(id)[i], Written[id][i])
    BY <2>1, EntriesTake
  <2> QED BY <2>2, <2>3, <2>4 DEF Agrees
<1>2. CASE id = "SET_CONDITIONAL_POLICY"
  <2>1. /\ ReadFields(id) = <<SetId, Value("flag")>>
        /\ Written[id] = <<"set_id", "flag">>
    BY <1>0, <1>2 DEF ReadPolicy, Written
  <2>2. Written[id] \in Seq(FieldNames)
    BY <2>1, Tuples, NamesOfFields
  <2>3. ReadFields(id) \in Seq(ReadEntries)
    BY <2>1, Tuples, NamesOfFields, EntryTypes
  <2>4. /\ Len(ReadFields(id)) = Len(Written[id])
        /\ \A i \in 1 .. Len(Written[id]) : Takes(id, ReadFields(id)[i], Written[id][i])
    BY <2>1, EntriesTake
  <2> QED BY <2>2, <2>3, <2>4 DEF Agrees
<1>3. CASE id = "SET_ADMIN_ENABLE"
  <2>1. /\ ReadFields(id) = <<SetId>>
        /\ Written[id] = <<"set_id">>
    BY <1>0, <1>3 DEF ReadPolicy, Written
  <2>2. Written[id] \in Seq(FieldNames)
    BY <2>1, Tuples, NamesOfFields
  <2>3. ReadFields(id) \in Seq(ReadEntries)
    BY <2>1, Tuples, NamesOfFields, EntryTypes
  <2>4. /\ Len(ReadFields(id)) = Len(Written[id])
        /\ \A i \in 1 .. Len(Written[id]) : Takes(id, ReadFields(id)[i], Written[id][i])
    BY <2>1, EntriesTake
  <2> QED BY <2>2, <2>3, <2>4 DEF Agrees
<1>4. CASE id = "SET_ADMIN_DISABLE"
  <2>1. /\ ReadFields(id) = <<SetId>>
        /\ Written[id] = <<"set_id">>
    BY <1>0, <1>4 DEF ReadPolicy, Written
  <2>2. Written[id] \in Seq(FieldNames)
    BY <2>1, Tuples, NamesOfFields
  <2>3. ReadFields(id) \in Seq(ReadEntries)
    BY <2>1, Tuples, NamesOfFields, EntryTypes
  <2>4. /\ Len(ReadFields(id)) = Len(Written[id])
        /\ \A i \in 1 .. Len(Written[id]) : Takes(id, ReadFields(id)[i], Written[id][i])
    BY <2>1, EntriesTake
  <2> QED BY <2>2, <2>3, <2>4 DEF Agrees
<1>5. CASE id = "REVALIDATE_SET"
  <2>1. /\ ReadFields(id) = <<SetId>>
        /\ Written[id] = <<"set_id">>
    BY <1>0, <1>5 DEF ReadPolicy, Written
  <2>2. Written[id] \in Seq(FieldNames)
    BY <2>1, Tuples, NamesOfFields
  <2>3. ReadFields(id) \in Seq(ReadEntries)
    BY <2>1, Tuples, NamesOfFields, EntryTypes
  <2>4. /\ Len(ReadFields(id)) = Len(Written[id])
        /\ \A i \in 1 .. Len(Written[id]) : Takes(id, ReadFields(id)[i], Written[id][i])
    BY <2>1, EntriesTake
  <2> QED BY <2>2, <2>3, <2>4 DEF Agrees
<1> QED BY <1>1, <1>2, <1>3, <1>4, <1>5, MessageGroups DEF Groups

\* The messages about a set's end are read as they are written, but SUPERSEDE_SET.
LEMMA GovernanceAgrees ==
    ASSUME NEW id \in DOMAIN ReadGovernance, id # "SUPERSEDE_SET"
    PROVE  Agrees(id)
<1>0. ReadFields(id) = ReadGovernance[id]
  BY MessageGroups DEF Groups, ReadFields
<1>1. CASE id = "REVOKE_SET"
  <2>1. /\ ReadFields(id) = <<SetId, Selector("revocation_reason"), Reason>>
        /\ Written[id] = <<"set_id", "revocation_reason", "text">>
    BY <1>0, <1>1 DEF ReadGovernance, Written
  <2>2. Written[id] \in Seq(FieldNames)
    BY <2>1, Tuples, NamesOfFields
  <2>3. ReadFields(id) \in Seq(ReadEntries)
    BY <2>1, Tuples, NamesOfFields, EntryTypes
  <2>4. /\ Len(ReadFields(id)) = Len(Written[id])
        /\ \A i \in 1 .. Len(Written[id]) : Takes(id, ReadFields(id)[i], Written[id][i])
    BY <2>1, EntriesTake
  <2> QED BY <2>2, <2>3, <2>4 DEF Agrees
<1>2. CASE id = "RETIRE_SET"
  <2>1. /\ ReadFields(id) = <<SetId, Reason>>
        /\ Written[id] = <<"set_id", "text">>
    BY <1>0, <1>2 DEF ReadGovernance, Written
  <2>2. Written[id] \in Seq(FieldNames)
    BY <2>1, Tuples, NamesOfFields
  <2>3. ReadFields(id) \in Seq(ReadEntries)
    BY <2>1, Tuples, NamesOfFields, EntryTypes
  <2>4. /\ Len(ReadFields(id)) = Len(Written[id])
        /\ \A i \in 1 .. Len(Written[id]) : Takes(id, ReadFields(id)[i], Written[id][i])
    BY <2>1, EntriesTake
  <2> QED BY <2>2, <2>3, <2>4 DEF Agrees
<1>3. CASE id = "EPOCH_ADVANCE"
  <2>1. /\ ReadFields(id) = <<Generation("number")>>
        /\ Written[id] = <<"number">>
    BY <1>0, <1>3 DEF ReadGovernance, Written
  <2>2. Takes(id, Generation("number"), "number")
    BY <1>3 DEF Takes, Fine, Valid, Generation, List
  <2>3. Written[id] \in Seq(FieldNames)
    BY <2>1, Tuples, NamesOfFields
  <2>4. ReadFields(id) \in Seq(ReadEntries)
    BY <2>1, Tuples, NamesOfFields, EntryTypes
  <2> QED BY <2>1, <2>2, <2>3, <2>4 DEF Agrees
<1>4. CASE id = "ADVANCE_SET_STATE"
  <2>1. /\ ReadFields(id) = <<SetId, Selector("state_action"), Reason>>
        /\ Written[id] = <<"set_id", "state_action", "text">>
    BY <1>0, <1>4 DEF ReadGovernance, Written
  <2>2. Written[id] \in Seq(FieldNames)
    BY <2>1, Tuples, NamesOfFields
  <2>3. ReadFields(id) \in Seq(ReadEntries)
    BY <2>1, Tuples, NamesOfFields, EntryTypes
  <2>4. /\ Len(ReadFields(id)) = Len(Written[id])
        /\ \A i \in 1 .. Len(Written[id]) : Takes(id, ReadFields(id)[i], Written[id][i])
    BY <2>1, EntriesTake
  <2> QED BY <2>2, <2>3, <2>4 DEF Agrees
<1> QED BY <1>1, <1>2, <1>3, <1>4, MessageGroups DEF Groups

\* The messages about path evidence are read as they are written.
LEMMA PathsAgrees == ASSUME NEW id \in DOMAIN ReadPaths PROVE Agrees(id)
<1>0. ReadFields(id) = ReadPaths[id]
  BY MessageGroups DEF Groups, ReadFields
<1>1. CASE id = "APPLY_PATH_AUTHORITY"
  <2>1. /\ ReadFields(id) = <<PathId, Generation("generation"), Selector("path_state")>>
        /\ Written[id] = <<"path_id", "generation", "path_state">>
    BY <1>0, <1>1 DEF ReadPaths, Written
  <2>2. Written[id] \in Seq(FieldNames)
    BY <2>1, Tuples, NamesOfFields
  <2>3. ReadFields(id) \in Seq(ReadEntries)
    BY <2>1, Tuples, NamesOfFields, EntryTypes
  <2>4. /\ Len(ReadFields(id)) = Len(Written[id])
        /\ \A i \in 1 .. Len(Written[id]) : Takes(id, ReadFields(id)[i], Written[id][i])
    BY <2>1, EntriesTake
  <2> QED BY <2>2, <2>3, <2>4 DEF Agrees
<1>2. CASE id = "DECLARE_PATH_AUTHORITY"
  <2>1. /\ ReadFields(id) = <<PathId, Generation("generation"), Selector("path_state")>>
        /\ Written[id] = <<"path_id", "generation", "path_state">>
    BY <1>0, <1>2 DEF ReadPaths, Written
  <2>2. Written[id] \in Seq(FieldNames)
    BY <2>1, Tuples, NamesOfFields
  <2>3. ReadFields(id) \in Seq(ReadEntries)
    BY <2>1, Tuples, NamesOfFields, EntryTypes
  <2>4. /\ Len(ReadFields(id)) = Len(Written[id])
        /\ \A i \in 1 .. Len(Written[id]) : Takes(id, ReadFields(id)[i], Written[id][i])
    BY <2>1, EntriesTake
  <2> QED BY <2>2, <2>3, <2>4 DEF Agrees
<1>3. CASE id = "REFRESH_PATH"
  <2>1. /\ ReadFields(id) = <<PathId>>
        /\ Written[id] = <<"path_id">>
    BY <1>0, <1>3 DEF ReadPaths, Written
  <2>2. Written[id] \in Seq(FieldNames)
    BY <2>1, Tuples, NamesOfFields
  <2>3. ReadFields(id) \in Seq(ReadEntries)
    BY <2>1, Tuples, NamesOfFields, EntryTypes
  <2>4. /\ Len(ReadFields(id)) = Len(Written[id])
        /\ \A i \in 1 .. Len(Written[id]) : Takes(id, ReadFields(id)[i], Written[id][i])
    BY <2>1, EntriesTake
  <2> QED BY <2>2, <2>3, <2>4 DEF Agrees
<1> QED BY <1>1, <1>2, <1>3, MessageGroups DEF Groups

\* The queries about one set are read as they are written.
LEMMA QueriesAgrees == ASSUME NEW id \in DOMAIN ReadQueries PROVE Agrees(id)
<1>0. ReadFields(id) = ReadQueries[id]
  BY MessageGroups DEF Groups, ReadFields
<1>1. CASE id = "QUERY_SET"
  <2>1. /\ ReadFields(id) = <<SetId>>
        /\ Written[id] = <<"set_id">>
    BY <1>0, <1>1 DEF ReadQueries, Written
  <2>2. Written[id] \in Seq(FieldNames)
    BY <2>1, Tuples, NamesOfFields
  <2>3. ReadFields(id) \in Seq(ReadEntries)
    BY <2>1, Tuples, NamesOfFields, EntryTypes
  <2>4. /\ Len(ReadFields(id)) = Len(Written[id])
        /\ \A i \in 1 .. Len(Written[id]) : Takes(id, ReadFields(id)[i], Written[id][i])
    BY <2>1, EntriesTake
  <2> QED BY <2>2, <2>3, <2>4 DEF Agrees
<1>2. CASE id = "EXPLAIN_SET"
  <2>1. /\ ReadFields(id) = <<SetId>>
        /\ Written[id] = <<"set_id">>
    BY <1>0, <1>2 DEF ReadQueries, Written
  <2>2. Written[id] \in Seq(FieldNames)
    BY <2>1, Tuples, NamesOfFields
  <2>3. ReadFields(id) \in Seq(ReadEntries)
    BY <2>1, Tuples, NamesOfFields, EntryTypes
  <2>4. /\ Len(ReadFields(id)) = Len(Written[id])
        /\ \A i \in 1 .. Len(Written[id]) : Takes(id, ReadFields(id)[i], Written[id][i])
    BY <2>1, EntriesTake
  <2> QED BY <2>2, <2>3, <2>4 DEF Agrees
<1>3. CASE id = "SNAPSHOT_REQUEST"
  <2>1. /\ ReadFields(id) = <<SetId, Id("snapshot_id")>>
        /\ Written[id] = <<"set_id", "snapshot_id">>
    BY <1>0, <1>3 DEF ReadQueries, Written
  <2>2. Written[id] \in Seq(FieldNames)
    BY <2>1, Tuples, NamesOfFields
  <2>3. ReadFields(id) \in Seq(ReadEntries)
    BY <2>1, Tuples, NamesOfFields, EntryTypes
  <2>4. /\ Len(ReadFields(id)) = Len(Written[id])
        /\ \A i \in 1 .. Len(Written[id]) : Takes(id, ReadFields(id)[i], Written[id][i])
    BY <2>1, EntriesTake
  <2> QED BY <2>2, <2>3, <2>4 DEF Agrees
<1> QED BY <1>1, <1>2, <1>3, MessageGroups DEF Groups

\* The methods of each table of the client.
Methods ==
    /\ DOMAIN MembershipMethods =
           {"register_publisher", "create_set", "add_member", "add_members", "remove_member",
            "withdraw_member", "replace_member"}
    /\ DOMAIN EvidenceMethods =
           {"revoke_set", "retire_set", "revalidate_set", "revalidate_member",
            "apply_path_authority", "declare_path_authority", "refresh_path"}
    /\ DOMAIN QueryMethods = {"list_sets", "query_set", "explain_set", "request_snapshot"}
    /\ DOMAIN StateMethods = {"publish_set", "withdraw_set", "complete_withdrawal"}
    /\ DOMAIN PlainMethods =
           DOMAIN MembershipMethods \cup (DOMAIN EvidenceMethods \cup DOMAIN QueryMethods)
    /\ \A op \in DOMAIN MembershipMethods : PlainMethods[op] = MembershipMethods[op]
    /\ \A op \in DOMAIN EvidenceMethods : PlainMethods[op] = EvidenceMethods[op]
    /\ \A op \in DOMAIN QueryMethods : PlainMethods[op] = QueryMethods[op]

\* The tables of methods, and that they have no method in common.
LEMMA MethodTables == Methods
<1>1. /\ DOMAIN MembershipMethods =
             {"register_publisher", "create_set", "add_member", "add_members", "remove_member",
              "withdraw_member", "replace_member"}
      /\ DOMAIN EvidenceMethods =
             {"revoke_set", "retire_set", "revalidate_set", "revalidate_member",
              "apply_path_authority", "declare_path_authority", "refresh_path"}
      /\ DOMAIN QueryMethods = {"list_sets", "query_set", "explain_set", "request_snapshot"}
      /\ DOMAIN StateMethods = {"publish_set", "withdraw_set", "complete_withdrawal"}
  BY DEF MembershipMethods, EvidenceMethods, QueryMethods, StateMethods
<1>2. DOMAIN PlainMethods =
          DOMAIN MembershipMethods \cup (DOMAIN EvidenceMethods \cup DOMAIN QueryMethods)
  BY DEF PlainMethods, With
<1>3. \A op \in DOMAIN MembershipMethods : PlainMethods[op] = MembershipMethods[op]
  BY DEF PlainMethods, With
<1>4. \A op \in DOMAIN EvidenceMethods : PlainMethods[op] = EvidenceMethods[op]
  <2> SUFFICES ASSUME NEW op \in DOMAIN EvidenceMethods PROVE PlainMethods[op] = EvidenceMethods[op]
    OBVIOUS
  <2>1. op \notin DOMAIN MembershipMethods
    BY <1>1
  <2> QED BY <2>1 DEF PlainMethods, With
<1>5. \A op \in DOMAIN QueryMethods : PlainMethods[op] = QueryMethods[op]
  <2> SUFFICES ASSUME NEW op \in DOMAIN QueryMethods PROVE PlainMethods[op] = QueryMethods[op]
    OBVIOUS
  <2>1. op \notin DOMAIN MembershipMethods /\ op \notin DOMAIN EvidenceMethods
    BY <1>1
  <2> QED BY <2>1 DEF PlainMethods, With
<1> QED BY <1>1, <1>2, <1>3, <1>4, <1>5 DEF Methods

\* A caller fills the arguments of the method.
LEMMA ProperArguments ==
    ASSUME NEW call, ProperCall(call)
    PROVE  DOMAIN call.args = Arguments[call.op]
BY DEF ProperCall, Call

\* A request that holds the arguments of a call is turned into that call.
LEMMA PlainSame ==
    ASSUME NEW call, ProperCall(call),
           NEW q, \A f \in Arguments[call.op] : q[f] = call.args[f]
    PROVE  PlainCall(call.op, q, Arguments[call.op]) = call
BY DEF ProperCall, PlainCall, Call

\* What a method sends and the coordinator can decode.
Messages == DOMAIN Written \ {"HELLO", "SHUTDOWN", "SUPERSEDE_SET"}

\* The fields that message id writes besides the context.
Names(id) == {Written[id][i] : i \in 1 .. Len(Written[id])}

\* Request q holds these fields.
Held(q, fields) == \A f \in DOMAIN fields : q[f] = fields[f]

\* What a method fills is written, can be read, and asks the engine for the same call.
Delivers(call) ==
    LET m == Request(call)
    IN  /\ m.id \in Messages
        /\ DOMAIN m.fields \subseteq Names(m.id)
        /\ Names(m.id) \subseteq DOMAIN m.fields \cup {"session", "text"}
        /\ \A f \in DOMAIN m.fields : Fine(m.id, f, m.fields[f])
        /\ \A q : Held(q, m.fields) => Dispatched(m.id, q) = call

\* A method that sends its arguments as they are delivers them, when its message
\* carries them and dispatch() takes the same ones.
LEMMA PlainDelivers ==
    ASSUME NEW call, ProperCall(call), NEW id \in Messages,
           Request(call) = Message(id, call.args),
           Arguments[call.op] \subseteq Names(id),
           Names(id) \subseteq Arguments[call.op] \cup {"session"},
           Arguments[call.op] \cap {"session", "state_action", "number"} = {},
           \A q : Dispatched(id, q) = PlainCall(call.op, q, Arguments[call.op])
    PROVE  Delivers(call)
<1>1. DOMAIN call.args = Arguments[call.op]
  BY ProperArguments
<1>2. Request(call).id = id /\ Request(call).fields = call.args
  BY DEF Message
<1>3. \A f \in Arguments[call.op] : Fine(id, f, call.args[f])
  BY DEF ProperCall, Fine
<1>4. ASSUME NEW q, Held(q, call.args) PROVE Dispatched(id, q) = call
  BY <1>1, <1>4, PlainSame DEF Held
<1> QED BY <1>1, <1>2, <1>3, <1>4 DEF Delivers

\* The methods that send their arguments as they are: registration and members.
LEMMA MembershipMethodsDeliver ==
    ASSUME NEW call, ProperCall(call), call.op \in DOMAIN MembershipMethods
    PROVE  Delivers(call)
<1>0. Request(call) = Message(MembershipMethods[call.op], call.args)
  BY MethodTables DEF Methods, Request
<1>1. CASE call.op = "register_publisher"
  <2>1. Request(call) = Message("REGISTER_PUBLISHER", call.args)
    BY <1>0, <1>1 DEF MembershipMethods
  <2>2. /\ Arguments[call.op] = {"publisher", "worker_boot", "scope"}
        /\ Written["REGISTER_PUBLISHER"] = <<"publisher", "worker_boot", "session", "scope">>
    BY <1>1 DEF Arguments, Written
  <2>3. ASSUME NEW q
        PROVE  Dispatched("REGISTER_PUBLISHER", q) = PlainCall(call.op, q, Arguments[call.op])
    BY <1>1, <2>2, MessageGroups DEF Groups, Queries, Dispatched
  <2>4. /\ "REGISTER_PUBLISHER" \in Messages
        /\ Names("REGISTER_PUBLISHER") = {"publisher", "worker_boot", "session", "scope"}
    BY <2>2 DEF Names, Messages, Written
  <2>5. /\ Arguments[call.op] \subseteq Names("REGISTER_PUBLISHER")
        /\ Names("REGISTER_PUBLISHER") \subseteq Arguments[call.op] \cup {"session"}
        /\ Arguments[call.op] \cap {"session", "state_action", "number"} = {}
    BY <2>2, <2>4
  <2> QED BY <2>1, <2>3, <2>4, <2>5, PlainDelivers
<1>2. CASE call.op = "create_set"
  <2>1. Request(call) = Message("CREATE_SET", call.args)
    BY <1>0, <1>2 DEF MembershipMethods
  <2>2. /\ Arguments[call.op] = {"key", "minimum", "admin", "conditional"}
        /\ Written["CREATE_SET"] = <<"key", "minimum", "admin", "conditional">>
    BY <1>2 DEF Arguments, Written
  <2>3. ASSUME NEW q
        PROVE  Dispatched("CREATE_SET", q) = PlainCall(call.op, q, Arguments[call.op])
    BY <1>2, <2>2, MessageGroups DEF Groups, Queries, Dispatched, DispatchMembership
  <2>4. /\ "CREATE_SET" \in Messages
        /\ Names("CREATE_SET") = {"key", "minimum", "admin", "conditional"}
    BY <2>2 DEF Names, Messages, Written
  <2>5. /\ Arguments[call.op] \subseteq Names("CREATE_SET")
        /\ Names("CREATE_SET") \subseteq Arguments[call.op] \cup {"session"}
        /\ Arguments[call.op] \cap {"session", "state_action", "number"} = {}
    BY <2>2, <2>4
  <2> QED BY <2>1, <2>3, <2>4, <2>5, PlainDelivers
<1>3. CASE call.op = "add_member"
  <2>1. Request(call) = Message("ADD_MEMBER", call.args)
    BY <1>0, <1>3 DEF MembershipMethods
  <2>2. /\ Arguments[call.op] = {"set_id", "path_id", "generation"}
        /\ Written["ADD_MEMBER"] = <<"set_id", "path_id", "generation">>
    BY <1>3 DEF Arguments, Written
  <2>3. ASSUME NEW q
        PROVE  Dispatched("ADD_MEMBER", q) = PlainCall(call.op, q, Arguments[call.op])
    BY <1>3, <2>2, MessageGroups DEF Groups, Queries, Dispatched, DispatchMembership
  <2>4. /\ "ADD_MEMBER" \in Messages
        /\ Names("ADD_MEMBER") = {"set_id", "path_id", "generation"}
    BY <2>2 DEF Names, Messages, Written
  <2>5. /\ Arguments[call.op] \subseteq Names("ADD_MEMBER")
        /\ Names("ADD_MEMBER") \subseteq Arguments[call.op] \cup {"session"}
        /\ Arguments[call.op] \cap {"session", "state_action", "number"} = {}
    BY <2>2, <2>4
  <2> QED BY <2>1, <2>3, <2>4, <2>5, PlainDelivers
<1>4. CASE call.op = "add_members"
  <2>1. Request(call) = Message("ADD_MEMBERS", call.args)
    BY <1>0, <1>4 DEF MembershipMethods
  <2>2. /\ Arguments[call.op] = {"set_id", "members"}
        /\ Written["ADD_MEMBERS"] = <<"set_id", "members">>
    BY <1>4 DEF Arguments, Written
  <2>3. ASSUME NEW q
        PROVE  Dispatched("ADD_MEMBERS", q) = PlainCall(call.op, q, Arguments[call.op])
    BY <1>4, <2>2, MessageGroups DEF Groups, Queries, Dispatched, DispatchMembership
  <2>4. /\ "ADD_MEMBERS" \in Messages
        /\ Names("ADD_MEMBERS") = {"set_id", "members"}
    BY <2>2 DEF Names, Messages, Written
  <2>5. /\ Arguments[call.op] \subseteq Names("ADD_MEMBERS")
        /\ Names("ADD_MEMBERS") \subseteq Arguments[call.op] \cup {"session"}
        /\ Arguments[call.op] \cap {"session", "state_action", "number"} = {}
    BY <2>2, <2>4
  <2> QED BY <2>1, <2>3, <2>4, <2>5, PlainDelivers
<1>5. CASE call.op = "remove_member"
  <2>1. Request(call) = Message("REMOVE_MEMBER", call.args)
    BY <1>0, <1>5 DEF MembershipMethods
  <2>2. /\ Arguments[call.op] = {"set_id", "member_id", "text"}
        /\ Written["REMOVE_MEMBER"] = <<"set_id", "member_id", "text">>
    BY <1>5 DEF Arguments, Written
  <2>3. ASSUME NEW q
        PROVE  Dispatched("REMOVE_MEMBER", q) = PlainCall(call.op, q, Arguments[call.op])
    BY <1>5, <2>2, MessageGroups DEF Groups, Queries, Dispatched, DispatchMembership
  <2>4. /\ "REMOVE_MEMBER" \in Messages
        /\ Names("REMOVE_MEMBER") = {"set_id", "member_id", "text"}
    BY <2>2 DEF Names, Messages, Written
  <2>5. /\ Arguments[call.op] \subseteq Names("REMOVE_MEMBER")
        /\ Names("REMOVE_MEMBER") \subseteq Arguments[call.op] \cup {"session"}
        /\ Arguments[call.op] \cap {"session", "state_action", "number"} = {}
    BY <2>2, <2>4
  <2> QED BY <2>1, <2>3, <2>4, <2>5, PlainDelivers
<1>6. CASE call.op = "withdraw_member"
  <2>1. Request(call) = Message("WITHDRAW_MEMBER", call.args)
    BY <1>0, <1>6 DEF MembershipMethods
  <2>2. /\ Arguments[call.op] = {"set_id", "member_id", "text"}
        /\ Written["WITHDRAW_MEMBER"] = <<"set_id", "member_id", "text">>
    BY <1>6 DEF Arguments, Written
  <2>3. ASSUME NEW q
        PROVE  Dispatched("WITHDRAW_MEMBER", q) = PlainCall(call.op, q, Arguments[call.op])
    BY <1>6, <2>2, MessageGroups DEF Groups, Queries, Dispatched, DispatchMembership
  <2>4. /\ "WITHDRAW_MEMBER" \in Messages
        /\ Names("WITHDRAW_MEMBER") = {"set_id", "member_id", "text"}
    BY <2>2 DEF Names, Messages, Written
  <2>5. /\ Arguments[call.op] \subseteq Names("WITHDRAW_MEMBER")
        /\ Names("WITHDRAW_MEMBER") \subseteq Arguments[call.op] \cup {"session"}
        /\ Arguments[call.op] \cap {"session", "state_action", "number"} = {}
    BY <2>2, <2>4
  <2> QED BY <2>1, <2>3, <2>4, <2>5, PlainDelivers
<1>7. CASE call.op = "replace_member"
  <2>1. Request(call) = Message("REPLACE_MEMBER", call.args)
    BY <1>0, <1>7 DEF MembershipMethods
  <2>2. /\ Arguments[call.op] = {"set_id", "member_id", "path_id", "generation", "text"}
        /\ Written["REPLACE_MEMBER"] = <<"set_id", "member_id", "path_id", "generation", "text">>
    BY <1>7 DEF Arguments, Written
  <2>3. ASSUME NEW q
        PROVE  Dispatched("REPLACE_MEMBER", q) = PlainCall(call.op, q, Arguments[call.op])
    BY <1>7, <2>2, MessageGroups DEF Groups, Queries, Dispatched, DispatchMembership
  <2>4. /\ "REPLACE_MEMBER" \in Messages
        /\ Names("REPLACE_MEMBER") = {"set_id", "member_id", "path_id", "generation", "text"}
    BY <2>2 DEF Names, Messages, Written
  <2>5. /\ Arguments[call.op] \subseteq Names("REPLACE_MEMBER")
        /\ Names("REPLACE_MEMBER") \subseteq Arguments[call.op] \cup {"session"}
        /\ Arguments[call.op] \cap {"session", "state_action", "number"} = {}
    BY <2>2, <2>4
  <2> QED BY <2>1, <2>3, <2>4, <2>5, PlainDelivers
<1> QED BY <1>1, <1>2, <1>3, <1>4, <1>5, <1>6, <1>7, MethodTables DEF Methods

\* The methods that send their arguments as they are: endings, revalidation, evidence.
LEMMA EvidenceMethodsDeliver ==
    ASSUME NEW call, ProperCall(call), call.op \in DOMAIN EvidenceMethods
    PROVE  Delivers(call)
<1>0. Request(call) = Message(EvidenceMethods[call.op], call.args)
  BY MethodTables DEF Methods, Request
<1>1. CASE call.op = "revoke_set"
  <2>1. Request(call) = Message("REVOKE_SET", call.args)
    BY <1>0, <1>1 DEF EvidenceMethods
  <2>2. /\ Arguments[call.op] = {"set_id", "revocation_reason", "text"}
        /\ Written["REVOKE_SET"] = <<"set_id", "revocation_reason", "text">>
    BY <1>1 DEF Arguments, Written
  <2>3. ASSUME NEW q
        PROVE  Dispatched("REVOKE_SET", q) = PlainCall(call.op, q, Arguments[call.op])
    BY <1>1, <2>2, MessageGroups DEF Groups, Queries, Dispatched, DispatchSet
  <2>4. /\ "REVOKE_SET" \in Messages
        /\ Names("REVOKE_SET") = {"set_id", "revocation_reason", "text"}
    BY <2>2 DEF Names, Messages, Written
  <2>5. /\ Arguments[call.op] \subseteq Names("REVOKE_SET")
        /\ Names("REVOKE_SET") \subseteq Arguments[call.op] \cup {"session"}
        /\ Arguments[call.op] \cap {"session", "state_action", "number"} = {}
    BY <2>2, <2>4
  <2> QED BY <2>1, <2>3, <2>4, <2>5, PlainDelivers
<1>2. CASE call.op = "retire_set"
  <2>1. Request(call) = Message("RETIRE_SET", call.args)
    BY <1>0, <1>2 DEF EvidenceMethods
  <2>2. /\ Arguments[call.op] = {"set_id", "text"}
        /\ Written["RETIRE_SET"] = <<"set_id", "text">>
    BY <1>2 DEF Arguments, Written
  <2>3. ASSUME NEW q
        PROVE  Dispatched("RETIRE_SET", q) = PlainCall(call.op, q, Arguments[call.op])
    BY <1>2, <2>2, MessageGroups DEF Groups, Queries, Dispatched, DispatchSet
  <2>4. /\ "RETIRE_SET" \in Messages
        /\ Names("RETIRE_SET") = {"set_id", "text"}
    BY <2>2 DEF Names, Messages, Written
  <2>5. /\ Arguments[call.op] \subseteq Names("RETIRE_SET")
        /\ Names("RETIRE_SET") \subseteq Arguments[call.op] \cup {"session"}
        /\ Arguments[call.op] \cap {"session", "state_action", "number"} = {}
    BY <2>2, <2>4
  <2> QED BY <2>1, <2>3, <2>4, <2>5, PlainDelivers
<1>3. CASE call.op = "revalidate_set"
  <2>1. Request(call) = Message("REVALIDATE_SET", call.args)
    BY <1>0, <1>3 DEF EvidenceMethods
  <2>2. /\ Arguments[call.op] = {"set_id"}
        /\ Written["REVALIDATE_SET"] = <<"set_id">>
    BY <1>3 DEF Arguments, Written
  <2>3. ASSUME NEW q
        PROVE  Dispatched("REVALIDATE_SET", q) = PlainCall(call.op, q, Arguments[call.op])
    BY <1>3, <2>2, MessageGroups DEF Groups, Queries, Dispatched, DispatchSet
  <2>4. /\ "REVALIDATE_SET" \in Messages
        /\ Names("REVALIDATE_SET") = {"set_id"}
    BY <2>2 DEF Names, Messages, Written
  <2>5. /\ Arguments[call.op] \subseteq Names("REVALIDATE_SET")
        /\ Names("REVALIDATE_SET") \subseteq Arguments[call.op] \cup {"session"}
        /\ Arguments[call.op] \cap {"session", "state_action", "number"} = {}
    BY <2>2, <2>4
  <2> QED BY <2>1, <2>3, <2>4, <2>5, PlainDelivers
<1>4. CASE call.op = "revalidate_member"
  <2>1. Request(call) = Message("REVALIDATE_MEMBER", call.args)
    BY <1>0, <1>4 DEF EvidenceMethods
  <2>2. /\ Arguments[call.op] = {"set_id", "member_id"}
        /\ Written["REVALIDATE_MEMBER"] = <<"set_id", "member_id">>
    BY <1>4 DEF Arguments, Written
  <2>3. ASSUME NEW q
        PROVE  Dispatched("REVALIDATE_MEMBER", q) = PlainCall(call.op, q, Arguments[call.op])
    BY <1>4, <2>2, MessageGroups DEF Groups, Queries, Dispatched, DispatchMembership
  <2>4. /\ "REVALIDATE_MEMBER" \in Messages
        /\ Names("REVALIDATE_MEMBER") = {"set_id", "member_id"}
    BY <2>2 DEF Names, Messages, Written
  <2>5. /\ Arguments[call.op] \subseteq Names("REVALIDATE_MEMBER")
        /\ Names("REVALIDATE_MEMBER") \subseteq Arguments[call.op] \cup {"session"}
        /\ Arguments[call.op] \cap {"session", "state_action", "number"} = {}
    BY <2>2, <2>4
  <2> QED BY <2>1, <2>3, <2>4, <2>5, PlainDelivers
<1>5. CASE call.op = "apply_path_authority"
  <2>1. Request(call) = Message("APPLY_PATH_AUTHORITY", call.args)
    BY <1>0, <1>5 DEF EvidenceMethods
  <2>2. /\ Arguments[call.op] = {"path_id", "generation", "path_state"}
        /\ Written["APPLY_PATH_AUTHORITY"] = <<"path_id", "generation", "path_state">>
    BY <1>5 DEF Arguments, Written
  <2>3. ASSUME NEW q
        PROVE  Dispatched("APPLY_PATH_AUTHORITY", q) = PlainCall(call.op, q, Arguments[call.op])
    BY <1>5, <2>2, MessageGroups DEF Groups, Queries, Dispatched, DispatchPaths
  <2>4. /\ "APPLY_PATH_AUTHORITY" \in Messages
        /\ Names("APPLY_PATH_AUTHORITY") = {"path_id", "generation", "path_state"}
    BY <2>2 DEF Names, Messages, Written
  <2>5. /\ Arguments[call.op] \subseteq Names("APPLY_PATH_AUTHORITY")
        /\ Names("APPLY_PATH_AUTHORITY") \subseteq Arguments[call.op] \cup {"session"}
        /\ Arguments[call.op] \cap {"session", "state_action", "number"} = {}
    BY <2>2, <2>4
  <2> QED BY <2>1, <2>3, <2>4, <2>5, PlainDelivers
<1>6. CASE call.op = "declare_path_authority"
  <2>1. Request(call) = Message("DECLARE_PATH_AUTHORITY", call.args)
    BY <1>0, <1>6 DEF EvidenceMethods
  <2>2. /\ Arguments[call.op] = {"path_id", "generation", "path_state"}
        /\ Written["DECLARE_PATH_AUTHORITY"] = <<"path_id", "generation", "path_state">>
    BY <1>6 DEF Arguments, Written
  <2>3. ASSUME NEW q
        PROVE  Dispatched("DECLARE_PATH_AUTHORITY", q) = PlainCall(call.op, q, Arguments[call.op])
    BY <1>6, <2>2, MessageGroups DEF Groups, Queries, Dispatched, DispatchPaths
  <2>4. /\ "DECLARE_PATH_AUTHORITY" \in Messages
        /\ Names("DECLARE_PATH_AUTHORITY") = {"path_id", "generation", "path_state"}
    BY <2>2 DEF Names, Messages, Written
  <2>5. /\ Arguments[call.op] \subseteq Names("DECLARE_PATH_AUTHORITY")
        /\ Names("DECLARE_PATH_AUTHORITY") \subseteq Arguments[call.op] \cup {"session"}
        /\ Arguments[call.op] \cap {"session", "state_action", "number"} = {}
    BY <2>2, <2>4
  <2> QED BY <2>1, <2>3, <2>4, <2>5, PlainDelivers
<1>7. CASE call.op = "refresh_path"
  <2>1. Request(call) = Message("REFRESH_PATH", call.args)
    BY <1>0, <1>7 DEF EvidenceMethods
  <2>2. /\ Arguments[call.op] = {"path_id"}
        /\ Written["REFRESH_PATH"] = <<"path_id">>
    BY <1>7 DEF Arguments, Written
  <2>3. ASSUME NEW q
        PROVE  Dispatched("REFRESH_PATH", q) = PlainCall(call.op, q, Arguments[call.op])
    BY <1>7, <2>2, MessageGroups DEF Groups, Queries, Dispatched, DispatchPaths
  <2>4. /\ "REFRESH_PATH" \in Messages
        /\ Names("REFRESH_PATH") = {"path_id"}
    BY <2>2 DEF Names, Messages, Written
  <2>5. /\ Arguments[call.op] \subseteq Names("REFRESH_PATH")
        /\ Names("REFRESH_PATH") \subseteq Arguments[call.op] \cup {"session"}
        /\ Arguments[call.op] \cap {"session", "state_action", "number"} = {}
    BY <2>2, <2>4
  <2> QED BY <2>1, <2>3, <2>4, <2>5, PlainDelivers
<1> QED BY <1>1, <1>2, <1>3, <1>4, <1>5, <1>6, <1>7, MethodTables DEF Methods

\* The methods that send their arguments as they are: queries.
LEMMA QueryMethodsDeliver ==
    ASSUME NEW call, ProperCall(call), call.op \in DOMAIN QueryMethods
    PROVE  Delivers(call)
<1>0. Request(call) = Message(QueryMethods[call.op], call.args)
  BY MethodTables DEF Methods, Request
<1>1. CASE call.op = "list_sets"
  <2>1. Request(call) = Message("LIST_SETS", call.args)
    BY <1>0, <1>1 DEF QueryMethods
  <2>2. /\ Arguments[call.op] = {}
        /\ Written["LIST_SETS"] = <<>>
    BY <1>1 DEF Arguments, Written
  <2>3. ASSUME NEW q
        PROVE  Dispatched("LIST_SETS", q) = PlainCall(call.op, q, Arguments[call.op])
    BY <1>1, <2>2, MessageGroups DEF Groups, Queries, Dispatched, DispatchQuery
  <2>4. /\ "LIST_SETS" \in Messages
        /\ Names("LIST_SETS") = {}
    BY <2>2 DEF Names, Messages, Written
  <2>5. /\ Arguments[call.op] \subseteq Names("LIST_SETS")
        /\ Names("LIST_SETS") \subseteq Arguments[call.op] \cup {"session"}
        /\ Arguments[call.op] \cap {"session", "state_action", "number"} = {}
    BY <2>2, <2>4
  <2> QED BY <2>1, <2>3, <2>4, <2>5, PlainDelivers
<1>2. CASE call.op = "query_set"
  <2>1. Request(call) = Message("QUERY_SET", call.args)
    BY <1>0, <1>2 DEF QueryMethods
  <2>2. /\ Arguments[call.op] = {"set_id"}
        /\ Written["QUERY_SET"] = <<"set_id">>
    BY <1>2 DEF Arguments, Written
  <2>3. ASSUME NEW q
        PROVE  Dispatched("QUERY_SET", q) = PlainCall(call.op, q, Arguments[call.op])
    BY <1>2, <2>2, MessageGroups DEF Groups, Queries, Dispatched, DispatchQuery
  <2>4. /\ "QUERY_SET" \in Messages
        /\ Names("QUERY_SET") = {"set_id"}
    BY <2>2 DEF Names, Messages, Written
  <2>5. /\ Arguments[call.op] \subseteq Names("QUERY_SET")
        /\ Names("QUERY_SET") \subseteq Arguments[call.op] \cup {"session"}
        /\ Arguments[call.op] \cap {"session", "state_action", "number"} = {}
    BY <2>2, <2>4
  <2> QED BY <2>1, <2>3, <2>4, <2>5, PlainDelivers
<1>3. CASE call.op = "explain_set"
  <2>1. Request(call) = Message("EXPLAIN_SET", call.args)
    BY <1>0, <1>3 DEF QueryMethods
  <2>2. /\ Arguments[call.op] = {"set_id"}
        /\ Written["EXPLAIN_SET"] = <<"set_id">>
    BY <1>3 DEF Arguments, Written
  <2>3. ASSUME NEW q
        PROVE  Dispatched("EXPLAIN_SET", q) = PlainCall(call.op, q, Arguments[call.op])
    BY <1>3, <2>2, MessageGroups DEF Groups, Queries, Dispatched, DispatchQuery
  <2>4. /\ "EXPLAIN_SET" \in Messages
        /\ Names("EXPLAIN_SET") = {"set_id"}
    BY <2>2 DEF Names, Messages, Written
  <2>5. /\ Arguments[call.op] \subseteq Names("EXPLAIN_SET")
        /\ Names("EXPLAIN_SET") \subseteq Arguments[call.op] \cup {"session"}
        /\ Arguments[call.op] \cap {"session", "state_action", "number"} = {}
    BY <2>2, <2>4
  <2> QED BY <2>1, <2>3, <2>4, <2>5, PlainDelivers
<1>4. CASE call.op = "request_snapshot"
  <2>1. Request(call) = Message("SNAPSHOT_REQUEST", call.args)
    BY <1>0, <1>4 DEF QueryMethods
  <2>2. /\ Arguments[call.op] = {"set_id", "snapshot_id"}
        /\ Written["SNAPSHOT_REQUEST"] = <<"set_id", "snapshot_id">>
    BY <1>4 DEF Arguments, Written
  <2>3. ASSUME NEW q
        PROVE  Dispatched("SNAPSHOT_REQUEST", q) = PlainCall(call.op, q, Arguments[call.op])
    BY <1>4, <2>2, MessageGroups DEF Groups, Queries, Dispatched, DispatchQuery
  <2>4. /\ "SNAPSHOT_REQUEST" \in Messages
        /\ Names("SNAPSHOT_REQUEST") = {"set_id", "snapshot_id"}
    BY <2>2 DEF Names, Messages, Written
  <2>5. /\ Arguments[call.op] \subseteq Names("SNAPSHOT_REQUEST")
        /\ Names("SNAPSHOT_REQUEST") \subseteq Arguments[call.op] \cup {"session"}
        /\ Arguments[call.op] \cap {"session", "state_action", "number"} = {}
    BY <2>2, <2>4
  <2> QED BY <2>1, <2>3, <2>4, <2>5, PlainDelivers
<1> QED BY <1>1, <1>2, <1>3, <1>4, MethodTables DEF Methods

\* An argument holds what its field must.
LEMMA ArgumentsHold ==
    ASSUME NEW call, ProperCall(call), NEW id
    PROVE  \A f \in Arguments[call.op] :
               f \notin {"session", "state_action", "number"} => Fine(id, f, call.args[f])
BY DEF ProperCall, Fine

\* The fields that the other methods fill hold what they must.
LEMMA PlainFields ==
    ASSUME NEW id, id # "EPOCH_ADVANCE", NEW value
    PROVE  /\ \A f \in {"set_id", "member_id"} : value # "" => Fine(id, f, value)
           /\ \A f \in {"number", "flag", "text"} : Fine(id, f, value)
BY DEF Fine, ValidArgument

\* publish_set(), withdraw_set() and complete_withdrawal().
LEMMA StateMethodsDeliver ==
    ASSUME NEW call, ProperCall(call), call.op \in DOMAIN StateMethods
    PROVE  Delivers(call)
<1> DEFINE id == "ADVANCE_SET_STATE"
           fields == With(call.args, [state_action |-> StateMethods[call.op]])
<1>1. Request(call) = Message(id, fields)
  BY MethodTables DEF Methods, Request
<1>2. /\ Arguments[call.op] = IF call.op = "withdraw_set" THEN {"set_id", "text"} ELSE {"set_id"}
      /\ StateMethods[call.op] = IF call.op = "publish_set" THEN "PUBLISH"
                                 ELSE IF call.op = "withdraw_set" THEN "WITHDRAW"
                                 ELSE "COMPLETE_WITHDRAWAL"
      /\ call.op \in {"publish_set", "withdraw_set", "complete_withdrawal"}
  <2>1. call.op \in {"publish_set", "withdraw_set", "complete_withdrawal"}
    BY MethodTables DEF Methods
  <2>2. CASE call.op = "publish_set"
    BY <2>2 DEF Arguments, StateMethods
  <2>3. CASE call.op = "withdraw_set"
    BY <2>3 DEF Arguments, StateMethods
  <2>4. CASE call.op = "complete_withdrawal"
    BY <2>4 DEF Arguments, StateMethods
  <2> QED BY <2>1, <2>2, <2>3, <2>4
<1>3. Written[id] = <<"set_id", "state_action", "text">>
  BY DEF Written
<1>4. id \in Messages /\ Names(id) = {"set_id", "state_action", "text"}
  BY <1>3 DEF Names, Messages, Written
<1>5. /\ DOMAIN fields = Arguments[call.op] \cup {"state_action"}
      /\ \A f \in Arguments[call.op] : fields[f] = call.args[f]
      /\ fields["state_action"] = StateMethods[call.op]
  <2> DEFINE added == [state_action |-> StateMethods[call.op]]
  <2>1. DOMAIN call.args = Arguments[call.op]
    BY ProperArguments
  <2>2. DOMAIN added = {"state_action"} /\ added["state_action"] = StateMethods[call.op]
    OBVIOUS
  <2>3. "state_action" \notin DOMAIN call.args
    BY <1>2, <2>1
  <2>4. fields = With(call.args, added)
    OBVIOUS
  <2> HIDE DEF fields, added
  <2>5. /\ DOMAIN fields = DOMAIN call.args \cup DOMAIN added
        /\ \A f \in DOMAIN call.args : fields[f] = call.args[f]
        /\ \A f \in DOMAIN added \ DOMAIN call.args : fields[f] = added[f]
    BY <2>4 DEF With
  <2> QED BY <2>1, <2>2, <2>3, <2>5
<1> HIDE DEF fields
<1>6. \A f \in DOMAIN fields : Fine(id, f, fields[f])
  <2>1. Fine(id, "state_action", StateMethods[call.op])
    BY <1>2 DEF Fine, ValidArgument, SetStateActions
  <2> QED BY <1>2, <1>5, <2>1, ArgumentsHold
<1>7. ASSUME NEW q, Held(q, fields) PROVE Dispatched(id, q) = call
  <2>1. Dispatched(id, q) = DispatchState(q)
    BY MessageGroups DEF Dispatched, Groups, Queries
  <2>2. /\ q.state_action = StateMethods[call.op]
        /\ \A f \in Arguments[call.op] : q[f] = call.args[f]
    BY <1>5, <1>7 DEF Held
  <2>3. DispatchState(q) = PlainCall(call.op, q, Arguments[call.op])
    BY <1>2, <2>2 DEF DispatchState
  <2> QED BY <2>1, <2>2, <2>3, PlainSame
<1>8. Request(call).id = id /\ Request(call).fields = fields
  BY <1>1 DEF Message
<1> HIDE DEF id
<1> QED BY <1>2, <1>4, <1>5, <1>6, <1>7, <1>8 DEF Delivers

\* A call is its method and its arguments.
LEMMA SameCall ==
    ASSUME NEW call, ProperCall(call), NEW args, DOMAIN args = Arguments[call.op],
           args = [f \in DOMAIN args |-> args[f]],
           \A f \in Arguments[call.op] : args[f] = call.args[f]
    PROVE  Call(call.op, args) = call
BY DEF ProperCall, Call

\* A method whose request is this message, and what its fields hold.
LEMMA SettingDelivers ==
    ASSUME NEW call, ProperCall(call), NEW id \in Messages, NEW fields,
           Request(call) = Message(id, fields),
           DOMAIN fields = Names(id),
           \A f \in DOMAIN fields : Fine(id, f, fields[f]),
           \A q : Held(q, fields) => Dispatched(id, q) = call
    PROVE  Delivers(call)
BY DEF Delivers, Message

\* The request of a method that chooses or renames fields.
LEMMA IsSetting ==
    ASSUME NEW call, call.op \in {"set_admin_enabled", "set_member_admin_enabled", "set_minimum",
                                  "set_conditional_policy", "supersede_set", "advance_epoch"}
    PROVE  Request(call) = SettingMessage(call.op, call.args)
BY MethodTables DEF Methods, Request

\* advance_epoch() sends the epoch it expects as a number.
LEMMA AdvanceEpochDelivers ==
    ASSUME NEW call, ProperCall(call), call.op = "advance_epoch"
    PROVE  Delivers(call)
<1> DEFINE id == "EPOCH_ADVANCE"
           fields == [number |-> call.args.expected_epoch]
<1>1. Request(call) = Message(id, fields)
  <2>1. Request(call) = SettingMessage("advance_epoch", call.args)
    BY IsSetting
  <2> QED BY <2>1 DEF SettingMessage
<1>2. Arguments[call.op] = {"expected_epoch"} /\ Written[id] = <<"number">>
  BY DEF Arguments, Written
<1>3. id \in Messages /\ Names(id) = {"number"}
  BY <1>2 DEF Names, Messages, Written
<1>4. call.args.expected_epoch # 0
  BY <1>2 DEF ProperCall, ValidArgument
<1>5. \A f \in DOMAIN fields : Fine(id, f, fields[f])
  BY <1>4 DEF Fine, ValidArgument
<1>6. ASSUME NEW q, Held(q, fields) PROVE Dispatched(id, q) = call
  <2>1. q.number = call.args.expected_epoch
    BY <1>6 DEF Held
  <2>2. Dispatched(id, q) = Call("advance_epoch", [expected_epoch |-> q.number])
    BY MessageGroups DEF Dispatched, Groups, Queries
  <2> QED BY <1>2, <2>1, <2>2, SameCall
<1> QED BY <1>1, <1>3, <1>5, <1>6, SettingDelivers

\* set_minimum() sends the minimum as a number.
LEMMA SetMinimumDelivers ==
    ASSUME NEW call, ProperCall(call), call.op = "set_minimum"
    PROVE  Delivers(call)
<1> DEFINE id == "SET_MINIMUM"
           fields == [set_id |-> call.args.set_id, number |-> call.args.minimum]
<1>1. Request(call) = Message(id, fields)
  <2>1. Request(call) = SettingMessage("set_minimum", call.args)
    BY IsSetting
  <2> QED BY <2>1 DEF SettingMessage
<1>2. Arguments[call.op] = {"set_id", "minimum"} /\ Written[id] = <<"set_id", "number">>
  BY DEF Arguments, Written
<1>3. id \in Messages /\ Names(id) = {"set_id", "number"}
  BY <1>2 DEF Names, Messages, Written
<1>4. call.args.set_id # ""
  BY <1>2 DEF ProperCall, ValidArgument
<1>5. \A f \in DOMAIN fields : Fine(id, f, fields[f])
  <2>1. Fine(id, "set_id", call.args.set_id) /\ \A value : Fine(id, "number", value)
    BY <1>4, PlainFields
  <2> QED BY <2>1
<1>6. ASSUME NEW q, Held(q, fields) PROVE Dispatched(id, q) = call
  <2>1. q.set_id = call.args.set_id /\ q.number = call.args.minimum
    BY <1>6 DEF Held
  <2>2. Dispatched(id, q) = Call("set_minimum", [set_id |-> q.set_id, minimum |-> q.number])
    BY MessageGroups DEF Dispatched, DispatchSet, Groups, Queries
  <2> QED BY <1>2, <2>1, <2>2, SameCall
<1> QED BY <1>1, <1>3, <1>5, <1>6, SettingDelivers

\* set_conditional_policy() sends the permission as a flag.
LEMMA SetConditionalDelivers ==
    ASSUME NEW call, ProperCall(call), call.op = "set_conditional_policy"
    PROVE  Delivers(call)
<1> DEFINE id == "SET_CONDITIONAL_POLICY"
           fields == [set_id |-> call.args.set_id, flag |-> call.args.permitted]
<1>1. Request(call) = Message(id, fields)
  <2>1. Request(call) = SettingMessage("set_conditional_policy", call.args)
    BY IsSetting
  <2> QED BY <2>1 DEF SettingMessage
<1>2. Arguments[call.op] = {"set_id", "permitted"} /\ Written[id] = <<"set_id", "flag">>
  BY DEF Arguments, Written
<1>3. id \in Messages /\ Names(id) = {"set_id", "flag"}
  BY <1>2 DEF Names, Messages, Written
<1>4. call.args.set_id # ""
  BY <1>2 DEF ProperCall, ValidArgument
<1>5. \A f \in DOMAIN fields : Fine(id, f, fields[f])
  <2>1. Fine(id, "set_id", call.args.set_id) /\ \A value : Fine(id, "flag", value)
    BY <1>4, PlainFields
  <2> QED BY <2>1
<1>6. ASSUME NEW q, Held(q, fields) PROVE Dispatched(id, q) = call
  <2>1. q.set_id = call.args.set_id /\ q.flag = call.args.permitted
    BY <1>6 DEF Held
  <2>2. Dispatched(id, q) =
            Call("set_conditional_policy", [set_id |-> q.set_id, permitted |-> q.flag])
    BY MessageGroups DEF Dispatched, DispatchSet, Groups, Queries
  <2> QED BY <1>2, <2>1, <2>2, SameCall
<1> QED BY <1>1, <1>3, <1>5, <1>6, SettingDelivers

\* set_admin_enabled() chooses its message.
LEMMA SetAdminDelivers ==
    ASSUME NEW call, ProperCall(call), call.op = "set_admin_enabled"
    PROVE  Delivers(call)
<1> DEFINE fields == [set_id |-> call.args.set_id]
<1>1. Arguments[call.op] = {"set_id", "enabled"}
  BY DEF Arguments
<1>2. call.args.set_id # "" /\ call.args.enabled \in BOOLEAN
  BY <1>1 DEF ProperCall, ValidArgument
<1>3. ASSUME NEW id \in {"SET_ADMIN_ENABLE", "SET_ADMIN_DISABLE"}, NEW e \in BOOLEAN,
             e = call.args.enabled, e <=> id = "SET_ADMIN_ENABLE"
      PROVE  Delivers(call)
  <2>1. Request(call) = Message(id, fields)
    <3>1. Request(call) = SettingMessage("set_admin_enabled", call.args)
      BY IsSetting
    <3> QED BY <1>3, <3>1 DEF SettingMessage
  <2>2. Written[id] = <<"set_id">> /\ id \in Messages
    BY DEF Written, Messages
  <2>3. Names(id) = {"set_id"}
    BY <2>2 DEF Names
  <2>4. \A f \in DOMAIN fields : Fine(id, f, fields[f])
    <3>1. Fine(id, "set_id", call.args.set_id)
      BY <1>2, PlainFields
    <3> QED BY <3>1
  <2>5. ASSUME NEW q, Held(q, fields) PROVE Dispatched(id, q) = call
    <3>1. q.set_id = call.args.set_id
      BY <2>5 DEF Held
    <3>2. Dispatched(id, q) =
              Call("set_admin_enabled", [set_id |-> q.set_id, enabled |-> id = "SET_ADMIN_ENABLE"])
      BY MessageGroups DEF Dispatched, DispatchSet, Groups, Queries
    <3>3. (id = "SET_ADMIN_ENABLE") = call.args.enabled
      BY <1>3
    <3> QED BY <1>1, <3>1, <3>2, <3>3, SameCall
  <2> QED BY <2>1, <2>2, <2>3, <2>4, <2>5, SettingDelivers
<1> QED BY <1>2, <1>3

\* set_member_admin_enabled() chooses its message.
LEMMA SetMemberAdminDelivers ==
    ASSUME NEW call, ProperCall(call), call.op = "set_member_admin_enabled"
    PROVE  Delivers(call)
<1> DEFINE fields == [set_id |-> call.args.set_id, member_id |-> call.args.member_id]
<1>1. Arguments[call.op] = {"set_id", "member_id", "enabled"}
  BY DEF Arguments
<1>2. call.args.set_id # "" /\ call.args.member_id # "" /\ call.args.enabled \in BOOLEAN
  BY <1>1 DEF ProperCall, ValidArgument
<1>3. ASSUME NEW id \in {"MEMBER_ADMIN_ENABLE", "MEMBER_ADMIN_DISABLE"}, NEW e \in BOOLEAN,
             e = call.args.enabled, e <=> id = "MEMBER_ADMIN_ENABLE"
      PROVE  Delivers(call)
  <2>1. Request(call) = Message(id, fields)
    <3>1. Request(call) = SettingMessage("set_member_admin_enabled", call.args)
      BY IsSetting
    <3> QED BY <1>3, <3>1 DEF SettingMessage
  <2>2. Written[id] = <<"set_id", "member_id">> /\ id \in Messages
    BY DEF Written, Messages
  <2>3. Names(id) = {"set_id", "member_id"}
    BY <2>2 DEF Names
  <2>4. \A f \in DOMAIN fields : Fine(id, f, fields[f])
    <3>1. Fine(id, "set_id", call.args.set_id) /\ Fine(id, "member_id", call.args.member_id)
      BY <1>2, PlainFields
    <3> QED BY <3>1
  <2>5. ASSUME NEW q, Held(q, fields) PROVE Dispatched(id, q) = call
    <3>1. q.set_id = call.args.set_id /\ q.member_id = call.args.member_id
      BY <2>5 DEF Held
    <3>2. Dispatched(id, q) =
              Call("set_member_admin_enabled",
                   [set_id |-> q.set_id, member_id |-> q.member_id,
                    enabled |-> id = "MEMBER_ADMIN_ENABLE"])
      BY MessageGroups DEF Dispatched, DispatchMembership, Groups, Queries
    <3>3. (id = "MEMBER_ADMIN_ENABLE") = call.args.enabled
      BY <1>3
    <3> QED BY <1>1, <3>1, <3>2, <3>3, SameCall
  <2> QED BY <2>1, <2>2, <2>3, <2>4, <2>5, SettingDelivers
<1> QED BY <1>2, <1>3

\* Every method but supersede_set().
LEMMA MethodsDeliver ==
    ASSUME NEW call, ProperCall(call), call.op # "supersede_set"
    PROVE  Delivers(call)
<1>1. call.op \in DOMAIN Arguments
  BY DEF ProperCall
<1>2. \/ call.op \in DOMAIN MembershipMethods \/ call.op \in DOMAIN EvidenceMethods
      \/ call.op \in DOMAIN QueryMethods \/ call.op \in DOMAIN StateMethods
      \/ call.op \in {"set_admin_enabled", "set_member_admin_enabled", "set_minimum",
                      "set_conditional_policy", "advance_epoch"}
  BY <1>1, MethodTables DEF Methods, Arguments
<1> QED
  BY <1>2, MembershipMethodsDeliver, EvidenceMethodsDeliver, QueryMethodsDeliver,
     StateMethodsDeliver, SetAdminDelivers, SetMemberAdminDelivers, SetMinimumDelivers,
     SetConditionalDelivers, AdvanceEpochDelivers

\* Every message but SUPERSEDE_SET is read as it is written.
LEMMA MessagesAgree == ASSUME NEW id \in Messages PROVE Agrees(id)
<1>1. \/ id \in DOMAIN ReadControl \/ id \in DOMAIN ReadMembership
      \/ id \in DOMAIN ReadPolicy \/ (id \in DOMAIN ReadGovernance /\ id # "SUPERSEDE_SET")
      \/ id \in DOMAIN ReadPaths \/ id \in DOMAIN ReadQueries
  BY MessageGroups DEF Groups, Messages, Written
<1> QED
  BY <1>1, ControlAgrees, MembershipAgrees, PolicyAgrees, GovernanceAgrees, PathsAgrees,
     QueriesAgrees

-----------------------------------------------------------------------------
(***************************************************************************)
(* Encoding and decoding: the context, then the fields of the message.     *)
(***************************************************************************)

\* What a mutation context holds that can be read.
ContextFine(q) ==
    q.epoch # 0 /\ q.publisher # "" /\ q.worker_boot # "" /\ q.session # "" /\ q.attempt # ""

\* read_context() reads the fields of a context as they are written, when each holds
\* what it must.
LEMMA ContextAgrees ==
    /\ ContextFields \in Seq(FieldNames) /\ ReadContext \in Seq(ReadEntries)
    /\ Len(ContextFields) = 7 /\ Len(ReadContext) = 7
    /\ \A i \in 1 .. 7 : ReadContext[i].field = ContextFields[i]
    /\ \A q : ContextFine(q) =>
           \A i \in 1 .. 7 : Valid(ReadContext[i], q[ContextFields[i]])
<1>1. ASSUME NEW S, NEW a \in S, NEW b \in S, NEW c \in S, NEW d \in S, NEW e \in S,
             NEW f \in S, NEW g \in S
      PROVE  <<a, b, c, d, e, f, g>> \in Seq(S)
  OBVIOUS
<1>2. ContextFields \in Seq(FieldNames)
  BY <1>1, NamesOfFields DEF ContextFields
<1>3. /\ Generation("epoch") \in ReadEntries /\ Id("publisher") \in ReadEntries
      /\ Id("worker_boot") \in ReadEntries /\ Id("session") \in ReadEntries
      /\ Id("attempt") \in ReadEntries /\ Value("expected_set") \in ReadEntries
      /\ Value("expected_member") \in ReadEntries
  BY NamesOfFields, EntryTypes
<1>4. ReadContext \in Seq(ReadEntries)
  BY <1>1, <1>3 DEF ReadContext
<1>5. /\ Len(ContextFields) = 7 /\ Len(ReadContext) = 7
      /\ \A i \in 1 .. 7 : ReadContext[i].field = ContextFields[i]
  BY DEF ContextFields, ReadContext, Generation, Id, Value
<1>6. ASSUME NEW q, ContextFine(q), NEW i \in 1 .. 7
      PROVE  Valid(ReadContext[i], q[ContextFields[i]])
  <2>1. /\ Valid(Generation("epoch"), q.epoch) /\ Valid(Id("publisher"), q.publisher)
        /\ Valid(Id("worker_boot"), q.worker_boot) /\ Valid(Id("session"), q.session)
        /\ Valid(Id("attempt"), q.attempt) /\ Valid(Value("expected_set"), q.expected_set)
        /\ Valid(Value("expected_member"), q.expected_member)
    BY <1>6 DEF ContextFine, Valid, Generation, Id, Value, List
  <2> QED BY <2>1 DEF ReadContext, ContextFields
<1> QED BY <1>2, <1>4, <1>5, <1>6

\* What a concatenation consists of.
LEMMA Joined ==
    ASSUME NEW S, NEW s \in Seq(S), NEW t \in Seq(S)
    PROVE  /\ s \o t \in Seq(S) /\ Len(s \o t) = Len(s) + Len(t) /\ Len(t) \in Nat
           /\ \A i \in 1 .. Len(s) : (s \o t)[i] = s[i]
           /\ \A i \in 1 .. Len(t) : (s \o t)[Len(s) + i] = t[i]
OBVIOUS

\* decode_request() reads, entry by entry, the fields that encode_request() writes.
LEMMA EntriesAreFields ==
    ASSUME NEW id \in Messages
    PROVE  /\ Fields(id) \in Seq(FieldNames) /\ Entries(id) \in Seq(ReadEntries)
           /\ Len(Entries(id)) = Len(Fields(id))
           /\ \A i \in 1 .. Len(Fields(id)) : Entries(id)[i].field = Fields(id)[i]
           /\ \A f \in Names(id) : \E i \in 1 .. Len(Fields(id)) : Fields(id)[i] = f
           /\ id \notin Contextless =>
                  \A j \in 1 .. 7 : \E i \in 1 .. Len(Fields(id)) : Fields(id)[i] = ContextFields[j]
           /\ \A q : /\ id \notin Contextless => ContextFine(q)
                     /\ \A f \in Names(id) : Fine(id, f, q[f])
                     => \A i \in 1 .. Len(Fields(id)) : Valid(Entries(id)[i], q[Fields(id)[i]])
<1> DEFINE w == Written[id]
           r == ReadFields(id)
<1>1. /\ w \in Seq(FieldNames) /\ r \in Seq(ReadEntries) /\ Len(r) = Len(w)
      /\ \A i \in 1 .. Len(w) : Takes(id, r[i], w[i])
      /\ Names(id) = {w[i] : i \in 1 .. Len(w)}
  BY MessagesAgree DEF Agrees, Names
<1> HIDE DEF w, r
<1>2. CASE id \in Contextless
  <2>1. Fields(id) = <<>> \o w /\ Entries(id) = <<>> \o r
    BY <1>2 DEF Fields, Context, Entries, w, r
  <2>2. Fields(id) = w /\ Entries(id) = r
    BY <1>1, <2>1
  <2> QED BY <1>1, <1>2, <2>2 DEF Takes
<1>3. CASE id \notin Contextless
  <2> DEFINE F == ContextFields \o w
             E == ReadContext \o r
  <2>1. Fields(id) = F /\ Entries(id) = E
    BY <1>3 DEF Fields, Context, Entries, w, r
  <2>2. /\ F \in Seq(FieldNames) /\ E \in Seq(ReadEntries)
        /\ Len(F) = 7 + Len(w) /\ Len(E) = 7 + Len(w) /\ Len(w) \in Nat
        /\ \A i \in 1 .. 7 : F[i] = ContextFields[i] /\ E[i] = ReadContext[i]
        /\ \A i \in 1 .. Len(w) : F[7 + i] = w[i] /\ E[7 + i] = r[i]
    <3>0. ContextFields \in Seq(FieldNames) /\ ReadContext \in Seq(ReadEntries)
      BY ContextAgrees
    <3>1. /\ F \in Seq(FieldNames) /\ Len(F) = Len(ContextFields) + Len(w) /\ Len(w) \in Nat
          /\ \A i \in 1 .. Len(ContextFields) : F[i] = ContextFields[i]
          /\ \A i \in 1 .. Len(w) : F[Len(ContextFields) + i] = w[i]
      <4>1. w \in Seq(FieldNames)
        BY <1>1
      <4> QED BY <3>0, <4>1, Joined
    <3>2. /\ E \in Seq(ReadEntries) /\ Len(E) = Len(ReadContext) + Len(r)
          /\ \A i \in 1 .. Len(ReadContext) : E[i] = ReadContext[i]
          /\ \A i \in 1 .. Len(r) : E[Len(ReadContext) + i] = r[i]
      <4>1. r \in Seq(ReadEntries)
        BY <1>1
      <4> QED BY <3>0, <4>1, Joined
    <3>3. Len(r) = Len(w) /\ Len(ContextFields) = 7 /\ Len(ReadContext) = 7
      BY <1>1, ContextAgrees
    <3> HIDE DEF F, E
    <3> QED BY <3>0, <3>1, <3>2, <3>3
  <2> HIDE DEF F, E
  <2>3. ASSUME NEW i \in 1 .. Len(F)
        PROVE  i \in 1 .. 7 \/ \E j \in 1 .. Len(w) : i = 7 + j
    <3>1. CASE i <= 7
      BY <2>2, <3>1
    <3>2. CASE i > 7
      <4>1. i - 7 \in 1 .. Len(w) /\ i = 7 + (i - 7)
        BY <2>2, <3>2
      <4> QED BY <4>1
    <3> QED BY <2>2, <3>1, <3>2
  <2>4. ASSUME NEW i \in 1 .. Len(F) PROVE E[i].field = F[i]
    <3>1. CASE i \in 1 .. 7
      BY <2>2, <3>1, ContextAgrees
    <3>2. ASSUME NEW j \in 1 .. Len(w), i = 7 + j PROVE E[i].field = F[i]
      BY <1>1, <2>2, <3>2 DEF Takes
    <3> QED BY <2>3, <3>1, <3>2
  <2>5. ASSUME NEW f \in Names(id) PROVE \E i \in 1 .. Len(F) : F[i] = f
    <3>1. PICK j \in 1 .. Len(w) : f = w[j]
      BY <1>1
    <3>2. 7 + j \in 1 .. Len(F) /\ F[7 + j] = f
      BY <2>2, <3>1
    <3> QED BY <3>2
  <2>6. \A j \in 1 .. 7 : j \in 1 .. Len(F) /\ F[j] = ContextFields[j]
    BY <2>2
  <2>7. ASSUME NEW q, ContextFine(q), \A f \in Names(id) : Fine(id, f, q[f]), NEW i \in 1 .. Len(F)
        PROVE  Valid(E[i], q[F[i]])
    <3>1. CASE i \in 1 .. 7
      BY <2>2, <2>7, <3>1, ContextAgrees
    <3>2. ASSUME NEW j \in 1 .. Len(w), i = 7 + j PROVE Valid(E[i], q[F[i]])
      <4>1. Takes(id, r[j], w[j]) /\ Fine(id, w[j], q[w[j]])
        BY <1>1, <2>7
      <4>2. Valid(r[j], q[w[j]])
        BY <4>1 DEF Takes
      <4> QED BY <2>2, <3>2, <4>2
    <3> QED BY <2>3, <3>1, <3>2
  <2> QED BY <1>3, <2>1, <2>2, <2>4, <2>5, <2>6, <2>7
<1> QED BY <1>2, <1>3

\* What was encoded is decoded, as far as it was written.
LEMMA DecodedAsEncoded ==
    ASSUME NEW id \in Messages, NEW q,
           id \notin Contextless => ContextFine(q),
           \A f \in Names(id) : Fine(id, f, q[f])
    PROVE  LET r == Decoded(id, Encoded(id, q))
           IN  /\ r # Malformed
               /\ \A f \in Names(id) : r[f] = q[f]
               /\ id \notin Contextless =>
                   \A j \in 1 .. 7 : r[ContextFields[j]] = q[ContextFields[j]]
<1> DEFINE F == Fields(id)
           E == Entries(id)
           P == Encoded(id, q)
           r == Decoded(id, P)
<1>1. /\ F \in Seq(FieldNames) /\ E \in Seq(ReadEntries) /\ Len(E) = Len(F)
      /\ \A i \in 1 .. Len(F) : E[i].field = F[i]
      /\ \A f \in Names(id) : \E i \in 1 .. Len(F) : F[i] = f
      /\ id \notin Contextless =>
             \A j \in 1 .. 7 : \E i \in 1 .. Len(F) : F[i] = ContextFields[j]
      /\ \A i \in 1 .. Len(F) : Valid(E[i], q[F[i]])
  BY EntriesAreFields
<1>2. P = [i \in 1 .. Len(F) |-> q[F[i]]]
  BY <1>1 DEF Encoded
<1>3. Len(P) = Len(F) /\ DOMAIN E = 1 .. Len(F) /\ Len(F) \in Nat
  BY <1>1, <1>2
<1>4. r = [f \in FieldNames |-> IF \E i \in DOMAIN E : E[i].field = f
                                THEN P[CHOOSE i \in DOMAIN E : E[i].field = f]
                                ELSE NewRequest[f]]
  <2>1. /\ Len(P) = Len(E)
        /\ \A i \in DOMAIN E : Valid(E[i], P[i])
    BY <1>1, <1>2, <1>3
  <2> QED BY <2>1 DEF Decoded, FieldNames
<1>5. ASSUME NEW f \in FieldNames, NEW j \in 1 .. Len(F), F[j] = f PROVE r[f] = q[f]
  <2> DEFINE c == CHOOSE i \in DOMAIN E : E[i].field = f
  <2>1. j \in DOMAIN E /\ E[j].field = f
    BY <1>1, <1>3, <1>5
  <2>2. c \in DOMAIN E /\ E[c].field = f
    BY <2>1
  <2>3. r[f] = P[c]
    BY <1>4, <2>1
  <2> HIDE DEF c
  <2>4. F[c] = f /\ P[c] = q[F[c]]
    BY <1>1, <1>2, <1>3, <2>2
  <2> QED BY <2>3, <2>4
<1>6. r # Malformed
  <2>1. "epoch" \in DOMAIN r
    BY <1>4, NamesOfFields
  <2> QED BY <2>1 DEF Malformed
<1> HIDE DEF r, P
<1>7. \A i \in 1 .. Len(F) : F[i] \in FieldNames
  BY <1>1
<1> HIDE DEF F, E
<1>8. \A f \in Names(id) : r[f] = q[f]
  BY <1>1, <1>5, <1>7
<1>9. id \notin Contextless => \A j \in 1 .. 7 : r[ContextFields[j]] = q[ContextFields[j]]
  BY <1>1, <1>5, <1>7
<1> QED BY <1>6, <1>8, <1>9 DEF r, P

\* The second entry of a context, and the second that follows it.
LEMMA AfterContext ==
    ASSUME NEW S, NEW c \in Seq(S), NEW w \in Seq(S)
    PROVE  Len(c) = 7 =>
               /\ 2 \in DOMAIN (c \o w) /\ (c \o w)[2] = c[2]
               /\ Len(w) = 2 => 9 \in DOMAIN (c \o w) /\ (c \o w)[9] = w[2]
<1> DEFINE t == c \o w
<1>1. /\ t \in Seq(S) /\ Len(t) = Len(c) + Len(w) /\ Len(w) \in Nat
      /\ \A i \in 1 .. Len(c) : t[i] = c[i]
      /\ \A i \in 1 .. Len(w) : t[Len(c) + i] = w[i]
  BY Joined
<1> HIDE DEF t
<1>2. ASSUME Len(c) = 7 PROVE 2 \in DOMAIN t /\ t[2] = c[2]
  BY <1>1, <1>2
<1>3. ASSUME Len(c) = 7, Len(w) = 2 PROVE 9 \in DOMAIN t /\ t[9] = w[2]
  BY <1>1, <1>3
<1> QED BY <1>2, <1>3 DEF t

\* What a request holds after fields of it were filled.
LEMMA FilledFacts ==
    ASSUME NEW fields, DOMAIN fields \subseteq FieldNames
    PROVE  /\ \A f \in DOMAIN fields : Filled(NewRequest, fields)[f] = fields[f]
           /\ \A f \in FieldNames \ DOMAIN fields : Filled(NewRequest, fields)[f] = NewRequest[f]
BY DEF Filled, FieldNames

\* One field that does not hold what it must, and the request is malformed.
LEMMA OneInvalid ==
    ASSUME NEW id, NEW payload, NEW i \in DOMAIN Entries(id), ~Valid(Entries(id)[i], payload[i])
    PROVE  Decoded(id, payload) = Malformed
BY DEF Decoded

\* No query names its session; a registration does.
LEMMA NamesOfQueries ==
    /\ \A id \in Queries : "session" \notin Names(id)
    /\ "session" \in Names("REGISTER_PUBLISHER")
<1>1. Names("LIST_SETS") = {}
  BY DEF Names, Written
<1>2. Names("QUERY_SET") = {"set_id"} /\ Names("EXPLAIN_SET") = {"set_id"}
  BY DEF Names, Written
<1>3. Names("SNAPSHOT_REQUEST") = {"set_id", "snapshot_id"}
  BY DEF Names, Written
<1>4. "session" \in Names("REGISTER_PUBLISHER")
  <2>1. Written["REGISTER_PUBLISHER"] = <<"publisher", "worker_boot", "session", "scope">>
    BY DEF Written
  <2> QED BY <2>1 DEF Names
<1> QED BY <1>1, <1>2, <1>3, <1>4 DEF Queries

-----------------------------------------------------------------------------
(***************************************************************************)
(* The inductive invariant.  Frames carry no number, so an answer belongs to*)
(* the call it is taken for only because one frame at most is under way on a*)
(* connection, from the request to the answer; a failed refresh ends that, *)
(* and from then on nothing is taken from the connection any more.         *)
(***************************************************************************)

\* The states of a client.
Clients ==
    [conn : Sessions \cup {NoSessionId}, awaits : Int, partial : BOOLEAN, failed : BOOLEAN,
     epoch : Nat, publisher : Publishers \cup {""}, worker_boot : Boots \cup {""}]

\* Clients that can send, and what they are asked.
Senders ==
    {c \in Clients : /\ c.conn \in Sessions /\ c.epoch # 0
                     /\ c.publisher = "" <=> c.worker_boot = ""}
Askings ==
    {[call |-> call, fields |-> Sent(call, context, c)] :
         call \in Calls, context \in Contexts, c \in Senders}

\* The frame of call n.
Posted(a, n) ==
    LET id == Request(a.call).id
    IN  [id |-> id, payload |-> Encoded(id, Filled(NewRequest, a.fields)), call |-> n]
Hello    == [id |-> "HELLO", payload |-> <<>>, call |-> NoCall]
Requests == {Hello} \cup {Posted(asked[n], n) : n \in DOMAIN asked}

\* A response that says OK is right.
Done(n) ==
    \E i \in DOMAIN ran : /\ SameRequest(ran[i].as, asked[n].call)
                          /\ ran[i].attempt = asked[n].fields.attempt
                          /\ Recognised(ran[i].as) \/ ran[i].call = n
Truthful(f) ==
    f.code = "OK" =>
        /\ f.call \in DOMAIN asked
        /\ ResultOf(f.call, f) \in {NoCall, f.call}
        /\ "attempt" \in DOMAIN asked[f.call].fields => Done(f.call)

\* What a session can answer.
ResultSets == [snapshot : Nat, explanation : Nat, set_ids : Nat]
Codes      == {"OK", "REJECTED", "SET_NOT_FOUND", "SESSION_TIMEOUT", "MALFORMED_REQUEST"}
Responses  == [id : {"RESULT", "ERROR"}, call : Nat, code : Codes, results : ResultSets]
HelloAcks  == [id : {"HELLO_ACK"}, epoch : Nat \ {0}, results : {NoResults}]
Rest       == [id |-> "rest"]
Answers    == {f \in Responses : Truthful(f)} \cup HelloAcks \cup {Rest}

\* A client knows its publisher and its boot together, and awaits one call at most.
ClientTypes ==
    /\ client \in Clients
    /\ client.publisher = "" <=> client.worker_boot = ""
    /\ asked \in Seq(Askings)
    /\ client.awaits \in {Greeting, Refresh} \cup 0 .. Len(asked)

\* The mutations that can have run.
Runs == [call : Nat, session : Sessions, attempt : {context.attempt : context \in Contexts},
         as : Calls]

\* Every request under way is that of a call, and every response is right.
WireTypes ==
    /\ up \in [Sessions -> Seq(Requests)]
    /\ down \in [Sessions -> Seq(Answers)]
    /\ reading \in [Sessions -> {"nothing", "header_part", "header", "payload_part", "frame"}]
    /\ scratch \in [Sessions -> ResultSets]
    /\ answer \in [Sessions -> Answers \cup {NoFrame}]
    /\ ran \in Seq(Runs)

\* A session reads what was sent to it, and answers while it is open.
SessionsAgree ==
    \A x \in Sessions :
        /\ phase[x] = "unused" => up[x] = <<>> /\ down[x] = <<>> /\ answer[x] = NoFrame
        /\ reading[x] # "nothing" => up[x] # <<>> /\ phase[x] = "open" /\ answer[x] = NoFrame
        /\ answer[x] # NoFrame => phase[x] = "open"

\* Responses, other than what a greeting or a refresh is answered with.
Responding(f) == f.id \in {"RESULT", "ERROR"}

\* All that is under way on the connection belongs to call n.
Own(x, n) ==
    /\ phase[x] = "open" => \A i \in DOMAIN up[x] : up[x][i].call = n
    /\ Responding(answer[x]) => answer[x].call = n
    /\ \A i \in DOMAIN down[x] : Responding(down[x][i]) => down[x][i].call = n

\* The client's connection: one frame at most is under way until a refresh fails, none
\* when nothing is awaited, and that of the awaited call when one is.
ConnectionInv ==
    /\ client.conn = NoSessionId => client.awaits = NoCall /\ ~client.partial /\ ~client.failed
    /\ client.failed => ~client.partial
    /\ client.conn \in Sessions =>
           LET x == client.conn
           IN  /\ phase[x] # "unused"
               /\ client.awaits # Greeting => client.epoch # 0
               /\ client.partial => down[x] # <<>> /\ client.awaits # NoCall
               /\ ~OutOfStep(x) =>
                      /\ UnderWay(x) <= 1
                      /\ client.awaits = NoCall => UnderWay(x) = 0
                      /\ client.awaits > 0 => Own(x, client.awaits)

\* What the histories say.
HistoryInv ==
    /\ dispatched = NoDispatch \/ dispatched.call \in DOMAIN asked
    /\ DispatchedAsAsked
    /\ AnswersAreOwn
    /\ taken.code = "OK" =>
           /\ taken.call \in DOMAIN asked
           /\ "attempt" \in DOMAIN asked[taken.call].fields => Done(taken.call)

-----------------------------------------------------------------------------
(***************************************************************************)
(* Requests: what a client fills reaches the engine, or is malformed.      *)
(***************************************************************************)

\* The fields of a context.
ContextNames ==
    {"epoch", "publisher", "worker_boot", "session", "attempt", "expected_set", "expected_member"}

\* The methods that choose or rename fields.
SettingMethods == {"set_admin_enabled", "set_member_admin_enabled", "set_minimum",
                   "set_conditional_policy", "supersede_set", "advance_epoch"}

\* Every method is in one of the tables.
LEMMA MethodGroups ==
    ASSUME NEW call, ProperCall(call)
    PROVE  \/ call.op \in DOMAIN MembershipMethods \/ call.op \in DOMAIN EvidenceMethods
           \/ call.op \in DOMAIN QueryMethods \/ call.op \in DOMAIN StateMethods
           \/ call.op \in SettingMethods
<1>1. call.op \in DOMAIN Arguments
  BY DEF ProperCall
<1> QED BY <1>1, MethodTables DEF Methods, Arguments, SettingMethods

\* The arguments that travel as they are have names of fields, and only a
\* registration names its worker itself.
LEMMA ArgumentsAreFields ==
    ASSUME NEW op,
           op \in DOMAIN PlainMethods \/ op \in DOMAIN StateMethods
    PROVE  /\ Arguments[op] \subseteq FieldNames
           /\ op # "register_publisher" => Arguments[op] \cap ContextNames = {}
<1>1. CASE op \in DOMAIN MembershipMethods
  BY <1>1, MethodTables, NamesOfFields DEF Methods, Arguments, ContextNames
<1>2. CASE op \in DOMAIN EvidenceMethods
  BY <1>2, MethodTables, NamesOfFields DEF Methods, Arguments, ContextNames
<1>3. CASE op \in DOMAIN QueryMethods
  BY <1>3, MethodTables, NamesOfFields DEF Methods, Arguments, ContextNames
<1>4. CASE op \in DOMAIN StateMethods
  BY <1>4, MethodTables, NamesOfFields DEF Methods, Arguments, ContextNames
<1> QED BY <1>1, <1>2, <1>3, <1>4, MethodTables DEF Methods

\* What a method fills, and under which message.
LEMMA RequestFacts ==
    ASSUME NEW call, ProperCall(call)
    PROVE  LET m == Request(call)
           IN  /\ m.id \notin {"HELLO", "SHUTDOWN"}
               /\ m.id = "REGISTER_PUBLISHER" <=> call.op = "register_publisher"
               /\ m.id \in Queries <=> call.op \in DOMAIN QueryMethods
               /\ m.id = "EPOCH_ADVANCE" <=> call.op = "advance_epoch"
               /\ DOMAIN m.fields \subseteq FieldNames
               /\ call.op # "register_publisher" => DOMAIN m.fields \cap ContextNames = {}
               /\ call.op = "register_publisher" => m.fields = call.args
<1> DEFINE m == Request(call)
<1>1. CASE call.op \in DOMAIN PlainMethods
  <2>1. m.id = PlainMethods[call.op] /\ m.fields = call.args
    <3>1. m = Message(PlainMethods[call.op], call.args)
      BY <1>1, MethodTables DEF Methods, Request
    <3> QED BY <3>1 DEF Message
  <2>2. DOMAIN call.args = Arguments[call.op]
    BY ProperArguments
  <2>3. /\ m.id \notin {"HELLO", "SHUTDOWN"}
        /\ m.id = "REGISTER_PUBLISHER" <=> call.op = "register_publisher"
        /\ m.id \in Queries <=> call.op \in DOMAIN QueryMethods
        /\ m.id # "EPOCH_ADVANCE" /\ call.op # "advance_epoch"
    <3>1. CASE call.op \in DOMAIN MembershipMethods
      BY <2>1, <3>1, MethodTables DEF Methods, MembershipMethods, Queries
    <3>2. CASE call.op \in DOMAIN EvidenceMethods
      BY <2>1, <3>2, MethodTables DEF Methods, EvidenceMethods, Queries
    <3>3. CASE call.op \in DOMAIN QueryMethods
      BY <2>1, <3>3, MethodTables DEF Methods, QueryMethods, Queries
    <3> QED BY <1>1, <3>1, <3>2, <3>3, MethodTables DEF Methods
  <2> QED BY <1>1, <2>1, <2>2, <2>3, ArgumentsAreFields
<1>2. CASE call.op \in DOMAIN StateMethods
  <2>0. call.op \notin DOMAIN PlainMethods /\ call.op \notin {"register_publisher", "advance_epoch"}
        /\ call.op \notin DOMAIN QueryMethods
    BY <1>2, MethodTables DEF Methods
  <2>1. m = Message("ADVANCE_SET_STATE", With(call.args, [state_action |-> StateMethods[call.op]]))
    BY <1>2, <2>0 DEF Request
  <2>2. DOMAIN m.fields = Arguments[call.op] \cup {"state_action"} /\ m.id = "ADVANCE_SET_STATE"
    <3>1. DOMAIN With(call.args, [state_action |-> StateMethods[call.op]])
              = DOMAIN call.args \cup {"state_action"}
      BY DEF With
    <3> QED BY <2>1, <3>1, ProperArguments DEF Message
  <2>3. "state_action" \in FieldNames \ ContextNames
    BY NamesOfFields DEF ContextNames
  <2> QED BY <1>2, <2>0, <2>2, <2>3, ArgumentsAreFields DEF Queries
<1>3. CASE call.op \in SettingMethods
  <2>1. m = SettingMessage(call.op, call.args) /\ call.op \notin DOMAIN QueryMethods
    BY <1>3, IsSetting, MethodTables DEF SettingMethods, Methods
  <2>2. /\ m.id \notin {"HELLO", "SHUTDOWN", "REGISTER_PUBLISHER"} \cup Queries
        /\ m.id = "EPOCH_ADVANCE" <=> call.op = "advance_epoch"
        /\ DOMAIN m.fields \subseteq {"set_id", "member_id", "number", "flag", "text"}
    <3>1. CASE call.op = "set_admin_enabled"
      BY <2>1, <3>1 DEF SettingMessage, Message, Queries
    <3>2. CASE call.op = "set_member_admin_enabled"
      BY <2>1, <3>2 DEF SettingMessage, Message, Queries
    <3>3. CASE call.op \in {"set_minimum", "set_conditional_policy", "supersede_set",
               "advance_epoch"}
      BY <2>1, <3>3 DEF SettingMessage, Message, Queries
    <3> QED BY <1>3, <3>1, <3>2, <3>3 DEF SettingMethods
  <2> QED BY <1>3, <2>1, <2>2, NamesOfFields DEF SettingMethods, ContextNames
<1> QED BY <1>1, <1>2, <1>3, MethodGroups, MethodTables DEF Methods

\* What the client adds to them: nothing to a query, its session to a
\* registration, a whole context to a mutation.
FilledBy(m, a) ==
    /\ DOMAIN m.fields \subseteq DOMAIN a.fields /\ DOMAIN a.fields \subseteq FieldNames
    /\ \A f \in DOMAIN m.fields : a.fields[f] = m.fields[f]
    /\ m.id \in Queries => DOMAIN a.fields = DOMAIN m.fields
    /\ m.id = "REGISTER_PUBLISHER" =>
           /\ DOMAIN a.fields = DOMAIN m.fields \cup {"session"}
           /\ a.fields.session # ""
    /\ m.id \notin Contextless =>
           /\ DOMAIN a.fields = DOMAIN m.fields \cup ContextNames
           /\ a.fields.epoch # 0 /\ a.fields.session # "" /\ a.fields.attempt # ""
           /\ a.fields.publisher = "" <=> a.fields.worker_boot = ""
           /\ \E context \in Contexts : a.fields.attempt = context.attempt

\* What a client sends is its call, and the context that it fills for it.
LEMMA SentFacts ==
    ASSUME NEW a \in Askings
    PROVE  /\ a.call \in Calls /\ ProperCall(a.call)
           /\ FilledBy(Request(a.call), a)
<1>1. PICK call \in Calls, context \in Contexts, c \in Senders :
          a = [call |-> call, fields |-> Sent(call, context, c)]
  BY DEF Askings
<1> DEFINE m == Request(call)
<1>2. a.call = call /\ a.fields = Sent(call, context, c)
  BY <1>1
<1>3. ProperCall(call)
  BY ExchangeAssumption
<1>4. /\ DOMAIN m.fields \subseteq FieldNames /\ m.id \notin {"HELLO", "SHUTDOWN"}
      /\ m.id = "REGISTER_PUBLISHER" <=> call.op = "register_publisher"
      /\ call.op # "register_publisher" => DOMAIN m.fields \cap ContextNames = {}
      /\ call.op = "register_publisher" => m.fields = call.args
  BY <1>3, RequestFacts
<1>5. /\ c.conn # "" /\ c.epoch # 0
      /\ c.publisher = "" <=> c.worker_boot = ""
  BY ExchangeAssumption DEF Senders
<1> HIDE DEF m
<1>6. CASE m.id \in Queries
  <2>1. a.fields = m.fields
    BY <1>2, <1>6 DEF Sent, m, Queries
  <2>2. FilledBy(m, a)
    BY <1>4, <1>6, <2>1 DEF FilledBy, Queries, Contextless
  <2> QED BY <1>2, <1>3, <2>2 DEF m
<1>7. CASE m.id = "REGISTER_PUBLISHER"
  <2>1. a.fields = With(m.fields, [session |-> c.conn])
    BY <1>2, <1>7 DEF Sent, m, Queries
  <2>2. "session" \notin DOMAIN m.fields
    <3>1. DOMAIN call.args = Arguments["register_publisher"]
      BY <1>3, <1>4, <1>7, ProperArguments
    <3> QED BY <1>4, <1>7, <3>1 DEF Arguments
  <2>3. /\ DOMAIN a.fields = DOMAIN m.fields \cup {"session"}
        /\ \A f \in DOMAIN m.fields : a.fields[f] = m.fields[f]
        /\ a.fields.session = c.conn
    BY <2>1, <2>2 DEF With
  <2>4. "session" \in FieldNames
    BY NamesOfFields
  <2>5. FilledBy(m, a)
    BY <1>4, <1>5, <1>7, <2>3, <2>4 DEF FilledBy, Queries, Contextless
  <2> QED BY <1>2, <1>3, <2>5 DEF m
<1>8. CASE m.id \notin Contextless
  <2>1. a.fields = With(m.fields, Stamp(context, c)) /\ call.op # "register_publisher"
    BY <1>2, <1>4, <1>8 DEF Sent, m, Contextless
  <2>2. DOMAIN context = {"attempt", "expected_set", "expected_member"} /\ context.attempt # ""
    BY ExchangeAssumption
  <2> DEFINE g == [session |-> c.conn, epoch |-> c.epoch,
                   publisher |-> c.publisher, worker_boot |-> c.worker_boot]
             t == Stamp(context, c)
  <2>3. DOMAIN g = {"session", "epoch", "publisher", "worker_boot"}
    OBVIOUS
  <2>4. /\ t = With(context, g)
    BY DEF Stamp
  <2>5. /\ DOMAIN t = ContextNames /\ t.attempt = context.attempt
        /\ t.session = c.conn /\ t.epoch = c.epoch
        /\ t.publisher = c.publisher /\ t.worker_boot = c.worker_boot
    <3>1. \A x \in DOMAIN g : x \notin DOMAIN context
      BY <2>2, <2>3
    <3>2. /\ DOMAIN t = DOMAIN context \cup DOMAIN g
          /\ \A x \in DOMAIN context : t[x] = context[x]
          /\ \A x \in DOMAIN g : t[x] = g[x]
      BY <2>4, <3>1 DEF With
    <3> HIDE DEF t
    <3> QED BY <2>2, <3>2 DEF ContextNames
  <2> HIDE DEF t
  <2>6. /\ DOMAIN a.fields = DOMAIN m.fields \cup ContextNames
        /\ \A f \in DOMAIN m.fields : a.fields[f] = m.fields[f]
        /\ \A f \in ContextNames : a.fields[f] = t[f]
    <3>1. DOMAIN m.fields \cap ContextNames = {} /\ a.fields = With(m.fields, t)
      BY <1>4, <2>1 DEF t
    <3> QED BY <2>5, <3>1 DEF With
  <2>7. ContextNames \subseteq FieldNames
    BY NamesOfFields DEF ContextNames
  <2>8. /\ a.fields.attempt = context.attempt
        /\ a.fields.session = c.conn /\ a.fields.epoch = c.epoch
        /\ a.fields.publisher = c.publisher /\ a.fields.worker_boot = c.worker_boot
    BY <2>5, <2>6 DEF ContextNames
  <2>9. FilledBy(m, a)
    BY <1>4, <1>5, <1>8, <2>2, <2>6, <2>7, <2>8 DEF FilledBy, Queries, Contextless
  <2> QED BY <1>2, <1>3, <2>9 DEF m
<1> QED BY <1>2, <1>4, <1>6, <1>7, <1>8 DEF m, Contextless

\* What the coordinator makes of the request of an asking.
Received(a) ==
    LET id == Request(a.call).id IN Decoded(id, Encoded(id, Filled(NewRequest, a.fields)))

\* The requests that it cannot decode.
Refused(a) ==
    \/ a.call.op = "supersede_set"
    \/ "publisher" \in DOMAIN a.fields /\ a.fields.publisher = ""

\* What was asked is what the coordinator dispatches, with the context it was
\* stamped with, unless the request cannot be decoded.
LEMMA RoundTrip ==
    ASSUME NEW a \in Askings, ~Refused(a)
    PROVE  /\ Received(a) # Malformed
           /\ Dispatched(Request(a.call).id, Received(a)) = a.call
           /\ \A f \in DOMAIN a.fields : Received(a)[f] = a.fields[f]
<1> DEFINE m == Request(a.call)
           q == Filled(NewRequest, a.fields)
           r == Received(a)
<1>1. ProperCall(a.call) /\ FilledBy(m, a)
  BY SentFacts
<1>2. Delivers(a.call)
  BY <1>1, MethodsDeliver DEF Refused
<1>3. /\ m.id \in Messages
      /\ DOMAIN m.fields \subseteq Names(m.id)
      /\ Names(m.id) \subseteq DOMAIN m.fields \cup {"session", "text"}
      /\ \A f \in DOMAIN m.fields : Fine(m.id, f, m.fields[f])
      /\ \A s : Held(s, m.fields) => Dispatched(m.id, s) = a.call
  BY <1>2 DEF Delivers
<1>4. \A f \in DOMAIN a.fields : q[f] = a.fields[f]
  BY <1>1, FilledFacts DEF FilledBy
<1>5. r = Decoded(m.id, Encoded(m.id, q))
  BY DEF Received
<1> HIDE DEF m, q, r
<1>6. m.id \in Queries \/ m.id = "REGISTER_PUBLISHER" \/ m.id \notin Contextless
  BY <1>3 DEF Messages, Contextless
<1>7. m.id \notin Contextless => ContextFine(q)
  <2> SUFFICES ASSUME m.id \notin Contextless PROVE ContextFine(q)
    OBVIOUS
  <2>1. /\ ContextNames \subseteq DOMAIN a.fields
        /\ a.fields.epoch # 0 /\ a.fields.session # "" /\ a.fields.attempt # ""
        /\ a.fields.publisher = "" <=> a.fields.worker_boot = ""
    BY <1>1 DEF FilledBy
  <2>2. a.fields.publisher # ""
    BY <2>1 DEF Refused, ContextNames
  <2> QED BY <1>4, <2>1, <2>2 DEF ContextFine, ContextNames
<1>8. ASSUME NEW f \in Names(m.id) PROVE Fine(m.id, f, q[f])
  <2>1. CASE f \in DOMAIN m.fields
    BY <1>1, <1>3, <1>4, <2>1 DEF FilledBy
  <2>2. CASE f = "text"
    BY <2>2 DEF Fine, ValidArgument
  <2>3. CASE f = "session"
    <3>1. m.id \notin Queries
      BY <2>3, NamesOfQueries
    <3>2. "session" \in DOMAIN a.fields /\ a.fields.session # ""
      BY <1>1, <1>6, <3>1 DEF FilledBy, ContextNames
    <3> QED BY <1>4, <2>3, <3>2 DEF Fine, ValidArgument
  <2> QED BY <1>3, <2>1, <2>2, <2>3
<1>9. /\ r # Malformed
      /\ \A f \in Names(m.id) : r[f] = q[f]
      /\ m.id \notin Contextless => \A j \in 1 .. 7 : r[ContextFields[j]] = q[ContextFields[j]]
  BY <1>3, <1>5, <1>7, <1>8, DecodedAsEncoded
<1>10. ASSUME NEW f \in DOMAIN a.fields PROVE r[f] = a.fields[f]
  <2>1. CASE f \in DOMAIN m.fields
    BY <1>3, <1>4, <1>9, <2>1
  <2>2. CASE f = "session" /\ m.id = "REGISTER_PUBLISHER"
    BY <1>4, <1>9, <2>2, NamesOfQueries
  <2>3. CASE f \in ContextNames /\ m.id \notin Contextless
    <3>1. \E j \in 1 .. 7 : ContextFields[j] = f
      BY <2>3 DEF ContextNames, ContextFields
    <3> QED BY <1>4, <1>9, <2>3, <3>1
  <2> QED BY <1>1, <1>6, <2>1, <2>2, <2>3 DEF FilledBy
<1>11. Dispatched(m.id, r) = a.call
  <2>1. Held(r, m.fields)
    BY <1>1, <1>10 DEF Held, FilledBy
  <2> QED BY <1>3, <2>1
<1> QED BY <1>9, <1>10, <1>11 DEF m, r

\* SUPERSEDE_SET is written with the path of the request, which nobody fills, where
\* the identity of the successor is read.
LEMMA SupersedeIsRefused ==
    ASSUME NEW a \in Askings, a.call.op = "supersede_set"
    PROVE  Received(a) = Malformed
<1> DEFINE m == Request(a.call)
           q == Filled(NewRequest, a.fields)
<1>1. FilledBy(m, a)
  BY SentFacts
<1>2. m.id = "SUPERSEDE_SET" /\ DOMAIN m.fields = {"set_id", "text"}
  <2>1. m = SettingMessage("supersede_set", a.call.args)
    BY IsSetting
  <2> QED BY <2>1 DEF SettingMessage, Message
<1>3. DOMAIN a.fields = {"set_id", "text"} \cup ContextNames /\ DOMAIN a.fields \subseteq FieldNames
  BY <1>1, <1>2 DEF FilledBy, Contextless, Queries
<1>4. q["path_id"] = ""
  <2>1. "path_id" \in FieldNames \ DOMAIN a.fields /\ NewRequest["path_id"] = ""
    BY <1>3, NamesOfFields DEF ContextNames, NewRequest
  <2> QED BY <1>3, <2>1, FilledFacts
<1> HIDE DEF q
<1>5. Received(a) = Decoded("SUPERSEDE_SET", Encoded("SUPERSEDE_SET", q))
  BY <1>2 DEF Received, q
<1>6. /\ Fields("SUPERSEDE_SET") = ContextFields \o <<"set_id", "path_id">>
      /\ Entries("SUPERSEDE_SET") = ReadContext \o <<SetId, Id("text")>>
  <2>1. Written["SUPERSEDE_SET"] = <<"set_id", "path_id">>
    BY DEF Written
  <2>2. ReadFields("SUPERSEDE_SET") = <<SetId, Id("text")>>
    BY MessageGroups DEF Groups, ReadFields, ReadGovernance
  <2>3. "SUPERSEDE_SET" \notin Contextless
    BY DEF Contextless, Queries
  <2> QED BY <2>1, <2>2, <2>3 DEF Fields, Entries, Context
<1>7. /\ 9 \in DOMAIN Fields("SUPERSEDE_SET") /\ Fields("SUPERSEDE_SET")[9] = "path_id"
      /\ 9 \in DOMAIN Entries("SUPERSEDE_SET") /\ Entries("SUPERSEDE_SET")[9] = Id("text")
  <2> DEFINE w == <<"set_id", "path_id">>
             v == <<SetId, Id("text")>>
  <2>1. w \in Seq(FieldNames) /\ Len(w) = 2 /\ w[2] = "path_id"
    BY NamesOfFields, Tuples
  <2>2. v \in Seq(ReadEntries) /\ Len(v) = 2 /\ v[2] = Id("text")
    BY NamesOfFields, EntryTypes, Tuples
  <2> HIDE DEF w, v
  <2> DEFINE F == ContextFields \o w
             E == ReadContext \o v
  <2>3. 9 \in DOMAIN F /\ F[9] = w[2]
    <3>1. ContextFields \in Seq(FieldNames) /\ Len(ContextFields) = 7
          /\ w \in Seq(FieldNames) /\ Len(w) = 2
      BY <2>1, ContextAgrees
    <3> QED BY <3>1, AfterContext, Zenon
  <2>4. 9 \in DOMAIN E /\ E[9] = v[2]
    <3>1. ReadContext \in Seq(ReadEntries) /\ Len(ReadContext) = 7 /\ v \in Seq(ReadEntries)
          /\ Len(v) = 2
      BY <2>2, ContextAgrees
    <3> QED BY <3>1, AfterContext, Zenon
  <2>5. Fields("SUPERSEDE_SET") = F /\ Entries("SUPERSEDE_SET") = E
    BY <1>6 DEF w, v
  <2> HIDE DEF F, E
  <2> QED BY <2>1, <2>2, <2>3, <2>4, <2>5
<1>8. Encoded("SUPERSEDE_SET", q)[9] = ""
  BY <1>4, <1>7 DEF Encoded
<1>9. ~Valid(Id("text"), "")
  BY DEF Valid, Id
<1> QED BY <1>5, <1>7, <1>8, <1>9, OneInvalid

\* A mutation of a client that never registered names no publisher.
LEMMA AnonymousIsRefused ==
    ASSUME NEW a \in Askings, a.call.op # "supersede_set",
           "publisher" \in DOMAIN a.fields, a.fields.publisher = ""
    PROVE  Received(a) = Malformed
<1> DEFINE m == Request(a.call)
           q == Filled(NewRequest, a.fields)
<1>1. ProperCall(a.call) /\ FilledBy(m, a)
  BY SentFacts
<1>2. /\ m.id \notin {"HELLO", "SHUTDOWN"}
      /\ m.id = "REGISTER_PUBLISHER" <=> a.call.op = "register_publisher"
      /\ m.id \in Queries <=> a.call.op \in DOMAIN QueryMethods
      /\ a.call.op # "register_publisher" => DOMAIN m.fields \cap ContextNames = {}
      /\ a.call.op = "register_publisher" => m.fields = a.call.args
  BY <1>1, RequestFacts
<1>3. m.id \in Messages
  BY <1>1, MethodsDeliver DEF Delivers
<1> HIDE DEF m
<1>4. m.id # "REGISTER_PUBLISHER"
  <2> SUFFICES ASSUME a.call.op = "register_publisher" PROVE FALSE
    BY <1>2
  <2>1. "publisher" \in Arguments["register_publisher"]
    BY DEF Arguments
  <2>2. a.call.args.publisher # "" /\ "publisher" \in DOMAIN a.call.args
    BY <1>1, <2>1, ProperArguments DEF ProperCall, ValidArgument
  <2> QED BY <1>1, <1>2, <2>2 DEF FilledBy
<1>5. m.id \notin Queries
  <2>1. "publisher" \in ContextNames
    BY DEF ContextNames
  <2> QED BY <1>1, <1>2, <1>4, <2>1 DEF FilledBy
<1>6. m.id \notin Contextless
  BY <1>2, <1>4, <1>5 DEF Contextless
<1>7. q["publisher"] = ""
  BY <1>1, FilledFacts DEF FilledBy
<1>8. Received(a) = Decoded(m.id, Encoded(m.id, q))
  BY DEF Received, m
<1> HIDE DEF q
<1> DEFINE w == Written[m.id]
           v == ReadFields(m.id)
<1>9. w \in Seq(FieldNames) /\ v \in Seq(ReadEntries)
  BY <1>3, MessagesAgree DEF Agrees
<1> HIDE DEF w, v
<1>10. Fields(m.id) = ContextFields \o w /\ Entries(m.id) = ReadContext \o v
  BY <1>6 DEF Fields, Entries, Context, w, v
<1>11. 2 \in DOMAIN Fields(m.id) /\ Fields(m.id)[2] = "publisher"
  <2>1. ContextFields \in Seq(FieldNames) /\ Len(ContextFields) = 7
    BY ContextAgrees
  <2>2. 2 \in DOMAIN (ContextFields \o w) /\ (ContextFields \o w)[2] = ContextFields[2]
    BY <1>9, <2>1, AfterContext, Zenon
  <2>3. ContextFields[2] = "publisher"
    BY DEF ContextFields
  <2> DEFINE F == ContextFields \o w
  <2>4. 2 \in DOMAIN F /\ F[2] = "publisher" /\ Fields(m.id) = F
    BY <1>10, <2>2, <2>3, Zenon
  <2> HIDE DEF F
  <2> QED BY <2>4
<1>12. 2 \in DOMAIN Entries(m.id) /\ Entries(m.id)[2] = Id("publisher")
  <2>1. ReadContext \in Seq(ReadEntries) /\ Len(ReadContext) = 7
    BY ContextAgrees
  <2>2. 2 \in DOMAIN (ReadContext \o v) /\ (ReadContext \o v)[2] = ReadContext[2]
    BY <1>9, <2>1, AfterContext, Zenon
  <2>3. ReadContext[2] = Id("publisher")
    BY DEF ReadContext
  <2> DEFINE E == ReadContext \o v
  <2>4. 2 \in DOMAIN E /\ E[2] = Id("publisher") /\ Entries(m.id) = E
    BY <1>10, <2>2, <2>3, Zenon
  <2> HIDE DEF E
  <2> QED BY <2>4
<1>13. Encoded(m.id, q)[2] = ""
  BY <1>7, <1>11 DEF Encoded
<1>14. ~Valid(Id("publisher"), "")
  BY DEF Valid, Id
<1> QED BY <1>8, <1>12, <1>13, <1>14, OneInvalid

\* The two kinds of requests that decode_request() rejects.
LEMMA RefusedIsMalformed == ASSUME NEW a \in Askings, Refused(a) PROVE Received(a) = Malformed
BY SupersedeIsRefused, AnonymousIsRefused DEF Refused

\* What the kinds of requests ask, and with which context.
LEMMA KindsOfRequests ==
    ASSUME NEW a \in Askings
    PROVE  LET id == Request(a.call).id
           IN  /\ id \notin {"HELLO", "SHUTDOWN"}
               /\ id = "EPOCH_ADVANCE" <=> a.call.op = "advance_epoch"
               /\ id = "REGISTER_PUBLISHER" =>
                      /\ a.call.op = "register_publisher" /\ "attempt" \notin DOMAIN a.fields
                      /\ {"publisher", "worker_boot", "scope"} \subseteq DOMAIN a.fields
                      /\ <<a.fields.publisher, a.fields.worker_boot>> \in Workers
                      /\ a.fields.scope \subseteq SetIds
               /\ id \in Queries =>
                      /\ a.call.op \in {"list_sets", "query_set", "explain_set", "request_snapshot"}
                      /\ "attempt" \notin DOMAIN a.fields
               /\ id \notin Queries \cup {"REGISTER_PUBLISHER"} =>
                      /\ a.call.op \notin {"list_sets", "query_set", "explain_set",
                                           "request_snapshot", "register_publisher"}
                      /\ "attempt" \in DOMAIN a.fields
                      /\ a.fields.attempt \in {context.attempt : context \in Contexts}
<1> DEFINE m == Request(a.call)
<1>1. a.call \in Calls /\ ProperCall(a.call) /\ FilledBy(m, a)
  BY SentFacts
<1>2. /\ m.id \notin {"HELLO", "SHUTDOWN"}
      /\ m.id = "REGISTER_PUBLISHER" <=> a.call.op = "register_publisher"
      /\ m.id \in Queries <=> a.call.op \in DOMAIN QueryMethods
      /\ a.call.op # "register_publisher" => DOMAIN m.fields \cap ContextNames = {}
      /\ a.call.op = "register_publisher" => m.fields = a.call.args
      /\ m.id = "EPOCH_ADVANCE" <=> a.call.op = "advance_epoch"
  BY <1>1, RequestFacts
<1> HIDE DEF m
<1>3. "attempt" \in ContextNames
  BY DEF ContextNames
<1>4. DOMAIN QueryMethods = {"list_sets", "query_set", "explain_set", "request_snapshot"}
  BY MethodTables DEF Methods
<1>5. CASE m.id = "REGISTER_PUBLISHER"
  <2>1. DOMAIN m.fields = {"publisher", "worker_boot", "scope"} /\ m.fields = a.call.args
    BY <1>1, <1>2, <1>5, ProperArguments DEF Arguments
  <2>2. /\ <<a.call.args.publisher, a.call.args.worker_boot>> \in Workers
        /\ a.call.args.scope \subseteq SetIds
    BY <1>1, <1>2, <1>5, ExchangeAssumption
  <2>3. DOMAIN a.fields = {"publisher", "worker_boot", "scope", "session"}
    BY <1>1, <1>5, <2>1 DEF FilledBy
  <2>4. /\ a.fields.publisher = a.call.args.publisher
        /\ a.fields.worker_boot = a.call.args.worker_boot
        /\ a.fields.scope = a.call.args.scope
    BY <1>1, <2>1 DEF FilledBy
  <2> QED BY <1>2, <1>5, <2>2, <2>3, <2>4 DEF m, Queries
<1>6. CASE m.id \in Queries
  <2>1. a.call.op \in {"list_sets", "query_set", "explain_set", "request_snapshot"}
    BY <1>2, <1>4, <1>6
  <2>2. "attempt" \notin DOMAIN a.fields
    BY <1>1, <1>2, <1>3, <1>6, <2>1 DEF FilledBy
  <2> QED BY <1>2, <1>6, <2>1, <2>2 DEF m, Queries
<1>7. CASE m.id \notin Queries \cup {"REGISTER_PUBLISHER"}
  <2>1. m.id \notin Contextless
    BY <1>2, <1>7 DEF Contextless
  <2>2. "attempt" \in DOMAIN a.fields
        /\ a.fields.attempt \in {context.attempt : context \in Contexts}
    BY <1>1, <1>3, <2>1 DEF FilledBy
  <2> QED BY <1>2, <1>4, <1>7, <2>2 DEF m
<1> QED BY <1>5, <1>6, <1>7 DEF m

\* What was asked and what was run is never forgotten.
Grows ==
    /\ \A n \in DOMAIN asked : n \in DOMAIN asked' /\ asked'[n] = asked[n]
    /\ \A i \in DOMAIN ran : i \in DOMAIN ran' /\ ran'[i] = ran[i]

\* What has run for a call has run for good.
LEMMA DoneRemains ==
    ASSUME Grows, NEW n \in DOMAIN asked, Done(n)
    PROVE  Done(n)'
<1>1. PICK i \in DOMAIN ran : /\ SameRequest(ran[i].as, asked[n].call)
                              /\ ran[i].attempt = asked[n].fields.attempt
                              /\ Recognised(ran[i].as) \/ ran[i].call = n
  BY DEF Done
<1>2. i \in DOMAIN ran' /\ ran'[i] = ran[i] /\ asked'[n] = asked[n]
  BY DEF Grows
<1>3. /\ SameRequest(ran'[i].as, asked'[n].call)
      /\ ran'[i].attempt = asked'[n].fields.attempt
      /\ Recognised(ran'[i].as) \/ ran'[i].call = n
  BY <1>1, <1>2
<1> QED BY <1>2, <1>3 DEF Done

\* A frame stays a frame of a call that was asked, and an OK stays right.
LEMMA FramesRemain ==
    ASSUME Grows
    PROVE  /\ \A f \in Requests : f \in Requests'
           /\ \A f \in Answers : f \in Answers'
<1>1. \A f \in Requests : f \in Requests'
  BY DEF Grows, Requests
<1>2. ASSUME NEW f \in Responses, Truthful(f) PROVE Truthful(f)'
  <2>1. CASE f.code # "OK"
    BY <2>1 DEF Truthful
  <2>2. CASE f.code = "OK"
    <3>1. /\ f.call \in DOMAIN asked
          /\ ResultOf(f.call, f) \in {NoCall, f.call}
          /\ "attempt" \in DOMAIN asked[f.call].fields => Done(f.call)
      BY <1>2, <2>2 DEF Truthful
    <3>2. f.call \in DOMAIN asked' /\ asked'[f.call] = asked[f.call]
      BY <3>1 DEF Grows
    <3>3. ResultOf(f.call, f)' = ResultOf(f.call, f)
      BY <3>2 DEF ResultOf
    <3>4. Done(f.call) => Done(f.call)'
      BY <3>1, DoneRemains
    <3> QED BY <3>1, <3>2, <3>3, <3>4 DEF Truthful
  <2> QED BY <2>1, <2>2
<1> QED BY <1>1, <1>2 DEF Answers

\* The inductive invariant of the wire and the client.
ExchangeInv == ClientTypes /\ WireTypes /\ SessionsAgree /\ ConnectionInv /\ HistoryInv

-----------------------------------------------------------------------------
(***************************************************************************)
(* What is under way, and what a step of a session does to it.             *)
(***************************************************************************)

\* What Append() does.
LEMMA Appended ==
    ASSUME NEW S, NEW s \in Seq(S), NEW e \in S
    PROVE  /\ Append(s, e) \in Seq(S) /\ Append(s, e) # <<>> /\ Len(s) \in Nat
           /\ Len(Append(s, e)) = Len(s) + 1
           /\ s # <<>> => Append(s, e)[1] = s[1]
           /\ \A i \in DOMAIN Append(s, e) :
                  \/ i \in DOMAIN s /\ Append(s, e)[i] = s[i]
                  \/ Append(s, e)[i] = e
           /\ \A i \in DOMAIN s : i \in DOMAIN Append(s, e) /\ Append(s, e)[i] = s[i]
           /\ Len(s) + 1 \in DOMAIN Append(s, e) /\ Append(s, e)[Len(s) + 1] = e
           /\ s \o <<e>> = Append(s, e)
OBVIOUS

\* What Head() and Tail() do.
LEMMA Shortened ==
    ASSUME NEW S, NEW s \in Seq(S), s # <<>>
    PROVE  /\ Head(s) \in S /\ Head(s) = s[1] /\ 1 \in DOMAIN s
           /\ Tail(s) \in Seq(S) /\ Len(Tail(s)) = Len(s) - 1 /\ Len(s) \in Nat /\ Len(s) >= 1
           /\ \A i \in DOMAIN Tail(s) : i + 1 \in DOMAIN s /\ Tail(s)[i] = s[i + 1]
OBVIOUS

\* The empty sequence.
LEMMA EmptySeq ==
    ASSUME NEW S, NEW s \in Seq(S)
    PROVE  /\ s = <<>> <=> Len(s) = 0
           /\ s \o <<>> = s /\ Len(s) \in Nat /\ <<>> \in Seq(S)
OBVIOUS

\* A sequence over a set is one over a larger set.
LEMMA Wider ==
    ASSUME NEW S, NEW T, \A e \in S : e \in T, NEW s \in Seq(S)
    PROVE  s \in Seq(T)
OBVIOUS

\* The frames under way are still frames when more has been asked.
LEMMA Retyped ==
    ASSUME Grows, WireTypes
    PROVE  /\ up \in [Sessions -> Seq(Requests')]
           /\ down \in [Sessions -> Seq(Answers')]
           /\ answer \in [Sessions -> Answers' \cup {NoFrame}]
<1>1. \A f \in Requests : f \in Requests'
  BY FramesRemain
<1>2. \A f \in Answers : f \in Answers'
  BY FramesRemain
<1>3. up \in [Sessions -> Seq(Requests)] /\ down \in [Sessions -> Seq(Answers)]
      /\ answer \in [Sessions -> Answers \cup {NoFrame}]
  BY DEF WireTypes
<1> DEFINE R == Requests
           Rn == Requests'
           A == Answers
           An == Answers'
<1>4. up \in [Sessions -> Seq(R)] /\ down \in [Sessions -> Seq(A)]
      /\ answer \in [Sessions -> A \cup {NoFrame}]
  BY <1>3
<1>5. (\A f \in R : f \in Rn) /\ (\A f \in A : f \in An)
  BY <1>1, <1>2
<1> HIDE DEF R, Rn, A, An
<1>6. \A y \in Sessions : up[y] \in Seq(Rn)
  BY <1>4, <1>5, Wider
<1>7. \A y \in Sessions : down[y] \in Seq(An)
  BY <1>4, <1>5, Wider
<1>8. up \in [Sessions -> Seq(Rn)] /\ down \in [Sessions -> Seq(An)]
      /\ answer \in [Sessions -> An \cup {NoFrame}]
  BY <1>4, <1>5, <1>6, <1>7
<1> QED BY <1>8 DEF Rn, An

\* The number of frames under way is a number.
LEMMA UnderWayIsNat ==
    ASSUME WireTypes, NEW x \in Sessions
    PROVE  UnderWay(x) \in Nat /\ Len(up[x]) \in Nat /\ Len(down[x]) \in Nat
<1>1. up[x] \in Seq(Requests) /\ down[x] \in Seq(Answers)
  BY DEF WireTypes
<1>2. Len(up[x]) \in Nat /\ Len(down[x]) \in Nat
  BY <1>1, EmptySeq
<1> DEFINE a == IF phase[x] = "open" THEN Len(up[x]) ELSE 0
           b == IF answer[x] = NoFrame THEN 0 ELSE 1
<1>3. a \in Nat /\ b \in Nat
  BY <1>2
<1> DEFINE c == Len(down[x])
           u == UnderWay(x)
<1>4. u = a + b + c /\ c \in Nat
  BY <1>2 DEF UnderWay
<1> HIDE DEF a, b, c, u
<1>5. u \in Nat
  BY <1>3, <1>4
<1> QED BY <1>2, <1>5 DEF u

\* The number of frames under way is a number, after a step.
LEMMA UnderWayIsNatNext ==
    ASSUME WireTypes', NEW x \in Sessions
    PROVE  UnderWay(x)' \in Nat /\ Len(up'[x]) \in Nat /\ Len(down'[x]) \in Nat
<1>1. up'[x] \in Seq(Requests') /\ down'[x] \in Seq(Answers')
  BY DEF WireTypes
<1>2. Len(up'[x]) \in Nat /\ Len(down'[x]) \in Nat
  BY <1>1, EmptySeq
<1> DEFINE a == IF phase'[x] = "open" THEN Len(up'[x]) ELSE 0
           b == IF answer'[x] = NoFrame THEN 0 ELSE 1
<1>3. a \in Nat /\ b \in Nat
  BY <1>2
<1> DEFINE c == Len(down'[x])
           u == UnderWay(x)'
<1>4. u = a + b + c /\ c \in Nat
  BY <1>2 DEF UnderWay
<1> HIDE DEF a, b, c, u
<1>5. u \in Nat
  BY <1>3, <1>4
<1> QED BY <1>2, <1>5 DEF u

\* Nothing of session y that a client can notice has changed.
Untouched(y) ==
    /\ up'[y] = up[y] /\ down'[y] = down[y] /\ answer'[y] = answer[y]
    /\ phase'[y] = phase[y]

\* A session thread leaves less under way than it found, and answers what it received.
Serves(x) ==
    /\ phase'[x] # "unused"
    /\ UnderWay(x)' <= UnderWay(x)
    /\ OutOfStep(x) => OutOfStep(x)'
    /\ down[x] # <<>> => down'[x] # <<>>
    /\ \A n : Own(x, n) => Own(x, n)'

\* A session that does nothing leaves under way what it found.
LEMMA UntouchedServes ==
    ASSUME WireTypes, UNCHANGED client, NEW y \in Sessions, Untouched(y), phase[y] # "unused"
    PROVE  Serves(y)
<1>1. UnderWay(y)' = UnderWay(y) /\ UnderWay(y) \in Nat
  BY UnderWayIsNat DEF Untouched, UnderWay
<1>2. OutOfStep(y)' <=> OutOfStep(y)
  BY DEF Untouched, OutOfStep
<1>3. \A n : Own(y, n) => Own(y, n)'
  BY DEF Untouched, Own
<1> QED BY <1>1, <1>2, <1>3 DEF Serves, Untouched

\* A step of a session keeps what the client relies on.
LEMMA ServingKeepsConnection ==
    ASSUME WireTypes, WireTypes', ConnectionInv, UNCHANGED client, NEW x \in Sessions,
           Serves(x), \A y \in Sessions \ {x} : Untouched(y)
    PROVE  ConnectionInv'
<1>1. CASE client.conn \notin Sessions
  BY <1>1 DEF ConnectionInv
<1>2. CASE client.conn \in Sessions
  <2> DEFINE c == client.conn
  <2>1. /\ phase[c] # "unused"
        /\ client.awaits # Greeting => client.epoch # 0
        /\ client.partial => down[c] # <<>> /\ client.awaits # NoCall
        /\ ~OutOfStep(c) =>
               /\ UnderWay(c) <= 1
               /\ client.awaits = NoCall => UnderWay(c) = 0
               /\ client.awaits > 0 => Own(c, client.awaits)
    BY <1>2 DEF ConnectionInv
  <2>2. Serves(c)
    <3>1. CASE c = x
      BY <3>1
    <3>2. CASE c # x
      BY <1>2, <2>1, <3>2, UntouchedServes
    <3> QED BY <3>1, <3>2
  <2>3. UnderWay(c) \in Nat /\ UnderWay(c)' \in Nat
    BY <1>2, UnderWayIsNat, UnderWayIsNatNext
  <2>4. /\ phase'[c] # "unused"
        /\ client.partial => down'[c] # <<>>
        /\ ~OutOfStep(c)' =>
               /\ UnderWay(c)' <= 1
               /\ client.awaits = NoCall => UnderWay(c)' = 0
               /\ client.awaits > 0 => Own(c, client.awaits)'
    BY <2>1, <2>2, <2>3 DEF Serves
  <2> QED BY <1>2, <2>1, <2>4 DEF ConnectionInv
<1> QED BY <1>1, <1>2

-----------------------------------------------------------------------------
(***************************************************************************)
(* The steps of a session that change what is under way.                   *)
(***************************************************************************)

\* A request that is not HELLO is that of a call that was asked.
LEMMA RequestsHaveCalls ==
    ASSUME ClientTypes, NEW f \in Requests
    PROVE  /\ f.call \in Nat
           /\ f.id = "HELLO" \/ (f.call \in DOMAIN asked /\ f = Posted(asked[f.call], f.call))
<1>1. CASE f = Hello
  <2>1. f.id = "HELLO" /\ f.call = 0
    BY <1>1 DEF Hello, NoCall
  <2>2. 0 \in Nat
    OBVIOUS
  <2>3. f.call \in Nat
    BY <2>1, <2>2
  <2> QED BY <2>1, <2>3
<1>2. ASSUME NEW n \in DOMAIN asked, f = Posted(asked[n], n)
      PROVE  f.call \in Nat /\ f.call = n
  <2>1. asked \in Seq(Askings)
    BY DEF ClientTypes
  <2>2. n \in Nat
    BY <2>1
  <2>3. f.call = n
    BY <1>2 DEF Posted
  <2> QED BY <2>2, <2>3
<1>3. f = Hello \/ \E n \in DOMAIN asked : f = Posted(asked[n], n)
  BY DEF Requests
<1> QED BY <1>1, <1>2, <1>3

\* A step that asks and runs nothing forgets nothing.
LEMMA StillGrows == ASSUME UNCHANGED <<asked, ran>> PROVE Grows
BY DEF Grows

\* An ERROR frame is a response to the call it was sent for, and says no OK.
LEMMA ErrorsAreTruthful ==
    ASSUME WireTypes, NEW x \in Sessions, NEW n \in Nat,
           NEW code \in {"SESSION_TIMEOUT", "MALFORMED_REQUEST"}
    PROVE  \/ ErrorFrames(x, n, code) = <<>>
           \/ \E f \in Answers : ErrorFrames(x, n, code) = <<f>> /\ f.id = "ERROR" /\ f.call = n
<1> DEFINE f == [id |-> "ERROR", call |-> n, code |-> code, results |-> scratch[x]]
<1>1. f \in Responses /\ f.code # "OK" /\ f.id = "ERROR" /\ f.call = n
  BY DEF WireTypes, Responses, Codes
<1>2. f \in Answers
  BY <1>1 DEF Answers, Truthful
<1> QED BY <1>1, <1>2 DEF ErrorFrames

\* handle_frame() returns false.
LEMMA AbandonStep ==
    ASSUME ExchangeInv, SessionTypes, NEW x \in Sessions, Reading(x), NEW frames,
           phase' = [phase EXCEPT ![x] = "ending"],
           reading' = [reading EXCEPT ![x] = "nothing"],
           down' = [down EXCEPT ![x] = @ \o frames],
           up' = up \/ (up[x] # <<>> /\ up' = [up EXCEPT ![x] = Tail(@)]),
           \/ frames = <<>>
           \/ up[x] # <<>> /\ \E f \in Answers : /\ frames = <<f>> /\ f.id = "ERROR"
                                                 /\ f.call = up[x][1].call,
           UNCHANGED <<scratch, answer, client, asked, ran>>
    PROVE  ClientTypes' /\ WireTypes' /\ SessionsAgree' /\ ConnectionInv'
<1>1. /\ up \in [Sessions -> Seq(Requests')] /\ down \in [Sessions -> Seq(Answers')]
      /\ answer \in [Sessions -> Answers' \cup {NoFrame}]
      /\ \A f \in Answers : f \in Answers'
  BY StillGrows, Retyped, FramesRemain DEF ExchangeInv
<1>2. phase \in [Sessions -> Phases] /\ phase[x] = "open" /\ answer[x] = NoFrame
  BY DEF SessionTypes, Reading, Idle
<1>3. up' \in [Sessions -> Seq(Requests')]
  <2>1. CASE up' = up
    BY <1>1, <2>1
  <2>2. CASE up[x] # <<>> /\ up' = [up EXCEPT ![x] = Tail(@)]
    <3>1. Tail(up[x]) \in Seq(Requests')
      BY <1>1, <2>2, Shortened
    <3> QED BY <1>1, <2>2, <3>1
  <2> QED BY <2>1, <2>2
<1>4. /\ down[x] \in Seq(Answers') /\ down'[x] \in Seq(Answers')
      /\ Len(down[x]) \in Nat /\ Len(down'[x]) \in Nat
      /\ down[x] # <<>> => down'[x] # <<>> /\ down'[x][1] = down[x][1]
      /\ Len(down'[x]) = Len(down[x]) \/ (Len(down'[x]) = Len(down[x]) + 1 /\ up[x] # <<>>)
      /\ \/ down'[x] = down[x]
         \/ /\ up[x] # <<>> /\ Len(down'[x]) = Len(down[x]) + 1
            /\ \A i \in DOMAIN down'[x] :
                   \/ i \in DOMAIN down[x] /\ down'[x][i] = down[x][i]
                   \/ down'[x][i].call = up[x][1].call
  <2>1. down'[x] = down[x] \o frames /\ down[x] \in Seq(Answers')
    BY <1>1
  <2>2. CASE frames = <<>>
    BY <2>1, <2>2, EmptySeq
  <2>3. ASSUME up[x] # <<>>, NEW f \in Answers, frames = <<f>>, f.call = up[x][1].call
        PROVE  <1>4!:
    <3>1. f \in Answers' /\ down'[x] = Append(down[x], f)
      BY <1>1, <2>1, <2>3, Appended
    <3> HIDE DEF Answers
    <3> QED BY <2>1, <2>3, <3>1, Appended, EmptySeq
  <2> QED BY <2>2, <2>3
<1>5. \A y \in Sessions \ {x} : /\ up'[y] = up[y] /\ down'[y] = down[y] /\ answer'[y] = answer[y]
                                /\ phase'[y] = phase[y] /\ reading'[y] = reading[y]
  BY <1>1, <1>2 DEF ExchangeInv, WireTypes
<1>6. ClientTypes'
  BY DEF ExchangeInv, ClientTypes
<1>7. WireTypes'
  BY <1>1, <1>3, <1>4 DEF ExchangeInv, WireTypes
<1>8. /\ phase'[x] = "ending" /\ reading'[x] = "nothing"
  BY <1>2 DEF ExchangeInv, WireTypes
<1>9. SessionsAgree'
  BY <1>2, <1>5, <1>8 DEF ExchangeInv, SessionsAgree
<1>10. Serves(x)
  <2>1. UnderWay(x)' <= UnderWay(x)
    <3>1. up[x] # <<>> => Len(up[x]) >= 1
      BY <1>1, Shortened
    <3>2. Len(up[x]) \in Nat
      BY <1>1, EmptySeq
    <3>3. UnderWay(x) = Len(up[x]) + 0 + Len(down[x]) /\ UnderWay(x)' = 0 + 0 + Len(down'[x])
      BY <1>2, <1>8 DEF UnderWay
    <3> DEFINE u == Len(up[x])
               d == Len(down[x])
               e == Len(down'[x])
    <3>4. u \in Nat /\ d \in Nat /\ e \in Nat /\ (e = d \/ (e = d + 1 /\ u >= 1))
      <4>1. u \in Nat /\ d \in Nat /\ e \in Nat
        BY <1>4, <3>2
      <4>3. e = d \/ (e = d + 1 /\ up[x] # <<>>)
        BY <1>4
      <4> QED BY <3>1, <4>1, <4>3, Zenon
    <3>5. UnderWay(x) = u + d /\ UnderWay(x)' = e
      BY <3>3, <3>4
    <3> HIDE DEF u, d, e
    <3> QED BY <3>4, <3>5
  <2>2. OutOfStep(x) => OutOfStep(x)'
    BY <1>4 DEF OutOfStep
  <2>3. ASSUME NEW n, Own(x, n) PROVE Own(x, n)'
    <3>1. up[x] # <<>> => up[x][1].call = n
      <4>1. up[x] # <<>> => 1 \in DOMAIN up[x]
        BY <1>1, Shortened
      <4> QED BY <1>2, <2>3, <4>1 DEF Own
    <3> QED BY <1>2, <1>4, <1>8, <2>3, <3>1 DEF Own
  <2> QED BY <1>4, <1>8, <2>1, <2>2, <2>3 DEF Serves
<1>11. ConnectionInv'
  BY <1>5, <1>7, <1>10, ServingKeepsConnection DEF ExchangeInv, Untouched
<1> QED BY <1>6, <1>7, <1>9, <1>11

\* A frame is taken out of the stream, and its response is made.
LEMMA ConsumeStep ==
    ASSUME ExchangeInv, SessionTypes, NEW x \in Sessions, Reading(x), Consumed(x), up[x] # <<>>,
           Grows, ClientTypes', ran' \in Seq(Runs), scratch' \in [Sessions -> ResultSets],
           NEW f \in Answers', answer' = [answer EXCEPT ![x] = f],
           Responding(f) => f.call = up[x][1].call,
           UNCHANGED <<phase, down, client>>
    PROVE  WireTypes' /\ SessionsAgree' /\ ConnectionInv'
<1>1. /\ up \in [Sessions -> Seq(Requests')] /\ down \in [Sessions -> Seq(Answers')]
      /\ answer \in [Sessions -> Answers' \cup {NoFrame}]
  BY Retyped DEF ExchangeInv
<1>2. phase \in [Sessions -> Phases] /\ phase[x] = "open" /\ answer[x] = NoFrame
  BY DEF SessionTypes, Reading, Idle
<1>3. /\ up' = [up EXCEPT ![x] = Tail(@)] /\ reading' = [reading EXCEPT ![x] = "nothing"]
      /\ reading \in [Sessions -> {"nothing", "header_part", "header", "payload_part", "frame"}]
  BY DEF Consumed, ExchangeInv, WireTypes
<1>4. /\ Tail(up[x]) \in Seq(Requests') /\ Len(Tail(up[x])) = Len(up[x]) - 1 /\ Len(up[x]) \in Nat
      /\ Len(up[x]) >= 1 /\ 1 \in DOMAIN up[x]
      /\ \A i \in DOMAIN Tail(up[x]) : i + 1 \in DOMAIN up[x] /\ Tail(up[x])[i] = up[x][i + 1]
  BY <1>1, Shortened
<1>5. \A y \in Sessions \ {x} : Untouched(y) /\ reading'[y] = reading[y]
  BY <1>1, <1>3 DEF Untouched
<1>6. /\ up'[x] = Tail(up[x]) /\ down'[x] = down[x] /\ answer'[x] = f /\ phase'[x] = "open"
      /\ reading'[x] = "nothing"
  BY <1>1, <1>2, <1>3
<1>7. WireTypes'
  <2>1. up' \in [Sessions -> Seq(Requests')]
    BY <1>1, <1>3, <1>4
  <2>2. answer' \in [Sessions -> Answers' \cup {NoFrame}]
    BY <1>1
  <2> QED BY <1>1, <1>3, <2>1, <2>2 DEF WireTypes
<1>8. SessionsAgree'
  <2> SUFFICES ASSUME NEW y \in Sessions
               PROVE  /\ phase'[y] = "unused" => up'[y] = <<>> /\ down'[y] = <<>>
                                                       /\ answer'[y] = NoFrame
                      /\ reading'[y] # "nothing" =>
                             up'[y] # <<>> /\ phase'[y] = "open" /\ answer'[y] = NoFrame
                      /\ answer'[y] # NoFrame => phase'[y] = "open"
    BY DEF SessionsAgree
  <2>1. CASE y = x
    BY <1>6, <2>1
  <2>2. CASE y # x
    BY <1>5, <2>2 DEF ExchangeInv, SessionsAgree, Untouched
  <2> QED BY <2>1, <2>2
<1>9. Serves(x)
  <2>1. UnderWay(x)' <= UnderWay(x)
    <3> DEFINE u == Len(up[x])
               v == Len(Tail(up[x]))
               d == Len(down[x])
               b == IF f = NoFrame THEN 0 ELSE 1
    <3>1. UnderWay(x) = u + 0 + d /\ UnderWay(x)' = v + b + d
      BY <1>2, <1>6 DEF UnderWay
    <3>2. u \in Nat /\ v = u - 1
      BY <1>4
    <3>3. d \in Nat
      BY <1>1, EmptySeq
    <3>4. b \in {0, 1}
      OBVIOUS
    <3> HIDE DEF u, v, d, b
    <3> QED BY <3>1, <3>2, <3>3, <3>4
  <2>2. OutOfStep(x) => OutOfStep(x)'
    BY <1>6 DEF OutOfStep
  <2>3. ASSUME NEW n, Own(x, n) PROVE Own(x, n)'
    <3>1. up[x][1].call = n
      BY <1>2, <1>4, <2>3 DEF Own
    <3>2. \A i \in DOMAIN up'[x] : up'[x][i].call = n
      BY <1>2, <1>4, <1>6, <2>3 DEF Own
    <3>3. \A i \in DOMAIN down'[x] : Responding(down'[x][i]) => down'[x][i].call = n
      BY <1>6, <2>3 DEF Own
    <3> QED BY <1>6, <3>1, <3>2, <3>3 DEF Own
  <2> QED BY <1>6, <2>1, <2>2, <2>3 DEF Serves
<1>10. ConnectionInv'
  BY <1>5, <1>7, <1>9, ServingKeepsConnection DEF ExchangeInv
<1> QED BY <1>7, <1>8, <1>10

\* A session sends its response.
LEMMA SendStep ==
    ASSUME ExchangeInv, NEW x \in Sessions, Send(x)
    PROVE  ClientTypes' /\ WireTypes' /\ SessionsAgree' /\ ConnectionInv'
<1>1. /\ answer[x] # NoFrame
      /\ down' = [down EXCEPT ![x] = Append(@, answer[x])]
      /\ answer' = [answer EXCEPT ![x] = NoFrame]
      /\ UNCHANGED <<phase, up, reading, scratch, client, asked, ran>>
  BY DEF Send, server_vars, server, histories
<1>2. /\ up \in [Sessions -> Seq(Requests')] /\ down \in [Sessions -> Seq(Answers')]
      /\ answer \in [Sessions -> Answers' \cup {NoFrame}]
  BY <1>1, StillGrows, Retyped DEF ExchangeInv
<1> DEFINE f == answer[x]
<1>3. f \in Answers' /\ down[x] \in Seq(Answers')
  BY <1>1, <1>2
<1> HIDE DEF f
<1>4. /\ Append(down[x], f) \in Seq(Answers') /\ Append(down[x], f) # <<>> /\ Len(down[x]) \in Nat
      /\ Len(Append(down[x], f)) = Len(down[x]) + 1
      /\ down[x] # <<>> => Append(down[x], f)[1] = down[x][1]
      /\ \A i \in DOMAIN Append(down[x], f) :
             \/ i \in DOMAIN down[x] /\ Append(down[x], f)[i] = down[x][i]
             \/ Append(down[x], f)[i] = f
  BY <1>3, Appended
<1>5. /\ down'[x] = Append(down[x], f) /\ answer'[x] = NoFrame /\ up'[x] = up[x]
      /\ phase'[x] = phase[x]
  BY <1>1, <1>2 DEF f
<1>6. \A y \in Sessions \ {x} : Untouched(y)
  BY <1>1, <1>2 DEF Untouched
<1>7. ClientTypes'
  BY <1>1 DEF ExchangeInv, ClientTypes
<1>8. WireTypes'
  <2>1. down' \in [Sessions -> Seq(Answers')]
    BY <1>1, <1>2, <1>4 DEF f
  <2>2. answer' \in [Sessions -> Answers' \cup {NoFrame}]
    BY <1>1, <1>2
  <2> QED BY <1>1, <1>2, <2>1, <2>2 DEF ExchangeInv, WireTypes
<1>9. SessionsAgree'
  <2>1. phase[x] = "open"
    BY <1>1 DEF ExchangeInv, SessionsAgree
  <2> QED BY <1>1, <1>5, <1>6, <2>1 DEF ExchangeInv, SessionsAgree, Untouched
<1>10. Serves(x)
  <2>0. phase[x] = "open"
    BY <1>1 DEF ExchangeInv, SessionsAgree
  <2>1. UnderWay(x)' <= UnderWay(x)
    <3> DEFINE u == Len(up[x])
               d == Len(down[x])
    <3>1. UnderWay(x) = u + 1 + d /\ UnderWay(x)' = u + 0 + (d + 1)
      BY <1>1, <1>4, <1>5, <2>0 DEF UnderWay
    <3>2. u \in Nat /\ d \in Nat
      BY <1>2, EmptySeq
    <3> HIDE DEF u, d
    <3> QED BY <3>1, <3>2
  <2>2. OutOfStep(x) => OutOfStep(x)'
    BY <1>1, <1>4, <1>5 DEF OutOfStep
  <2>3. ASSUME NEW n, Own(x, n) PROVE Own(x, n)'
    <3>1. Responding(f) => f.call = n
      BY <2>3 DEF Own, f
    <3>2. \A i \in DOMAIN down'[x] : Responding(down'[x][i]) => down'[x][i].call = n
      BY <1>4, <1>5, <2>3, <3>1 DEF Own
    <3>3. ~Responding(NoFrame)
      BY DEF Responding, NoFrame
    <3> QED BY <1>5, <2>3, <3>2, <3>3 DEF Own
  <2> QED BY <1>4, <1>5, <2>0, <2>1, <2>2, <2>3 DEF Serves
<1>11. ConnectionInv'
  BY <1>1, <1>6, <1>8, <1>10, ServingKeepsConnection DEF ExchangeInv
<1> QED BY <1>7, <1>8, <1>9, <1>11

\* Steps after which the same frames are under way.
LEMMA QuietStep ==
    ASSUME ExchangeInv, Grows, UNCHANGED <<up, down, answer, scratch, phase, client, ran>>,
           \/ UNCHANGED reading
           \/ \E x \in Sessions, part \in {"header_part", "header", "payload_part", "frame"} :
                  Reading(x) /\ up[x] # <<>> /\ reading' = [reading EXCEPT ![x] = part]
    PROVE  WireTypes' /\ SessionsAgree' /\ ConnectionInv'
<1>1. /\ up \in [Sessions -> Seq(Requests')] /\ down \in [Sessions -> Seq(Answers')]
      /\ answer \in [Sessions -> Answers' \cup {NoFrame}]
  BY Retyped DEF ExchangeInv
<1>3. reading' \in [Sessions -> {"nothing", "header_part", "header", "payload_part", "frame"}]
  BY DEF ExchangeInv, WireTypes
<1>4. WireTypes'
  BY <1>1, <1>3 DEF ExchangeInv, WireTypes
<1>5. SessionsAgree'
  <2>1. CASE UNCHANGED reading
    BY <2>1 DEF ExchangeInv, SessionsAgree
  <2>2. ASSUME NEW x \in Sessions, NEW part, Reading(x), up[x] # <<>>,
               reading' = [reading EXCEPT ![x] = part]
        PROVE  SessionsAgree'
    <3>1. phase[x] = "open" /\ answer[x] = NoFrame
      BY <2>2 DEF Reading, Idle
    <3>2. \A y \in Sessions : y = x \/ reading'[y] = reading[y]
      BY <2>2 DEF ExchangeInv, WireTypes
    <3> QED BY <2>2, <3>1, <3>2 DEF ExchangeInv, SessionsAgree
  <2> QED BY <2>1, <2>2
<1>6. ConnectionInv'
  BY DEF ExchangeInv, ConnectionInv, UnderWay, OutOfStep, Own
<1> QED BY <1>4, <1>5, <1>6

\* A response that cannot be sent ends the session.
LEMMA SendFailsStep ==
    ASSUME ExchangeInv, SessionTypes, NEW x \in Sessions, SendFails(x)
    PROVE  ClientTypes' /\ WireTypes' /\ SessionsAgree' /\ ConnectionInv'
<1>1. /\ answer[x] # NoFrame /\ phase[x] = "open"
      /\ phase' = [phase EXCEPT ![x] = "ending"]
      /\ answer' = [answer EXCEPT ![x] = NoFrame]
      /\ UNCHANGED <<up, down, reading, scratch, client, asked, ran>>
  BY DEF SendFails, Leave, Idle, histories
<1>2. /\ up \in [Sessions -> Seq(Requests')] /\ down \in [Sessions -> Seq(Answers')]
      /\ answer \in [Sessions -> Answers' \cup {NoFrame}]
      /\ phase \in [Sessions -> Phases]
  BY <1>1, StillGrows, Retyped DEF ExchangeInv, SessionTypes
<1>3. /\ up'[x] = up[x] /\ down'[x] = down[x] /\ answer'[x] = NoFrame /\ phase'[x] = "ending"
      /\ reading[x] = "nothing"
  BY <1>1, <1>2 DEF ExchangeInv, SessionsAgree
<1>4. \A y \in Sessions \ {x} : Untouched(y)
  BY <1>1, <1>2 DEF Untouched
<1>5. ClientTypes'
  BY <1>1 DEF ExchangeInv, ClientTypes
<1>6. WireTypes'
  <2>1. answer' \in [Sessions -> Answers' \cup {NoFrame}]
    BY <1>1, <1>2
  <2> QED BY <1>1, <1>2, <2>1 DEF ExchangeInv, WireTypes
<1>7. SessionsAgree'
  BY <1>1, <1>3, <1>4 DEF ExchangeInv, SessionsAgree, Untouched
<1>8. Serves(x)
  <2>1. UnderWay(x)' <= UnderWay(x)
    <3> DEFINE u == Len(up[x])
               d == Len(down[x])
    <3>1. UnderWay(x) = u + 1 + d /\ UnderWay(x)' = 0 + 0 + d
      BY <1>1, <1>3 DEF UnderWay
    <3>2. u \in Nat /\ d \in Nat
      BY <1>2, EmptySeq
    <3> HIDE DEF u, d
    <3> QED BY <3>1, <3>2
  <2>2. OutOfStep(x) => OutOfStep(x)'
    BY <1>1 DEF OutOfStep
  <2>3. ASSUME NEW n, Own(x, n) PROVE Own(x, n)'
    BY <1>3, <2>3 DEF Own, Responding, NoFrame
  <2> QED BY <1>3, <2>1, <2>2, <2>3 DEF Serves
<1>9. ConnectionInv'
  BY <1>1, <1>4, <1>6, <1>8, ServingKeepsConnection DEF ExchangeInv
<1> QED BY <1>5, <1>6, <1>7, <1>9

\* end_session() closes the socket on what it did not receive.
LEMMA EndOfSessionStep ==
    ASSUME ExchangeInv, SessionTypes, NEW x \in Sessions, EndOfSession(x)
    PROVE  ClientTypes' /\ WireTypes' /\ SessionsAgree' /\ ConnectionInv'
<1>1. /\ phase[x] = "ending" /\ phase' = [phase EXCEPT ![x] = "done"]
      /\ up' = [up EXCEPT ![x] = <<>>]
      /\ scratch' = [scratch EXCEPT ![x] = NoResults]
      /\ UNCHANGED <<down, reading, answer, client, asked, ran>>
  BY DEF EndOfSession, EndSession, histories
<1>2. /\ up \in [Sessions -> Seq(Requests')] /\ down \in [Sessions -> Seq(Answers')]
      /\ answer \in [Sessions -> Answers' \cup {NoFrame}]
      /\ phase \in [Sessions -> Phases]
  BY <1>1, StillGrows, Retyped DEF ExchangeInv, SessionTypes
<1>3. /\ up'[x] = <<>> /\ down'[x] = down[x] /\ answer'[x] = NoFrame /\ answer[x] = NoFrame
      /\ phase'[x] = "done" /\ reading[x] = "nothing"
  BY <1>1, <1>2 DEF ExchangeInv, SessionsAgree
<1>4. \A y \in Sessions \ {x} : Untouched(y)
  BY <1>1, <1>2 DEF Untouched
<1>5. ClientTypes'
  BY <1>1 DEF ExchangeInv, ClientTypes
<1>6. WireTypes'
  <2>1. <<>> \in Seq(Requests')
    BY <1>2, EmptySeq
  <2>2. up' \in [Sessions -> Seq(Requests')]
    BY <1>1, <1>2, <2>1
  <2>3. NoResults \in ResultSets
    BY DEF NoResults, ResultSets, NoCall
  <2> QED BY <1>1, <1>2, <2>2, <2>3 DEF ExchangeInv, WireTypes
<1>7. SessionsAgree'
  BY <1>1, <1>3, <1>4 DEF ExchangeInv, SessionsAgree, Untouched
<1>8. Serves(x)
  <2>1. UnderWay(x)' <= UnderWay(x)
    <3> DEFINE d == Len(down[x])
    <3>1. UnderWay(x) = 0 + 0 + d /\ UnderWay(x)' = 0 + 0 + d
      BY <1>1, <1>3 DEF UnderWay
    <3>2. d \in Nat
      BY <1>2, EmptySeq
    <3> HIDE DEF d
    <3> QED BY <3>1, <3>2
  <2>2. OutOfStep(x) => OutOfStep(x)'
    BY <1>1 DEF OutOfStep
  <2>3. ASSUME NEW n, Own(x, n) PROVE Own(x, n)'
    BY <1>3, <2>3 DEF Own
  <2> QED BY <1>3, <2>1, <2>2, <2>3 DEF Serves
<1>9. ConnectionInv'
  BY <1>1, <1>4, <1>6, <1>8, ServingKeepsConnection DEF ExchangeInv
<1> QED BY <1>5, <1>6, <1>7, <1>9

-----------------------------------------------------------------------------
(***************************************************************************)
(* The steps of the client.                                                *)
(***************************************************************************)

\* With an answer received nothing else is under way, and with nothing under way
\* there is no frame anywhere.
LEMMA OnlyOneUnderWay ==
    ASSUME WireTypes, NEW x \in Sessions
    PROVE  /\ UnderWay(x) <= 1 /\ down[x] # <<>> =>
                  /\ answer[x] = NoFrame /\ Tail(down[x]) = <<>>
                  /\ phase[x] = "open" => up[x] = <<>>
           /\ UnderWay(x) = 0 =>
                  /\ answer[x] = NoFrame /\ down[x] = <<>>
                  /\ phase[x] = "open" => up[x] = <<>>
<1> DEFINE a == IF phase[x] = "open" THEN Len(up[x]) ELSE 0
           b == IF answer[x] = NoFrame THEN 0 ELSE 1
           d == Len(down[x])
           u == UnderWay(x)
<1>1. up[x] \in Seq(Requests) /\ down[x] \in Seq(Answers)
  BY DEF WireTypes
<1>2. /\ up[x] = <<>> <=> Len(up[x]) = 0
      /\ down[x] = <<>> <=> d = 0
      /\ Len(up[x]) \in Nat /\ d \in Nat
  BY <1>1, EmptySeq
<1>3. down[x] # <<>> => Tail(down[x]) \in Seq(Answers) /\ Len(Tail(down[x])) = d - 1
  BY <1>1, Shortened
<1>4. a \in Nat /\ b \in Nat /\ (b = 0 => answer[x] = NoFrame)
      /\ (a = 0 => (phase[x] = "open" => up[x] = <<>>))
  BY <1>2
<1>5. u = a + b + d
  BY DEF UnderWay
<1>6. ASSUME NEW t, t \in Seq(Answers), Len(t) = 0 PROVE t = <<>>
  BY <1>6, EmptySeq
<1>7. u <= 1 /\ d # 0 => a = 0 /\ b = 0 /\ d = 1
  <2> HIDE DEF a, b, d, u
  <2> QED BY <1>2, <1>4, <1>5
<1>8. u = 0 => a = 0 /\ b = 0 /\ d = 0
  <2> HIDE DEF a, b, d, u
  <2> QED BY <1>2, <1>4, <1>5
<1>9. down[x] # <<>> /\ d = 1 => Tail(down[x]) = <<>>
  <2> SUFFICES ASSUME down[x] # <<>>, d = 1 PROVE Tail(down[x]) = <<>>
    OBVIOUS
  <2>1. Tail(down[x]) \in Seq(Answers) /\ Len(Tail(down[x])) = d - 1
    BY <1>3
  <2>2. Len(Tail(down[x])) = 0
    BY <2>1
  <2> QED BY <1>6, <2>1, <2>2
<1> HIDE DEF a, b, d
<1> QED BY <1>2, <1>4, <1>7, <1>8, <1>9

\* What is sent goes to the session, or nowhere.
Deposited(f, x) ==
    /\ up' \in [Sessions -> Seq(Requests')]
    /\ \A y \in Sessions \ {x} : up'[y] = up[y]
    /\ up'[x] = up[x] \/ (phase[x] = "open" /\ up'[x] = Append(up[x], f))

\* What Sending() appends.
LEMMA SendingEffect ==
    ASSUME ExchangeInv, Grows, NEW id, NEW payload, NEW n, client.conn \in Sessions,
           [id |-> id, payload |-> payload, call |-> n] \in Requests',
           up' = Sending(id, payload, n)
    PROVE  Deposited([id |-> id, payload |-> payload, call |-> n], client.conn)
<1> DEFINE x == client.conn
           f == [id |-> id, payload |-> payload, call |-> n]
           R == Requests'
<1>1. up \in [Sessions -> Seq(R)] /\ f \in R
  BY Retyped DEF ExchangeInv
<1>2. up[x] \in Seq(R)
  BY <1>1
<1>3. up' = up \/ (phase[x] = "open" /\ up' = [up EXCEPT ![x] = Append(@, f)])
  BY DEF Sending
<1> HIDE DEF f, R
<1>4. Append(up[x], f) \in Seq(R)
  BY <1>1, <1>2, Appended
<1>5. CASE up' = up
  <2>1. up' \in [Sessions -> Seq(R)]
    BY <1>1, <1>5
  <2> QED BY <1>5, <2>1 DEF Deposited, R
<1>6. CASE phase[x] = "open" /\ up' = [up EXCEPT ![x] = Append(@, f)]
  <2>1. /\ up' \in [Sessions -> Seq(R)] /\ up'[x] = Append(up[x], f)
        /\ \A y \in Sessions \ {x} : up'[y] = up[y]
    BY <1>1, <1>4, <1>6
  <2> QED BY <1>6, <2>1 DEF Deposited, f, R
<1> QED BY <1>3, <1>5, <1>6

\* The client has sent a frame and waits.
LEMMA SentStep ==
    ASSUME ExchangeInv, Grows, ClientTypes', NEW id, NEW payload, NEW n,
           [id |-> id, payload |-> payload, call |-> n] \in Requests',
           Ready, up' = Sending(id, payload, n),
           NEW awaits, client' = [client EXCEPT !.awaits = awaits],
           awaits # Greeting, awaits # NoCall, awaits > 0 => awaits = n,
           UNCHANGED <<phase, down, reading, scratch, answer, ran>>
    PROVE  WireTypes' /\ SessionsAgree' /\ ConnectionInv'
<1> DEFINE x == client.conn
           f == [id |-> id, payload |-> payload, call |-> n]
<1>1. x \in Sessions /\ client.awaits = NoCall /\ x # NoSessionId
  BY DEF Ready, ExchangeInv, ClientTypes, Clients
<1>2. /\ up' \in [Sessions -> Seq(Requests')]
      /\ \A y \in Sessions \ {x} : up'[y] = up[y]
      /\ \/ up'[x] = up[x]
         \/ phase[x] = "open" /\ up'[x] = Append(up[x], f)
  <2>1. Deposited(f, x)
    BY <1>1, SendingEffect
  <2> QED BY <2>1 DEF Deposited
<1>3. /\ down \in [Sessions -> Seq(Answers')]
      /\ answer \in [Sessions -> Answers' \cup {NoFrame}]
      /\ up \in [Sessions -> Seq(Requests')]
  BY Retyped DEF ExchangeInv
<1>4. WireTypes'
  BY <1>2, <1>3 DEF ExchangeInv, WireTypes
<1>5. f \in Requests' /\ f.call = n
  OBVIOUS
<1> HIDE DEF f
<1>6. /\ Append(up[x], f) # <<>> /\ Len(Append(up[x], f)) = Len(up[x]) + 1
      /\ \A i \in DOMAIN Append(up[x], f) :
             \/ i \in DOMAIN up[x] /\ Append(up[x], f)[i] = up[x][i]
             \/ Append(up[x], f)[i] = f
  <2>1. up[x] \in Seq(Requests')
    BY <1>1, <1>3
  <2> HIDE DEF x
  <2> QED BY <1>5, <2>1, Appended
<1>7. SessionsAgree'
  BY <1>1, <1>2, <1>6 DEF ExchangeInv, SessionsAgree
<1>8. /\ client'.conn = x /\ client'.awaits = awaits /\ client'.partial = client.partial
      /\ client'.failed = client.failed /\ client'.epoch = client.epoch
  BY DEF ExchangeInv, ClientTypes, Clients
<1>9. /\ phase[x] # "unused" /\ client.epoch # 0 /\ ~client.partial
      /\ ~OutOfStep(x) => UnderWay(x) = 0
  BY <1>1 DEF ExchangeInv, ConnectionInv, Greeting, NoCall
<1>10. OutOfStep(x)' <=> OutOfStep(x)
  BY <1>8 DEF OutOfStep
<1>11. ASSUME ~OutOfStep(x) PROVE UnderWay(x)' <= 1 /\ (awaits > 0 => Own(x, awaits)')
  <2>1. answer[x] = NoFrame /\ down[x] = <<>> /\ (phase[x] = "open" => up[x] = <<>>)
    BY <1>1, <1>9, <1>11, OnlyOneUnderWay DEF ExchangeInv
  <2>2. CASE phase[x] = "open"
    <3>1. Len(up'[x]) \in {0, 1}
      <4>1. Len(up[x]) = 0
        BY <2>1, <2>2
      <4>2. up'[x] = up[x] \/ up'[x] = Append(up[x], f)
        BY <1>2
      <4>3. CASE up'[x] = up[x]
        BY <4>1, <4>3
      <4>4. CASE up'[x] = Append(up[x], f)
        <5>1. Len(up'[x]) = Len(up[x]) + 1
          BY <1>6, <4>4
        <5> QED BY <4>1, <5>1
      <4> QED BY <4>2, <4>3, <4>4
    <3>2. Len(down[x]) = 0
      BY <2>1
    <3>3. UnderWay(x)' = Len(up'[x]) + 0 + Len(down[x])
      BY <1>8, <2>1, <2>2 DEF UnderWay
    <3>4. \A i \in DOMAIN up'[x] : up'[x][i].call = n
      BY <1>2, <1>5, <1>6, <2>1, <2>2
    <3> DEFINE u == Len(up'[x])
               v == UnderWay(x)'
    <3>5. u \in {0, 1} /\ v = u
      BY <3>1, <3>2, <3>3
    <3>6. v <= 1
      <4> HIDE DEF u, v
      <4> QED BY <3>5
    <3>7. awaits > 0 => Own(x, awaits)'
      BY <1>8, <2>1, <3>4 DEF Own, Responding, NoFrame
    <3> QED BY <3>6, <3>7
  <2>3. CASE phase[x] # "open"
    <3>1. Len(down[x]) = 0
      BY <2>1
    <3>2. UnderWay(x)' = 0 + 0 + Len(down[x])
      BY <1>8, <2>1, <2>3 DEF UnderWay
    <3>3. UnderWay(x)' = 0
      BY <3>1, <3>2
    <3>4. awaits > 0 => Own(x, awaits)'
      BY <1>8, <2>1, <2>3 DEF Own, Responding, NoFrame
    <3> QED BY <3>3, <3>4
  <2> QED BY <2>2, <2>3
<1>12. ConnectionInv'
  BY <1>1, <1>8, <1>9, <1>10, <1>11 DEF ExchangeInv, ConnectionInv
<1> QED BY <1>4, <1>7, <1>12

\* The answer that was handed out last stays right.
LEMMA TakenRemains ==
    ASSUME HistoryInv, Grows, taken' = taken, taken.code = "OK"
    PROVE  /\ taken'.call \in DOMAIN asked'
           /\ "attempt" \in DOMAIN asked'[taken'.call].fields => Done(taken.call)'
<1>1. /\ taken.call \in DOMAIN asked
      /\ "attempt" \in DOMAIN asked[taken.call].fields => Done(taken.call)
  BY DEF HistoryInv
<1>2. taken.call \in DOMAIN asked' /\ asked'[taken.call] = asked[taken.call]
  BY <1>1 DEF Grows
<1>3. Done(taken.call) => Done(taken.call)'
  <2>1. SUFFICES ASSUME NEW n, n = taken.call, Done(n) PROVE Done(n)'
    OBVIOUS
  <2> QED BY <1>1, <2>1, DoneRemains
<1> QED BY <1>1, <1>2, <1>3

\* A step that dispatches and runs nothing, and hands out no OK, keeps the histories.
LEMMA HistoryCarries ==
    ASSUME HistoryInv, Grows, UNCHANGED <<dispatched, ran>>,
           taken' = taken \/ (taken'.code # "OK" /\ AnswersAreOwn')
    PROVE  HistoryInv'
<1>1. (dispatched = NoDispatch \/ dispatched.call \in DOMAIN asked)'
  BY DEF HistoryInv, Grows
<1>2. DispatchedAsAsked'
  <2>1. CASE dispatched = NoDispatch
    BY <2>1 DEF DispatchedAsAsked
  <2>2. CASE dispatched # NoDispatch
    <3>1. asked'[dispatched.call] = asked[dispatched.call]
      BY <2>2 DEF HistoryInv, Grows
    <3> QED BY <2>2, <3>1 DEF HistoryInv, DispatchedAsAsked
  <2> QED BY <2>1, <2>2
<1>3. AnswersAreOwn'
  BY DEF HistoryInv, AnswersAreOwn
<1>4. (taken.code = "OK" =>
           /\ taken.call \in DOMAIN asked
           /\ "attempt" \in DOMAIN asked[taken.call].fields => Done(taken.call))'
  <2>1. CASE taken'.code # "OK"
    BY <2>1
  <2>2. CASE taken' = taken /\ taken.code = "OK"
    BY <2>2, TakenRemains
  <2> QED BY <2>1, <2>2
<1> QED BY <1>1, <1>2, <1>3, <1>4 DEF HistoryInv

\* What a client sends is an asking.
LEMMA AskingsAre ==
    ASSUME NEW k \in Calls, NEW x \in Contexts, NEW c \in Senders
    PROVE  [call |-> k, fields |-> Sent(k, x, c)] \in Askings
BY DEF Askings

\* A method of the client is called.
LEMMA AskStep ==
    ASSUME ExchangeInv, NEW call \in Calls, NEW context \in Contexts, Ask(call, context)
    PROVE  ExchangeInv'
<1> DEFINE e == [call |-> call, fields |-> Sent(call, context, client)]
           n == Len(asked) + 1
           id == Request(call).id
           q == Filled(NewRequest, Sent(call, context, client))
<1>1. /\ asked' = Append(asked, e) /\ Ready
      /\ UNCHANGED <<phase, down, reading, scratch, answer, dispatched, ran>>
      /\ \/ /\ up' = Sending(id, Encoded(id, q), n)
            /\ client' = [client EXCEPT !.awaits = n]
            /\ taken' = NoResult
         \/ /\ taken' = [call |-> n, answers |-> n, code |-> "RESOURCE_LIMIT", result |-> NoCall]
            /\ UNCHANGED <<up, client>>
  <2>1. /\ asked' = Append(asked, e) /\ Ready
        /\ UNCHANGED <<server_vars, down, reading, scratch, answer, lost, dispatched, ran>>
    BY DEF Ask
  <2>2. phase' = phase
    BY <2>1 DEF server_vars, server
  <2>3. CASE Encodable(id, q)
    BY <2>1, <2>2, <2>3 DEF Ask
  <2>4. CASE ~Encodable(id, q)
    BY <2>1, <2>2, <2>4 DEF Ask
  <2> QED BY <2>3, <2>4
<1>2. client \in Senders
  <2>1. client \in Clients /\ (client.publisher = "" <=> client.worker_boot = "")
    BY DEF ExchangeInv, ClientTypes
  <2>2. client.conn # NoSessionId /\ client.awaits = NoCall
    BY <1>1 DEF Ready
  <2>3. client.conn \in Sessions
    BY <2>1, <2>2 DEF Clients
  <2>4. client.awaits # Greeting
    BY <2>2 DEF NoCall, Greeting
  <2>5. client.epoch # 0
    BY <2>3, <2>4 DEF ExchangeInv, ConnectionInv
  <2> QED BY <2>1, <2>3, <2>5 DEF Senders
<1>3. e \in Askings /\ asked \in Seq(Askings)
  <2>1. e \in Askings
    BY <1>2, AskingsAre
  <2> HIDE DEF e
  <2> QED BY <2>1 DEF ExchangeInv, ClientTypes
<1> HIDE DEF e
<1>4. /\ asked' \in Seq(Askings) /\ Len(asked) \in Nat /\ Len(asked') = n
      /\ n \in DOMAIN asked' /\ asked'[n] = e
      /\ \A i \in DOMAIN asked : i \in DOMAIN asked' /\ asked'[i] = asked[i]
  BY <1>1, <1>3, Appended
<1>5. Grows
  BY <1>1, <1>4 DEF Grows
<1>6. n \in Nat /\ n > 0
  BY <1>4
<1>7. ClientTypes'
  <2>1. client' \in Clients /\ (client'.publisher = "" <=> client'.worker_boot = "")
    <3>1. client \in Clients /\ (client.publisher = "" <=> client.worker_boot = "")
      BY DEF ExchangeInv, ClientTypes
    <3>2. client' = client \/ client' = [client EXCEPT !.awaits = n]
      BY <1>1
    <3>3. n \in Int
      BY <1>6
    <3> HIDE DEF n
    <3> QED BY <3>1, <3>2, <3>3 DEF Clients
  <2>2. client'.awaits \in {Greeting, Refresh} \cup 0 .. Len(asked')
    <3>1. client.awaits = NoCall
      BY <1>1 DEF Ready
    <3>2. client'.awaits = n \/ client'.awaits = 0
      BY <1>1, <3>1 DEF ExchangeInv, ClientTypes, Clients, NoCall
    <3> QED BY <1>4, <3>2
  <2> QED BY <1>4, <2>1, <2>2 DEF ClientTypes
<1>8. CASE /\ up' = Sending(id, Encoded(id, q), n)
           /\ client' = [client EXCEPT !.awaits = n]
           /\ taken' = NoResult
  <2>1. [id |-> id, payload |-> Encoded(id, q), call |-> n] = Posted(e, n)
    BY DEF Posted, e
  <2>2. Posted(e, n) \in Requests'
    BY <1>4 DEF Requests
  <2>3. n # Greeting /\ n # NoCall
    BY <1>6 DEF Greeting, NoCall
  <2> DEFINE p == Encoded(id, q)
  <2>4. [id |-> id, payload |-> p, call |-> n] \in Requests' /\ up' = Sending(id, p, n)
    BY <1>8, <2>1, <2>2
  <2> HIDE DEF id, p, n, q
  <2>5. WireTypes' /\ SessionsAgree' /\ ConnectionInv'
    BY <1>1, <1>5, <1>7, <1>8, <2>3, <2>4, SentStep
  <2>6. HistoryInv'
    <3>1. taken'.code # "OK" /\ AnswersAreOwn'
      BY <1>8 DEF NoResult, AnswersAreOwn
    <3> QED BY <1>1, <1>5, <3>1, HistoryCarries DEF ExchangeInv
  <2> QED BY <1>7, <2>5, <2>6 DEF ExchangeInv
<1>9. CASE /\ taken' = [call |-> n, answers |-> n, code |-> "RESOURCE_LIMIT", result |-> NoCall]
           /\ UNCHANGED <<up, client>>
  <2>1. WireTypes' /\ SessionsAgree' /\ ConnectionInv'
    BY <1>1, <1>5, <1>9, QuietStep
  <2>2. HistoryInv'
    <3>1. taken'.code # "OK" /\ AnswersAreOwn'
      BY <1>9 DEF AnswersAreOwn
    <3> QED BY <1>1, <1>5, <3>1, HistoryCarries DEF ExchangeInv
  <2> QED BY <1>7, <2>1, <2>2 DEF ExchangeInv
<1> QED BY <1>1, <1>8, <1>9

\* refresh_epoch() sends HELLO.
LEMMA AskEpochStep ==
    ASSUME ExchangeInv, AskEpoch
    PROVE  ExchangeInv'
<1>1. /\ Ready /\ up' = Sending("HELLO", <<>>, NoCall)
      /\ client' = [client EXCEPT !.awaits = Refresh]
      /\ UNCHANGED <<phase, down, reading, scratch, answer, asked, dispatched, ran, taken>>
  BY DEF AskEpoch, server_vars, server, histories
<1>2. Grows
  BY <1>1, StillGrows
<1>3. ClientTypes'
  <2>1. Refresh \in Int
    BY DEF Refresh
  <2>2. client \in Clients
    BY DEF ExchangeInv, ClientTypes
  <2>3. client' \in Clients /\ client'.awaits = Refresh /\ client'.publisher = client.publisher
        /\ client'.worker_boot = client.worker_boot
    BY <1>1, <2>1, <2>2 DEF Clients
  <2>4. asked' = asked
    BY <1>1
  <2> QED BY <2>3, <2>4 DEF ExchangeInv, ClientTypes
<1>4. [id |-> "HELLO", payload |-> <<>>, call |-> NoCall] \in Requests'
  BY DEF Requests, Hello
<1>5. Refresh # Greeting /\ Refresh # NoCall /\ ~(Refresh > 0)
  BY DEF Refresh, Greeting, NoCall
<1>6. WireTypes' /\ SessionsAgree' /\ ConnectionInv'
  BY <1>1, <1>2, <1>3, <1>4, <1>5, SentStep
<1>7. HistoryInv'
  BY <1>1, <1>2, HistoryCarries DEF ExchangeInv
<1> QED BY <1>3, <1>6, <1>7 DEF ExchangeInv

\* The first bytes of a frame reach the client.
LEMMA FirstBytesStep ==
    ASSUME ExchangeInv, FirstBytes
    PROVE  ExchangeInv'
<1>1. /\ client.conn \in Sessions /\ client.awaits # NoCall /\ ~client.failed
      /\ down[client.conn] # <<>>
      /\ client' = [client EXCEPT !.partial = TRUE]
      /\ UNCHANGED <<phase, up, down, reading, scratch, answer, asked, dispatched, ran, taken>>
  BY DEF FirstBytes, Awaiting, Incoming, server_vars, server, wire, histories,
         ExchangeInv, ClientTypes, Clients
<1>2. Grows
  BY <1>1, StillGrows
<1>3. ClientTypes'
  BY <1>1 DEF ExchangeInv, ClientTypes, Clients
<1>4. /\ client'.conn = client.conn /\ client'.awaits = client.awaits /\ client'.partial
      /\ client'.failed = client.failed /\ client'.epoch = client.epoch
  BY <1>1 DEF ExchangeInv, ClientTypes, Clients
<1>5. WireTypes'
  <2>1. /\ up \in [Sessions -> Seq(Requests')] /\ down \in [Sessions -> Seq(Answers')]
        /\ answer \in [Sessions -> Answers' \cup {NoFrame}]
    BY <1>2, Retyped DEF ExchangeInv
  <2> QED BY <1>1, <2>1 DEF ExchangeInv, WireTypes
<1>6. SessionsAgree'
  BY <1>1 DEF ExchangeInv, SessionsAgree
<1>7. ConnectionInv'
  <2> DEFINE x == client.conn
  <2>1. x # NoSessionId
    BY <1>1, ExchangeAssumption
  <2>2. \A y \in Sessions : /\ UnderWay(y)' = UnderWay(y)
                            /\ \A n : Own(y, n)' <=> Own(y, n)
    BY <1>1 DEF UnderWay, Own
  <2>3. \A y \in Sessions : OutOfStep(y)' <=> OutOfStep(y)
    BY <1>1, <1>4 DEF OutOfStep
  <2> QED BY <1>1, <1>4, <2>1, <2>2, <2>3 DEF ExchangeInv, ConnectionInv
<1>8. HistoryInv'
  BY <1>1, <1>2, HistoryCarries DEF ExchangeInv
<1> QED BY <1>3, <1>5, <1>6, <1>7, <1>8 DEF ExchangeInv

\* The client may learn an epoch.
LEMMA Informed ==
    ASSUME NEW c \in Clients, NEW n \in Int, NEW p \in BOOLEAN, NEW e \in Nat, NEW d,
           d = [c EXCEPT !.awaits = n, !.partial = p, !.epoch = e]
    PROVE  d \in Clients
BY DEF Clients

\* The client may find its socket failed.
LEMMA Failing ==
    ASSUME NEW c \in Clients, NEW n \in Int, NEW p \in BOOLEAN, NEW b \in BOOLEAN, NEW d,
           d = [c EXCEPT !.awaits = n, !.partial = p, !.failed = b]
    PROVE  d \in Clients
BY DEF Clients

\* The client may change its connection.
LEMMA Moved ==
    ASSUME NEW c \in Clients, NEW x \in Sessions \cup {NoSessionId}, NEW n \in Int,
           NEW p \in BOOLEAN, NEW b \in BOOLEAN, NEW d,
           d = [c EXCEPT !.conn = x, !.awaits = n, !.partial = p, !.failed = b]
    PROVE  d \in Clients
BY DEF Clients

\* The client may start afresh.
LEMMA Fresh ==
    ASSUME NEW n \in Int, NEW e \in Nat
    PROVE  [conn |-> NoSessionId, awaits |-> n, partial |-> FALSE, failed |-> FALSE,
            epoch |-> e, publisher |-> "", worker_boot |-> ""] \in Clients
BY DEF Clients

\* What is awaited is a number.
LEMMA NumbersOfCalls ==
    NoCall = 0 /\ NoCall \in Int /\ NoCall \in Nat /\ Greeting \in Int /\ Refresh \in Int
BY DEF NoCall, Greeting, Refresh

\* The connection that is used is one of the coordinator's sessions.
LEMMA ConnectionFacts ==
    ASSUME ExchangeInv
    PROVE  /\ client \in Clients /\ client.conn \in Sessions \cup {NoSessionId}
           /\ NoSessionId \notin Sessions
           /\ client.partial => client.conn \in Sessions
           /\ asked \in Seq(Askings)
           /\ client.awaits > 0 => client.awaits \in DOMAIN asked
           /\ NoCall = 0 /\ Greeting = -1 /\ Refresh = -2
<1>1. client \in Clients /\ asked \in Seq(Askings) /\ NoSessionId \notin Sessions
  BY ExchangeAssumption DEF ExchangeInv, ClientTypes
<1>2. NoCall = 0 /\ Greeting = -1 /\ Refresh = -2
  BY DEF NoCall, Greeting, Refresh
<1>3. client.conn \in Sessions \cup {NoSessionId} /\ (client.partial => client.conn \in Sessions)
  BY <1>1 DEF ExchangeInv, ConnectionInv, Clients
<1>4. client.awaits > 0 => client.awaits \in DOMAIN asked
  <2>1. client.awaits \in {-1, -2} \cup 0 .. Len(asked)
    BY <1>2 DEF ExchangeInv, ClientTypes
  <2>2. Len(asked) \in Nat /\ DOMAIN asked = 1 .. Len(asked)
    BY <1>1
  <2> DEFINE k == Len(asked)
             D == DOMAIN asked
  <2>3. client.awaits \in {-1, -2} \cup 0 .. k /\ k \in Nat /\ D = 1 .. k
    BY <2>1, <2>2
  <2> HIDE DEF k, D
  <2>4. client.awaits > 0 => client.awaits \in D
    BY <2>3
  <2> QED BY <2>4 DEF D
<1> QED BY <1>1, <1>2, <1>3, <1>4

\* The frame at the head of the stream is taken, and nothing is awaited any more.
LEMMA TakenStep ==
    ASSUME ExchangeInv, client.partial, down[client.conn][1].id # "rest",
           down' = [down EXCEPT ![client.conn] = Tail(@)],
           client' \in Clients, client'.conn = client.conn, client'.awaits = 0,
           client'.partial = FALSE, client'.failed = client.failed, client'.epoch # 0,
           UNCHANGED <<phase, up, reading, scratch, answer, asked, ran>>
    PROVE  WireTypes' /\ SessionsAgree' /\ ConnectionInv'
<1> DEFINE x == client.conn
<1>1. x \in Sessions /\ x # NoSessionId
  BY ConnectionFacts
<1>2. /\ down[x] # <<>> /\ phase[x] # "unused" /\ ~OutOfStep(x)
      /\ UnderWay(x) <= 1
  BY <1>1 DEF ExchangeInv, ConnectionInv, OutOfStep
<1>3. answer[x] = NoFrame /\ Tail(down[x]) = <<>> /\ (phase[x] = "open" => up[x] = <<>>)
  BY <1>1, <1>2, OnlyOneUnderWay DEF ExchangeInv
<1>4. /\ down \in [Sessions -> Seq(Answers')]
      /\ answer \in [Sessions -> Answers' \cup {NoFrame}]
      /\ up \in [Sessions -> Seq(Requests')]
  BY StillGrows, Retyped DEF ExchangeInv
<1>5. down'[x] = <<>> /\ \A y \in Sessions : y # x => down'[y] = down[y]
  BY <1>1, <1>3, <1>4
<1>6. WireTypes'
  <2>1. <<>> \in Seq(Answers')
    OBVIOUS
  <2>2. down' \in [Sessions -> Seq(Answers')]
    BY <1>1, <1>3, <1>4, <2>1
  <2> QED BY <1>4, <2>2 DEF ExchangeInv, WireTypes
<1>7. SessionsAgree'
  BY <1>1, <1>2, <1>5 DEF ExchangeInv, SessionsAgree
<1>8. UnderWay(x)' = 0
  <2>1. Len(down'[x]) = 0
    BY <1>5
  <2>2. CASE phase[x] = "open"
    <3>1. Len(up[x]) = 0
      BY <1>3, <2>2
    <3>2. UnderWay(x)' = Len(up[x]) + 0 + Len(down'[x])
      BY <1>3, <2>2 DEF UnderWay
    <3> QED BY <2>1, <3>1, <3>2
  <2>3. CASE phase[x] # "open"
    <3>1. UnderWay(x)' = 0 + 0 + Len(down'[x])
      BY <1>3, <2>3 DEF UnderWay
    <3> QED BY <2>1, <3>1
  <2> QED BY <2>2, <2>3
<1>9. ConnectionInv'
  <2>1. client'.conn = x /\ UnderWay(x)' <= 1 /\ NoCall = 0 /\ ~(client'.awaits > 0)
    BY <1>8 DEF NoCall
  <2> QED BY <1>1, <1>2, <1>8, <2>1 DEF ConnectionInv
<1> QED BY <1>6, <1>7, <1>9

\* exchange() takes a response.
LEMMA TakeAnswerStep ==
    ASSUME ExchangeInv, TakeAnswer
    PROVE  ExchangeInv'
<1> DEFINE x == client.conn
           n == client.awaits
           frame == Head(down[x])
<1>1. /\ client.partial /\ n > 0 /\ Responding(frame)
      /\ client' = Remembered(n, frame)
      /\ taken' = [call |-> n, answers |-> frame.call, code |-> frame.code,
                   result |-> ResultOf(n, frame)]
      /\ down' = [down EXCEPT ![x] = Tail(@)]
      /\ UNCHANGED <<phase, up, reading, scratch, answer, asked, dispatched, ran>>
  BY DEF TakeAnswer, Incoming, Responding, server_vars, server, histories
<1>2. x \in Sessions /\ x # NoSessionId /\ n \in DOMAIN asked /\ client \in Clients
      /\ asked \in Seq(Askings)
  BY <1>1, ConnectionFacts
<1>3. down[x] # <<>> /\ down[x] \in Seq(Answers)
  BY <1>1, <1>2 DEF ExchangeInv, ConnectionInv, WireTypes
<1>4. frame \in Answers /\ frame = down[x][1] /\ 1 \in DOMAIN down[x]
  BY <1>3, Shortened
<1>5. frame.id # "rest"
  BY <1>1 DEF Responding
<1>6. frame.call = n
  <2>1. ~OutOfStep(x)
    BY <1>1, <1>2, <1>4, <1>5 DEF ExchangeInv, ConnectionInv, OutOfStep
  <2>2. Own(x, n)
    BY <1>1, <1>2, <2>1 DEF ExchangeInv, ConnectionInv
  <2> QED BY <1>1, <1>4, <2>2 DEF Own
<1>7. frame \in Responses /\ Truthful(frame)
  BY <1>1, <1>4 DEF Answers, HelloAcks, Rest, Responding
<1> DEFINE a == asked[n]
<1>8. a \in Askings
  BY <1>2
<1>9. a.call.op = "register_publisher" =>
          /\ a.fields.publisher \in Publishers /\ a.fields.worker_boot \in Boots
          /\ a.fields.publisher # "" /\ a.fields.worker_boot # ""
  <2> SUFFICES ASSUME a.call.op = "register_publisher"
               PROVE  /\ a.fields.publisher \in Publishers /\ a.fields.worker_boot \in Boots
                      /\ a.fields.publisher # "" /\ a.fields.worker_boot # ""
    OBVIOUS
  <2> HIDE DEF a
  <2>1. ProperCall(a.call)
    BY <1>8, SentFacts
  <2>2. Request(a.call).id = "REGISTER_PUBLISHER"
    BY <2>1, RequestFacts
  <2>3. <<a.fields.publisher, a.fields.worker_boot>> \in Workers
    BY <1>8, <2>2, KindsOfRequests
  <2> QED BY <2>3, ExchangeAssumption DEF Workers
<1>10. /\ client' \in Clients /\ client'.conn = x /\ client'.awaits = 0 /\ client'.partial = FALSE
       /\ client'.failed = client.failed /\ client'.epoch = client.epoch
       /\ client'.publisher = "" <=> client'.worker_boot = ""
  <2>0. client.publisher = "" <=> client.worker_boot = ""
    BY DEF ExchangeInv, ClientTypes
  <2>1. client' = Remembered(n, frame) /\ 0 \in Int /\ NoCall = 0
    BY <1>1 DEF NoCall
  <2>2. CASE a.call.op = "register_publisher" /\ frame.code = "OK"
    <3>1. client' = [client EXCEPT !.awaits = 0, !.partial = FALSE,
                        !.publisher = a.fields.publisher, !.worker_boot = a.fields.worker_boot]
      BY <2>1, <2>2 DEF Remembered
    <3> HIDE DEF a, frame, n
    <3> QED BY <1>2, <1>9, <2>1, <2>2, <3>1 DEF Clients
  <2>3. CASE ~(a.call.op = "register_publisher" /\ frame.code = "OK")
    <3>1. client' = [client EXCEPT !.awaits = 0, !.partial = FALSE]
      BY <2>1, <2>3 DEF Remembered
    <3> HIDE DEF a, frame, n
    <3> QED BY <1>2, <2>0, <2>1, <3>1 DEF Clients
  <2> QED BY <2>2, <2>3
<1>11. client.epoch # 0
  BY <1>1, <1>2 DEF ExchangeInv, ConnectionInv, Greeting
<1>12. ClientTypes'
  <2>1. 0 \in 0 .. Len(asked')
    BY <1>1, <1>2
  <2> QED BY <1>1, <1>2, <1>10, <2>1 DEF ClientTypes
<1>13. WireTypes' /\ SessionsAgree' /\ ConnectionInv'
  BY <1>1, <1>4, <1>5, <1>10, <1>11, TakenStep
<1>14. HistoryInv'
  <2>0. asked' = asked /\ ran' = ran /\ dispatched' = dispatched
    BY <1>1
  <2>1. frame.code = "OK" => /\ ResultOf(n, frame) \in {NoCall, n}
                             /\ "attempt" \in DOMAIN a.fields => Done(n)
    BY <1>6, <1>7 DEF Truthful
  <2>2. frame.code # "OK" => ResultOf(n, frame) = NoCall
    BY DEF ResultOf
  <2>3. /\ taken'.call = n /\ taken'.answers = n /\ taken'.code = frame.code
        /\ taken'.result = ResultOf(n, frame)
    BY <1>1, <1>6
  <2>4. AnswersAreOwn'
    BY <2>1, <2>2, <2>3 DEF AnswersAreOwn
  <2>5. DispatchedAsAsked'
    BY <2>0 DEF ExchangeInv, HistoryInv, DispatchedAsAsked
  <2>6. (taken.code = "OK" =>
             /\ taken.call \in DOMAIN asked
             /\ "attempt" \in DOMAIN asked[taken.call].fields => Done(taken.call))'
    <3>1. PICK k \in DOMAIN asked : k = n
      BY <1>2
    <3>2. taken'.call = k /\ asked' = asked /\ (taken'.code = "OK" <=> frame.code = "OK")
      BY <2>0, <2>3, <3>1
    <3>3. frame.code = "OK" /\ "attempt" \in DOMAIN asked[k].fields => Done(k)
      BY <2>1, <3>1
    <3>4. Done(k) => Done(k)'
      BY <2>0, StillGrows, DoneRemains
    <3>5. Done(k)' => Done(taken.call)'
      BY <3>2 DEF Done
    <3> QED BY <3>2, <3>3, <3>4, <3>5
  <2> QED BY <1>2, <2>0, <2>3, <2>4, <2>5, <2>6 DEF ExchangeInv, HistoryInv
<1> QED BY <1>12, <1>13, <1>14 DEF ExchangeInv

\* read_hello_ack() takes an epoch.
LEMMA TakeEpochStep ==
    ASSUME ExchangeInv, TakeEpoch
    PROVE  ExchangeInv'
<1> DEFINE x == client.conn
           frame == Head(down[x])
<1>1. /\ client.partial /\ frame.id = "HELLO_ACK"
      /\ client' = [client EXCEPT !.awaits = NoCall, !.partial = FALSE, !.epoch = frame.epoch]
      /\ down' = [down EXCEPT ![x] = Tail(@)]
      /\ UNCHANGED <<phase, up, reading, scratch, answer, asked, dispatched, ran, taken>>
  BY DEF TakeEpoch, Incoming, server_vars, server, histories
<1>2. x \in Sessions /\ x # NoSessionId /\ client \in Clients /\ asked \in Seq(Askings)
  BY <1>1, ConnectionFacts
<1>3. down[x] # <<>> /\ down[x] \in Seq(Answers)
  BY <1>1, <1>2 DEF ExchangeInv, ConnectionInv, WireTypes
<1>4. frame \in Answers /\ frame = down[x][1]
  BY <1>3, Shortened
<1>5. frame.id # "rest" /\ frame \in HelloAcks
  BY <1>1, <1>4 DEF Answers, Responses, Rest
<1> HIDE DEF frame
<1>6. frame.epoch \in Nat /\ frame.epoch # 0
  BY <1>5 DEF HelloAcks
<1>7. /\ client' \in Clients /\ client'.conn = x /\ client'.awaits = 0 /\ client'.partial = FALSE
      /\ client'.failed = client.failed /\ client'.epoch = frame.epoch
      /\ client'.publisher = client.publisher /\ client'.worker_boot = client.worker_boot
  <2>1. client' \in Clients
    BY <1>1, <1>2, <1>6, NumbersOfCalls, Informed
  <2> QED BY <1>1, <1>2, <2>1, NumbersOfCalls DEF Clients
<1>8. ClientTypes'
  <2>1. 0 \in 0 .. Len(asked')
    BY <1>1, <1>2
  <2>2. client.publisher = "" <=> client.worker_boot = ""
    BY DEF ExchangeInv, ClientTypes
  <2> QED BY <1>1, <1>2, <1>7, <2>1, <2>2 DEF ClientTypes
<1>9. WireTypes' /\ SessionsAgree' /\ ConnectionInv'
  BY <1>1, <1>4, <1>5, <1>6, <1>7, TakenStep
<1>10. HistoryInv'
  BY <1>1, StillGrows, HistoryCarries DEF ExchangeInv
<1> QED BY <1>8, <1>9, <1>10 DEF ExchangeInv

\* The client closes its socket, or another one takes its place.
LEMMA DisconnectStep ==
    ASSUME ExchangeInv, client.conn # NoSessionId, Disconnect({Unconnected(client), NewClient})
    PROVE  ExchangeInv'
<1> DEFINE x == client.conn
<1>1. /\ client' = Unconnected(client) \/ client' = NewClient
      /\ down' = [down EXCEPT ![x] = <<>>]
      /\ UNCHANGED <<phase, up, reading, scratch, answer, asked, dispatched, ran, taken>>
  BY DEF Disconnect, server_vars, server, histories
<1>2. x \in Sessions /\ client \in Clients /\ asked \in Seq(Askings) /\ NoSessionId \notin Sessions
  BY ConnectionFacts
<1>3. /\ client' \in Clients /\ client'.conn = NoSessionId /\ client'.awaits = 0
      /\ ~client'.partial /\ ~client'.failed
      /\ client'.publisher = "" <=> client'.worker_boot = ""
  <2>1. client.publisher = "" <=> client.worker_boot = ""
    BY DEF ExchangeInv, ClientTypes
  <2>2. CASE client' = Unconnected(client)
    <3>1. client' = [client EXCEPT !.conn = NoSessionId, !.awaits = NoCall,
                                   !.partial = FALSE, !.failed = FALSE]
      BY <2>2 DEF Unconnected
    <3>2. client' \in Clients
      BY <1>2, <3>1, NumbersOfCalls, Moved
    <3> QED BY <1>2, <2>1, <3>1, <3>2, NumbersOfCalls DEF Clients
  <2>3. CASE client' = NewClient
    <3>1. NewClient \in Clients
      <4>1. 0 \in Nat
        OBVIOUS
      <4> QED BY <4>1, NumbersOfCalls, Fresh DEF NewClient
    <3> QED BY <2>3, <3>1, NumbersOfCalls DEF NewClient
  <2> QED BY <1>1, <2>2, <2>3
<1>4. ClientTypes'
  <2>1. 0 \in 0 .. Len(asked')
    BY <1>1, <1>2
  <2> QED BY <1>1, <1>2, <1>3, <2>1 DEF ClientTypes
<1>5. /\ down \in [Sessions -> Seq(Answers')]
      /\ answer \in [Sessions -> Answers' \cup {NoFrame}]
      /\ up \in [Sessions -> Seq(Requests')]
  BY <1>1, StillGrows, Retyped DEF ExchangeInv
<1>6. WireTypes'
  <2>1. <<>> \in Seq(Answers')
    OBVIOUS
  <2>2. down' \in [Sessions -> Seq(Answers')]
    BY <1>1, <1>2, <1>5, <2>1
  <2> QED BY <1>1, <1>5, <2>2 DEF ExchangeInv, WireTypes
<1>7. SessionsAgree'
  <2>1. \A y \in Sessions : down'[y] = down[y] \/ down'[y] = <<>>
    BY <1>1, <1>2, <1>5
  <2> QED BY <1>1, <2>1 DEF ExchangeInv, SessionsAgree
<1>8. ConnectionInv'
  BY <1>2, <1>3 DEF ConnectionInv, NoCall
<1>9. HistoryInv'
  BY <1>1, StillGrows, HistoryCarries DEF ExchangeInv
<1> QED BY <1>4, <1>6, <1>7, <1>8, <1>9 DEF ExchangeInv

\* A refresh fails, and its connection stays open.
LEMMA GiveUpRefreshStep ==
    ASSUME ExchangeInv, GiveUpRefresh
    PROVE  ExchangeInv'
<1> DEFINE x == client.conn
<1>1. /\ x # NoSessionId /\ client.awaits = Refresh
      /\ client' = [client EXCEPT !.awaits = NoCall, !.partial = FALSE, !.failed = ~client.partial]
      /\ down' = IF client.partial THEN [down EXCEPT ![x] = <<Rest>> \o Tail(@)] ELSE down
      /\ UNCHANGED <<phase, up, reading, scratch, answer, asked, dispatched, ran, taken>>
  BY DEF GiveUpRefresh, Awaiting, Rest, server_vars, server, histories
<1>2. /\ x \in Sessions /\ client \in Clients /\ asked \in Seq(Askings)
      /\ NoSessionId \notin Sessions
      /\ NoCall = 0 /\ Greeting = -1 /\ Refresh = -2
  BY <1>1, ConnectionFacts
<1>3. /\ client' \in Clients /\ client'.conn = x /\ client'.awaits = 0 /\ client'.partial = FALSE
      /\ client'.failed = ~client.partial /\ client'.epoch = client.epoch
      /\ client'.publisher = client.publisher /\ client'.worker_boot = client.worker_boot
  <2>1. client.partial \in BOOLEAN
    BY <1>2 DEF Clients
  <2> DEFINE b == ~client.partial
  <2>2. b \in BOOLEAN
        /\ client' = [client EXCEPT !.awaits = NoCall, !.partial = FALSE, !.failed = b]
    BY <1>1
  <2> HIDE DEF b
  <2>3. client' \in Clients
    BY <1>2, <2>2, NumbersOfCalls, Failing
  <2>4. /\ client'.conn = x /\ client'.awaits = 0 /\ client'.partial = FALSE
        /\ client'.failed = b /\ client'.epoch = client.epoch
        /\ client'.publisher = client.publisher /\ client'.worker_boot = client.worker_boot
    BY <1>2, <2>2, NumbersOfCalls DEF Clients
  <2> QED BY <2>3, <2>4 DEF b
<1>4. ClientTypes'
  <2>1. 0 \in 0 .. Len(asked')
    BY <1>1, <1>2
  <2>2. client.publisher = "" <=> client.worker_boot = ""
    BY DEF ExchangeInv, ClientTypes
  <2> QED BY <1>1, <1>2, <1>3, <2>1, <2>2 DEF ClientTypes
<1>5. /\ down \in [Sessions -> Seq(Answers')]
      /\ answer \in [Sessions -> Answers' \cup {NoFrame}]
      /\ up \in [Sessions -> Seq(Requests')]
  BY <1>1, StillGrows, Retyped DEF ExchangeInv
<1>6. phase[x] # "unused" /\ client.epoch # 0 /\ (client.partial => down[x] # <<>>)
  BY <1>1, <1>2 DEF ExchangeInv, ConnectionInv
<1>7. client.partial => /\ <<Rest>> \o Tail(down[x]) \in Seq(Answers')
                        /\ <<Rest>> \o Tail(down[x]) # <<>>
                        /\ (<<Rest>> \o Tail(down[x]))[1] = Rest
  <2> SUFFICES ASSUME client.partial
               PROVE  /\ <<Rest>> \o Tail(down[x]) \in Seq(Answers')
                      /\ <<Rest>> \o Tail(down[x]) # <<>>
                      /\ (<<Rest>> \o Tail(down[x]))[1] = Rest
    OBVIOUS
  <2>1. Tail(down[x]) \in Seq(Answers')
    BY <1>2, <1>5, <1>6, Shortened
  <2>2. Rest \in Answers'
    BY DEF Answers
  <2> DEFINE A == Answers'
             t == Tail(down[x])
  <2>3. t \in Seq(A) /\ Rest \in A
    BY <2>1, <2>2
  <2> HIDE DEF A, t, Rest
  <2>4. <<Rest>> \o t \in Seq(A) /\ <<Rest>> \o t # <<>> /\ (<<Rest>> \o t)[1] = Rest
    BY <2>3
  <2> QED BY <2>4 DEF A, t
<1>8. \A y \in Sessions : y # x => down'[y] = down[y]
  BY <1>1, <1>2, <1>5
<1>9. WireTypes'
  <2>1. down' \in [Sessions -> Seq(Answers')]
    BY <1>1, <1>2, <1>5, <1>7
  <2> QED BY <1>1, <1>5, <2>1 DEF ExchangeInv, WireTypes
<1>10. SessionsAgree'
  BY <1>1, <1>2, <1>6, <1>8 DEF ExchangeInv, SessionsAgree
<1>11. OutOfStep(x)'
  <2>1. CASE client.partial
    <3>1. down'[x] = <<Rest>> \o Tail(down[x])
      BY <1>1, <1>2, <1>5, <2>1
    <3>2. Rest.id = "rest"
      BY DEF Rest
    <3>3. client'.conn = x
      BY <1>3
    <3>4. down'[x] # <<>> /\ down'[x][1].id = "rest"
      <4> HIDE DEF Rest
      <4> QED BY <1>7, <2>1, <3>1, <3>2
    <3> QED BY <3>3, <3>4 DEF OutOfStep
  <2>2. CASE ~client.partial
    BY <1>3, <2>2 DEF OutOfStep
  <2> QED BY <2>1, <2>2
<1>12. ConnectionInv'
  BY <1>1, <1>2, <1>3, <1>6, <1>11 DEF ConnectionInv
<1>13. HistoryInv'
  BY <1>1, StillGrows, HistoryCarries DEF ExchangeInv
<1> QED BY <1>4, <1>9, <1>10, <1>12, <1>13 DEF ExchangeInv

\* A session of the coordinator is opened, and greets.
LEMMA ConnectStep ==
    ASSUME ExchangeInv, SessionTypes, epoch \in Nat \ {0}, NEW x \in Sessions, Connect(x)
    PROVE  ExchangeInv'
<1>1. /\ client.conn = NoSessionId /\ phase[x] = "unused" /\ phase' = [phase EXCEPT ![x] = "open"]
      /\ client' = [client EXCEPT !.conn = x, !.awaits = Greeting]
      /\ answer' = [answer EXCEPT ![x] = HelloAck]
      /\ UNCHANGED <<down, up, reading, scratch, asked, dispatched, ran, taken>>
  BY DEF Connect, Accept, histories
<1>2. /\ client \in Clients /\ asked \in Seq(Askings) /\ NoSessionId \notin Sessions
      /\ NoCall = 0 /\ Greeting = -1
  BY ConnectionFacts
<1>3. /\ client' \in Clients /\ client'.conn = x /\ client'.awaits = Greeting
      /\ client'.partial = client.partial /\ client'.failed = client.failed
      /\ client'.publisher = client.publisher /\ client'.worker_boot = client.worker_boot
  <2>1. client' \in Clients
    <3> DEFINE g == Greeting
    <3>1. g \in Int /\ client' = [client EXCEPT !.conn = x, !.awaits = g]
      BY <1>1, NumbersOfCalls
    <3> HIDE DEF g
    <3> QED BY <1>2, <3>1 DEF Clients
  <2>2. /\ client'.conn = x /\ client'.awaits = Greeting
        /\ client'.partial = client.partial /\ client'.failed = client.failed
        /\ client'.publisher = client.publisher /\ client'.worker_boot = client.worker_boot
    BY <1>1, <1>2 DEF Clients
  <2> QED BY <2>1, <2>2
<1>4. ClientTypes'
  <2>1. client.publisher = "" <=> client.worker_boot = ""
    BY DEF ExchangeInv, ClientTypes
  <2> QED BY <1>1, <1>2, <1>3, <2>1 DEF ClientTypes
<1>5. /\ down \in [Sessions -> Seq(Answers')]
      /\ answer \in [Sessions -> Answers' \cup {NoFrame}]
      /\ up \in [Sessions -> Seq(Requests')]
      /\ phase \in [Sessions -> Phases]
  BY <1>1, StillGrows, Retyped DEF ExchangeInv, SessionTypes
<1>6. up[x] = <<>> /\ down[x] = <<>> /\ reading[x] = "nothing" /\ ~client.partial /\ ~client.failed
  BY <1>1 DEF ExchangeInv, SessionsAgree, ConnectionInv
<1>7. HelloAck \in Answers'
  BY DEF HelloAck, Answers, HelloAcks
<1>8. WireTypes'
  <2> HIDE DEF Answers
  <2>1. answer' \in [Sessions -> Answers' \cup {NoFrame}]
    BY <1>1, <1>5, <1>7
  <2> QED BY <1>1, <1>5, <2>1 DEF ExchangeInv, WireTypes
<1>9. /\ phase'[x] = "open"
      /\ \A y \in Sessions : y # x => phase'[y] = phase[y] /\ answer'[y] = answer[y]
  BY <1>1, <1>5
<1>10. SessionsAgree'
  BY <1>1, <1>6, <1>9 DEF ExchangeInv, SessionsAgree
<1>11. UnderWay(x)' <= 1
  <2> DEFINE b == IF answer'[x] = NoFrame THEN 0 ELSE 1
  <2>1. Len(up[x]) = 0 /\ Len(down[x]) = 0
    BY <1>6
  <2>2. UnderWay(x)' = Len(up[x]) + b + Len(down[x])
    BY <1>1, <1>9 DEF UnderWay
  <2>3. b \in {0, 1}
    OBVIOUS
  <2> HIDE DEF b
  <2> QED BY <2>1, <2>2, <2>3
<1>12. ConnectionInv'
  BY <1>2, <1>3, <1>6, <1>9, <1>11 DEF ConnectionInv
<1>13. HistoryInv'
  BY <1>1, StillGrows, HistoryCarries DEF ExchangeInv
<1> QED BY <1>4, <1>8, <1>10, <1>12, <1>13 DEF ExchangeInv

\* The connection breaks.
LEMMA BreakStep ==
    ASSUME ExchangeInv, NEW x \in Sessions, Break(x)
    PROVE  ExchangeInv'
<1>1. UNCHANGED <<phase, up, down, reading, scratch, answer, client, asked, dispatched, ran, taken>>
  BY DEF Break, server_vars, server, wire, histories
<1>2. WireTypes' /\ SessionsAgree' /\ ConnectionInv'
  BY <1>1, StillGrows, QuietStep
<1>3. HistoryInv'
  BY <1>1, StillGrows, HistoryCarries DEF ExchangeInv
<1>4. ClientTypes'
  BY <1>1 DEF ExchangeInv, ClientTypes
<1> QED BY <1>2, <1>3, <1>4 DEF ExchangeInv

\* Every step of the client.
LEMMA ClientStep ==
    ASSUME ExchangeInv, ClientNext
    PROVE  ExchangeInv'
<1>1. CASE GiveUp
  <2>1. client.conn # NoSessionId /\ Disconnect({Unconnected(client), NewClient})
    BY <1>1 DEF GiveUp, Awaiting, Disconnect
  <2> QED BY <2>1, DisconnectStep
<1>2. CASE CloseClient
  BY <1>2, DisconnectStep DEF CloseClient
<1> QED BY <1>1, <1>2, AskStep, AskEpochStep, FirstBytesStep, TakeAnswerStep, TakeEpochStep,
           GiveUpRefreshStep DEF ClientNext

-----------------------------------------------------------------------------
(***************************************************************************)
(* The steps of a session, with what they do to the histories.             *)
(***************************************************************************)

\* Steps of a session that concern no call.
LEMMA QuietSessions ==
    ASSUME ExchangeInv, NEW x \in Sessions, Arrives(x) \/ BindWorker(x)
    PROVE  ExchangeInv'
<1>1. /\ UNCHANGED <<phase, up, down, scratch, answer, client, asked, dispatched, ran, taken>>
      /\ \/ UNCHANGED reading
         \/ \E part \in {"header_part", "header", "payload_part", "frame"} :
                Reading(x) /\ up[x] # <<>> /\ reading' = [reading EXCEPT ![x] = part]
  BY DEF Arrives, BindWorker, Bind, server_vars, server, wire, histories
<1>2. WireTypes' /\ SessionsAgree' /\ ConnectionInv'
  BY <1>1, StillGrows, QuietStep
<1>3. HistoryInv'
  BY <1>1, StillGrows, HistoryCarries DEF ExchangeInv
<1>4. ClientTypes'
  BY <1>1 DEF ExchangeInv, ClientTypes
<1> QED BY <1>2, <1>3, <1>4 DEF ExchangeInv

\* A session sends its response, cannot, or ends.
LEMMA LateSteps ==
    ASSUME ExchangeInv, SessionTypes, NEW x \in Sessions, Send(x) \/ SendFails(x) \/ EndOfSession(x)
    PROVE  ExchangeInv'
<1>1. UNCHANGED <<asked, dispatched, ran, taken>>
  BY DEF Send, SendFails, EndOfSession, histories
<1>2. HistoryInv'
  BY <1>1, StillGrows, HistoryCarries DEF ExchangeInv
<1> QED BY <1>2, SendStep, SendFailsStep, EndOfSessionStep DEF ExchangeInv

\* The frame that a session has received.
LEMMA ReceivedFrame ==
    ASSUME ExchangeInv, NEW x \in Sessions, Reading(x), reading[x] # "nothing"
    PROVE  /\ up[x] # <<>> /\ Head(up[x]) = up[x][1] /\ Head(up[x]) \in Requests
           /\ Head(up[x]).call \in Nat
           /\ Head(up[x]).id # "HELLO" =>
                  \E n \in DOMAIN asked :
                      asked[n] \in Askings /\ Head(up[x]) = Posted(asked[n], n)
                                          /\ Head(up[x]).call = n
                                          /\ Head(up[x]).id = Request(asked[n].call).id
                                          /\ Decoded(Head(up[x]).id, Head(up[x]).payload)
                                                 = Received(asked[n])
<1>1. up[x] # <<>> /\ up[x] \in Seq(Requests)
  BY DEF ExchangeInv, SessionsAgree, WireTypes
<1> DEFINE f == Head(up[x])
<1>2. f = up[x][1] /\ f \in Requests
  BY <1>1, Shortened
<1>3. /\ f.call \in Nat
      /\ f.id = "HELLO" \/ (f.call \in DOMAIN asked /\ f = Posted(asked[f.call], f.call))
  BY <1>2, RequestsHaveCalls DEF ExchangeInv
<1> HIDE DEF f
<1>4. f.id # "HELLO" =>
          \E n \in DOMAIN asked : /\ asked[n] \in Askings /\ f = Posted(asked[n], n) /\ f.call = n
                                  /\ f.id = Request(asked[n].call).id
                                  /\ Decoded(f.id, f.payload) = Received(asked[n])
  <2> SUFFICES ASSUME f.id # "HELLO"
               PROVE  \E n \in DOMAIN asked :
                          /\ asked[n] \in Askings /\ f = Posted(asked[n], n) /\ f.call = n
                          /\ f.id = Request(asked[n].call).id
                          /\ Decoded(f.id, f.payload) = Received(asked[n])
    OBVIOUS
  <2> DEFINE n == f.call
             a == asked[n]
  <2>1. n \in DOMAIN asked /\ f = Posted(a, n)
    BY <1>3
  <2>2. a \in Askings
    <3>1. asked \in Seq(Askings)
      BY DEF ExchangeInv, ClientTypes
    <3> QED BY <2>1, <3>1
  <2> HIDE DEF a
  <2>3. f.id = Request(a.call).id /\ f.payload = Encoded(f.id, Filled(NewRequest, a.fields))
    BY <2>1 DEF Posted
  <2>4. Decoded(f.id, f.payload) = Received(a)
    BY <2>3 DEF Received
  <2> QED BY <2>1, <2>2, <2>3, <2>4 DEF a
<1> QED BY <1>1, <1>2, <1>3, <1>4 DEF f

\* A session gives up waiting for a frame.
LEMMA GivenUpStep ==
    ASSUME ExchangeInv, SessionTypes, NEW x \in Sessions, BudgetExpires(x) \/ ReceiveFails(x)
    PROVE  ExchangeInv'
<1>1. UNCHANGED <<asked, dispatched, ran, taken, up, scratch, answer, client>>
  BY DEF BudgetExpires, ReceiveFails, Abandon, histories
<1>2. HistoryInv'
  BY <1>1, StillGrows, HistoryCarries DEF ExchangeInv
<1>3. CASE BudgetExpires(x)
  <2>1. Reading(x) /\ reading[x] # "nothing"
    BY <1>3 DEF BudgetExpires
  <2> DEFINE n == Head(up[x]).call
             frames == ErrorFrames(x, n, "SESSION_TIMEOUT")
  <2>2. up[x] # <<>> /\ n = up[x][1].call /\ n \in Nat
    BY <2>1, ReceivedFrame
  <2>3. /\ phase' = [phase EXCEPT ![x] = "ending"]
        /\ reading' = [reading EXCEPT ![x] = "nothing"]
        /\ down' = [down EXCEPT ![x] = @ \o frames]
    BY <1>3 DEF BudgetExpires, Abandon, Leave
  <2>4. frames = <<>> \/ \E f \in Answers : frames = <<f>> /\ f.id = "ERROR" /\ f.call = n
    BY <2>2, ErrorsAreTruthful DEF ExchangeInv
  <2> HIDE DEF frames, n
  <2>5. ClientTypes' /\ WireTypes' /\ SessionsAgree' /\ ConnectionInv'
    BY <1>1, <2>1, <2>2, <2>3, <2>4, AbandonStep
  <2> QED BY <1>2, <2>5 DEF ExchangeInv
<1>4. CASE ReceiveFails(x)
  <2>1. /\ Reading(x)
        /\ phase' = [phase EXCEPT ![x] = "ending"]
        /\ reading' = [reading EXCEPT ![x] = "nothing"]
        /\ down' = [down EXCEPT ![x] = @ \o <<>>]
    BY <1>4 DEF ReceiveFails, Abandon, Leave
  <2>2. ClientTypes' /\ WireTypes' /\ SessionsAgree' /\ ConnectionInv'
    BY <1>1, <2>1, AbandonStep
  <2> QED BY <1>2, <2>2 DEF ExchangeInv
<1> QED BY <1>3, <1>4

\* A call has been dispatched.
LEMMA HistoryOfDispatch ==
    ASSUME HistoryInv, Grows, UNCHANGED <<asked, taken>>, dispatched'.call \in DOMAIN asked,
           DispatchedAsAsked'
    PROVE  HistoryInv'
<1>1. AnswersAreOwn'
  BY DEF HistoryInv, AnswersAreOwn
<1>2. (taken.code = "OK" =>
           /\ taken.call \in DOMAIN asked
           /\ "attempt" \in DOMAIN asked[taken.call].fields => Done(taken.call))'
  BY TakenRemains
<1> QED BY <1>1, <1>2 DEF HistoryInv

\* A session rejects a request that cannot be decoded.
LEMMA RejectStep ==
    ASSUME ExchangeInv, SessionTypes, NEW x \in Sessions, RejectFrame(x)
    PROVE  ExchangeInv'
<1> DEFINE f == Head(up[x])
           frames == ErrorFrames(x, f.call, "MALFORMED_REQUEST")
<1>1. /\ Reading(x) /\ reading[x] # "nothing" /\ f.id # "HELLO"
      /\ Decoded(f.id, f.payload) = Malformed
      /\ dispatched' = Outcome(f.call, x, Malformed, Malformed)
      /\ down' = [down EXCEPT ![x] = @ \o frames]
      /\ phase' = [phase EXCEPT ![x] = "ending"]
      /\ up' = [up EXCEPT ![x] = Tail(@)]
      /\ reading' = [reading EXCEPT ![x] = "nothing"]
      /\ UNCHANGED <<scratch, answer, client, asked, ran, taken>>
  BY DEF RejectFrame, Complete, Leave, Consumed
<1>2. up[x] # <<>> /\ f = up[x][1] /\ f.call \in Nat
  BY <1>1, ReceivedFrame
<1>3. PICK n \in DOMAIN asked : asked[n] \in Askings /\ f.call = n
                                /\ Decoded(f.id, f.payload) = Received(asked[n])
  BY <1>1, ReceivedFrame
<1>4. frames = <<>> \/ \E e \in Answers : frames = <<e>> /\ e.id = "ERROR" /\ e.call = f.call
  BY <1>2, ErrorsAreTruthful DEF ExchangeInv
<1>5. ClientTypes' /\ WireTypes' /\ SessionsAgree' /\ ConnectionInv'
  <2> HIDE DEF frames
  <2> QED BY <1>1, <1>2, <1>4, AbandonStep
<1>6. Refused(asked[n])
  BY <1>1, <1>3, RoundTrip
<1>7. dispatched'.call = n /\ dispatched'.as = Malformed
  BY <1>1, <1>3 DEF Outcome
<1>8. DispatchedAsAsked'
  BY <1>1, <1>6, <1>7 DEF DispatchedAsAsked, Refused
<1>9. HistoryInv'
  BY <1>1, <1>7, <1>8, StillGrows, HistoryOfDispatch DEF ExchangeInv
<1> QED BY <1>5, <1>9 DEF ExchangeInv

\* A session answers HELLO with its epoch.
LEMMA AnswerHelloStep ==
    ASSUME ExchangeInv, SessionTypes, epoch \in Nat \ {0}, NEW x \in Sessions, AnswerHello(x)
    PROVE  ExchangeInv'
<1>1. /\ Reading(x) /\ reading[x] # "nothing" /\ Consumed(x)
      /\ answer' = [answer EXCEPT ![x] = HelloAck]
      /\ UNCHANGED <<phase, down, scratch, client, asked, dispatched, ran, taken>>
  BY DEF AnswerHello, Complete, server_vars, server, histories
<1>2. up[x] # <<>>
  BY <1>1, ReceivedFrame
<1>3. HelloAck \in Answers' /\ ~Responding(HelloAck)
  BY DEF HelloAck, Answers, HelloAcks, Responding
<1>4. ClientTypes'
  BY <1>1 DEF ExchangeInv, ClientTypes
<1>5. ran' \in Seq(Runs) /\ scratch' \in [Sessions -> ResultSets]
  BY <1>1 DEF ExchangeInv, WireTypes
<1>6. WireTypes' /\ SessionsAgree' /\ ConnectionInv'
  <2> DEFINE h == HelloAck
  <2>1. h \in Answers' /\ ~Responding(h) /\ answer' = [answer EXCEPT ![x] = h]
    BY <1>1, <1>3
  <2> HIDE DEF h
  <2> QED BY <1>1, <1>2, <1>4, <1>5, <2>1, StillGrows, ConsumeStep
<1>7. HistoryInv'
  BY <1>1, StillGrows, HistoryCarries DEF ExchangeInv
<1> QED BY <1>4, <1>6, <1>7 DEF ExchangeInv

\* What a session dispatches is what was asked.
LEMMA DispatchedCall ==
    ASSUME ExchangeInv, NEW x \in Sessions, DispatchFrame(x)
    PROVE  \E n \in DOMAIN asked :
               LET a == asked[n]
                   r == Received(a)
               IN  /\ a \in Askings /\ n \in Nat
                   /\ up[x] # <<>> /\ up[x][1].call = n
                   /\ Reading(x) /\ Consumed(x)
                   /\ UNCHANGED <<down, lost, client, asked, taken>>
                   /\ dispatched' = Outcome(n, x, a.call, r)
                   /\ \A f \in DOMAIN a.fields : r[f] = a.fields[f]
                   /\ \/ /\ Request(a.call).id = "REGISTER_PUBLISHER"
                         /\ DispatchRegister(x, n, r)
                      \/ /\ Request(a.call).id \in Queries
                         /\ DispatchQueryOf(x, n, a.call)
                      \/ /\ Request(a.call).id = "EPOCH_ADVANCE"
                         /\ DispatchEpochAdvance(x, n, r, a.call)
                      \/ /\ Request(a.call).id \notin
                            Queries \cup {"REGISTER_PUBLISHER", "EPOCH_ADVANCE"}
                         /\ DispatchMutation(x, n, r, a.call)
<1> DEFINE f == Head(up[x])
           request == Decoded(f.id, f.payload)
           call == Dispatched(f.id, request)
<1>1. /\ Reading(x) /\ reading[x] # "nothing" /\ f.id # "HELLO" /\ Consumed(x)
      /\ UNCHANGED <<down, lost, client, asked, taken>>
      /\ request # Malformed
      /\ dispatched' = Outcome(f.call, x, call, request)
      /\ CASE f.id = "REGISTER_PUBLISHER" -> DispatchRegister(x, f.call, request)
           [] f.id \in Queries -> DispatchQueryOf(x, f.call, call)
           [] f.id = "EPOCH_ADVANCE" -> DispatchEpochAdvance(x, f.call, request, call)
           [] OTHER -> DispatchMutation(x, f.call, request, call)
  BY DEF DispatchFrame, Complete
<1>2. up[x] # <<>> /\ f = up[x][1] /\ f.call \in Nat
  BY <1>1, ReceivedFrame
<1>3. PICK n \in DOMAIN asked : /\ asked[n] \in Askings /\ f.call = n
                                /\ f.id = Request(asked[n].call).id
                                /\ request = Received(asked[n])
  BY <1>1, ReceivedFrame
<1> DEFINE a == asked[n]
           r == Received(a)
<1>4. ~Refused(a)
  BY <1>1, <1>3, RefusedIsMalformed
<1>5. call = a.call /\ \A g \in DOMAIN a.fields : r[g] = a.fields[g]
  BY <1>3, <1>4, RoundTrip
<1> HIDE DEF call, request
<1>6. \/ f.id = "REGISTER_PUBLISHER" /\ DispatchRegister(x, n, r)
      \/ f.id \in Queries /\ DispatchQueryOf(x, n, a.call)
      \/ f.id = "EPOCH_ADVANCE" /\ DispatchEpochAdvance(x, n, r, a.call)
      \/ f.id \notin Queries \cup {"REGISTER_PUBLISHER", "EPOCH_ADVANCE"}
             /\ DispatchMutation(x, n, r, a.call)
  <2>1. CASE f.id = "REGISTER_PUBLISHER"
    BY <1>1, <1>3, <2>1 DEF Queries
  <2>2. CASE f.id \in Queries
    BY <1>1, <1>3, <1>5, <2>2 DEF Queries
  <2>3. CASE f.id = "EPOCH_ADVANCE"
    BY <1>1, <1>3, <1>5, <2>3 DEF Queries
  <2>4. CASE f.id \notin Queries \cup {"REGISTER_PUBLISHER", "EPOCH_ADVANCE"}
    BY <1>1, <1>3, <1>5, <2>4 DEF Queries
  <2> QED BY <2>1, <2>2, <2>3, <2>4
<1> DEFINE c == a.call
<1>7. dispatched' = Outcome(n, x, c, r)
  BY <1>1, <1>3, <1>5
<1> HIDE DEF r, f
<1> QED BY <1>1, <1>2, <1>3, <1>5, <1>6, <1>7 DEF r

\* The response of a session to the frame it has received.
LEMMA RespondStep ==
    ASSUME ExchangeInv, SessionTypes, NEW x \in Sessions, Reading(x), Consumed(x), up[x] # <<>>,
           NEW n \in Nat, up[x][1].call = n,
           Grows, ran' \in Seq(Runs), NEW code \in Codes, NEW results \in ResultSets,
           Respond(x, n, code, results),
           code = "OK" => Truthful([id |-> "RESULT", call |-> n, code |-> code,
                                    results |-> results])',
           UNCHANGED <<phase, down, client, asked>>
    PROVE  ClientTypes' /\ WireTypes' /\ SessionsAgree' /\ ConnectionInv'
<1> DEFINE f == [id |-> "RESULT", call |-> n, code |-> code, results |-> results]
<1>1. /\ scratch' = [scratch EXCEPT ![x] = results]
      /\ answer' = [answer EXCEPT ![x] = f]
  BY DEF Respond
<1>2. f \in Responses
  BY DEF Responses
<1>3. f.call = n /\ f.code = code
  OBVIOUS
<1>4. code = "OK" => Truthful(f)'
  OBVIOUS
<1> HIDE DEF f
<1>5. f \in Answers'
  <2>1. code # "OK" => Truthful(f)'
    BY <1>3 DEF Truthful
  <2> QED BY <1>2, <1>4, <2>1 DEF Answers
<1>6. ClientTypes'
  BY DEF ExchangeInv, ClientTypes
<1>7. scratch' \in [Sessions -> ResultSets]
  BY <1>1 DEF ExchangeInv, WireTypes
<1> QED BY <1>1, <1>3, <1>5, <1>6, <1>7, ConsumeStep

\* A call has been dispatched, and nothing it was asked with was lost.
LEMMA HistoryOfAnswer ==
    ASSUME HistoryInv, Grows, UNCHANGED <<asked, taken>>, NEW x \in Sessions,
           NEW n \in DOMAIN asked,
           dispatched' = Outcome(n, x, asked[n].call, Received(asked[n])),
           \A f \in DOMAIN asked[n].fields : Received(asked[n])[f] = asked[n].fields[f]
    PROVE  HistoryInv'
<1>1. /\ dispatched'.call = n /\ dispatched'.as = asked'[n].call
      /\ dispatched'.request = Received(asked[n])
  BY DEF Outcome
<1>2. DispatchedAsAsked'
  BY <1>1 DEF DispatchedAsAsked
<1> QED BY <1>1, <1>2, HistoryOfDispatch

\* The results of a query are numbered by its call.
LEMMA ResultsFacts ==
    ASSUME WireTypes, NEW x \in Sessions, NEW n \in Nat, NEW call
    PROVE  /\ scratch[x] \in ResultSets /\ Results(x, n, call) \in ResultSets
           /\ call.op \in {"query_set", "request_snapshot"} => Results(x, n, call).snapshot = n
           /\ call.op = "explain_set" => Results(x, n, call).explanation = n
           /\ call.op = "list_sets" => Results(x, n, call).set_ids = n
<1>1. scratch[x] \in ResultSets
  BY DEF WireTypes
<1>2. CASE call.op \in {"query_set", "request_snapshot"}
  BY <1>1, <1>2 DEF Results, ResultSets
<1>3. CASE call.op = "explain_set"
  BY <1>1, <1>3 DEF Results, ResultSets
<1>4. CASE call.op \notin {"query_set", "request_snapshot", "explain_set"}
  BY <1>1, <1>4 DEF Results, ResultSets
<1> QED BY <1>1, <1>2, <1>3, <1>4

\* dispatch() answers a call without success.
LEMMA RefusingStep ==
    ASSUME ExchangeInv, SessionTypes, NEW x \in Sessions, UNCHANGED <<phase, ran>>,
           NEW n \in DOMAIN asked, n \in Nat, up[x] # <<>>, up[x][1].call = n,
           Reading(x), Consumed(x), UNCHANGED <<down, client, asked, taken>>,
           dispatched' = Outcome(n, x, asked[n].call, Received(asked[n])),
           \A f \in DOMAIN asked[n].fields : Received(asked[n])[f] = asked[n].fields[f],
           NEW code \in Codes \ {"OK"}, Respond(x, n, code, scratch[x])
    PROVE  ExchangeInv'
<1>1. PICK results \in ResultSets : results = scratch[x]
  BY DEF ExchangeInv, WireTypes
<1>2. ran' \in Seq(Runs) /\ Respond(x, n, code, results) /\ code \in Codes /\ code # "OK"
  BY <1>1 DEF ExchangeInv, WireTypes
<1>3. ClientTypes' /\ WireTypes' /\ SessionsAgree' /\ ConnectionInv'
  BY <1>2, StillGrows, RespondStep
<1>4. HistoryInv'
  BY StillGrows, HistoryOfAnswer DEF ExchangeInv
<1> QED BY <1>3, <1>4 DEF ExchangeInv

\* dispatch() registers a publisher, again, or refuses to.
LEMMA RegisteringStep ==
    ASSUME ExchangeInv, SessionTypes, NEW x \in Sessions,
           NEW n \in DOMAIN asked, n \in Nat, up[x] # <<>>, up[x][1].call = n,
           Reading(x), Consumed(x), UNCHANGED <<down, client, asked, taken>>,
           dispatched' = Outcome(n, x, asked[n].call, Received(asked[n])),
           \A f \in DOMAIN asked[n].fields : Received(asked[n])[f] = asked[n].fields[f],
           asked[n] \in Askings, Request(asked[n].call).id = "REGISTER_PUBLISHER",
           DispatchRegister(x, n, Received(asked[n]))
    PROVE  ExchangeInv'
<1>1. UNCHANGED <<phase, ran>>
  BY DEF DispatchRegister, RegisterAgain, Register, Rejected, server_vars, server
<1>2. CASE Respond(x, n, "REJECTED", scratch[x])
  BY <1>1, <1>2, RefusingStep DEF Codes
<1>3. CASE Respond(x, n, "OK", scratch[x])
  <2>1. PICK results \in ResultSets : results = scratch[x]
    BY DEF ExchangeInv, WireTypes
  <2>2. ran' \in Seq(Runs) /\ Respond(x, n, "OK", results) /\ "OK" \in Codes
    BY <1>1, <1>3, <2>1 DEF ExchangeInv, WireTypes, Codes
  <2> DEFINE f == [id |-> "RESULT", call |-> n, code |-> "OK", results |-> results]
  <2>3. Truthful(f)'
    <3>1. asked[n].call.op = "register_publisher" /\ "attempt" \notin DOMAIN asked[n].fields
      BY KindsOfRequests
    <3>2. asked'[n] = asked[n] /\ DOMAIN asked' = DOMAIN asked
      OBVIOUS
    <3>3. f.call = n
      OBVIOUS
    <3> HIDE DEF f
    <3>4. ResultOf(n, f)' = NoCall
      BY <3>1, <3>2 DEF ResultOf
    <3> QED BY <3>1, <3>2, <3>3, <3>4 DEF Truthful
  <2>4. ClientTypes' /\ WireTypes' /\ SessionsAgree' /\ ConnectionInv'
    BY <1>1, <2>2, <2>3, StillGrows, RespondStep
  <2>5. HistoryInv'
    BY <1>1, StillGrows, HistoryOfAnswer DEF ExchangeInv
  <2> QED BY <2>4, <2>5 DEF ExchangeInv
<1> QED BY <1>2, <1>3 DEF DispatchRegister, Rejected

\* dispatch() answers a query.
LEMMA QueryingStep ==
    ASSUME ExchangeInv, SessionTypes, NEW x \in Sessions,
           NEW n \in DOMAIN asked, n \in Nat, up[x] # <<>>, up[x][1].call = n,
           Reading(x), Consumed(x), UNCHANGED <<down, client, asked, taken>>,
           dispatched' = Outcome(n, x, asked[n].call, Received(asked[n])),
           \A f \in DOMAIN asked[n].fields : Received(asked[n])[f] = asked[n].fields[f],
           asked[n] \in Askings, Request(asked[n].call).id \in Queries,
           DispatchQueryOf(x, n, asked[n].call)
    PROVE  ExchangeInv'
<1>1. UNCHANGED <<phase, ran>>
  BY DEF DispatchQueryOf, server_vars, server
<1>2. CASE Respond(x, n, "SET_NOT_FOUND", scratch[x])
  BY <1>1, <1>2, RefusingStep DEF Codes
<1>3. CASE Respond(x, n, "OK", Results(x, n, asked[n].call))
  <2> DEFINE call == asked[n].call
  <2>1. PICK results \in ResultSets : results = Results(x, n, call)
    BY ResultsFacts DEF ExchangeInv
  <2>2. ran' \in Seq(Runs) /\ Respond(x, n, "OK", results) /\ "OK" \in Codes
    BY <1>1, <1>3, <2>1 DEF ExchangeInv, WireTypes, Codes
  <2> DEFINE f == [id |-> "RESULT", call |-> n, code |-> "OK", results |-> results]
  <2>3. Truthful(f)'
    <3>1. /\ call.op \in {"list_sets", "query_set", "explain_set", "request_snapshot"}
          /\ "attempt" \notin DOMAIN asked[n].fields
      BY KindsOfRequests
    <3>2. asked'[n] = asked[n] /\ DOMAIN asked' = DOMAIN asked
      OBVIOUS
    <3>3. f.call = n /\ f.code = "OK" /\ f.results = results
      OBVIOUS
    <3> HIDE DEF f
    <3>4. ResultOf(n, f)' = n
      <4>1. /\ call.op \in {"query_set", "request_snapshot"} => results.snapshot = n
            /\ call.op = "explain_set" => results.explanation = n
            /\ call.op = "list_sets" => results.set_ids = n
        BY <2>1, ResultsFacts DEF ExchangeInv
      <4> QED BY <3>1, <3>2, <3>3, <4>1 DEF ResultOf
    <3> QED BY <3>1, <3>2, <3>3, <3>4 DEF Truthful
  <2>4. ClientTypes' /\ WireTypes' /\ SessionsAgree' /\ ConnectionInv'
    BY <1>1, <2>2, <2>3, StillGrows, RespondStep
  <2>5. HistoryInv'
    BY <1>1, StillGrows, HistoryOfAnswer DEF ExchangeInv
  <2> QED BY <2>4, <2>5 DEF ExchangeInv
<1> QED BY <1>2, <1>3 DEF DispatchQueryOf

\* dispatch() answers OK to a request that has run.
LEMMA AcceptingStep ==
    ASSUME ExchangeInv, SessionTypes, NEW x \in Sessions,
           NEW n \in DOMAIN asked, n \in Nat, up[x] # <<>>, up[x][1].call = n,
           Reading(x), Consumed(x), UNCHANGED <<phase, down, client, asked, taken>>,
           dispatched' = Outcome(n, x, asked[n].call, Received(asked[n])),
           \A f \in DOMAIN asked[n].fields : Received(asked[n])[f] = asked[n].fields[f],
           asked[n] \in Askings,
           Request(asked[n].call).id \notin Queries \cup {"REGISTER_PUBLISHER"},
           Respond(x, n, "OK", scratch[x]), Grows, ran' \in Seq(Runs), Done(n)'
    PROVE  ExchangeInv'
<1>1. PICK results \in ResultSets : results = scratch[x]
  BY DEF ExchangeInv, WireTypes
<1>2. Respond(x, n, "OK", results) /\ "OK" \in Codes
  BY <1>1 DEF Codes
<1> DEFINE f == [id |-> "RESULT", call |-> n, code |-> "OK", results |-> results]
<1>3. Truthful(f)'
  <2>1. asked'[n] = asked[n] /\ DOMAIN asked' = DOMAIN asked
    OBVIOUS
  <2>2. f.call = n
    OBVIOUS
  <2> HIDE DEF f
  <2>3. asked[n].call.op \notin {"list_sets", "query_set", "explain_set", "request_snapshot"}
    BY KindsOfRequests
  <2>4. ResultOf(n, f)' = NoCall
    BY <2>1, <2>3 DEF ResultOf
  <2> QED BY <2>1, <2>2, <2>4 DEF Truthful
<1>4. ClientTypes' /\ WireTypes' /\ SessionsAgree' /\ ConnectionInv'
  BY <1>2, <1>3, RespondStep
<1>5. HistoryInv'
  BY HistoryOfAnswer DEF ExchangeInv
<1> QED BY <1>4, <1>5 DEF ExchangeInv

\* The record of the n-th call that session x runs.
RunOf(x, n) ==
    [call |-> n, session |-> x, attempt |-> Received(asked[n]).attempt, as |-> asked[n].call]

\* A request runs.
LEMMA RunningStep ==
    ASSUME ExchangeInv, SessionTypes, NEW x \in Sessions,
           NEW n \in DOMAIN asked, n \in Nat, up[x] # <<>>, up[x][1].call = n,
           Reading(x), Consumed(x), UNCHANGED <<phase, down, client, asked, taken>>,
           dispatched' = Outcome(n, x, asked[n].call, Received(asked[n])),
           \A f \in DOMAIN asked[n].fields : Received(asked[n])[f] = asked[n].fields[f],
           asked[n] \in Askings,
           Request(asked[n].call).id \notin Queries \cup {"REGISTER_PUBLISHER"},
           Run(x, n, Received(asked[n]), asked[n].call)
    PROVE  ExchangeInv'
<1> DEFINE e == RunOf(x, n)
<1>1. ran' = Append(ran, e) /\ Respond(x, n, "OK", scratch[x])
  BY DEF Run, RunOf
<1>2. /\ "attempt" \in DOMAIN asked[n].fields
      /\ asked[n].fields.attempt \in {context.attempt : context \in Contexts}
      /\ asked[n].call \in Calls
  BY KindsOfRequests, SentFacts
<1>3. /\ e.call = n /\ e.as = asked[n].call /\ e.attempt = asked[n].fields.attempt
      /\ e \in Runs
  BY <1>2 DEF RunOf, Runs
<1> HIDE DEF e
<1> DEFINE k == Len(ran) + 1
<1>4. /\ ran' \in Seq(Runs) /\ k \in DOMAIN ran' /\ ran'[k] = e
      /\ \A i \in DOMAIN ran : i \in DOMAIN ran' /\ ran'[i] = ran[i]
  BY <1>1, <1>3, Appended DEF ExchangeInv, WireTypes
<1> HIDE DEF k
<1>5. Grows
  BY <1>4 DEF Grows
<1>6. Done(n)'
  <2>1. asked'[n] = asked[n]
    OBVIOUS
  <2>2. /\ SameRequest(ran'[k].as, asked'[n].call)
        /\ ran'[k].attempt = asked'[n].fields.attempt
        /\ ran'[k].call = n
    BY <1>3, <1>4, <2>1 DEF SameRequest
  <2> QED BY <1>4, <2>2 DEF Done
<1> QED BY <1>1, <1>4, <1>5, <1>6, AcceptingStep

\* dispatch() runs a mutation, recognises it or refuses it.
LEMMA MutatingStep ==
    ASSUME ExchangeInv, SessionTypes, NEW x \in Sessions,
           NEW n \in DOMAIN asked, n \in Nat, up[x] # <<>>, up[x][1].call = n,
           Reading(x), Consumed(x), UNCHANGED <<down, client, asked, taken>>,
           dispatched' = Outcome(n, x, asked[n].call, Received(asked[n])),
           \A f \in DOMAIN asked[n].fields : Received(asked[n])[f] = asked[n].fields[f],
           asked[n] \in Askings,
           Request(asked[n].call).id \notin Queries \cup {"REGISTER_PUBLISHER", "EPOCH_ADVANCE"},
           DispatchMutation(x, n, Received(asked[n]), asked[n].call)
    PROVE  ExchangeInv'
<1> DEFINE call == asked[n].call
           r == Received(asked[n])
<1>1. UNCHANGED phase
  BY DEF DispatchMutation, Rejected, server_vars, server
<1>2. CASE Rejected(x, n)
  BY <1>1, <1>2, RefusingStep DEF Rejected, Codes
<1>3. ASSUME NEW i \in Recorded(r), SameRequest(ran[i].as, call),
             Respond(x, n, "OK", scratch[x]), UNCHANGED ran
      PROVE  ExchangeInv'
  <2>1. "attempt" \in DOMAIN asked[n].fields
    BY KindsOfRequests
  <2>2. i \in DOMAIN ran /\ ran[i].attempt = asked[n].fields.attempt /\ Recognised(ran[i].as)
    BY <1>3, <2>1 DEF Recorded
  <2>3. Done(n)
    BY <1>3, <2>2 DEF Done
  <2>4. Grows /\ ran' \in Seq(Runs)
    BY <1>3, StillGrows DEF ExchangeInv, WireTypes
  <2>5. Done(n)'
    BY <2>3, <2>4, DoneRemains
  <2> QED BY <1>1, <1>3, <2>4, <2>5, AcceptingStep
<1>4. CASE Run(x, n, r, call)
  BY <1>1, <1>4, RunningStep
<1> QED BY <1>2, <1>3, <1>4 DEF DispatchMutation

\* dispatch() advances the epoch or refuses to.
LEMMA AdvancingStep ==
    ASSUME ExchangeInv, SessionTypes, NEW x \in Sessions,
           NEW n \in DOMAIN asked, n \in Nat, up[x] # <<>>, up[x][1].call = n,
           Reading(x), Consumed(x), UNCHANGED <<down, client, asked, taken>>,
           dispatched' = Outcome(n, x, asked[n].call, Received(asked[n])),
           \A f \in DOMAIN asked[n].fields : Received(asked[n])[f] = asked[n].fields[f],
           asked[n] \in Askings, Request(asked[n].call).id = "EPOCH_ADVANCE",
           DispatchEpochAdvance(x, n, Received(asked[n]), asked[n].call)
    PROVE  ExchangeInv'
<1>1. UNCHANGED phase
  BY DEF DispatchEpochAdvance, Rejected, RequestEpoch, server_vars, server
<1>2. CASE Rejected(x, n)
  BY <1>1, <1>2, RefusingStep DEF Rejected, Codes
<1>3. Request(asked[n].call).id \notin Queries \cup {"REGISTER_PUBLISHER"}
  BY DEF Queries
<1>4. CASE Run(x, n, Received(asked[n]), asked[n].call)
  BY <1>1, <1>3, <1>4, RunningStep
<1> QED BY <1>2, <1>4 DEF DispatchEpochAdvance

\* dispatch(), whatever it was asked.
LEMMA DispatchStep ==
    ASSUME ExchangeInv, SessionTypes, NEW x \in Sessions, DispatchFrame(x)
    PROVE  ExchangeInv'
<1>1. PICK n \in DOMAIN asked :
          LET a == asked[n]
              r == Received(a)
          IN  /\ a \in Askings /\ n \in Nat
              /\ up[x] # <<>> /\ up[x][1].call = n
              /\ Reading(x) /\ Consumed(x)
              /\ UNCHANGED <<down, lost, client, asked, taken>>
              /\ dispatched' = Outcome(n, x, a.call, r)
              /\ \A f \in DOMAIN a.fields : r[f] = a.fields[f]
              /\ \/ /\ Request(a.call).id = "REGISTER_PUBLISHER"
                    /\ DispatchRegister(x, n, r)
                 \/ /\ Request(a.call).id \in Queries
                    /\ DispatchQueryOf(x, n, a.call)
                 \/ /\ Request(a.call).id = "EPOCH_ADVANCE"
                    /\ DispatchEpochAdvance(x, n, r, a.call)
                 \/ /\ Request(a.call).id \notin
                            Queries \cup {"REGISTER_PUBLISHER", "EPOCH_ADVANCE"}
                    /\ DispatchMutation(x, n, r, a.call)
  BY DispatchedCall
<1>2. CASE Request(asked[n].call).id = "REGISTER_PUBLISHER"
           /\ DispatchRegister(x, n, Received(asked[n]))
  BY <1>1, <1>2, RegisteringStep
<1>3. CASE Request(asked[n].call).id \in Queries /\ DispatchQueryOf(x, n, asked[n].call)
  BY <1>1, <1>3, QueryingStep
<1>4. CASE Request(asked[n].call).id = "EPOCH_ADVANCE"
           /\ DispatchEpochAdvance(x, n, Received(asked[n]), asked[n].call)
  BY <1>1, <1>4, AdvancingStep
<1>5. CASE /\ Request(asked[n].call).id \notin Queries \cup {"REGISTER_PUBLISHER", "EPOCH_ADVANCE"}
           /\ DispatchMutation(x, n, Received(asked[n]), asked[n].call)
  BY <1>1, <1>5, MutatingStep
<1> QED BY <1>1, <1>2, <1>3, <1>4, <1>5

\* Every step of the exchange keeps its invariant.
LEMMA ExchangeStep ==
    ASSUME ExchangeInv, SessionTypes, epoch \in Nat \ {0}, [ExchangeNext]_exchange_vars
    PROVE  ExchangeInv'
<1>1. CASE UNCHANGED exchange_vars
  <2>1. UNCHANGED <<phase, up, down, reading, scratch, answer, client, asked, dispatched, ran,
                   taken>>
    BY <1>1 DEF exchange_vars, server_vars, server, wire, histories
  <2>2. WireTypes' /\ SessionsAgree' /\ ConnectionInv'
    BY <2>1, StillGrows, QuietStep
  <2>3. HistoryInv'
    BY <2>1, StillGrows, HistoryCarries DEF ExchangeInv
  <2>4. ClientTypes'
    BY <2>1 DEF ExchangeInv, ClientTypes
  <2> QED BY <2>2, <2>3, <2>4 DEF ExchangeInv
<1>2. ASSUME NEW x \in Sessions, SessionNext(x) PROVE ExchangeInv'
  BY <1>2, QuietSessions, LateSteps, GivenUpStep, RejectStep, AnswerHelloStep,
     DispatchStep DEF SessionNext
<1> QED BY <1>1, <1>2, ClientStep, ConnectStep, BreakStep DEF ExchangeNext

-----------------------------------------------------------------------------
(***************************************************************************)
(* The theorems.                                                           *)
(***************************************************************************)

\* Nothing has been asked and nothing is under way.
LEMMA ExchangeStart == ASSUME ExchangeInit PROVE ExchangeInv
<1>1. /\ up = [x \in Sessions |-> <<>>] /\ down = [x \in Sessions |-> <<>>]
      /\ reading = [x \in Sessions |-> "nothing"] /\ scratch = [x \in Sessions |-> NoResults]
      /\ answer = [x \in Sessions |-> NoFrame] /\ client = NewClient /\ asked = <<>>
      /\ dispatched = NoDispatch /\ ran = <<>> /\ taken = NoResult
  BY DEF ExchangeInit
<1>2. client \in Clients /\ client.conn = NoSessionId /\ client.awaits = 0 /\ ~client.partial
      /\ ~client.failed
      /\ client.publisher = "" /\ client.worker_boot = ""
  <2>1. 0 \in Nat
    OBVIOUS
  <2> QED BY <1>1, <2>1, NumbersOfCalls, Fresh DEF NewClient
<1>3. ClientTypes
  <2>1. \A S : <<>> \in Seq(S)
    OBVIOUS
  <2>2. asked \in Seq(Askings) /\ Len(asked) = 0
    <3>1. asked \in Seq(Askings)
      BY <1>1, <2>1
    <3>2. Len(asked) = 0
      BY <1>1, <3>1, EmptySeq
    <3> QED BY <3>1, <3>2
  <2>3. client.awaits \in 0 .. Len(asked)
    <3>1. 0 \in 0 .. 0
      OBVIOUS
    <3>2. client.awaits = 0
      BY <1>2, Zenon
    <3>3. Len(asked) = 0
      BY <2>2, Zenon
    <3> QED BY <3>1, <3>2, <3>3, Zenon
  <2> QED BY <1>2, <2>2, <2>3 DEF ClientTypes
<1>4. WireTypes
  <2>1. \A S : <<>> \in Seq(S)
    OBVIOUS
  <2>2. NoResults \in ResultSets
    BY DEF NoResults, ResultSets, NoCall
  <2>3. up \in [Sessions -> Seq(Requests)] /\ down \in [Sessions -> Seq(Answers)]
        /\ ran \in Seq(Runs)
    <3> HIDE DEF Requests, Answers
    <3> QED BY <1>1, <2>1
  <2> QED BY <1>1, <2>2, <2>3 DEF WireTypes
<1>5. SessionsAgree
  BY <1>1 DEF SessionsAgree
<1>6. ConnectionInv
  BY <1>2, ExchangeAssumption DEF ConnectionInv, NoCall
<1>7. HistoryInv
  <2>1. DispatchedAsAsked /\ AnswersAreOwn /\ taken.code # "OK" /\ \A i \in DOMAIN ran : FALSE
    BY <1>1 DEF DispatchedAsAsked, AnswersAreOwn, NoResult
  <2> QED BY <1>1, <2>1 DEF HistoryInv
<1> QED BY <1>3, <1>4, <1>5, <1>6, <1>7 DEF ExchangeInv

\* The sessions of the exchange are the coordinator's.
LEMMA DispatchServes ==
    ASSUME ExchangeInv, NEW x \in Sessions, DispatchFrame(x)
    PROVE  [ServerNext]_server_vars
<1>1. PICK n \in DOMAIN asked :
          LET a == asked[n]
              r == Received(a)
          IN  /\ a \in Askings
              /\ \A f \in DOMAIN a.fields : r[f] = a.fields[f]
              /\ \/ /\ Request(a.call).id = "REGISTER_PUBLISHER"
                    /\ DispatchRegister(x, n, r)
                 \/ /\ Request(a.call).id \in Queries
                    /\ DispatchQueryOf(x, n, a.call)
                 \/ /\ Request(a.call).id = "EPOCH_ADVANCE"
                    /\ DispatchEpochAdvance(x, n, r, a.call)
                 \/ /\ Request(a.call).id \notin
                            Queries \cup {"REGISTER_PUBLISHER", "EPOCH_ADVANCE"}
                    /\ DispatchMutation(x, n, r, a.call)
  BY DispatchedCall
<1> DEFINE a == asked[n]
           r == Received(a)
           w == <<r.publisher, r.worker_boot>>
<1>2. CASE Request(a.call).id = "REGISTER_PUBLISHER" /\ DispatchRegister(x, n, r)
  <2>1. /\ {"publisher", "worker_boot", "scope"} \subseteq DOMAIN a.fields
        /\ <<a.fields.publisher, a.fields.worker_boot>> \in Workers
        /\ a.fields.scope \subseteq SetIds
    BY <1>1, <1>2, KindsOfRequests
  <2>2. w \in Workers /\ r.scope \in SUBSET SetIds
    BY <1>1, <2>1
  <2>3. \/ RegisterAgain(x, w) \/ Register(x, w, r.scope)
        \/ UNCHANGED server_vars
    BY <1>2 DEF DispatchRegister, Rejected
  <2> HIDE DEF r, w
  <2> QED BY <2>2, <2>3 DEF ServerNext
<1>3. CASE DispatchQueryOf(x, n, a.call)
  BY <1>3 DEF DispatchQueryOf
<1>4. CASE DispatchEpochAdvance(x, n, r, a.call)
  <2>1. (w \in Workers /\ RequestEpoch(x, w)) \/ UNCHANGED server_vars
    BY <1>4 DEF DispatchEpochAdvance, Rejected
  <2> HIDE DEF r, w
  <2> QED BY <2>1 DEF ServerNext
<1>5. CASE DispatchMutation(x, n, r, a.call)
  BY <1>5 DEF DispatchMutation, Rejected
<1> QED BY <1>1, <1>2, <1>3, <1>4, <1>5

\* Every step of the exchange is one of the coordinator, or none of its business.
LEMMA ExchangeServes ==
    ASSUME ExchangeInv, [ExchangeNext]_exchange_vars
    PROVE  [ServerNext]_server_vars
<1>1. CASE UNCHANGED exchange_vars
  BY <1>1 DEF exchange_vars
<1>2. CASE ClientNext
  BY <1>2 DEF ClientNext, Ask, AskEpoch, FirstBytes, TakeAnswer, TakeEpoch, GiveUp, GiveUpRefresh,
              CloseClient, Disconnect
<1>3. ASSUME NEW x \in Sessions, Connect(x) \/ Break(x) PROVE [ServerNext]_server_vars
  BY <1>3 DEF Connect, Break, ServerNext
<1>4. ASSUME NEW x \in Sessions, SessionNext(x), ~DispatchFrame(x) PROVE [ServerNext]_server_vars
  <2>1. \/ Lose(x) \/ Bind(x) \/ EndSession(x) \/ UNCHANGED server_vars
    BY <1>4 DEF SessionNext, Arrives, BudgetExpires, ReceiveFails, Abandon, AnswerHello,
                RejectFrame, BindWorker, Send, SendFails, EndOfSession, Lose
  <2> QED BY <2>1 DEF ServerNext
<1> QED BY <1>1, <1>2, <1>3, <1>4, DispatchServes DEF ExchangeNext

\* Only max_attempts others make a mutation run again under its attempt id.
RetriedLate ==
    \A i, j \in DOMAIN ran :
        /\ Recognised(ran[i].as) /\ Recognised(ran[j].as)
        /\ ran[i].attempt = ran[j].attempt
        /\ i < j
        => Cardinality({k \in RecordedSince(i) : k < j}) >= MaxAttempts

\* An advance of the epoch ended the epoch that it expected, which is past.
EpochsEnd ==
    /\ \A i, j \in DOMAIN ran :
           ~Recognised(ran[i].as) /\ ran[i].as = ran[j].as => i = j
    /\ \A i \in DOMAIN ran :
           ~Recognised(ran[i].as) => ran[i].as.args.expected_epoch \in 1 .. (epoch - 1)

RunsInv == RetriedLate /\ EpochsEnd

\* The inductive invariant of the exchange: the authority, the sessions, the wire and
\* the mutations that have run.
WholeInv == AuthorityInv /\ SessionInv /\ ExchangeInv /\ RunsInv

\* An interval that ends later holds more.
LEMMA LongerInterval ==
    ASSUME NEW a \in Nat, NEW b \in Nat, b >= a
    PROVE  \A e \in 1 .. (a - 1) : e \in 1 .. (b - 1)
OBVIOUS

\* A step that runs nothing keeps what is known of the mutations that have run.
LEMMA RunsRemain ==
    ASSUME RunsInv, UNCHANGED ran, epoch \in Nat, epoch' \in Nat, epoch' >= epoch
    PROVE  RunsInv'
<1>1. RetriedLate'
  BY DEF RunsInv, RetriedLate, RecordedSince
<1>2. EpochsEnd'
  <2>1. \A e \in 1 .. (epoch - 1) : e \in 1 .. (epoch' - 1)
    BY LongerInterval
  <2> QED BY <2>1 DEF RunsInv, EpochsEnd
<1> QED BY <1>1, <1>2 DEF RunsInv

\* A mutation that runs again under its attempt id was pushed out of the table.
LEMMA RetryIsLate ==
    ASSUME RetriedLate, ran \in Seq(Runs), NEW e \in Runs, ran' = Append(ran, e),
           NEW r, e.attempt = r.attempt, Recognised(e.as) => Recorded(r) = {}
    PROVE  RetriedLate'
<1> DEFINE last == Len(ran) + 1
<1>1. /\ last \in DOMAIN ran' /\ ran'[last] = e /\ Len(ran) \in Nat
      /\ DOMAIN ran = 1 .. Len(ran) /\ DOMAIN ran' = 1 .. last
      /\ \A i \in DOMAIN ran : i \in DOMAIN ran' /\ ran'[i] = ran[i] /\ i < last
      /\ \A i \in DOMAIN ran' : i \in DOMAIN ran \/ i = last
  BY Appended
<1> HIDE DEF last
<1> SUFFICES ASSUME NEW i \in DOMAIN ran', NEW j \in DOMAIN ran',
                    Recognised(ran'[i].as), Recognised(ran'[j].as),
                    ran'[i].attempt = ran'[j].attempt, i < j
             PROVE  Cardinality({k \in RecordedSince(i)' : k < j}) >= MaxAttempts
  BY DEF RetriedLate
<1>2. i \in DOMAIN ran /\ ran'[i] = ran[i]
  BY <1>1
<1>3. CASE j \in DOMAIN ran
  <2>1. {k \in RecordedSince(i)' : k < j} = {k \in RecordedSince(i) : k < j}
    BY <1>1, <1>2, <1>3 DEF RecordedSince
  <2>2. Cardinality({k \in RecordedSince(i) : k < j}) >= MaxAttempts
    BY <1>1, <1>2, <1>3 DEF RetriedLate
  <2> QED BY <2>1, <2>2
<1>4. CASE j = last
  <2>1. {k \in RecordedSince(i)' : k < j} = RecordedSince(i)
    BY <1>1, <1>2, <1>4 DEF RecordedSince
  <2>2. ran[i].attempt = r.attempt /\ Recognised(ran[i].as) /\ Recorded(r) = {}
    BY <1>1, <1>2, <1>4
  <2>3. ~(Cardinality(RecordedSince(i)) < MaxAttempts)
    BY <1>2, <2>2 DEF Recorded
  <2>4. Cardinality(RecordedSince(i)) \in Nat
    <3>1. RecordedSince(i) \in SUBSET (1 .. Len(ran))
      BY <1>1 DEF RecordedSince
    <3>2. IsFiniteSet(1 .. Len(ran))
      BY <1>1, FS_Interval
    <3> QED BY <3>1, <3>2, FS_Subset, FS_CardinalityType
  <2>5. Cardinality(RecordedSince(i)) >= MaxAttempts
    <3>1. MaxAttempts \in Nat
      BY ExchangeAssumption
    <3> DEFINE c == Cardinality(RecordedSince(i))
    <3>2. c \in Nat /\ ~(c < MaxAttempts)
      BY <2>3, <2>4
    <3> HIDE DEF c
    <3>3. c >= MaxAttempts
      BY <3>1, <3>2
    <3> QED BY <3>3 DEF c
  <2> QED BY <2>1, <2>5
<1> QED BY <1>1, <1>3, <1>4

\* A mutation has run, and the epoch stands.
LEMMA MutationRuns ==
    ASSUME RunsInv, ran \in Seq(Runs), NEW e \in Runs, ran' = Append(ran, e), Recognised(e.as),
           NEW r, e.attempt = r.attempt, Recorded(r) = {}, UNCHANGED epoch
    PROVE  RunsInv'
<1>1. RetriedLate'
  BY RetryIsLate DEF RunsInv
<1>2. \A i \in DOMAIN ran' : (i \in DOMAIN ran /\ ran'[i] = ran[i]) \/ ran'[i] = e
  BY Appended
<1>3. EpochsEnd'
  BY <1>2 DEF RunsInv, EpochsEnd
<1> QED BY <1>1, <1>3 DEF RunsInv

\* The epoch that the call expected has ended.
LEMMA AdvanceRuns ==
    ASSUME RunsInv, ran \in Seq(Runs), NEW e \in Runs, ran' = Append(ran, e), ~Recognised(e.as),
           epoch \in Nat \ {0}, e.as.args.expected_epoch = epoch, epoch' = epoch + 1
    PROVE  RunsInv'
<1>1. RetriedLate'
  <2>1. e.attempt = e.attempt
    OBVIOUS
  <2> QED BY <2>1, RetryIsLate DEF RunsInv
<1> DEFINE last == Len(ran) + 1
<1>2. /\ ran'[last] = e
      /\ \A i \in DOMAIN ran' : (i \in DOMAIN ran /\ ran'[i] = ran[i]) \/ i = last
  BY Appended
<1> HIDE DEF last
<1>3. \A i \in DOMAIN ran :
          ~Recognised(ran[i].as) => ran[i].as.args.expected_epoch \in 1 .. (epoch - 1)
  BY DEF RunsInv, EpochsEnd
<1>4. epoch \notin 1 .. (epoch - 1) /\ epoch \in 1 .. (epoch' - 1)
      /\ \A k \in 1 .. (epoch - 1) : k \in 1 .. (epoch' - 1)
  OBVIOUS
<1>5. \A i \in DOMAIN ran' :
          ~Recognised(ran'[i].as) => ran'[i].as.args.expected_epoch \in 1 .. (epoch' - 1)
  BY <1>2, <1>3, <1>4
<1>6. \A i \in DOMAIN ran : ran[i].as # e.as
  BY <1>3, <1>4
<1>7. ASSUME NEW i \in DOMAIN ran', NEW j \in DOMAIN ran',
             ~Recognised(ran'[i].as), ran'[i].as = ran'[j].as
      PROVE  i = j
  <2>1. CASE i \in DOMAIN ran /\ ran'[i] = ran[i] /\ j \in DOMAIN ran /\ ran'[j] = ran[j]
    BY <1>7, <2>1 DEF RunsInv, EpochsEnd
  <2> QED BY <1>2, <1>6, <1>7, <2>1
<1> QED BY <1>1, <1>5, <1>7 DEF RunsInv, EpochsEnd

\* The epoch never goes back.
LEMMA EpochOnward ==
    ASSUME TypeOK, [Next]_vars
    PROVE  epoch \in Nat \ {0} /\ epoch' \in Nat \ {0} /\ epoch' >= epoch
<1>1. epoch \in Nat \ {0}
  BY AuthorityAssumption DEF TypeOK
<1>2. CASE UNCHANGED vars
  BY <1>1, <1>2 DEF vars
<1>3. CASE \E w \in Workers, scope \in SUBSET SetIds, session \in Sessions :
               RegisterPublisher(w, scope, session)
  BY <1>1, <1>3 DEF RegisterPublisher
<1>4. CASE \E w \in Workers : UnregisterPublisher(w) \/ FenceWorker(w)
  BY <1>1, <1>4 DEF UnregisterPublisher, FenceWorker
<1>5. CASE \E w \in Workers, session \in Sessions : AdvanceEpoch(w, session)
  BY <1>1, <1>5 DEF AdvanceEpoch
<1> QED BY <1>2, <1>3, <1>4, <1>5 DEF Next

\* Only dispatch() runs mutations.
LEMMA OnlyDispatchRuns ==
    ASSUME [ExchangeNext]_exchange_vars, ran' # ran
    PROVE  \E x \in Sessions : DispatchFrame(x)
<1>1. ~UNCHANGED exchange_vars
  BY DEF exchange_vars, histories
<1>2. ~ClientNext
  BY DEF ClientNext, Ask, AskEpoch, FirstBytes, TakeAnswer, TakeEpoch, GiveUp, GiveUpRefresh,
         CloseClient, Disconnect, histories
<1>3. ASSUME NEW x \in Sessions, Connect(x) \/ Break(x) PROVE FALSE
  BY <1>3 DEF Connect, Break, histories
<1>4. ASSUME NEW x \in Sessions, SessionNext(x), ~DispatchFrame(x) PROVE FALSE
  BY <1>4 DEF SessionNext, Arrives, BudgetExpires, ReceiveFails, Abandon, AnswerHello,
              RejectFrame, BindWorker, Send, SendFails, EndOfSession, Lose, histories
<1> QED BY <1>1, <1>2, <1>3, <1>4 DEF ExchangeNext

\* Every step keeps what is known of the mutations that have run.
LEMMA RunsStep ==
    ASSUME TypeOK, ExchangeInv, RunsInv, [ExchangeNext]_exchange_vars
    PROVE  RunsInv'
<1>1. epoch \in Nat \ {0} /\ epoch' \in Nat \ {0} /\ epoch' >= epoch
  BY ExchangeServes, ServerStepRefines, EpochOnward
<1>2. CASE ran' = ran
  BY <1>1, <1>2, RunsRemain
<1>3. CASE ran' # ran
  <2>1. PICK x \in Sessions : DispatchFrame(x)
    BY <1>3, OnlyDispatchRuns
  <2>2. PICK n \in DOMAIN asked :
            LET a == asked[n]
                r == Received(a)
            IN  /\ a \in Askings /\ n \in Nat
                /\ \A f \in DOMAIN a.fields : r[f] = a.fields[f]
                /\ \/ /\ Request(a.call).id = "REGISTER_PUBLISHER"
                      /\ DispatchRegister(x, n, r)
                   \/ /\ Request(a.call).id \in Queries
                      /\ DispatchQueryOf(x, n, a.call)
                   \/ /\ Request(a.call).id = "EPOCH_ADVANCE"
                      /\ DispatchEpochAdvance(x, n, r, a.call)
                   \/ /\ Request(a.call).id \notin
                            Queries \cup {"REGISTER_PUBLISHER", "EPOCH_ADVANCE"}
                      /\ DispatchMutation(x, n, r, a.call)
    BY <2>1, DispatchedCall
  <2> DEFINE call == asked[n].call
             r == Received(asked[n])
             e == RunOf(x, n)
  <2>3. /\ call \in Calls
        /\ Request(call).id = "EPOCH_ADVANCE" <=> call.op = "advance_epoch"
        /\ Request(call).id \notin Queries \cup {"REGISTER_PUBLISHER"} =>
               /\ "attempt" \in DOMAIN asked[n].fields
               /\ asked[n].fields.attempt \in {context.attempt : context \in Contexts}
    BY <2>2, KindsOfRequests, SentFacts
  <2>4. e.attempt = r.attempt /\ e.as = call /\ ran \in Seq(Runs)
    BY DEF RunOf, ExchangeInv, WireTypes
  <2>5. Request(call).id \notin Queries \cup {"REGISTER_PUBLISHER"} => e \in Runs
    BY <2>2, <2>3 DEF RunOf, Runs
  <2>6. CASE Request(call).id = "REGISTER_PUBLISHER" /\ DispatchRegister(x, n, r)
    BY <1>3, <2>6 DEF DispatchRegister, RegisterAgain, Register, Rejected
  <2>7. CASE Request(call).id \in Queries /\ DispatchQueryOf(x, n, call)
    BY <1>3, <2>7 DEF DispatchQueryOf
  <2>8. CASE Request(call).id = "EPOCH_ADVANCE" /\ DispatchEpochAdvance(x, n, r, call)
    <3>1. /\ ran' = Append(ran, e)
          /\ call.args.expected_epoch = epoch /\ epoch' = epoch + 1
      BY <1>3, <2>8 DEF DispatchEpochAdvance, Rejected, Run, RunOf, RequestEpoch, AdvanceEpoch
    <3>2. e \in Runs
      BY <2>5, <2>8 DEF Queries
    <3>3. ~Recognised(e.as)
      BY <2>3, <2>4, <2>8 DEF Recognised
    <3> HIDE DEF e, r, call
    <3> QED BY <1>1, <2>4, <3>1, <3>2, <3>3, AdvanceRuns
  <2>9. CASE Request(call).id \notin Queries \cup {"REGISTER_PUBLISHER", "EPOCH_ADVANCE"}
             /\ DispatchMutation(x, n, r, call)
    <3>1. ran' = Append(ran, e) /\ Recorded(r) = {} /\ UNCHANGED epoch
      BY <1>3, <2>9 DEF DispatchMutation, Rejected, Run, RunOf, server_vars, authority
    <3>2. e \in Runs
      BY <2>5, <2>9
    <3>3. Recognised(e.as)
      BY <2>3, <2>4, <2>9 DEF Recognised
    <3> HIDE DEF e, r, call
    <3> QED BY <2>4, <3>1, <3>2, <3>3, MutationRuns
  <2> QED BY <2>2, <2>6, <2>7, <2>8, <2>9
<1> QED BY <1>2, <1>3

\* Every step keeps the whole invariant.
LEMMA WholeStep == ASSUME WholeInv, [ExchangeNext]_exchange_vars PROVE WholeInv'
<1>1. [ServerNext]_server_vars
  BY ExchangeServes DEF WholeInv
<1>2. AuthorityInv'
  BY <1>1, ServerStepRefines, AuthorityStep DEF WholeInv
<1>3. SessionInv'
  BY <1>1, SessionStep DEF WholeInv
<1>4. SessionTypes
  BY DEF WholeInv, SessionInv
<1>5. epoch \in Nat \ {0}
  BY AuthorityAssumption DEF WholeInv, AuthorityInv, TypeOK
<1>6. ExchangeInv'
  BY <1>4, <1>5, ExchangeStep DEF WholeInv
<1>7. RunsInv'
  BY RunsStep DEF WholeInv, AuthorityInv
<1> QED BY <1>2, <1>3, <1>6, <1>7 DEF WholeInv

\* In every reachable state of a client and the sessions it talks to, what is under way
\* on the connection, in session_main() and in the client agrees, and every response
\* under way is right about the call it answers.
THEOREM ExchangeInvariant == ExchangeSpec => []WholeInv
<1>1. ExchangeInit => WholeInv
  <2> SUFFICES ASSUME ExchangeInit PROVE WholeInv
    OBVIOUS
  <2>1. ServerInit /\ Init
    BY DEF ExchangeInit, ServerInit
  <2>2. AuthorityInv
    BY <2>1, AuthorityStart
  <2>3. SessionInv
    BY <2>1, SessionInit
  <2>4. RunsInv
    <3>1. \A i \in DOMAIN ran : FALSE
      BY DEF ExchangeInit
    <3> QED BY <3>1 DEF RunsInv, RetriedLate, EpochsEnd
  <2> QED BY <2>2, <2>3, <2>4, ExchangeStart DEF WholeInv
<1>2. WholeInv /\ [ExchangeNext]_exchange_vars => WholeInv'
  BY WholeStep
<1> QED BY <1>1, <1>2, PTL DEF ExchangeSpec

\* Type correctness, and that a connection carries one request or one answer at most
\* until refresh_epoch() fails on it and leaves it open.
THEOREM ExchangeTypesHold == ExchangeSpec => []ExchangeTypeOK
<1>1. ASSUME WholeInv PROVE ExchangeTypeOK
  <2>1. ExchangeInv
    BY <1>1 DEF WholeInv
  <2>2. /\ client.conn \in Sessions \cup {NoSessionId}
        /\ client.awaits \in {Greeting, Refresh} \cup 0 .. Len(asked)
    BY <2>1, ConnectionFacts DEF ExchangeInv, ClientTypes
  <2>3. client.partial => client.conn \in Sessions /\ Incoming # <<>>
    BY <2>1, ConnectionFacts DEF ExchangeInv, ConnectionInv, Incoming
  <2>4. client.conn \in Sessions /\ ~OutOfStep(client.conn) => UnderWay(client.conn) <= 1
    BY <2>1 DEF ExchangeInv, ConnectionInv
  <2>5. ASSUME NEW x \in Sessions
        PROVE  /\ reading[x] \in {"nothing", "header_part", "header", "payload_part", "frame"}
               /\ reading[x] # "nothing" => up[x] # <<>> /\ phase[x] = "open"
               /\ answer[x] # NoFrame => phase[x] = "open"
    BY <2>1 DEF ExchangeInv, WireTypes, SessionsAgree
  <2> QED BY <2>2, <2>3, <2>4, <2>5 DEF ExchangeTypeOK
<1> QED BY <1>1, ExchangeInvariant, PTL

\* Whatever a method of the client was asked, in whatever order and over whatever
\* sessions, dispatch() asks the engine for exactly that call with the context that
\* stamp() put in, or decode_request() rejects one of the two requests it cannot read.
THEOREM CallsAreDispatchedAsAsked == ExchangeSpec => []DispatchedAsAsked
<1>1. WholeInv => DispatchedAsAsked
  BY DEF WholeInv, ExchangeInv, HistoryInv
<1> QED BY <1>1, ExchangeInvariant, PTL

\* exchange() compares no sequence number, and yet the frame it takes is the answer to
\* the call it was sent for, and what is handed out was read for that call although a
\* session keeps the results of earlier queries in its response.
THEOREM AnswersBelongToTheirCalls == ExchangeSpec => []AnswersAreOwn
<1>1. WholeInv => AnswersAreOwn
  BY DEF WholeInv, ExchangeInv, HistoryInv
<1> QED BY <1>1, ExchangeInvariant, PTL

\* A mutation that is repeated after its answer was lost, over the same session or another
\* one, commits once while the table of max_attempts holds its attempt id, and again only
\* after that many others; the epoch, of which advance_epoch() keeps no record, ends once
\* for those who expect it; and an OK that reaches a caller is about a request that did
\* commit under its attempt id.
THEOREM RepeatedCallsRunOnce == ExchangeSpec => []RunsOnce
<1>1. ASSUME WholeInv PROVE RunsOnce
  <2>1. RetriedLate /\ EpochsEnd
    BY <1>1 DEF WholeInv, RunsInv
  <2>2. taken.code = "OK" /\ "attempt" \in DOMAIN asked[taken.call].fields => Done(taken.call)
    BY <1>1 DEF WholeInv, ExchangeInv, HistoryInv
  <2> QED BY <2>1, <2>2 DEF RunsOnce, RetriedLate, EpochsEnd, Done
<1> QED BY <1>1, ExchangeInvariant, PTL

\* What the sessions of the exchange do is what module Coordinator says sessions do, so
\* that all that is proved of registrations and fences holds with clients and frames too.
THEOREM ExchangeRefinesServer == ExchangeSpec => ServerInit /\ [][ServerNext]_server_vars
<1>1. ExchangeInit => ServerInit
  BY DEF ExchangeInit
<1>2. WholeInv /\ [ExchangeNext]_exchange_vars => [ServerNext]_server_vars
  BY ExchangeServes DEF WholeInv
<1> QED BY <1>1, <1>2, ExchangeInvariant, PTL DEF ExchangeSpec
=============================================================================
