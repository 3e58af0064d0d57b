-------------------------------- MODULE Wire --------------------------------
(***************************************************************************)
(* What happens to a request between the method of a client that asks for  *)
(* it and the method of the engine that runs it: the client's method fills *)
(* a request (client.cpp), encode_request() writes it field by field,      *)
(* decode_request() reads it back (wire.cpp), dispatch() turns it into a   *)
(* call of the engine (server.cpp).                                        *)
(*                                                                         *)
(* A payload is the sequence of the values of its fields.  An identity is  *)
(* valid when it is not "", a generation when it is not 0; how a value     *)
(* becomes bytes is left out.                                              *)
(***************************************************************************)
EXTENDS Integers, Sequences

TooLong == "too_long"      \* a text beyond kMaxTextLength

\* The function f, and g where f is not defined.
With(f, g) == [x \in DOMAIN f \cup DOMAIN g |-> IF x \in DOMAIN f THEN f[x] ELSE g[x]]

SetStateActions    == {"PUBLISH", "WITHDRAW", "COMPLETE_WITHDRAWAL"}
RevocationReasons  == {"ADMINISTRATIVE", "SECURITY", "POLICY_VIOLATION",
                       "AUTHORITY_REVOKED", "OPERATOR_REQUEST"}
PathStates         == {"AUTHORIZED", "CONDITIONALLY_AUTHORIZED", "REVALIDATION_REQUIRED",
                       "REJECTED", "REVOKED", "STALE", "RETIRED"}

-----------------------------------------------------------------------------
(***************************************************************************)
(* Requests.  A request is a function on the fields of WireRequest; those  *)
(* that nobody fills keep the value of a new one.                          *)
(***************************************************************************)

ContextFields ==
    <<"epoch", "publisher", "worker_boot", "session", "attempt", "expected_set",
      "expected_member">>

NewRequest ==
    [epoch |-> 0, publisher |-> "", worker_boot |-> "", session |-> "", attempt |-> "",
     expected_set |-> 0, expected_member |-> 0,
     scope |-> {}, key |-> "", minimum |-> 1, admin |-> TRUE, conditional |-> FALSE,
     set_id |-> "", member_id |-> "", path_id |-> "", generation |-> 0, members |-> <<>>,
     number |-> 0, flag |-> FALSE, state_action |-> "PUBLISH",
     revocation_reason |-> "ADMINISTRATIVE", path_state |-> "AUTHORIZED", text |-> "",
     snapshot_id |-> ""]

\* The request with these of its fields filled.
Filled(request, fields) ==
    [f \in DOMAIN request |-> IF f \in DOMAIN fields THEN fields[f] ELSE request[f]]

-----------------------------------------------------------------------------
(***************************************************************************)
(* The fields of each message, in the order encode_request() writes them.  *)
(***************************************************************************)

Queries == {"LIST_SETS", "QUERY_SET", "EXPLAIN_SET", "SNAPSHOT_REQUEST"}

\* Messages without a mutation context; the session of the others is checked.
Contextless == Queries \cup {"HELLO", "SHUTDOWN", "REGISTER_PUBLISHER"}

\* encode_request().
Written ==
    [HELLO                  |-> <<>>,
     LIST_SETS              |-> <<>>,
     SHUTDOWN               |-> <<>>,
     REGISTER_PUBLISHER     |-> <<"publisher", "worker_boot", "session", "scope">>,
     CREATE_SET             |-> <<"key", "minimum", "admin", "conditional">>,
     ADD_MEMBER             |-> <<"set_id", "path_id", "generation">>,
     ADD_MEMBERS            |-> <<"set_id", "members">>,
     REMOVE_MEMBER          |-> <<"set_id", "member_id", "text">>,
     WITHDRAW_MEMBER        |-> <<"set_id", "member_id", "text">>,
     REPLACE_MEMBER         |-> <<"set_id", "member_id", "path_id", "generation", "text">>,
     SET_MINIMUM            |-> <<"set_id", "number">>,
     SET_CONDITIONAL_POLICY |-> <<"set_id", "flag">>,
     SET_ADMIN_ENABLE       |-> <<"set_id">>,
     SET_ADMIN_DISABLE      |-> <<"set_id">>,
     MEMBER_ADMIN_ENABLE    |-> <<"set_id", "member_id">>,
     MEMBER_ADMIN_DISABLE   |-> <<"set_id", "member_id">>,
     REVALIDATE_MEMBER      |-> <<"set_id", "member_id">>,
     REVALIDATE_SET         |-> <<"set_id">>,
     REVOKE_SET             |-> <<"set_id", "revocation_reason", "text">>,
     RETIRE_SET             |-> <<"set_id", "text">>,
     SUPERSEDE_SET          |-> <<"set_id", "path_id">>,
     EPOCH_ADVANCE          |-> <<"number">>,
     ADVANCE_SET_STATE      |-> <<"set_id", "state_action", "text">>,
     APPLY_PATH_AUTHORITY   |-> <<"path_id", "generation", "path_state">>,
     DECLARE_PATH_AUTHORITY |-> <<"path_id", "generation", "path_state">>,
     REFRESH_PATH           |-> <<"path_id">>,
     QUERY_SET              |-> <<"set_id">>,
     EXPLAIN_SET            |-> <<"set_id">>,
     SNAPSHOT_REQUEST       |-> <<"set_id", "snapshot_id">>]

Context(id) == IF id \in Contextless THEN <<>> ELSE ContextFields

\* ByteWriter is sticky: one text that does not fit and nothing is sent.
Encodable(id, request) ==
    \A i \in DOMAIN Written[id] : Written[id][i] = "text" => request.text # TooLong

Fields(id) == Context(id) \o Written[id]

Encoded(id, request) == [i \in DOMAIN Fields(id) |-> request[Fields(id)[i]]]

-----------------------------------------------------------------------------
(***************************************************************************)
(* The fields that decode_request() reads for each message, and what it    *)
(* demands of each.                                                        *)
(***************************************************************************)

Id(f)            == [field |-> f, valid |-> "id"]          \* StrongId::parse()
Generation(f)    == [field |-> f, valid |-> "generation"]  \* Generation::from_value()
Value(f)         == [field |-> f, valid |-> "any"]         \* numbers, flags and texts
Selector(f)      == [field |-> f, valid |-> "selector"]    \* valid_...() of an enumeration
List(f)          == [field |-> f, valid |-> "list"]        \* of identities and generations

SetId    == Id("set_id")
MemberId == Id("member_id")
PathId   == Id("path_id")
Reason   == Value("text")

\* read_context(): an expected generation is absent when it is 0.
ReadContext ==
    <<Generation("epoch"), Id("publisher"), Id("worker_boot"), Id("session"), Id("attempt"),
      Value("expected_set"), Value("expected_member")>>

ReadControl ==
    [HELLO              |-> <<>>,
     LIST_SETS          |-> <<>>,
     SHUTDOWN           |-> <<>>,
     REGISTER_PUBLISHER |-> <<Id("publisher"), Id("worker_boot"), Id("session"), List("scope")>>]

ReadMembership ==
    [CREATE_SET           |-> <<Id("key"), Value("minimum"), Value("admin"), Value("conditional")>>,
     ADD_MEMBER           |-> <<SetId, PathId, Generation("generation")>>,
     ADD_MEMBERS          |-> <<SetId, List("members")>>,
     REMOVE_MEMBER        |-> <<SetId, MemberId, Reason>>,
     WITHDRAW_MEMBER      |-> <<SetId, MemberId, Reason>>,
     REPLACE_MEMBER       |-> <<SetId, MemberId, PathId, Generation("generation"), Reason>>,
     REVALIDATE_MEMBER    |-> <<SetId, MemberId>>,
     MEMBER_ADMIN_ENABLE  |-> <<SetId, MemberId>>,
     MEMBER_ADMIN_DISABLE |-> <<SetId, MemberId>>]

ReadPolicy ==
    [SET_MINIMUM            |-> <<SetId, Value("number")>>,
     SET_CONDITIONAL_POLICY |-> <<SetId, Value("flag")>>,
     SET_ADMIN_ENABLE       |-> <<SetId>>,
     SET_ADMIN_DISABLE      |-> <<SetId>>,
     REVALIDATE_SET         |-> <<SetId>>]

\* The second identity of SUPERSEDE_SET goes to the text of the request.
ReadGovernance ==
    [REVOKE_SET        |-> <<SetId, Selector("revocation_reason"), Reason>>,
     RETIRE_SET        |-> <<SetId, Reason>>,
     SUPERSEDE_SET     |-> <<SetId, Id("text")>>,
     EPOCH_ADVANCE     |-> <<Generation("number")>>,
     ADVANCE_SET_STATE |-> <<SetId, Selector("state_action"), Reason>>]

ReadPaths ==
    [APPLY_PATH_AUTHORITY   |-> <<PathId, Generation("generation"), Selector("path_state")>>,
     DECLARE_PATH_AUTHORITY |-> <<PathId, Generation("generation"), Selector("path_state")>>,
     REFRESH_PATH           |-> <<PathId>>]

ReadQueries ==
    [QUERY_SET        |-> <<SetId>>,
     EXPLAIN_SET      |-> <<SetId>>,
     SNAPSHOT_REQUEST |-> <<SetId, Id("snapshot_id")>>]

ReadFields(id) ==
    CASE id \in DOMAIN ReadControl    -> ReadControl[id]
      [] id \in DOMAIN ReadMembership -> ReadMembership[id]
      [] id \in DOMAIN ReadPolicy     -> ReadPolicy[id]
      [] id \in DOMAIN ReadGovernance -> ReadGovernance[id]
      [] id \in DOMAIN ReadPaths      -> ReadPaths[id]
      [] OTHER                        -> ReadQueries[id]

Entries(id) == (IF id \in Contextless THEN <<>> ELSE ReadContext) \o ReadFields(id)

Valid(entry, value) ==
    /\ entry.valid = "id"         => value # ""
    /\ entry.valid = "generation" => value # 0
    /\ entry.valid = "selector"   =>
           value \in SetStateActions \cup RevocationReasons \cup PathStates
    /\ entry = List("scope")      => "" \notin value
    /\ entry = List("members")    =>
           \A i \in DOMAIN value : value[i].path_id # "" /\ value[i].generation # 0

Malformed == <<>>

\* decode_request() and the test that no byte is left.
Decoded(id, payload) ==
    LET entries == Entries(id)
    IN  IF /\ Len(payload) = Len(entries)
           /\ \A i \in DOMAIN entries : Valid(entries[i], payload[i])
        THEN [f \in DOMAIN NewRequest |->
                 IF \E i \in DOMAIN entries : entries[i].field = f
                 THEN payload[CHOOSE i \in DOMAIN entries : entries[i].field = f]
                 ELSE NewRequest[f]]
        ELSE Malformed

-----------------------------------------------------------------------------
(***************************************************************************)
(* The two ends.  A call is a method of the client and its arguments; the  *)
(* engine has the same methods (two of them under a longer name).          *)
(***************************************************************************)

Call(op, args)      == [op |-> op, args |-> args]
Message(id, fields) == [id |-> id, fields |-> fields]

\* The arguments of each method.
Arguments ==
    [register_publisher       |-> {"publisher", "worker_boot", "scope"},
     create_set               |-> {"key", "minimum", "admin", "conditional"},
     add_member               |-> {"set_id", "path_id", "generation"},
     add_members              |-> {"set_id", "members"},
     remove_member            |-> {"set_id", "member_id", "text"},
     withdraw_member          |-> {"set_id", "member_id", "text"},
     replace_member           |-> {"set_id", "member_id", "path_id", "generation", "text"},
     set_member_admin_enabled |-> {"set_id", "member_id", "enabled"},
     set_minimum              |-> {"set_id", "minimum"},
     set_conditional_policy   |-> {"set_id", "permitted"},
     set_admin_enabled        |-> {"set_id", "enabled"},
     publish_set              |-> {"set_id"},
     withdraw_set             |-> {"set_id", "text"},
     complete_withdrawal      |-> {"set_id"},
     revoke_set               |-> {"set_id", "revocation_reason", "text"},
     retire_set               |-> {"set_id", "text"},
     supersede_set            |-> {"predecessor", "successor"},
     revalidate_set           |-> {"set_id"},
     revalidate_member        |-> {"set_id", "member_id"},
     apply_path_authority     |-> {"path_id", "generation", "path_state"},
     declare_path_authority   |-> {"path_id", "generation", "path_state"},
     refresh_path             |-> {"path_id"},
     advance_epoch            |-> {"expected_epoch"},
     list_sets                |-> {},
     query_set                |-> {"set_id"},
     explain_set              |-> {"set_id"},
     request_snapshot         |-> {"set_id", "snapshot_id"}]

\* What callers fill: identities and generations that were parsed (a default one of
\* either is not valid, and a request with it cannot be decoded).
ValidArgument(f, value) ==
    /\ f \in {"publisher", "worker_boot", "key", "set_id", "member_id", "path_id",
              "snapshot_id", "predecessor", "successor"} => value # ""
    /\ f \in {"generation", "expected_epoch"} => value # 0
    /\ f \in {"admin", "conditional", "enabled", "permitted"} => value \in BOOLEAN
    /\ f = "revocation_reason" => value \in RevocationReasons
    /\ f = "path_state" => value \in PathStates
    /\ f = "scope" => "" \notin value
    /\ f = "members" => \A i \in DOMAIN value : value[i].path_id # "" /\ value[i].generation # 0

\* A call that a caller can make.
ProperCall(call) ==
    /\ call.op \in DOMAIN Arguments
    /\ call = Call(call.op, [f \in Arguments[call.op] |-> call.args[f]])
    /\ \A f \in Arguments[call.op] : ValidArgument(f, call.args[f])

\* The methods that send their arguments as they are, and their messages.
MembershipMethods ==
    [register_publisher |-> "REGISTER_PUBLISHER",
     create_set         |-> "CREATE_SET",
     add_member         |-> "ADD_MEMBER",
     add_members        |-> "ADD_MEMBERS",
     remove_member      |-> "REMOVE_MEMBER",
     withdraw_member    |-> "WITHDRAW_MEMBER",
     replace_member     |-> "REPLACE_MEMBER"]

EvidenceMethods ==
    [revoke_set             |-> "REVOKE_SET",
     retire_set             |-> "RETIRE_SET",
     revalidate_set         |-> "REVALIDATE_SET",
     revalidate_member      |-> "REVALIDATE_MEMBER",
     apply_path_authority   |-> "APPLY_PATH_AUTHORITY",
     declare_path_authority |-> "DECLARE_PATH_AUTHORITY",
     refresh_path           |-> "REFRESH_PATH"]

QueryMethods ==
    [list_sets        |-> "LIST_SETS",
     query_set        |-> "QUERY_SET",
     explain_set      |-> "EXPLAIN_SET",
     request_snapshot |-> "SNAPSHOT_REQUEST"]

PlainMethods == With(MembershipMethods, With(EvidenceMethods, QueryMethods))

\* publish_set(), withdraw_set() and complete_withdrawal() share a message.
StateMethods ==
    [publish_set |-> "PUBLISH", withdraw_set |-> "WITHDRAW",
     complete_withdrawal |-> "COMPLETE_WITHDRAWAL"]

\* The methods that choose or rename fields.
SettingMessage(op, a) ==
    CASE op = "set_admin_enabled" ->
             Message(IF a.enabled THEN "SET_ADMIN_ENABLE" ELSE "SET_ADMIN_DISABLE",
                     [set_id |-> a.set_id])
      [] op = "set_member_admin_enabled" ->
             Message(IF a.enabled THEN "MEMBER_ADMIN_ENABLE" ELSE "MEMBER_ADMIN_DISABLE",
                     [set_id |-> a.set_id, member_id |-> a.member_id])
      [] op = "set_minimum" ->
             Message("SET_MINIMUM", [set_id |-> a.set_id, number |-> a.minimum])
      [] op = "set_conditional_policy" ->
             Message("SET_CONDITIONAL_POLICY", [set_id |-> a.set_id, flag |-> a.permitted])
      [] op = "supersede_set" ->
             Message("SUPERSEDE_SET", [set_id |-> a.predecessor, text |-> a.successor])
      [] OTHER ->
             Message("EPOCH_ADVANCE", [number |-> a.expected_epoch])

\* The message and the fields that a method of the client fills.
Request(call) ==
    CASE call.op \in DOMAIN PlainMethods -> Message(PlainMethods[call.op], call.args)
      [] call.op \in DOMAIN StateMethods ->
             Message("ADVANCE_SET_STATE",
                     With(call.args, [state_action |-> StateMethods[call.op]]))
      [] OTHER -> SettingMessage(call.op, call.args)

PlainCall(op, r, fields) == Call(op, [f \in fields |-> r[f]])

DispatchMembership(id, r) ==
    CASE id = "CREATE_SET" -> PlainCall("create_set", r, {"key", "minimum", "admin", "conditional"})
      [] id = "ADD_MEMBER" -> PlainCall("add_member", r, {"set_id", "path_id", "generation"})
      [] id = "ADD_MEMBERS" -> PlainCall("add_members", r, {"set_id", "members"})
      [] id = "REMOVE_MEMBER" -> PlainCall("remove_member", r, {"set_id", "member_id", "text"})
      [] id = "WITHDRAW_MEMBER" -> PlainCall("withdraw_member", r, {"set_id", "member_id", "text"})
      [] id = "REPLACE_MEMBER" ->
             PlainCall("replace_member", r, {"set_id", "member_id", "path_id", "generation", "text"})
      [] id = "REVALIDATE_MEMBER" -> PlainCall("revalidate_member", r, {"set_id", "member_id"})
      [] OTHER ->
             Call("set_member_admin_enabled",
                  [set_id |-> r.set_id, member_id |-> r.member_id,
                   enabled |-> id = "MEMBER_ADMIN_ENABLE"])

DispatchSet(id, r) ==
    CASE id = "SET_MINIMUM" -> Call("set_minimum", [set_id |-> r.set_id, minimum |-> r.number])
      [] id = "SET_CONDITIONAL_POLICY" ->
             Call("set_conditional_policy", [set_id |-> r.set_id, permitted |-> r.flag])
      [] id \in {"SET_ADMIN_ENABLE", "SET_ADMIN_DISABLE"} ->
             Call("set_admin_enabled", [set_id |-> r.set_id, enabled |-> id = "SET_ADMIN_ENABLE"])
      [] id = "REVALIDATE_SET" -> PlainCall("revalidate_set", r, {"set_id"})
      [] id = "REVOKE_SET" -> PlainCall("revoke_set", r, {"set_id", "revocation_reason", "text"})
      [] id = "RETIRE_SET" -> PlainCall("retire_set", r, {"set_id", "text"})
      [] OTHER ->
             Call("supersede_set", [predecessor |-> r.set_id, successor |-> r.text])

\* Mutant: a withdrawal completes at once.
DispatchStateCompletes(r) ==
    IF r.state_action = "PUBLISH" THEN PlainCall("publish_set", r, {"set_id"})
    ELSE PlainCall("complete_withdrawal", r, {"set_id"})

\* Only a withdrawal keeps its text.
DispatchState(r) ==
    CASE r.state_action = "PUBLISH"  -> PlainCall("publish_set", r, {"set_id"})
      [] r.state_action = "WITHDRAW" -> PlainCall("withdraw_set", r, {"set_id", "text"})
      [] OTHER                       -> PlainCall("complete_withdrawal", r, {"set_id"})

DispatchPaths(id, r) ==
    CASE id = "APPLY_PATH_AUTHORITY" ->
             PlainCall("apply_path_authority", r, {"path_id", "generation", "path_state"})
      [] id = "DECLARE_PATH_AUTHORITY" ->
             PlainCall("declare_path_authority", r, {"path_id", "generation", "path_state"})
      [] OTHER -> PlainCall("refresh_path", r, {"path_id"})

DispatchQuery(id, r) ==
    CASE id = "LIST_SETS"   -> PlainCall("list_sets", r, {})
      [] id = "QUERY_SET"   -> PlainCall("query_set", r, {"set_id"})
      [] id = "EXPLAIN_SET" -> PlainCall("explain_set", r, {"set_id"})
      [] OTHER              -> PlainCall("request_snapshot", r, {"set_id", "snapshot_id"})

\* dispatch(): the call of the engine that a decoded request becomes.
Dispatched(id, r) ==
    CASE id = "REGISTER_PUBLISHER" ->
             PlainCall("register_publisher", r, {"publisher", "worker_boot", "scope"})
      [] id = "EPOCH_ADVANCE" -> Call("advance_epoch", [expected_epoch |-> r.number])
      [] id = "ADVANCE_SET_STATE" -> DispatchState(r)
      [] id \in Queries -> DispatchQuery(id, r)
      [] id \in DOMAIN ReadPaths -> DispatchPaths(id, r)
      [] id \in DOMAIN ReadMembership -> DispatchMembership(id, r)
      [] OTHER -> DispatchSet(id, r)
=============================================================================
