----------------------------- MODULE MCExchange -----------------------------
(***************************************************************************)
(* Exchange for TLC: which methods the callers use.                        *)
(***************************************************************************)
EXTENDS Exchange, TLC

CONSTANTS a1, a2   \* attempt ids

\* Scopes do not matter to sessions.
NoSets == {}

Symmetry == Permutations(Sessions) \cup Permutations(Boots) \cup Permutations({a1, a2})

Context0 == [attempt |-> a1, expected_set |-> 0, expected_member |-> 0]

TwoAttempts  == {Context0, [Context0 EXCEPT !.attempt = a2]}
Expectations == {Context0, [attempt |-> a2, expected_set |-> 2, expected_member |-> 3]}

OnSet(op)             == Call(op, [set_id |-> "s1"])
OnMember(op)          == Call(op, [set_id |-> "s1", member_id |-> "m1"])
OnMemberFor(op, text) == Call(op, [set_id |-> "s1", member_id |-> "m1", text |-> text])
OnSetFor(op, text)    == Call(op, [set_id |-> "s1", text |-> text])
OnPath(op, state)     == Call(op, [path_id |-> "p1", generation |-> 2, path_state |-> state])

RegisterCalls ==
    {Call("register_publisher", [publisher |-> p, worker_boot |-> b, scope |-> {}]) :
         p \in Publishers, b \in Boots}

\* A worker that registers, publishes and ends the epoch, and does so again.
RetryCalls ==
    RegisterCalls \cup {OnSet("publish_set"), Call("advance_epoch", [expected_epoch |-> 1])}

\* It registers first, and again only while it has not been told that it is registered.
RegistersFirst ==
    Len(asked') > Len(asked) =>
        (client.publisher = "" <=> asked'[Len(asked')].call.op = "register_publisher")

\* Every method of the client, with texts that fit and a text that does not.
MethodCalls ==
    RegisterCalls \cup
    {Call("create_set", [key |-> "k1", minimum |-> 2, admin |-> a, conditional |-> ~a]) :
         a \in BOOLEAN} \cup
    {Call("add_member", [set_id |-> "s1", path_id |-> "p1", generation |-> 2]),
     Call("add_members", [set_id |-> "s1",
                          members |-> <<[path_id |-> "p1", generation |-> 2],
                                        [path_id |-> "p2", generation |-> 1]>>]),
     Call("replace_member", [set_id |-> "s1", member_id |-> "m1", path_id |-> "p2",
                             generation |-> 2, text |-> "why"]),
     Call("set_minimum", [set_id |-> "s1", minimum |-> 3]),
     Call("advance_epoch", [expected_epoch |-> 1]),
     Call("advance_epoch", [expected_epoch |-> 2]),
     Call("refresh_path", [path_id |-> "p1"]),
     Call("list_sets", <<>>),
     Call("request_snapshot", [set_id |-> "s1", snapshot_id |-> "n1"]),
     Call("supersede_set", [predecessor |-> "s1", successor |-> "s2"]),
     OnMember("revalidate_member")} \cup
    {OnSet(op) : op \in {"publish_set", "complete_withdrawal", "revalidate_set", "query_set",
                         "explain_set"}} \cup
    {OnMemberFor(op, text) : op \in {"remove_member", "withdraw_member"},
                             text \in {"why", TooLong}} \cup
    {OnSetFor(op, "why") : op \in {"withdraw_set", "retire_set"}} \cup
    {Call("set_admin_enabled", [set_id |-> "s1", enabled |-> e]) : e \in BOOLEAN} \cup
    {Call("set_member_admin_enabled", [set_id |-> "s1", member_id |-> "m1", enabled |-> e]) :
         e \in BOOLEAN} \cup
    {Call("set_conditional_policy", [set_id |-> "s1", permitted |-> e]) : e \in BOOLEAN} \cup
    {Call("revoke_set", [set_id |-> "s1", revocation_reason |-> r, text |-> "why"]) :
         r \in {"ADMINISTRATIVE", "SECURITY"}} \cup
    {OnPath(op, state) : op \in {"apply_path_authority", "declare_path_authority"},
                         state \in {"AUTHORIZED", "REVOKED"}}
=============================================================================
