------------------------------ MODULE MCAdminApi ------------------------------
(***************************************************************************)
(* Tokens and bounds for checking AdminApi.                                *)
(***************************************************************************)
EXTENDS AdminApi, TLC

CONSTANTS alice, bob

Claims(kid, sub, realm, client, exp, iss) ==
    [kid |-> kid, sub |-> sub, realm |-> realm, client |-> client, exp |-> exp,
     iss |-> iss, aud |-> TRUE]

\* Two admins, one by a realm and one by a client role, signed with the first
\* and the second key; a user who is none; and a token nobody should accept.
SomeTokens ==
    {Claims(1, alice, <<"offline_access", "ADMIN">>, <<>>, 2, TRUE),
     Claims(2, bob, <<>>, <<"user", "admin">>, Never, TRUE),
     Claims(1, bob, <<"offline_access">>, <<>>, Never, TRUE),
     Claims(1, None, <<>>, <<"admin">>, Never, FALSE)}

\* Each form of creation and of listing: with a unique name, temporary,
\* incomplete; of entries and of events.  The endpoints that are left out do
\* less of the same on another table.
SomePayloads ==
    {p \in AllPayloads :
       IF p.op = "list" THEN p.table \in {"whitelist_location", "admin_audit"}
       ELSE \/ p.table = "admin_user"
            \/ p.table = "whitelist_location" /\ p.temporary /\ p.complete
            \/ p.table = "whitelist_device" /\ ~p.complete}

AllUsers == {_extract_user_context(t) : t \in {u \in SomeTokens : u.sub # None}}

\* One request asks for the audit log after the two others have arrived.
CONSTANT Auditor

Symmetry == Permutations(Requests \ {Auditor}) \cup Permutations(Hosts)

Started(r) == request[r].pc # "none" \/ call[r].pc # "none"

\* Two requests meet everything the specification allows.  The Auditor's comes
\* third, and is followed only where the others are admins' that found their
\* key sets, no key or process has been replaced, and it lists the audit log: so
\* a page overflows, with events stamped and committed in either order.
Bounds ==
    Started(Auditor) =>
      /\ key[2].from = Never
      /\ clock <= 1
      /\ \A r \in Requests :
           /\ call[r].pc = "fresh"
           /\ request[r].pc \in {"accepted", "row", "audit", "created", "error", "listed"}
           /\ _require_admin(request[r].user)
           /\ request[r].pc = "listed" =>
                r = Auditor /\ request[r].payload.table = "admin_audit"

=============================================================================
