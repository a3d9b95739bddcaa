--------------------------- MODULE MCAccessCaches ---------------------------
(* An instance of AccessCaches for TLC: an administrator and a member. *)
EXTENDS AccessCaches, TLC

CONSTANTS admin, member, root, editor, user, manage, edit, q1, q2

MCUsers == {admin, member}
MCRoles == {root, editor, user}
MCAdminRoles == {root}
MCPerms == {manage, edit}
MCRequests == {q1, q2}
MCPriority == (root :> 1000) @@ (editor :> 600) @@ (user :> 100)
MCLegacyRole == [u \in MCUsers |-> user]
MCStaticGrants == {<<root, manage>>, <<user, edit>>}
MCRoutePerm == [op \in Mutations |-> manage]
MCInitRoles == (admin :> {root}) @@ (member :> {})
MCEditorRoles == (admin :> {root}) @@ (member :> {editor})
MCInitGrants == {}
MCNamedRoles == {editor}
MCNamedPerms == {edit}

Symmetry == Permutations(Requests)
=============================================================================
