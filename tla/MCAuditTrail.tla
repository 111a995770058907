---------------------------- MODULE MCAuditTrail ----------------------------
(* Instances of AuditTrail for TLC: two organizations.                     *)
EXTENDS AuditTrail, TLC

CONSTANTS h1, h2, h3, d1, d2, x1, x2,    \* handlers, queue and outbox drainers
          c1, c2, m1, v1, u1,        \* synchronous operations
          q1, q2, s1, s2,            \* asynchronous operations
          i1, i2, n1, g1, g2         \* identities, a membership, its grants

MCOrgs == {1, 2}

Emit(row, orgs) == [row |-> row, orgs |-> orgs]

\* c1, c2: cascades of identities that are members of both organizations; i1
\*   has membership n1, the other memberships and the sessions are contended
\*   by no one else here;
\* m1: RevokeMembership of n1, whose active grants are g1 and g2;
\* v1: PrivilegedAccessService.Revoke of g2;
\* u1: a decision on g1 by a service built without an emitter.
MCScript == (c1 :> <<Emit(i1, {}), Emit(n1, {1, 2})>>)
         @@ (c2 :> <<Emit(i2, {1, 2})>>)
         @@ (m1 :> <<Emit(n1, {}), Emit(g1, {1}), Emit(g2, {1}), Emit(None, {1})>>)
         @@ (v1 :> <<Emit(g2, {1})>>)
         @@ (u1 :> <<Emit(g1, {})>>)
ScriptOf == [op \in SyncOps |-> MCScript[op]]
MCOrgOf == [op \in QueueOps \cup SwitchOps |-> 1]

\* Drainers of one table are interchangeable.
DrainerSymmetry == Permutations({d1, d2}) \cup Permutations({x1, x2})
=============================================================================
