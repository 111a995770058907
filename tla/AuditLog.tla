------------------------------ MODULE AuditLog ------------------------------
(***************************************************************************)
(* What the audit trail promises, without locks, transactions or batches:  *)
(* one append-only log per organization, to which an operation's events    *)
(* are added once, together, in the same step that makes the operation     *)
(* take effect (synchronous operations, AuditWriter.AppendTx) or at some   *)
(* later step (operations whose event waits in audit_event_queue or in     *)
(* session_event_outbox).  AuditTrail is shown to implement this.          *)
(***************************************************************************)
EXTENDS Naturals, Sequences, FiniteSets

CONSTANTS
  Orgs,       \* organizations: one log each
  SyncOps,    \* operations audited inside their own transaction
  AsyncOps,   \* operations whose event is recorded later
  Emits,      \* [SyncOps -> [Orgs -> SUBSET Nat]]: the numbers of its events
  OrgOf       \* [AsyncOps -> Orgs]: the log an asynchronous event belongs to

VARIABLES
  done,       \* operations that took effect
  pending,    \* asynchronous operations whose event is not in the log yet
  log         \* [Orgs -> Seq(event)]; an event is <<operation, number>>

vars == <<done, pending, log>>

\* The events of a synchronous operation for one organization, oldest first
\* (an operation numbers them downwards).
Burst(op, o) ==
  [i \in 1..Cardinality(Emits[op][o]) |->
     <<op, CHOOSE k \in Emits[op][o] :
             Cardinality({j \in Emits[op][o] : j > k}) = i - 1>>]

Init == /\ done = {}
        /\ pending = {}
        /\ log = [o \in Orgs |-> <<>>]

\* A synchronous operation takes effect and is logged everywhere, in one step.
Perform(op) == /\ op \notin done
               /\ done' = done \cup {op}
               /\ log' = [o \in Orgs |-> log[o] \o Burst(op, o)]
               /\ UNCHANGED pending

\* An asynchronous operation takes effect; its event is owed to the log.
Submit(op) == /\ op \notin done
              /\ done' = done \cup {op}
              /\ pending' = pending \cup {op}
              /\ UNCHANGED log

\* An owed event reaches the log.
Settle(op) == /\ op \in pending
              /\ pending' = pending \ {op}
              /\ log' = [log EXCEPT ![OrgOf[op]] = Append(@, <<op, 1>>)]
              /\ UNCHANGED done

Next == \/ \E op \in SyncOps : Perform(op)
        \/ \E op \in AsyncOps : Submit(op) \/ Settle(op)

Spec == Init /\ [][Next]_vars
=============================================================================
