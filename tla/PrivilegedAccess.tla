-------------------------- MODULE PrivilegedAccess --------------------------
(***************************************************************************)
(* Break-glass grants and their projection to the authorization graph: the *)
(* request, step-up, approval, revocation and expiry of privileged_grant   *)
(* rows, the authz_tuple_outbox rows each transition leaves behind, the    *)
(* publisher that applies them to authz_tuple, and the reconciler that     *)
(* removes tuples the source of truth does not expect.                     *)
(*                                                                         *)
(* A service call is a READ COMMITTED transaction: it reads the grant      *)
(* without a lock, decides, and saves with an unconditional UPDATE when it *)
(* commits.  Fail stands for any error return, rollback or crash.  The     *)
(* audit event of a call commits with it, which is the subject of          *)
(* AuditTrail and left out here; so are the sessions a revocation ends.    *)
(***************************************************************************)
EXTENDS Integers, FiniteSets

CONSTANTS
  Grants,       \* grant ids
  Members,      \* memberships: requesters and approvers
  Assets,
  SubjectOf,    \* [Grants -> Members]: the requesting operator
  AssetOf,      \* [Grants -> Assets]: the registered asset it targets
  Required,     \* RequiredApprovals
  Handlers,     \* request handlers and the expiry job
  Publishers,   \* processes that run TuplePublisher.Publish
  Reconciling,  \* whether the reconciler runs
  Batch,        \* the batch argument of Publish
  MaxTx,        \* bound on the number of transactions
  History,      \* whether missed and raced are kept: no step depends on them
  None

ASSUME SubjectAssumption == SubjectOf \in [Grants -> Members] /\ AssetOf \in [Grants -> Assets]
ASSUME CountsAssumption == Required \in Nat /\ Batch \in Nat \ {0}
                           /\ MaxTx \in Nat /\ History \in BOOLEAN
ASSUME NoneAssumption == None \notin Grants /\ None \notin Members

VARIABLES
  status,     \* [Grants -> Status]: privileged_grant.status ("none": no row)
  approvals,  \* [Grants -> SUBSET Members]: grant_approval
  left,       \* memberships that were revoked
  expired,    \* whether the windows of the grants have passed
  clock,      \* transactions begun: the order of now() in the server
  tx,         \* [Handlers -> Tx]: the open transaction of a handler
  missed,     \* [Handlers -> SUBSET Grants]: saved by others since it began (history)
  raced,      \* grants that a call saved although it missed a save (history)
  outbox,     \* authz_tuple_outbox rows not yet published
  batch,      \* [Publishers -> SUBSET OutboxRow]: rows read, not yet applied
  tuples,     \* authz_tuple: [key -> grant whose window the tuple carries]
  rec         \* the reconciler: [pc, keys]

vars == <<status, approvals, left, expired, clock, tx, missed, raced,
          outbox, batch, tuples, rec>>

Status == {"none", "requested", "awaiting_approval", "active", "expired", "revoked"}

\* A has_active_grant tuple is identified by (user, relation, object).
KeyOf(g) == <<SubjectOf[g], AssetOf[g]>>
Keys     == Members \X Assets

OutboxRow == [grant : Grants, write : BOOLEAN, at : 1..MaxTx]

\* pc: what the handler has done so far; g, by: the arguments of the call; at:
\* when its transaction began; seen: the approvals read; due: the grants read.
Tx == [pc : {"idle", "open", "requested", "reopened", "stepup", "load", "approve",
             "revoke", "expire", "leave"},
       g : Grants \cup {None}, by : Members \cup {None}, at : 0..MaxTx,
       seen : SUBSET Members, due : SUBSET Grants]

NoTx == [pc |-> "idle", g |-> None, by |-> None, at |-> 0, seen |-> {}, due |-> {}]

Init == /\ status = [g \in Grants |-> "none"]
        /\ approvals = [g \in Grants |-> {}]
        /\ left = {} /\ expired = FALSE
        /\ clock = 0
        /\ tx = [h \in Handlers |-> NoTx]
        /\ missed = [h \in Handlers |-> {}] /\ raced = {}
        /\ outbox = {}
        /\ batch = [p \in Publishers |-> {}]
        /\ tuples = [k \in Keys |-> None]
        /\ rec = [pc |-> "idle", keys |-> {}]

-----------------------------------------------------------------------------
(* Transactions                                                            *)

\* Faulty variant: occurred_at is left to zero.
OpenUnstamped(h) ==
  /\ tx[h].pc \in {"idle", "requested"} /\ clock < MaxTx
  /\ clock' = clock + 1
  /\ tx' = [tx EXCEPT ![h].pc = IF @ = "idle" THEN "open" ELSE "reopened"]
  /\ UNCHANGED <<status, approvals, left, expired, missed, raced,
                 outbox, batch, tuples, rec>>

\* BEGIN: now(), the default of occurred_at, is fixed here, before any read.
Open(h) ==
  /\ tx[h].pc \in {"idle", "requested"} /\ clock < MaxTx
  /\ clock' = clock + 1
  /\ tx' = [tx EXCEPT ![h].pc = IF @ = "idle" THEN "open" ELSE "reopened", ![h].at = clock + 1]
  /\ UNCHANGED <<status, approvals, left, expired, missed, raced,
                 outbox, batch, tuples, rec>>

\* An open transaction makes its first read.
Read(h, from, t) ==
  /\ tx[h].pc = from
  /\ tx' = [tx EXCEPT ![h] = [t EXCEPT !.at = tx[h].at]]
  /\ UNCHANGED <<status, approvals, left, expired, clock, missed, raced,
                 outbox, batch, tuples, rec>>

\* Faulty variant: anything but a request is projected as a write.
ProjectEager(g, s, at) == [grant |-> g, write |-> s # "requested", at |-> at]

\* An active grant writes its tuple, any other status deletes it.
ProjectGrant(g, s, at) == [grant |-> g, write |-> s = "active", at |-> at]

\* History: the grants S are saved by h; the other open transactions, which
\* may have read them already, missed it.
Record(h, S) ==
  LET T == IF History THEN S ELSE {}
  IN  /\ raced' = raced \cup (T \cap missed[h])
      /\ missed' = [k \in Handlers |->
           IF k = h \/ tx[k].pc \in {"idle", "requested"} THEN {} ELSE missed[k] \cup T]

\* SaveDecision and enqueueGrantProjection on the grants S, then commit.
Save(h, S, s) ==
  /\ status' = [g \in Grants |-> IF g \in S THEN s ELSE status[g]]
  /\ outbox' = outbox \cup {ProjectGrant(g, s, tx[h].at) : g \in S}
  /\ Record(h, S)
  /\ UNCHANGED <<expired, clock, batch, tuples, rec>>

EndTx(h) == tx' = [tx EXCEPT ![h] = NoTx]

Fail(h) == /\ tx[h].pc # "idle"
           /\ EndTx(h)
           /\ missed' = [missed EXCEPT ![h] = {}]
           /\ UNCHANGED <<status, approvals, left, expired, clock, raced,
                          outbox, batch, tuples, rec>>

-----------------------------------------------------------------------------
(* Request and step-up (breakglass_orchestrator.go, boot/breakglass.go)    *)

\* The alert is out: Create, projection, commit.  The call goes on to PassStepUp.
Request(h, g) ==
  /\ tx[h].pc = "open"
  /\ status[g] = "none"
  /\ Save(h, {g}, "requested")
  /\ tx' = [tx EXCEPT ![h] = [NoTx EXCEPT !.pc = "requested", !.g = g]]
  /\ UNCHANGED <<approvals, left>>

ReadStepUp(h) ==
  /\ tx[h].g # None /\ status[tx[h].g] = "requested"
  /\ Read(h, "reopened", [tx[h] EXCEPT !.pc = "stepup"])

PassStepUp(h) ==
  /\ tx[h].pc = "stepup"
  /\ Save(h, {tx[h].g}, IF Required = 0 THEN "active" ELSE "awaiting_approval")
  /\ EndTx(h)
  /\ UNCHANGED <<approvals, left>>

-----------------------------------------------------------------------------
(* Approval (privileged_access_service.go, domain/privileged_grant.go)     *)

\* Faulty variant: the requester may approve their own grant.
ReadSelfApproval(h, g, a) ==
  /\ status[g] = "awaiting_approval"
  /\ Read(h, "open", [NoTx EXCEPT !.pc = "load", !.g = g, !.by = a])

\* Get reads the row: awaiting approval, and the approver is not its subject.
ReadApproval(h, g, a) ==
  /\ status[g] = "awaiting_approval"
  /\ a # SubjectOf[g]
  /\ Read(h, "open", [NoTx EXCEPT !.pc = "load", !.g = g, !.by = a])

\* loadApprovals, a second query; a repeated approver is refused.
LoadApprovals(h) ==
  /\ tx[h].g # None /\ tx[h].by \notin approvals[tx[h].g]
  /\ Read(h, "load", [tx[h] EXCEPT !.pc = "approve", !.seen = approvals[tx[h].g]])

\* Approve: the approval is inserted; the status is decided on what was read.
Approve(h) ==
  LET all == tx[h].seen \cup {tx[h].by}
  IN  /\ tx[h].pc = "approve"
      /\ approvals' = [approvals EXCEPT ![tx[h].g] = @ \cup all]
      /\ Save(h, {tx[h].g}, IF Cardinality(all) >= Required THEN "active"
                            ELSE "awaiting_approval")
      /\ EndTx(h)
      /\ UNCHANGED left

-----------------------------------------------------------------------------
(* Revocation, departure and expiry                                        *)

Active(S) == {g \in S : status[g] = "active"}

\* Faulty variant: a grant still awaiting approval may be revoked.
ReadAnyRevocation(h, g) ==
  /\ status[g] # "none"
  /\ Read(h, "open", [NoTx EXCEPT !.pc = "revoke", !.due = {g}])

ReadRevocation(h, g) ==
  /\ status[g] = "active"
  /\ Read(h, "open", [NoTx EXCEPT !.pc = "revoke", !.due = {g}])

Revoke(h) ==
  /\ tx[h].pc = "revoke"
  /\ Save(h, tx[h].due, "revoked")
  /\ EndTx(h)
  /\ UNCHANGED <<approvals, left>>

\* RevokeMembership: the member's active grants are listed, then revoked with it.
ReadDeparture(h, m) ==
  Read(h, "open", [NoTx EXCEPT !.pc = "leave", !.by = m,
                               !.due = Active({g \in Grants : SubjectOf[g] = m})])

RevokeMembership(h) ==
  /\ tx[h].pc = "leave"
  /\ left' = left \cup {tx[h].by}
  /\ Save(h, tx[h].due, "revoked")
  /\ EndTx(h)
  /\ UNCHANGED approvals

\* The windows of the grants pass.
Tick == /\ ~expired
        /\ expired' = TRUE
        /\ UNCHANGED <<status, approvals, left, clock, tx, missed, raced,
                       outbox, batch, tuples, rec>>

\* ListActiveExpired, then Expire on each.
ReadExpired(h) ==
  /\ expired /\ Active(Grants) # {}
  /\ Read(h, "open", [NoTx EXCEPT !.pc = "expire", !.due = Active(Grants)])

ExpireDue(h) ==
  /\ tx[h].pc = "expire"
  /\ Save(h, tx[h].due, "expired")
  /\ EndTx(h)
  /\ UNCHANGED <<approvals, left>>

-----------------------------------------------------------------------------
(* The publisher (authz_publisher.go) and the reconciler                   *)

\* Faulty variant: ORDER BY occurred_at DESC within the batch.
Newest(R) == {r \in R : \A q \in R : r.at >= q.at}

\* Rows of R in the order of occurred_at; ids, which are random, break ties.
Oldest(R) == {r \in R : \A q \in R : r.at <= q.at}
Prefixes(R) == {B \in SUBSET R : /\ Cardinality(B) <= Batch
                                 /\ Cardinality(B) = Batch \/ B = R
                                 /\ \A r \in B, q \in R \ B : r.at <= q.at}

\* Faulty variant: only a backlog that fits in one batch is read.
ReadSmallBacklog(p) ==
  /\ batch[p] = {} /\ outbox # {} /\ Cardinality(outbox) < Batch
  /\ batch' = [batch EXCEPT ![p] = outbox]
  /\ UNCHANGED <<status, approvals, left, expired, clock, tx, missed, raced,
                 outbox, tuples, rec>>

\* Publish reads up to Batch unpublished rows, oldest first.
ReadBatch(p) ==
  /\ batch[p] = {} /\ outbox # {}
  /\ \E B \in Prefixes(outbox) : batch' = [batch EXCEPT ![p] = B]
  /\ UNCHANGED <<status, approvals, left, expired, clock, tx, missed, raced,
                 outbox, tuples, rec>>

\* applyTupleUpdate: an upsert that refreshes the window, or a delete.
ApplyTupleUpdate(r) ==
  tuples' = [tuples EXCEPT ![KeyOf(r.grant)] = IF r.write THEN r.grant ELSE None]

\* One row is applied and marked in one transaction; a row another publisher
\* has taken is skipped.
PublishRow(p) ==
  \E r \in Oldest(batch[p]) :
    /\ batch' = [batch EXCEPT ![p] = @ \ {r}]
    /\ \/ /\ r \in outbox
          /\ outbox' = outbox \ {r}
          /\ ApplyTupleUpdate(r)
       \/ /\ r \notin outbox
          /\ UNCHANGED <<outbox, tuples>>
    /\ UNCHANGED <<status, approvals, left, expired, clock, tx, missed, raced, rec>>

\* An error ends the tick; the rows left are read again at the next one.
PublishFail(p) ==
  /\ batch[p] # {}
  /\ batch' = [batch EXCEPT ![p] = {}]
  /\ UNCHANGED <<status, approvals, left, expired, clock, tx, missed, raced,
                 outbox, tuples, rec>>

\* tenantExpectedTuples: the active grants of active memberships.
Expected == {KeyOf(g) : g \in {x \in Active(Grants) : SubjectOf[x] \notin left}}
Present  == {k \in Keys : tuples[k] # None}

RecStep(from, to, K) ==
  /\ Reconciling /\ rec.pc = from
  /\ rec' = [pc |-> to, keys |-> K]
  /\ UNCHANGED <<status, approvals, left, expired, clock, tx, missed, raced,
                 outbox, batch>>

\* ReconcileTenant: the expected set, the tuples of the store, and the removal of
\* the difference are three transactions.
RecExpected == RecStep("idle", "expected", Expected) /\ UNCHANGED tuples

\* Faulty variant: the difference is taken the wrong way round.
RecMissing == RecStep("expected", "diff", rec.keys \ Present) /\ UNCHANGED tuples

RecDiff == RecStep("expected", "diff", Present \ rec.keys) /\ UNCHANGED tuples

RecRemove == /\ RecStep("diff", "idle", {})
             /\ tuples' = [k \in Keys |-> IF k \in rec.keys THEN None ELSE tuples[k]]

RecFail == rec.pc # "idle" /\ RecStep(rec.pc, "idle", {}) /\ UNCHANGED tuples

-----------------------------------------------------------------------------
Handler(h) ==
  \/ Open(h) \/ ReadStepUp(h) \/ PassStepUp(h) \/ LoadApprovals(h) \/ Approve(h)
  \/ Revoke(h) \/ RevokeMembership(h) \/ ReadExpired(h) \/ ExpireDue(h) \/ Fail(h)
  \/ \E g \in Grants : Request(h, g) \/ ReadRevocation(h, g)
  \/ \E g \in Grants, a \in Members : ReadApproval(h, g, a)
  \/ \E m \in Members : ReadDeparture(h, m)

Publisher(p) == ReadBatch(p) \/ PublishRow(p) \/ PublishFail(p)

Reconciler == RecExpected \/ RecDiff \/ RecRemove \/ RecFail

Next == \/ \E h \in Handlers : Handler(h)
        \/ \E p \in Publishers : Publisher(p)
        \/ Reconciler
        \/ Tick

Spec == Init /\ [][Next]_vars

\* main.go starts both jobs; a tick that fails is retried, so a step that is
\* possible again and again is eventually taken.
Fairness ==
  /\ \A p \in Publishers : SF_vars(ReadBatch(p)) /\ SF_vars(PublishRow(p))
  /\ SF_vars(RecExpected) /\ SF_vars(RecDiff) /\ SF_vars(RecRemove)

FairSpec == Spec /\ Fairness

-----------------------------------------------------------------------------
(* Properties                                                              *)

\* Every row, transaction, batch and tuple is well formed.
TypeOK ==
  /\ status \in [Grants -> Status]
  /\ approvals \in [Grants -> SUBSET Members]
  /\ left \subseteq Members /\ expired \in BOOLEAN
  /\ clock \in 0..MaxTx
  /\ tx \in [Handlers -> Tx]
  /\ missed \in [Handlers -> SUBSET Grants] /\ raced \subseteq Grants
  /\ outbox \subseteq OutboxRow
  /\ batch \in [Publishers -> SUBSET OutboxRow]
  /\ tuples \in [Keys -> Grants \cup {None}]
  /\ rec \in [pc : {"idle", "expected", "diff"}, keys : SUBSET Keys]

\* A grant that is or was active had its quorum of distinct approvers, none of
\* them its subject, however the reads and saves of concurrent approvals,
\* revocations and expiries interleave.
ActiveHasQuorum ==
  \A g \in Grants : status[g] \in {"active", "expired", "revoked"} =>
    Cardinality(approvals[g]) >= Required /\ SubjectOf[g] \notin approvals[g]

\* A tuple of the graph, and every row that will write one, carries the window of
\* a grant on the same member and asset that reached its quorum, whatever order
\* the publishers apply the outbox in.
TupleBacked ==
  /\ \A k \in Keys : tuples[k] # None =>
       KeyOf(tuples[k]) = k /\ Cardinality(approvals[tuples[k]]) >= Required
  /\ \A r \in outbox : r.write => Cardinality(approvals[r.grant]) >= Required

\* The edges of the state machine: creation, those documented on GrantStatus,
\* and PassStepUp's activation of a grant that needs no approval.
Edges == {<<"none", "requested">>, <<"requested", "awaiting_approval">>,
          <<"requested", "active">>, <<"awaiting_approval", "active">>,
          <<"awaiting_approval", "expired">>, <<"active", "expired">>, <<"active", "revoked">>}

\* Every change of a grant's status is an edge of the machine; in particular a
\* terminal grant stays terminal (GrantStatus).
GrantMachine == [][\A g \in Grants : status'[g] # status[g] =>
                     <<status[g], status'[g]>> \in Edges]_status

\* The same, of a grant on which no call overwrote a save it missed: calls that
\* overlap are the only way out of the machine, because SaveDecision does not
\* look at the status it replaces.
UnracedMachine == [][\A g \in Grants \ raced' : status'[g] # status[g] =>
                       <<status[g], status'[g]>> \in Edges]_status

\* A grant with its quorum of approvals does not stay awaiting approval: "when
\* the count reaches RequiredApprovals the grant becomes active" (Approve).
QuorumActivates ==
  \A g \in Grants : status[g] = "awaiting_approval" => Cardinality(approvals[g]) < Required

\* A member that left holds no active grant (RevokeMembership's cascade).
DepartedHoldsNothing == \A g \in Active(Grants) : SubjectOf[g] \notin left

\* Nothing is in flight: no open transaction, nothing to publish or reconcile.
Quiet == /\ \A h \in Handlers : tx[h].pc = "idle"
         /\ outbox = {} /\ rec.pc = "idle"

\* When nothing is in flight the graph holds a tuple for every active grant
\* (ProjectGrant, TuplePublisher).
ActiveProjected == Quiet => \A g \in Active(Grants) : tuples[KeyOf(g)] # None

\* When nothing is in flight, a grant on which no call overwrote a save it
\* missed has its tuple exactly if it is active, although several publishers
\* drain the outbox, fail and retry: "the projection follows the lifecycle"
\* (ProjectGrant).  Two grants of one member on one asset share a tuple, so
\* this is about grants with a key of their own.
UnracedProjection ==
  Quiet => \A g \in Grants \ raced :
             (\A f \in Grants \ {g} : KeyOf(f) # KeyOf(g)) =>
               (tuples[KeyOf(g)] # None <=> status[g] = "active")

\* Every update a transaction enqueued is eventually applied, although ticks may fail and
\* late transactions insert rows in front of it.
EventuallyPublished == \A n \in 1..MaxTx :
  LET owed == {r \in outbox : r.at = n} IN owed # {} ~> owed = {}

\* A tuple that no active grant backs is eventually removed or backed again,
\* even when out-of-order publication left it behind.
StaleAccessHeals == \A k \in Keys : k \in Present \ Expected ~> k \notin Present \ Expected
=============================================================================
