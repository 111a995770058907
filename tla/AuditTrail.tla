----------------------------- MODULE AuditTrail -----------------------------
(***************************************************************************)
(* The hash-chained audit trail of internal/adapters/postgres: audit_event *)
(* and audit_chain_head, the synchronous writer that seals events inside   *)
(* the caller's transaction, the asynchronous queue and the tenant-switch  *)
(* outbox, and the drainers that move their rows into the chain.           *)
(*                                                                         *)
(* A transaction is READ COMMITTED: what it writes is private until        *)
(* Commit.  It takes two kinds of row locks and keeps them to its end: the *)
(* lock of a business row it UPDATEs (a grant, a membership, an identity)  *)
(* and the FOR UPDATE lock on an organization's chain head.  Abort stands  *)
(* for every way a transaction ends without committing: an error returned  *)
(* to WithTx, a panic, a crash of the process, and the server's deadlock   *)
(* detector choosing it as the victim of a cycle of waiting transactions.  *)
(* SHA-256 is collision free: a hash is the sequence of what went into it. *)
(***************************************************************************)
EXTENDS Integers, FiniteSets, Sequences

CONSTANTS
  Orgs,            \* organization ids: integers, so that ORDER BY means something
  Handlers,        \* request handlers
  QueueDrainers,   \* processes that run AuditQueue.Drain
  OutboxDrainers,  \* processes that run SwitchOutboxDrainer.Drain
  SyncOps,         \* operations that emit through AppendTx in their transaction
  QueueOps,        \* operations that emit through AuditQueue.Enqueue
  SwitchOps,       \* tenant switches: they emit through session_event_outbox
  Rows,            \* the business rows that synchronous operations UPDATE
  Script,          \* [SyncOps -> Seq(Round)]: what each of them does, in order
  OrgOf,           \* [QueueOps \cup SwitchOps -> Orgs]: where the event belongs
  Batch,           \* the batch argument of both Drains
  MaxClock,        \* bound on the number of stamped (asynchronous) attempts
  None             \* no operation, no process

\* One turn of a handler's body: it updates a row (or none), then calls
\* emitAudit once for each organization of a set (or for none: a service built
\* with a nil emitter is not instrumented).
Round == [row : Rows \cup {None}, orgs : SUBSET Orgs]

AsyncOps == QueueOps \cup SwitchOps
Ops      == SyncOps \cup AsyncOps
Drainers == QueueDrainers \cup OutboxDrainers
Procs    == Handlers \cup Drainers

ASSUME OrgsAssumption == Orgs \subseteq Int
ASSUME KindsAssumption ==
  /\ SyncOps \cap AsyncOps = {} /\ QueueOps \cap SwitchOps = {}
  /\ QueueDrainers \cap OutboxDrainers = {} /\ Handlers \cap Drainers = {}
  /\ None \notin Ops /\ None \notin Procs /\ None \notin Rows
ASSUME ScriptAssumption ==
  /\ Script \in [SyncOps -> Seq(Round)]
  /\ \A op \in SyncOps : \A i \in 1..Len(Script[op]) :
       Script[op][i].row # None \/ Script[op][i].orgs # {}
ASSUME OrgOfAssumption == OrgOf \in [AsyncOps -> Orgs]
ASSUME BoundsAssumption == Batch \in Nat \ {0} /\ MaxClock \in Nat

VARIABLES
  trail,      \* audit_event: the committed rows
  head,       \* audit_chain_head: [Orgs -> ChainHead], committed
  queue,      \* audit_event_queue: the committed rows
  outbox,     \* session_event_outbox: the committed rows ...
  published,  \* ... and those whose published_at is set
  done,       \* operations whose transaction committed
  clock,      \* stamps handed out so far
  stamp,      \* [AsyncOps -> 0..MaxClock]: UUIDv7 / occurred_at of the event
  lock,       \* [Orgs -> Procs \cup {None}]: FOR UPDATE on the chain head
  cur,        \* [Procs -> Ops \cup {None}]: operation of the open transaction
  rowLock,    \* [Rows -> Procs \cup {None}]: who updated the row, not committed
  todo,       \* [Procs -> Seq(Round)]: what it still has to do
  txRows,     \* [Procs -> SUBSET Row]: rows it inserted, not committed
  txHead,     \* [Procs -> [Orgs -> ChainHead]]: heads it wrote, not committed
  batch       \* [Drainers -> SUBSET AsyncOps]: rows read and not yet processed

vars == <<trail, head, queue, outbox, published, done, clock, stamp,
          lock, rowLock, cur, todo, txRows, txHead, batch>>

Event == Ops \X Nat
Hash  == [org : Orgs \cup {None}, nonce : Ops \cup {None}, evs : Seq(Event)]
ChainHead == [seq : Nat, hash : Hash, nonce : Ops \cup {None}]
Row   == [org : Orgs, seq : Nat, ev : Event, prev : Hash, hash : Hash]

\* The head of an organization without a row in audit_chain_head.
NoHead == [seq |-> 0, hash |-> [org |-> None, nonce |-> None, evs |-> <<>>],
           nonce |-> None]

Init == /\ trail = {}
        /\ head = [o \in Orgs |-> NoHead]
        /\ queue = {} /\ outbox = {} /\ published = {} /\ done = {}
        /\ clock = 0
        /\ stamp = [op \in AsyncOps |-> 0]
        /\ lock = [o \in Orgs |-> None]
        /\ rowLock = [r \in Rows |-> None]
        /\ cur = [p \in Procs |-> None]
        /\ todo = [p \in Procs |-> <<>>]
        /\ txRows = [p \in Procs |-> {}]
        /\ txHead = [p \in Procs |-> [o \in Orgs |-> NoHead]]
        /\ batch = [d \in Drainers |-> {}]

-----------------------------------------------------------------------------
(* The chain (internal/domain/audit_chain.go)                              *)

\* The genesis of an organization's chain depends on a nonce drawn by the
\* transaction that creates the chain head.
GenesisHash(o, nonce) == [org |-> o, nonce |-> nonce, evs |-> <<>>]

\* SHA-256(prev || canonical event).
ChainHash(prev, ev) ==
  [org |-> prev.org, nonce |-> prev.nonce, evs |-> Append(prev.evs, ev)]

\* SealEvent: the row of event ev, number seq of organization o's chain.
SealEvent(o, ev, prev, seq) ==
  [org |-> o, seq |-> seq, ev |-> ev, prev |-> prev, hash |-> ChainHash(prev, ev)]

-----------------------------------------------------------------------------
(* The statements of a transaction                                         *)

\* p has more to do, and its next statement belongs to the round Current(p).
InRound(p) == cur[p] # None /\ todo[p] # <<>>
Current(p) == Head(todo[p])

\* What is left of rounds q once only round s remains of the first one.
Remaining(q, s) == IF s.row = None /\ s.orgs = {} THEN Tail(q) ELSE <<s>> \o Tail(q)

\* The next statement of p is the UPDATE of row r.
NextRow(p, r) == InRound(p) /\ Current(p).row = r /\ r # None

\* Faulty variant: the organizations of a cascade come in any order.
NextOrgUnsorted(p, o) == /\ InRound(p) /\ Current(p).row = None
                         /\ o \in Current(p).orgs

\* The next statement of p is emitAudit for organization o.  Organizations
\* come in the order of identityMembershipOrgs (ORDER BY organization_id).
NextOrg(p, o) == /\ InRound(p) /\ Current(p).row = None
                 /\ o \in Current(p).orgs
                 /\ \A u \in Current(p).orgs : o <= u

\* The UPDATE of a grant, a membership or an identity.  It waits for whoever
\* updated the row and has not ended.
UpdateRow(p) ==
  /\ \E r \in Rows :
       /\ NextRow(p, r)
       /\ rowLock[r] \in {None, p}
       /\ rowLock' = [rowLock EXCEPT ![r] = p]
  /\ todo' = [todo EXCEPT ![p] =
                Remaining(@, [row |-> None, orgs |-> Current(p).orgs])]
  /\ UNCHANGED <<trail, head, queue, outbox, published, done, clock, stamp,
                 lock, cur, txRows, txHead, batch>>

\* What lockChainHead returns to p once it has the row lock: the version p
\* itself wrote, else the committed row, else the row p inserts with a fresh
\* nonce (INSERT ... ON CONFLICT DO NOTHING).
LockedHead(p, o) ==
  IF lock[o] = p THEN txHead[p][o]
  ELSE IF head[o].nonce = None
       THEN [seq |-> 0, hash |-> GenesisHash(o, cur[p]), nonce |-> cur[p]]
       ELSE head[o]

\* lockChainHead, SealEvent, insertAuditEvent and advanceChainHead on o.  An
\* operation numbers its events by the rounds it has left.
SealOn(p, o) ==
  LET h   == LockedHead(p, o)
      row == SealEvent(o, <<cur[p], Len(todo[p])>>, h.hash, h.seq + 1)
  IN  /\ txRows' = [txRows EXCEPT ![p] = @ \cup {row}]
      /\ txHead' = [txHead EXCEPT ![p][o] =
                      [seq |-> row.seq, hash |-> row.hash, nonce |-> h.nonce]]
      /\ todo' = [todo EXCEPT ![p] =
                    Remaining(@, [row |-> None, orgs |-> Current(p).orgs \ {o}])]

\* Faulty variant: the head is read without FOR UPDATE.
SealWithoutLock(p) ==
  /\ \E o \in Orgs :
       /\ NextOrg(p, o)
       /\ lock' = [lock EXCEPT ![o] = p]
       /\ SealOn(p, o)
  /\ UNCHANGED <<trail, head, queue, outbox, published, done, clock, stamp,
                 rowLock, cur, batch>>

\* sealEventInTx: the next event of p's transaction.  It waits for the head
\* lock, which p then keeps until its transaction ends.
SealEventInTx(p) ==
  /\ \E o \in Orgs :
       /\ NextOrg(p, o)
       /\ lock[o] \in {None, p}
       /\ lock' = [lock EXCEPT ![o] = p]
       /\ SealOn(p, o)
  /\ UNCHANGED <<trail, head, queue, outbox, published, done, clock, stamp,
                 rowLock, cur, batch>>

\* The transaction of p is over: its locks and private versions are gone.
EndTx(p) == /\ lock' = [o \in Orgs |-> IF lock[o] = p THEN None ELSE lock[o]]
            /\ rowLock' = [r \in Rows |-> IF rowLock[r] = p THEN None ELSE rowLock[r]]
            /\ cur' = [cur EXCEPT ![p] = None]
            /\ todo' = [todo EXCEPT ![p] = <<>>]
            /\ txRows' = [txRows EXCEPT ![p] = {}]
            /\ txHead' = [txHead EXCEPT ![p] = [o \in Orgs |-> NoHead]]

\* What p wrote becomes visible to everyone.
Publish(p) ==
  /\ trail' = trail \cup txRows[p]
  /\ head' = [o \in Orgs |-> IF lock[o] = p THEN txHead[p][o] ELSE head[o]]

\* The function run by WithTx returned nil: p is at tx.Commit.
ReadyToCommit(p) == cur[p] # None /\ todo[p] = <<>>

-----------------------------------------------------------------------------
(* Request handlers                                                        *)

\* An operation is tried by one handler at a time, until it commits once.
Startable(p, op) == /\ cur[p] = None
                    /\ op \notin done
                    /\ \A q \in Procs : cur[q] # op

\* A transaction that audits synchronously: a membership revocation updates
\* the membership, then updates each of its grants and seals an event for it,
\* then seals one of its own; an identity cascade updates the identity and
\* its memberships and seals one event in every organization of it; a decision
\* on a grant updates the grant and seals one event.
BeginSync(p, op) ==
  /\ Startable(p, op)
  /\ cur' = [cur EXCEPT ![p] = op]
  /\ todo' = [todo EXCEPT ![p] = Script[op]]
  /\ UNCHANGED <<trail, head, queue, outbox, published, done, clock, stamp,
                 lock, rowLock, txRows, txHead, batch>>

\* A transaction that calls Enqueue or EnqueueTenantSwitch: the event is
\* stamped now, its row appears when the transaction commits.
BeginAsync(p, op) ==
  /\ Startable(p, op)
  /\ clock < MaxClock
  /\ clock' = clock + 1
  /\ stamp' = [stamp EXCEPT ![op] = clock + 1]
  /\ cur' = [cur EXCEPT ![p] = op]
  /\ UNCHANGED <<trail, head, queue, outbox, published, done,
                 lock, rowLock, todo, txRows, txHead, batch>>

\* The business effect, the sealed events and the rows left for the drainers
\* commit together.
Commit(p) ==
  /\ ReadyToCommit(p)
  /\ Publish(p)
  /\ done' = done \cup {cur[p]}
  /\ queue' = queue \cup ({cur[p]} \cap QueueOps)
  /\ outbox' = outbox \cup ({cur[p]} \cap SwitchOps)
  /\ EndTx(p)
  /\ UNCHANGED <<published, clock, stamp, batch>>

\* Faulty variant: the events are committed on their own, before the business
\* transaction they belong to is rolled back.
AbortKeepsEvents(p) ==
  /\ cur[p] # None
  /\ Publish(p)
  /\ EndTx(p)
  /\ UNCHANGED <<queue, outbox, published, done, clock, stamp, batch>>

\* Faulty variant: the error path returns without a rollback, and the
\* connection keeps the row locks of the transaction.
AbortWithoutRollback(p) ==
  /\ cur[p] # None
  /\ cur' = [cur EXCEPT ![p] = None]
  /\ todo' = [todo EXCEPT ![p] = <<>>]
  /\ UNCHANGED <<trail, head, queue, outbox, published, done, clock, stamp,
                 lock, rowLock, txRows, txHead, batch>>

\* WithTx rolls back, or the server does: the process died, or the deadlock
\* detector chose p.
Abort(p) ==
  /\ cur[p] # None
  /\ EndTx(p)
  /\ UNCHANGED <<trail, head, queue, outbox, published, done, clock, stamp, batch>>

-----------------------------------------------------------------------------
(* Drainers                                                                *)

\* The rows a drainer may take.
Undrained(d) == IF d \in QueueDrainers THEN queue ELSE outbox \ published

\* ORDER BY organization_id, id for the queue; ORDER BY occurred_at, id for
\* the outbox.
Before(d, x, y) ==
  IF d \in QueueDrainers
  THEN OrgOf[x] < OrgOf[y] \/ (OrgOf[x] = OrgOf[y] /\ stamp[x] < stamp[y])
  ELSE stamp[x] < stamp[y]

\* Faulty variant: the rows are deleted as they are read.
DestructiveRead(d) ==
  /\ cur[d] = None /\ batch[d] = {}
  /\ Undrained(d) # {}
  /\ batch' = [batch EXCEPT ![d] =
       {x \in Undrained(d) :
          Cardinality({y \in Undrained(d) : Before(d, y, x)}) < Batch}]
  /\ queue' = queue \ batch'[d]
  /\ UNCHANGED <<trail, head, outbox, published, done, clock, stamp,
                 lock, rowLock, cur, todo, txRows, txHead>>

\* The short transaction that reads the batch: the first Batch rows.
DrainRead(d) ==
  /\ cur[d] = None /\ batch[d] = {}
  /\ Undrained(d) # {}
  /\ batch' = [batch EXCEPT ![d] =
       {x \in Undrained(d) :
          Cardinality({y \in Undrained(d) : Before(d, y, x)}) < Batch}]
  /\ UNCHANGED <<trail, head, queue, outbox, published, done, clock, stamp,
                 lock, rowLock, cur, todo, txRows, txHead>>

\* The transaction of the next item of the batch begins.
DrainTake(d) ==
  /\ cur[d] = None
  /\ \E x \in batch[d] :
       /\ \A y \in batch[d] : ~Before(d, y, x)
       /\ cur' = [cur EXCEPT ![d] = x]
       /\ todo' = [todo EXCEPT ![d] = <<[row |-> None, orgs |-> {OrgOf[x]}]>>]
  /\ UNCHANGED <<trail, head, queue, outbox, published, done, clock, stamp,
                 lock, rowLock, txRows, txHead, batch>>

\* Faulty variant: RowsAffected is not looked at.
DrainUnchecked(d) ==
  /\ ReadyToCommit(d)
  /\ Publish(d)
  /\ queue' = queue \ ({cur[d]} \cap QueueOps)
  /\ published' = published \cup ({cur[d]} \cap SwitchOps)
  /\ batch' = [batch EXCEPT ![d] = @ \ {cur[d]}]
  /\ EndTx(d)
  /\ UNCHANGED <<outbox, done, clock, stamp>>

\* Faulty variant: a queue row is marked in the outbox table.
DrainWrongTable(d) ==
  /\ ReadyToCommit(d)
  /\ cur[d] \in Undrained(d)
  /\ Publish(d)
  /\ published' = published \cup {cur[d]}
  /\ batch' = [batch EXCEPT ![d] = @ \ {cur[d]}]
  /\ EndTx(d)
  /\ UNCHANGED <<queue, outbox, done, clock, stamp>>

\* Faulty variant: the outbox row is not marked published.
DrainUnmarked(d) ==
  /\ ReadyToCommit(d)
  /\ cur[d] \in Undrained(d)
  /\ Publish(d)
  /\ queue' = queue \ ({cur[d]} \cap QueueOps)
  /\ batch' = [batch EXCEPT ![d] = @ \ {cur[d]}]
  /\ EndTx(d)
  /\ UNCHANGED <<outbox, published, done, clock, stamp>>

\* The row is still there: it leaves the queue (DELETE) or is marked
\* published, together with the event it became.
DrainCommit(d) ==
  /\ ReadyToCommit(d)
  /\ cur[d] \in Undrained(d)
  /\ Publish(d)
  /\ queue' = queue \ ({cur[d]} \cap QueueOps)
  /\ published' = published \cup ({cur[d]} \cap SwitchOps)
  /\ batch' = [batch EXCEPT ![d] = @ \ {cur[d]}]
  /\ EndTx(d)
  /\ UNCHANGED <<outbox, done, clock, stamp>>

\* Drain returns an error: the rest of the batch is forgotten, the rows stay
\* where they are.
DrainReturns(d) ==
  /\ batch' = [batch EXCEPT ![d] = {}]
  /\ EndTx(d)
  /\ UNCHANGED <<trail, head, queue, outbox, published, done, clock, stamp>>

\* The row was consumed by another drainer (RowsAffected # 1): roll back.
DrainLost(d) == ReadyToCommit(d) /\ cur[d] \notin Undrained(d) /\ DrainReturns(d)

\* The database failed, the event could not be built, or the process died.
DrainFail(d) == (cur[d] # None \/ batch[d] # {}) /\ DrainReturns(d)

-----------------------------------------------------------------------------

HandlerStep(p) == \/ \E op \in SyncOps : BeginSync(p, op)
                  \/ \E op \in AsyncOps : BeginAsync(p, op)
                  \/ UpdateRow(p)
                  \/ SealEventInTx(p)
                  \/ Commit(p)
                  \/ Abort(p)

DrainerStep(d) == \/ DrainRead(d)
                  \/ DrainTake(d)
                  \/ SealEventInTx(d)
                  \/ DrainCommit(d)
                  \/ DrainLost(d)
                  \/ DrainFail(d)

Next == \/ \E p \in Handlers : HandlerStep(p)
        \/ \E d \in Drainers : DrainerStep(d)

Spec == Init /\ [][Next]_vars

-----------------------------------------------------------------------------
(* Waiting                                                                 *)

\* p waits for a chain head, or a business row, that q holds.
WaitsForHead(p, q) == p # q /\ \E o \in Orgs : NextOrg(p, o) /\ lock[o] = q
WaitsForRow(p, q)  == p # q /\ \E r \in Rows : NextRow(p, r) /\ rowLock[r] = q
WaitsFor(p, q)     == WaitsForHead(p, q) \/ WaitsForRow(p, q)

Waiting == {p \in Procs : \E q \in Procs : WaitsFor(p, q)}

\* p is part of a cycle of transactions each waiting for the next.  Every
\* transaction waits for at most one other, so a set whose members all wait,
\* and are all waited for, inside the set consists of cycles.
InWaitCycle(p) ==
  \E S \in SUBSET Waiting :
    /\ p \in S
    /\ \A q \in S : /\ \E r \in S : WaitsFor(q, r)
                    /\ \E r \in S : WaitsFor(r, q)

\* A handler or drainer inside a transaction keeps running, the server hands
\* a contended row lock to each waiter in turn, and its deadlock detector
\* (deadlock_timeout) ends a cycle by making some transaction of it fail.
Fairness ==
  /\ \A p \in Handlers : /\ SF_vars(UpdateRow(p) \/ SealEventInTx(p))
                         /\ WF_vars(Commit(p))
                         /\ WF_vars(InWaitCycle(p) /\ Abort(p))
  /\ \A d \in Drainers : /\ SF_vars(SealEventInTx(d))
                         /\ WF_vars(DrainCommit(d) \/ DrainLost(d))

FairSpec == Spec /\ Fairness

-----------------------------------------------------------------------------
(* Properties                                                              *)

\* Every variable has its type.
TypeOK ==
  /\ trail \subseteq Row
  /\ head \in [Orgs -> ChainHead]
  /\ queue \subseteq QueueOps
  /\ outbox \subseteq SwitchOps
  /\ published \subseteq outbox
  /\ done \subseteq Ops
  /\ clock \in 0..MaxClock
  /\ stamp \in [AsyncOps -> 0..MaxClock]
  /\ lock \in [Orgs -> Procs \cup {None}]
  /\ cur \in [Procs -> Ops \cup {None}]
  /\ rowLock \in [Rows -> Procs \cup {None}]
  /\ todo \in [Procs -> Seq(Round)]
  /\ txRows \in [Procs -> SUBSET Row]
  /\ txHead \in [Procs -> [Orgs -> ChainHead]]
  /\ batch \in [Drainers -> SUBSET AsyncOps]

\* S is an intact chain of organization o that ends at head h: numbers 1..h.seq
\* without gap or repetition, the first row linked to the genesis of h, every
\* other to the hash of its predecessor, every hash that of its own row, and
\* h the hash of the last row: what domain.VerifyChain accepts.
IntactChain(S, o, h) ==
  /\ \A r \in S : r.seq \in 1..h.seq
  /\ \A i \in 1..h.seq : \E r \in S : r.seq = i
  /\ \A r, s \in S : r.seq = s.seq => r = s
  /\ \A r \in S : r.hash = ChainHash(r.prev, r.ev)
  /\ \A r \in S : r.seq = 1 => r.prev = GenesisHash(o, h.nonce)
  /\ \A r, s \in S : s.seq = r.seq + 1 => s.prev = r.hash
  /\ \A r \in S : r.seq = h.seq => r.hash = h.hash

RowsOf(S, o) == {r \in S : r.org = o}

\* Whatever the interleaving of handlers and drainers, the committed rows of
\* every organization are an intact chain that ends at its committed head: the
\* FOR UPDATE lock of lockChainHead serializes sealEventInTx (audit_writer.go).
ChainIntact == \A o \in Orgs : IntactChain(RowsOf(trail, o), o, head[o])

\* Rows of an operation's events in an organization.
Chained(op, o) == {r \in trail : r.org = o /\ r.ev[1] = op}

\* The numbers of the events of op in organization o: see SealOn.
Numbers(op, o) == {Len(Script[op]) + 1 - i :
                     i \in {j \in DOMAIN Script[op] : o \in Script[op][j].orgs}}

\* I-5.4, audit or deny: a synchronous operation has taken effect if and only
\* if all its events are in the chains of all its organizations; there is never
\* a part of them (emitAudit inside the business transaction).
AuditOrDeny ==
  \A op \in SyncOps : \A o \in Orgs :
    {r.ev : r \in Chained(op, o)} =
       IF op \in done THEN {<<op, k>> : k \in Numbers(op, o)} ELSE {}

\* No event is chained twice, whatever drainers run concurrently
\* ("roll back so we do not double-chain", audit_queue.go).
ChainedOnce == \A r, s \in trail : r.org = s.org /\ r.ev = s.ev => r = s

\* An asynchronous event is never lost: once its operation took effect it
\* waits in the queue or outbox or is in the chain, never both.
OwedOrChained ==
  \A op \in AsyncOps :
    LET waits   == op \in queue \cup (outbox \ published)
        chained == Chained(op, OrgOf[op]) # {}
    IN  IF op \in done THEN waits # chained ELSE ~waits /\ ~chained

\* INV-2: no step changes or removes a row, and a new row only ever extends
\* its chain beyond the committed head.
AppendOnly ==
  [][ /\ trail \subseteq trail'
      /\ \A r \in trail' \ trail : r.seq > head[r.org].seq ]_vars

\* Transactions never wait for each other in a cycle of chain heads alone:
\* cascades that hold several heads at once take them in one order
\* (identityMembershipOrgs).  Cycles that include a grant row do exist:
\* RevokeMembership and ExpireDue hold the head when they update their second
\* grant, whose own revocation holds the grant and waits for the head.
NoHeadCycle ==
  \A S \in SUBSET Waiting \ {{}} :
    ~ \A p \in S : \E q \in S : WaitsForHead(p, q)

\* Every transaction ends, by committing or not, although transactions hold
\* several heads and rows at once: no lock outlives its transaction (WithTx
\* rolls back on every path), no cycle of heads forms, and the cycles through
\* grant rows are ended by the server's deadlock detector.
TxEnds == \A p \in Procs : cur[p] # None ~> cur[p] = None

-----------------------------------------------------------------------------
(* The trail implements the abstract log                                   *)

Log == INSTANCE AuditLog WITH
  Emits <- [op \in SyncOps |-> [o \in Orgs |-> Numbers(op, o)]],
  pending <- queue \cup (outbox \ published),
  log <- [o \in Orgs |->
            [i \in 1..head[o].seq |->
               (CHOOSE r \in trail : r.org = o /\ r.seq = i).ev]]

\* Locks, transactions, batches and rollbacks are invisible: each step of the
\* trail is a step of the append-only, exactly-once log, or no step at all.
ImplementsLog == Log!Spec
=============================================================================
