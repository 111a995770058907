-------------------------- MODULE AuditTrailProofs --------------------------
(***************************************************************************)
(* Theorems about AuditTrail, for any number of organizations, handlers,   *)
(* drainers and operations.  The chain is intact because the transaction   *)
(* that holds the lock of an organization's head sees, together with its   *)
(* own uncommitted rows, an intact chain that ends at its own version of   *)
(* the head, and because nobody else can write to that organization.       *)
(***************************************************************************)
EXTENDS AuditTrail, TLAPS

\* A head is either absent or beyond the genesis: advanceChainHead runs in
\* every transaction that locks the head.
HeadOK(h) == (h.nonce = None) <=> (h.seq = 0)

\* Chain heads are locked, and rows written, by open transactions only.
OnlyOpen ==
  \A p \in Procs : cur[p] = None => txRows[p] = {} /\ \A o \in Orgs : lock[o] # p

\* A transaction writes rows only where it holds the lock.
RowsUnderLock == \A p \in Procs : \A r \in txRows[p] : lock[r.org] = p

\* p's uncommitted rows in o extend the committed chain of o.
Extends(p, o) ==
  /\ txHead[p][o].seq > 0 /\ txHead[p][o].nonce # None
  /\ txHead[p][o].seq >= head[o].seq
  /\ \A r \in txRows[p] : r.org = o => r.seq > head[o].seq
  /\ IntactChain(RowsOf(trail \cup txRows[p], o), o, txHead[p][o])

LockDiscipline ==
  /\ OnlyOpen
  /\ RowsUnderLock
  /\ \A o \in Orgs : HeadOK(head[o])
  /\ \A p \in Procs, o \in Orgs : lock[o] = p => Extends(p, o)

\* The inductive invariant.
IInv == TypeOK /\ LockDiscipline /\ ChainIntact

-----------------------------------------------------------------------------
(* Lemmas about the chain                                                  *)

\* What domain.SealEvent builds on top of an intact chain is an intact chain
\* again, one event longer, that ends at the head advanceChainHead writes.
LEMMA ExtendChain ==
  ASSUME NEW S, NEW o, NEW h, NEW ev,
         h.seq \in Nat,
         h.seq = 0 => h.hash = GenesisHash(o, h.nonce),
         IntactChain(S, o, h),
         NEW row, row = SealEvent(o, ev, h.hash, h.seq + 1)
  PROVE  IntactChain(S \cup {row}, o,
                     [seq |-> row.seq, hash |-> row.hash, nonce |-> h.nonce])
<1> DEFINE g == [seq |-> row.seq, hash |-> row.hash, nonce |-> h.nonce]
           T == S \cup {row}
<1>1. /\ row.seq = h.seq + 1 /\ row.prev = h.hash /\ row.ev = ev
      /\ row.hash = ChainHash(row.prev, row.ev)
  BY DEF SealEvent
<1>2. g.seq = row.seq /\ g.hash = row.hash /\ g.nonce = h.nonce
  OBVIOUS
<1>3. \A r \in S : r.seq \in 1..h.seq
  BY DEF IntactChain
<1> HIDE DEF g
<1>4. \A r \in T : r.seq \in 1..g.seq
  BY <1>1, <1>2, <1>3
<1>5. \A i \in 1..g.seq : \E r \in T : r.seq = i
  <2> SUFFICES ASSUME NEW i \in 1..g.seq PROVE \E r \in T : r.seq = i
    OBVIOUS
  <2>1. CASE i = h.seq + 1
    BY <2>1, <1>1
  <2>2. CASE i \in 1..h.seq
    BY <2>2 DEF IntactChain
  <2> QED BY <2>1, <2>2, <1>1, <1>2
<1>6. \A r, s \in T : r.seq = s.seq => r = s
  <2>1. \A r \in S : r.seq # row.seq
    BY <1>1, <1>3
  <2>2. \A r, s \in S : r.seq = s.seq => r = s
    BY DEF IntactChain
  <2> QED BY <2>1, <2>2
<1>7. \A r \in T : r.hash = ChainHash(r.prev, r.ev)
  BY <1>1 DEF IntactChain
<1>8. \A r \in T : r.seq = 1 => r.prev = GenesisHash(o, g.nonce)
  <2>1. row.seq = 1 => row.prev = GenesisHash(o, g.nonce)
    BY <1>1, <1>2
  <2>2. \A r \in S : r.seq = 1 => r.prev = GenesisHash(o, g.nonce)
    BY <1>2 DEF IntactChain
  <2> QED BY <2>1, <2>2
<1>9. \A r, s \in T : s.seq = r.seq + 1 => s.prev = r.hash
  <2>1. \A r, s \in S : s.seq = r.seq + 1 => s.prev = r.hash
    BY DEF IntactChain
  <2>2. \A r \in S : row.seq = r.seq + 1 => row.prev = r.hash
    <3>1. \A r \in S : r.seq = h.seq => r.hash = h.hash
      BY DEF IntactChain
    <3> QED BY <3>1, <1>1, <1>3
  <2>3. \A s \in S : s.seq # row.seq + 1
    BY <1>1, <1>3
  <2>4. row.seq # row.seq + 1
    BY <1>1
  <2> QED BY <2>1, <2>2, <2>3, <2>4
<1>10. \A r \in T : r.seq = g.seq => r.hash = g.hash
  BY <1>1, <1>2, <1>3
<1>11. IntactChain(T, o, g)
  BY <1>4, <1>5, <1>6, <1>7, <1>8, <1>9, <1>10 DEF IntactChain
<1> QED BY <1>11 DEF g

-----------------------------------------------------------------------------
(* Type correctness                                                        *)

\* The absent row of audit_chain_head has the type of a head.
LEMMA NoHeadType == NoHead \in ChainHead
BY DEF NoHead, ChainHead, Hash

\* The empty database is well typed.
LEMMA InitType == Init => TypeOK
BY NoHeadType, BoundsAssumption DEF Init, TypeOK, Procs

\* What is left of a handler's rounds is a sequence of rounds.
LEMMA RemainingType ==
  ASSUME NEW q \in Seq(Round), q # <<>>, NEW s \in Round
  PROVE  Remaining(q, s) \in Seq(Round)
<1>1. Tail(q) \in Seq(Round)
  OBVIOUS
<1>2. <<s>> \o Tail(q) \in Seq(Round)
  <2>1. <<s>> \in Seq(Round)
    OBVIOUS
  <2> QED BY <1>1, <2>1
<1> QED BY <1>1, <1>2 DEF Remaining

\* The round a transaction is in is a round.
LEMMA CurrentType ==
  ASSUME TypeOK, NEW p \in Procs, InRound(p)
  PROVE  /\ todo[p] \in Seq(Round) /\ todo[p] # <<>> /\ Len(todo[p]) \in Nat
         /\ Current(p) \in Round
<1>1. todo[p] \in Seq(Round) /\ todo[p] # <<>>
  BY DEF TypeOK, InRound
<1>2. Head(todo[p]) \in Round
  BY <1>1
<1> QED BY <1>1, <1>2 DEF Current

\* The head a transaction builds on and the row it adds have their types.
LEMMA SealType ==
  ASSUME TypeOK, NEW p \in Procs, NEW o \in Orgs, InRound(p)
  PROVE  /\ LockedHead(p, o) \in ChainHead
         /\ \A h \in ChainHead :
              LET row == SealEvent(o, <<cur[p], Len(todo[p])>>, h.hash, h.seq + 1)
              IN  /\ row \in Row
                  /\ [seq |-> row.seq, hash |-> row.hash, nonce |-> h.nonce] \in ChainHead
<1>1. cur[p] \in Ops /\ <<cur[p], Len(todo[p])>> \in Event
  BY CurrentType DEF TypeOK, Event, InRound
<1>2. LockedHead(p, o) \in ChainHead
  <2>1. CASE lock[o] = p
    BY <2>1 DEF LockedHead, TypeOK
  <2>2. CASE lock[o] # p /\ head[o].nonce = None
    <3>1. GenesisHash(o, cur[p]) \in Hash
      BY <1>1 DEF GenesisHash, Hash
    <3> QED BY <1>1, <2>2, <3>1 DEF LockedHead, ChainHead
  <2>3. CASE lock[o] # p /\ head[o].nonce # None
    BY <2>3 DEF LockedHead, TypeOK
  <2> QED BY <2>1, <2>2, <2>3
<1>3. ASSUME NEW h \in ChainHead
      PROVE LET row == SealEvent(o, <<cur[p], Len(todo[p])>>, h.hash, h.seq + 1)
            IN  /\ row \in Row
                /\ [seq |-> row.seq, hash |-> row.hash, nonce |-> h.nonce] \in ChainHead
  <2>1. h.seq \in Nat /\ h.hash \in Hash /\ h.nonce \in Ops \cup {None}
    BY DEF ChainHead
  <2>2. ASSUME NEW ev \in Event PROVE ChainHash(h.hash, ev) \in Hash
    BY <2>1, <2>2 DEF ChainHash, Hash
  <2>3. ChainHash(h.hash, <<cur[p], Len(todo[p])>>) \in Hash
    BY <1>1, <2>2
  <2> QED BY <1>1, <2>1, <2>3 DEF SealEvent, Row, ChainHead
<1> QED BY <1>2, <1>3

\* sealEventInTx keeps every variable in its type.
LEMMA SealKeepsType ==
  ASSUME TypeOK, NEW p \in Procs, SealEventInTx(p)
  PROVE  TypeOK'
<1>1. PICK o \in Orgs : /\ NextOrg(p, o)
                        /\ lock' = [lock EXCEPT ![o] = p]
                        /\ SealOn(p, o)
  BY DEF SealEventInTx
<1>0. InRound(p)
  BY <1>1 DEF NextOrg
<1> DEFINE h == LockedHead(p, o)
           row == SealEvent(o, <<cur[p], Len(todo[p])>>, h.hash, h.seq + 1)
           g == [seq |-> row.seq, hash |-> row.hash, nonce |-> h.nonce]
           rest == [row |-> None, orgs |-> Current(p).orgs \ {o}]
<1>2. h \in ChainHead /\ row \in Row /\ g \in ChainHead
  BY <1>0, SealType
<1>3. /\ txRows' = [txRows EXCEPT ![p] = @ \cup {row}]
      /\ txHead' = [txHead EXCEPT ![p][o] = g]
      /\ todo' = [todo EXCEPT ![p] = Remaining(@, rest)]
  BY <1>1 DEF SealOn
<1>8. rest \in Round
  BY <1>0, CurrentType DEF Round
<1> HIDE DEF h, row, g, rest
<1>4. txRows' \in [Procs -> SUBSET Row]
  BY <1>2, <1>3 DEF TypeOK
<1>5. txHead' \in [Procs -> [Orgs -> ChainHead]]
  BY <1>2, <1>3 DEF TypeOK
<1>6. todo' \in [Procs -> Seq(Round)]
  <2>1. Remaining(todo[p], rest) \in Seq(Round)
    BY <1>0, <1>8, CurrentType, RemainingType
  <2> QED BY <1>3, <2>1 DEF TypeOK
<1>7. lock' \in [Orgs -> Procs \cup {None}]
  BY <1>1 DEF TypeOK
<1> QED BY <1>4, <1>5, <1>6, <1>7 DEF TypeOK, SealEventInTx

\* The end of a WithTx transaction clears what it held, within its type.
LEMMA EndTxKeepsType ==
  ASSUME TypeOK, NEW p \in Procs, EndTx(p)
  PROVE  /\ lock' \in [Orgs -> Procs \cup {None}]
         /\ cur' \in [Procs -> Ops \cup {None}]
         /\ rowLock' \in [Rows -> Procs \cup {None}]
         /\ todo' \in [Procs -> Seq(Round)]
         /\ txRows' \in [Procs -> SUBSET Row]
         /\ txHead' \in [Procs -> [Orgs -> ChainHead]]
BY NoHeadType DEF TypeOK, EndTx

\* The UPDATE of a business row touches its lock and the rounds left only.
LEMMA UpdateKeepsType ==
  ASSUME TypeOK, NEW p \in Procs, UpdateRow(p)
  PROVE  TypeOK'
<1> DEFINE rest == [row |-> None, orgs |-> Current(p).orgs]
<1>1. PICK r \in Rows : /\ NextRow(p, r)
                        /\ rowLock' = [rowLock EXCEPT ![r] = p]
  BY DEF UpdateRow
<1>2. InRound(p)
  BY <1>1 DEF NextRow
<1>3. rest \in Round
  BY <1>2, CurrentType DEF Round
<1>4. Remaining(todo[p], rest) \in Seq(Round)
  BY <1>2, <1>3, CurrentType, RemainingType
<1>5. todo' = [todo EXCEPT ![p] = Remaining(@, rest)]
  BY DEF UpdateRow
<1> HIDE DEF rest
<1>6. todo' \in [Procs -> Seq(Round)]
  BY <1>4, <1>5 DEF TypeOK
<1>7. rowLock' \in [Rows -> Procs \cup {None}]
  BY <1>1 DEF TypeOK
<1> QED BY <1>6, <1>7 DEF TypeOK, UpdateRow

\* A commit adds well-typed rows and heads to the trail.
LEMMA PublishKeepsType ==
  ASSUME TypeOK, NEW p \in Procs, Publish(p)
  PROVE  trail' \subseteq Row /\ head' \in [Orgs -> ChainHead]
BY DEF TypeOK, Publish

\* So do the transactions of a request handler, from begin to commit or rollback.
LEMMA HandlerKeepsType ==
  ASSUME TypeOK, NEW p \in Handlers, HandlerStep(p)
  PROVE  TypeOK'
<1>0. p \in Procs
  BY DEF Procs
<1>1. ASSUME NEW op \in SyncOps, BeginSync(p, op) PROVE TypeOK'
  BY <1>0, <1>1, ScriptAssumption DEF BeginSync, TypeOK, Ops
<1>2. ASSUME NEW op \in AsyncOps, BeginAsync(p, op) PROVE TypeOK'
  BY <1>0, <1>2, BoundsAssumption DEF BeginAsync, TypeOK, Ops
<1>3. CASE SealEventInTx(p)
  BY <1>0, <1>3, SealKeepsType
<1>4. CASE Commit(p)
  <2>1. cur[p] \in Ops
    BY <1>0, <1>4 DEF Commit, ReadyToCommit, TypeOK
  <2> QED BY <1>0, <1>4, <2>1, EndTxKeepsType, PublishKeepsType DEF Commit, TypeOK
<1>5. CASE Abort(p)
  BY <1>0, <1>5, EndTxKeepsType DEF Abort, TypeOK
<1>6. CASE UpdateRow(p)
  BY <1>0, <1>6, UpdateKeepsType
<1> QED BY <1>1, <1>2, <1>3, <1>4, <1>5, <1>6 DEF HandlerStep

\* So do the steps of both drains (AuditQueue.Drain, SwitchOutboxDrainer.Drain).
LEMMA DrainerKeepsType ==
  ASSUME TypeOK, NEW d \in Drainers, DrainerStep(d)
  PROVE  TypeOK'
<1>0. d \in Procs
  BY DEF Procs
<1>1. CASE DrainRead(d)
  <2>1. Undrained(d) \subseteq AsyncOps
    BY DEF Undrained, TypeOK, AsyncOps
  <2>2. batch' \in [Drainers -> SUBSET AsyncOps]
    BY <1>1, <2>1 DEF DrainRead, TypeOK
  <2> QED BY <1>1, <2>2 DEF DrainRead, TypeOK
<1>2. CASE DrainTake(d)
  <2>1. PICK x \in batch[d] :
          /\ cur' = [cur EXCEPT ![d] = x]
          /\ todo' = [todo EXCEPT ![d] = <<[row |-> None, orgs |-> {OrgOf[x]}]>>]
    BY <1>2 DEF DrainTake
  <2>2. x \in AsyncOps /\ x \in Ops
    BY DEF TypeOK, Ops
  <2>3. [row |-> None, orgs |-> {OrgOf[x]}] \in Round
    BY <2>2, OrgOfAssumption DEF Round
  <2>4. /\ cur' \in [Procs -> Ops \cup {None}]
        /\ todo' \in [Procs -> Seq(Round)]
    BY <1>0, <2>1, <2>2, <2>3 DEF TypeOK
  <2> QED BY <1>2, <2>4 DEF DrainTake, TypeOK
<1>3. CASE SealEventInTx(d)
  BY <1>0, <1>3, SealKeepsType
<1>4. CASE DrainCommit(d)
  <2>1. published' \subseteq outbox
    BY <1>4, KindsAssumption DEF DrainCommit, Undrained, TypeOK, Drainers, AsyncOps
  <2> QED BY <1>0, <1>4, <2>1, EndTxKeepsType, PublishKeepsType DEF DrainCommit, TypeOK
<1>5. CASE DrainLost(d)
  BY <1>0, <1>5, EndTxKeepsType DEF DrainLost, DrainReturns, TypeOK
<1>6. CASE DrainFail(d)
  BY <1>0, <1>6, EndTxKeepsType DEF DrainFail, DrainReturns, TypeOK
<1> QED BY <1>1, <1>2, <1>3, <1>4, <1>5, <1>6 DEF DrainerStep

\* Types are inductive.
LEMMA NextKeepsType == TypeOK /\ [Next]_vars => TypeOK'
<1> SUFFICES ASSUME TypeOK, [Next]_vars PROVE TypeOK'
  OBVIOUS
<1>1. CASE Next
  BY <1>1, HandlerKeepsType, DrainerKeepsType DEF Next
<1>2. CASE UNCHANGED vars
  BY <1>2 DEF TypeOK, vars
<1> QED BY <1>1, <1>2

\* The variables of the trail, the queue, the outbox and the transactions keep
\* their types; in particular only outbox rows are ever marked published.
THEOREM TypeCorrect == Spec => []TypeOK
BY InitType, NextKeepsType, PTL DEF Spec

-----------------------------------------------------------------------------
(* The chains stay intact                                                  *)

\* lockChainHead hands the holder an intact chain to extend: its own version,
\* the committed one, or the empty chain with a fresh genesis.
LEMMA LockedHeadIntact ==
  ASSUME IInv, NEW p \in Procs, NEW o \in Orgs, cur[p] # None,
         lock[o] \in {None, p}
  PROVE  LET h == LockedHead(p, o) IN
         /\ h.seq \in Nat
         /\ h.nonce # None
         /\ h.seq = 0 => h.hash = GenesisHash(o, h.nonce)
         /\ h.seq >= head[o].seq
         /\ IntactChain(RowsOf(trail \cup txRows[p], o), o, h)
<1> DEFINE h == LockedHead(p, o)
<1>0. head[o].seq \in Nat /\ HeadOK(head[o]) /\ txHead[p][o].seq \in Nat
  BY DEF IInv, TypeOK, LockDiscipline, ChainHead
<1>1. CASE lock[o] = p
  <2>1. h = txHead[p][o] /\ Extends(p, o)
    BY <1>1 DEF LockedHead, IInv, LockDiscipline
  <2> QED BY <1>0, <2>1 DEF Extends
<1>2. ASSUME lock[o] # p PROVE RowsOf(trail \cup txRows[p], o) = RowsOf(trail, o)
  BY <1>2 DEF RowsOf, IInv, LockDiscipline, RowsUnderLock
<1>3. CASE lock[o] # p /\ head[o].nonce # None
  <2>1. h = head[o]
    BY <1>3 DEF LockedHead
  <2>2. IntactChain(RowsOf(trail, o), o, head[o])
    BY DEF IInv, ChainIntact
  <2> QED BY <1>0, <1>2, <1>3, <2>1, <2>2 DEF HeadOK
<1>4. CASE lock[o] # p /\ head[o].nonce = None
  <2>1. h = [seq |-> 0, hash |-> GenesisHash(o, cur[p]), nonce |-> cur[p]]
    BY <1>4 DEF LockedHead
  <2>2. h.seq = 0 /\ h.hash = GenesisHash(o, h.nonce) /\ h.nonce = cur[p]
    BY <2>1
  <2>3. head[o].seq = 0
    BY <1>0, <1>4 DEF HeadOK
  <2>4. RowsOf(trail, o) = {}
    BY <2>3 DEF IInv, ChainIntact, IntactChain
  <2> HIDE DEF h
  <2>5. IntactChain({}, o, h)
    BY <2>2 DEF IntactChain
  <2> QED BY <1>2, <1>4, <2>2, <2>3, <2>4, <2>5 DEF h
<1> QED BY <1>1, <1>3, <1>4

\* sealEventInTx: the holder's chain grows by one event.
LEMMA SealKeepsLocks ==
  ASSUME IInv, NEW p \in Procs, SealEventInTx(p)
  PROVE  LockDiscipline' /\ ChainIntact'
<1>1. PICK o \in Orgs : /\ NextOrg(p, o)
                        /\ lock[o] \in {None, p}
                        /\ lock' = [lock EXCEPT ![o] = p]
                        /\ SealOn(p, o)
  BY DEF SealEventInTx
<1>2. cur[p] # None /\ UNCHANGED <<trail, head, cur>>
  BY <1>1 DEF SealEventInTx, NextOrg, InRound
<1> DEFINE h == LockedHead(p, o)
           row == SealEvent(o, <<cur[p], Len(todo[p])>>, h.hash, h.seq + 1)
           g == [seq |-> row.seq, hash |-> row.hash, nonce |-> h.nonce]
           S == RowsOf(trail \cup txRows[p], o)
<1>3. /\ txRows' = [txRows EXCEPT ![p] = @ \cup {row}]
      /\ txHead' = [txHead EXCEPT ![p][o] = g]
  BY <1>1 DEF SealOn
<1>4. /\ h.seq \in Nat /\ h.nonce # None
      /\ h.seq = 0 => h.hash = GenesisHash(o, h.nonce)
      /\ h.seq >= head[o].seq
      /\ IntactChain(S, o, h)
  BY <1>1, <1>2, LockedHeadIntact
<1>5. row.org = o /\ row.seq = h.seq + 1 /\ g.seq = row.seq /\ g.nonce = h.nonce
  BY DEF SealEvent
<1>6. IntactChain(S \cup {row}, o, g)
  <2> HIDE DEF h, S
  <2> QED BY <1>4, ExtendChain
<1> HIDE DEF h, row, g, S
<1>7. /\ lock \in [Orgs -> Procs \cup {None}] /\ txRows \in [Procs -> SUBSET Row]
      /\ txHead \in [Procs -> [Orgs -> ChainHead]] /\ cur \in [Procs -> Ops \cup {None}]
      /\ head[o].seq \in Nat
  BY DEF IInv, TypeOK, ChainHead
<1>8. OnlyOpen'
  BY <1>1, <1>2, <1>3, <1>7 DEF OnlyOpen, IInv, LockDiscipline
<1>9. RowsUnderLock'
  <2> SUFFICES ASSUME NEW q \in Procs, NEW r \in txRows'[q] PROVE lock'[r.org] = q
    BY DEF RowsUnderLock
  <2>1. CASE q = p /\ r = row
    BY <1>1, <1>5, <1>7, <2>1
  <2>2. CASE r \in txRows[q]
    <3>1. r.org \in Orgs /\ lock[r.org] = q
      BY <1>7, <2>2 DEF Row, IInv, LockDiscipline, RowsUnderLock
    <3> QED BY <1>1, <1>7, <3>1, KindsAssumption
  <2> QED BY <1>3, <1>7, <2>1, <2>2
<1>10. ASSUME NEW q \in Procs, NEW u \in Orgs, lock'[u] = q PROVE Extends(q, u)'
  <2>1. CASE q = p /\ u = o
    <3>1. txHead'[q][u] = g
      BY <1>3, <1>7, <2>1
    <3>2. ASSUME NEW r \in txRows'[q], r.org = u PROVE r.seq > head'[u].seq
      <4>1. CASE r = row
        BY <1>2, <1>4, <1>5, <1>7, <2>1, <4>1
      <4>2. CASE r \in txRows[p]
        <5>1. lock[o] = p
          BY <2>1, <3>2, <4>2 DEF IInv, LockDiscipline, RowsUnderLock
        <5> QED BY <1>2, <2>1, <3>2, <4>2, <5>1 DEF Extends, IInv, LockDiscipline
      <4> QED BY <1>3, <1>7, <2>1, <4>1, <4>2
    <3>3. RowsOf(trail' \cup txRows'[q], u) = S \cup {row}
      BY <1>2, <1>3, <1>5, <1>7, <2>1 DEF RowsOf, S
    <3>4. g.seq > 0 /\ g.nonce # None /\ g.seq >= head'[u].seq
      BY <1>2, <1>4, <1>5, <1>7, <2>1
    <3> QED BY <1>6, <2>1, <3>1, <3>2, <3>3, <3>4 DEF Extends
  <2>2. CASE ~(q = p /\ u = o)
    <3>1. lock[u] = q
      BY <1>1, <1>7, <1>10, <2>2
    <3>2. Extends(q, u)
      BY <3>1 DEF IInv, LockDiscipline
    <3>3. txHead'[q][u] = txHead[q][u]
      BY <1>3, <1>7, <2>2
    <3>4. RowsOf(trail' \cup txRows'[q], u) = RowsOf(trail \cup txRows[q], u)
      BY <1>2, <1>3, <1>5, <1>7, <2>2 DEF RowsOf
    <3>5. \A r \in txRows'[q] : r.org = u => r \in txRows[q]
      BY <1>3, <1>5, <1>7, <2>2
    <3> QED BY <1>2, <3>2, <3>3, <3>4, <3>5 DEF Extends
  <2> QED BY <2>1, <2>2
<1>11. ChainIntact' /\ \A u \in Orgs : HeadOK(head[u])'
  BY <1>2 DEF IInv, LockDiscipline, ChainIntact, HeadOK
<1> QED BY <1>8, <1>9, <1>10, <1>11 DEF LockDiscipline

\* After EndTx p holds nothing; everyone else holds what they held.
LEMMA EndTxFacts ==
  ASSUME IInv, NEW p \in Procs, EndTx(p)
  PROVE  /\ OnlyOpen' /\ RowsUnderLock'
         /\ \A q \in Procs, u \in Orgs : lock'[u] = q =>
              q # p /\ lock[u] = q /\ txRows'[q] = txRows[q] /\ txHead'[q] = txHead[q]
<1>1. /\ lock \in [Orgs -> Procs \cup {None}] /\ txRows \in [Procs -> SUBSET Row]
      /\ txHead \in [Procs -> [Orgs -> ChainHead]] /\ cur \in [Procs -> Ops \cup {None}]
      /\ None \notin Procs
  BY KindsAssumption DEF IInv, TypeOK
<1>2. \A q \in Procs, u \in Orgs : lock'[u] = q =>
        q # p /\ lock[u] = q /\ txRows'[q] = txRows[q] /\ txHead'[q] = txHead[q]
  BY <1>1 DEF EndTx
<1>3. OnlyOpen'
  BY <1>1, <1>2 DEF EndTx, OnlyOpen, IInv, LockDiscipline
<1>4. RowsUnderLock'
  <2> SUFFICES ASSUME NEW q \in Procs, NEW r \in txRows'[q] PROVE lock'[r.org] = q
    BY DEF RowsUnderLock
  <2>1. q # p /\ r \in txRows[q]
    BY <1>1 DEF EndTx
  <2>2. r.org \in Orgs /\ lock[r.org] = q
    BY <1>1, <2>1 DEF Row, IInv, LockDiscipline, RowsUnderLock
  <2> QED BY <2>1, <2>2 DEF EndTx
<1> QED BY <1>2, <1>3, <1>4

\* A commit makes the holder's chain the committed one.
LEMMA CommitKeepsLocks ==
  ASSUME IInv, NEW p \in Procs, Publish(p), EndTx(p)
  PROVE  LockDiscipline' /\ ChainIntact'
<1>1. /\ lock \in [Orgs -> Procs \cup {None}] /\ txRows \in [Procs -> SUBSET Row]
      /\ head \in [Orgs -> ChainHead] /\ txHead \in [Procs -> [Orgs -> ChainHead]]
  BY DEF IInv, TypeOK
<1>2. ASSUME NEW o \in Orgs, lock[o] # p
      PROVE  head'[o] = head[o] /\ \A r \in txRows[p] : r.org # o
  BY <1>2 DEF Publish, IInv, LockDiscipline, RowsUnderLock
<1>3. ASSUME NEW o \in Orgs PROVE IntactChain(RowsOf(trail', o), o, head'[o])
  <2>1. CASE lock[o] = p
    <3>1. Extends(p, o)
      BY <2>1 DEF IInv, LockDiscipline
    <3> QED BY <2>1, <3>1 DEF Extends, Publish
  <2>2. CASE lock[o] # p
    <3>1. RowsOf(trail', o) = RowsOf(trail, o)
      BY <1>2, <2>2 DEF RowsOf, Publish
    <3> QED BY <1>2, <2>2, <3>1 DEF IInv, ChainIntact
  <2> QED BY <2>1, <2>2
<1>4. ASSUME NEW o \in Orgs PROVE HeadOK(head'[o])
  <2>1. CASE lock[o] = p
    <3>1. Extends(p, o)
      BY <2>1 DEF IInv, LockDiscipline
    <3> QED BY <2>1, <3>1 DEF Extends, Publish, HeadOK
  <2>2. CASE lock[o] # p
    BY <1>2, <2>2 DEF IInv, LockDiscipline
  <2> QED BY <2>1, <2>2
<1>5. ASSUME NEW q \in Procs, NEW u \in Orgs, lock'[u] = q PROVE Extends(q, u)'
  <2>1. q # p /\ lock[u] = q /\ txRows'[q] = txRows[q] /\ txHead'[q] = txHead[q]
    BY <1>5, EndTxFacts
  <2>2. Extends(q, u)
    BY <2>1 DEF IInv, LockDiscipline
  <2>3. RowsOf(trail' \cup txRows'[q], u) = RowsOf(trail \cup txRows[q], u)
    BY <1>2, <2>1 DEF RowsOf, Publish
  <2> QED BY <1>2, <2>1, <2>2, <2>3 DEF Extends
<1>6. OnlyOpen' /\ RowsUnderLock'
  BY EndTxFacts
<1>7. ChainIntact'
  BY <1>3 DEF ChainIntact
<1>8. \A o \in Orgs : HeadOK(head[o])'
  BY <1>4
<1> QED BY <1>5, <1>6, <1>7, <1>8 DEF LockDiscipline

\* A rollback leaves the committed chains as they were.
LEMMA RollbackKeepsLocks ==
  ASSUME IInv, NEW p \in Procs, EndTx(p), UNCHANGED <<trail, head>>
  PROVE  LockDiscipline' /\ ChainIntact'
<1>1. ASSUME NEW q \in Procs, NEW u \in Orgs, lock'[u] = q PROVE Extends(q, u)'
  <2>1. lock[u] = q /\ txRows'[q] = txRows[q] /\ txHead'[q] = txHead[q]
    BY <1>1, EndTxFacts
  <2>2. Extends(q, u)
    BY <2>1 DEF IInv, LockDiscipline
  <2> QED BY <2>1, <2>2 DEF Extends
<1>2. OnlyOpen' /\ RowsUnderLock'
  BY EndTxFacts
<1>3. ChainIntact' /\ \A o \in Orgs : HeadOK(head[o])'
  BY DEF IInv, LockDiscipline, ChainIntact, HeadOK
<1> QED BY <1>1, <1>2, <1>3 DEF LockDiscipline

\* Opening a transaction, or a step outside the chain, changes nothing here.
LEMMA QuietKeepsLocks ==
  ASSUME IInv, UNCHANGED <<trail, head, lock, txRows, txHead>>,
         \A p \in Procs : cur[p] # None => cur'[p] # None
  PROVE  LockDiscipline' /\ ChainIntact'
<1>1. OnlyOpen' /\ RowsUnderLock'
  BY DEF IInv, LockDiscipline, OnlyOpen, RowsUnderLock
<1>2. \A q \in Procs, u \in Orgs : (lock[u] = q => Extends(q, u))'
  BY DEF IInv, LockDiscipline, Extends
<1>3. ChainIntact' /\ \A o \in Orgs : HeadOK(head[o])'
  BY DEF IInv, LockDiscipline, ChainIntact, HeadOK
<1> QED BY <1>1, <1>2, <1>3 DEF LockDiscipline

\* The inductive invariant holds of the empty database.
LEMMA InitIInv == Init => IInv
<1> SUFFICES ASSUME Init PROVE IInv
  OBVIOUS
<1>1. TypeOK
  BY InitType
<1>2. \A o \in Orgs : head[o].seq = 0 /\ head[o].nonce = None /\ lock[o] = None
  BY DEF Init, NoHead
<1>3. OnlyOpen /\ RowsUnderLock /\ \A o \in Orgs : HeadOK(head[o])
  BY <1>2, KindsAssumption DEF Init, OnlyOpen, RowsUnderLock, HeadOK
<1>4. \A p \in Procs, o \in Orgs : lock[o] # p
  BY <1>2, KindsAssumption
<1>5. ChainIntact
  BY <1>2 DEF Init, ChainIntact, IntactChain, RowsOf
<1> QED BY <1>1, <1>3, <1>4, <1>5 DEF IInv, LockDiscipline

\* Every step of a handler or a drainer keeps the inductive invariant.
LEMMA NextIInv == IInv /\ [Next]_vars => IInv'
<1> SUFFICES ASSUME IInv, [Next]_vars PROVE LockDiscipline' /\ ChainIntact'
  BY NextKeepsType DEF IInv
<1>0. cur \in [Procs -> Ops \cup {None}] /\ None \notin Ops
  BY KindsAssumption DEF IInv, TypeOK
<1>1. ASSUME NEW p \in Handlers, HandlerStep(p) PROVE LockDiscipline' /\ ChainIntact'
  <2>0. p \in Procs
    BY DEF Procs
  <2>1. ASSUME NEW op \in SyncOps, BeginSync(p, op) PROVE LockDiscipline' /\ ChainIntact'
    <3>1. \A q \in Procs : cur[q] # None => cur'[q] # None
      BY <1>0, <2>1 DEF BeginSync, Startable, Ops
    <3> QED BY <2>1, <3>1, QuietKeepsLocks DEF BeginSync
  <2>2. ASSUME NEW op \in AsyncOps, BeginAsync(p, op) PROVE LockDiscipline' /\ ChainIntact'
    <3>1. \A q \in Procs : cur[q] # None => cur'[q] # None
      BY <1>0, <2>2 DEF BeginAsync, Startable, Ops
    <3> QED BY <2>2, <3>1, QuietKeepsLocks DEF BeginAsync
  <2>3. CASE SealEventInTx(p)
    BY <2>0, <2>3, SealKeepsLocks
  <2>4. CASE Commit(p)
    BY <2>0, <2>4, CommitKeepsLocks DEF Commit
  <2>5. CASE Abort(p)
    BY <2>0, <2>5, RollbackKeepsLocks DEF Abort
  <2>6. CASE UpdateRow(p)
    BY <2>6, QuietKeepsLocks DEF UpdateRow
  <2> QED BY <1>1, <2>1, <2>2, <2>3, <2>4, <2>5, <2>6 DEF HandlerStep
<1>2. ASSUME NEW d \in Drainers, DrainerStep(d) PROVE LockDiscipline' /\ ChainIntact'
  <2>0. d \in Procs
    BY DEF Procs
  <2>1. CASE DrainRead(d)
    BY <2>1, QuietKeepsLocks DEF DrainRead
  <2>2. CASE DrainTake(d)
    <3>1. \A q \in Procs : cur[q] # None => cur'[q] # None
      BY <1>0, <2>2 DEF DrainTake
    <3> QED BY <2>2, <3>1, QuietKeepsLocks DEF DrainTake
  <2>3. CASE SealEventInTx(d)
    BY <2>0, <2>3, SealKeepsLocks
  <2>4. CASE DrainCommit(d)
    BY <2>0, <2>4, CommitKeepsLocks DEF DrainCommit
  <2>5. CASE DrainLost(d)
    BY <2>0, <2>5, RollbackKeepsLocks DEF DrainLost, DrainReturns
  <2>6. CASE DrainFail(d)
    BY <2>0, <2>6, RollbackKeepsLocks DEF DrainFail, DrainReturns
  <2> QED BY <1>2, <2>1, <2>2, <2>3, <2>4, <2>5, <2>6 DEF DrainerStep
<1>3. CASE UNCHANGED vars
  BY <1>3, QuietKeepsLocks DEF vars
<1> QED BY <1>1, <1>2, <1>3 DEF Next

\* Under any interleaving of any number of writers and drainers, with rollbacks
\* and crashes, the committed rows of every organization are an intact hash
\* chain that ends at its committed head (sealEventInTx under FOR UPDATE).
THEOREM ChainIntegrity == Spec => []ChainIntact
<1>1. IInv => ChainIntact
  BY DEF IInv
<1> QED BY <1>1, InitIInv, NextIInv, PTL DEF Spec

\* No committed row is ever changed or removed, and a step adds rows only beyond
\* the committed head of their organization (INV-2, audit_event).
THEOREM TrailAppendOnly == Spec => AppendOnly
<1> DEFINE A == /\ trail \subseteq trail'
                /\ \A r \in trail' \ trail : r.seq > head[r.org].seq
<1>1. IInv /\ [Next]_vars => [A]_vars
  <2> SUFFICES ASSUME IInv, Next PROVE A
    OBVIOUS
  <2>1. ASSUME NEW p \in Procs, Publish(p) PROVE A
    <3>1. \A r \in txRows[p] : r.org \in Orgs /\ lock[r.org] = p
      BY DEF IInv, TypeOK, Row, LockDiscipline, RowsUnderLock
    <3>2. \A r \in txRows[p] : Extends(p, r.org)
      BY <3>1 DEF IInv, LockDiscipline
    <3> QED BY <2>1, <3>2 DEF Publish, Extends
  <2>2. CASE trail' = trail
    BY <2>2
  <2>3. trail' = trail \/ \E p \in Procs : Publish(p)
    BY DEF Next, HandlerStep, DrainerStep, BeginSync, BeginAsync, UpdateRow, SealEventInTx,
           Commit, Abort, DrainRead, DrainTake, DrainCommit, DrainLost, DrainFail,
           DrainReturns, Procs
  <2> QED BY <2>1, <2>2, <2>3
<1>2. IInv /\ [Next]_vars => IInv'
  BY NextIInv
<1> QED BY <1>1, <1>2, InitIInv, PTL DEF Spec, AppendOnly
=============================================================================
