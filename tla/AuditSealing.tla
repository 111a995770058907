---------------------------- MODULE AuditSealing ----------------------------
(***************************************************************************)
(* The life of one organization's audit chain after its events are         *)
(* written: the sealer that signs ranges of it, the exporter that anchors  *)
(* seals in external WORM storage, the verifier, and the archiver that     *)
(* detaches and restores time partitions.  AuditTrail says how events are  *)
(* appended; here an append is one step.                                   *)
(*                                                                         *)
(* A hash is the sequence of contents that went into it, an event's        *)
(* content is its sequence number, and a damaged content is 0.  Storage    *)
(* faults stand for whatever changes rows behind the application's back    *)
(* (the triggers of migration 0018 keep the application from doing so).    *)
(* A Fail step stands for an error return or a crash of the process.       *)
(***************************************************************************)
EXTENDS Integers, FiniteSets, Sequences, FiniteSetsExt

CONSTANTS
  Sealers,     \* processes that run AuditSealer.SealDue
  Verifiers,   \* processes that run AuditVerificationJob.RunOnce
  MaxSeq,      \* bound on the number of events
  MaxPeriod,   \* bound on time, counted in partition periods
  MaxFaults,   \* bound on the number of storage faults
  Setups       \* the deployments considered: see Setup

\* What a deployment schedules (sealers, verifiers, exporter, archiver, and
\* whether the archiver was built with an audit emitter), and the bounds of its
\* instance.
Setup == [sealers : SUBSET Sealers, verifiers : SUBSET Verifiers,
          exporting : BOOLEAN, archiving : BOOLEAN, emitting : BOOLEAN,
          events : 0..MaxSeq, periods : 1..MaxPeriod, faults : 0..MaxFaults]

ASSUME BoundsAssumption == MaxSeq \in Nat /\ MaxPeriod \in Nat \ {0} /\ MaxFaults \in Nat
ASSUME SetupsAssumption == Setups \subseteq Setup

VARIABLES
  setup,      \* the deployment, fixed from the start
  rows,       \* audit_event, attached or detached
  last,       \* audit_chain_head.last_seq ...
  headHash,   \* ... and head_hash
  now,        \* the current period
  cold,       \* detached partitions
  seals,      \* audit_seal
  worm,       \* seals in the external WORM storage
  anchors,    \* audit_seal_anchor
  faults,     \* storage faults so far
  sealer,     \* [Sealers -> [pc, seq, hash, end]]
  verifier,   \* [Verifiers -> [pc, seen, sealed, verdict]]
  archiver,   \* [pc, period, mark]; mark: last_seq when the range was checked
  archived,   \* [Periods -> 0..MaxSeq]: the mark of a detached one (history)
  exporter    \* [pc, todo]

vars == <<setup, rows, last, headHash, now, cold, seals, worm, anchors,
          faults, sealer, verifier, archiver, archived, exporter>>

Periods == 1..MaxPeriod
Default == 0                 \* the DEFAULT partition
Hash    == Seq(0..MaxSeq)
Row     == [seq : 1..MaxSeq, period : Periods, part : Periods \cup {Default},
            archives : 0..MaxPeriod, content : 0..MaxSeq, prev : Hash, hash : Hash]
Seal    == [start : 1..MaxSeq, end : 1..MaxSeq, head : Hash]

\* An idle sealer, an idle verifier without a report.
NoRange  == [pc |-> "idle", seq |-> 0, hash |-> <<>>, end |-> 0]
NoReport == [pc |-> "idle", seen |-> {}, sealed |-> 0, verdict |-> "none"]

NoArchive == [pc |-> "idle", period |-> 0, mark |-> 0]

Init == /\ setup \in Setups
        /\ rows = {} /\ last = 0 /\ headHash = <<>>
        /\ now = 1 /\ cold = {}
        /\ seals = {} /\ worm = {} /\ anchors = {}
        /\ faults = 0
        /\ sealer = [s \in Sealers |-> NoRange]
        /\ verifier = [v \in Verifiers |-> NoReport]
        /\ archiver = NoArchive
        /\ archived = [k \in Periods |-> 0]
        /\ exporter = [pc |-> "idle", todo |-> {}]

\* What a query on audit_event sees.
Live == {r \in rows : r.part \notin cold}

-----------------------------------------------------------------------------
(* Time, appends and storage faults                                        *)

Tick == /\ now < setup.periods
        /\ now' = now + 1
        /\ UNCHANGED <<setup, rows, last, headHash, cold, seals, worm, anchors,
                       faults, sealer, verifier, archiver, archived, exporter>>

\* One event of period k is chained; a detached period's events land in the
\* DEFAULT partition.
AppendEvent(k, archives) ==
  /\ last < setup.events
  /\ last' = last + 1
  /\ headHash' = Append(headHash, last + 1)
  /\ rows' = rows \cup {[seq |-> last + 1, period |-> k, archives |-> archives,
                         part |-> IF k \in cold THEN Default ELSE k,
                         content |-> last + 1, prev |-> headHash, hash |-> headHash']}

\* A handler or drainer appends an event.  Its occurred_at was taken when it
\* happened: AppendTx takes the present, a drain keeps the time of Enqueue, so
\* an event that waited in a queue reaches the chain periods late.
Write == /\ \E k \in 1..now : AppendEvent(k, 0)
         /\ UNCHANGED <<setup, now, cold, seals, worm, anchors,
                        faults, sealer, verifier, archiver, archived, exporter>>

\* What the storage may do to row i: lose it, change its content, or change
\* its content and recompute the hashes from there on.
Damaged(i) ==
  {{r \in rows : r.seq # i}}
  \cup {{IF r.seq = i THEN [r EXCEPT !.content = 0] ELSE r : r \in rows}}
  \cup {{[r EXCEPT !.content = IF r.seq = i THEN 0 ELSE @,
                   !.prev = IF i \in DOMAIN @ THEN [@ EXCEPT ![i] = 0] ELSE @,
                   !.hash = IF i \in DOMAIN @ THEN [@ EXCEPT ![i] = 0] ELSE @] :
         r \in rows}}

Fault == /\ faults < setup.faults
         /\ faults' = faults + 1
         /\ \E r \in rows : rows' \in Damaged(r.seq)
         /\ UNCHANGED <<setup, last, headHash, now, cold, seals, worm, anchors,
                        sealer, verifier, archiver, archived, exporter>>

-----------------------------------------------------------------------------
(* The sealer (audit_sealer.go)                                            *)

\* MAX(seq_end), 0 without seals.
LastEnd == Max({s.end : s \in seals} \cup {0})

SealerStep(s, pc) == s \in setup.sealers /\ sealer[s].pc = pc /\ UNCHANGED
  <<setup, rows, last, headHash, now, cold, worm, anchors, faults,
    verifier, archiver, archived, exporter>>

\* SealDue: the organization has unsealed events and is due (by volume or by
\* age: either may be the case).
SealDue(s) ==
  /\ SealerStep(s, "idle")
  /\ last > LastEnd
  /\ sealer' = [sealer EXCEPT ![s].pc = "head"]
  /\ UNCHANGED seals

\* readHead: a transaction of its own.
ReadHead(s) ==
  /\ SealerStep(s, "head")
  /\ sealer' = [sealer EXCEPT ![s] = [pc |-> "end", seq |-> last, hash |-> headHash, end |-> 0]]
  /\ UNCHANGED seals

\* Faulty variant: the seal starts at the last sealed event, not after it.
ReadLastEndInclusive(s) ==
  /\ SealerStep(s, "end")
  /\ sealer' = [sealer EXCEPT ![s] =
       IF @.seq <= LastEnd THEN NoRange
       ELSE [@ EXCEPT !.pc = "sign", !.end = Max({LastEnd - 1, 0})]]
  /\ UNCHANGED seals

\* lastSealedSeq: another transaction; nothing new to seal ends the call.
ReadLastEnd(s) ==
  /\ SealerStep(s, "end")
  /\ sealer' = [sealer EXCEPT ![s] =
       IF @.seq <= LastEnd THEN NoRange ELSE [@ EXCEPT !.pc = "sign", !.end = LastEnd]]
  /\ UNCHANGED seals

\* Faulty variant: the range starts at the end of the previous one.
InsertSealOffByOne(s) ==
  /\ SealerStep(s, "sign")
  /\ seals' = IF \E t \in seals : t.end = sealer[s].seq THEN seals
              ELSE seals \cup {[start |-> sealer[s].end, end |-> sealer[s].seq,
                                head |-> sealer[s].hash]}
  /\ sealer' = [sealer EXCEPT ![s] = NoRange]


\* The range is signed outside any transaction, then inserted
\* ON CONFLICT (organization_id, seq_end) DO NOTHING.
InsertSeal(s) ==
  /\ SealerStep(s, "sign")
  /\ seals' = IF \E t \in seals : t.end = sealer[s].seq THEN seals
              ELSE seals \cup {[start |-> sealer[s].end + 1, end |-> sealer[s].seq,
                                head |-> sealer[s].hash]}
  /\ sealer' = [sealer EXCEPT ![s] = NoRange]

SealFail(s) ==
  /\ \E pc \in {"head", "end", "sign"} : SealerStep(s, pc)
  /\ sealer' = [sealer EXCEPT ![s] = NoRange]
  /\ UNCHANGED seals

-----------------------------------------------------------------------------
(* The exporter (audit_exporter.go)                                        *)

ExporterStep(pc) == setup.exporting /\ exporter.pc = pc /\ UNCHANGED
  <<setup, rows, last, headHash, now, cold, seals, faults,
    sealer, verifier, archiver, archived>>

\* readPending: the seals without an anchor row.
ExportRead ==
  /\ ExporterStep("idle")
  /\ seals \ anchors # {}
  /\ exporter' = [pc |-> "anchor", todo |-> seals \ anchors]
  /\ UNCHANGED <<worm, anchors>>

\* The next seal in ORDER BY seq_start.
NextToExport == CHOOSE s \in exporter.todo : \A t \in exporter.todo : s.start <= t.start

\* Faulty variant: the anchor row is written before the remote call.
ExportRecordsFirst ==
  /\ ExporterStep("anchor")
  /\ anchors' = anchors \cup {NextToExport}
  /\ exporter' = [exporter EXCEPT !.pc = "record"]
  /\ UNCHANGED worm

\* The remote WORM write, outside any transaction; the same bytes may be
\* written again.
ExportAnchor ==
  /\ ExporterStep("anchor")
  /\ worm' = worm \cup {NextToExport}
  /\ exporter' = [exporter EXCEPT !.pc = "record"]
  /\ UNCHANGED anchors

\* The anchor row, ON CONFLICT DO NOTHING.
ExportRecord ==
  /\ ExporterStep("record")
  /\ anchors' = anchors \cup {NextToExport}
  /\ LET rest == exporter.todo \ {NextToExport}
     IN  exporter' = [pc |-> IF rest = {} THEN "idle" ELSE "anchor", todo |-> rest]
  /\ UNCHANGED worm

ExportFail ==
  /\ \E pc \in {"anchor", "record"} : ExporterStep(pc)
  /\ exporter' = [pc |-> "idle", todo |-> {}]
  /\ UNCHANGED <<worm, anchors>>

-----------------------------------------------------------------------------
(* The verifier (audit_verify.go, audit_verifier.go)                       *)

\* Faulty variant: the content is not hashed again.
LinksOnly(S, i) ==
  LET at   == {r \in S : r.seq = i}
      prev == IF i = 1 THEN {<<>>} ELSE {r.hash : r \in {q \in S : q.seq = i - 1}}
  IN  IF at = {} THEN "removed"
      ELSE IF \E r \in at : r.prev \notin prev THEN "broken_chain"
      ELSE "ok"

\* What VerifyChain finds at position i of the rows S.
Divergence(S, i) ==
  LET at   == {r \in S : r.seq = i}
      prev == IF i = 1 THEN {<<>>} ELSE {r.hash : r \in {q \in S : q.seq = i - 1}}
  IN  IF at = {} THEN "removed"
      ELSE IF \E r \in at : r.prev \notin prev THEN "broken_chain"
      ELSE IF \E r \in at : r.hash # Append(r.prev, r.content) THEN "altered"
      ELSE "ok"

\* VerifyChain: the kind of the first divergence.
VerifyChain(S) ==
  LET bad == {i \in 1..Cardinality(S) : Divergence(S, i) # "ok"}
  IN  IF bad = {} THEN "ok" ELSE Divergence(S, Min(bad))

\* verifySeals: in ORDER BY seq_start each range follows the one before, and
\* each head is the hash of the event at seq_end.
VerifySeals(S, T) ==
  /\ \A s \in T : s.start = Max({t.end : t \in {u \in T : u.start < s.start}} \cup {0}) + 1
  /\ \A s, t \in T : s.start = t.start => s = t
  /\ \A s \in T : \E r \in S : r.seq = s.end /\ r.hash = s.head

VerifierStep(v, pc) == v \in setup.verifiers /\ verifier[v].pc = pc /\ UNCHANGED
  <<setup, rows, last, headHash, now, cold, seals, worm, anchors, faults,
    sealer, archiver, archived, exporter>>

\* The genesis is read from the chain head (no head: nothing to verify).
VerifyStart(v) ==
  /\ VerifierStep(v, "idle")
  /\ last > 0
  /\ verifier' = [verifier EXCEPT ![v] = [NoReport EXCEPT !.pc = "events"]]

\* readEvents and VerifyChain.
ReadEvents(v) ==
  /\ VerifierStep(v, "events")
  /\ LET kind == VerifyChain(Live)
     IN  verifier' = [verifier EXCEPT ![v] =
           [NoReport EXCEPT !.pc = IF kind = "ok" THEN "seals" ELSE "idle",
                            !.seen = Live,
                            !.verdict = IF kind = "ok" THEN "none" ELSE kind]]

\* verifySeals, in a transaction of its own.
ReadSeals(v) ==
  /\ VerifierStep(v, "seals")
  /\ verifier' = [verifier EXCEPT ![v] =
       [@ EXCEPT !.pc = "idle", !.sealed = LastEnd,
                 !.verdict = IF VerifySeals(verifier[v].seen, seals) THEN "ok" ELSE "seal_invalid"]]

\* "verificação da trilha não pôde ser concluída"
VerifyFail(v) ==
  /\ \E pc \in {"events", "seals"} : VerifierStep(v, pc)
  /\ verifier' = [verifier EXCEPT ![v] = [NoReport EXCEPT !.verdict = "error"]]

-----------------------------------------------------------------------------
(* The archiver (audit_archive.go)                                         *)

ArchiverStep(pc) == setup.archiving /\ archiver.pc = pc /\ UNCHANGED
  <<setup, now, seals, worm, anchors, faults, sealer, verifier, exporter>>

\* Faulty variant: assertRangeSealed is not called.
ArchiveUnchecked(k) ==
  /\ ArchiverStep("idle")
  /\ archiver' = [pc |-> "orgs", period |-> k, mark |-> last]
  /\ UNCHANGED <<rows, last, headHash, cold, archived>>

\* Archive of period k begins: assertRangeSealed finds no unsealed event.  The
\* caller chooses the period: nothing here looks at its age.
ArchiveCheck(k) ==
  /\ ArchiverStep("idle")
  /\ \A r \in Live : r.period = k => r.seq <= LastEnd
  /\ archiver' = [pc |-> "orgs", period |-> k, mark |-> last]
  /\ UNCHANGED <<rows, last, headHash, cold, archived>>

\* auditPeriod, first transaction: does the organization have events in the
\* period?  Skipped without an emitter.
AuditPeriodOrgs(pc, emit, skip) ==
  /\ ArchiverStep(pc)
  /\ archiver' = [archiver EXCEPT !.pc =
       IF setup.emitting /\ \E r \in Live : r.period = archiver.period THEN emit ELSE skip]
  /\ UNCHANGED <<rows, last, headHash, cold, archived>>

\* auditPeriod, one transaction per organization: the event, stamped now.
AuditPeriodEmit(pc, archives, next) ==
  /\ ArchiverStep(pc)
  /\ AppendEvent(now, archives)
  /\ archiver' = [archiver EXCEPT !.pc = next]
  /\ UNCHANGED <<cold, archived>>

ArchiveOrgs == AuditPeriodOrgs("orgs", "emit", "detach")
ArchiveEmit == AuditPeriodEmit("emit", archiver.period, "detach")

\* DETACH PARTITION: the rows are kept in a table of their own.  Detaching a
\* partition that is detached already is an error.
ArchiveDetach ==
  /\ ArchiverStep("detach")
  /\ archiver.period \notin cold
  /\ cold' = cold \cup {archiver.period}
  /\ archived' = [archived EXCEPT ![archiver.period] = archiver.mark]
  /\ archiver' = NoArchive
  /\ UNCHANGED <<rows, last, headHash>>

\* Restore: ATTACH PARTITION, which the server refuses when the DEFAULT
\* partition holds rows of the period ...
RestoreAttach(k) ==
  /\ ArchiverStep("idle")
  /\ k \in cold
  /\ \A r \in rows : r.part = Default => r.period # k
  /\ cold' = cold \ {k}
  /\ archived' = [archived EXCEPT ![k] = 0]
  /\ archiver' = [pc |-> "rorgs", period |-> k, mark |-> 0]
  /\ UNCHANGED <<rows, last, headHash>>

\* ... and then auditPeriod.
RestoreOrgs == AuditPeriodOrgs("rorgs", "remit", "done")
RestoreEmit == AuditPeriodEmit("remit", 0, "done")

\* Archive or Restore returns, with an error or not.
ArchiveReturn ==
  /\ \E pc \in {"orgs", "emit", "detach", "rorgs", "remit", "done"} : ArchiverStep(pc)
  /\ archiver' = NoArchive
  /\ UNCHANGED <<rows, last, headHash, cold, archived>>

-----------------------------------------------------------------------------

SealerNext(s) == SealDue(s) \/ ReadHead(s) \/ ReadLastEnd(s) \/ InsertSeal(s) \/ SealFail(s)

VerifierNext(v) == VerifyStart(v) \/ ReadEvents(v) \/ ReadSeals(v) \/ VerifyFail(v)

ExporterNext == ExportRead \/ ExportAnchor \/ ExportRecord \/ ExportFail

ArchiverNext == \/ \E k \in Periods : ArchiveCheck(k) \/ RestoreAttach(k)
                \/ ArchiveOrgs \/ ArchiveEmit \/ ArchiveDetach
                \/ RestoreOrgs \/ RestoreEmit \/ ArchiveReturn

Next == \/ Tick \/ Write \/ Fault
        \/ \E s \in Sealers : SealerNext(s)
        \/ \E v \in Verifiers : VerifierNext(v)
        \/ ExporterNext
        \/ ArchiverNext

Spec == Init /\ [][Next]_vars

-----------------------------------------------------------------------------
(* Properties                                                              *)

\* Every variable has its type.
TypeOK ==
  /\ setup \in Setups
  /\ rows \subseteq Row
  /\ last \in 0..MaxSeq /\ headHash \in Hash
  /\ now \in Periods /\ cold \subseteq Periods
  /\ seals \subseteq Seal /\ worm \subseteq Seal /\ anchors \subseteq Seal
  /\ faults \in 0..MaxFaults
  /\ sealer \in [Sealers -> [pc : {"idle", "head", "end", "sign"}, seq : 0..MaxSeq,
                             hash : Hash, end : 0..MaxSeq]]
  /\ \A v \in Verifiers :
       /\ verifier[v].pc \in {"idle", "events", "seals"}
       /\ verifier[v].seen \subseteq Row
       /\ verifier[v].sealed \in 0..MaxSeq
  /\ archiver \in [pc : {"idle", "orgs", "emit", "detach", "rorgs", "remit", "done"},
                   period : 0..MaxPeriod, mark : 0..MaxSeq]
  /\ archived \in [Periods -> 0..MaxSeq]
  /\ exporter.pc \in {"idle", "anchor", "record"} /\ exporter.todo \subseteq Seal

\* The seals cover the chain from its first event without gap or overlap, and
\* each signs the hash the chain had at its end: what the comment of
\* SealOrganization expects of UNIQUE(organization_id, seq_end) when two sealers
\* run at the same time.
SealsContiguous ==
  /\ \A i \in 1..LastEnd : Cardinality({s \in seals : s.start <= i /\ i <= s.end}) = 1
  /\ \A s \in seals : s.start <= s.end /\ s.head = SubSeq(headHash, 1, s.end)

\* Whatever the number of sealers, no two seals end at the same event, every
\* seal starts right after the end of another one (or at the first event), and
\* each signs the hash the chain had at its end, although SealOrganization reads
\* the head and the last seal in different transactions and signs outside of
\* any.  So ranges may overlap but leave no gap.
SealsLinked ==
  /\ \A s, t \in seals : s.end = t.end => s = t
  /\ \A s \in seals : /\ s.start = 1 \/ \E t \in seals : t.end = s.start - 1
                      /\ s.start <= s.end /\ s.head = SubSeq(headHash, 1, s.end)

\* When VerifyOrganization reports an intact trail, every sealed event was there
\* and unchanged in the rows it read, whatever the storage did before.
VerifiedMeansIntact ==
  \A v \in Verifiers : verifier[v].verdict = "ok" =>
    \A i \in 1..verifier[v].sealed :
      \E r \in verifier[v].seen : r.seq = i /\ r.content = i

Alarms == {"removed", "broken_chain", "altered", "seal_invalid"}
TopSeq(S) == Max({r.seq : r \in S} \cup {0})

Overlapping == \E s, t \in seals : s # t /\ s.start <= t.end /\ t.start <= s.end


\* "ADULTERAÇÃO DA TRILHA DETECTADA": RunOnce raises the tampering alert only if
\* the trail was tampered with.
AlarmMeansDamage ==
  \A v \in Verifiers : verifier[v].verdict \in Alarms => faults > 0

\* An anchor row is never recorded before the seal is in WORM storage, even if
\* the export stops between the remote write and the record (ExportPending).
AnchoredInWorm == anchors \subseteq worm

\* ErrPartitionUnsealed: retention is by archiving sealed partitions only.
ArchivedSealed == \A r \in rows : r.part \in cold => r.seq <= LastEnd

\* What Archive guarantees although its check, its audit events and its detach
\* are separate transactions between which events arrive and after any of which
\* it may stop: an event of a detached partition that was chained before the
\* check is sealed, and (with an emitter) an event chained after the check
\* records this archival of it.
ArchivedAsChecked ==
  \A r \in rows : r.part \in cold /\ r.seq <= archived[r.part] =>
    /\ r.seq <= LastEnd
    /\ setup.emitting /\ faults = 0 =>
         \E e \in rows : e.archives = r.part /\ e.seq > archived[r.part]
=============================================================================
