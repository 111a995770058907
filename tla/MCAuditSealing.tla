--------------------------- MODULE MCAuditSealing ---------------------------
(* Instances of AuditSealing for TLC.                                      *)
EXTENDS AuditSealing, TLC

CONSTANTS s1, s2, v1   \* sealers, verifier

\* A sealer and a verifier.
Watching == [sealers |-> {s1}, verifiers |-> {v1}, exporting |-> FALSE,
             archiving |-> FALSE, emitting |-> FALSE,
             events |-> 3, periods |-> 1, faults |-> 0]

\* Two sealers, with an exporter.
Racing    == [Watching EXCEPT !.sealers = {s1, s2}]
Exporting == [Racing EXCEPT !.exporting = TRUE]

\* Damaged storage.
Damaging == [Watching EXCEPT !.faults = 2]

\* The archiver over two periods: without an emitter and verified, and with
\* an emitter.
Archiving == [Watching EXCEPT !.archiving = TRUE, !.periods = 2]
Keeping   == [Archiving EXCEPT !.verifiers = {}, !.emitting = TRUE]

All        == {Exporting, Damaging, Archiving, Keeping}
OneSealer  == {Watching}
TwoSealers == {Racing}
Archiver   == {Keeping}
=============================================================================
