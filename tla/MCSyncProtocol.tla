--------------------------- MODULE MCSyncProtocol ---------------------------
(* Small instances of SyncProtocol: two fields with two values each.       *)
EXTENDS SyncProtocol, TLC

CONSTANTS spec, status, v0, v1

TwoFields == {spec, status}
OneField == {spec}
TwoValues == {v0, v1}

DataSymmetry == Permutations(TwoFields) \cup Permutations(TwoValues)

(* A kind that is patched, with three writes: enough for a content that    *)
(* changes twice.                                                          *)
Patched ==
    [patchStrategy |-> TRUE, reread |-> FALSE, reconciling |-> FALSE,
     others |-> FALSE, writes |-> 3, deletions |-> 0]

(* The same, a reconciled kind, and one whose object can be deleted.       *)
ThreePatched ==
    {Patched,
     [Patched EXCEPT !.reconciling = TRUE, !.others = TRUE, !.writes = 2],
     [Patched EXCEPT !.writes = 2, !.deletions = 1]}

PatchedDeleted == {[Patched EXCEPT !.deletions = 1]}

(* A kubescape kind without reconciliation, and a patched and a copied     *)
(* kind with it.                                                           *)
AllKinds ==
    {[Patched EXCEPT !.reread = TRUE, !.writes = 2, !.deletions = 1],
     [Patched EXCEPT !.reconciling = TRUE, !.others = TRUE, !.writes = 2],
     [Patched EXCEPT !.patchStrategy = FALSE, !.reconciling = TRUE,
                     !.others = TRUE, !.writes = 1, !.deletions = 1]}
=============================================================================
