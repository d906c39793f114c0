-------------------------- MODULE MCImportPreview --------------------------
(***************************************************************************)
(* Instances of ImportPreview for TLC.  A line's code decides its amounts:   *)
(* a locked and an unlocked one; edits tell them apart further.             *)
(***************************************************************************)
EXTENDS ImportPreview

CONSTANTS free, locked

MCFileRow ==
    {[level |-> l, kode |-> k, pagu |-> 2, lock |-> IF k = locked THEN 2 ELSE 0,
      sd |-> 1, sisa |-> 1] : l \in Level, k \in {free, locked, Blank}}

=============================================================================
