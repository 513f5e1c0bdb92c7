----------------------------- MODULE MCSyncRun ------------------------------
(***************************************************************************)
(* The instance of SyncRun for TLC: two files, two versions of one size,   *)
(* so that the date alone tells them apart.                                *)
(***************************************************************************)
EXTENDS BulkVerify

CONSTANTS a, b, section

OneSection == [k \in Keys |-> section]

OwnPaths == [k \in Keys |-> k]

SizesOfTwo == <<1, 1>>

(* No columns at all (section layouts without a table), or both.  A row    *)
(* that shows the size and not the date is left out: between versions of   *)
(* one size it shows no change, and no code could see one.                 *)
ObservedColumns == {{}, {"size", "modified"}}

=============================================================================
