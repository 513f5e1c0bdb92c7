------------------------------ MODULE Manifest -------------------------------
(***************************************************************************)
(* A manifest's record of one file, the columns OPAL's table shows of it,  *)
(* and the decisions internal/syncer/syncer.go takes by comparing the two. *)
(* A version of a file stands for its date in the column "modified".       *)
(***************************************************************************)
EXTENDS Naturals

CONSTANTS
  MaxVersion,     \* bound on the versions OPAL publishes of a file
  Nothing,        \* the content of a path that holds no file
  Nil,            \* a column that was not reported or not recorded
  NoRecord        \* a key the manifest does not hold

Versions == 1 .. MaxVersion

Signals == [size : Nat \cup {Nil}, modified : Versions \cup {Nil}]

(* FileRecord; "resting" abstracts FailCount and FailedAt to whether the   *)
(* backoff they impose is still running.  A date need not be a version's.  *)
Record == [size : Nat \cup {Nil}, modified : Nat \cup {Nil},
           resting : BOOLEAN, unverified : BOOLEAN]

(* fileChanged.  A column only one side has counts as a change when it is  *)
(* OPAL's.  The mutant wants the value on both sides, which the comment at *)
(* fileChanged records as the bug that pinned files at an old version.     *)
ColumnDiffersIfBothKnown(now, before) ==
  now # Nil /\ before # Nil /\ now # before
ColumnDiffers(now, before) == now # Nil /\ now # before

FileChanged(sig, previous) ==
  \/ previous = NoRecord
  \/ ColumnDiffers(sig.size, previous.size)
  \/ ColumnDiffers(sig.modified, previous.modified)

(* needsContentVerification: metadata cannot settle whether the file is    *)
(* current.  The mutant forgets one of the two reasons.                    *)
NeedsVerificationFlaggedOnly(sig, previous) == previous.unverified
NeedsContentVerification(sig, previous) ==
  previous.unverified \/ (sig.size = Nil /\ sig.modified = Nil)

(* downloadRetryAt: the key is backing off.                                *)
BacksOff(previous) == previous # NoRecord /\ previous.resting

(* The decision processRemoteFiles takes about one discovered file.        *)
Verdict(forced, sig, previous, content) ==
  IF ~forced /\ BacksOff(previous) THEN "backoff"
  ELSE IF forced \/ FileChanged(sig, previous) \/ content = Nothing THEN "fetch"
  ELSE IF NeedsContentVerification(sig, previous) THEN "verify"
  ELSE "skip"

(* recordDownloadFailure: the failure half of the record changes, nothing  *)
(* else.                                                                   *)
FailureRecord(previous) ==
  IF previous = NoRecord
  THEN [size |-> Nil, modified |-> Nil, resting |-> TRUE, unverified |-> FALSE]
  ELSE [previous EXCEPT !.resting = TRUE]

(* The record a successful download leaves: OPAL's columns as the crawl    *)
(* read them, no failure, no doubt.                                        *)
SuccessRecord(sig) ==
  [size |-> sig.size, modified |-> sig.modified, resting |-> FALSE, unverified |-> FALSE]

(* A verification that found the bytes identical vouches for the record.   *)
VerifiedRecord(previous) == [previous EXCEPT !.unverified = FALSE]

=============================================================================
