--------------------------- MODULE BuildHook_proofs ---------------------------
(***************************************************************************)
(* What holds of the build hook for every choice of sources, whether or    *)
(* not the release has a hash, and however hooks are interrupted.          *)
(***************************************************************************)
EXTENDS BuildHook, TLAPS

(* What is renamed into the cache was downloaded to its end.               *)
DownloadInv == pc = "rename" => tmp # "partial"

(* What is being copied is a library; what is being downloaded will be     *)
(* copied from the cache.                                                  *)
CopyInv ==
  /\ pc \in {"copy", "copying"} => (IF from = "cached" THEN cached ELSE built) = "good"
  /\ pc \in {"download", "piping", "rename", "verify"} => from = "cached"

(* What is where the library belongs is a library, but for the time of a   *)
(* copy and after one that was interrupted; a hook that ends or has ended  *)
(* without an exception has left something there.                          *)
TargetInv ==
  /\ pc # "copying" /\ Exists(target) /\ ~torn => target = "good"
  /\ pc = "check" => Exists(target)
  /\ ended = "asset" => pc = "idle" /\ Exists(target)

IInv == TypeOK /\ DownloadInv /\ CopyInv /\ TargetInv

LEMMA InitInv == Init => IInv
BY DEF Init, IInv, TypeOK, DownloadInv, CopyInv, TargetInv, Content, Exists

LEMMA TypeStep == TypeOK /\ DownloadInv /\ [Next]_vars => TypeOK'
<1> SUFFICES ASSUME TypeOK, DownloadInv, [Next]_vars PROVE TypeOK'
  OBVIOUS
<1> USE DEF TypeOK, Content
<1>1. CASE HookStarts
  BY <1>1 DEF HookStarts, Provider, Exists, files
<1>2. CASE ValidateCached \/ RequestFails \/ RequestSucceeds \/ TransferBreaks \/ VerifyDownload
  BY <1>2 DEF ValidateCached, RequestFails, RequestSucceeds, TransferBreaks, VerifyDownload,
       Goes, Throws, Valid, files
<1>3. CASE TransferEnds("good") \/ TransferEnds("bad")
  BY <1>3 DEF TransferEnds, Goes
<1>4. CASE Rename
  BY <1>4 DEF Rename, Goes, DownloadInv
<1>5. CASE CompileFails \/ CompileSucceeds \/ CopyStarts \/ CopyEnds \/ CopyFails \/ AssetAdded
  BY <1>5 DEF CompileFails, CompileSucceeds, CopyStarts, CopyEnds, CopyFails, AssetAdded,
       Goes, Throws, files
<1>6. CASE Interrupted \/ Cleaned
  BY <1>6 DEF Interrupted, Cleaned, files
<1>7. CASE UNCHANGED vars
  BY <1>7 DEF vars
<1> QED BY <1>1, <1>2, <1>3, <1>4, <1>5, <1>6, <1>7 DEF Next, HookStep

LEMMA DownloadStep == TypeOK /\ DownloadInv /\ [Next]_vars => DownloadInv'
<1> SUFFICES ASSUME DownloadInv, [Next]_vars PROVE DownloadInv'
  OBVIOUS
<1> USE DEF DownloadInv
<1>1. CASE HookStarts
  BY <1>1 DEF HookStarts, Provider
<1>2. CASE TransferEnds("good") \/ TransferEnds("bad")
  BY <1>2 DEF TransferEnds
<1>3. CASE HookStep /\ ~TransferEnds("good") /\ ~TransferEnds("bad")
  BY <1>3 DEF HookStep, ValidateCached, RequestFails, RequestSucceeds, TransferBreaks, Rename,
       VerifyDownload, CompileFails, CompileSucceeds, CopyStarts, CopyEnds, CopyFails,
       AssetAdded, Goes, Throws, Valid
<1>4. CASE Interrupted \/ Cleaned \/ UNCHANGED vars
  BY <1>4 DEF Interrupted, Cleaned, vars
<1> QED BY <1>1, <1>2, <1>3, <1>4 DEF Next

(* A copy begins from a file that has just been found or made good, and no *)
(* other step changes that file before the copy ends.                      *)
LEMMA CopyStep == TypeOK /\ CopyInv /\ [Next]_vars => CopyInv'
<1> SUFFICES ASSUME TypeOK, CopyInv, [Next]_vars PROVE CopyInv'
  OBVIOUS
<1> USE DEF CopyInv, TypeOK
<1>1. CASE HookStarts
  BY <1>1 DEF HookStarts, Provider
<1>2. CASE ValidateCached
  BY <1>2 DEF ValidateCached, Goes, Valid
<1>3. CASE VerifyDownload
  <2>1. CASE Valid(cached)
    BY <1>3, <2>1 DEF VerifyDownload, Goes, Valid
  <2>2. CASE ~Valid(cached)
    BY <1>3, <2>2 DEF VerifyDownload, Goes, Throws
  <2> QED BY <2>1, <2>2
<1>4. CASE CompileSucceeds
  BY <1>4 DEF CompileSucceeds, Goes
<1>5. CASE CopyStarts
  BY <1>5 DEF CopyStarts, Goes
<1>6. CASE RequestFails \/ RequestSucceeds \/ TransferBreaks \/ Rename \/ CompileFails
           \/ TransferEnds("good") \/ TransferEnds("bad") \/ CopyEnds \/ CopyFails \/ AssetAdded
  BY <1>6 DEF RequestFails, RequestSucceeds, TransferBreaks, Rename, CompileFails,
       TransferEnds, CopyEnds, CopyFails, AssetAdded, Goes, Throws
<1>7. CASE Interrupted \/ Cleaned \/ UNCHANGED vars
  BY <1>7 DEF Interrupted, Cleaned, vars
<1> QED BY <1>1, <1>2, <1>3, <1>4, <1>5, <1>6, <1>7 DEF Next, HookStep

LEMMA TargetStep == TypeOK /\ CopyInv /\ TargetInv /\ [Next]_vars => TargetInv'
<1> SUFFICES ASSUME CopyInv, TargetInv, [Next]_vars PROVE TargetInv'
  OBVIOUS
<1> USE DEF TargetInv
<1>1. CASE HookStarts
  BY <1>1 DEF HookStarts, Provider, Exists, files
<1>2. CASE CopyStarts
  BY <1>2 DEF CopyStarts, Goes
<1>3. CASE CopyEnds
  BY <1>3 DEF CopyEnds, Goes, CopyInv, Exists
<1>4. CASE CopyFails
  BY <1>4 DEF CopyFails, Goes, Throws, Exists
<1>5. CASE AssetAdded
  BY <1>5 DEF AssetAdded, Exists, files
<1>6. CASE ValidateCached \/ RequestFails \/ RequestSucceeds \/ TransferBreaks \/ Rename
           \/ VerifyDownload
  BY <1>6 DEF ValidateCached, RequestFails, RequestSucceeds, TransferBreaks, Rename,
       VerifyDownload, Goes, Throws, Valid, Exists, files
<1>7. CASE TransferEnds("good") \/ TransferEnds("bad") \/ CompileFails \/ CompileSucceeds
  BY <1>7 DEF TransferEnds, CompileFails, CompileSucceeds, Goes, Throws, Exists, files
<1>8. CASE Interrupted
  BY <1>8 DEF Interrupted, Exists, files
<1>9. CASE Cleaned
  BY <1>9 DEF Cleaned, Exists
<1>10. CASE UNCHANGED vars
  BY <1>10 DEF vars, Exists
<1> QED BY <1>1, <1>2, <1>3, <1>4, <1>5, <1>6, <1>7, <1>8, <1>9, <1>10 DEF Next, HookStep

LEMMA Inductive == Spec => []IInv
<1>1. IInv /\ [Next]_vars => IInv'
  BY TypeStep, DownloadStep, CopyStep, TargetStep DEF IInv
<1> QED BY InitInv, <1>1, PTL DEF Spec

(* Each variable keeps to its type; no file of the cache is a part of one. *)
THEOREM TypeCorrect == Spec => []TypeOK
<1>1. IInv => TypeOK
  BY DEF IInv
<1> QED BY Inductive, <1>1, PTL

(* Nothing leaves the cache that was not verified (library_provider.dart   *)
(* 166-179), whatever was left there and whenever.                         *)
THEOREM OnlyVerifiedIsCopied == Spec => []CopiesVerified
<1>1. IInv => CopiesVerified
  BY DEF IInv, CopyInv, CopiesVerified
<1> QED BY Inductive, <1>1, PTL

(* The asset is a whole library unless a copy was interrupted before it.   *)
THEOREM AssetsAreWhole == Spec => []AssetIsWhole
<1>1. IInv => AssetIsWhole
  BY DEF IInv, TargetInv, AssetIsWhole
<1> QED BY Inductive, <1>1, PTL
=============================================================================
