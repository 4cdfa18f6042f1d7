----------------------------- MODULE BuildHook -----------------------------
(***************************************************************************)
(* The build hook (hook/build.dart, lib/src/hook/library_provider.dart):   *)
(* it provides the native library for one target, by downloading it into a *)
(* cache that outlives the build, or by compiling it, and copies it to     *)
(* where the application takes it from.                                    *)
(*                                                                         *)
(* One hook runs at a time, and may be interrupted anywhere; the next one  *)
(* finds the files as they are.  A file is named by what is in it.         *)
(***************************************************************************)
EXTENDS Naturals

CONSTANTS
  Sources,  \* the values of the user's "source" define
  Hashed    \* whether the release lists a hash for this target

Source == {"auto", "prebuilt", "compile"}
ASSUME SourceAssumption == Sources \subseteq Source /\ Hashed \in BOOLEAN

VARIABLES
  pc,        \* what the hook is doing
  tmp,       \* cacheDir/<name>.tmp
  cached,    \* cacheDir/<name>
  built,     \* what cargo has left in its target directory
  from,      \* the file that is being copied: "cached" or "built"
  target,    \* the library the application gets
  ended,     \* history: how the last hook ended
  torn       \* history: a hook was interrupted while it copied

vars == <<pc, tmp, cached, built, from, target, ended, torn>>
files == <<tmp, cached, built, target>>

Content == {"none", "partial", "bad", "good"}
Exists(file) == file # "none"

Init ==
  /\ pc = "idle" /\ from = "cached"
  /\ tmp = "none" /\ cached = "none" /\ built = "none" /\ target = "none"
  /\ ended = "none" /\ torn = FALSE

Goes(step) == pc' = step /\ UNCHANGED <<ended, torn>>
Throws == pc' = "idle" /\ ended' = "exception" /\ UNCHANGED torn

(* LibraryProvider.resolve, and what AutoProvider chooses.                 *)
Provider(source) ==
  IF source = "compile" \/ (source = "auto" /\ ~Hashed) THEN "compile" ELSE "validate"

(* _build: a library that is there is taken.                               *)
HookStarts ==
  /\ pc = "idle"
  /\ ended' = "none"
  /\ \E source \in Sources : pc' = IF Exists(target) THEN "check" ELSE Provider(source)
  /\ UNCHANGED <<files, from, torn>>

(* _validateHash                                                           *)
Valid(file) == file = "good"

(* Mutant of ValidateCached: a cached file is taken as it is.              *)
TrustCached ==
  /\ pc = "validate"
  /\ Goes(IF Exists(cached) THEN "copy" ELSE "download")
  /\ from' = "cached"
  /\ UNCHANGED files

(* Mutant of ValidateCached: a bad file is reported and stays.             *)
RejectCached ==
  /\ pc = "validate"
  /\ IF Exists(cached) /\ ~Valid(cached) THEN Throws
                                         ELSE Goes(IF Valid(cached) THEN "copy" ELSE "download")
  /\ from' = "cached"
  /\ UNCHANGED files

(* DownloadPrebuilt.provide: a cached file is used if its hash is right,   *)
(* and deleted if not.                                                     *)
ValidateCached ==
  /\ pc = "validate"
  /\ Goes(IF Valid(cached) THEN "copy" ELSE "download")
  /\ cached' = IF Valid(cached) THEN cached ELSE "none"
  /\ from' = "cached"
  /\ UNCHANGED <<tmp, built, target>>

(* _download                                                               *)
RequestFails ==
  /\ pc = "download"
  /\ Throws
  /\ UNCHANGED <<files, from>>

(* Mutant of RequestSucceeds: the download is written to the cached file.  *)
DownloadInPlace ==
  /\ pc = "download" /\ Hashed
  /\ cached' = "partial"
  /\ Goes("piping")
  /\ UNCHANGED <<tmp, built, target, from>>

RequestSucceeds ==
  /\ pc = "download" /\ Hashed
  /\ tmp' = "partial"
  /\ Goes("piping")
  /\ UNCHANGED <<cached, built, target, from>>

TransferEnds(content) ==
  /\ pc = "piping"
  /\ tmp' = content
  /\ Goes("rename")
  /\ UNCHANGED <<cached, built, target, from>>

TransferBreaks ==
  /\ pc = "piping"
  /\ Throws
  /\ UNCHANGED <<files, from>>

Rename ==
  /\ pc = "rename"
  /\ cached' = tmp /\ tmp' = "none"
  /\ Goes("verify")
  /\ UNCHANGED <<built, target, from>>

(* Mutant of VerifyDownload: the hash is not looked at again.              *)
AcceptDownload ==
  /\ pc = "verify"
  /\ Goes("copy")
  /\ UNCHANGED <<files, from>>

VerifyDownload ==
  /\ pc = "verify"
  /\ IF Valid(cached) THEN Goes("copy") /\ UNCHANGED cached
                      ELSE Throws /\ cached' = "none"
  /\ UNCHANGED <<tmp, built, target, from>>

(* CompileFromSource.provide: no cargo, a build that fails, or a library.  *)
CompileFails ==
  /\ pc = "compile"
  /\ Throws
  /\ UNCHANGED <<files, from>>

CompileSucceeds ==
  /\ pc = "compile"
  /\ built' = "good" /\ from' = "built"
  /\ Goes("copy")
  /\ UNCHANGED <<tmp, cached, target>>

(* copySync writes the file where it is to be used.                        *)
CopyStarts ==
  /\ pc = "copy"
  /\ target' = "partial"
  /\ Goes("copying")
  /\ UNCHANGED <<tmp, cached, built, from>>

CopyEnds ==
  /\ pc = "copying"
  /\ target' = IF from = "cached" THEN cached ELSE built
  /\ Goes("check")
  /\ UNCHANGED <<tmp, cached, built, from>>

CopyFails ==
  /\ pc \in {"copy", "copying"}
  /\ target' = "none"
  /\ Throws
  /\ UNCHANGED <<tmp, cached, built, from>>

AssetAdded ==
  /\ pc = "check"
  /\ pc' = "idle" /\ ended' = "asset"
  /\ UNCHANGED <<files, from, torn>>

(* The build is interrupted.                                               *)
Interrupted ==
  /\ pc # "idle"
  /\ pc' = "idle" /\ ended' = "interrupted"
  /\ torn' = (torn \/ pc = "copying")
  /\ UNCHANGED <<files, from>>

(* The build's output is removed; the cache of all builds may stay.        *)
Cleaned ==
  /\ pc = "idle"
  /\ target' = "none" /\ ended' = "none" /\ torn' = FALSE
  /\ \/ tmp' = "none" /\ cached' = "none" /\ built' = "none"
     \/ UNCHANGED <<tmp, cached, built>>
  /\ UNCHANGED <<pc, from>>

HookStep ==
  \/ ValidateCached \/ RequestFails \/ RequestSucceeds
  \/ TransferEnds("good") \/ TransferEnds("bad") \/ TransferBreaks \/ Rename \/ VerifyDownload
  \/ CompileFails \/ CompileSucceeds \/ CopyStarts \/ CopyEnds \/ CopyFails \/ AssetAdded

Next == HookStarts \/ HookStep \/ Interrupted \/ Cleaned

(* A hook that runs goes on; nobody has to start one.                      *)
Spec == Init /\ [][Next]_vars /\ WF_vars(HookStep)

(***************************************************************************)
(* Properties                                                              *)
(***************************************************************************)

(* Every variable holds a value of its type; a file of the cache is never  *)
(* one that is still being downloaded (library_provider.dart 196-215).     *)
TypeOK ==
  /\ pc \in {"idle", "validate", "download", "piping", "rename", "verify", "compile", "copy",
             "copying", "check"}
  /\ {tmp, built, target} \subseteq Content /\ from \in {"cached", "built"}
  /\ cached \in Content \ {"partial"}
  /\ ended \in {"none", "asset", "exception", "interrupted"} /\ torn \in BOOLEAN

(* Nothing is copied from the cache that has not the hash of the release,  *)
(* whatever an interrupted hook has left there (library_provider.dart      *)
(* 166-179): not a download cut short, nor one renamed and never verified. *)
CopiesVerified == pc \in {"copy", "copying"} /\ from = "cached" => cached = "good"

(* The asset a hook returns is a whole library, verified or compiled,      *)
(* unless a hook was interrupted in its copy: what that one left is taken  *)
(* for the library by all that follow (build.dart 20).                     *)
AssetIsWhole == ended = "asset" /\ ~torn => target = "good"

(* However hooks have failed or been interrupted before, one that is       *)
(* started again and again, whose downloads come through and whose copies  *)
(* succeed, returns an asset: no file left behind stands in its way.       *)
TriedAgain == WF_vars(HookStarts)
Undisturbed == <>[][~Interrupted /\ ~Cleaned /\ ~CopyFails]_vars
ServerWorks ==
  <>[][~RequestFails /\ ~TransferBreaks /\ ~TransferEnds("bad") /\ ~CompileFails]_vars
HookRecovers == TriedAgain /\ Undisturbed /\ ServerWorks => <>(ended = "asset")
=============================================================================
