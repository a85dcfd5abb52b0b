------------------------------ MODULE SlLoader ------------------------------
(***************************************************************************)
(* Loading sl.interposer.dll: SlApi::load (src/streamline/ffi.rs) behind   *)
(* the signature gate of src/streamline/security.rs, while the files on    *)
(* disk may be updated between any two of its steps and another thread may *)
(* create the wgpu Instance whose DXGI factory the wgpu patch upgrades     *)
(* through the mapped interposer.                                          *)
(*                                                                         *)
(* A file is a directory and a name; its content is a member of Contents,  *)
(* which CONSTANT functions classify: whether the signature chains to a    *)
(* trusted root, whose it is, and whether the image has every export.      *)
(***************************************************************************)
EXTENDS Naturals, Sequences, FiniteSets

CONSTANTS
  Contents,     \* what a DLL's bytes may be
  Absent,       \* no file
  Trust,        \* content -> "valid" | "revoked" | "untrusted"
  Signer,       \* content -> "NVIDIA" | "other"
  Complete,     \* content -> every export load resolves is there
  Plugins,      \* SIBLING_SL_PLUGINS, a sequence
  ShimNames,    \* LOADER_SHIM_NAMES, a set
  MaxUpdates,   \* bound: replacements of a file
  MaxLoads      \* bound: calls of load

ASSUME LoaderAssumption ==
  /\ Absent \notin Contents
  /\ Trust \in [Contents -> {"valid", "revoked", "untrusted"}]
  /\ Signer \in [Contents -> {"NVIDIA", "other"}]
  /\ Complete \in [Contents -> BOOLEAN]
  /\ Plugins \in Seq(STRING) /\ ShimNames \subseteq STRING
  /\ \A i \in DOMAIN Plugins : Plugins[i] # "sl.interposer.dll"
  /\ "sl.interposer.dll" \notin ShimNames
  /\ MaxUpdates \in Nat /\ MaxLoads \in Nat

VARIABLES
  disk,       \* file -> content or Absent
  exeDir,     \* where the executable is: "exe" | "sdk" | "unknown"
  allowed,    \* the opt-out from the signer pin is in force
  phase,      \* where load is
  todo,       \* the files it still has to verify; the first is being verified
  locked,     \* the files it holds share-locked
  result,     \* of the last load: "none" | "Ok" | "Err"
  image,      \* content mapped as sl.interposer.dll, or Absent
  refs,       \* LoadLibrary references to it
  freed,      \* FreeLibrary was called on it
  factory,    \* Instance::init: "none" | "resolved" | "plain" | "proxy"
  ordered,    \* Instance::init began after a load returned Ok
  waived,     \* <<content, reason>>: passed over a check it might have failed
  quiet,      \* no file was replaced since the load began
  loads, updates

loadVars == <<phase, todo, locked, result>>
imageVars == <<image, refs, freed>>
instanceVars == <<factory, ordered>>
vars == <<disk, exeDir, allowed, loadVars, imageVars, instanceVars, waived,
          quiet, loads, updates>>

Interposer == <<"sdk", "sl.interposer.dll">>
KnownDirs == {exeDir, "sdk"} \ {"unknown"}
Siblings == KnownDirs \X {Plugins[i] : i \in DOMAIN Plugins}
Shims == ({exeDir} \ {"unknown"}) \X ShimNames

\* The files load looks at, by its knowledge of where the executable is.
Files == {Interposer} \union Siblings \union Shims

PluginsIn(dir) == [i \in DOMAIN Plugins |-> <<dir, Plugins[i]>>]

\* Mutant: only the interposer's own directory is looked at.
SiblingList_SdkOnly == PluginsIn("sdk")

\* verify_sibling_plugins: the executable's directory, if it is known, then the
\* interposer's, once if they are the same.
SiblingList ==
  IF exeDir = "exe" THEN PluginsIn("exe") \o PluginsIn("sdk") ELSE PluginsIn("sdk")

\* unverified_signer_allowed_from, on which of the two variables are "1".
UnverifiedSignerAllowed(allow, require) == allow /\ ~require

Init ==
  /\ exeDir \in {"exe", "sdk", "unknown"}
  /\ disk \in [Files -> Contents \union {Absent}]
  /\ \E allow, require \in BOOLEAN : allowed = UnverifiedSignerAllowed(allow, require)
  /\ phase = "idle" /\ todo = <<>> /\ locked = {} /\ result = "none"
  /\ image = Absent /\ refs = 0 /\ freed = FALSE
  /\ factory = "none" /\ ordered = FALSE
  /\ waived = {} /\ quiet = TRUE /\ loads = 0 /\ updates = 0

-----------------------------------------------------------------------------
(* How a load ends *)

\* An early return: the locals, the VerifiedDll among them, are dropped.
Fail ==
  /\ phase' = "idle" /\ todo' = <<>> /\ locked' = {} /\ result' = "Err"

Goto(p) == phase' = p /\ UNCHANGED <<todo, locked, result>>

-----------------------------------------------------------------------------
(* Up to the gate *)

\* resolve_existing_interposer: $STREAMLINE_SDK may not be set, or hold no
\* interposer.
BeginLoad ==
  /\ phase = "idle" /\ loads < MaxLoads
  /\ loads' = loads + 1 /\ quiet' = TRUE
  /\ \/ Fail
     \/ disk[Interposer] # Absent /\ Goto("shims")
  /\ UNCHANGED <<disk, exeDir, allowed, imageVars, instanceVars, waived, updates>>

\* find_loader_shim: a byte copy of the interposer beside the executable.  If
\* either cannot be read, they are taken for different files.
ShimConflict ==
  \E name \in ShimNames :
    /\ exeDir # "unknown"
    /\ disk[<<exeDir, name>>] # Absent
    /\ disk[<<exeDir, name>>] = disk[Interposer]

RejectShims ==
  /\ phase = "shims"
  /\ \/ ShimConflict /\ Fail /\ UNCHANGED waived
     \/ /\ phase' = "open" /\ todo' = <<Interposer>>
        /\ UNCHANGED <<locked, result>>
        /\ waived' = waived \union
             (IF ShimConflict THEN {<<disk[Interposer], "unread">>} ELSE {})
  /\ UNCHANGED <<disk, exeDir, allowed, imageVars, instanceVars, quiet, loads, updates>>

-----------------------------------------------------------------------------
(* verify_dll_locked on the first file of todo, the interposer or a sibling *)

\* open_locked_for_verify: CreateFileW with FILE_SHARE_READ only.
OpenLocked ==
  /\ phase = "open"
  /\ \/ Fail
     \/ /\ disk[Head(todo)] # Absent
        /\ phase' = "trust" /\ locked' = locked \union {Head(todo)}
        /\ UNCHANGED <<todo, result>>
  /\ UNCHANGED <<disk, exeDir, allowed, imageVars, instanceVars, waived, quiet,
                 loads, updates>>

\* What WinVerifyTrust may say of content c, with and without revocation.
TrustStatus(c, revocation) ==
  {"refused"} \union
  (IF revocation THEN {"offline"} ELSE {}) \union
  (IF Trust[c] = "valid" \/ (Trust[c] = "revoked" /\ ~revocation)
   THEN {"ok"} ELSE {})

\* Mutant: any failure is retried without revocation checking.
RetryWithoutRevocation_Always(status) == status # "ok"

\* is_revocation_offline.
RetryWithoutRevocation(status) == status = "offline"

\* verify_trust, first attempt.
VerifyTrust ==
  /\ phase = "trust"
  /\ \E status \in TrustStatus(disk[Head(todo)], TRUE) :
       \/ status = "ok" /\ Goto("signer") /\ UNCHANGED waived
       \/ /\ RetryWithoutRevocation(status) /\ Goto("retry")
          /\ waived' = waived \union
               (IF status = "offline" THEN {<<disk[Head(todo)], "revocation">>} ELSE {})
       \/ /\ status # "ok" /\ ~RetryWithoutRevocation(status)
          /\ Fail /\ UNCHANGED waived
  /\ UNCHANGED <<disk, exeDir, allowed, imageVars, instanceVars, quiet, loads, updates>>

\* verify_trust, the one retry.
VerifyTrustOffline ==
  /\ phase = "retry"
  /\ \E status \in TrustStatus(disk[Head(todo)], FALSE) :
       \/ status = "ok" /\ Goto("signer")
       \/ status # "ok" /\ Fail
  /\ UNCHANGED <<disk, exeDir, allowed, imageVars, instanceVars, waived, quiet,
                 loads, updates>>

\* Mutant: the interposer's handle is closed like a sibling's.
KeepsLock_Never(f) == FALSE

\* verify_interposer_signature returns the guard, verify_signed_dll drops it.
KeepsLock(f) == f = Interposer

\* extract_signer_subject on content c: any of its steps may fail.
SignerSubject(c) == {Signer[c], "unreadable"}

\* verify_signer_is_nvidia, and the return from verify_dll_locked.
VerifySigner ==
  /\ phase = "signer"
  /\ \E subject \in SignerSubject(disk[Head(todo)]) :
       \/ /\ subject = "NVIDIA" \/ (subject = "unreadable" /\ allowed)
          /\ phase' = "next"
          /\ todo' = IF Head(todo) = Interposer THEN SiblingList ELSE Tail(todo)
          /\ locked' = IF KeepsLock(Head(todo)) THEN locked ELSE locked \ {Head(todo)}
          /\ waived' = waived \union
               (IF subject = "unreadable" THEN {<<disk[Head(todo)], "signer">>} ELSE {})
          /\ UNCHANGED result
       \/ /\ subject = "other" \/ (subject = "unreadable" /\ ~allowed)
          /\ Fail /\ UNCHANGED waived
  /\ UNCHANGED <<disk, exeDir, allowed, imageVars, instanceVars, quiet, loads, updates>>

\* verify_sibling_plugins: a sibling that is not there is skipped, and so is one
\* of which Path::exists cannot tell.
NextSibling ==
  /\ phase = "next"
  /\ \/ todo # <<>> /\ disk[Head(todo)] # Absent /\ Goto("open") /\ UNCHANGED waived
     \/ /\ todo # <<>>
        /\ todo' = Tail(todo) /\ UNCHANGED <<phase, locked, result>>
        /\ waived' = waived \union ({<<disk[Head(todo)], "unread">>} \ {<<Absent, "unread">>})
     \/ todo = <<>> /\ Goto("map") /\ UNCHANGED waived
  /\ UNCHANGED <<disk, exeDir, allowed, imageVars, instanceVars, quiet, loads, updates>>

-----------------------------------------------------------------------------
(* Mapping the image *)

\* Library::new: an image that is mapped already is only referenced again.
MapImage ==
  /\ phase = "map"
  /\ \/ Fail /\ UNCHANGED imageVars
     \/ /\ image # Absent \/ disk[Interposer] # Absent
        /\ image' = IF image = Absent THEN disk[Interposer] ELSE image
        /\ refs' = refs + 1
        /\ UNCHANGED freed
        /\ Goto("resolve")
  /\ UNCHANGED <<disk, exeDir, allowed, instanceVars, waived, quiet, loads, updates>>

\* Mutant: the reference of a failed load is given back twice.
FreeImage_Twice ==
  /\ refs' = refs - 2
  /\ image' = IF refs = 1 THEN Absent ELSE image
  /\ freed' = TRUE

\* Dropping the Library is FreeLibrary.
FreeImage ==
  /\ refs' = refs - 1
  /\ image' = IF refs = 1 THEN Absent ELSE image
  /\ freed' = TRUE

\* Mutant: the Library is not forgotten when load succeeds.
KeepImage_Drops == FreeImage

\* mem::forget(lib).
KeepImage == UNCHANGED imageVars

\* The exports are resolved, and the guard is dropped; at a missing export the
\* early return drops the Library too.
ResolveExports ==
  /\ phase = "resolve"
  /\ \/ /\ Complete[image]
        /\ KeepImage
        /\ phase' = "idle" /\ locked' = {} /\ result' = "Ok"
        /\ UNCHANGED todo
     \/ ~Complete[image] /\ FreeImage /\ Fail
  /\ UNCHANGED <<disk, exeDir, allowed, instanceVars, waived, quiet, loads, updates>>

-----------------------------------------------------------------------------
(* Instance::init of the patched wgpu-hal: streamline::upgrade_factory *)

\* resolve_upgrade_interface: GetModuleHandleW takes no reference.
ResolveUpgrade ==
  /\ factory = "none"
  /\ \/ image # Absent /\ factory' = "resolved"
     \/ factory' = "plain"
  /\ (image = Absent => factory' = "plain")
  /\ ordered' = (result = "Ok")
  /\ UNCHANGED <<disk, exeDir, allowed, loadVars, imageVars, waived, quiet, loads,
                 updates>>

\* streamline_upgrade: slUpgradeInterface fails, returns null or the same
\* pointer, or replaces the factory with a proxy.
Upgrade ==
  /\ factory = "resolved"
  /\ factory' \in {"plain", "proxy"}
  /\ UNCHANGED <<disk, exeDir, allowed, loadVars, imageVars, ordered, waived, quiet,
                 loads, updates>>

-----------------------------------------------------------------------------
\* Someone replaces, adds or removes a file that is not share-locked.
UpdateFile ==
  /\ updates < MaxUpdates
  /\ \E f \in Files \ locked, c \in Contents \union {Absent} :
       disk[f] # c /\ disk' = [disk EXCEPT ![f] = c]
  /\ updates' = updates + 1
  /\ quiet' = FALSE
  /\ UNCHANGED <<exeDir, allowed, loadVars, imageVars, instanceVars, waived, loads>>

Next ==
  \/ BeginLoad \/ RejectShims
  \/ OpenLocked \/ VerifyTrust \/ VerifyTrustOffline \/ VerifySigner
  \/ NextSibling \/ MapImage \/ ResolveExports
  \/ ResolveUpgrade \/ Upgrade
  \/ UpdateFile

Spec == Init /\ [][Next]_vars
-----------------------------------------------------------------------------
FlagsOK ==
  /\ allowed \in BOOLEAN /\ freed \in BOOLEAN /\ ordered \in BOOLEAN
  /\ quiet \in BOOLEAN

FilesOK ==
  /\ disk \in [Files -> Contents \union {Absent}]
  /\ todo \in Seq(Files) /\ locked \subseteq Files

WordsOK ==
  /\ exeDir \in {"exe", "sdk", "unknown"}
  /\ phase \in {"idle", "shims", "open", "trust", "retry", "signer", "next", "map",
                "resolve"}
  /\ result \in {"none", "Ok", "Err"}
  /\ image \in Contents \union {Absent} /\ refs \in Nat
  /\ factory \in {"none", "resolved", "plain", "proxy"}
  /\ waived \subseteq Contents \X {"revocation", "signer", "unread"}
  /\ loads \in Nat /\ updates \in Nat

TypeOK == FlagsOK /\ FilesOK /\ WordsOK

\* What the gate may accept: a chain to a trusted root; a revoked signer only
\* where revocation could not be checked; another signer than NVIDIA only where
\* its name could not be read and the opt-out is in force.
Acceptable(c) ==
  /\ Trust[c] # "untrusted"
  /\ Trust[c] = "revoked" => <<c, "revocation">> \in waived
  /\ Signer[c] # "NVIDIA" => <<c, "signer">> \in waived /\ allowed

\* ffi.rs:330-341, security.rs:17-18 and :99-102: whatever is done to the files
\* while load runs, the image that is mapped is one the gate accepts.
MappedWasAccepted == image # Absent => Acceptable(image)

\* ffi.rs:43-88: a load during which no file was replaced succeeds only beside
\* plugins the gate accepts, in both directories the loader may find them in, and
\* without a loader shim, but for files that could not be read.
QuietLoadIsClean ==
  result = "Ok" /\ quiet /\ phase = "idle" =>
    /\ ShimConflict => <<disk[Interposer], "unread">> \in waived
    /\ \A f \in Siblings :
         disk[f] # Absent => Acceptable(disk[f]) \/ <<disk[f], "unread">> \in waived

\* ffi.rs:384-388 and the factory upgrade: the Instance of an application that
\* creates it after load has returned Ok never calls into, or holds a proxy of,
\* an image that has been unmapped.
ProxyStaysMapped ==
  ordered /\ factory \in {"resolved", "proxy"} => image # Absent

\* ffi.rs:236-241: the Library is leaked, "never calling `FreeLibrary`".
NeverFreed == ~freed
-----------------------------------------------------------------------------
(* The inductive invariant behind the properties *)

Verifying == {"open", "trust", "retry", "signer"}

\* The interposer has passed both gates in this load.
PastGate ==
  \/ phase \in {"next", "map", "resolve"}
  \/ phase \in Verifying /\ todo # <<Interposer>>

\* What todo holds in each phase.
TodoOK ==
  /\ phase \in Verifying => todo # <<>>
  /\ PastGate => todo \in Seq(Siblings)

\* A file whose bytes are looked at is there, and nobody can replace it.
HoldsCurrent ==
  phase \in Verifying \ {"open"} =>
    /\ Head(todo) \in locked
    /\ disk[Head(todo)] # Absent
    /\ phase = "retry" => <<disk[Head(todo)], "revocation">> \in waived
    /\ phase = "signer" =>
         /\ Trust[disk[Head(todo)]] # "untrusted"
         /\ Trust[disk[Head(todo)]] = "revoked" =>
              <<disk[Head(todo)], "revocation">> \in waived

\* From the gate to the map, the interposer is locked and acceptable.
HoldsInterposer ==
  PastGate =>
    /\ Interposer \in locked
    /\ disk[Interposer] # Absent
    /\ Acceptable(disk[Interposer])

\* load has a reference of its own while it resolves exports; a load that
\* returned Ok has left one for good.
RefsOK ==
  /\ image = Absent <=> refs = 0
  /\ phase = "resolve" => refs > 0
  /\ result = "Ok" \/ ordered => refs > IF phase = "resolve" THEN 1 ELSE 0

IndInv ==
  TypeOK /\ TodoOK /\ HoldsCurrent /\ HoldsInterposer /\ MappedWasAccepted /\ RefsOK
=============================================================================
