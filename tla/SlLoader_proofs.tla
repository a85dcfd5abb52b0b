-------------------------- MODULE SlLoader_proofs --------------------------
(***************************************************************************)
(* What SlLoader promises, for any DLL contents, plugins and shim names,   *)
(* and any number of loads and file replacements.                          *)
(***************************************************************************)
EXTENDS SlLoader, TLAPS

\* verify_sibling_plugins looks at siblings only (ffi.rs:68-80).
LEMMA SiblingsListed ==
  ASSUME exeDir \in {"exe", "sdk", "unknown"}
  PROVE  SiblingList \in Seq(Siblings)
<1>1. \A d \in KnownDirs : PluginsIn(d) \in Seq(Siblings)
  <2> TAKE d \in KnownDirs
  <2>1. DOMAIN Plugins = 1..Len(Plugins) /\ Len(Plugins) \in Nat
    OBVIOUS
  <2>2. PluginsIn(d) \in [1..Len(Plugins) -> Siblings]
    BY DEF PluginsIn, Siblings
  <2> QED BY <2>2
<1>2. "sdk" \in KnownDirs /\ (exeDir = "exe" => "exe" \in KnownDirs)
  BY DEF KnownDirs
<1> QED BY <1>1, <1>2 DEF SiblingList

\* No sibling has the interposer's name.
LEMMA InterposerIsNoSibling == Interposer \notin Siblings
<1>1. \A i \in DOMAIN Plugins : Plugins[i] # "sl.interposer.dll"
  BY LoaderAssumption
<1> QED BY <1>1 DEF Interposer, Siblings

\* Every file a load may verify is one it looks at.
LEMMA InterposerIsFile == Interposer \in Files /\ Siblings \subseteq Files
BY DEF Files

\* So what verify_sibling_plugins goes through are such files.
LEMMA SiblingSeqs == \A s \in Seq(Siblings) : s \in Seq(Files)
BY InterposerIsFile

\* As is what load starts with, and what it ends with.
LEMMA ShortSeqs == <<>> \in Seq(Files) /\ <<Interposer>> \in Seq(Files)
BY InterposerIsFile

\* The executable does not move, nor do the files load looks at.
LEMMA FilesFixed ==
  ASSUME [Next]_vars
  PROVE  /\ exeDir' = exeDir
         /\ Files' = Files
         /\ \A s \in Seq(Files) : s \in Seq(Files')
         /\ \A s \in Seq(Siblings) : s \in Seq(Siblings')
<1>1. exeDir' = exeDir
  BY DEF Next, vars, BeginLoad, RejectShims, OpenLocked, VerifyTrust,
     VerifyTrustOffline, VerifySigner, NextSibling, MapImage, ResolveExports,
     ResolveUpgrade, Upgrade, UpdateFile
<1>2. Files' = Files /\ Siblings' = Siblings
  BY <1>1 DEF Files, Siblings, Shims, KnownDirs
<1>3. Files \subseteq Files' /\ Siblings \subseteq Siblings'
  BY <1>2
<1>4. \A s \in Seq(Files) : s \in Seq(Files')
  BY <1>3
<1>5. \A s \in Seq(Siblings) : s \in Seq(Siblings')
  BY <1>3
<1> QED BY <1>1, <1>2

\* The type of the variables over files, given in terms of the files before a step.
LEMMA FilesNext ==
  ASSUME [Next]_vars, todo' \in Seq(Files), locked' \subseteq Files,
         disk' \in [Files -> Contents \union {Absent}]
  PROVE  FilesOK'
<1>1. todo' \in Seq(Files')
  BY FilesFixed
<1>2. Files' = Files
  BY FilesFixed
<1> QED BY <1>2 DEF FilesOK

\* One step per action, and under it one per conjunct.  Two actions have work to do
\* for the files: VerifySigner, which hands over from the interposer, locked from
\* then on, to the siblings; and MapImage, which maps what HoldsInterposer is about.
LEMMA IndInvNext == IndInv /\ [Next]_vars => IndInv'
<1> SUFFICES ASSUME IndInv, [Next]_vars PROVE IndInv'
  OBVIOUS
<1> USE DEF loadVars, imageVars, instanceVars, Goto, Fail
<1>0. /\ exeDir' = exeDir /\ Files' = Files
      /\ \A s \in Seq(Files) : s \in Seq(Files')
      /\ \A s \in Seq(Siblings) : s \in Seq(Siblings')
  BY FilesFixed
<1>1. CASE BeginLoad
  <2>1. FlagsOK'
    BY <1>1, Zenon DEF IndInv, TypeOK, BeginLoad, FlagsOK
  <2>2. FilesOK'
    <3>1. FilesOK
      BY DEF IndInv, TypeOK
    <3>2. todo' \in Seq(Files)
      BY <1>1, <3>1, ShortSeqs, Zenon DEF BeginLoad, FilesOK
    <3>3. disk' \in [Files -> Contents \union {Absent}] /\ locked' \subseteq Files
      BY <1>1, <3>1 DEF BeginLoad, FilesOK
    <3> QED BY <3>2, <3>3, FilesNext
  <2>3. WordsOK'
    BY <1>1, SMTT(20) DEF IndInv, TypeOK, BeginLoad, WordsOK
  <2>4. TodoOK'
    BY <1>1, SMTT(20) DEF BeginLoad, TodoOK, PastGate, Verifying
  <2>5. HoldsCurrent'
    BY <1>1, SMTT(20) DEF BeginLoad, HoldsCurrent, Verifying
  <2>6. HoldsInterposer'
    BY <1>1, SMTT(20) DEF BeginLoad, HoldsInterposer, PastGate, Verifying
  <2>7. MappedWasAccepted'
    BY <1>1, SMTT(20) DEF IndInv, BeginLoad, MappedWasAccepted, Acceptable
  <2>8. RefsOK'
    BY <1>1, SMTT(20) DEF IndInv, BeginLoad, RefsOK
  <2> QED BY <2>1, <2>2, <2>3, <2>4, <2>5, <2>6, <2>7, <2>8 DEF IndInv, TypeOK
<1>2. CASE RejectShims
  <2>1. FlagsOK'
    BY <1>2, Zenon DEF IndInv, TypeOK, RejectShims, FlagsOK
  <2>2. FilesOK'
    <3>1. FilesOK
      BY DEF IndInv, TypeOK
    <3>2. todo' \in Seq(Files)
      BY <1>2, ShortSeqs, Zenon DEF RejectShims
    <3>3. disk' \in [Files -> Contents \union {Absent}] /\ locked' \subseteq Files
      BY <1>2, <3>1 DEF RejectShims, FilesOK
    <3> QED BY <3>2, <3>3, FilesNext
  <2>3. WordsOK'
    <3>1. WordsOK
      BY DEF IndInv, TypeOK
    <3>2. ShimConflict => disk[Interposer] \in Contents
      BY InterposerIsFile DEF IndInv, TypeOK, FilesOK, ShimConflict
    <3>3. waived' \subseteq Contents \X {"revocation", "signer", "unread"}
      BY <1>2, <3>1, <3>2 DEF RejectShims, WordsOK
    <3> QED BY <1>2, <3>1, <3>3 DEF RejectShims, WordsOK
  <2>4. TodoOK'
    BY <1>2, SMTT(20) DEF RejectShims, TodoOK, PastGate, Verifying
  <2>5. HoldsCurrent'
    BY InterposerIsFile, <1>2, SMTT(20) DEF IndInv, TypeOK, RejectShims,
       HoldsCurrent, TodoOK, PastGate, Verifying
  <2>6. HoldsInterposer'
    BY <1>2, SMTT(20) DEF RejectShims, HoldsInterposer, PastGate, Verifying
  <2>7. MappedWasAccepted'
    BY <1>2, SMTT(20) DEF IndInv, RejectShims, MappedWasAccepted, Acceptable
  <2>8. RefsOK'
    BY <1>2, SMTT(20) DEF IndInv, RejectShims, RefsOK
  <2> QED BY <2>1, <2>2, <2>3, <2>4, <2>5, <2>6, <2>7, <2>8 DEF IndInv, TypeOK
<1>3. CASE OpenLocked
  <2>1. FlagsOK'
    BY <1>3, Zenon DEF IndInv, TypeOK, OpenLocked, FlagsOK
  <2>2. FilesOK'
    <3>1. FilesOK
      BY DEF IndInv, TypeOK
    <3>2. todo' \in Seq(Files)
      BY <1>3, <3>1, ShortSeqs, Zenon DEF OpenLocked, FilesOK
    <3>3. disk' \in [Files -> Contents \union {Absent}] /\ locked' \subseteq Files
      BY <1>3, <3>1 DEF IndInv, TodoOK, Verifying, OpenLocked, FilesOK
    <3> QED BY <3>2, <3>3, FilesNext
  <2>3. WordsOK'
    BY <1>3, SMTT(20) DEF IndInv, TypeOK, OpenLocked, WordsOK
  <2>4. TodoOK'
    BY <1>0, <1>3, SMTT(20) DEF IndInv, OpenLocked, TodoOK, PastGate, Verifying
  <2>5. HoldsCurrent'
    BY <1>3, SMTT(20) DEF OpenLocked, HoldsCurrent, Verifying
  <2>6. HoldsInterposer'
    BY <1>3, SMTT(20) DEF IndInv, OpenLocked, HoldsInterposer, PastGate, Verifying,
       Acceptable
  <2>7. MappedWasAccepted'
    BY <1>3, SMTT(20) DEF IndInv, OpenLocked, MappedWasAccepted, Acceptable
  <2>8. RefsOK'
    BY <1>3, SMTT(20) DEF IndInv, OpenLocked, RefsOK
  <2> QED BY <2>1, <2>2, <2>3, <2>4, <2>5, <2>6, <2>7, <2>8 DEF IndInv, TypeOK
<1>4. CASE VerifyTrust
  <2>1. FlagsOK'
    BY <1>4, Zenon DEF IndInv, TypeOK, VerifyTrust, FlagsOK
  <2>2. FilesOK'
    <3>1. FilesOK
      BY DEF IndInv, TypeOK
    <3>2. todo' \in Seq(Files)
      BY <1>4, <3>1, ShortSeqs, Zenon DEF VerifyTrust, FilesOK
    <3>3. disk' \in [Files -> Contents \union {Absent}] /\ locked' \subseteq Files
      BY <1>4, <3>1 DEF VerifyTrust, FilesOK
    <3> QED BY <3>2, <3>3, FilesNext
  <2>3. WordsOK'
    BY <1>4, SMTT(20) DEF IndInv, TypeOK, VerifyTrust, FilesOK, WordsOK,
       HoldsCurrent, Verifying
  <2>4. TodoOK'
    BY <1>0, <1>4, SMTT(20) DEF IndInv, VerifyTrust, TodoOK, PastGate, Verifying
  <2>5. HoldsCurrent'
    BY <1>4, SMTT(20) DEF IndInv, VerifyTrust, TrustStatus, RetryWithoutRevocation,
       HoldsCurrent, Verifying
  <2>6. HoldsInterposer'
    BY <1>4, SMTT(20) DEF IndInv, VerifyTrust, HoldsInterposer, PastGate, Verifying,
       Acceptable
  <2>7. MappedWasAccepted'
    BY <1>4, SMTT(20) DEF IndInv, VerifyTrust, MappedWasAccepted, Acceptable
  <2>8. RefsOK'
    BY <1>4, SMTT(20) DEF IndInv, VerifyTrust, RefsOK
  <2> QED BY <2>1, <2>2, <2>3, <2>4, <2>5, <2>6, <2>7, <2>8 DEF IndInv, TypeOK
<1>5. CASE VerifyTrustOffline
  <2>1. FlagsOK'
    BY <1>5, Zenon DEF IndInv, TypeOK, VerifyTrustOffline, FlagsOK
  <2>2. FilesOK'
    <3>1. FilesOK
      BY DEF IndInv, TypeOK
    <3>2. todo' \in Seq(Files)
      BY <1>5, <3>1, ShortSeqs, Zenon DEF VerifyTrustOffline, FilesOK
    <3>3. disk' \in [Files -> Contents \union {Absent}] /\ locked' \subseteq Files
      BY <1>5, <3>1 DEF VerifyTrustOffline, FilesOK
    <3> QED BY <3>2, <3>3, FilesNext
  <2>3. WordsOK'
    BY <1>5, SMTT(20) DEF IndInv, TypeOK, VerifyTrustOffline, WordsOK
  <2>4. TodoOK'
    BY <1>0, <1>5, SMTT(20) DEF IndInv, VerifyTrustOffline, TodoOK, PastGate,
       Verifying
  <2>5. HoldsCurrent'
    BY <1>5, SMTT(20) DEF IndInv, VerifyTrustOffline, TrustStatus, HoldsCurrent,
       Verifying
  <2>6. HoldsInterposer'
    BY <1>5, SMTT(20) DEF IndInv, VerifyTrustOffline, HoldsInterposer, PastGate,
       Verifying, Acceptable
  <2>7. MappedWasAccepted'
    BY <1>5, SMTT(20) DEF IndInv, VerifyTrustOffline, MappedWasAccepted, Acceptable
  <2>8. RefsOK'
    BY <1>5, SMTT(20) DEF IndInv, VerifyTrustOffline, RefsOK
  <2> QED BY <2>1, <2>2, <2>3, <2>4, <2>5, <2>6, <2>7, <2>8 DEF IndInv, TypeOK
<1>6. CASE VerifySigner
  <2>1. FlagsOK'
    BY <1>6, Zenon DEF IndInv, TypeOK, VerifySigner, FlagsOK
  <2>2. FilesOK'
    <3>1. FilesOK /\ (phase = "signer" => todo # <<>>)
      BY DEF IndInv, TypeOK, TodoOK, Verifying
    <3>2. todo # <<>> => Tail(todo) \in Seq(Files)
      BY <3>1 DEF FilesOK
    <3>3. SiblingList \in Seq(Files)
      BY SiblingsListed, SiblingSeqs DEF IndInv, TypeOK, WordsOK
    <3>4. phase = "signer" /\ todo' \in {<<>>, SiblingList, Tail(todo)}
      BY <1>6 DEF VerifySigner
    <3>5. todo' \in Seq(Files)
      BY <3>1, <3>2, <3>3, <3>4, ShortSeqs, Zenon
    <3>6. disk' = disk /\ locked' \subseteq locked
      BY <1>6 DEF VerifySigner
    <3> QED BY <3>1, <3>5, <3>6, FilesNext DEF FilesOK
  <2>3. WordsOK'
    BY <1>6, SMTT(20) DEF IndInv, TypeOK, VerifySigner, FilesOK, WordsOK,
       HoldsCurrent, Verifying
  <2>4. TodoOK'
    <3>1. phase = "signer"
      BY <1>6 DEF VerifySigner
    <3>2. todo # <<Interposer>> => todo # <<>> /\ todo \in Seq(Siblings)
      BY <3>1 DEF IndInv, TodoOK, PastGate, Verifying
    <3>3. Head(<<Interposer>>) = Interposer
      OBVIOUS
    <3>4. todo # <<Interposer>> =>
            Head(todo) # Interposer /\ Tail(todo) \in Seq(Siblings)
      BY <3>2, InterposerIsNoSibling
    <3>5. SiblingList \in Seq(Siblings)
      BY SiblingsListed DEF IndInv, TypeOK, WordsOK
    <3>6. CASE phase' = "next"
      <4>1. todo' = IF Head(todo) = Interposer THEN SiblingList ELSE Tail(todo)
        BY <1>6, <3>6 DEF VerifySigner
      <4>2. todo' \in Seq(Siblings)
        BY <3>4, <3>5, <4>1
      <4> QED BY <1>0, <3>6, <4>2 DEF TodoOK, Verifying
    <3>7. CASE phase' = "idle"
      BY <3>7 DEF TodoOK, PastGate, Verifying
    <3> QED BY <1>6, <3>6, <3>7 DEF VerifySigner
  <2>5. HoldsCurrent'
    BY <1>6, SMTT(20) DEF VerifySigner, HoldsCurrent, Verifying
  <2>6. HoldsInterposer'
    <3>1. phase = "signer" /\ disk' = disk /\ allowed' = allowed
      BY <1>6 DEF VerifySigner
    <3>2. todo # <<Interposer>> => todo # <<>> /\ Head(todo) \in Siblings
      BY <3>1 DEF IndInv, TodoOK, PastGate, Verifying
    <3>3. Head(<<Interposer>>) = Interposer
      OBVIOUS
    <3>4. CASE phase' = "next" /\ todo = <<Interposer>>
      <4>1. locked' = locked /\ Interposer \in locked /\ disk[Interposer] # Absent
        BY <1>6, <3>4 DEF VerifySigner, KeepsLock, IndInv, HoldsCurrent, Verifying
      <4>2. Acceptable(disk[Interposer])'
        BY <1>6, <3>4 DEF VerifySigner, SignerSubject, IndInv, HoldsCurrent, Verifying, Acceptable
      <4> QED BY <3>1, <4>1, <4>2 DEF HoldsInterposer
    <3>5. CASE phase' = "next" /\ todo # <<Interposer>>
      <4>1. PastGate /\ HoldsInterposer
        BY <3>1, <3>5 DEF PastGate, Verifying, IndInv
      <4>2. Interposer \in locked'
        BY <1>6, <3>2, <3>5, <4>1, InterposerIsNoSibling DEF VerifySigner,
           HoldsInterposer
      <4>3. Acceptable(disk[Interposer])'
        BY <1>6, <4>1 DEF VerifySigner, HoldsInterposer, Acceptable
      <4> QED BY <3>1, <4>1, <4>2, <4>3 DEF HoldsInterposer
    <3>6. CASE phase' = "idle"
      BY <3>6 DEF HoldsInterposer, PastGate, Verifying
    <3> QED BY <1>6, <3>4, <3>5, <3>6 DEF VerifySigner
  <2>7. MappedWasAccepted'
    BY <1>6, SMTT(20) DEF IndInv, VerifySigner, MappedWasAccepted, Acceptable
  <2>8. RefsOK'
    BY <1>6, SMTT(20) DEF IndInv, VerifySigner, RefsOK
  <2> QED BY <2>1, <2>2, <2>3, <2>4, <2>5, <2>6, <2>7, <2>8 DEF IndInv, TypeOK
<1>7. CASE NextSibling
  <2>1. FlagsOK'
    BY <1>7, Zenon DEF IndInv, TypeOK, NextSibling, FlagsOK
  <2>2. FilesOK'
    <3>1. todo \in Seq(Files)
      BY DEF IndInv, TypeOK, FilesOK
    <3>2. todo # <<>> => Tail(todo) \in Seq(Files)
      BY <3>1
    <3>3. todo' = todo \/ (todo # <<>> /\ todo' = Tail(todo))
      BY <1>7 DEF NextSibling
    <3>4. todo' \in Seq(Files')
      BY <1>0, <3>1, <3>3
    <3>5. disk' = disk /\ locked' = locked
      BY <1>7 DEF NextSibling
    <3> QED BY <1>0, <3>4, <3>5 DEF IndInv, TypeOK, FilesOK
  <2>3. WordsOK'
    BY <1>7, SMTT(20) DEF IndInv, TypeOK, NextSibling, FilesOK, WordsOK
  <2>4. TodoOK'
    <3>1. phase = "next" /\ todo \in Seq(Siblings)
      BY <1>7 DEF NextSibling, IndInv, TodoOK, PastGate
    <3>2. todo # <<>> => Tail(todo) \in Seq(Siblings)
      BY <3>1
    <3>3. /\ todo' = todo \/ (todo # <<>> /\ todo' = Tail(todo))
          /\ phase' \in Verifying => todo' = todo /\ todo # <<>>
      BY <1>7 DEF NextSibling, Verifying
    <3>4. todo' \in Seq(Siblings')
      BY <1>0, <3>1, <3>3
    <3> QED BY <3>3, <3>4 DEF TodoOK
  <2>5. HoldsCurrent'
    BY <1>7, SMTT(20) DEF NextSibling, HoldsCurrent, Verifying
  <2>6. HoldsInterposer'
    BY <1>7, SMTT(20) DEF IndInv, NextSibling, HoldsInterposer, PastGate, Acceptable
  <2>7. MappedWasAccepted'
    BY <1>7, SMTT(20) DEF IndInv, NextSibling, MappedWasAccepted, Acceptable
  <2>8. RefsOK'
    BY <1>7, SMTT(20) DEF IndInv, NextSibling, RefsOK
  <2> QED BY <2>1, <2>2, <2>3, <2>4, <2>5, <2>6, <2>7, <2>8 DEF IndInv, TypeOK
<1>8. CASE MapImage
  <2>1. FlagsOK'
    BY <1>8, Zenon DEF IndInv, TypeOK, MapImage, FlagsOK
  <2>2. FilesOK'
    <3>1. FilesOK
      BY DEF IndInv, TypeOK
    <3>2. todo' \in Seq(Files)
      BY <1>8, <3>1, ShortSeqs, Zenon DEF MapImage, FilesOK
    <3>3. disk' \in [Files -> Contents \union {Absent}] /\ locked' \subseteq Files
      BY <1>8, <3>1 DEF MapImage, FilesOK
    <3> QED BY <3>2, <3>3, FilesNext
  <2>3. WordsOK'
    BY InterposerIsFile, <1>8, SMTT(20) DEF IndInv, TypeOK, MapImage, FilesOK,
       WordsOK
  <2>4. TodoOK'
    BY <1>0, <1>8, SMTT(20) DEF IndInv, MapImage, TodoOK, PastGate, Verifying
  <2>5. HoldsCurrent'
    BY <1>8, SMTT(20) DEF MapImage, HoldsCurrent, Verifying
  <2>6. HoldsInterposer'
    BY <1>8, SMTT(20) DEF IndInv, MapImage, HoldsInterposer, PastGate, Verifying,
       Acceptable
  <2>7. MappedWasAccepted'
    <3>1. phase = "map" /\ UNCHANGED <<allowed, waived>>
      BY <1>8 DEF MapImage
    <3>2. image' = image \/ image' = disk[Interposer]
      BY <1>8 DEF MapImage
    <3>3. Acceptable(disk[Interposer])
      BY <3>1 DEF IndInv, HoldsInterposer, PastGate
    <3> QED BY <3>1, <3>2, <3>3 DEF IndInv, MappedWasAccepted, Acceptable
  <2>8. RefsOK'
    BY <1>8, SMTT(20) DEF IndInv, TypeOK, MapImage, RefsOK, WordsOK
  <2> QED BY <2>1, <2>2, <2>3, <2>4, <2>5, <2>6, <2>7, <2>8 DEF IndInv, TypeOK
<1>9. CASE ResolveExports
  <2>1. FlagsOK'
    BY <1>9, Zenon DEF IndInv, TypeOK, ResolveExports, KeepImage, FreeImage, FlagsOK
  <2>2. FilesOK'
    <3>1. FilesOK
      BY DEF IndInv, TypeOK
    <3>2. todo' \in Seq(Files)
      BY <1>9, <3>1, ShortSeqs, Zenon DEF ResolveExports, FilesOK
    <3>3. disk' \in [Files -> Contents \union {Absent}] /\ locked' \subseteq Files
      BY <1>9, <3>1 DEF IndInv, TodoOK, Verifying, ResolveExports, FilesOK
    <3> QED BY <3>2, <3>3, FilesNext
  <2>3. WordsOK'
    BY <1>9, SMTT(20) DEF IndInv, TypeOK, ResolveExports, KeepImage, FreeImage,
       WordsOK, RefsOK
  <2>4. TodoOK'
    BY <1>9, SMTT(20) DEF ResolveExports, TodoOK, PastGate, Verifying
  <2>5. HoldsCurrent'
    BY <1>9, SMTT(20) DEF ResolveExports, HoldsCurrent, Verifying
  <2>6. HoldsInterposer'
    BY <1>9, SMTT(20) DEF ResolveExports, HoldsInterposer, PastGate, Verifying
  <2>7. MappedWasAccepted'
    <3>1. image' = image \/ image' = Absent
      BY <1>9 DEF ResolveExports, KeepImage, FreeImage
    <3>2. UNCHANGED <<allowed, waived>>
      BY <1>9 DEF ResolveExports
    <3> QED BY <3>1, <3>2 DEF IndInv, MappedWasAccepted, Acceptable
  <2>8. RefsOK'
    BY <1>9, SMTT(20) DEF IndInv, TypeOK, ResolveExports, KeepImage, FreeImage,
       RefsOK, WordsOK
  <2> QED BY <2>1, <2>2, <2>3, <2>4, <2>5, <2>6, <2>7, <2>8 DEF IndInv, TypeOK
<1>10. CASE ResolveUpgrade
  <2>1. FlagsOK'
    BY <1>10, Zenon DEF IndInv, TypeOK, ResolveUpgrade, FlagsOK
  <2>2. FilesOK'
    <3>1. FilesOK
      BY DEF IndInv, TypeOK
    <3>2. todo' \in Seq(Files)
      BY <1>10, <3>1, Zenon DEF ResolveUpgrade, FilesOK
    <3>3. disk' \in [Files -> Contents \union {Absent}] /\ locked' \subseteq Files
      BY <1>10, <3>1 DEF ResolveUpgrade, FilesOK
    <3> QED BY <3>2, <3>3, FilesNext
  <2>3. WordsOK'
    BY <1>10, SMTT(20) DEF IndInv, TypeOK, ResolveUpgrade, WordsOK
  <2>4. TodoOK'
    BY <1>0, <1>10, SMTT(20) DEF IndInv, ResolveUpgrade, TodoOK, PastGate
  <2>5. HoldsCurrent'
    BY <1>10, SMTT(20) DEF IndInv, ResolveUpgrade, HoldsCurrent
  <2>6. HoldsInterposer'
    BY <1>10, SMTT(20) DEF IndInv, ResolveUpgrade, HoldsInterposer, PastGate,
       Acceptable
  <2>7. MappedWasAccepted'
    BY <1>10, SMTT(20) DEF IndInv, ResolveUpgrade, MappedWasAccepted, Acceptable
  <2>8. RefsOK'
    <3>1. ordered' => result = "Ok"
      BY <1>10, Zenon DEF ResolveUpgrade
    <3>2. UNCHANGED <<phase, result, image, refs>>
      BY <1>10 DEF ResolveUpgrade
    <3> QED BY <3>1, <3>2 DEF IndInv, RefsOK
  <2> QED BY <2>1, <2>2, <2>3, <2>4, <2>5, <2>6, <2>7, <2>8 DEF IndInv, TypeOK
<1>11. CASE Upgrade
  <2>1. FlagsOK'
    BY <1>11, Zenon DEF IndInv, TypeOK, Upgrade, FlagsOK
  <2>2. FilesOK'
    <3>1. FilesOK
      BY DEF IndInv, TypeOK
    <3>2. todo' \in Seq(Files)
      BY <1>11, <3>1, Zenon DEF Upgrade, FilesOK
    <3>3. disk' \in [Files -> Contents \union {Absent}] /\ locked' \subseteq Files
      BY <1>11, <3>1 DEF Upgrade, FilesOK
    <3> QED BY <3>2, <3>3, FilesNext
  <2>3. WordsOK'
    BY <1>11, SMTT(20) DEF IndInv, TypeOK, Upgrade, WordsOK
  <2>4. TodoOK'
    BY <1>0, <1>11, SMTT(20) DEF IndInv, Upgrade, TodoOK, PastGate
  <2>5. HoldsCurrent'
    BY <1>11, SMTT(20) DEF IndInv, Upgrade, HoldsCurrent
  <2>6. HoldsInterposer'
    BY <1>11, SMTT(20) DEF IndInv, Upgrade, HoldsInterposer, PastGate, Acceptable
  <2>7. MappedWasAccepted'
    BY <1>11, SMTT(20) DEF IndInv, Upgrade, MappedWasAccepted, Acceptable
  <2>8. RefsOK'
    BY <1>11, SMTT(20) DEF IndInv, Upgrade, RefsOK
  <2> QED BY <2>1, <2>2, <2>3, <2>4, <2>5, <2>6, <2>7, <2>8 DEF IndInv, TypeOK
<1>12. CASE UpdateFile
  <2>1. FlagsOK'
    BY <1>12, Zenon DEF IndInv, TypeOK, UpdateFile, FlagsOK
  <2>2. FilesOK'
    <3>1. FilesOK
      BY DEF IndInv, TypeOK
    <3>2. todo' \in Seq(Files)
      BY <1>12, <3>1, Zenon DEF UpdateFile, FilesOK
    <3>3. disk' \in [Files -> Contents \union {Absent}] /\ locked' \subseteq Files
      BY <1>12, <3>1 DEF UpdateFile, FilesOK
    <3> QED BY <3>2, <3>3, FilesNext
  <2>3. WordsOK'
    BY <1>12, SMTT(20) DEF IndInv, TypeOK, UpdateFile, WordsOK
  <2>4. TodoOK'
    BY <1>0, <1>12, SMTT(20) DEF IndInv, UpdateFile, TodoOK, PastGate
  <2>5. HoldsCurrent'
    BY <1>12, SMTT(20) DEF IndInv, UpdateFile, HoldsCurrent
  <2>6. HoldsInterposer'
    BY <1>12, SMTT(20) DEF IndInv, UpdateFile, HoldsInterposer, PastGate, Acceptable
  <2>7. MappedWasAccepted'
    BY <1>12, SMTT(20) DEF IndInv, UpdateFile, MappedWasAccepted, Acceptable
  <2>8. RefsOK'
    BY <1>12, SMTT(20) DEF IndInv, UpdateFile, RefsOK
  <2> QED BY <2>1, <2>2, <2>3, <2>4, <2>5, <2>6, <2>7, <2>8 DEF IndInv, TypeOK
<1>13. CASE UNCHANGED vars
  BY <1>0, <1>13 DEF vars, IndInv, TypeOK, FlagsOK, FilesOK, WordsOK, TodoOK,
     HoldsCurrent, HoldsInterposer, MappedWasAccepted, RefsOK, PastGate, Acceptable
<1> QED
  BY <1>1, <1>2, <1>3, <1>4, <1>5, <1>6, <1>7, <1>8, <1>9, <1>10, <1>11, <1>12,
     <1>13 DEF Next

\* Whatever the files are, before the first load nothing is mapped or held.
LEMMA IndInvInit == Init => IndInv
<1> SUFFICES ASSUME Init PROVE IndInv
  OBVIOUS
<1>1. FlagsOK
  BY Zenon DEF Init, FlagsOK, UnverifiedSignerAllowed
<1>2. FilesOK
  BY DEF Init, FilesOK
<1>3. WordsOK
  BY DEF Init, WordsOK
<1>4. ~ordered
  BY Zenon DEF Init
<1>5. TodoOK /\ HoldsCurrent /\ HoldsInterposer
  BY DEF Init, TodoOK, HoldsCurrent, HoldsInterposer, PastGate, Verifying
<1>6. MappedWasAccepted /\ RefsOK
  BY DEF Init, MappedWasAccepted, RefsOK
<1> QED BY <1>1, <1>2, <1>3, <1>5, <1>6 DEF IndInv, TypeOK

\* At all times load holds what it has verified.
LEMMA Inductive == Spec => []IndInv
BY IndInvInit, IndInvNext, PTL DEF Spec

\* Every variable keeps its type, in a load of any length.
THEOREM TypeCorrect == Spec => []TypeOK
<1>1. IndInv => TypeOK
  BY DEF IndInv
<1> QED BY <1>1, Inductive, PTL

\* security.rs:99-102, ffi.rs:330-341: the share lock spans the gate, the pass over
\* the siblings and the map, so that the image mapped is one the gate accepted,
\* however often the files are replaced.
THEOREM GateHolds == Spec => []MappedWasAccepted
<1>1. IndInv => MappedWasAccepted
  BY DEF IndInv
<1> QED BY <1>1, Inductive, PTL

\* ffi.rs:384-389: the forgotten Library keeps the image mapped under the Instance
\* of an application that initializes Streamline first, even if a later load fails.
THEOREM ProxyHolds == Spec => []ProxyStaysMapped
<1>1. IndInv => ProxyStaysMapped
  <2> SUFFICES ASSUME IndInv, ordered, image = Absent PROVE FALSE
    BY DEF ProxyStaysMapped
  <2>1. refs = 0 /\ refs > IF phase = "resolve" THEN 1 ELSE 0
    BY DEF IndInv, RefsOK
  <2> QED BY <2>1
<1> QED BY <1>1, Inductive, PTL

-----------------------------------------------------------------------------
(* When FreeLibrary is called, then: what holds instead of NeverFreed *)

\* What a load that returned Ok has left mapped has every export: only the load that
\* has just mapped an image may still find one missing.
KeptIsComplete ==
  refs > (IF phase = "resolve" THEN 1 ELSE 0) => image \in Contents /\ Complete[image]

\* A reference is given back only by the load that mapped the image, which no load
\* had before it, and only for a missing export.
FreesOnlyItsOwn ==
  refs' < refs => /\ phase = "resolve" /\ refs = 1 /\ ~Complete[image]
                  /\ image' = Absent /\ result' = "Err"

\* Steps other than MapImage and ResolveExports leave the references alone.
LEMMA RefsChange ==
  ASSUME [Next]_vars, ~MapImage, ~ResolveExports
  PROVE  /\ refs' = refs /\ image' = image /\ freed' = freed
         /\ phase' = "resolve" <=> phase = "resolve"
<1>1. CASE BeginLoad \/ RejectShims \/ OpenLocked \/ NextSibling
  BY <1>1 DEF BeginLoad, RejectShims, OpenLocked, NextSibling, imageVars, Goto, Fail
<1>2. CASE VerifyTrust \/ VerifyTrustOffline \/ VerifySigner
  BY <1>2 DEF VerifyTrust, VerifyTrustOffline, VerifySigner, imageVars, Goto, Fail
<1>3. CASE ResolveUpgrade \/ Upgrade \/ UpdateFile \/ UNCHANGED vars
  BY <1>3 DEF ResolveUpgrade, Upgrade, UpdateFile, imageVars, loadVars, vars
<1> QED BY <1>1, <1>2, <1>3 DEF Next

\* Every step keeps it.
LEMMA KeptNext == IndInv /\ KeptIsComplete /\ [Next]_vars => KeptIsComplete'
<1> SUFFICES ASSUME IndInv, KeptIsComplete, [Next]_vars PROVE KeptIsComplete'
  OBVIOUS
<1>1. refs \in Nat /\ image \in Contents \union {Absent} /\ (image = Absent <=> refs = 0)
  BY DEF IndInv, TypeOK, WordsOK, RefsOK
<1>2. CASE MapImage
  BY <1>1, <1>2 DEF MapImage, KeptIsComplete, imageVars, Goto, Fail
<1>3. CASE ResolveExports
  <2>1. phase = "resolve" /\ phase' = "idle" /\ refs > 0 /\ image \in Contents
    BY <1>1, <1>3 DEF ResolveExports, Fail, IndInv, RefsOK
  <2>2. CASE Complete[image]
    BY <1>3, <2>1, <2>2 DEF ResolveExports, KeepImage, imageVars, KeptIsComplete
  <2>3. CASE ~Complete[image]
    <3>1. refs = 1
      BY <1>1, <2>1, <2>3 DEF KeptIsComplete
    <3>2. refs' = 0
      BY <1>3, <2>3, <3>1 DEF ResolveExports, FreeImage
    <3> QED BY <2>1, <3>2 DEF KeptIsComplete
  <2> QED BY <2>2, <2>3
<1>4. CASE ~MapImage /\ ~ResolveExports
  BY <1>4, RefsChange DEF KeptIsComplete
<1> QED BY <1>2, <1>3, <1>4

\* It is so from the start.
LEMMA KeptAlways == Spec => []KeptIsComplete
<1>1. Init => KeptIsComplete
  BY DEF Init, KeptIsComplete
<1> QED BY <1>1, KeptNext, Inductive, PTL DEF Spec

\* ffi.rs:236-241 and :384-389: the early return at a missing export takes the image
\* from nobody: what an earlier load returned Ok with keeps all its references.
THEOREM OnlyOwnIsFreed == Spec => [][FreesOnlyItsOwn]_vars
<1>1. IndInv /\ KeptIsComplete /\ [Next]_vars => FreesOnlyItsOwn
  <2> SUFFICES ASSUME IndInv, KeptIsComplete, [Next]_vars, refs' < refs
               PROVE  /\ phase = "resolve" /\ refs = 1 /\ ~Complete[image]
                      /\ image' = Absent /\ result' = "Err"
    BY DEF FreesOnlyItsOwn
  <2>1. refs \in Nat /\ image \in Contents \union {Absent} /\ (image = Absent <=> refs = 0)
    BY DEF IndInv, TypeOK, WordsOK, RefsOK
  <2>2. ~MapImage
    BY <2>1 DEF MapImage, imageVars
  <2>3. ResolveExports
    BY <2>1, <2>2, RefsChange
  <2>4. ~Complete[image] /\ FreeImage /\ Fail
    BY <2>1, <2>3 DEF ResolveExports, KeepImage, imageVars
  <2>5. phase = "resolve" /\ refs > 0
    BY <2>3 DEF ResolveExports, IndInv, RefsOK
  <2>6. refs = 1
    BY <2>1, <2>4, <2>5 DEF KeptIsComplete
  <2> QED BY <2>4, <2>5, <2>6 DEF FreeImage, Fail
<1> QED BY <1>1, Inductive, KeptAlways, PTL DEF Spec

\* ffi.rs:236-241: "never calling FreeLibrary" holds of every installation whose
\* signed interposers, of whatever version, have the exports that load resolves.
THEOREM CompleteIsNeverFreed ==
  ASSUME \A c \in Contents : Trust[c] # "untrusted" => Complete[c]
  PROVE  Spec => []NeverFreed
<1>1. Init => NeverFreed
  BY DEF Init, NeverFreed
<1>2. IndInv /\ NeverFreed /\ [Next]_vars => NeverFreed'
  <2> SUFFICES ASSUME IndInv, NeverFreed, [Next]_vars PROVE NeverFreed'
    OBVIOUS
  <2>1. CASE MapImage
    BY <2>1 DEF MapImage, imageVars, NeverFreed
  <2>2. CASE ResolveExports
    <3>1. image \in Contents /\ Complete[image]
      BY <2>2 DEF ResolveExports, IndInv, TypeOK, WordsOK, RefsOK, MappedWasAccepted,
         Acceptable
    <3>2. UNCHANGED imageVars
      BY <2>2, <3>1 DEF ResolveExports, KeepImage
    <3> QED BY <3>2 DEF imageVars, NeverFreed
  <2>3. CASE ~MapImage /\ ~ResolveExports
    BY <2>3, RefsChange DEF NeverFreed
  <2> QED BY <2>1, <2>2, <2>3
<1> QED BY <1>1, <1>2, Inductive, PTL DEF Spec
=============================================================================
