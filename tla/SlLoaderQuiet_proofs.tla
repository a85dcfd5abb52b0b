------------------------- MODULE SlLoaderQuiet_proofs -------------------------
(***************************************************************************)
(* What a load that returned Ok has looked at, for any DLL contents and    *)
(* any list of plugins, as long as no file is replaced while it runs.      *)
(***************************************************************************)
EXTENDS SlLoader_proofs

\* What is in the file passed the gate, or could not be read.
Checked(f) ==
  disk[f] # Absent => Acceptable(disk[f]) \/ <<disk[f], "unread">> \in waived

ShimsClean == ShimConflict => <<disk[Interposer], "unread">> \in waived

Listed(f) == \E i \in 1..Len(todo) : todo[i] = f

\* Each sibling is still to be looked at, or has been.
SiblingsSeen == \A f \in Siblings : Listed(f) \/ Checked(f)

SiblingsChecked == \A f \in Siblings : Checked(f)

\* How far a load has come, if no file was replaced in it.
QuietInv ==
  quiet =>
    /\ phase \in Verifying \union {"next", "map", "resolve"} => ShimsClean
    /\ phase \in Verifying \union {"next"} => todo = <<Interposer>> \/ SiblingsSeen
    /\ phase \in {"map", "resolve"} => SiblingsChecked
    /\ phase = "idle" /\ result = "Ok" => ShimsClean /\ SiblingsChecked

\* Where the elements of two sequences are in the one after the other, and in a tail.
LEMMA Places ==
  ASSUME NEW S, NEW s \in Seq(S), NEW t \in Seq(S)
  PROVE  /\ Len(s \o t) = Len(s) + Len(t)
         /\ \A i \in 1..Len(s) : (s \o t)[i] = s[i]
         /\ \A i \in 1..Len(t) : (s \o t)[Len(s) + i] = t[i]
         /\ s # <<>> => /\ Len(Tail(s)) = Len(s) - 1
                       /\ \A i \in 1..(Len(s) - 1) : Tail(s)[i] = s[i + 1]
OBVIOUS

\* verify_sibling_plugins goes through each plugin in each directory.
LEMMA SiblingsCovered ==
  ASSUME exeDir \in {"exe", "sdk", "unknown"}, NEW f \in Siblings
  PROVE  \E i \in 1..Len(SiblingList) : SiblingList[i] = f
<1> DEFINE n == Len(Plugins)
<1>1. n \in Nat /\ DOMAIN Plugins = 1..n
  BY LoaderAssumption
<1>2. PICK d \in KnownDirs, k \in 1..n : f = <<d, Plugins[k]>>
  BY <1>1 DEF Siblings
<1>3. ASSUME NEW e \in KnownDirs
      PROVE  /\ PluginsIn(e) \in Seq(Siblings) /\ Len(PluginsIn(e)) = n
             /\ \A i \in 1..n : PluginsIn(e)[i] = <<e, Plugins[i]>>
  <2>1. PluginsIn(e) \in [1..n -> Siblings]
    BY <1>1, <1>3 DEF PluginsIn, Siblings
  <2>2. \A i \in 1..n : PluginsIn(e)[i] = <<e, Plugins[i]>>
    BY <1>1 DEF PluginsIn
  <2> HIDE DEF n
  <2> QED
    BY <1>1, <2>1, <2>2
<1> HIDE DEF n
<1>4. CASE exeDir = "exe"
  <2> DEFINE s == PluginsIn("exe")
             t == PluginsIn("sdk")
  <2>1. "exe" \in KnownDirs /\ "sdk" \in KnownDirs /\ d \in {"exe", "sdk"}
    BY <1>4 DEF KnownDirs
  <2>2. /\ s \in Seq(Siblings) /\ Len(s) = n /\ s[k] = <<"exe", Plugins[k]>>
        /\ t \in Seq(Siblings) /\ Len(t) = n /\ t[k] = <<"sdk", Plugins[k]>>
    BY <1>3, <2>1
  <2>3. SiblingList = s \o t
    BY <1>4 DEF SiblingList
  <2> HIDE DEF s, t
  <2>d. s \in Seq(Siblings) /\ t \in Seq(Siblings)
    BY <2>2, Zenon
  <2>a. /\ Len(s \o t) = Len(s) + Len(t)
        /\ \A i \in 1..Len(s) : (s \o t)[i] = s[i]
        /\ \A i \in 1..Len(t) : (s \o t)[Len(s) + i] = t[i]
    BY <2>d
  <2>b. k \in 1..Len(s) /\ k \in 1..Len(t) /\ Len(s) = n /\ Len(t) = n
    BY <2>2, Zenon
  <2>c. (s \o t)[k] = s[k] /\ (s \o t)[Len(s) + k] = t[k]
    BY <2>a, <2>b, Zenon
  <2>4. /\ Len(s \o t) = n + n
        /\ (s \o t)[k] = s[k] /\ (s \o t)[n + k] = t[k]
    BY <2>a, <2>b, <2>c, Zenon
  <2>5. k \in 1..(n + n) /\ n + k \in 1..(n + n)
    BY <1>1
  <2> QED
    BY <1>2, <2>1, <2>2, <2>3, <2>4, <2>5
<1>5. CASE exeDir # "exe"
  <2>1. "sdk" \in KnownDirs /\ d = "sdk"
    BY <1>5 DEF KnownDirs
  <2>2. SiblingList = PluginsIn("sdk")
    BY <1>5 DEF SiblingList
  <2> QED
    BY <1>2, <1>3, <2>1, <2>2
<1> QED
  BY <1>4, <1>5

\* What was checked stays so while no file is replaced.
LEMMA StaysChecked ==
  ASSUME disk' = disk, exeDir' = exeDir, allowed' = allowed, waived \subseteq waived'
  PROVE  /\ ShimsClean => ShimsClean'
         /\ SiblingsChecked => SiblingsChecked'
         /\ \A f \in Siblings : Checked(f) => Checked(f)'
         /\ Siblings' = Siblings
<1>1. Siblings' = Siblings
  BY DEF Siblings, KnownDirs
<1>2. ASSUME NEW c, Acceptable(c)
      PROVE  Acceptable(c)'
  BY <1>2 DEF Acceptable
<1>3. ASSUME NEW f \in Siblings, Checked(f)
      PROVE  Checked(f)'
  BY <1>2, <1>3 DEF Checked
<1>4. ShimConflict' = ShimConflict
  BY DEF ShimConflict
<1>5. ShimsClean => ShimsClean'
  BY <1>4 DEF ShimsClean
<1> QED
  BY <1>1, <1>3, <1>5 DEF SiblingsChecked

\* A file that leaves the list has been checked, so none is forgotten.
LEMMA TailSeen ==
  ASSUME SiblingsSeen, todo \in Seq(Siblings), todo # <<>>, todo' = Tail(todo),
         \A f \in Siblings : Checked(f) => Checked(f)', Siblings' = Siblings,
         NEW h, h = Head(todo), Checked(h)'
  PROVE  SiblingsSeen'
<1>1. ASSUME NEW f \in Siblings
      PROVE  Listed(f)' \/ Checked(f)'
  <2>1. CASE Checked(f)
    BY <2>1
  <2>2. CASE Listed(f)
    <3>1. PICK i \in 1..Len(todo) : todo[i] = f
      BY <2>2 DEF Listed
    <3>2. CASE i = 1
      BY <3>1, <3>2
    <3>3. CASE i # 1
      <4>1. i - 1 \in 1..Len(Tail(todo)) /\ Tail(todo)[i - 1] = todo[i]
        <5>1. i - 1 \in 1..(Len(todo) - 1) /\ (i - 1) + 1 = i
          BY <3>3
        <5> QED
          BY <5>1, Places
      <4> QED
        BY <3>1, <4>1 DEF Listed
    <3> QED
      BY <3>2, <3>3
  <2> QED
    BY <2>1, <2>2 DEF SiblingsSeen
<1> QED
  BY <1>1 DEF SiblingsSeen

\* While the list stays as it is, so does what was seen.
LEMMA StillSeen ==
  ASSUME disk' = disk, exeDir' = exeDir, allowed' = allowed, waived \subseteq waived',
         todo' = todo
  PROVE  /\ ShimsClean => ShimsClean'
         /\ SiblingsSeen => SiblingsSeen'
         /\ todo = <<Interposer>> => todo' = <<Interposer>>
<1>1. /\ ShimsClean => ShimsClean'
      /\ \A f \in Siblings : Checked(f) => Checked(f)'
      /\ Siblings' = Siblings
  BY StaysChecked
<1>2. SiblingsSeen => SiblingsSeen'
  BY <1>1 DEF SiblingsSeen, Listed
<1> QED
  BY <1>1, <1>2

\* Every step keeps QuietInv.
LEMMA QuietNext == IndInv /\ QuietInv /\ [Next]_vars => QuietInv'
<1> SUFFICES ASSUME IndInv, QuietInv, [Next]_vars
             PROVE  QuietInv'
  OBVIOUS
<1> USE DEF loadVars, imageVars, instanceVars, Goto, Fail, Verifying
<1>0. exeDir' = exeDir
  BY FilesFixed
<1>1. CASE BeginLoad
  BY <1>1 DEF BeginLoad, QuietInv
<1>2. CASE RejectShims
  <2>1. UNCHANGED <<disk, allowed, quiet>> /\ waived \subseteq waived'
    BY <1>2 DEF RejectShims
  <2>2. CASE phase' = "open"
    <3>1. todo' = <<Interposer>> /\ ShimConflict' = ShimConflict
      BY <1>0, <1>2, <2>1, <2>2 DEF RejectShims, ShimConflict
    <3>2. ShimsClean'
      BY <1>2, <2>1, <2>2, <3>1 DEF RejectShims, ShimsClean
    <3> QED
      BY <2>2, <3>1, <3>2 DEF QuietInv
  <2>3. CASE phase' = "idle" /\ result' = "Err"
    BY <2>3 DEF QuietInv
  <2> QED
    BY <1>2, <2>2, <2>3 DEF RejectShims
<1>3. CASE OpenLocked
  <2>1. UNCHANGED <<disk, allowed, quiet, waived>> /\ phase = "open"
    BY <1>3 DEF OpenLocked
  <2>2. CASE phase' = "trust" /\ todo' = todo
    BY <1>0, <2>1, <2>2, StillSeen DEF QuietInv
  <2>3. CASE phase' = "idle" /\ result' = "Err"
    BY <2>3 DEF QuietInv
  <2> QED
    BY <1>3, <2>2, <2>3 DEF OpenLocked
<1>4. CASE VerifyTrust
  <2>1. UNCHANGED <<disk, allowed, quiet>> /\ phase = "trust" /\ waived \subseteq waived'
    BY <1>4 DEF VerifyTrust
  <2>2. CASE phase' \in {"signer", "retry"} /\ todo' = todo
    BY <1>0, <2>1, <2>2, StillSeen DEF QuietInv
  <2>3. CASE phase' = "idle" /\ result' = "Err"
    BY <2>3 DEF QuietInv
  <2> QED
    BY <1>4, <2>2, <2>3 DEF VerifyTrust
<1>5. CASE VerifyTrustOffline
  <2>1. UNCHANGED <<disk, allowed, quiet, waived>> /\ phase = "retry"
    BY <1>5 DEF VerifyTrustOffline
  <2>2. CASE phase' = "signer" /\ todo' = todo
    BY <1>0, <2>1, <2>2, StillSeen DEF QuietInv
  <2>3. CASE phase' = "idle" /\ result' = "Err"
    BY <2>3 DEF QuietInv
  <2> QED
    BY <1>5, <2>2, <2>3 DEF VerifyTrustOffline
<1>6. CASE VerifySigner
  <2>1. UNCHANGED <<disk, allowed, quiet>> /\ phase = "signer" /\ waived \subseteq waived'
    BY <1>6 DEF VerifySigner
  <2>2. CASE phase' = "idle" /\ result' = "Err"
    BY <2>2 DEF QuietInv
  <2>3. CASE phase' = "next"
    <3> SUFFICES ASSUME quiet
                 PROVE  ShimsClean' /\ SiblingsSeen'
      BY <2>1, <2>3 DEF QuietInv
    <3>1. ShimsClean /\ (todo = <<Interposer>> \/ SiblingsSeen)
      BY <2>1 DEF QuietInv
    <3>2. ShimsClean'
      BY <1>0, <2>1, <3>1, StaysChecked
    <3>3. CASE todo = <<Interposer>>
      <4>1. todo' = SiblingList
        BY <1>6, <2>3, <3>3 DEF VerifySigner
      <4>2. exeDir \in {"exe", "sdk", "unknown"} /\ Siblings' = Siblings
        BY <1>0 DEF IndInv, TypeOK, WordsOK, Siblings, KnownDirs
      <4>3. \A f \in Siblings : Listed(f)'
        BY <4>1, <4>2, SiblingsCovered DEF Listed
      <4> QED
        BY <3>2, <4>2, <4>3 DEF SiblingsSeen
    <3>4. CASE todo # <<Interposer>>
      <4>1. todo \in Seq(Siblings) /\ todo # <<>>
        BY <2>1, <3>4 DEF IndInv, TodoOK, PastGate
      <4>2. Head(todo) \in Siblings /\ Head(todo) # Interposer
        BY <4>1, InterposerIsNoSibling
      <4>3. todo' = Tail(todo)
        BY <1>6, <2>3, <4>2 DEF VerifySigner
      <4>a. PICK h : h = Head(todo)
        OBVIOUS
      <4>4. Acceptable(disk[h])'
        BY <1>6, <2>1, <2>3, <4>a DEF VerifySigner, SignerSubject, IndInv, HoldsCurrent,
           Acceptable
      <4>5. Checked(h)'
        BY <4>4 DEF Checked
      <4> QED
        BY <1>0, <2>1, <3>1, <3>2, <3>4, <4>a, <4>1, <4>3, <4>5, StaysChecked, TailSeen
    <3> QED
      BY <3>3, <3>4
  <2> QED
    BY <1>6, <2>2, <2>3 DEF VerifySigner
<1>7. CASE NextSibling
  <2>1. UNCHANGED <<disk, allowed, quiet>> /\ phase = "next" /\ waived \subseteq waived'
    BY <1>7 DEF NextSibling
  <2>2. todo \in Seq(Siblings)
    BY <2>1 DEF IndInv, TodoOK, PastGate
  <2>3. todo # <<Interposer>>
    <3>1. <<Interposer>> \notin Seq(Siblings)
      BY InterposerIsNoSibling
    <3> QED
      BY <2>2, <3>1
  <2>4. quiet => ShimsClean /\ SiblingsSeen
    BY <2>1, <2>3 DEF QuietInv
  <2>5. CASE phase' = "open" /\ todo' = todo
    BY <1>0, <2>1, <2>4, <2>5, StillSeen DEF QuietInv
  <2>6. CASE todo # <<>> /\ todo' = Tail(todo) /\ phase' = phase
               /\ waived' = waived \union ({<<disk[Head(todo)], "unread">>}
                                            \ {<<Absent, "unread">>})
    <3>a. PICK h : h = Head(todo)
      OBVIOUS
    <3>1. Checked(h)'
      BY <2>1, <2>6, <3>a DEF Checked
    <3>2. quiet => ShimsClean' /\ SiblingsSeen'
      BY <1>0, <2>1, <2>2, <2>4, <2>6, <3>a, <3>1, StaysChecked, TailSeen
    <3> QED
      BY <2>1, <2>6, <3>2 DEF QuietInv
  <2>7. CASE todo = <<>> /\ phase' = "map" /\ waived' = waived
    <3>1. quiet => SiblingsChecked
      BY <2>4, <2>7 DEF SiblingsSeen, SiblingsChecked, Listed
    <3> QED
      BY <1>0, <2>1, <2>4, <2>7, <3>1, StaysChecked DEF QuietInv
  <2> QED
    BY <1>7, <2>5, <2>6, <2>7 DEF NextSibling
<1>8. CASE MapImage
  <2>1. UNCHANGED <<disk, allowed, quiet, waived>> /\ phase = "map"
    BY <1>8 DEF MapImage
  <2>2. CASE phase' = "resolve"
    BY <1>0, <2>1, <2>2, StaysChecked DEF QuietInv
  <2>3. CASE phase' = "idle" /\ result' = "Err"
    BY <2>3 DEF QuietInv
  <2> QED
    BY <1>8, <2>2, <2>3 DEF MapImage
<1>9. CASE ResolveExports
  <2>1. UNCHANGED <<disk, allowed, quiet, waived>> /\ phase = "resolve" /\ phase' = "idle"
    BY <1>9 DEF ResolveExports
  <2> QED
    BY <1>0, <2>1, StaysChecked DEF QuietInv
<1>10. CASE UNCHANGED <<disk, allowed, waived, quiet, phase, todo, result>>
  <2>1. CASE phase \in Verifying \union {"next"}
    BY <1>0, <1>10, <2>1, StillSeen DEF QuietInv
  <2>2. CASE phase \notin Verifying \union {"next"}
    BY <1>0, <1>10, <2>2, StaysChecked DEF QuietInv
  <2> QED
    BY <2>1, <2>2
<1>11. CASE UpdateFile
  BY <1>11 DEF UpdateFile, QuietInv
<1>12. ResolveUpgrade \/ Upgrade \/ UNCHANGED vars
         => UNCHANGED <<disk, allowed, waived, quiet, phase, todo, result>>
  BY DEF ResolveUpgrade, Upgrade, vars
<1> QED
  BY <1>1, <1>2, <1>3, <1>4, <1>5, <1>6, <1>7, <1>8, <1>9, <1>10, <1>11, <1>12 DEF Next

\* ffi.rs:43-88: if nobody replaced a file while load ran, the plugins beside an
\* interposer that was loaded are ones the gate accepts, in both directories, and
\* no copy of it lies beside the executable.
THEOREM QuietLoadsAreClean == Spec => []QuietLoadIsClean
<1>1. Init => QuietInv
  BY DEF Init, QuietInv, Verifying
<1>2. QuietInv => QuietLoadIsClean
  BY DEF QuietInv, QuietLoadIsClean, ShimsClean, SiblingsChecked, Checked
<1> QED
  BY <1>1, <1>2, QuietNext, Inductive, PTL DEF Spec
=============================================================================
