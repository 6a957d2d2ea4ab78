--------------------------- MODULE ArtifactProofs ---------------------------
(***************************************************************************)
(* Proofs about Artifact for any skill directory, any contents and any     *)
(* number of builds, runs and edits.                                       *)
(***************************************************************************)
EXTENDS Artifact, TLAPS

(* Every file, loop and local keeps its type, and a run past verification   *)
(* holds a whole capsule.                                                   *)
LEMMA TypeInit == Init => TypeOK
<1> SUFFICES ASSUME Init PROVE TypeOK
    OBVIOUS
<1>1. /\ Nothing \in [Names -> Contents]
      /\ Nothing \in [Names -> Entries \union {Absent}]
  BY DEF Nothing, Contents
<1>2. dir \in [Names -> Contents] /\ past \in [Names -> SUBSET Contents]
  BY ArtifactAssumption DEF Init
<1>3. left \in [edits : Nat, builds : Nat]
  BY ArtifactAssumption DEF Init
<1>. QED
  BY <1>1, <1>2, <1>3 DEF Init, TypeOK, BuildPcs, RunPcs

LEMMA TypeStep == TypeOK /\ [Next]_vars => TypeOK'
<1> SUFFICES ASSUME TypeOK, [Next]_vars PROVE TypeOK'
    OBVIOUS
<1> USE ArtifactAssumption DEF TypeOK, Contents, BuildPcs, RunPcs
<1>0. Manifest \in Names /\ Nothing \in [Names -> Contents]
  BY DEF Names, Nothing
<1>1. CASE Build
  <2>1. CASE BuildLoad
    <3>1. left' \in [edits : Nat, builds : Nat]
      BY <2>1 DEF BuildLoad
    <3>2. lock' \in [Names -> Entries \union {Absent}]
      BY <2>1 DEF BuildLoad, Nothing
    <3>. QED
      BY <2>1, <1>0, <3>1, <3>2 DEF BuildLoad, runVars
  <2>2. CASE BuildList
    BY <2>2 DEF BuildList, runVars, Present
  <2>3. ASSUME NEW n \in Names, BuildStat(n) PROVE TypeOK'
    <3>1. [digest |-> Absent, size |-> StatSize(n)] \in Entries
      BY <2>3 DEF BuildStat, StatSize, Entries
    <3>. QED
      BY <2>3, <3>1 DEF BuildStat, runVars
  <2>4. ASSUME NEW n \in Names, BuildHash(n) PROVE TypeOK'
    <3>1. lock[n] \in Entries
      BY <2>4 DEF BuildHash, Half
    <3>2. [lock[n] EXCEPT !.digest = dir[n]] \in Entries
      BY <3>1 DEF Entries
    <3>3. lock' \in [Names -> Entries \union {Absent}]
      BY <2>4, <3>2 DEF BuildHash
    <3>. QED
      BY <2>4, <3>3 DEF BuildHash, runVars
  <2>5. CASE BuildHashManifest
    <3>1. [digest |-> dir[Manifest], size |-> 0] \in Entries
      BY <1>0 DEF Entries
    <3>2. /\ lock' \in [Names -> Entries \union {Absent}]
          /\ lock'[Manifest] = [digest |-> dir[Manifest], size |-> 0]
      BY <2>5, <3>1, <1>0 DEF BuildHashManifest
    <3>3. lock'[Manifest] # Absent
      BY <3>1, <3>2
    <3>. QED
      BY <2>5, <3>2, <3>3 DEF BuildHashManifest, runVars
  <2>6. CASE BuildSizeManifest
    <3>1. lock[Manifest] \in Entries
      BY <2>6, <1>0 DEF BuildSizeManifest
    <3>2. [lock[Manifest] EXCEPT !.size = SizeOf[dir[Manifest]]] \in Entries
      BY <2>6, <3>1, <1>0 DEF BuildSizeManifest, Entries
    <3>3. /\ lock' \in [Names -> Entries \union {Absent}]
          /\ lock'[Manifest] = [lock[Manifest] EXCEPT !.size = SizeOf[dir[Manifest]]]
      BY <2>6, <3>2, <1>0 DEF BuildSizeManifest
    <3>4. lock'[Manifest] # Absent
      BY <3>2, <3>3
    <3>. QED
      BY <2>6, <1>0, <3>3, <3>4 DEF BuildSizeManifest, runVars, Locked
  <2>12. CASE BuildSizeUnknown
    BY <2>12, <1>0 DEF BuildSizeUnknown, runVars, Locked
  <2>7. ASSUME NEW n \in Names, BuildRead(n) PROVE TypeOK'
    BY <2>7 DEF BuildRead, runVars
  <2>8. CASE BuildRender
    BY <2>8, <1>0 DEF BuildRender, runVars, Locked
  <2>9. CASE BuildTruncate
    BY <2>9 DEF BuildTruncate, runVars
  <2>10. CASE BuildWrite
    <3>1. file' \in Capsules
      BY <2>10 DEF BuildWrite, Capsules
    <3>. QED
      BY <2>10, <3>1 DEF BuildWrite, runVars
  <2>11. CASE BuildFails
    BY <2>11 DEF BuildFails, runVars
  <2>. QED
    BY <1>1, <2>1, <2>2, <2>3, <2>4, <2>5, <2>6, <2>7, <2>8, <2>9, <2>10, <2>11,
       <2>12 DEF Build
<1>2. CASE Materialize
  <2>1. CASE RunRead
    BY <2>1, <1>0 DEF RunRead, buildVars
  <2>2. ASSUME NEW n \in Names, RunExtract(n) PROVE TypeOK'
    <3>1. raw.payload \in [Names -> Contents]
      BY <2>2 DEF RunExtract, Capsules
    <3>. QED
      BY <2>2, <3>1 DEF RunExtract, buildVars
  <2>3. CASE RunReady
    BY <2>3 DEF RunReady, buildVars
  <2>4. CASE RunAgain
    BY <2>4, <1>0 DEF RunAgain, buildVars
  <2>. QED
    BY <1>2, <2>1, <2>2, <2>3, <2>4 DEF Materialize
<1>3. ASSUME NEW n \in Names, NEW c \in Contents, Edit(n, c) PROVE TypeOK'
  <2>1. left' \in [edits : Nat, builds : Nat]
    BY <1>3 DEF Edit
  <2>2. dir' \in [Names -> Contents]
    BY <1>3 DEF Edit
  <2>3. past' \in [Names -> SUBSET Contents]
    BY <1>3 DEF Edit
  <2>. QED
    BY <1>3, <2>1, <2>2, <2>3 DEF Edit, buildVars, runVars
<1>4. CASE UNCHANGED vars
  BY <1>4 DEF vars, buildVars, runVars
<1>. QED
  BY <1>1, <1>2, <1>3, <1>4 DEF Next

THEOREM TypeCorrect == Spec => []TypeOK
  BY TypeInit, TypeStep, PTL DEF Spec

-----------------------------------------------------------------------------
(* Why a capsule that Inspect accepts is a snapshot.  A digest recorded by   *)
(* the walk is one the name has had; from the instant the manifest is       *)
(* hashed, a name whose recorded digest is not its contents of that instant *)
(* has moved on and never gets those contents back.  Bytes rendered after   *)
(* that instant match the lock only if they are those of the instant.       *)
Hashed == pc \in {"size", "draft", "final", "write"}

Settled(n) ==
    lock[n] # Absent =>
        \/ lock[n].digest \in {hashed[n], Absent}
        \/ lock[n].digest \in past[n] /\ dir[n] # lock[n].digest

Rendered(n) ==
    lock[n] # Absent /\ payload[n] # Absent /\ lock[n].digest = payload[n] =>
        payload[n] = hashed[n]

Snapshot(c) == Intact(c) => \A n \in Present(c.payload) : c.payload[n] = c.hashed[n]

BuildInv ==
    /\ \A n \in Names : dir[n] \in past[n]
    /\ pc = "list" => lock = Nothing
    /\ pc = "walk" =>
         \A n \in Names : lock[n] # Absent => lock[n].digest \in past[n] \union {Absent}
    /\ Hashed => \A n \in Names : Settled(n)
    /\ pc \in {"draft", "final", "write"} => \A n \in Names : Rendered(n)

FileInv == file \notin {Absent, Empty} => Snapshot(file)

RunInv ==
    /\ run # "idle" =>
         /\ Intact(raw) /\ Snapshot(raw)
         /\ \A n \in Names : work[n] \in {Absent, raw.payload[n]}
    /\ run = "ready" => \A n \in Present(raw.payload) : work[n] # Absent

SnapshotInv == BuildInv /\ FileInv /\ RunInv

LEMMA SnapshotInit == Init => SnapshotInv
  BY DEF Init, SnapshotInv, BuildInv, FileInv, RunInv, Hashed

LEMMA BuildStep == TypeOK /\ BuildInv /\ [Next]_vars => BuildInv'
<1> SUFFICES ASSUME TypeOK, BuildInv, [Next]_vars PROVE BuildInv'
    OBVIOUS
<1> USE ArtifactAssumption
<1>0. Manifest \in Names
  BY DEF Names
<1>1. CASE BuildLoad
  BY <1>1 DEF BuildLoad, BuildInv, Hashed
<1>2. CASE BuildList
  BY <1>2 DEF BuildList, BuildInv, Hashed, Nothing
<1>3. ASSUME NEW n \in Names, BuildStat(n) PROVE BuildInv'
  BY <1>3 DEF BuildStat, BuildInv, Hashed, TypeOK
<1>4. ASSUME NEW n \in Names, BuildHash(n) PROVE BuildInv'
  <2>1. lock[n] \in Entries
    BY <1>4 DEF BuildHash, Half, TypeOK
  <2>2. \A m \in Names : lock'[m] # Absent => lock'[m].digest \in past[m] \union {Absent}
    <3> SUFFICES ASSUME NEW m \in Names, lock'[m] # Absent
                 PROVE  lock'[m].digest \in past[m] \union {Absent}
        OBVIOUS
    <3>1. CASE m = n
      BY <1>4, <2>1, <3>1 DEF BuildHash, BuildInv, TypeOK, Entries
    <3>2. CASE m # n
      BY <1>4, <3>2 DEF BuildHash, BuildInv, TypeOK
    <3>. QED
      BY <3>1, <3>2
  <2>. QED
    BY <1>4, <2>2 DEF BuildHash, BuildInv, Hashed
<1>5. CASE BuildHashManifest
  <2>1. \A m \in Names : Settled(m)'
    <3> SUFFICES ASSUME NEW m \in Names PROVE Settled(m)'
        OBVIOUS
    <3>1. CASE m = Manifest
      BY <1>5, <1>0, <3>1 DEF BuildHashManifest, Settled, TypeOK
    <3>2. CASE m # Manifest
      BY <1>5, <3>2 DEF BuildHashManifest, Settled, TypeOK, BuildInv
    <3>. QED
      BY <3>1, <3>2
  <2>. QED
    BY <1>5, <2>1 DEF BuildHashManifest, BuildInv, Hashed
<1>6. CASE BuildSizeManifest
  <2>1. lock[Manifest] \in Entries
    BY <1>6, <1>0 DEF BuildSizeManifest, TypeOK
  <2>2. \A m \in Names : lock'[m] # Absent => lock[m] # Absent /\ lock'[m].digest = lock[m].digest
    <3> SUFFICES ASSUME NEW m \in Names, lock'[m] # Absent
                 PROVE  lock[m] # Absent /\ lock'[m].digest = lock[m].digest
        OBVIOUS
    <3>1. CASE m = Manifest
      BY <1>6, <2>1, <3>1 DEF BuildSizeManifest, TypeOK, Entries
    <3>2. CASE m # Manifest
      BY <1>6, <3>2 DEF BuildSizeManifest, TypeOK
    <3>. QED
      BY <3>1, <3>2
  <2>3. \A m \in Names : Settled(m)'
    BY <1>6, <2>2 DEF BuildSizeManifest, BuildInv, Hashed, Settled
  <2>4. \A m \in Names : Rendered(m)'
    BY <1>6 DEF BuildSizeManifest, Nothing, Rendered
  <2>. QED
    BY <1>6, <2>3, <2>4 DEF BuildSizeManifest, BuildInv, Hashed
<1>7. CASE BuildSizeUnknown
  <2>1. \A m \in Names : Settled(m)'
    BY <1>7 DEF BuildSizeUnknown, BuildInv, Hashed, Settled
  <2>2. \A m \in Names : Rendered(m)'
    BY <1>7 DEF BuildSizeUnknown, Nothing, Rendered
  <2>. QED
    BY <1>7, <2>1, <2>2 DEF BuildSizeUnknown, BuildInv, Hashed
<1>8. ASSUME NEW n \in Names, BuildRead(n) PROVE BuildInv'
  <2>1. \A m \in Names : Settled(m)'
    BY <1>8 DEF BuildRead, BuildInv, Hashed, Settled
  <2>2. \A m \in Names : Rendered(m)'
    <3> SUFFICES ASSUME NEW m \in Names PROVE Rendered(m)'
        OBVIOUS
    <3>1. CASE m = n
      BY <1>8, <3>1 DEF BuildRead, BuildInv, Hashed, Settled, Rendered, TypeOK
    <3>2. CASE m # n
      BY <1>8, <3>2 DEF BuildRead, BuildInv, Rendered, TypeOK
    <3>. QED
      BY <3>1, <3>2
  <2>. QED
    BY <1>8, <2>1, <2>2 DEF BuildRead, BuildInv, Hashed
<1>9. CASE BuildRender
  <2>1. \A m \in Names : Settled(m)'
    BY <1>9 DEF BuildRender, BuildInv, Hashed, Settled
  <2>2. \A m \in Names : Rendered(m)'
    BY <1>9 DEF BuildRender, Nothing, Rendered
  <2>. QED
    BY <1>9, <2>1, <2>2 DEF BuildRender, BuildInv, Hashed
<1>10. CASE BuildTruncate
  BY <1>10 DEF BuildTruncate, BuildInv, Hashed, Settled, Rendered
<1>11. CASE BuildWrite
  BY <1>11 DEF BuildWrite, BuildInv, Hashed
<1>12. CASE BuildFails
  BY <1>12 DEF BuildFails, BuildInv, Hashed
<1>13. CASE Materialize
  <2>1. UNCHANGED <<dir, past, buildVars>>
    BY <1>13 DEF Materialize, RunRead, RunExtract, RunReady, RunAgain
  <2>. QED
    BY <2>1 DEF buildVars, BuildInv, Hashed, Settled, Rendered
<1>14. ASSUME NEW n \in Names, NEW c \in Contents, Edit(n, c) PROVE BuildInv'
  <2>1. UNCHANGED <<pc, lock, payload, hashed>>
    BY <1>14 DEF Edit, buildVars
  <2>2. \A m \in Names : past[m] \subseteq past'[m] /\ dir'[m] \in past'[m]
    BY <1>14 DEF Edit, BuildInv, TypeOK
  <2>3. \A m \in Names : dir'[m] \in {dir[m]} \union (Contents \ past[m])
    BY <1>14 DEF Edit, TypeOK
  <2>4. \A m \in Names : Settled(m) => Settled(m)'
    BY <2>1, <2>2, <2>3 DEF Settled
  <2>5. \A m \in Names : Rendered(m) => Rendered(m)'
    BY <2>1 DEF Rendered
  <2>. QED
    BY <2>1, <2>2, <2>4, <2>5 DEF BuildInv, Hashed
<1>15. CASE UNCHANGED vars
  BY <1>15 DEF vars, buildVars, BuildInv, Hashed, Settled, Rendered
<1>. QED
  BY <1>1, <1>2, <1>3, <1>4, <1>5, <1>6, <1>7, <1>8, <1>9, <1>10, <1>11, <1>12,
     <1>13, <1>14, <1>15 DEF Next, Build

\* Only BuildWrite puts a capsule in place, and what it writes satisfies
\* Rendered for every name.
LEMMA FileStep == TypeOK /\ BuildInv /\ FileInv /\ [Next]_vars => FileInv'
<1> SUFFICES ASSUME TypeOK, BuildInv, FileInv, [Next]_vars PROVE FileInv'
    OBVIOUS
<1>1. CASE BuildWrite
  <2> SUFFICES ASSUME Intact(file') PROVE \A n \in Present(payload) : payload[n] = hashed[n]
      BY <1>1 DEF BuildWrite, FileInv, Snapshot
  <2>1. file'.files = lock /\ file'.payload = payload
    BY <1>1 DEF BuildWrite
  <2>2. \A n \in Present(payload) : n \in Names /\ lock[n] # Absent /\ lock[n].digest = payload[n]
    BY <2>1 DEF Intact, Present, Locked
  <2>. QED
    BY <1>1, <2>2 DEF BuildWrite, BuildInv, Rendered, Present
<1>2. CASE BuildTruncate
  BY <1>2 DEF BuildTruncate, FileInv
<1>3. CASE file' = file
  BY <1>3 DEF FileInv
<1>. QED
  BY <1>1, <1>2, <1>3 DEF Next, Build, BuildLoad, BuildList, BuildStat, BuildHash,
     BuildHashManifest, BuildSizeManifest, BuildSizeUnknown, BuildRead, BuildRender,
     BuildFails, Materialize, RunRead, RunExtract, RunReady, RunAgain, Edit, vars

\* A run keeps the reading it verified, and extracts only from it.
LEMMA RunStep == TypeOK /\ FileInv /\ RunInv /\ [Next]_vars => RunInv'
<1> SUFFICES ASSUME TypeOK, FileInv, RunInv, [Next]_vars PROVE RunInv'
    OBVIOUS
<1>1. CASE RunRead
  BY <1>1 DEF RunRead, RunInv, FileInv, Nothing
<1>2. ASSUME NEW n \in Names, RunExtract(n) PROVE RunInv'
  <2>1. UNCHANGED <<run, raw>> /\ run = "extract"
    BY <1>2 DEF RunExtract
  <2>2. \A m \in Names : work'[m] \in {Absent, raw.payload[m]}
    BY <1>2 DEF RunExtract, RunInv, TypeOK
  <2>. QED
    BY <2>1, <2>2 DEF RunInv
<1>3. CASE RunReady
  BY <1>3 DEF RunReady, RunInv
<1>4. CASE RunAgain
  BY <1>4 DEF RunAgain, RunInv
<1>5. CASE UNCHANGED runVars
  BY <1>5 DEF runVars, RunInv
<1>. QED
  BY <1>1, <1>2, <1>3, <1>4, <1>5 DEF Next, Build, BuildLoad, BuildList, BuildStat,
     BuildHash, BuildHashManifest, BuildSizeManifest, BuildSizeUnknown, BuildRead,
     BuildRender, BuildTruncate, BuildWrite, BuildFails, Materialize, Edit, vars

LEMMA SnapshotInvariant == Spec => [](TypeOK /\ SnapshotInv)
<1>1. Init => TypeOK /\ SnapshotInv
  BY TypeInit, SnapshotInit
<1>2. TypeOK /\ SnapshotInv /\ [Next]_vars => TypeOK' /\ SnapshotInv'
  BY TypeStep, BuildStep, FileStep, RunStep DEF SnapshotInv
<1>. QED
  BY <1>1, <1>2, PTL DEF Spec

(* Every file of a capsule that Inspect accepts has the contents the skill  *)
(* directory held at the instant the manifest was hashed, however the       *)
(* directory was edited during the build.                                   *)
THEOREM AcceptedCapsuleIsSnapshot == Spec => []AcceptedIsSnapshot
<1>1. SnapshotInv => AcceptedIsSnapshot
  BY DEF SnapshotInv, FileInv, Snapshot, AcceptedIsSnapshot, Built
<1>. QED
  BY <1>1, SnapshotInvariant, PTL

(* A run starts from the files of one accepted capsule, as they were at one *)
(* instant, whatever builds and edits go on while it is extracted.          *)
THEOREM RunStartsFromSnapshot == Spec => []WorkspaceIsSnapshot
<1>1. TypeOK /\ SnapshotInv => WorkspaceIsSnapshot
  <2> SUFFICES ASSUME TypeOK, SnapshotInv, run = "ready"
               PROVE  work = [n \in Names |->
                                IF n \in Locked(raw.files) THEN raw.hashed[n] ELSE Absent]
      BY DEF WorkspaceIsSnapshot
  <2>1. /\ Intact(raw) /\ Snapshot(raw)
        /\ \A n \in Names : work[n] \in {Absent, raw.payload[n]}
        /\ \A n \in Present(raw.payload) : work[n] # Absent
    BY DEF SnapshotInv, RunInv
  <2>2. \A n \in Names : work[n] = IF n \in Locked(raw.files) THEN raw.hashed[n] ELSE Absent
    BY <2>1 DEF Intact, Snapshot, Present
  <2>3. work \in [Names -> Contents]
    BY DEF TypeOK
  <2>. QED
    BY <2>2, <2>3
<1>. QED
  BY <1>1, SnapshotInvariant, PTL

-----------------------------------------------------------------------------
(* A quiet build.  While nobody touches the directory, the lock grows to    *)
(* exactly the files that are not ignored, each with the digest and length  *)
(* of its bytes, and a rendering holds what it has visited of them.  A      *)
(* packed link would have the wrong length, see StatSize.                   *)
NoLinksPacked == Links \subseteq Ignored

Kept == Present(dir) \ Ignored
Entry(n) == [digest |-> dir[n], size |-> SizeOf[dir[n]]]

Walked(n) ==
    /\ n \in todo => lock[n] \in {Absent, [Entry(n) EXCEPT !.digest = Absent]}
    /\ n \notin todo => lock[n] = IF n \in Kept \ {Manifest} THEN Entry(n) ELSE Absent

QuietInv ==
    quiet /\ pc # "idle" =>
        /\ dir[Manifest] # Absent /\ ident = IdentOf[dir[Manifest]]
        /\ pc = "list" => lock = Nothing
        /\ pc = "walk" => todo \subseteq Kept \ {Manifest} /\ \A n \in Names : Walked(n)
        /\ pc = "size" =>
             /\ lock[Manifest].digest = dir[Manifest]
             /\ \A n \in Names \ {Manifest} : lock[n] = IF n \in Kept THEN Entry(n) ELSE Absent
        /\ Hashed => hashed = dir
        /\ pc \in {"draft", "final", "write"} =>
             \A n \in Names : lock[n] = IF n \in Kept THEN Entry(n) ELSE Absent
        /\ pc \in {"draft", "final"} =>
             /\ todo \subseteq Kept
             /\ \A n \in Names : payload[n] = IF n \in Kept \ todo THEN dir[n] ELSE Absent
        /\ pc = "write" => \A n \in Names : payload[n] = IF n \in Kept THEN dir[n] ELSE Absent

LEMMA QuietStep ==
    ASSUME NoLinksPacked, TypeOK, QuietInv, [Next]_vars
    PROVE  QuietInv'
<1> SUFFICES ASSUME quiet', pc' # "idle" PROVE QuietInv'
    BY DEF QuietInv
<1>a. /\ Manifest \in Names /\ Manifest \notin Ignored
      /\ Absent \notin Bytes /\ Absent \notin Entries
      /\ Links \subseteq Ignored
      /\ dir \in [Names -> Contents]
      /\ lock \in [Names -> Entries \union {Absent}]
      /\ payload \in [Names -> Contents]
      /\ todo \subseteq Names
      /\ SizeOf \in [Bytes -> Nat]
  BY ArtifactAssumption DEF Names, TypeOK, NoLinksPacked
<1>b. /\ Kept \subseteq Names
      /\ Manifest \in Kept <=> dir[Manifest] # Absent
      /\ \A n \in Kept : dir[n] # Absent /\ n \notin Ignored /\ n \notin Links
      /\ \A n \in Kept : Entry(n) \in Entries
  BY <1>a DEF Kept, Present, Entry, Entries, Contents
<1>c. /\ pc # "idle" /\ quiet =>
           /\ dir[Manifest] # Absent /\ ident = IdentOf[dir[Manifest]]
           /\ Hashed => hashed = dir
  BY DEF QuietInv
<1>1. CASE BuildLoad
  BY <1>1 DEF BuildLoad, QuietInv, Hashed
<1>2. CASE BuildList
  <2>1. /\ pc = "list" /\ pc' = "walk" /\ UNCHANGED <<dir, ident, lock, quiet>>
        /\ todo' = Kept \ {Manifest}
    BY <1>2 DEF BuildList, Kept
  <2>2. lock = Nothing
    BY <2>1 DEF QuietInv
  <2>3. \A n \in Names : Walked(n)'
    BY <2>1, <2>2 DEF Walked, Nothing, Kept, Present
  <2>. QED
    BY <1>c, <2>1, <2>3 DEF QuietInv, Hashed, Kept, Present
<1>3. ASSUME NEW n \in Names, BuildStat(n) PROVE QuietInv'
  <2>1. /\ pc = "walk" /\ n \in todo /\ UNCHANGED <<dir, pc, todo, ident, quiet>>
        /\ lock' = [lock EXCEPT ![n] = [digest |-> Absent, size |-> StatSize(n)]]
        /\ dir[n] # Absent
    BY <1>3 DEF BuildStat
  <2>2. todo \subseteq Kept \ {Manifest} /\ \A m \in Names : Walked(m)
    BY <2>1 DEF QuietInv
  <2>3. lock'[n] = [Entry(n) EXCEPT !.digest = Absent]
    BY <1>a, <1>b, <2>1, <2>2 DEF StatSize, Entry
  <2>4. \A m \in Names : Walked(m)'
    BY <1>a, <2>1, <2>2, <2>3 DEF Walked, Kept, Present, Entry
  <2>. QED
    BY <1>c, <2>1, <2>2, <2>4 DEF QuietInv, Hashed, Kept, Present
<1>4. ASSUME NEW n \in Names, BuildHash(n) PROVE QuietInv'
  <2>1. /\ pc = "walk" /\ n \in todo /\ UNCHANGED <<dir, pc, ident, quiet>>
        /\ lock' = [lock EXCEPT ![n].digest = dir[n]] /\ lock[n] # Absent
        /\ todo' = todo \ {n}
    BY <1>4 DEF BuildHash, Half
  <2>2. todo \subseteq Kept \ {Manifest} /\ \A m \in Names : Walked(m)
    BY <2>1 DEF QuietInv
  <2>3. lock[n] = [Entry(n) EXCEPT !.digest = Absent]
    BY <2>1, <2>2 DEF Walked
  <2>4. lock'[n] = Entry(n)
    BY <1>a, <2>1, <2>3 DEF Entry
  <2>5. \A m \in Names : Walked(m)'
    <3> SUFFICES ASSUME NEW m \in Names PROVE Walked(m)'
        OBVIOUS
    <3>1. CASE m = n
      BY <2>1, <2>2, <2>4, <3>1 DEF Walked, Kept, Present, Entry
    <3>2. CASE m # n
      BY <1>a, <2>1, <2>2, <3>2 DEF Walked, Kept, Present, Entry
    <3>. QED
      BY <3>1, <3>2
  <2>. QED
    BY <1>c, <2>1, <2>2, <2>5 DEF QuietInv, Hashed, Kept, Present
<1>5. CASE BuildHashManifest
  <2>1. /\ pc = "walk" /\ pc' = "size" /\ todo = {} /\ UNCHANGED <<dir, ident, quiet>>
        /\ lock' = [lock EXCEPT ![Manifest] = [digest |-> dir[Manifest], size |-> 0]]
        /\ hashed' = dir
    BY <1>5 DEF BuildHashManifest
  <2>2. \A m \in Names : Walked(m)
    BY <2>1 DEF QuietInv
  <2>3. \A m \in Names \ {Manifest} : lock'[m] = IF m \in Kept THEN Entry(m) ELSE Absent
    BY <1>a, <2>1, <2>2 DEF Walked
  <2>4. lock'[Manifest].digest = dir[Manifest]
    BY <1>a, <2>1
  <2>. QED
    BY <1>c, <2>1, <2>3, <2>4 DEF QuietInv, Hashed, Kept, Present, Entry
<1>6. CASE BuildSizeManifest
  <2>1. /\ pc = "size" /\ pc' = "draft" /\ UNCHANGED <<dir, ident, hashed, quiet>>
        /\ lock' = [lock EXCEPT ![Manifest].size = SizeOf[dir[Manifest]]]
        /\ todo' = Locked(lock) /\ payload' = Nothing
    BY <1>6 DEF BuildSizeManifest
  <2>2. /\ lock[Manifest].digest = dir[Manifest] /\ lock[Manifest] \in Entries
        /\ \A m \in Names \ {Manifest} : lock[m] = IF m \in Kept THEN Entry(m) ELSE Absent
    BY <1>a, <2>1 DEF QuietInv, TypeOK
  <2>3. lock'[Manifest] = Entry(Manifest)
    BY <1>a, <2>1, <2>2 DEF Entry, Entries
  <2>4. \A m \in Names : lock'[m] = IF m \in Kept THEN Entry(m) ELSE Absent
    BY <1>a, <1>b, <1>c, <2>1, <2>2, <2>3
  <2>5. todo' = Kept
    BY <1>a, <1>b, <1>c, <2>1, <2>2 DEF Locked
  <2>. QED
    BY <1>c, <2>1, <2>4, <2>5 DEF QuietInv, Hashed, Kept, Present, Entry, Nothing
<1>7. CASE BuildSizeUnknown
  BY <1>c, <1>7 DEF BuildSizeUnknown
<1>8. ASSUME NEW n \in Names, BuildRead(n) PROVE QuietInv'
  <2>1. /\ pc \in {"draft", "final"} /\ n \in todo
        /\ UNCHANGED <<dir, pc, ident, lock, hashed, quiet>>
        /\ payload' = [payload EXCEPT ![n] = dir[n]] /\ todo' = todo \ {n}
    BY <1>8 DEF BuildRead
  <2>2. /\ \A m \in Names : lock[m] = IF m \in Kept THEN Entry(m) ELSE Absent
        /\ todo \subseteq Kept
        /\ \A m \in Names : payload[m] = IF m \in Kept \ todo THEN dir[m] ELSE Absent
    BY <2>1 DEF QuietInv
  <2>3. \A m \in Names : payload'[m] = IF m \in Kept \ todo' THEN dir[m] ELSE Absent
    BY <1>a, <2>1, <2>2
  <2>. QED
    BY <1>c, <2>1, <2>2, <2>3 DEF QuietInv, Hashed, Kept, Present, Entry
<1>9. CASE BuildRender
  <2>1. /\ pc = "draft" /\ pc' = "final" /\ UNCHANGED <<dir, ident, lock, hashed, quiet>>
        /\ todo' = Locked(lock) /\ payload' = Nothing
    BY <1>9 DEF BuildRender
  <2>2. \A m \in Names : lock[m] = IF m \in Kept THEN Entry(m) ELSE Absent
    BY <2>1 DEF QuietInv
  <2>3. todo' = Kept
    <3>1. \A m \in Names : lock[m] # Absent <=> m \in Kept
      BY <1>a, <1>b, <2>2
    <3>. QED
      BY <1>b, <2>1, <3>1 DEF Locked
  <2>. QED
    BY <1>c, <2>1, <2>2, <2>3 DEF QuietInv, Hashed, Kept, Present, Entry, Nothing
<1>10. CASE BuildTruncate
  <2>1. /\ pc = "final" /\ pc' = "write" /\ todo = {}
        /\ UNCHANGED <<dir, ident, lock, payload, hashed, quiet>>
    BY <1>10 DEF BuildTruncate
  <2>2. /\ \A m \in Names : lock[m] = IF m \in Kept THEN Entry(m) ELSE Absent
        /\ \A m \in Names : payload[m] = IF m \in Kept THEN dir[m] ELSE Absent
    BY <2>1 DEF QuietInv
  <2>. QED
    BY <1>c, <2>1, <2>2 DEF QuietInv, Hashed, Kept, Present, Entry
<1>11. CASE BuildWrite \/ BuildFails
  BY <1>11 DEF BuildWrite, BuildFails
<1>12. CASE Materialize \/ UNCHANGED vars
  <2>1. UNCHANGED <<dir, buildVars, quiet>>
    BY <1>12 DEF Materialize, RunRead, RunExtract, RunReady, RunAgain, vars
  <2>. QED
    BY <2>1 DEF buildVars, QuietInv, Hashed, Walked, Kept, Present, Entry
<1>13. ASSUME NEW n \in Names, NEW c \in Contents, Edit(n, c) PROVE FALSE
  BY <1>13 DEF Edit
<1>. QED
  BY <1>1, <1>2, <1>3, <1>4, <1>5, <1>6, <1>7, <1>8, <1>9, <1>10, <1>11, <1>12, <1>13
     DEF Next, Build

\* What a quiet build writes satisfies the property, and nothing else writes.
LEMMA FaithfulStep ==
    ASSUME TypeOK, QuietInv, QuietBuildIsFaithful, [Next]_vars
    PROVE  QuietBuildIsFaithful'
<1>1. CASE BuildWrite
  <2> SUFFICES ASSUME quiet
               PROVE  /\ Intact(file')
                      /\ payload = [n \in Names |-> IF n \in Ignored THEN Absent ELSE hashed[n]]
                      /\ ident = IdentOf[payload[Manifest]]
      BY <1>1 DEF BuildWrite, QuietBuildIsFaithful, Built
  <2>1. /\ file'.files = lock /\ file'.payload = payload
        /\ hashed = dir /\ dir[Manifest] # Absent /\ ident = IdentOf[dir[Manifest]]
        /\ \A n \in Names : lock[n] = IF n \in Kept THEN Entry(n) ELSE Absent
        /\ \A n \in Names : payload[n] = IF n \in Kept THEN dir[n] ELSE Absent
    BY <1>1 DEF BuildWrite, QuietInv, Hashed
  <2>2. \A n \in Kept : n \in Names /\ Entry(n) \in Entries /\ dir[n] # Absent /\ Entry(n) # Absent
    BY ArtifactAssumption DEF Kept, Present, Entry, Entries, Contents, TypeOK
  <2>3. Present(payload) = Kept /\ Locked(lock) = Kept
    BY <2>1, <2>2 DEF Present, Locked, Kept
  <2>4. Intact(file')
    <3>1. \A n \in Kept : lock[n].digest = payload[n] /\ lock[n].size = SizeOf[payload[n]]
      <4> SUFFICES ASSUME NEW n \in Kept
                   PROVE  lock[n].digest = payload[n] /\ lock[n].size = SizeOf[payload[n]]
          OBVIOUS
      <4>1. lock[n] = Entry(n) /\ payload[n] = dir[n]
        BY <2>1, <2>2
      <4>. QED
        BY <4>1 DEF Entry
    <3>. QED
      BY <2>1, <2>3, <3>1 DEF Intact
  <2>5. payload = [n \in Names |-> IF n \in Ignored THEN Absent ELSE hashed[n]]
    <3>1. \A n \in Names : payload[n] = IF n \in Ignored THEN Absent ELSE hashed[n]
      BY <2>1 DEF Kept, Present
    <3>. QED
      BY <3>1 DEF TypeOK
  <2>6. payload[Manifest] = dir[Manifest]
    BY <2>1, ArtifactAssumption DEF Kept, Present, Names
  <2>. QED
    BY <2>1, <2>4, <2>5, <2>6
<1>2. CASE BuildTruncate
  BY <1>2 DEF BuildTruncate, QuietBuildIsFaithful, Built
<1>3. CASE file' = file
  BY <1>3 DEF QuietBuildIsFaithful, Built, Intact, Present, Locked
<1>. QED
  BY <1>1, <1>2, <1>3 DEF Next, Build, BuildLoad, BuildList, BuildStat, BuildHash,
     BuildHashManifest, BuildSizeManifest, BuildSizeUnknown, BuildRead, BuildRender,
     BuildFails, Materialize, RunRead, RunExtract, RunReady, RunAgain, Edit, vars

(* If no link is packed, a build during which nobody touches the directory  *)
(* yields a capsule that Inspect accepts, that holds every file not ignored *)
(* and that carries the name its manifest declares.                         *)
THEOREM QuietBuildsAreFaithful ==
    ASSUME NoLinksPacked
    PROVE  Spec => []QuietBuildIsFaithful
<1>1. Init => QuietInv /\ QuietBuildIsFaithful
  BY DEF Init, QuietInv, QuietBuildIsFaithful, Built
<1>2. TypeOK /\ QuietInv /\ QuietBuildIsFaithful /\ [Next]_vars
        => QuietInv' /\ QuietBuildIsFaithful'
  BY QuietStep, FaithfulStep
<1>. QED
  BY <1>1, <1>2, TypeInit, TypeStep, PTL DEF Spec
=============================================================================
