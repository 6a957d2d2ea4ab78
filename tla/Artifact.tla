------------------------------ MODULE Artifact ------------------------------
(***************************************************************************)
(* Building, verifying and materializing a capsule (artifact.go).          *)
(*                                                                         *)
(* BuildArtifact reads the skill directory several times: LoadManifest,    *)
(* a walk that stats and hashes every file, a hash and a stat of the       *)
(* manifest, and two renderings that read every file again.  An editor may *)
(* change the directory between any two of those reads, and a run may read *)
(* the capsule while a later build overwrites it.                          *)
(*                                                                         *)
(* The bytes of a file stand for their own digest; SizeOf is their length  *)
(* and IdentOf what LoadManifest makes of them.  Tar and gzip framing is   *)
(* left out: a capsule is its lock and the payload bytes per name.         *)
(***************************************************************************)
EXTENDS Naturals, FiniteSets

CONSTANTS Manifest,     \* the name manifest.yaml
          Files,        \* the other names in the skill directory
          Ignored,      \* names shouldIgnoreArtifactPath leaves out
          Links,        \* names that are symbolic links to a file
          LinkSize,     \* the size lstat reports for a link
          Bytes,        \* possible contents of a file
          SizeOf,       \* Bytes -> length
          IdentOf,      \* Bytes -> the skill@version they declare, or Invalid
          Ident, Invalid,
          DirInit,      \* the directory at the start
          MaxEdits,     \* bound: changes of the directory
          MaxBuilds,    \* bound: builds started
          Absent, Empty

Names == Files \union {Manifest}
Contents == Bytes \union {Absent}
Entries == [digest : Contents, size : Nat]

ASSUME ArtifactAssumption ==
    /\ Manifest \notin Files /\ Ignored \subseteq Files /\ Links \subseteq Files
    /\ SizeOf \in [Bytes -> Nat] /\ LinkSize \in Nat
    /\ IdentOf \in [Bytes -> Ident \union {Invalid}] /\ Invalid \notin Ident
    /\ DirInit \in [Names -> Contents]
    /\ Absent \notin Bytes \union Entries
    /\ {MaxEdits, MaxBuilds} \subseteq Nat

VARIABLES
    dir,      \* Names -> contents in the skill directory
    past,     \* history: Names -> contents the name has had
    pc,       \* where BuildArtifact stands
    todo,     \* names the current loop has still to visit
    ident,    \* name and version LoadManifest returned
    lock,     \* Names -> digest and size recorded, or Absent
    payload,  \* Names -> bytes rendered, or Absent
    hashed,   \* history: the directory when the manifest was hashed
    quiet,    \* history: nothing changed since LoadManifest
    file,     \* the capsule on disk
    run,      \* where MaterializeArtifact stands
    raw,      \* the capsule it has read
    work,     \* Names -> bytes in the run workspace
    left      \* the bounds that remain

buildVars == <<pc, todo, ident, lock, payload, hashed>>
runVars == <<run, raw, work>>
vars == <<dir, past, buildVars, quiet, file, runVars, left>>

-----------------------------------------------------------------------------
Nothing == [n \in Names |-> Absent]
Capsules == [ident : Ident, files : [Names -> Entries \union {Absent}],
             payload : [Names -> Contents],
             hashed : [Names -> Contents], quiet : BOOLEAN]
BuildPcs == {"idle", "list", "walk", "size", "draft", "final", "write"}
RunPcs == {"idle", "extract", "ready"}

Present(d) == {n \in Names : d[n] # Absent}
Locked(l) == {n \in Names : l[n] # Absent}

\* Mutant: sizes are compared, digests are not.
Intact_SizeOnly(c) ==
    /\ Present(c.payload) = Locked(c.files)
    /\ \A n \in Present(c.payload) : c.files[n].size = SizeOf[c.payload[n]]

\* verifyArtifactIntegrity: exactly the locked names, each with the locked
\* size and digest.
Intact(c) ==
    /\ Present(c.payload) = Locked(c.files)
    /\ \A n \in Present(c.payload) :
          /\ c.files[n].size = SizeOf[c.payload[n]]
          /\ c.files[n].digest = c.payload[n]

Init ==
    /\ dir = DirInit
    /\ past = [n \in Names |-> {DirInit[n]}]
    /\ pc = "idle"
    /\ todo = {}
    /\ ident = Invalid
    /\ lock = Nothing
    /\ payload = Nothing
    /\ hashed = Nothing
    /\ quiet = FALSE
    /\ file = Absent
    /\ run = "idle"
    /\ raw = Absent
    /\ work = Nothing
    /\ left = [edits |-> MaxEdits, builds |-> MaxBuilds]

-----------------------------------------------------------------------------
\* BuildArtifact.

\* LoadManifest: name and version are taken from this reading.
BuildLoad ==
    /\ pc = "idle" /\ left.builds > 0
    /\ dir[Manifest] # Absent /\ IdentOf[dir[Manifest]] # Invalid
    /\ ident' = IdentOf[dir[Manifest]]
    /\ lock' = Nothing
    /\ quiet' = TRUE
    /\ pc' = "list"
    /\ left' = [left EXCEPT !.builds = @ - 1]
    /\ UNCHANGED <<dir, past, todo, payload, hashed, file, runVars>>

\* collectArtifactFiles: the names found by WalkDir.
BuildList ==
    /\ pc = "list"
    /\ todo' = Present(dir) \ (Ignored \union {Manifest})
    /\ pc' = "walk"
    /\ UNCHANGED <<dir, past, ident, lock, payload, hashed, quiet, file, runVars, left>>

\* collectArtifactFiles: entry.Info() is lstat, so the size of a link is that
\* of the link itself.
StatSize(n) == IF n \in Links THEN LinkSize ELSE SizeOf[dir[n]]

Half(n) == lock[n] # Absent /\ lock[n].digest = Absent

BuildStat(n) ==
    /\ pc = "walk" /\ n \in todo
    /\ \A m \in Names : ~Half(m)
    /\ dir[n] # Absent
    /\ lock' = [lock EXCEPT ![n] = [digest |-> Absent, size |-> StatSize(n)]]
    /\ UNCHANGED <<dir, past, pc, todo, ident, payload, hashed, quiet, file, runVars, left>>

\* collectArtifactFiles: fileDigest reads through the link.
BuildHash(n) ==
    /\ pc = "walk" /\ n \in todo
    /\ Half(n)
    /\ dir[n] # Absent
    /\ lock' = [lock EXCEPT ![n].digest = dir[n]]
    /\ todo' = todo \ {n}
    /\ UNCHANGED <<dir, past, pc, ident, payload, hashed, quiet, file, runVars, left>>

\* fileDigest(manifestPath), after the walk.
BuildHashManifest ==
    /\ pc = "walk" /\ todo = {}
    /\ dir[Manifest] # Absent
    /\ lock' = [lock EXCEPT ![Manifest] = [digest |-> dir[Manifest], size |-> 0]]
    /\ hashed' = dir
    /\ pc' = "size"
    /\ UNCHANGED <<dir, past, todo, ident, payload, quiet, file, runVars, left>>

\* Mutant: the stat fails, say on a path relative to another directory.
BuildSizeManifest_Zero ==
    /\ pc = "size"
    /\ todo' = Locked(lock)
    /\ payload' = Nothing
    /\ pc' = "draft"
    /\ UNCHANGED <<dir, past, ident, lock, hashed, quiet, file, runVars, left>>

\* fileSize(manifestPath).  The lock is complete now.
BuildSizeManifest ==
    /\ pc = "size"
    /\ dir[Manifest] # Absent
    /\ lock' = [lock EXCEPT ![Manifest].size = SizeOf[dir[Manifest]]]
    /\ todo' = Locked(lock)
    /\ payload' = Nothing
    /\ pc' = "draft"
    /\ UNCHANGED <<dir, past, ident, hashed, quiet, file, runVars, left>>

\* fileSize returns 0 when the stat fails.
BuildSizeUnknown ==
    /\ pc = "size"
    /\ dir[Manifest] = Absent
    /\ todo' = Locked(lock)
    /\ payload' = Nothing
    /\ pc' = "draft"
    /\ UNCHANGED <<dir, past, ident, lock, hashed, quiet, file, runVars, left>>

\* renderArtifact: addFileToTar reads the manifest, then every locked file.
BuildRead(n) ==
    /\ pc \in {"draft", "final"} /\ n \in todo
    /\ n = Manifest \/ Manifest \notin todo
    /\ dir[n] # Absent
    /\ payload' = [payload EXCEPT ![n] = dir[n]]
    /\ todo' = todo \ {n}
    /\ UNCHANGED <<dir, past, pc, ident, lock, hashed, quiet, file, runVars, left>>

\* The first rendering only yields the artifact_digest written into the lock;
\* the files are read again for the second.
BuildRender ==
    /\ pc = "draft" /\ todo = {}
    /\ todo' = Locked(lock)
    /\ payload' = Nothing
    /\ pc' = "final"
    /\ UNCHANGED <<dir, past, ident, lock, hashed, quiet, file, runVars, left>>

\* os.WriteFile(outputPath): truncate, then write.
BuildTruncate ==
    /\ pc = "final" /\ todo = {}
    /\ file' = Empty
    /\ pc' = "write"
    /\ UNCHANGED <<dir, past, todo, ident, lock, payload, hashed, quiet, runVars, left>>

BuildWrite ==
    /\ pc = "write"
    /\ file' = [ident |-> ident, files |-> lock, payload |-> payload,
                hashed |-> hashed, quiet |-> quiet]
    /\ pc' = "idle"
    /\ UNCHANGED <<dir, past, todo, ident, lock, payload, hashed, quiet, runVars, left>>

\* A name the build has to read is gone: the build returns an error and
\* leaves the output file as it was.
BuildFails ==
    /\ \/ pc = "walk" /\ \E n \in todo : dir[n] = Absent
       \/ pc = "walk" /\ todo = {} /\ dir[Manifest] = Absent
       \/ pc \in {"draft", "final"} /\ \E n \in todo : dir[n] = Absent
    /\ pc' = "idle"
    /\ UNCHANGED <<dir, past, todo, ident, lock, payload, hashed, quiet, file, runVars, left>>

Build ==
    \/ BuildLoad \/ BuildList
    \/ \E n \in Names : BuildStat(n) \/ BuildHash(n)
    \/ BuildHashManifest \/ BuildSizeManifest \/ BuildSizeUnknown
    \/ \E n \in Names : BuildRead(n)
    \/ BuildRender \/ BuildTruncate \/ BuildWrite \/ BuildFails

-----------------------------------------------------------------------------
\* MaterializeArtifact.

\* Mutant: the bytes read are not verified.
RunRead_Unverified ==
    /\ run = "idle"
    /\ file # Absent
    /\ raw' = file
    /\ work' = Nothing
    /\ run' = "extract"
    /\ UNCHANGED <<dir, past, buildVars, quiet, file, left>>

\* readArtifactBytes and verifyArtifactIntegrity work on one reading.
RunRead ==
    /\ run = "idle"
    /\ file \notin {Absent, Empty} /\ Intact(file)
    /\ raw' = file
    /\ work' = Nothing
    /\ run' = "extract"
    /\ UNCHANGED <<dir, past, buildVars, quiet, file, left>>

\* Mutant: the payload is extracted from the file, not from the bytes verified.
RunExtract_Rereads(n) ==
    /\ run = "extract" /\ n \in Present(raw.payload) /\ work[n] = Absent
    /\ work' = [work EXCEPT ![n] = IF file = Empty THEN Absent ELSE file.payload[n]]
    /\ UNCHANGED <<dir, past, buildVars, quiet, file, run, raw, left>>

\* One tar entry is written into the fresh workspace of the run.
RunExtract(n) ==
    /\ run = "extract" /\ n \in Present(raw.payload) /\ work[n] = Absent
    /\ work' = [work EXCEPT ![n] = raw.payload[n]]
    /\ UNCHANGED <<dir, past, buildVars, quiet, file, run, raw, left>>

\* io.EOF: the workspace must hold manifest.yaml.
RunReady ==
    /\ run = "extract"
    /\ \A n \in Present(raw.payload) : work[n] # Absent
    /\ work[Manifest] # Absent
    /\ run' = "ready"
    /\ UNCHANGED <<dir, past, buildVars, quiet, file, raw, work, left>>

\* The next run has a run id, hence a workspace, of its own.
RunAgain ==
    /\ run = "ready"
    /\ run' = "idle"
    /\ raw' = Absent
    /\ work' = Nothing
    /\ UNCHANGED <<dir, past, buildVars, quiet, file, left>>

Materialize ==
    \/ RunRead
    \/ \E n \in Names : RunExtract(n)
    \/ RunReady \/ RunAgain

-----------------------------------------------------------------------------
\* The author edits, adds or removes a file; a name never gets back contents
\* it had before.
Edit(n, c) ==
    /\ left.edits > 0
    /\ c \notin past[n]
    /\ dir' = [dir EXCEPT ![n] = c]
    /\ past' = [past EXCEPT ![n] = @ \union {c}]
    /\ quiet' = FALSE
    /\ left' = [left EXCEPT !.edits = @ - 1]
    /\ UNCHANGED <<buildVars, file, runVars>>

Next ==
    \/ Build
    \/ Materialize
    \/ \E n \in Names, c \in Contents : Edit(n, c)

Spec == Init /\ [][Next]_vars

-----------------------------------------------------------------------------
(* The type invariant; a run past verification holds a whole capsule, and   *)
(* the lock has its manifest entry once the manifest is hashed.             *)
TypeOK ==
    /\ dir \in [Names -> Contents]
    /\ past \in [Names -> SUBSET Contents]
    /\ pc \in BuildPcs
    /\ todo \subseteq Names
    /\ ident \in Ident \union {Invalid}
    /\ pc # "idle" => ident \in Ident
    /\ lock \in [Names -> Entries \union {Absent}]
    /\ pc \in {"size", "draft", "final", "write"} => lock[Manifest] # Absent
    /\ payload \in [Names -> Contents]
    /\ hashed \in [Names -> Contents]
    /\ quiet \in BOOLEAN
    /\ file \in Capsules \union {Absent, Empty}
    /\ run \in RunPcs
    /\ raw \in Capsules \union {Absent}
    /\ run # "idle" => raw \in Capsules
    /\ work \in [Names -> Contents]
    /\ left \in [edits : Nat, builds : Nat]

Built == file \notin {Absent, Empty}

(* A capsule that Inspect accepts is a snapshot: although the build reads   *)
(* the files one by one while the author edits them, every file it packs    *)
(* has the contents the directory held at the one instant the manifest was  *)
(* hashed.  Each file is read before and after that instant, and a file     *)
(* that changed in between does not match its lock entry.                   *)
AcceptedIsSnapshot ==
    Built /\ Intact(file) =>
        \A n \in Present(file.payload) : file.payload[n] = file.hashed[n]

(* A build during which nobody touches the directory yields a capsule that  *)
(* Inspect accepts, that holds every file not ignored, and whose lock names *)
(* the skill its manifest declares.                                         *)
QuietBuildIsFaithful ==
    Built /\ file.quiet =>
        /\ Intact(file)
        /\ file.payload = [n \in Names |-> IF n \in Ignored THEN Absent ELSE file.hashed[n]]
        /\ file.ident = IdentOf[file.payload[Manifest]]

(* What a run executes is one state of the skill directory: the workspace   *)
(* it starts from holds exactly the files of one accepted capsule, with the *)
(* contents they had at one instant, even if a later build overwrites the   *)
(* capsule while it is being extracted.                                     *)
WorkspaceIsSnapshot ==
    run = "ready" =>
        work = [n \in Names |-> IF n \in Locked(raw.files) THEN raw.hashed[n] ELSE Absent]
=============================================================================
