------------------------------ MODULE Registry ------------------------------
(***************************************************************************)
(* The local filesystem registry (internal/agenix/registry.go): publish,   *)
(* pull and resolution of a reference, one action per system call that     *)
(* other agenix processes can observe.  Nothing in the code takes a lock:  *)
(* every invocation of the command is a process that reads index.json,     *)
(* works on the copy it decoded and, for publish, writes the whole index   *)
(* back with os.WriteFile, which truncates before it writes.               *)
(*                                                                         *)
(* The bytes of an artifact are abstracted to its digest.  A digest fixes  *)
(* the skill@version its lock file names (IdOf) and with it the path       *)
(* artifacts/<skill>/<version>/<digest>.agenix, so the stored files are a  *)
(* function of the digest that names them.  Empty is a file truncated and  *)
(* not yet written, Garbled a file holding pieces of two writes; neither   *)
(* can be inspected or decoded.                                            *)
(***************************************************************************)
EXTENDS Naturals, FiniteSets

CONSTANTS Publishers,   \* processes that run `agenix publish`
          Readers,      \* processes that run `agenix pull` or resolve
          Digest,       \* the well-formed artifacts that exist
          Id,           \* skill@version names
          IdOf,         \* the skill@version in an artifact's lock file
          Source,       \* artifact files outside the registry
          SrcInit,      \* what each source file holds at the start
          MaxOps,       \* bound: operations started, over all processes
          MaxAborts,    \* bound: crashes and failed writes
          MaxRemovals,  \* bound: stored artifacts removed by hand
          MaxRebuilds,  \* bound: rebuilds of a source file
          Absent, Empty, Garbled

Procs == Publishers \union Readers
Refs == Digest \union Id
Content == Digest \union {Empty, Garbled}
OnDisk == Content \union {Absent}

ASSUME RegistryAssumption ==
    /\ IdOf \in [Digest -> Id]
    /\ SrcInit \in [Source -> Digest]
    /\ Publishers \intersect Readers = {}
    /\ Digest \intersect Id = {}
    /\ {Absent, Empty, Garbled} \intersect Refs = {}
    /\ Absent # Empty /\ Absent # Garbled /\ Empty # Garbled
    /\ {MaxOps, MaxAborts, MaxRemovals, MaxRebuilds} \subseteq Nat

VARIABLES
    src,        \* Source -> contents of the artifact file to publish
    store,      \* Digest -> contents of the registry file named by it
    index,      \* index.json: how it decodes, and its entries per digest
    pc,         \* Procs -> the next system call of the operation in hand
    arg,        \* Procs -> the source published or the reference asked for
    dig,        \* Procs -> the digest Inspect or the lookup returned
    snap,       \* Procs -> the entries loaded from index.json
    out,        \* Readers -> contents of the file `pull -o` writes
    ret,        \* Procs -> what the last operation returned
    committed,  \* history: digests whose publish wrote index.json
    left        \* the bounds that remain

vars == <<src, store, index, pc, arg, dig, snap, out, ret, committed, left>>

-----------------------------------------------------------------------------
\* Index contents: how many entries carry each digest.  Skill, version and
\* path follow from the digest; the order of the entries only matters to a
\* lookup that could match two digests (see Deterministic).

NoEntries == [d \in Digest |-> 0]
\* Mutant: the new entry is appended to an empty index, not to the loaded one.
With_DropsOthers(entries, d) == [NoEntries EXCEPT ![d] = 1]

With(entries, d) == [entries EXCEPT ![d] = @ + 1]
Listed(entries) == {d \in Digest : entries[d] > 0}

\* findRegistryEntry: an exact digest, or an exact skill@version.
Matches(ref, d) == ref = d \/ ref = IdOf[d]

\* Mutant: the loop starts at the second entry of a name.
Conflicts_SkipsFirst(entries, d) ==
    \E e \in Listed(entries) : IdOf[e] = IdOf[d] /\ e # d /\ entries[e] > 1

\* PublishArtifact's rejection: the name is taken by another digest.
Conflicts(entries, d) == \E e \in Listed(entries) : IdOf[e] = IdOf[d] /\ e # d

\* What index.json reads as: no file is an empty index, a file that is empty
\* or garbled does not decode.
IndexStatus == {"absent", "empty", "ok", "garbled"}
Decodes(ix) == ix.status \in {"absent", "ok"}

None == [op |-> "none", status |-> "none", ref |-> Absent, digest |-> Absent]
Result(op, status, ref, d) == [op |-> op, status |-> status, ref |-> ref, digest |-> d]

Statuses == {"none", "ok", "NotFound", "InvalidInput", "aborted"}
Results == [op : {"none", "publish", "pull", "abort"}, status : Statuses,
            ref : Source \union Refs \union {Absent}, digest : Digest \union {Absent}]
Bounds == {"ops", "aborts", "removals", "rebuilds"}
PublishPcs == {"load", "decide", "open", "copy", "truncate", "write", "return"}
PullPcs == {"lookup", "find", "inspect", "create", "fill"}

Init ==
    /\ src = SrcInit
    /\ store = [d \in Digest |-> Absent]
    /\ index = [status |-> "absent", entries |-> NoEntries]
    /\ pc = [p \in Procs |-> "idle"]
    /\ arg = [p \in Procs |-> Absent]
    /\ dig = [p \in Procs |-> Absent]
    /\ snap = [p \in Procs |-> NoEntries]
    /\ out = [p \in Readers |-> Absent]
    /\ ret = [p \in Procs |-> None]
    /\ committed = {}
    /\ left = [what \in Bounds |-> CASE what = "ops" -> MaxOps
                                     [] what = "aborts" -> MaxAborts
                                     [] what = "removals" -> MaxRemovals
                                     [] what = "rebuilds" -> MaxRebuilds]

-----------------------------------------------------------------------------
\* Control: an operation starts on an idle process, moves from call to call,
\* and ends by returning.

Spend(what) == left[what] > 0 /\ left' = [left EXCEPT ![what] = @ - 1]

Begin(p, a) ==
    /\ pc[p] = "idle"
    /\ Spend("ops")
    /\ arg' = [arg EXCEPT ![p] = a]

Goto(p, from, to) == pc[p] = from /\ pc' = [pc EXCEPT ![p] = to]

Return(p, result) ==
    /\ pc' = [pc EXCEPT ![p] = "idle"]
    /\ ret' = [ret EXCEPT ![p] = result]

\* What remains of a file after io.Copy or os.WriteFile writes `mine` at
\* offset 0 of a file that now holds `now`: another process that truncated
\* the same file may have written in between, and its longer tail survives.
Overwrite(now, mine) == {mine} \union (IF now \in {Empty, mine} THEN {} ELSE {Garbled})

-----------------------------------------------------------------------------
\* PublishArtifact.

\* InspectArtifact on the source: the digest is fixed here, the file is read
\* again only when it is copied.
PublishInspect(p, s) ==
    /\ Begin(p, s)
    /\ src[s] \in Digest
    /\ Goto(p, "idle", "load")
    /\ dig' = [dig EXCEPT ![p] = src[s]]
    /\ ret' = [ret EXCEPT ![p] = None]
    /\ UNCHANGED <<src, store, index, snap, out, committed>>

PublishUnreadable(p, s) ==
    /\ Begin(p, s)
    /\ src[s] \notin Digest
    /\ Return(p, Result("publish", "InvalidInput", s, Absent))
    /\ UNCHANGED <<src, store, index, dig, snap, out, committed>>

\* loadRegistryIndex: the process works on this copy from now on.
LoadIndex(p) ==
    /\ Decodes(index)
    /\ snap' = [snap EXCEPT ![p] = index.entries]
    /\ UNCHANGED <<src, store, index, arg, dig, out, ret, committed, left>>

\* loadRegistryIndex: index.json does not decode.
LoadFails(p, op) ==
    /\ ~Decodes(index)
    /\ Return(p, Result(op, "InvalidInput", arg[p], Absent))
    /\ UNCHANGED <<src, store, index, arg, dig, snap, out, committed, left>>

PublishLoad(p) == Goto(p, "load", "decide") /\ LoadIndex(p)
PublishLoadFails(p) == pc[p] = "load" /\ LoadFails(p, "publish")

\* The loop over the entries: the name is taken by a different digest.
PublishConflict(p) ==
    /\ pc[p] = "decide"
    /\ Conflicts(snap[p], dig[p])
    /\ Return(p, Result("publish", "InvalidInput", arg[p], dig[p]))
    /\ UNCHANGED <<src, store, index, arg, dig, snap, out, committed, left>>

\* The loop over the entries: the digest is listed and os.Stat finds its file.
PublishExisting(p) ==
    /\ pc[p] = "decide"
    /\ dig[p] \in Listed(snap[p])
    /\ store[dig[p]] # Absent
    /\ Return(p, Result("publish", "ok", arg[p], dig[p]))
    /\ UNCHANGED <<src, store, index, arg, dig, snap, out, committed, left>>

\* Mutant: the loop only compares digests, never names.
PublishFresh_NoConflictCheck(p) ==
    /\ Goto(p, "decide", "open")
    /\ dig[p] \in Listed(snap[p]) => store[dig[p]] = Absent
    /\ UNCHANGED <<src, store, index, arg, dig, snap, out, ret, committed, left>>

\* Mutant: a listed digest is copied again instead of returning its entry.
PublishFresh_Recopies(p) ==
    /\ Goto(p, "decide", "open")
    /\ ~Conflicts(snap[p], dig[p])
    /\ UNCHANGED <<src, store, index, arg, dig, snap, out, ret, committed, left>>

\* Mutant: the index is written without waiting for the copy.
PublishFresh_IndexFirst(p) ==
    /\ Goto(p, "decide", "truncate")
    /\ ~Conflicts(snap[p], dig[p])
    /\ dig[p] \in Listed(snap[p]) => store[dig[p]] = Absent
    /\ UNCHANGED <<src, store, index, arg, dig, snap, out, ret, committed, left>>

\* The loop ends: the digest is new, or listed and its file is missing.
PublishFresh(p) ==
    /\ Goto(p, "decide", "open")
    /\ ~Conflicts(snap[p], dig[p])
    /\ dig[p] \in Listed(snap[p]) => store[dig[p]] = Absent
    /\ UNCHANGED <<src, store, index, arg, dig, snap, out, ret, committed, left>>

\* copyFile: open the source, create or truncate the registry file.
PublishOpen(p) ==
    /\ Goto(p, "open", "copy")
    /\ store' = [store EXCEPT ![dig[p]] = Empty]
    /\ UNCHANGED <<src, index, arg, dig, snap, out, ret, committed, left>>

\* copyFile: io.Copy takes what the source holds now.  It moves the bytes in
\* several reads and writes, so a source rebuilt since Inspect, or a second
\* publisher inside the same registry file, may leave a mixture.
PublishCopy(p) ==
    /\ Goto(p, "copy", "truncate")
    /\ LET disturbed == \/ src[arg[p]] # dig[p]
                        \/ \E q \in Procs \ {p} : pc[q] = "copy" /\ dig[q] = dig[p]
       IN  \E c \in Overwrite(store[dig[p]], src[arg[p]])
                      \union (IF disturbed THEN {Garbled} ELSE {}) :
              store' = [store EXCEPT ![dig[p]] = c]
    /\ UNCHANGED <<src, index, arg, dig, snap, out, ret, committed, left>>

\* writeRegistryIndex: os.WriteFile opens index.json with O_TRUNC.
PublishTruncateIndex(p) ==
    /\ Goto(p, "truncate", "write")
    /\ index' = [status |-> "empty", entries |-> NoEntries]
    /\ UNCHANGED <<src, store, arg, dig, snap, out, ret, committed, left>>

\* writeRegistryIndex: the snapshot and the new entry are written at offset 0.
PublishWriteIndex(p) ==
    /\ Goto(p, "write", "return")
    /\ LET mine == [status |-> "ok", entries |-> With(snap[p], dig[p])]
           torn == [status |-> "garbled", entries |-> NoEntries]
       IN  index' \in {mine} \union (IF index.status = "empty" THEN {} ELSE {torn})
    /\ committed' = committed \union {dig[p]}
    /\ UNCHANGED <<src, store, arg, dig, snap, out, ret, left>>

PublishReturn(p) ==
    /\ pc[p] = "return"
    /\ Return(p, Result("publish", "ok", arg[p], dig[p]))
    /\ UNCHANGED <<src, store, index, arg, dig, snap, out, committed, left>>

-----------------------------------------------------------------------------
\* PullArtifact.  ResolveRegistryEntry, ResolveRegistryReference and
\* ListRegistryEntries are its first two calls.

PullStart(p, r) ==
    /\ Begin(p, r)
    /\ Goto(p, "idle", "lookup")
    /\ ret' = [ret EXCEPT ![p] = None]
    /\ UNCHANGED <<src, store, index, dig, snap, out, committed>>

PullLoad(p) == Goto(p, "lookup", "find") /\ LoadIndex(p)
PullLoadFails(p) == pc[p] = "lookup" /\ LoadFails(p, "pull")

\* Mutant: a name is looked up by skill alone, so any version will do.
PullFind_AnyVersion(p) ==
    /\ Goto(p, "find", "inspect")
    /\ \E d \in Listed(snap[p]) : /\ Matches(arg[p], d) \/ arg[p] \in Id
                                  /\ dig' = [dig EXCEPT ![p] = d]
    /\ UNCHANGED <<src, store, index, arg, snap, out, ret, committed, left>>

\* findRegistryEntry: an entry that matches, and its path.
PullFind(p) ==
    /\ Goto(p, "find", "inspect")
    /\ \E d \in Listed(snap[p]) : /\ Matches(arg[p], d)
                                  /\ dig' = [dig EXCEPT ![p] = d]
    /\ UNCHANGED <<src, store, index, arg, snap, out, ret, committed, left>>

PullNotFound(p) ==
    /\ pc[p] = "find"
    /\ \A d \in Listed(snap[p]) : ~Matches(arg[p], d)
    /\ Return(p, Result("pull", "NotFound", arg[p], Absent))
    /\ UNCHANGED <<src, store, index, arg, dig, snap, out, committed, left>>

\* Mutant: the stored file is read and not verified.
PullInspect_Unverified(p) ==
    /\ Goto(p, "inspect", "create")
    /\ store[dig[p]] # Absent
    /\ ret' = [ret EXCEPT ![p] = Result("pull", "none", arg[p], store[dig[p]])]
    /\ UNCHANGED <<src, store, index, arg, dig, snap, out, committed, left>>

\* InspectArtifact on the registry file.  The summary it returns carries the
\* digest of the bytes just read; dig remembers the entry, ret the summary.
PullInspect(p) ==
    /\ Goto(p, "inspect", "create")
    /\ store[dig[p]] \in Digest
    /\ ret' = [ret EXCEPT ![p] = Result("pull", "none", arg[p], store[dig[p]])]
    /\ UNCHANGED <<src, store, index, arg, dig, snap, out, committed, left>>

PullCorrupt(p) ==
    /\ pc[p] = "inspect"
    /\ store[dig[p]] \in {Empty, Garbled}
    /\ Return(p, Result("pull", "InvalidInput", arg[p], Absent))
    /\ UNCHANGED <<src, store, index, arg, dig, snap, out, committed, left>>

\* copyFile: open the registry file, create or truncate the output.
PullCreate(p) ==
    /\ Goto(p, "create", "fill")
    /\ store[dig[p]] # Absent
    /\ out' = [out EXCEPT ![p] = Empty]
    /\ UNCHANGED <<src, store, index, arg, dig, snap, ret, committed, left>>

\* InspectArtifact and copyFile both fail to open a file that is missing.
PullMissing(p) ==
    /\ pc[p] \in {"inspect", "create"}
    /\ store[dig[p]] = Absent
    /\ Return(p, Result("pull", "NotFound", arg[p], Absent))
    /\ UNCHANGED <<src, store, index, arg, dig, snap, out, committed, left>>

\* copyFile: io.Copy takes what the registry file holds now, or a mixture when
\* the file was rewritten meanwhile; then PullArtifact returns the summary it
\* computed before the copy.
PullFill(p) ==
    /\ pc[p] = "fill"
    /\ \E c \in {store[dig[p]]} \union
                (IF store[dig[p]] = ret[p].digest THEN {} ELSE {Garbled}) :
          out' = [out EXCEPT ![p] = c]
    /\ Return(p, [ret[p] EXCEPT !.status = "ok"])
    /\ UNCHANGED <<src, store, index, arg, dig, snap, committed, left>>

-----------------------------------------------------------------------------
\* The world around the processes.

\* The process is killed, or a read, write or copy returns an error: the
\* operation ends where it stands and leaves the files as they are.
Abort(p) ==
    /\ pc[p] # "idle"
    /\ Spend("aborts")
    /\ Return(p, Result("abort", "aborted", Absent, Absent))
    /\ UNCHANGED <<src, store, index, arg, dig, snap, out, committed>>

\* A stored artifact disappears, the case PublishArtifact's os.Stat is for.
\* It is done by hand, between commands that work on that file.
Remove(d) ==
    /\ store[d] # Absent
    /\ \A p \in Procs : dig[p] = d => pc[p] \notin {"copy", "fill"}
    /\ Spend("removals")
    /\ store' = [store EXCEPT ![d] = Absent]
    /\ UNCHANGED <<src, index, pc, arg, dig, snap, out, ret, committed>>

\* `agenix build -o` over a source file: os.WriteFile truncates, then writes.
RebuildTruncate(s) ==
    /\ src[s] # Empty
    /\ Spend("rebuilds")
    /\ src' = [src EXCEPT ![s] = Empty]
    /\ UNCHANGED <<store, index, pc, arg, dig, snap, out, ret, committed>>

RebuildWrite(s, d) ==
    /\ src[s] = Empty
    /\ src' = [src EXCEPT ![s] = d]
    /\ UNCHANGED <<store, index, pc, arg, dig, snap, out, ret, committed, left>>

Publish(p) ==
    \/ \E s \in Source : PublishInspect(p, s) \/ PublishUnreadable(p, s)
    \/ PublishLoad(p) \/ PublishLoadFails(p)
    \/ PublishConflict(p) \/ PublishExisting(p) \/ PublishFresh(p)
    \/ PublishOpen(p) \/ PublishCopy(p)
    \/ PublishTruncateIndex(p) \/ PublishWriteIndex(p)
    \/ PublishReturn(p)

Pull(p) ==
    \/ \E r \in Refs : PullStart(p, r)
    \/ PullLoad(p) \/ PullLoadFails(p)
    \/ PullFind(p) \/ PullNotFound(p)
    \/ PullInspect(p) \/ PullCorrupt(p)
    \/ PullCreate(p) \/ PullFill(p) \/ PullMissing(p)

Next ==
    \/ \E p \in Publishers : Publish(p)
    \/ \E p \in Readers : Pull(p)
    \/ \E p \in Procs : Abort(p)
    \/ \E d \in Digest : Remove(d)
    \/ \E s \in Source : RebuildTruncate(s)
    \/ \E s \in Source, d \in Digest : RebuildWrite(s, d)

Spec == Init /\ [][Next]_vars

-----------------------------------------------------------------------------
(* The type invariant: what every file, program counter and local can hold. *)
TypeOK ==
    /\ src \in [Source -> Content]
    /\ store \in [Digest -> OnDisk]
    /\ index \in [status : IndexStatus, entries : [Digest -> Nat]]
    /\ pc \in [Procs -> {"idle"} \union PublishPcs \union PullPcs]
    /\ \A p \in Publishers : pc[p] \in {"idle"} \union PublishPcs
    /\ \A p \in Readers : pc[p] \in {"idle"} \union PullPcs
    /\ arg \in [Procs -> Source \union Refs \union {Absent}]
    /\ \A p \in Procs : pc[p] \in PublishPcs => arg[p] \in Source
    /\ dig \in [Procs -> Digest \union {Absent}]
    /\ \A p \in Procs : pc[p] \in PublishPcs \union {"inspect", "create", "fill"}
                            => dig[p] \in Digest
    /\ snap \in [Procs -> [Digest -> Nat]]
    /\ out \in [Readers -> OnDisk]
    /\ ret \in [Procs -> Results]
    /\ \A p \in Procs : pc[p] \in {"create", "fill"} => ret[p].digest \in Digest
    /\ committed \subseteq Digest
    /\ left \in [Bounds -> Nat]

Deterministic(entries) ==
    \A d, e \in Listed(entries) : IdOf[d] = IdOf[e] => d = e

(* However many publishers interleave, crash or overwrite each other's      *)
(* index, an index.json that decodes binds each skill@version to at most    *)
(* one digest, so findRegistryEntry's first match is the only one.          *)
IndexDeterministic == Decodes(index) => Deterministic(index.entries)

(* An entry is only ever written after copyFile created its file: until a   *)
(* stored file is removed by hand, every listed digest has one.             *)
ListedWasStored ==
    left["removals"] = MaxRemovals
        => \A d \in Listed(index.entries) : store[d] # Absent

(* A digest whose publish wrote the index stays listed in every index that  *)
(* decodes: no later publish drops it.                                      *)
CommittedStaysListed ==
    Decodes(index) => committed \subseteq Listed(index.entries)

(* Publishing a different digest for a published skill@version is rejected: *)
(* the publishes that went through never name two digests for one id.       *)
CommittedDeterministic ==
    \A d, e \in committed : IdOf[d] = IdOf[e] => d = e

(* Once its publish wrote the index, the registry file of a digest holds    *)
(* exactly the bytes of that digest.                                        *)
CommittedIsComplete == \A d \in committed : store[d] = d

(* A pull that returns success left an output file whose bytes have the     *)
(* digest it reports, and that digest is the one asked for.                 *)
PullDelivers ==
    \A p \in Readers : ret[p].op = "pull" /\ ret[p].status = "ok"
        => out[p] = ret[p].digest /\ Matches(ret[p].ref, ret[p].digest)
=============================================================================
