--------------------------- MODULE RegistryProofs ---------------------------
(***************************************************************************)
(* Proofs about Registry for any number of processes, digests, names and   *)
(* sources, and any value of the bounds.                                   *)
(***************************************************************************)
EXTENDS RegistryRefinement, TLAPS

-----------------------------------------------------------------------------
(* Type correctness.                                                        *)

(* The empty index carries no digest, and adding an entry to a typed index  *)
(* gives a typed index that lists one more digest.                          *)
LEMMA EntriesType ==
    /\ NoEntries \in [Digest -> Nat]
    /\ Listed(NoEntries) = {}
    /\ \A entries \in [Digest -> Nat], d \in Digest :
          /\ With(entries, d) \in [Digest -> Nat]
          /\ Listed(With(entries, d)) = Listed(entries) \union {d}
  BY DEF NoEntries, With, Listed

(* Results are typed records that give back the digest they were made with. *)
LEMMA ResultType ==
    /\ None \in Results
    /\ \A op \in {"none", "publish", "pull", "abort"}, status \in Statuses,
          ref \in Source \union Refs \union {Absent}, d \in Digest \union {Absent} :
             /\ Result(op, status, ref, d) \in Results
             /\ Result(op, status, ref, d).digest = d
    /\ \A r \in Results : [r EXCEPT !.status = "ok"] \in Results
  BY DEF None, Result, Results, Statuses

(* Every file, program counter and local keeps its type in the initial      *)
(* state and through every step of every process.                           *)
LEMMA TypeInit == Init => TypeOK
  BY RegistryAssumption, EntriesType, ResultType
     DEF Init, TypeOK, IndexStatus, Bounds, Content, OnDisk, Procs, Refs,
         PublishPcs, PullPcs

LEMMA TypeStep == TypeOK /\ [Next]_vars => TypeOK'
<1> SUFFICES ASSUME TypeOK, [Next]_vars PROVE TypeOK'
    OBVIOUS
<1> USE RegistryAssumption, ResultType
    DEF TypeOK, IndexStatus, Statuses, Bounds, Content, OnDisk, Procs, Refs, PublishPcs, PullPcs
<1>1. ASSUME NEW p \in Publishers, Publish(p) PROVE TypeOK'
  <2>1. ASSUME NEW s \in Source, PublishInspect(p, s) PROVE TypeOK'
    <3>1. left' \in [Bounds -> Nat]
      BY <2>1 DEF PublishInspect, Begin, Spend
    <3>2. QED
      <4>1. /\ pc' = [pc EXCEPT ![p] = "load"]
            /\ arg' = [arg EXCEPT ![p] = s]
            /\ dig' = [dig EXCEPT ![p] = src[s]]
            /\ ret' = [ret EXCEPT ![p] = None]
            /\ src[s] \in Digest
            /\ UNCHANGED <<src, store, index, snap, out, committed>>
        BY <2>1 DEF PublishInspect, Begin, Goto
      <4>. QED
        BY <3>1, <4>1, SMTT(30)
  <2>2. ASSUME NEW s \in Source, PublishUnreadable(p, s) PROVE TypeOK'
    <3>1. Result("publish", "InvalidInput", s, Absent) \in Results
      OBVIOUS
    <3>. QED
      BY <2>2, <3>1 DEF PublishUnreadable, Begin, Spend, Return
  <2>3. CASE PublishLoad(p)
    BY <2>3 DEF PublishLoad, LoadIndex, Goto
  <2>4. CASE PublishLoadFails(p)
    <3>1. Result("publish", "InvalidInput", arg[p], Absent) \in Results
      OBVIOUS
    <3>. QED
      BY <2>4, <3>1 DEF PublishLoadFails, LoadFails, Return
  <2>5. CASE PublishConflict(p)
    BY <2>5 DEF PublishConflict, Return
  <2>6. CASE PublishExisting(p)
    BY <2>6 DEF PublishExisting, Return
  <2>7. CASE PublishFresh(p)
    BY <2>7 DEF PublishFresh, Goto
  <2>8. CASE PublishOpen(p)
    BY <2>8 DEF PublishOpen, Goto
  <2>9. CASE PublishCopy(p)
    <3>1. PICK c : store' = [store EXCEPT ![dig[p]] = c]
                   /\ c \in {src[arg[p]], Garbled}
      BY <2>9 DEF PublishCopy, Overwrite
    <3>2. src[arg[p]] \in Content
      BY <2>9 DEF PublishCopy, Goto
    <3>3. store' \in [Digest -> OnDisk]
      BY <3>1, <3>2
    <3>. QED
      BY <2>9, <3>3 DEF PublishCopy, Goto
  <2>10. CASE PublishTruncateIndex(p)
    BY <2>10, EntriesType DEF PublishTruncateIndex, Goto
  <2>11. CASE PublishWriteIndex(p)
    <3>1. With(snap[p], dig[p]) \in [Digest -> Nat]
      BY <2>11, EntriesType DEF PublishWriteIndex, Goto
    <3>2. index' \in [status : IndexStatus, entries : [Digest -> Nat]]
      BY <2>11, <3>1, EntriesType DEF PublishWriteIndex, Goto
    <3>. QED
      BY <2>11, <3>2, SMTT(30) DEF PublishWriteIndex, Goto
  <2>12. CASE PublishReturn(p)
    BY <2>12 DEF PublishReturn, Return
  <2>. QED
    BY <1>1, <2>1, <2>2, <2>3, <2>4, <2>5, <2>6, <2>7, <2>8, <2>9, <2>10, <2>11, <2>12
       DEF Publish
<1>2. ASSUME NEW p \in Readers, Pull(p) PROVE TypeOK'
  <2>1. ASSUME NEW r \in Refs, PullStart(p, r) PROVE TypeOK'
    BY <2>1 DEF PullStart, Begin, Spend, Goto
  <2>2. CASE PullLoad(p)
    BY <2>2 DEF PullLoad, LoadIndex, Goto
  <2>3. CASE PullLoadFails(p)
    <3>1. Result("pull", "InvalidInput", arg[p], Absent) \in Results
      OBVIOUS
    <3>. QED
      BY <2>3, <3>1 DEF PullLoadFails, LoadFails, Return
  <2>4. CASE PullFind(p)
    BY <2>4 DEF PullFind, Goto, Listed
  <2>5. CASE PullNotFound(p)
    BY <2>5 DEF PullNotFound, Return
  <2>6. CASE PullInspect(p)
    <3>1. /\ Result("pull", "none", arg[p], store[dig[p]]) \in Results
          /\ Result("pull", "none", arg[p], store[dig[p]]).digest \in Digest
      <4>1. arg[p] \in Source \union Refs \union {Absent} /\ "none" \in Statuses
        OBVIOUS
      <4>. QED
        BY <2>6, <4>1, SMTT(30) DEF PullInspect
    <3>. QED
      BY <2>6, <3>1 DEF PullInspect, Goto
  <2>7. CASE PullCorrupt(p)
    BY <2>7 DEF PullCorrupt, Return
  <2>8. CASE PullCreate(p)
    BY <2>8 DEF PullCreate, Goto
  <2>9. CASE PullFill(p)
    <3>1. out' \in [Readers -> OnDisk]
      BY <2>9 DEF PullFill
    <3>2. [ret[p] EXCEPT !.status = "ok"] \in Results
      OBVIOUS
    <3>. QED
      BY <2>9, <3>1, <3>2 DEF PullFill, Return
  <2>10. CASE PullMissing(p)
    <3>1. Result("pull", "NotFound", arg[p], Absent) \in Results
      OBVIOUS
    <3>. QED
      BY <2>10, <3>1 DEF PullMissing, Return
  <2>. QED
    BY <1>2, <2>1, <2>2, <2>3, <2>4, <2>5, <2>6, <2>7, <2>8, <2>9, <2>10 DEF Pull
<1>3. ASSUME NEW p \in Procs, Abort(p) PROVE TypeOK'
  <2>1. Result("abort", "aborted", Absent, Absent) \in Results
    OBVIOUS
  <2>. QED
    BY <1>3, <2>1 DEF Abort, Spend, Return
<1>4. ASSUME NEW d \in Digest, Remove(d) PROVE TypeOK'
  BY <1>4 DEF Remove, Spend
<1>5. ASSUME NEW s \in Source, RebuildTruncate(s) PROVE TypeOK'
  BY <1>5 DEF RebuildTruncate, Spend
<1>6. ASSUME NEW s \in Source, NEW d \in Digest, RebuildWrite(s, d) PROVE TypeOK'
  BY <1>6 DEF RebuildWrite
<1>7. CASE UNCHANGED vars
  BY <1>7 DEF vars
<1>. QED
  BY <1>1, <1>2, <1>3, <1>4, <1>5, <1>6, <1>7 DEF Next

THEOREM TypeCorrect == Spec => []TypeOK
  BY TypeInit, TypeStep, PTL DEF Spec

(* A reader changes nothing a publisher works with, and no file but its own *)
(* output; its snapshot becomes the current index or stays.                 *)
LEMMA ReaderStep ==
    ASSUME TypeOK, NEW p \in Readers, Pull(p)
    PROVE  /\ UNCHANGED <<src, store, index, committed>>
           /\ \A q \in Publishers : pc'[q] = pc[q] /\ dig'[q] = dig[q] /\ snap'[q] = snap[q]
           /\ \A q \in Procs : snap'[q] \in {snap[q], index.entries}
           /\ left'["removals"] = left["removals"]
<1> USE DEF PullStart, PullLoad, PullLoadFails, PullFind, PullNotFound, PullInspect,
        PullCorrupt, PullCreate, PullFill, PullMissing, LoadIndex, LoadFails
<1>1. /\ p \in Procs /\ Publishers \subseteq Procs /\ p \notin Publishers
      /\ DOMAIN pc = Procs /\ DOMAIN snap = Procs
      /\ dig \in [Procs -> Digest \union {Absent}]
      /\ left \in [Bounds -> Nat]
  BY RegistryAssumption DEF TypeOK, Procs
<1>2. /\ UNCHANGED <<src, store, index, committed>>
      /\ snap' \in {snap, [snap EXCEPT ![p] = index.entries]}
  BY Pull(p) DEF Pull
<1>3. pc' = [pc EXCEPT ![p] = pc'[p]]
  BY Pull(p), <1>1 DEF Pull, Goto, Return
<1>4. dig' = [dig EXCEPT ![p] = dig'[p]]
  BY Pull(p), <1>1 DEF Pull
<1>5. left'["removals"] = left["removals"]
  BY Pull(p), <1>1 DEF Pull, Begin, Spend, Bounds
<1>. QED
  BY <1>1, <1>2, <1>3, <1>4, <1>5

-----------------------------------------------------------------------------
(* Determinism of the index under any interleaving.                         *)

(* IndexDeterministic is not inductive: the index a publisher writes is its *)
(* own snapshot, so the snapshots must be deterministic too, and from the   *)
(* end of the conflict loop to the write the snapshot must stay free of a   *)
(* rival for the digest in hand.                                            *)
Clear(p) == pc[p] \in {"open", "copy", "truncate", "write"} => ~Conflicts(snap[p], dig[p])

DeterminismInv ==
    /\ Deterministic(index.entries)
    /\ \A p \in Procs : Deterministic(snap[p])
    /\ \A p \in Publishers : Clear(p)

(* Adding a digest to a deterministic index in which its name is free, or   *)
(* taken by itself, keeps the index deterministic.                          *)
LEMMA WithDeterministic ==
    ASSUME NEW entries \in [Digest -> Nat], NEW d \in Digest,
           Deterministic(entries), ~Conflicts(entries, d)
    PROVE  Deterministic(With(entries, d))
  BY EntriesType DEF Deterministic, Conflicts

LEMMA DeterminismInit == Init => DeterminismInv
  BY EntriesType DEF Init, DeterminismInv, Deterministic, Clear, Procs

LEMMA DeterminismStep == TypeOK /\ DeterminismInv /\ [Next]_vars => DeterminismInv'
<1> SUFFICES ASSUME TypeOK, DeterminismInv, [Next]_vars PROVE DeterminismInv'
    OBVIOUS
<1>a. /\ \A p \in Procs : snap[p] \in [Digest -> Nat]
      /\ pc \in [Procs -> {"idle"} \union PublishPcs \union PullPcs]
      /\ DOMAIN snap = Procs
      /\ DOMAIN dig = Procs
      /\ Publishers \subseteq Procs /\ Readers \subseteq Procs
      /\ Publishers \intersect Readers = {}
  BY RegistryAssumption DEF TypeOK, Procs
<1>1. ASSUME NEW p \in Publishers, Publish(p) PROVE DeterminismInv'
  <2>1. ASSUME NEW s \in Source, PublishInspect(p, s) PROVE DeterminismInv'
    BY <1>a, <2>1 DEF DeterminismInv, Clear, PublishInspect, Goto
  <2>2. ASSUME NEW s \in Source, PublishUnreadable(p, s) PROVE DeterminismInv'
    BY <1>a, <2>2 DEF DeterminismInv, Clear, PublishUnreadable, Return
  <2>3. CASE PublishLoad(p)
    BY <1>a, <2>3 DEF DeterminismInv, Clear, PublishLoad, LoadIndex, Goto
  <2>4. CASE PublishLoadFails(p)
    BY <1>a, <2>4 DEF DeterminismInv, Clear, PublishLoadFails, LoadFails, Return
  <2>5. CASE PublishConflict(p)
    BY <1>a, <2>5 DEF DeterminismInv, Clear, PublishConflict, Return
  <2>6. CASE PublishExisting(p)
    BY <1>a, <2>6 DEF DeterminismInv, Clear, PublishExisting, Return
  <2>7. CASE PublishFresh(p)
    BY <1>a, <2>7 DEF DeterminismInv, Clear, PublishFresh, Goto
  <2>8. CASE PublishOpen(p)
    BY <1>a, <2>8 DEF DeterminismInv, Clear, PublishOpen, Goto
  <2>9. CASE PublishCopy(p)
    BY <1>a, <2>9 DEF DeterminismInv, Clear, PublishCopy, Goto
  <2>10. CASE PublishTruncateIndex(p)
    <3>1. Deterministic(index'.entries)
      BY <2>10, EntriesType DEF PublishTruncateIndex, Deterministic
    <3>. QED
      BY <1>a, <2>10, <3>1 DEF DeterminismInv, Clear, PublishTruncateIndex, Goto
  <2>11. CASE PublishWriteIndex(p)
    <3>1. /\ dig[p] \in Digest
          /\ ~Conflicts(snap[p], dig[p])
          /\ Deterministic(snap[p])
      BY <1>a, <2>11 DEF PublishWriteIndex, Goto, DeterminismInv, Clear, TypeOK, PublishPcs
    <3>2. Deterministic(With(snap[p], dig[p])) /\ Deterministic(NoEntries)
      BY <1>a, <3>1, WithDeterministic, EntriesType DEF Deterministic
    <3>3. Deterministic(index'.entries)
      <4>1. index'.entries \in {With(snap[p], dig[p]), NoEntries}
        BY <2>11 DEF PublishWriteIndex
      <4>. QED
        BY <3>2, <4>1
    <3>. QED
      BY <1>a, <2>11, <3>3 DEF DeterminismInv, Clear, PublishWriteIndex, Goto
  <2>12. CASE PublishReturn(p)
    BY <1>a, <2>12 DEF DeterminismInv, Clear, PublishReturn, Return
  <2>. QED
    BY <1>1, <2>1, <2>2, <2>3, <2>4, <2>5, <2>6, <2>7, <2>8, <2>9, <2>10, <2>11, <2>12
       DEF Publish
<1>2. ASSUME NEW p \in Readers, Pull(p) PROVE DeterminismInv'
  <2>1. /\ UNCHANGED index
        /\ \A q \in Publishers : pc'[q] = pc[q] /\ dig'[q] = dig[q] /\ snap'[q] = snap[q]
        /\ \A q \in Procs : snap'[q] \in {snap[q], index.entries}
    BY <1>2, ReaderStep
  <2>. QED
    BY <2>1 DEF DeterminismInv, Clear
<1>3. ASSUME NEW p \in Procs, Abort(p) PROVE DeterminismInv'
  BY <1>a, <1>3 DEF DeterminismInv, Clear, Abort, Return
<1>4. CASE UNCHANGED <<index, snap, pc, dig>>
  BY <1>4 DEF DeterminismInv, Clear
<1>. QED
  BY <1>1, <1>2, <1>3, <1>4 DEF Next, Remove, RebuildTruncate, RebuildWrite, vars

(* However publishers interleave, crash, or overwrite each other's index,   *)
(* an index.json that decodes binds each skill@version to one digest.       *)
THEOREM DeterministicIndex == Spec => []IndexDeterministic
<1>1. DeterminismInv => IndexDeterministic
  BY DEF DeterminismInv, IndexDeterministic
<1>. QED
  BY TypeInit, TypeStep, DeterminismInit, DeterminismStep, <1>1, PTL DEF Spec

-----------------------------------------------------------------------------
(* Stored files under any interleaving.                                     *)

(* An index entry comes from a snapshot plus the digest just copied, so the *)
(* snapshots and the publishers past copyFile's open must satisfy the       *)
(* property as well.  A removal is counted off MaxRemovals for good, which   *)
(* tells the states before the first one.                                   *)
StoredInv ==
    /\ left["removals"] <= MaxRemovals
    /\ left["removals"] = MaxRemovals =>
          /\ \A d \in Listed(index.entries) : store[d] # Absent
          /\ \A p \in Procs : \A d \in Listed(snap[p]) : store[d] # Absent
          /\ \A p \in Publishers : pc[p] \in {"copy", "truncate", "write"}
                                      => store[dig[p]] # Absent

LEMMA StoredInit == Init => StoredInv
  BY RegistryAssumption, EntriesType DEF Init, StoredInv, Bounds, Procs

LEMMA StoredStep == TypeOK /\ StoredInv /\ [Next]_vars => StoredInv'
<1> SUFFICES ASSUME TypeOK, StoredInv, [Next]_vars PROVE StoredInv'
    OBVIOUS
<1>a. /\ \A p \in Procs : snap[p] \in [Digest -> Nat]
      /\ pc \in [Procs -> {"idle"} \union PublishPcs \union PullPcs]
      /\ DOMAIN snap = Procs
      /\ DOMAIN dig = Procs
      /\ Publishers \subseteq Procs /\ Readers \subseteq Procs
      /\ Publishers \intersect Readers = {}
      /\ \A p \in Publishers : pc[p] \in PublishPcs => dig[p] \in Digest
  BY RegistryAssumption DEF TypeOK, Procs
<1>b. /\ store \in [Digest -> OnDisk]
      /\ src \in [Source -> Content]
      /\ Absent \notin Content
      /\ left \in [Bounds -> Nat] /\ MaxRemovals \in Nat
  BY RegistryAssumption DEF TypeOK, Content, Refs
<1>1. ASSUME NEW p \in Publishers, Publish(p) PROVE StoredInv'
  <2>1. ASSUME NEW s \in Source, PublishInspect(p, s) PROVE StoredInv'
    BY <1>a, <1>b, <2>1 DEF StoredInv, PublishInspect, Begin, Spend, Bounds, Goto
  <2>2. ASSUME NEW s \in Source, PublishUnreadable(p, s) PROVE StoredInv'
    BY <1>a, <1>b, <2>2 DEF StoredInv, PublishUnreadable, Begin, Spend, Bounds, Return
  <2>3. CASE PublishLoad(p)
    BY <1>a, <2>3 DEF StoredInv, PublishLoad, LoadIndex, Goto
  <2>4. CASE PublishLoadFails(p)
    BY <1>a, <2>4 DEF StoredInv, PublishLoadFails, LoadFails, Return
  <2>5. CASE PublishConflict(p)
    BY <1>a, <2>5 DEF StoredInv, PublishConflict, Return
  <2>6. CASE PublishExisting(p)
    BY <1>a, <2>6 DEF StoredInv, PublishExisting, Return
  <2>7. CASE PublishFresh(p)
    BY <1>a, <2>7 DEF StoredInv, PublishFresh, Goto
  <2>8. CASE PublishOpen(p)
    <3>1. /\ dig[p] \in Digest
          /\ store' = [store EXCEPT ![dig[p]] = Empty]
          /\ Empty # Absent
      BY <1>a, <2>8, RegistryAssumption DEF PublishOpen, Goto, PublishPcs
    <3>2. /\ store'[dig[p]] # Absent
          /\ \A d \in Digest : store[d] # Absent => store'[d] # Absent
      BY <1>b, <3>1
    <3>3. \A q \in Publishers : pc[q] \in PublishPcs => dig[q] \in Digest
      BY <1>a
    <3>. QED
      BY <1>a, <2>8, <3>2, <3>3 DEF StoredInv, PublishOpen, Goto, Listed, PublishPcs
  <2>9. CASE PublishCopy(p)
    <3>1. PICK c : store' = [store EXCEPT ![dig[p]] = c]
                   /\ c \in {src[arg[p]], Garbled}
      BY <2>9 DEF PublishCopy, Overwrite
    <3>2. c # Absent
      BY <1>b, <2>9, <3>1, RegistryAssumption DEF PublishCopy, Goto, TypeOK, PublishPcs, Procs
    <3>3. \A d \in Digest : store[d] # Absent => store'[d] # Absent
      BY <1>b, <3>1, <3>2
    <3>4. store'[dig[p]] # Absent
      BY <1>a, <1>b, <2>9, <3>1, <3>2 DEF PublishCopy, Goto, PublishPcs
    <3>. QED
      BY <1>a, <2>9, <3>3, <3>4 DEF StoredInv, PublishCopy, Goto, Listed, PublishPcs
  <2>10. CASE PublishTruncateIndex(p)
    BY <1>a, <2>10, EntriesType DEF StoredInv, PublishTruncateIndex, Goto
  <2>11. CASE PublishWriteIndex(p)
    <3>1. dig[p] \in Digest /\ snap[p] \in [Digest -> Nat]
      BY <1>a, <2>11 DEF PublishWriteIndex, Goto, PublishPcs
    <3>2. Listed(index'.entries) \subseteq Listed(snap[p]) \union {dig[p]}
      <4>1. index'.entries \in {With(snap[p], dig[p]), NoEntries}
        BY <2>11 DEF PublishWriteIndex
      <4>. QED
        BY <3>1, <4>1, EntriesType
    <3>. QED
      BY <1>a, <2>11, <3>2 DEF StoredInv, PublishWriteIndex, Goto
  <2>12. CASE PublishReturn(p)
    BY <1>a, <2>12 DEF StoredInv, PublishReturn, Return
  <2>. QED
    BY <1>1, <2>1, <2>2, <2>3, <2>4, <2>5, <2>6, <2>7, <2>8, <2>9, <2>10, <2>11, <2>12
       DEF Publish
<1>2. ASSUME NEW p \in Readers, Pull(p) PROVE StoredInv'
  <2>1. \A q \in Publishers : pc'[q] = pc[q] /\ dig'[q] = dig[q]
    BY <1>2, ReaderStep
  <2>2. /\ UNCHANGED <<index, store>>
        /\ \A q \in Procs : snap'[q] \in {snap[q], index.entries}
        /\ left'["removals"] = left["removals"]
    BY <1>2, ReaderStep
  <2>. QED
    BY <2>1, <2>2 DEF StoredInv
<1>3. ASSUME NEW p \in Procs, Abort(p) PROVE StoredInv'
  BY <1>a, <1>b, <1>3 DEF StoredInv, Abort, Return, Spend, Bounds
<1>4. ASSUME NEW d \in Digest, Remove(d) PROVE StoredInv'
  BY <1>b, <1>4 DEF StoredInv, Remove, Spend, Bounds
<1>5. ASSUME NEW s \in Source, RebuildTruncate(s) PROVE StoredInv'
  BY <1>b, <1>5 DEF StoredInv, RebuildTruncate, Spend, Bounds
<1>6. CASE UNCHANGED <<index, snap, pc, dig, store, left>>
  BY <1>6 DEF StoredInv
<1>. QED
  BY <1>1, <1>2, <1>3, <1>4, <1>5, <1>6 DEF Next, RebuildWrite, vars

(* Until somebody removes a stored file, every digest listed in index.json  *)
(* has a file: no interleaving or crash writes the entry before copyFile    *)
(* created the file.                                                        *)
THEOREM ListedFilesExist == Spec => []ListedWasStored
<1>1. StoredInv => ListedWasStored
  BY DEF StoredInv, ListedWasStored
<1>. QED
  BY TypeInit, TypeStep, StoredInit, StoredStep, <1>1, PTL DEF Spec

-----------------------------------------------------------------------------
(* One publisher at a time.                                                 *)

(* With a single publisher a snapshot cannot go stale: from the load to the *)
(* write it lists every committed digest, and the index it writes was       *)
(* truncated by itself.                                                     *)
OneWriterInv ==
    /\ CommittedStaysListed
    /\ CommittedDeterministic
    /\ \A p \in Publishers :
          /\ pc[p] \in {"decide", "open", "copy", "truncate", "write"}
                => committed \subseteq Listed(snap[p])
          /\ pc[p] = "write" => index.status = "empty"

OnePublisher == \A p, q \in Publishers : p = q

LEMMA OneWriterInit == Init => OneWriterInv
  BY DEF Init, OneWriterInv, CommittedStaysListed, CommittedDeterministic, Procs

LEMMA OneWriterStep ==
    ASSUME OnePublisher
    PROVE  TypeOK /\ DeterminismInv /\ OneWriterInv /\ [Next]_vars => OneWriterInv'
<1> SUFFICES ASSUME TypeOK, DeterminismInv, OneWriterInv, [Next]_vars PROVE OneWriterInv'
    OBVIOUS
<1> USE DEF OneWriterInv, CommittedStaysListed, CommittedDeterministic
<1>a. /\ \A p \in Procs : snap[p] \in [Digest -> Nat]
      /\ pc \in [Procs -> {"idle"} \union PublishPcs \union PullPcs]
      /\ DOMAIN snap = Procs
      /\ Publishers \subseteq Procs /\ Readers \subseteq Procs
  BY RegistryAssumption DEF TypeOK, Procs
<1>1. ASSUME NEW p \in Publishers, Publish(p) PROVE OneWriterInv'
  <2>0. Publishers = {p}
    BY OnePublisher DEF OnePublisher
  <2>1. ASSUME NEW s \in Source, PublishInspect(p, s) PROVE OneWriterInv'
    BY <1>a, <2>0, <2>1 DEF PublishInspect, Goto, Decodes
  <2>2. ASSUME NEW s \in Source, PublishUnreadable(p, s) PROVE OneWriterInv'
    BY <1>a, <2>0, <2>2 DEF PublishUnreadable, Return, Decodes
  <2>3. CASE PublishLoad(p)
    BY <1>a, <2>0, <2>3 DEF PublishLoad, LoadIndex, Goto, Decodes
  <2>4. CASE PublishLoadFails(p)
    BY <1>a, <2>0, <2>4 DEF PublishLoadFails, LoadFails, Return, Decodes
  <2>5. CASE PublishConflict(p)
    BY <1>a, <2>0, <2>5 DEF PublishConflict, Return, Decodes
  <2>6. CASE PublishExisting(p)
    BY <1>a, <2>0, <2>6 DEF PublishExisting, Return, Decodes
  <2>7. CASE PublishFresh(p)
    BY <1>a, <2>0, <2>7 DEF PublishFresh, Goto, Decodes
  <2>8. CASE PublishOpen(p)
    BY <1>a, <2>0, <2>8 DEF PublishOpen, Goto, Decodes
  <2>9. CASE PublishCopy(p)
    BY <1>a, <2>0, <2>9 DEF PublishCopy, Goto, Decodes
  <2>10. CASE PublishTruncateIndex(p)
    BY <1>a, <2>0, <2>10 DEF PublishTruncateIndex, Goto, Decodes
  <2>11. CASE PublishWriteIndex(p)
    <3>1. /\ dig[p] \in Digest
          /\ snap[p] \in [Digest -> Nat]
          /\ committed \subseteq Listed(snap[p])
          /\ ~Conflicts(snap[p], dig[p])
          /\ index.status = "empty"
      BY <1>a, <2>11 DEF PublishWriteIndex, Goto, TypeOK, PublishPcs, DeterminismInv, Clear
    <3>2. /\ index' = [status |-> "ok", entries |-> With(snap[p], dig[p])]
          /\ committed' = committed \union {dig[p]}
      BY <2>11, <3>1 DEF PublishWriteIndex
    <3>3. CommittedStaysListed'
      BY <3>1, <3>2, EntriesType
    <3>4. CommittedDeterministic'
      BY <3>1, <3>2 DEF Conflicts
    <3>. QED
      BY <1>a, <2>0, <2>11, <3>3, <3>4 DEF PublishWriteIndex, Goto
  <2>12. CASE PublishReturn(p)
    BY <1>a, <2>0, <2>12 DEF PublishReturn, Return, Decodes
  <2>. QED
    BY <1>1, <2>1, <2>2, <2>3, <2>4, <2>5, <2>6, <2>7, <2>8, <2>9, <2>10, <2>11, <2>12
       DEF Publish
<1>2. ASSUME NEW p \in Readers, Pull(p) PROVE OneWriterInv'
  <2>1. /\ UNCHANGED <<index, committed>>
        /\ \A q \in Publishers : pc'[q] = pc[q] /\ snap'[q] = snap[q]
    BY <1>2, ReaderStep
  <2>. QED
    BY <2>1 DEF Decodes
<1>3. ASSUME NEW p \in Procs, Abort(p) PROVE OneWriterInv'
  BY <1>a, <1>3 DEF Abort, Return, Decodes
<1>4. CASE UNCHANGED <<index, snap, pc, committed>>
  BY <1>4 DEF Decodes
<1>. QED
  BY <1>1, <1>2, <1>3, <1>4 DEF Next, Remove, RebuildTruncate, RebuildWrite, vars

LEMMA OneWriter ==
    ASSUME OnePublisher
    PROVE  Spec => [](TypeOK /\ OneWriterInv)
<1>1. TypeOK /\ DeterminismInv /\ OneWriterInv /\ [Next]_vars => OneWriterInv'
  BY OneWriterStep
<1>. QED
  BY TypeInit, TypeStep, DeterminismInit, DeterminismStep, OneWriterInit, <1>1, PTL DEF Spec

(* With one publisher at a time, whatever the readers do, whoever crashes   *)
(* and whatever happens to source and stored files, a committed digest      *)
(* stays listed in every index that decodes: no later publish, working from *)
(* the index it loaded, writes one without it.                              *)
THEOREM OneWriterKeepsPublished ==
    ASSUME OnePublisher
    PROVE  Spec => []CommittedStaysListed
<1>1. OneWriterInv => CommittedStaysListed
  BY DEF OneWriterInv
<1>. QED
  BY OneWriter, <1>1, PTL

(* Under the same conditions no two publishes commit different digests for  *)
(* one skill@version, however far apart they are: the second finds the      *)
(* first in the index and is rejected.                                      *)
THEOREM OneWriterCommitsOnce ==
    ASSUME OnePublisher
    PROVE  Spec => []CommittedDeterministic
<1>1. OneWriterInv => CommittedDeterministic
  BY DEF OneWriterInv
<1>. QED
  BY OneWriter, <1>1, PTL

-----------------------------------------------------------------------------
(* One publisher at a time, stored files left in place and sources not     *)
(* rebuilt: what a publish stored, what a pull delivers, and that the      *)
(* registry implements the atomic one.                                     *)

Undisturbed == MaxRemovals = 0 /\ MaxRebuilds = 0

(* A pull looks at the index, the stored file and the output at different   *)
(* times.  Neither property is inductive: every digest that an index or a   *)
(* snapshot lists must have been committed, and a publish must open only    *)
(* the file of a digest that is not, and fill it before it is listed.       *)
Storing(p) ==
    /\ pc[p] \in PublishPcs => SrcInit[arg[p]] = dig[p]
    /\ pc[p] \in {"open", "copy"} => dig[p] \notin committed
    /\ pc[p] = "copy" => store[dig[p]] = Empty
    /\ pc[p] \in {"truncate", "write"} => store[dig[p]] = dig[p]
    /\ pc[p] = "return" => dig[p] \in committed

Delivering(p) ==
    /\ pc[p] \in {"inspect", "create", "fill"} => dig[p] \in committed /\ Matches(arg[p], dig[p])
    /\ pc[p] \in {"create", "fill"} => ret[p] = Result("pull", "none", arg[p], dig[p])
    /\ ret[p].op = "pull" /\ ret[p].status = "ok"
          => out[p] = ret[p].digest /\ Matches(ret[p].ref, ret[p].digest)

DeliveryInv ==
    /\ left["removals"] = 0 /\ left["rebuilds"] = 0
    /\ src = SrcInit
    /\ CommittedIsComplete
    /\ Listed(index.entries) \subseteq committed
    /\ \A p \in Procs : Listed(snap[p]) \subseteq committed
    /\ \A p \in Publishers : Storing(p) /\ ret[p].op # "pull"
    /\ \A p \in Readers : Delivering(p)

LEMMA DeliveryInit == Undisturbed /\ Init => DeliveryInv
  BY EntriesType, RegistryAssumption
     DEF Undisturbed, Init, DeliveryInv, CommittedIsComplete, Storing, Delivering, Procs, Bounds,
         PublishPcs, None

(* A publisher leaves the readers and the bounds of the world alone, and    *)
(* never takes back what was committed.                                     *)
LEMMA PublisherStep ==
    ASSUME TypeOK, NEW p \in Publishers, Publish(p)
    PROVE  /\ UNCHANGED <<src, out>>
           /\ \A q \in Procs \ {p} : /\ pc'[q] = pc[q] /\ arg'[q] = arg[q] /\ dig'[q] = dig[q]
                                     /\ snap'[q] = snap[q] /\ ret'[q] = ret[q]
           /\ ret'[p] = ret[p] \/ ret'[p].op # "pull"
           /\ committed \subseteq committed'
           /\ \A b \in {"removals", "rebuilds"} : left'[b] = left[b]
<1> USE DEF PublishInspect, PublishUnreadable, PublishLoad, PublishLoadFails, PublishConflict,
        PublishExisting, PublishFresh, PublishOpen, PublishCopy, PublishTruncateIndex,
        PublishWriteIndex, PublishReturn, LoadIndex, LoadFails
<1>1. /\ p \in Procs
      /\ DOMAIN pc = Procs
      /\ arg \in [Procs -> Source \union Refs \union {Absent}]
      /\ dig \in [Procs -> Digest \union {Absent}]
      /\ snap \in [Procs -> [Digest -> Nat]]
      /\ ret \in [Procs -> Results]
      /\ left \in [Bounds -> Nat]
  BY DEF TypeOK, Procs
<1>2. UNCHANGED <<src, out>> /\ committed \subseteq committed'
  BY Publish(p) DEF Publish
<1>3. /\ pc' = [pc EXCEPT ![p] = pc'[p]]
      /\ arg' = [arg EXCEPT ![p] = arg'[p]]
  <2>1. pc' = [pc EXCEPT ![p] = pc'[p]]
    BY Publish(p), <1>1 DEF Publish, Goto, Return
  <2>2. arg' = [arg EXCEPT ![p] = arg'[p]]
    BY Publish(p), <1>1 DEF Publish, Begin
  <2>. QED
    BY <2>1, <2>2
<1>4. /\ dig' = [dig EXCEPT ![p] = dig'[p]]
      /\ snap' = [snap EXCEPT ![p] = snap'[p]]
      /\ ret' = [ret EXCEPT ![p] = ret'[p]]
  <2>1. dig' = [dig EXCEPT ![p] = dig'[p]]
    BY Publish(p), <1>1 DEF Publish
  <2>2. snap' = [snap EXCEPT ![p] = snap'[p]]
    BY Publish(p), <1>1 DEF Publish
  <2>3. ret' = [ret EXCEPT ![p] = ret'[p]]
    <3>1. ret' = ret \/ \E r : ret' = [ret EXCEPT ![p] = r]
      BY Publish(p) DEF Publish, Return
    <3>. QED
      BY <1>1, <3>1
  <2>. QED
    BY <2>1, <2>2, <2>3
<1>5. \A b \in {"removals", "rebuilds"} : left'[b] = left[b]
  BY Publish(p), <1>1 DEF Publish, Begin, Spend, Bounds
<1>6. ret'[p] = ret[p] \/ ret'[p].op # "pull"
  BY Publish(p), <1>1 DEF Publish, Return, Result, None
<1>. QED
  BY <1>1, <1>2, <1>3, <1>4, <1>5, <1>6

(* The files, the index and the snapshot of the one publisher, step by step.*)
LEMMA StoringStep ==
    ASSUME OnePublisher, TypeOK, OneWriterInv, DeliveryInv, NEW p \in Publishers, Publish(p)
    PROVE  /\ CommittedIsComplete'
           /\ Listed(index'.entries) \subseteq committed'
           /\ Listed(snap'[p]) \subseteq committed'
           /\ Storing(p)'
<1> DEFINE Goal == /\ CommittedIsComplete'
                   /\ Listed(index'.entries) \subseteq committed'
                   /\ Listed(snap'[p]) \subseteq committed'
                   /\ Storing(p)'
<1>a. /\ p \in Procs /\ Publishers = {p}
      /\ pc \in [Procs -> {"idle"} \union PublishPcs \union PullPcs]
      /\ arg \in [Procs -> Source \union Refs \union {Absent}]
      /\ dig \in [Procs -> Digest \union {Absent}]
      /\ snap \in [Procs -> [Digest -> Nat]]
      /\ store \in [Digest -> OnDisk]
      /\ committed \subseteq Digest
      /\ pc[p] \in PublishPcs => dig[p] \in Digest
  BY DEF OnePublisher, TypeOK, Procs
<1>b. /\ src = SrcInit
      /\ \A d \in committed : store[d] = d
      /\ Listed(index.entries) \subseteq committed
      /\ Listed(snap[p]) \subseteq committed
  BY <1>a DEF DeliveryInv, CommittedIsComplete
<1>c. /\ pc[p] \in PublishPcs => SrcInit[arg[p]] = dig[p]
      /\ pc[p] \in {"open", "copy"} => dig[p] \notin committed
      /\ pc[p] = "copy" => store[dig[p]] = Empty
      /\ pc[p] \in {"truncate", "write"} => store[dig[p]] = dig[p]
      /\ pc[p] = "return" => dig[p] \in committed
  BY DEF DeliveryInv, Storing
<1>d. /\ pc[p] = "decide" => committed \subseteq Listed(snap[p])
      /\ pc[p] = "write" => index.status = "empty"
  BY DEF OneWriterInv
<1>e. Absent \notin Digest /\ Empty \notin Digest
  BY RegistryAssumption DEF Refs
<1>f. ASSUME UNCHANGED <<store, index, snap, committed>>, Storing(p)'
      PROVE  Goal
  BY <1>b, <1>f DEF CommittedIsComplete
<1>1. ASSUME NEW s \in Source, PublishInspect(p, s) PROVE Goal
  <2>1. Storing(p)'
    BY <1>a, <1>b, <1>1 DEF PublishInspect, Begin, Goto, Storing
  <2>. QED
    BY <1>1, <1>f, <2>1 DEF PublishInspect
<1>2. ASSUME NEW s \in Source, PublishUnreadable(p, s) PROVE Goal
  <2>1. Storing(p)'
    BY <1>a, <1>2 DEF PublishUnreadable, Return, Storing, PublishPcs
  <2>. QED
    BY <1>2, <1>f, <2>1 DEF PublishUnreadable
<1>3. CASE PublishLoad(p)
  <2>1. Storing(p)'
    BY <1>a, <1>c, <1>3 DEF PublishLoad, LoadIndex, Goto, Storing, PublishPcs
  <2>2. snap'[p] = index.entries /\ UNCHANGED <<store, index, committed>>
    BY <1>a, <1>3 DEF PublishLoad, LoadIndex
  <2>. QED
    BY <1>b, <2>1, <2>2 DEF CommittedIsComplete
<1>4. CASE PublishLoadFails(p)
  <2>1. Storing(p)'
    BY <1>a, <1>4 DEF PublishLoadFails, LoadFails, Return, Storing, PublishPcs
  <2>. QED
    BY <1>4, <1>f, <2>1 DEF PublishLoadFails, LoadFails
<1>5. CASE PublishConflict(p) \/ PublishExisting(p) \/ PublishReturn(p)
  <2>1. Storing(p)'
    BY <1>a, <1>5 DEF PublishConflict, PublishExisting, PublishReturn, Return, Storing, PublishPcs
  <2>. QED
    BY <1>5, <1>f, <2>1 DEF PublishConflict, PublishExisting, PublishReturn
<1>6. CASE PublishFresh(p)
  \* A listed digest was committed, so its file is there.
  <2>1. dig[p] \notin committed
    <3>1. pc[p] = "decide" /\ (dig[p] \in Listed(snap[p]) => store[dig[p]] = Absent)
      BY <1>6 DEF PublishFresh, Goto
    <3>2. dig[p] \in Digest
      BY <1>a, <3>1 DEF PublishPcs
    <3>. QED
      BY <1>b, <1>d, <1>e, <3>1, <3>2
  <2>2. Storing(p)'
    BY <1>a, <1>c, <1>6, <2>1 DEF PublishFresh, Goto, Storing, PublishPcs
  <2>. QED
    BY <1>6, <1>f, <2>2 DEF PublishFresh
<1>7. CASE PublishOpen(p)
  <2>1. /\ pc[p] = "open" /\ pc'[p] = "copy"
        /\ store' = [store EXCEPT ![dig[p]] = Empty]
        /\ UNCHANGED <<index, arg, dig, snap, committed>>
    BY <1>a, <1>7 DEF PublishOpen, Goto
  <2>2. dig[p] \in Digest /\ dig[p] \notin committed /\ SrcInit[arg[p]] = dig[p]
    BY <1>a, <1>c, <2>1 DEF PublishPcs
  <2>3. Storing(p)'
    BY <1>a, <2>1, <2>2 DEF Storing
  <2>4. CommittedIsComplete'
    BY <1>a, <1>b, <2>1, <2>2 DEF CommittedIsComplete
  <2>. QED
    BY <1>b, <2>1, <2>3, <2>4
<1>8. CASE PublishCopy(p)
  <2>1. /\ pc[p] = "copy" /\ pc'[p] = "truncate"
        /\ UNCHANGED <<index, arg, dig, snap, committed>>
    BY <1>a, <1>8 DEF PublishCopy, Goto
  <2>2. /\ dig[p] \in Digest /\ dig[p] \notin committed /\ SrcInit[arg[p]] = dig[p]
        /\ store[dig[p]] = Empty
    BY <1>a, <1>c, <2>1 DEF PublishPcs
  <2>3. \A q \in Procs \ {p} : pc[q] # "copy"
    BY <1>a DEF TypeOK, Procs, PullPcs
  <2>4. store' = [store EXCEPT ![dig[p]] = dig[p]]
    BY <1>b, <1>8, <2>2, <2>3 DEF PublishCopy, Overwrite
  <2>5. Storing(p)'
    BY <1>a, <2>1, <2>2, <2>4 DEF Storing
  <2>6. CommittedIsComplete'
    BY <1>a, <1>b, <2>1, <2>2, <2>4 DEF CommittedIsComplete
  <2>. QED
    BY <1>b, <2>1, <2>5, <2>6
<1>9. CASE PublishTruncateIndex(p)
  <2>1. /\ index'.entries = NoEntries
        /\ UNCHANGED <<store, snap, committed>>
    BY <1>9 DEF PublishTruncateIndex
  <2>2. Storing(p)'
    BY <1>a, <1>c, <1>9 DEF PublishTruncateIndex, Goto, Storing, PublishPcs
  <2>. QED
    BY <1>b, <2>1, <2>2, EntriesType DEF CommittedIsComplete
<1>10. CASE PublishWriteIndex(p)
  <2>1. /\ pc[p] = "write" /\ pc'[p] = "return"
        /\ UNCHANGED <<store, arg, dig, snap>>
        /\ committed' = committed \union {dig[p]}
    BY <1>a, <1>10 DEF PublishWriteIndex, Goto
  <2>2. dig[p] \in Digest /\ store[dig[p]] = dig[p] /\ SrcInit[arg[p]] = dig[p]
    BY <1>a, <1>c, <2>1 DEF PublishPcs
  <2>3. index'.entries = With(snap[p], dig[p])
    BY <1>d, <1>10, <2>1 DEF PublishWriteIndex
  <2>4. Listed(index'.entries) = Listed(snap[p]) \union {dig[p]}
    BY <1>a, <2>2, <2>3, EntriesType
  <2>5. Storing(p)'
    BY <2>1, <2>2 DEF Storing
  <2>. QED
    BY <1>b, <2>1, <2>2, <2>4, <2>5 DEF CommittedIsComplete
<1>. QED
  BY <1>1, <1>2, <1>3, <1>4, <1>5, <1>6, <1>7, <1>8, <1>9, <1>10 DEF Publish

(* A reader leaves the other processes alone, readers included.             *)
LEMMA ReaderFrame ==
    ASSUME TypeOK, NEW p \in Readers, Pull(p)
    PROVE  /\ \A q \in Procs \ {p} : pc'[q] = pc[q] /\ arg'[q] = arg[q] /\ dig'[q] = dig[q]
           /\ \A q \in Procs \ {p} : ret'[q] = ret[q]
           /\ \A q \in Readers \ {p} : out'[q] = out[q]
           /\ left'["rebuilds"] = left["rebuilds"]
<1> USE DEF PullStart, PullLoad, PullLoadFails, PullFind, PullNotFound, PullInspect,
        PullCorrupt, PullCreate, PullFill, PullMissing, LoadIndex, LoadFails
<1>1. /\ p \in Procs /\ Readers \subseteq Procs
      /\ DOMAIN pc = Procs
      /\ arg \in [Procs -> Source \union Refs \union {Absent}]
      /\ dig \in [Procs -> Digest \union {Absent}]
      /\ ret \in [Procs -> Results]
      /\ out \in [Readers -> OnDisk]
      /\ left \in [Bounds -> Nat]
  BY DEF TypeOK, Procs
<1>2. pc' = [pc EXCEPT ![p] = pc'[p]]
  BY Pull(p), <1>1 DEF Pull, Goto, Return
<1>3. arg' = [arg EXCEPT ![p] = arg'[p]]
  BY Pull(p), <1>1 DEF Pull, Begin
<1>4. dig' = [dig EXCEPT ![p] = dig'[p]]
  BY Pull(p), <1>1 DEF Pull
<1>5. ret' = [ret EXCEPT ![p] = ret'[p]]
  <2>1. ret' = ret \/ \E r : ret' = [ret EXCEPT ![p] = r]
    BY Pull(p) DEF Pull, Return
  <2>. QED
    BY <1>1, <2>1
<1>6. out' = [out EXCEPT ![p] = out'[p]]
  <2>1. out' = out \/ \E c : out' = [out EXCEPT ![p] = c]
    BY Pull(p) DEF Pull
  <2>. QED
    BY <1>1, <2>1
<1>7. left'["rebuilds"] = left["rebuilds"]
  BY Pull(p), <1>1 DEF Pull, Begin, Spend, Bounds
<1>. QED
  BY <1>1, <1>2, <1>3, <1>4, <1>5, <1>6, <1>7

(* A pull reads three times what it found in the index: the file of a       *)
(* committed digest, which no publish opens again.                          *)
LEMMA DeliveringStep ==
    ASSUME TypeOK, DeliveryInv, NEW p \in Readers, Pull(p)
    PROVE  Delivering(p)'
<1>a. /\ p \in Procs
      /\ pc \in [Procs -> {"idle"} \union PublishPcs \union PullPcs]
      /\ arg \in [Procs -> Source \union Refs \union {Absent}]
      /\ dig \in [Procs -> Digest \union {Absent}]
      /\ ret \in [Procs -> Results]
      /\ out \in [Readers -> OnDisk]
      /\ committed \subseteq Digest
  BY DEF TypeOK, Procs
<1>b. /\ \A d \in committed : store[d] = d
      /\ Listed(snap[p]) \subseteq committed
      /\ Delivering(p)
  BY <1>a DEF DeliveryInv, CommittedIsComplete
<1>c. Absent \notin Digest /\ Empty \notin Digest /\ Garbled \notin Digest
  BY RegistryAssumption DEF Refs
<1>1. ASSUME NEW r \in Refs, PullStart(p, r) PROVE Delivering(p)'
  <2>1. pc'[p] = "lookup" /\ ret'[p] = None
    BY <1>a, <1>1 DEF PullStart, Goto
  <2>. QED
    BY <2>1 DEF Delivering, None
<1>2. CASE PullLoad(p)
  <2>1. pc[p] = "lookup" /\ pc'[p] = "find" /\ UNCHANGED <<ret, out>>
    BY <1>a, <1>2 DEF PullLoad, LoadIndex, Goto
  <2>. QED
    BY <1>b, <2>1 DEF Delivering
<1>3. CASE PullLoadFails(p) \/ PullNotFound(p) \/ PullCorrupt(p) \/ PullMissing(p)
  <2>1. pc'[p] = "idle" /\ ret'[p].status # "ok"
    BY <1>a, <1>3 DEF PullLoadFails, LoadFails, PullNotFound, PullCorrupt, PullMissing, Return, Result
  <2>. QED
    BY <2>1 DEF Delivering
<1>4. CASE PullFind(p)
  <2>1. /\ pc[p] = "find" /\ pc'[p] = "inspect" /\ UNCHANGED <<arg, ret, out, committed>>
        /\ \E d \in Listed(snap[p]) : Matches(arg[p], d) /\ dig'[p] = d
    BY <1>a, <1>4 DEF PullFind, Goto
  <2>. QED
    BY <1>b, <2>1 DEF Delivering
<1>5. CASE PullInspect(p)
  <2>1. /\ pc[p] = "inspect" /\ pc'[p] = "create" /\ UNCHANGED <<arg, dig, out, committed>>
        /\ ret'[p] = Result("pull", "none", arg[p], store[dig[p]])
    BY <1>a, <1>5 DEF PullInspect, Goto
  <2>2. dig[p] \in committed /\ store[dig[p]] = dig[p] /\ Matches(arg[p], dig[p])
    BY <1>b, <2>1 DEF Delivering
  <2>3. ret'[p].status = "none"
    BY <2>1 DEF Result
  <2>. QED
    BY <2>1, <2>2, <2>3 DEF Delivering
<1>6. CASE PullCreate(p)
  <2>1. /\ pc[p] = "create" /\ pc'[p] = "fill" /\ UNCHANGED <<arg, dig, ret, committed>>
    BY <1>a, <1>6 DEF PullCreate, Goto
  <2>2. ret[p] = Result("pull", "none", arg[p], dig[p])
    BY <1>b, <2>1 DEF Delivering
  <2>3. ret[p].status = "none"
    BY <2>2 DEF Result
  <2>. QED
    BY <1>b, <2>1, <2>2, <2>3 DEF Delivering
<1>7. CASE PullFill(p)
  <2>1. /\ pc[p] = "fill" /\ pc'[p] = "idle"
        /\ ret'[p] = [ret[p] EXCEPT !.status = "ok"]
    BY <1>a, <1>7 DEF PullFill, Return
  <2>2. /\ dig[p] \in committed /\ store[dig[p]] = dig[p] /\ Matches(arg[p], dig[p])
        /\ ret[p] = Result("pull", "none", arg[p], dig[p])
    BY <1>b, <2>1 DEF Delivering
  <2>3. ret[p].digest = dig[p] /\ ret'[p].digest = dig[p] /\ ret'[p].ref = arg[p]
    BY <2>1, <2>2 DEF Result
  <2>4. out'[p] = dig[p]
    BY <1>a, <1>7, <2>2, <2>3 DEF PullFill
  <2>. QED
    BY <2>1, <2>2, <2>3, <2>4 DEF Delivering, Matches
<1>. QED
  BY <1>1, <1>2, <1>3, <1>4, <1>5, <1>6, <1>7 DEF Pull

LEMMA DeliveryStep ==
    ASSUME OnePublisher
    PROVE  TypeOK /\ OneWriterInv /\ DeliveryInv /\ [Next]_vars => DeliveryInv'
<1> SUFFICES ASSUME TypeOK, OneWriterInv, DeliveryInv, [Next]_vars PROVE DeliveryInv'
    OBVIOUS
<1>a. /\ Publishers \subseteq Procs /\ Readers \subseteq Procs
      /\ Publishers \intersect Readers = {}
      /\ Procs = Publishers \union Readers
      /\ left \in [Bounds -> Nat]
      /\ SrcInit \in [Source -> Digest] /\ Empty \notin Digest
      /\ pc \in [Procs -> {"idle"} \union PublishPcs \union PullPcs]
      /\ ret \in [Procs -> Results]
  BY RegistryAssumption DEF TypeOK, Procs, Refs
<1>1. ASSUME NEW p \in Publishers, Publish(p) PROVE DeliveryInv'
  <2>1. /\ UNCHANGED <<src, out>>
        /\ \A q \in Procs \ {p} : /\ pc'[q] = pc[q] /\ arg'[q] = arg[q] /\ dig'[q] = dig[q]
                                  /\ snap'[q] = snap[q] /\ ret'[q] = ret[q]
        /\ ret'[p] = ret[p] \/ ret'[p].op # "pull"
        /\ committed \subseteq committed'
        /\ left'["removals"] = left["removals"] /\ left'["rebuilds"] = left["rebuilds"]
    BY <1>1, PublisherStep
  <2>2. /\ CommittedIsComplete'
        /\ Listed(index'.entries) \subseteq committed'
        /\ Listed(snap'[p]) \subseteq committed'
        /\ Storing(p)'
    BY <1>1, StoringStep
  <2>3. \A q \in Publishers : Storing(q)' /\ ret'[q].op # "pull"
    BY <2>1, <2>2 DEF OnePublisher, DeliveryInv
  <2>4. ASSUME NEW q \in Readers PROVE Delivering(q)'
    <3>1. q \in Procs \ {p} /\ Delivering(q)
      BY <1>a DEF DeliveryInv
    <3>. QED
      BY <2>1, <3>1 DEF Delivering
  <2>5. \A q \in Procs : Listed(snap'[q]) \subseteq committed'
    BY <2>1, <2>2 DEF DeliveryInv
  <2>. QED
    BY <2>1, <2>2, <2>3, <2>4, <2>5 DEF DeliveryInv
<1>2. ASSUME NEW p \in Readers, Pull(p) PROVE DeliveryInv'
  <2>1. /\ UNCHANGED <<src, store, index, committed>>
        /\ \A q \in Procs : snap'[q] \in {snap[q], index.entries}
        /\ left'["removals"] = left["removals"]
    BY <1>2, ReaderStep
  <2>2. /\ \A q \in Procs \ {p} : pc'[q] = pc[q] /\ arg'[q] = arg[q] /\ dig'[q] = dig[q]
        /\ \A q \in Procs \ {p} : ret'[q] = ret[q]
        /\ \A q \in Readers \ {p} : out'[q] = out[q]
        /\ left'["rebuilds"] = left["rebuilds"]
    BY <1>2, ReaderFrame
  <2>3. \A q \in Publishers : Storing(q)' /\ ret'[q].op # "pull"
    BY <1>a, <2>1, <2>2 DEF DeliveryInv, Storing
  <2>4. ASSUME NEW q \in Readers PROVE Delivering(q)'
    <3>1. CASE q = p
      BY <1>2, <3>1, DeliveringStep
    <3>2. CASE q # p
      BY <1>a, <2>1, <2>2, <3>2 DEF DeliveryInv, Delivering
    <3>. QED
      BY <3>1, <3>2
  <2>5. \A q \in Procs : Listed(snap'[q]) \subseteq committed'
    BY <2>1 DEF DeliveryInv
  <2>. QED
    BY <2>1, <2>2, <2>3, <2>4, <2>5 DEF DeliveryInv, CommittedIsComplete
<1>3. ASSUME NEW p \in Procs, Abort(p) PROVE DeliveryInv'
  <2>1. /\ UNCHANGED <<src, store, index, arg, dig, snap, out, committed>>
        /\ pc' = [pc EXCEPT ![p] = "idle"]
        /\ ret' = [ret EXCEPT ![p] = Result("abort", "aborted", Absent, Absent)]
    BY <1>3 DEF Abort, Return
  <2>2. left'["removals"] = left["removals"] /\ left'["rebuilds"] = left["rebuilds"]
    BY <1>a, <1>3 DEF Abort, Spend, Bounds
  <2>3. \A q \in Publishers : Storing(q)' /\ ret'[q].op # "pull"
    BY <1>a, <2>1 DEF DeliveryInv, Storing, PublishPcs, Result
  <2>4. ASSUME NEW q \in Readers PROVE Delivering(q)'
    <3>1. q \in Procs /\ Delivering(q)
      BY <1>a DEF DeliveryInv
    <3>2. CASE q = p
      <4>1. pc'[q] = "idle" /\ ret'[q].op = "abort"
        BY <1>a, <2>1, <3>1, <3>2 DEF Result
      <4>. QED
        BY <4>1 DEF Delivering
    <3>3. CASE q # p
      <4>1. pc'[q] = pc[q] /\ ret'[q] = ret[q]
        BY <1>a, <2>1, <3>1, <3>3
      <4>. QED
        BY <2>1, <3>1, <4>1 DEF Delivering
    <3>. QED
      BY <3>2, <3>3
  <2>. QED
    BY <2>1, <2>2, <2>3, <2>4 DEF DeliveryInv, CommittedIsComplete
<1>4. ASSUME NEW d \in Digest, Remove(d) PROVE DeliveryInv'
  BY <1>a, <1>4 DEF Remove, Spend, DeliveryInv
<1>5. ASSUME NEW s \in Source, RebuildTruncate(s) PROVE DeliveryInv'
  BY <1>a, <1>5 DEF RebuildTruncate, Spend, DeliveryInv
<1>6. ASSUME NEW s \in Source, NEW d \in Digest, RebuildWrite(s, d) PROVE DeliveryInv'
  BY <1>a, <1>6 DEF RebuildWrite, DeliveryInv
<1>7. CASE UNCHANGED vars
  BY <1>7 DEF vars, DeliveryInv, CommittedIsComplete, Storing, Delivering
<1>. QED
  BY <1>1, <1>2, <1>3, <1>4, <1>5, <1>6, <1>7 DEF Next

LEMMA OneWriterStores ==
    ASSUME OnePublisher, Undisturbed
    PROVE  Spec => [](TypeOK /\ DeliveryInv)
<1>1. Init => DeliveryInv
  BY DeliveryInit
<1>2. TypeOK /\ OneWriterInv /\ DeliveryInv /\ [Next]_vars => DeliveryInv'
  BY DeliveryStep
<1>. QED
  BY OneWriter, <1>1, <1>2, PTL DEF Spec

(* If in addition nothing removes stored files or rebuilds sources, the     *)
(* registry file of a committed digest holds exactly its bytes from the     *)
(* moment the index lists it: a crash inside the copy, or between the copy  *)
(* and the index, leaves no listed digest with a short file.                *)
THEOREM OneWriterStoresAll ==
    ASSUME OnePublisher, Undisturbed
    PROVE  Spec => []CommittedIsComplete
<1>1. DeliveryInv => CommittedIsComplete
  BY DEF DeliveryInv
<1>. QED
  BY OneWriterStores, <1>1, PTL

(* Then a pull that succeeds, whenever it looked at the index, the stored   *)
(* file and the output, left the bytes of a digest its reference names.     *)
THEOREM OneWriterDelivers ==
    ASSUME OnePublisher, Undisturbed
    PROVE  Spec => []PullDelivers
<1>1. DeliveryInv => PullDelivers
  BY DEF DeliveryInv, PullDelivers, Delivering
<1>. QED
  BY OneWriterStores, <1>1, PTL

-----------------------------------------------------------------------------
(* The refinement.  Only the write of index.json binds, only returns answer. *)

Bindings == [i \in Id |-> BindOf(i)]
AllAnswers == [p \in Procs |-> AnswerOf(p)]

(* A committed digest is the one its name is bound to.                      *)
LEMMA BoundToCommitted ==
    ASSUME CommittedDeterministic, committed \subseteq Digest, NEW d \in committed
    PROVE  /\ BindOf(IdOf[d]) = d
           /\ IdOf[d] \in Id
  BY RegistryAssumption DEF BindOf, CommittedDeterministic

(* An answer changes with the result and the output of its process alone.   *)
LEMMA AnswerFrame ==
    ASSUME NEW q \in Procs, ret'[q] = ret[q],
           ret[q].op = "pull" => out'[q] = out[q]
    PROVE  AnswerOf(q)' = AnswerOf(q)
  BY DEF AnswerOf

LEMMA NoStepStutters ==
    ASSUME UNCHANGED <<ret, out, committed>>
    PROVE  UNCHANGED <<Bindings, AllAnswers>>
  BY DEF Bindings, AllAnswers, BindOf, AnswerOf

(* A process that returns without success forgets its answer.               *)
LEMMA FailureForgets ==
    ASSUME NEW p \in Procs, committed' = committed, ret'[p].status # "ok",
           \A q \in Procs \ {p} : AnswerOf(q)' = AnswerOf(q)
    PROVE  Atomic!Forget(p)
<1>1. AnswerOf(p)' = Atomic!NoAnswer
  BY DEF AnswerOf, Atomic!NoAnswer
<1>2. Bindings' = Bindings
  BY DEF Bindings, BindOf
<1>. QED
  BY <1>1, <1>2 DEF Atomic!Forget, Bindings

LEMMA RefinementInit == Init => Atomic!Init
  BY DEF Init, Atomic!Init, Atomic!NoAnswer, BindOf, AnswerOf, None

LEMMA PublishRefines ==
    ASSUME TypeOK, OneWriterInv, DeliveryInv, OneWriterInv',
           NEW p \in Publishers, Publish(p)
    PROVE  Atomic!Next \/ UNCHANGED <<Bindings, AllAnswers>>
<1>a. /\ p \in Procs /\ Readers \subseteq Procs
      /\ ret \in [Procs -> Results]
      /\ committed \subseteq Digest
      /\ CommittedDeterministic /\ CommittedDeterministic'
      /\ Storing(p)
      /\ Listed(snap[p]) \subseteq committed
      /\ pc[p] \in PublishPcs => dig[p] \in Digest
  BY DEF TypeOK, Procs, OneWriterInv, DeliveryInv
<1>b. \A q \in Procs \ {p} : AnswerOf(q)' = AnswerOf(q)
  <2>1. UNCHANGED out /\ \A q \in Procs \ {p} : ret'[q] = ret[q]
    BY PublisherStep
  <2>. QED
    BY <2>1, AnswerFrame
<1>1. ASSUME ret'[p].status # "ok", committed' = committed PROVE Atomic!Next
  <2>1. Atomic!Forget(p)
    BY <1>a, <1>b, <1>1, FailureForgets
  <2>. QED
    BY <1>a, <2>1 DEF Atomic!Next
<1>2. ASSUME NEW d \in committed, committed' = committed,
             ret'[p] = Result("publish", "ok", arg[p], d)
      PROVE  Atomic!Next
  <2>1. BindOf(IdOf[d]) = d /\ IdOf[d] \in Id /\ d \in Digest
    BY <1>a, BoundToCommitted
  <2>2. AnswerOf(p)' = [op |-> "publish", ref |-> Absent, digest |-> d, bytes |-> Absent]
    BY <1>2 DEF AnswerOf, Result
  <2>3. Bindings' = Bindings
    BY <1>2 DEF Bindings, BindOf
  <2>4. Atomic!Confirm(p, d)
    BY <1>a, <1>b, <2>1, <2>2, <2>3 DEF Atomic!Confirm, Bindings
  <2>. QED
    BY <1>a, <2>1, <2>4 DEF Atomic!Next
<1>3. ASSUME NEW s \in Source, PublishInspect(p, s) \/ PublishUnreadable(p, s)
      PROVE  Atomic!Next
  <2>1. committed' = committed /\ ret'[p].status # "ok"
    BY <1>a, <1>3 DEF PublishInspect, PublishUnreadable, Return, Result, None
  <2>. QED
    BY <1>1, <2>1
<1>4. CASE PublishLoadFails(p) \/ PublishConflict(p)
  <2>1. committed' = committed /\ ret'[p].status # "ok"
    BY <1>a, <1>4 DEF PublishLoadFails, LoadFails, PublishConflict, Return, Result
  <2>. QED
    BY <1>1, <2>1
<1>5. CASE PublishLoad(p) \/ PublishFresh(p) \/ PublishOpen(p) \/ PublishCopy(p)
             \/ PublishTruncateIndex(p)
  <2>1. UNCHANGED <<ret, out, committed>>
    BY <1>5 DEF PublishLoad, LoadIndex, PublishFresh, PublishOpen, PublishCopy,
                PublishTruncateIndex
  <2>. QED
    BY <2>1, NoStepStutters
<1>6. CASE PublishExisting(p)
  <2>1. /\ dig[p] \in committed /\ committed' = committed
        /\ ret'[p] = Result("publish", "ok", arg[p], dig[p])
    BY <1>a, <1>6 DEF PublishExisting, Return
  <2>. QED
    BY <1>2, <2>1
<1>7. CASE PublishReturn(p)
  <2>1. /\ dig[p] \in committed /\ committed' = committed
        /\ ret'[p] = Result("publish", "ok", arg[p], dig[p])
    BY <1>a, <1>7 DEF PublishReturn, Return, Storing
  <2>. QED
    BY <1>2, <2>1
<1>8. CASE PublishWriteIndex(p)
  <2>1. /\ pc[p] = "write" /\ UNCHANGED <<dig, ret, out>>
        /\ committed' = committed \union {dig[p]}
    BY <1>8 DEF PublishWriteIndex, Goto
  <2>2. dig[p] \in Digest /\ IdOf[dig[p]] \in Id
    BY <1>a, <2>1, RegistryAssumption DEF PublishPcs
  <2>3. CASE dig[p] \in committed
    <3>1. committed' = committed
      BY <2>1, <2>3
    <3>. QED
      BY <2>1, <3>1, NoStepStutters
  <2>4. CASE dig[p] \notin committed
    <3>1. \A e \in committed : IdOf[e] # IdOf[dig[p]]
      BY <1>a, <2>1, <2>4 DEF CommittedDeterministic
    <3>2. BindOf(IdOf[dig[p]]) = Absent
      BY <3>1 DEF BindOf
    <3>3. BindOf(IdOf[dig[p]])' = dig[p]
      <4>1. \A d : d \in committed' /\ IdOf[d] = IdOf[dig[p]] <=> d = dig[p]
        BY <2>1, <3>1
      <4>2. (CHOOSE d \in committed' : IdOf[d] = IdOf[dig[p]]) = dig[p]
        BY <4>1
      <4>. QED
        BY <2>1, <4>1, <4>2 DEF BindOf
    <3>4. \A i \in Id \ {IdOf[dig[p]]} : BindOf(i)' = BindOf(i)
      <4>1. ASSUME NEW i \in Id \ {IdOf[dig[p]]}
            PROVE  \A d : d \in committed' /\ IdOf[d] = i <=> d \in committed /\ IdOf[d] = i
        BY <2>1
      <4>. QED
        BY <4>1 DEF BindOf
    <3>5. Bindings' = [Bindings EXCEPT ![IdOf[dig[p]]] = dig[p]]
      BY <2>1, <2>2, <3>3, <3>4 DEF Bindings
    <3>6. AllAnswers' = AllAnswers
      BY <2>1 DEF AllAnswers, AnswerOf
    <3>7. Atomic!Bind(dig[p])
      BY <2>2, <3>2, <3>5, <3>6 DEF Atomic!Bind, Bindings, AllAnswers
    <3>. QED
      BY <2>2, <3>7 DEF Atomic!Next
  <2>. QED
    BY <2>3, <2>4
<1>. QED
  BY <1>3, <1>4, <1>5, <1>6, <1>7, <1>8 DEF Publish

LEMMA PullRefines ==
    ASSUME TypeOK, OneWriterInv, DeliveryInv,
           NEW p \in Readers, Pull(p)
    PROVE  Atomic!Next \/ UNCHANGED <<Bindings, AllAnswers>>
<1>a. /\ p \in Procs /\ Readers \subseteq Procs
      /\ Procs = Publishers \union Readers
      /\ ret \in [Procs -> Results]
      /\ out \in [Readers -> OnDisk]
      /\ committed \subseteq Digest
      /\ CommittedDeterministic
      /\ \A d \in committed : store[d] = d
      /\ Delivering(p)
  BY DEF TypeOK, Procs, OneWriterInv, DeliveryInv, CommittedIsComplete
<1>b. committed' = committed
  BY ReaderStep
<1>c. \A q \in Procs \ {p} : AnswerOf(q)' = AnswerOf(q)
  <2>1. /\ \A q \in Procs \ {p} : ret'[q] = ret[q]
        /\ \A q \in Readers \ {p} : out'[q] = out[q]
    BY ReaderFrame
  <2>2. \A q \in Procs \ {p} : ret[q].op = "pull" => q \in Readers \ {p}
    BY <1>a DEF DeliveryInv
  <2>. QED
    BY <2>1, <2>2, AnswerFrame
<1>1. ASSUME ret'[p].status # "ok" PROVE Atomic!Next
  <2>1. Atomic!Forget(p)
    BY <1>a, <1>b, <1>c, <1>1, FailureForgets
  <2>. QED
    BY <1>a, <2>1 DEF Atomic!Next
<1>2. ASSUME NEW r \in Refs, PullStart(p, r) PROVE Atomic!Next
  <2>1. ret'[p].status # "ok"
    BY <1>a, <1>2 DEF PullStart, None
  <2>. QED
    BY <1>1, <2>1
<1>3. CASE PullLoad(p) \/ PullFind(p)
  <2>1. UNCHANGED <<ret, out, committed>>
    BY <1>3 DEF PullLoad, LoadIndex, PullFind
  <2>. QED
    BY <2>1, NoStepStutters
<1>4. CASE PullLoadFails(p) \/ PullNotFound(p) \/ PullCorrupt(p) \/ PullMissing(p)
             \/ PullInspect(p)
  <2>1. ret'[p].status # "ok"
    BY <1>a, <1>4 DEF PullLoadFails, LoadFails, PullNotFound, PullCorrupt, PullMissing,
                      PullInspect, Return, Result
  <2>. QED
    BY <1>1, <2>1
<1>5. CASE PullCreate(p)
  <2>1. pc[p] = "create" /\ UNCHANGED ret
    BY <1>5 DEF PullCreate, Goto
  <2>2. ret'[p].status # "ok"
    BY <1>a, <2>1 DEF Delivering, Result
  <2>. QED
    BY <1>1, <2>2
<1>6. CASE PullFill(p)
  <2>1. /\ pc[p] = "fill" /\ ret'[p] = [ret[p] EXCEPT !.status = "ok"]
    BY <1>a, <1>6 DEF PullFill, Return
  <2>2. /\ dig[p] \in committed /\ store[dig[p]] = dig[p] /\ Matches(arg[p], dig[p])
        /\ ret[p] = Result("pull", "none", arg[p], dig[p])
    BY <1>a, <2>1 DEF Delivering
  <2>3. ret'[p] = Result("pull", "ok", arg[p], dig[p])
    BY <2>1, <2>2 DEF Result
  <2>4. out'[p] = dig[p]
    BY <1>a, <1>6, <2>2 DEF PullFill, Result
  <2>5. AnswerOf(p)' = [op |-> "pull", ref |-> arg[p], digest |-> dig[p], bytes |-> dig[p]]
    BY <2>3, <2>4 DEF AnswerOf, Result
  <2>6. BindOf(IdOf[dig[p]]) = dig[p] /\ IdOf[dig[p]] \in Id /\ dig[p] \in Digest
    BY <1>a, <2>2, BoundToCommitted
  <2>7. Bindings' = Bindings
    BY <1>b DEF Bindings, BindOf
  <2>8. arg[p] \in {dig[p], IdOf[dig[p]]}
    BY <2>2 DEF Matches
  <2>9. Atomic!Deliver(p, arg[p], dig[p])
    BY <1>a, <1>c, <2>5, <2>6, <2>7, <2>8 DEF Atomic!Deliver, Bindings
  <2>. QED
    BY <1>a, <2>6, <2>8, <2>9 DEF Atomic!Next
<1>. QED
  BY <1>2, <1>3, <1>4, <1>5, <1>6 DEF Pull

(* What happens around the commands only takes answers back.                *)
LEMMA RefinementStep ==
    ASSUME TypeOK, OneWriterInv, DeliveryInv, OneWriterInv', [Next]_vars
    PROVE  [Atomic!Next]_<<Bindings, AllAnswers>>
<1>1. ASSUME NEW p \in Publishers, Publish(p)
      PROVE  Atomic!Next \/ UNCHANGED <<Bindings, AllAnswers>>
  BY <1>1, PublishRefines
<1>2. ASSUME NEW p \in Readers, Pull(p)
      PROVE  Atomic!Next \/ UNCHANGED <<Bindings, AllAnswers>>
  BY <1>2, PullRefines
<1>3. ASSUME NEW p \in Procs, Abort(p) PROVE Atomic!Next
  <2>1. /\ UNCHANGED <<out, committed>>
        /\ ret' = [ret EXCEPT ![p] = Result("abort", "aborted", Absent, Absent)]
    BY <1>3 DEF Abort, Return
  <2>2. ret'[p].status # "ok" /\ \A q \in Procs \ {p} : ret'[q] = ret[q]
    BY <2>1 DEF TypeOK, Result
  <2>3. \A q \in Procs \ {p} : AnswerOf(q)' = AnswerOf(q)
    BY <2>1, <2>2, AnswerFrame
  <2>4. Atomic!Forget(p)
    BY <2>1, <2>2, <2>3, FailureForgets
  <2>. QED
    BY <2>4 DEF Atomic!Next
<1>4. CASE \/ \E d \in Digest : Remove(d)
           \/ \E s \in Source : RebuildTruncate(s)
           \/ \E s \in Source, d \in Digest : RebuildWrite(s, d)
           \/ UNCHANGED vars
  <2>1. UNCHANGED <<ret, out, committed>>
    BY <1>4 DEF Remove, RebuildTruncate, RebuildWrite, vars
  <2>. QED
    BY <2>1, NoStepStutters
<1>. QED
  BY <1>1, <1>2, <1>3, <1>4 DEF Next

(* With one publisher at a time and nobody disturbing the files, a crash at *)
(* any point included, the registry is the atomic one: a skill@version is   *)
(* bound to one digest for ever, a publish is confirmed for a bound digest  *)
(* only, and a pull hands out the bytes its reference is bound to.          *)
THEOREM OneWriterRefines ==
    ASSUME OnePublisher, Undisturbed
    PROVE  Spec => RefinesAtomicRegistry
<1>1. TypeOK /\ OneWriterInv /\ DeliveryInv /\ OneWriterInv' /\ [Next]_vars
        => [Atomic!Next]_<<Bindings, AllAnswers>>
  BY RefinementStep
<1>. QED
  BY OneWriter, OneWriterStores, RefinementInit, <1>1, PTL
     DEF Spec, RefinesAtomicRegistry, Atomic!Spec, Bindings, AllAnswers
=============================================================================
