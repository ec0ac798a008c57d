------------------------ MODULE PropagationNodeProofs ------------------------
(***************************************************************************)
(* Proofs about PropagationNode, for any messages, peers, sizes, limits,   *)
(* intervals and expiries, any finite table of peers to start from, and    *)
(* any number of restarts and crashes.                                     *)
(*                                                                         *)
(* NodeInv is split by what it speaks of: the store, the cache of          *)
(* processed identifiers, the queues, the peer table and the clock.  The   *)
(* queues of a dropped peer are gone because a rotation never empties the  *)
(* table, so the bound of RotationSafe is part of the induction.           *)
(***************************************************************************)
EXTENDS PropagationNode, FiniteSetTheorems, TLAPS

\* The default at a leaf that names no other prover.
USE ZenonT(60)

-----------------------------------------------------------------------------
(* Operators.                                                              *)

\* The larger of two numbers.
LEMMA MaxOfTwo ==
  ASSUME NEW a \in Int, NEW b \in Int
  PROVE  Max({a, b}) \in {a, b} /\ Max({a, b}) >= a /\ Max({a, b}) >= b
<1>1. \E x \in {a, b} : \A y \in {a, b} : x >= y
  BY SMTT(60)
<1> QED
  BY <1>1 DEF Max

\* The smaller of two numbers.
LEMMA MinOfTwo ==
  ASSUME NEW a \in Int, NEW b \in Int
  PROVE  Min({a, b}) \in {a, b} /\ Min({a, b}) <= a /\ Min({a, b}) <= b
<1>1. \E x \in {a, b} : \A y \in {a, b} : x <= y
  BY SMTT(60)
<1> QED
  BY <1>1 DEF Min

\* The fields of a file.
LEMMA FileOf ==
  ASSUME NEW i, NEW at
  PROVE  /\ File(i, at).id = i /\ File(i, at).at = at
         /\ i \in Id /\ at \in Stamp => File(i, at) \in [id : Id, at : Stamp]
  BY SMTT(60) DEF File

\* Equal files are those of one id and one timestamp.
LEMMA SameFile ==
  ASSUME NEW i, NEW j, NEW at, NEW u, File(i, at) = File(j, u)
  PROVE  i = j /\ at = u
  BY SMTT(60) DEF File

\* Finitely many files have finitely many ids.
LEMMA FiniteIds ==
  ASSUME NEW fs, IsFiniteSet(fs)
  PROVE  IsFiniteSet({f.id : f \in fs})
<1> DEFINE T == {f.id : f \in fs}
           g == [f \in fs |-> f.id]
<1>1. g \in Surjection(fs, T)
  BY DEF Surjection
<1> QED
  BY <1>1, FS_Surjection

\* Finitely many ids have finitely many files of one timestamp.
LEMMA FiniteFiles ==
  ASSUME NEW S, IsFiniteSet(S), NEW at
  PROVE  IsFiniteSet({File(i, at) : i \in S})
<1> DEFINE T == {File(i, at) : i \in S}
           g == [i \in S |-> File(i, at)]
<1>1. g \in Surjection(S, T)
  BY DEF Surjection
<1> QED
  BY <1>1, FS_Surjection

-----------------------------------------------------------------------------
(* The parts of the invariant.                                             *)

StoreOK ==
    /\ DOMAIN entries \subseteq Id /\ \A i \in DOMAIN entries : entries[i] \in Stamp
    /\ files \subseteq [id : Id, at : Stamp] /\ IsFiniteSet(files)
    /\ FilesOf(entries) \subseteq files /\ FilesAccounted

Cache(c) == DOMAIN c \subseteq Id /\ \A i \in DOMAIN c : c[i] \in Time
CacheOK ==
    /\ now \in Time
    /\ Cache(processed) /\ Cache(saved)
    /\ acceptedAt \in [Id -> Stamp] /\ Remembered(processed) /\ Remembered(saved)

QueuesOK ==
    /\ dist \subseteq Id \X (Peer \cup {NoPeer})
    /\ handledQ \in [Peer -> SUBSET Id] /\ unhandledQ \in [Peer -> SUBSET Id]
    /\ handled \subseteq Id \X Peer /\ unhandled \subseteq Id \X Peer
    /\ \A p \in Peer \ DOMAIN peers : handledQ[p] = {} /\ unhandledQ[p] = {}

Table(t) ==
    /\ DOMAIN t \subseteq Peer /\ IsFiniteSet(DOMAIN t)
    /\ \A p \in DOMAIN t : t[p] \in PeerRecord(Time)
TableOK == Table(peers) /\ Table(savedPeers) /\ DOMAIN savedPeers \subseteq DOMAIN peers

Budget == [ids : SUBSET Id, dist : Nat, calls : Nat, restarts : Nat, until : Time]
CountersOK ==
    /\ count \in 0 .. Cycle - 1 /\ boots \in 0 .. budget.restarts
    /\ budget \in Budget /\ IsFiniteSet(budget.ids)

\* NodeInv is the conjunction of its parts.
LEMMA InvParts == NodeInv <=> StoreOK /\ CacheOK /\ QueuesOK /\ TableOK /\ CountersOK
<1>1. ASSUME NEW f, NEW S
      PROVE  Range(f) \subseteq S <=> \A x \in DOMAIN f : f[x] \in S
  BY DEF Range
<1>2. ASSUME FilesAccounted
      PROVE  \A f \in files : f.id \in DOMAIN entries \cup leftover
  <2>1. \A f \in FilesOf(entries) : f.id \in DOMAIN entries
    BY SMTT(60) DEF FilesOf, File
  <2> QED
    BY <1>2, <2>1 DEF FilesAccounted
<1>3. ASSUME NEW S, IsFiniteSet(S), NEW T, T \subseteq S
      PROVE  IsFiniteSet(T)
  BY <1>3, FS_Subset
<1>4. ASSUME NodeInv PROVE StoreOK /\ CacheOK /\ QueuesOK
  BY <1>1, <1>4 DEF NodeInv, TypeOK, DiskFaithful, StoreOnDisk, StoreOK, CacheOK, Cache, QueuesOK
<1>5. ASSUME NodeInv PROVE TableOK
  <2>1. /\ DOMAIN peers \subseteq Peer /\ IsFiniteSet(DOMAIN peers)
        /\ Range(peers) \subseteq PeerRecord(Time) /\ Range(savedPeers) \subseteq PeerRecord(Time)
        /\ DOMAIN savedPeers \subseteq DOMAIN peers
    BY <1>5 DEF NodeInv, TypeOK, DiskFaithful
  <2> QED
    BY <1>1, <1>3, <2>1 DEF TableOK, Table
<1>6. ASSUME NodeInv PROVE CountersOK
  BY <1>6 DEF NodeInv, TypeOK, CountersOK, Budget
<1>7. ASSUME StoreOK, CacheOK, QueuesOK, TableOK, CountersOK PROVE NodeInv
  <2>1. TypeOK
    BY <1>1, <1>7 DEF TypeOK, StoreOK, CacheOK, Cache, QueuesOK, TableOK, Table, CountersOK
  <2>2. DiskFaithful
    BY <1>2, <1>7 DEF DiskFaithful, StoreOnDisk, StoreOK, TableOK
  <2> QED
    BY <1>1, <1>7, <2>1, <2>2 DEF NodeInv, StoreOK, CacheOK, TableOK, Table, CountersOK, Budget
<1> QED
  BY <1>4, <1>5, <1>6, <1>7

\* The same of the next state.
LEMMA InvPartsNext ==
  ASSUME StoreOK', CacheOK', QueuesOK', TableOK', CountersOK'
  PROVE  NodeInv'
  BY InvParts, PTL

\* A step that leaves the store alone.
LEMMA StoreStays ==
  ASSUME StoreOK, UNCHANGED <<entries, files, leftover>>
  PROVE  StoreOK'
  BY DEF StoreOK, FilesAccounted

\* A step that leaves the cache and the clock alone.
LEMMA CacheStays ==
  ASSUME CacheOK, UNCHANGED <<now, processed, saved, acceptedAt>>
  PROVE  CacheOK'
  BY DEF CacheOK, Remembered, Cache

\* A step that leaves the peers alone.
LEMMA TableStays ==
  ASSUME TableOK, UNCHANGED <<peers, savedPeers>>
  PROVE  TableOK'
  BY DEF TableOK, Table

\* A step that leaves the counters alone.
LEMMA CountersStay ==
  ASSUME CountersOK, UNCHANGED <<count, boots, budget>>
  PROVE  CountersOK'
  BY DEF CountersOK

\* The queues stay, and no peer that has any goes.
LEMMA QueuesStay ==
  ASSUME QueuesOK, UNCHANGED distVars, DOMAIN peers \subseteq DOMAIN peers'
  PROVE  QueuesOK'
  BY DEF QueuesOK, distVars

-----------------------------------------------------------------------------
(* What a step may do (the action properties).                             *)

AcceptStep ==
    \A i \in Id : acceptedAt'[i] # acceptedAt[i] =>
        acceptedAt[i] = Never \/ now > acceptedAt[i] + CacheExpiry
HandledStep == \A m \in handled : m \notin unhandled => m \notin unhandled'
RotateStep ==
    LET out == DOMAIN peers \ DOMAIN peers' IN
    count' # count /\ out # {} /\ boots' = boots =>
       /\ out \cap Static = {}
       /\ \A p \in out : peers[p].state = Idle
       /\ Cardinality(DOMAIN peers') >= Max({2, MaxPeers - Headroom})
SkipStep ==
    \A i \in Id, p \in Peer : Pending(i, p) /\ boots' = boots =>
        \/ Pending(i, p)' \/ <<i, p>> \in handled' \cup unhandled'
        \/ i \notin DOMAIN entries' \/ p \notin DOMAIN peers'
StepOK == AcceptStep /\ HandledStep /\ RotateStep /\ SkipStep

\* Nothing pending is skipped if nothing is taken out of the queues of a peer
\* that stays.
LEMMA PendingKept ==
  ASSUME dist \subseteq dist',
         \A p \in Peer : p \in DOMAIN peers' => unhandledQ[p] \subseteq unhandledQ'[p]
  PROVE  SkipStep
  BY DEF SkipStep, Pending

\* A step that accepts nothing, marks nothing, runs no job and takes nothing out
\* of the queues of a peer that stays.
LEMMA QuietStep ==
  ASSUME UNCHANGED acceptedAt, unhandled' \subseteq unhandled, UNCHANGED count,
         dist \subseteq dist',
         \A p \in Peer : p \in DOMAIN peers' => unhandledQ[p] \subseteq unhandledQ'[p]
  PROVE  StepOK
  BY PendingKept DEF StepOK, AcceptStep, HandledStep, RotateStep

-----------------------------------------------------------------------------
(* The store and the cache.                                                *)

\* A batch is taken: every new message gets its entry, its file and its place in
\* both copies of the cache.
LEMMA BatchTaken ==
  ASSUME StoreOK, CacheOK, NEW batch \in SUBSET Id, IsFiniteSet(batch), NEW at \in Stamp,
         process_propagated(batch, at), UNCHANGED <<now, leftover>>
  PROVE  StoreOK' /\ CacheOK' /\ AcceptStep
<1> DEFINE new == Fresh(batch)
<1>1. /\ entries' = With(entries, new, at)
      /\ files' = files \cup {File(i, at) : i \in new}
      /\ processed' = With(processed, new, now)
      /\ saved' = IF new = {} THEN saved ELSE processed'
      /\ acceptedAt' = [i \in Id |-> IF i \in new THEN now ELSE acceptedAt[i]]
  BY DEF process_propagated
<1>2. /\ new \subseteq batch /\ new \subseteq Id
      /\ \A i \in new : i \notin DOMAIN entries /\ i \notin DOMAIN processed
  BY DEF Fresh
<1>3. IsFiniteSet(new)
  BY <1>2, FS_Subset
<1> HIDE DEF new
<1>4. /\ DOMAIN entries' = DOMAIN entries \cup new
      /\ \A i \in new : entries'[i] = at
      /\ \A i \in DOMAIN entries : entries'[i] = entries[i]
  BY <1>1, <1>2 DEF With
<1>5. /\ DOMAIN processed' = DOMAIN processed \cup new
      /\ \A i \in new : processed'[i] = now
      /\ \A i \in DOMAIN processed : processed'[i] = processed[i]
  BY <1>1, <1>2 DEF With
<1>6. FilesOf(entries') = FilesOf(entries) \cup {File(i, at) : i \in new}
  BY <1>4 DEF FilesOf
<1>7. {File(i, at) : i \in new} \subseteq [id : Id, at : Stamp]
  BY SMTT(60), <1>2 DEF File
<1>8. IsFiniteSet(files')
  BY <1>1, <1>3, FiniteFiles, FS_Union DEF StoreOK
<1>9. StoreOK'
  BY <1>1, <1>2, <1>4, <1>6, <1>7, <1>8 DEF StoreOK, FilesAccounted
<1>10. Cache(processed)' /\ Cache(saved)'
  BY <1>1, <1>2, <1>5 DEF CacheOK, Cache
<1>11. acceptedAt' \in [Id -> Stamp] /\ now \in Int /\ now >= now
  <2>1. now \in Int /\ now >= now
    BY SMTT(60), StoreAssumption DEF CacheOK, Time
  <2> QED
    BY <1>1, <2>1 DEF CacheOK, Stamp
<1>12. Remembered(processed)'
  BY <1>1, <1>5, <1>11 DEF CacheOK, Remembered
<1>13. Remembered(saved)'
  BY <1>1, <1>12 DEF CacheOK, Remembered
<1>14. AcceptStep
  <2>1. \A i \in Id : acceptedAt'[i] # acceptedAt[i] => i \in new
    BY <1>1
  <2>2. \A i \in new : acceptedAt[i] = Never \/ ~(now <= acceptedAt[i] + CacheExpiry)
    BY <1>2 DEF CacheOK, Remembered
  <2>3. \A i \in Id : acceptedAt[i] + CacheExpiry \in Int
    BY SMTT(60), StoreAssumption DEF CacheOK, Stamp, Never, Time
  <2>4. \A x \in Int : ~(now <= x) => now > x
    BY SMTT(60), <1>11
  <2> QED
    BY <1>2, <2>1, <2>2, <2>3, <2>4 DEF AcceptStep
<1> QED
  BY <1>9, <1>10, <1>11, <1>12, <1>13, <1>14 DEF CacheOK

\* Entries are removed with their files.
LEMMA EntriesRemoved ==
  ASSUME StoreOK, NEW S \in SUBSET DOMAIN entries, UNCHANGED leftover,
         DOMAIN entries' = DOMAIN entries \ S,
         \A i \in DOMAIN entries' : entries'[i] = entries[i],
         files' = files \ FilesOf(Restrict(entries, S))
  PROVE  StoreOK'
<1>1. FilesOf(Restrict(entries, S)) = {File(i, entries[i]) : i \in S}
  BY DEF FilesOf, Restrict
<1>2. FilesOf(entries') = {File(i, entries[i]) : i \in DOMAIN entries \ S}
  <2>1. \A i \in DOMAIN entries' : File(i, entries'[i]) = File(i, entries[i])
    OBVIOUS
  <2>2. FilesOf(entries') = {File(i, entries[i]) : i \in DOMAIN entries'}
    BY <2>1 DEF FilesOf
  <2> QED
    BY <2>2
<1>3. FilesOf(entries) = {File(i, entries[i]) : i \in DOMAIN entries}
  BY DEF FilesOf
<1>4. FilesOf(entries') \subseteq files'
  <2>1. \A i \in DOMAIN entries \ S, j \in S : File(i, entries[i]) # File(j, entries[j])
    BY SameFile
  <2> QED
    BY <1>1, <1>2, <1>3, <2>1 DEF StoreOK
<1>5. FilesAccounted'
  BY <1>1, <1>2, <1>3 DEF StoreOK, FilesAccounted
<1>6. IsFiniteSet(files')
  BY FS_Subset DEF StoreOK
<1> QED
  BY <1>4, <1>5, <1>6 DEF StoreOK

\* clean_propagation_store removes entries with their files, whichever it chose.
LEMMA StoreCleaned ==
  ASSUME StoreOK, clean_propagation_store, UNCHANGED leftover
  PROVE  StoreOK' /\ DOMAIN entries' \subseteq DOMAIN entries
<1> DEFINE old == Expired(entries)
           live == Restrict(entries, DOMAIN entries \ old)
<1>1. PICK out \in IF configured THEN Dropped(live, Limit) ELSE {{}} :
        /\ entries' = Restrict(live, DOMAIN live \ out)
        /\ files' = files \ FilesOf(Restrict(entries, old \cup out))
  BY DEF clean_propagation_store
<1>2. old \subseteq DOMAIN entries
  BY DEF Expired
<1>3. DOMAIN live = DOMAIN entries \ old /\ \A i \in DOMAIN live : live[i] = entries[i]
  BY DEF Restrict
<1>4. out \subseteq DOMAIN live
  BY <1>1 DEF Dropped
<1> HIDE DEF old, live
<1>5. DOMAIN entries' = DOMAIN live \ out /\ \A i \in DOMAIN entries' : entries'[i] = live[i]
  BY <1>1 DEF Restrict
<1>6. DOMAIN entries' = DOMAIN entries \ (old \cup out)
  BY <1>3, <1>5
<1>7. \A i \in DOMAIN entries' : entries'[i] = entries[i]
  BY <1>3, <1>5
<1>8. old \cup out \in SUBSET DOMAIN entries
  BY <1>2, <1>3, <1>4
<1> QED
  BY <1>1, <1>6, <1>7, <1>8, EntriesRemoved

\* cleanup_propagation leaves the files of what it removes.
LEMMA StoreTrimmed ==
  ASSUME StoreOK, NEW cutoff, cleanup_propagation(cutoff)
  PROVE  StoreOK'
<1> DEFINE old == {i \in DOMAIN entries : entries[i] <= cutoff}
<1>1. /\ entries' = Restrict(entries, DOMAIN entries \ old)
      /\ leftover' = leftover \cup old /\ files' = files
  BY DEF cleanup_propagation
<1> HIDE DEF old
<1>2. DOMAIN entries' = DOMAIN entries \ old /\ \A i \in DOMAIN entries' : entries'[i] = entries[i]
  BY <1>1 DEF Restrict
<1>3. \A i \in DOMAIN entries' : File(i, entries'[i]) = File(i, entries[i])
  BY <1>2
<1>4. FilesOf(entries') = {File(i, entries[i]) : i \in DOMAIN entries'}
  BY <1>3 DEF FilesOf
<1>5. FilesOf(entries') \subseteq files'
  BY <1>1, <1>2, <1>4 DEF StoreOK, FilesOf
<1>6. FilesAccounted'
  <2> SUFFICES ASSUME NEW f \in files, f \in FilesOf(entries)
               PROVE  f \in FilesOf(entries') \/ f.id \in leftover'
    BY <1>1 DEF StoreOK, FilesAccounted
  <2>1. PICK i \in DOMAIN entries : f = File(i, entries[i])
    BY DEF FilesOf
  <2>2. f.id = i
    BY SMTT(60), <2>1 DEF File
  <2> QED
    BY <1>1, <1>2, <1>4, <2>1, <2>2
<1> QED
  BY <1>1, <1>2, <1>5, <1>6 DEF StoreOK

\* A cleaned cache still knows what it must.
LEMMA CacheCleaned ==
  ASSUME CacheOK, NEW c, Cache(c), Remembered(c)
  PROVE  /\ Cache(clean_transient_cache(c))
         /\ \A d : d = clean_transient_cache(c) => Remembered(d)
<1> DEFINE kept == {i \in DOMAIN c : now <= c[i] + CacheExpiry}
           d == clean_transient_cache(c)
<1>1. DOMAIN d = kept /\ \A i \in kept : d[i] = c[i]
  BY DEF clean_transient_cache, Restrict
<1>2. Cache(d)
  BY <1>1 DEF Cache
<1>3. \A a, b \in Int : now <= a + CacheExpiry /\ b >= a => now <= b + CacheExpiry
  BY SMTT(60), StoreAssumption DEF CacheOK, Time
<1>4. (\A i \in Id : acceptedAt[i] \in Int) /\ \A i \in DOMAIN c : c[i] \in Int
  BY SMTT(60), StoreAssumption DEF CacheOK, Cache, Stamp, Time, Never
<1> HIDE DEF d
<1>5. Remembered(d)
  <2> SUFFICES ASSUME NEW i \in Id, acceptedAt[i] # Never, now <= acceptedAt[i] + CacheExpiry
               PROVE  i \in DOMAIN d /\ d[i] >= acceptedAt[i]
    BY DEF Remembered
  <2>1. i \in DOMAIN c /\ c[i] >= acceptedAt[i]
    BY DEF Remembered
  <2>2. i \in kept
    BY <1>3, <1>4, <2>1
  <2> QED
    BY <1>1, <2>1, <2>2
<1> QED
  BY <1>2, <1>5 DEF d

\* Both copies of the cache are cleaned.
LEMMA CachesCleaned ==
  ASSUME CacheOK, clean_transient_id_caches, UNCHANGED <<now, acceptedAt>>
  PROVE  CacheOK'
<1> DEFINE d == clean_transient_cache(processed)
<1>1. Cache(d) /\ \A x : x = d => Remembered(x)
  BY CacheCleaned DEF CacheOK
<1>2. processed' = d /\ saved' \in {saved, d}
  BY DEF clean_transient_id_caches
<1> HIDE DEF d
<1>3. Remembered(d) /\ Remembered(saved) /\ Cache(saved)
  BY <1>1 DEF CacheOK
<1>4. \A x : Remembered(x) => /\ processed' = x => Remembered(processed)'
                              /\ saved' = x => Remembered(saved)'
  BY DEF Remembered
<1>5. Cache(processed)' /\ Cache(saved)'
  BY <1>1, <1>2, <1>3
<1> QED
  BY <1>2, <1>3, <1>4, <1>5 DEF CacheOK

\* Loading: one entry for every id that has a file.  What the directory holds
\* twice must be ids whose files were left behind.
LEMMA StoreLoaded ==
  ASSUME CacheOK, NEW fs \in SUBSET [id : Id, at : Stamp], IsFiniteSet(fs),
         \A f, g \in fs : f.id = g.id => f = g \/ f.id \in leftover,
         with_store_and_root(fs, saved), UNCHANGED <<now, leftover, acceptedAt>>
  PROVE  StoreOK' /\ CacheOK'
<1>1. PICK e \in load_propagation_store(fs) :
        /\ entries' = Restrict(e, DOMAIN e \ Expired(e))
        /\ files' = Loadable(fs) \ FilesOf(Restrict(e, Expired(e)))
  BY DEF with_store_and_root
<1> DEFINE old == Expired(e)
<1>2. /\ e \in [{f.id : f \in Loadable(fs)} -> Time] /\ FilesOf(e) \subseteq fs
      /\ old \subseteq DOMAIN e /\ Loadable(fs) \subseteq fs
  BY DEF load_propagation_store, Expired, Loadable
<1>3. FilesOf(Restrict(e, old)) = {File(i, e[i]) : i \in old}
  BY DEF FilesOf, Restrict
<1> HIDE DEF old
<1>4. DOMAIN entries' = DOMAIN e \ old /\ \A i \in DOMAIN entries' : entries'[i] = e[i]
  BY <1>1 DEF Restrict, old
<1>5. \A i \in DOMAIN entries' : File(i, entries'[i]) = File(i, e[i])
  BY <1>4
<1>6. FilesOf(entries') = {File(i, e[i]) : i \in DOMAIN e \ old}
  <2>1. FilesOf(entries') = {File(i, e[i]) : i \in DOMAIN entries'}
    BY <1>5 DEF FilesOf
  <2> QED
    BY <1>4, <2>1
<1>7. files' = Loadable(fs) \ {File(i, e[i]) : i \in old}
  BY <1>1, <1>3 DEF old
<1>8. \A i \in DOMAIN e : File(i, e[i]) \in Loadable(fs)
  <2> SUFFICES ASSUME NEW i \in DOMAIN e PROVE File(i, e[i]) \in Loadable(fs)
    OBVIOUS
  <2>1. e[i] \in Time /\ File(i, e[i]) \in fs
    BY <1>2 DEF FilesOf
  <2>2. e[i] # Never
    BY SMTT(60), <2>1, StoreAssumption DEF Time, Never
  <2> QED
    BY <2>1, <2>2, FileOf DEF Loadable
<1>9. FilesOf(entries') \subseteq files'
  <2>1. \A i \in DOMAIN e \ old, j \in old : File(i, e[i]) # File(j, e[j])
    BY SameFile
  <2> QED
    BY <1>6, <1>7, <1>8, <2>1
<1>10. FilesAccounted'
  <2> SUFFICES ASSUME NEW f \in files' PROVE f \in FilesOf(entries') \/ f.id \in leftover
    BY DEF FilesAccounted
  <2>1. f \in fs /\ f.id \in DOMAIN e /\ f \notin {File(i, e[i]) : i \in old}
    BY <1>2, <1>7
  <2>2. File(f.id, e[f.id]) \in fs /\ File(f.id, e[f.id]).id = f.id
    BY <1>2, <1>8, <2>1, FileOf
  <2>3. f = File(f.id, e[f.id]) \/ f.id \in leftover
    BY <2>1, <2>2
  <2> QED
    BY <1>6, <2>1, <2>3
<1>11. DOMAIN entries' \subseteq Id /\ \A i \in DOMAIN entries' : entries'[i] \in Stamp
  <2>1. \A f \in fs : f.id \in Id
    BY SMTT(60)
  <2>2. DOMAIN e \subseteq Id
    <3>1. DOMAIN e = {f.id : f \in Loadable(fs)}
      BY <1>2
    <3> QED
      BY <1>2, <2>1, <3>1
  <2> QED
    BY <1>2, <1>4, <2>2 DEF Stamp
<1>12. files' \subseteq fs
  BY <1>2, <1>7
<1>13. StoreOK'
  BY <1>9, <1>10, <1>11, <1>12, FS_Subset DEF StoreOK
<1>14. CacheOK'
  <2> DEFINE d == clean_transient_cache(saved)
  <2>1. Cache(d) /\ \A x : x = d => Remembered(x)
    BY CacheCleaned DEF CacheOK
  <2>2. processed' = d /\ saved' = d
    BY DEF with_store_and_root
  <2> HIDE DEF d
  <2>3. Remembered(d)
    BY <2>1
  <2>4. Remembered(processed)' /\ Remembered(saved)'
    BY <2>2, <2>3 DEF Remembered
  <2>5. Cache(processed)' /\ Cache(saved)'
    BY <2>1, <2>2
  <2> QED
    BY <2>4, <2>5 DEF CacheOK
<1> QED
  BY <1>13, <1>14

\* Two files of one id are one, or were left behind.
LEMMA OneFile ==
  ASSUME StoreOK
  PROVE  \A f, g \in files : f.id = g.id => f = g \/ f.id \in leftover
<1> SUFFICES ASSUME NEW f \in files, NEW g \in files, f.id = g.id, f.id \notin leftover
             PROVE  f = g
  OBVIOUS
<1>1. f \in FilesOf(entries) /\ g \in FilesOf(entries)
  BY DEF StoreOK, FilesAccounted
<1>2. PICK i \in DOMAIN entries : f = File(i, entries[i])
  BY <1>1 DEF FilesOf
<1>3. PICK j \in DOMAIN entries : g = File(j, entries[j])
  BY <1>1 DEF FilesOf
<1>4. i = j
  BY SMTT(60), <1>2, <1>3 DEF File
<1> QED
  BY <1>2, <1>3, <1>4

\* A restart, whether between two operations or inside process_propagated.
LEMMA StoreRestarted ==
  ASSUME StoreOK, CacheOK,
         Restart \/ \E i \in Id, at \in Stamp : CrashInProcess(i, at)
  PROVE  StoreOK' /\ CacheOK'
<1>1. CASE Restart
  BY <1>1, OneFile, StoreLoaded DEF Restart, StoreOK
<1>2. CASE \E i \in Id, at \in Stamp : CrashInProcess(i, at)
  <2>1. PICK i \in Id, at \in Stamp : CrashInProcess(i, at)
    BY <1>2
  <2> DEFINE new == File(i, at)
             fs == files \cup {new}
  <2>2. /\ i \notin DOMAIN entries /\ with_store_and_root(fs, saved)
        /\ UNCHANGED <<now, leftover, acceptedAt>>
    BY <2>1 DEF CrashInProcess, Fresh
  <2>3. new.id = i /\ new \in [id : Id, at : Stamp]
    BY FileOf
  <2>4. \A f \in files : f.id = i => i \in leftover
    <3>1. \A f \in FilesOf(entries) : f.id \in DOMAIN entries
      BY SMTT(60) DEF FilesOf, File
    <3> QED
      BY <2>2, <3>1 DEF StoreOK, FilesAccounted
  <2> HIDE DEF new
  <2>5. \A f, g \in fs : f.id = g.id => f = g \/ f.id \in leftover
    BY <2>3, <2>4, OneFile
  <2>6. IsFiniteSet(fs) /\ fs \in SUBSET [id : Id, at : Stamp]
    BY <2>3, FS_AddElement DEF StoreOK
  <2> QED
    BY <2>2, <2>5, <2>6, StoreLoaded
<1> QED
  BY <1>1, <1>2

-----------------------------------------------------------------------------
(* The peer table.                                                         *)

\* Counters stay within their bound.
LEMMA CappedCount == ASSUME NEW n \in Nat PROVE Capped(n) \in 0 .. MaxMessages
<1> DEFINE c == Min({n, MaxMessages})
<1>1. MaxMessages \in Nat /\ n \in Int
  BY SMTT(60), PeerAssumption
<1>2. c \in {n, MaxMessages} /\ c <= n /\ c <= MaxMessages
  BY SMTT(60), <1>1, MinOfTwo
<1> HIDE DEF c
<1>3. c \in 0 .. MaxMessages
  BY SMTT(60), <1>1, <1>2
<1> QED
  BY <1>3 DEF Capped, c

\* The record of a peer that is known or new.
LEMMA UpsertRecord ==
  ASSUME NEW t, Table(t), NEW p
  PROVE  upsert(t, p) \in PeerRecord(Time)
<1>1. NewPeer \in PeerRecord(Time)
  BY SMTT(60), PeerAssumption DEF NewPeer, PeerRecord
<1> QED
  BY <1>1 DEF upsert, Table

\* A record put into a table.
LEMMA PutTable ==
  ASSUME NEW t, Table(t), NEW p \in Peer, NEW r \in PeerRecord(Time)
  PROVE  Table(Put(t, p, r)) /\ DOMAIN Put(t, p, r) = DOMAIN t \cup {p}
<1>1. /\ DOMAIN Put(t, p, r) = DOMAIN t \cup {p}
      /\ \A q \in DOMAIN t \cup {p} : Put(t, p, r)[q] = IF q = p THEN r ELSE t[q]
  BY DEF Put
<1>2. IsFiniteSet(DOMAIN t \cup {p})
  BY FS_AddElement DEF Table
<1> QED
  BY <1>1, <1>2 DEF Table

\* The changes of one record.
LEMMA RecordChanges ==
  ASSUME NEW r \in PeerRecord(Time), NEW n \in 0 .. MaxMessages, NEW at \in Time
  PROVE  /\ \A s \in {Idle, OfferSent, Backoff} : [r EXCEPT !.state = s] \in PeerRecord(Time)
         /\ [r EXCEPT !.state = Idle, !.tried = TRUE] \in PeerRecord(Time)
         /\ [r EXCEPT !.state = OfferSent, !.tried = TRUE, !.offered = n] \in PeerRecord(Time)
         /\ [r EXCEPT !.heard = at] \in PeerRecord(Time)
         /\ [r EXCEPT !.outgoing = n] \in PeerRecord(Time)
         /\ [r EXCEPT !.unhandled = n] \in PeerRecord(Time)
  BY DEF PeerRecord

\* What one event of the exchange may make of a table.
Exchanges(t, p, at, n) ==
    {mark_heard(t, p, at), on_offer_response(t, p), on_sync_complete(t, p), on_failure(t, p),
     served(t, p, n), payload_applied(t, p, n), peer_sync_offer(t, p, n)}

\* It is a table in which no peer is lost.
LEMMA Exchanged ==
  ASSUME NEW t, Table(t), NEW p \in Peer, NEW at \in Time, NEW n \in Nat,
         NEW u \in Exchanges(t, p, at, n)
  PROVE  Table(u) /\ DOMAIN u \in {DOMAIN t, DOMAIN t \cup {p}}
<1> DEFINE r == upsert(t, p)
<1>1. r \in PeerRecord(Time) /\ Capped(n) \in 0 .. MaxMessages
  BY UpsertRecord, CappedCount
<1>2. Idle \in {Idle, OfferSent, Backoff} /\ OfferSent \in {Idle, OfferSent, Backoff}
      /\ Backoff \in {Idle, OfferSent, Backoff}
  OBVIOUS
<1>3. ASSUME NEW s \in PeerRecord(Time)
      PROVE  Table(Put(t, p, s)) /\ DOMAIN Put(t, p, s) = DOMAIN t \cup {p}
  BY PutTable
<1>4. CASE u = mark_heard(t, p, at) \/ u = on_offer_response(t, p) \/ u = on_failure(t, p)
             \/ u = on_sync_complete(t, p)
  BY <1>1, <1>2, <1>3, <1>4, RecordChanges
     DEF mark_heard, on_offer_response, on_failure, on_sync_complete
<1>5. CASE u = served(t, p, n)
  <2>1. CASE p \in DOMAIN t
    <3>1. t[p] \in PeerRecord(Time)
      BY <2>1 DEF Table
    <3>2. t[p].outgoing + n \in Nat
      BY SMTT(60), <3>1 DEF PeerRecord
    <3> QED
      BY <1>3, <1>5, <2>1, <3>1, <3>2, CappedCount, RecordChanges DEF served
  <2>2. CASE p \notin DOMAIN t
    BY <1>5, <2>2 DEF served
  <2> QED
    BY <2>1, <2>2
<1>6. CASE u = payload_applied(t, p, n)
  <2> DEFINE m == Put(t, p, [r EXCEPT !.unhandled = Capped(n)])
  <2>1. Table(m) /\ DOMAIN m = DOMAIN t \cup {p}
    BY <1>1, <1>3, RecordChanges
  <2>2. u = on_failure(m, p) \/ u = on_sync_complete(m, p)
    BY <1>6 DEF payload_applied
  <2> HIDE DEF m
  <2>3. upsert(m, p) \in PeerRecord(Time)
    BY <2>1, UpsertRecord
  <2>4. /\ [upsert(m, p) EXCEPT !.state = Backoff] \in PeerRecord(Time)
        /\ [upsert(m, p) EXCEPT !.state = Idle, !.tried = TRUE] \in PeerRecord(Time)
    BY <1>1, <1>2, <2>3, RecordChanges
  <2>5. Table(u) /\ DOMAIN u = DOMAIN m \cup {p}
    <3>1. ASSUME NEW s \in PeerRecord(Time)
          PROVE  Table(Put(m, p, s)) /\ DOMAIN Put(m, p, s) = DOMAIN m \cup {p}
      BY <2>1, PutTable
    <3> QED
      BY <2>2, <2>4, <3>1 DEF on_failure, on_sync_complete
  <2> QED
    BY <2>1, <2>5
<1>7. CASE u = peer_sync_offer(t, p, n)
  <2>1. r.offered + n \in Nat
    BY SMTT(60), <1>1 DEF PeerRecord
  <2> QED
    BY <1>1, <1>3, <1>7, <2>1, CappedCount, RecordChanges DEF peer_sync_offer
<1> QED
  BY <1>4, <1>5, <1>6, <1>7 DEF Exchanges

\* The peer table after an event: peers may join it, none leaves.
LEMMA TableGrows ==
  ASSUME TableOK, Table(peers)', DOMAIN peers \subseteq DOMAIN peers', UNCHANGED savedPeers
  PROVE  TableOK'
  BY DEF TableOK, Table

\* An event of the exchange with a peer.
LEMMA PeerExchanged ==
  ASSUME TableOK, now \in Time, NEW p \in Peer, NEW n \in Nat, UNCHANGED savedPeers,
         peers' \in {mark_heard(peers, p, now), on_offer_response(peers, p),
                    on_sync_complete(peers, p), on_failure(peers, p),
                    served(peers, p, n), payload_applied(peers, p, n)}
  PROVE  TableOK' /\ DOMAIN peers \subseteq DOMAIN peers'
<1>1. Table(peers)
  BY DEF TableOK
<1>2. ASSUME NEW u, u = peers'
      PROVE  Table(u) /\ DOMAIN u \in {DOMAIN peers, DOMAIN peers \cup {p}}
  <2>1. u \in Exchanges(peers, p, now, n)
    BY <1>2 DEF Exchanges
  <2> QED
    BY <1>1, <2>1, Exchanged
<1>3. Table(peers') /\ DOMAIN peers \subseteq DOMAIN peers'
  BY <1>2
<1> QED
  BY <1>3, TableGrows

\* Peers leave the table and the disk together.
LEMMA Unpeered ==
  ASSUME TableOK, NEW t, Table(t), DOMAIN t = DOMAIN peers, NEW S, unpeer(t, S)
  PROVE  TableOK' /\ DOMAIN peers' = DOMAIN peers \ S
<1>1. /\ DOMAIN peers' = DOMAIN t \ S /\ \A p \in DOMAIN peers' : peers'[p] = t[p]
      /\ DOMAIN savedPeers' = DOMAIN savedPeers \ (S \cap DOMAIN t)
      /\ \A p \in DOMAIN savedPeers' : savedPeers'[p] = savedPeers[p]
  BY DEF unpeer, Without, Restrict
<1>2. IsFiniteSet(DOMAIN peers') /\ IsFiniteSet(DOMAIN savedPeers')
  BY <1>1, FS_Subset DEF TableOK, Table
<1> QED
  BY <1>1, <1>2 DEF TableOK, Table

\* The number of entries, which an offer counts.
LEMMA FiniteStore ==
  ASSUME StoreOK
  PROVE  IsFiniteSet(DOMAIN entries) /\ Cardinality(DOMAIN entries) \in Nat
<1>1. DOMAIN entries \subseteq {f.id : f \in files}
  <2> SUFFICES ASSUME NEW i \in DOMAIN entries PROVE \E f \in files : f.id = i
    OBVIOUS
  <2>1. File(i, entries[i]) \in files
    BY DEF StoreOK, FilesOf
  <2> QED
    BY <2>1, FileOf
<1>2. IsFiniteSet(DOMAIN entries)
  BY <1>1, FiniteIds, FS_Subset DEF StoreOK
<1> QED
  BY <1>2, FS_CardinalityType

\* What rotate_peers may choose: Idle peers that are not static, and so few that
\* the table stays as full as the headroom asks, with at least two peers.
LEMMA Rotated ==
  ASSUME NEW t, Table(t), NEW s, NEW out \in rotate_peers(t, s)
  PROVE  /\ out \subseteq DOMAIN t /\ out \cap s = {}
         /\ \A p \in out : t[p].state = Idle
         /\ out # {} => /\ Cardinality(DOMAIN t \ out) >= Max({2, MaxPeers - Headroom})
                        /\ Cardinality(DOMAIN t \ out) >= 2
<1> DEFINE n == Cardinality(DOMAIN t)
           room == MaxPeers - Headroom
           drops == n - Max({0, room})
           untested == {p \in DOMAIN t : ~t[p].tried}
           synced == {p \in DOMAIN t : t[p].unhandled = 0}
           pool == {p \in IF synced # {} THEN synced ELSE DOMAIN t :
                      p \notin s /\ t[p].state = Idle}
           waiting == {p \in pool : t[p].heard > 0 /\ t[p].offered > 0}
           unresponsive == {p \in pool : t[p].heard = 0}
           dropPool == unresponsive \cup waiting
<1>1. CASE drops <= 0 \/ n - drops <= 1 \/ Cardinality(untested) >= Headroom
  BY <1>1 DEF rotate_peers
<1>2. CASE ~(drops <= 0 \/ n - drops <= 1 \/ Cardinality(untested) >= Headroom)
  <2>1. out \in {{p \in S : LowRate(t[p])} :
                    S \in {S \in SUBSET dropPool :
                              /\ Cardinality(S) = Min({drops, Cardinality(dropPool)})
                              /\ \A p \in S, q \in dropPool \ S : ~AcceptsLess(t[q], t[p])}}
    BY <1>2 DEF rotate_peers
  <2>2. PICK S \in SUBSET dropPool : /\ Cardinality(S) = Min({drops, Cardinality(dropPool)})
                                     /\ out = {p \in S : LowRate(t[p])}
    BY <2>1
  <2>3. out \subseteq S /\ S \subseteq dropPool /\ dropPool \subseteq pool /\ pool \subseteq DOMAIN t
    BY <2>2
  <2>4. out \subseteq DOMAIN t /\ out \cap s = {} /\ \A p \in out : t[p].state = Idle
    BY <2>3
  <2>5. MaxPeers \in Int /\ MaxPeers \div 10 \in Int
    BY SMTT(60), PeerAssumption
  <2>6. Headroom \in Int
    <3>1. 1 \in Int
      BY SMTT(60)
    <3>2. Headroom \in {1, MaxPeers \div 10}
      BY <2>5, <3>1, MaxOfTwo DEF Headroom
    <3> QED
      BY <2>5, <3>1, <3>2
  <2>7. /\ IsFiniteSet(DOMAIN t) /\ IsFiniteSet(S) /\ IsFiniteSet(dropPool) /\ IsFiniteSet(out)
    BY <2>3, FS_Subset DEF Table
  <2> HIDE DEF pool, waiting, unresponsive, dropPool, untested, synced
  <2>8. n \in Nat /\ Cardinality(S) \in Nat /\ Cardinality(dropPool) \in Nat
        /\ Cardinality(out) \in Nat /\ Cardinality(out) <= Cardinality(S)
    BY <2>3, <2>7, FS_CardinalityType, FS_Subset
  <2>9. Cardinality(DOMAIN t \ out) = n - Cardinality(out)
    <3>1. DOMAIN t \cap out = out
      BY <2>4
    <3> QED
      BY <2>7, <3>1, FS_Difference
  <2>10. room \in Int /\ Max({0, room}) \in {0, room} /\ Max({2, room}) \in {2, room}
         /\ Max({0, room}) >= room
    <3>1. room \in Int /\ 0 \in Int /\ 2 \in Int
      BY SMTT(60), <2>5, <2>6
    <3> QED
      BY <3>1, MaxOfTwo
  <2>11. Min({drops, Cardinality(dropPool)}) <= drops
    <3>1. drops \in Int /\ Cardinality(dropPool) \in Int
      BY SMTT(60), <2>8, <2>10
    <3> QED
      BY <3>1, MinOfTwo
  <2> DEFINE m0 == Max({0, room})
             m2 == Max({2, room})
             k == Min({drops, Cardinality(dropPool)})
             left == Cardinality(DOMAIN t \ out)
             co == Cardinality(out)
             cs == Cardinality(S)
  <2>12. /\ ~(n - m0 <= 0) /\ ~(n - (n - m0) <= 1) /\ k <= n - m0 /\ cs = k /\ co <= cs
         /\ left = n - co
    BY <1>2, <2>2, <2>8, <2>9, <2>11
  <2> HIDE DEF m0, m2, k, left, co, cs, n, room
  <2>13. left >= m2 /\ left >= 2
    BY SMTT(60), <2>8, <2>10, <2>12 DEF m0, m2, k, co, cs, n
  <2> QED
    BY <2>4, <2>13 DEF m2, left, room
<1> QED
  BY <1>1, <1>2

\* The job of poll_peer_sync_timeouts and schedule_peer_sync: the same peers, and
\* none that was busy comes out Idle.
LEMMA PeerSynced ==
  ASSUME TableOK, StoreOK, now \in Time, NEW t \in PeerSyncJob
  PROVE  Table(t) /\ DOMAIN t = DOMAIN peers
         /\ \A p \in DOMAIN t : t[p].state = Idle => peers[p].state = Idle
<1> DEFINE n == Cardinality(DOMAIN entries)
           timedOut(S) == [p \in DOMAIN peers |->
                             IF p \in S THEN [peers[p] EXCEPT !.state = Backoff] ELSE peers[p]]
<1>1. PICK S \in SUBSET DOMAIN peers :
        \/ t = timedOut(S)
        \/ \E p \in DOMAIN timedOut(S) : t = peer_sync_offer(timedOut(S), p, n)
  <2> DEFINE pending == {p \in DOMAIN peers : peers[p].state = OfferSent}
             ready(S) == {p \in DOMAIN timedOut(S) : timedOut(S)[p].state # OfferSent}
             jobs(S) == {timedOut(S)} \cup {peer_sync_offer(timedOut(S), p, n) : p \in ready(S)}
  <2>1. PeerSyncJob = UNION {jobs(S) : S \in SUBSET pending}
    BY DEF PeerSyncJob
  <2>2. PICK S \in SUBSET pending : t \in jobs(S)
    BY <2>1
  <2> QED
    BY <2>2
<1> DEFINE u == timedOut(S)
<1>2. n \in Nat
  BY FiniteStore
<1> HIDE DEF n
<1>3. \A p \in DOMAIN peers : /\ peers[p] \in PeerRecord(Time)
                              /\ [peers[p] EXCEPT !.state = Backoff] \in PeerRecord(Time)
  BY DEF TableOK, Table, PeerRecord
<1>4. DOMAIN u = DOMAIN peers /\ Table(u)
  BY <1>3 DEF TableOK, Table
<1>5. \A p \in DOMAIN peers : u[p].state = Idle => peers[p].state = Idle
  <2> SUFFICES ASSUME NEW p \in DOMAIN peers, u[p].state = Idle PROVE peers[p].state = Idle
    OBVIOUS
  <2>1. [peers[p] EXCEPT !.state = Backoff].state = Backoff
    BY SMTT(60), <1>3 DEF PeerRecord
  <2>2. u[p] = IF p \in S THEN [peers[p] EXCEPT !.state = Backoff] ELSE peers[p]
    OBVIOUS
  <2>3. Idle # Backoff
    BY SMTT(60) DEF Idle, Backoff
  <2> HIDE DEF u
  <2> QED
    BY <2>1, <2>2, <2>3
<1>6. t = u \/ \E p \in DOMAIN u : t = peer_sync_offer(u, p, n)
  BY <1>1
<1> HIDE DEF timedOut, u
<1>7. CASE t = u
  BY <1>4, <1>5, <1>7
<1>8. CASE \E p \in DOMAIN u : t = peer_sync_offer(u, p, n)
  <2>1. PICK p \in DOMAIN u : t = peer_sync_offer(u, p, n)
    BY <1>8
  <2>2. p \in Peer
    BY <1>4 DEF TableOK, Table
  <2>3. Table(t) /\ DOMAIN t \in {DOMAIN u, DOMAIN u \cup {p}}
    BY <1>2, <1>4, <2>1, <2>2, Exchanged DEF Exchanges
  <2>4. upsert(u, p) = u[p] /\ u[p] \in PeerRecord(Time)
    BY <1>4 DEF upsert, Table
  <2> DEFINE r == [u[p] EXCEPT !.state = OfferSent, !.tried = TRUE, !.offered = Capped(@ + n)]
  <2>5. r.state = OfferSent
    BY SMTT(60), <2>4 DEF PeerRecord
  <2> HIDE DEF r
  <2>6. t[p] = r /\ \A q \in DOMAIN u \ {p} : t[q] = u[q]
    BY <2>1, <2>4 DEF peer_sync_offer, Put, r
  <2>7. Idle # OfferSent
    BY SMTT(60) DEF Idle, OfferSent
  <2> QED
    BY <1>4, <1>5, <2>3, <2>5, <2>6, <2>7
<1> QED
  BY <1>6, <1>7, <1>8

-----------------------------------------------------------------------------
(* The queues.                                                             *)

\* A peer's queues go with it.
LEMMA Forgotten ==
  ASSUME QueuesOK, NEW S, Forget(S), DOMAIN peers \ S \subseteq DOMAIN peers',
         UNCHANGED <<dist, handled, unhandled>>
  PROVE  /\ QueuesOK'
         /\ \A p \in Peer \ S : unhandledQ'[p] = unhandledQ[p]
<1>1. /\ handledQ' = [p \in Peer |-> IF p \in S THEN {} ELSE handledQ[p]]
      /\ unhandledQ' = [p \in Peer |-> IF p \in S THEN {} ELSE unhandledQ[p]]
  BY DEF Forget
<1>2. handledQ' \in [Peer -> SUBSET Id] /\ unhandledQ' \in [Peer -> SUBSET Id]
  BY <1>1 DEF QueuesOK
<1>3. \A p \in Peer \ DOMAIN peers' : handledQ'[p] = {} /\ unhandledQ'[p] = {}
  BY <1>1 DEF QueuesOK
<1> QED
  BY <1>1, <1>2, <1>3 DEF QueuesOK

\* No queues at all.
LEMMA EmptyQueues ==
  ASSUME handledQ' = NoQueue, unhandledQ' = NoQueue
  PROVE  /\ handledQ' \in [Peer -> SUBSET Id] /\ unhandledQ' \in [Peer -> SUBSET Id]
         /\ \A p \in Peer : handledQ'[p] = {} /\ unhandledQ'[p] = {}
  BY DEF NoQueue

\* What a peer has queued after the distribution queue is handed on.
LEMMA FlushedQueue ==
  ASSUME QueuesOK, NEW p \in Peer
  PROVE  /\ FlushedTo(p) \subseteq Id /\ unhandledQ[p] \subseteq FlushedTo(p)
         /\ \A d \in dist : d[2] # p => d[1] \in FlushedTo(p)
<1>1. \A d \in dist : d[1] \in Id
  BY SMTT(60) DEF QueuesOK
<1> QED
  BY <1>1 DEF FlushedTo, QueuesOK

\* flush_queues: what was queued for a peer that is there and is stored is marked
\* one way or the other, and nothing marked handled is marked unhandled.
LEMMA QueuesFlushed ==
  ASSUME QueuesOK, NEW P \in SUBSET Peer, NEW stored, flush_queues(P, stored),
         P = DOMAIN peers', stored = DOMAIN entries',
         P = {} => DOMAIN peers = {}
  PROVE  QueuesOK' /\ HandledStep /\ SkipStep
<1>1. CASE P = {}
  <2>1. UNCHANGED distVars
    BY <1>1 DEF flush_queues
  <2>2. QueuesOK'
    BY <1>1, <2>1, QueuesStay
  <2> QED
    BY <1>1, <2>1, <2>2 DEF HandledStep, SkipStep, Pending, distVars
<1>2. CASE P # {}
  <2> DEFINE marks == [p \in P |-> process_queues(p, FlushedTo(p), stored)]
             taken == UNION {marks[p].handled \X {p} : p \in P}
             given == UNION {marks[p].unhandled \X {p} : p \in P}
  <2>1. /\ dist' = {} /\ handledQ' = NoQueue /\ unhandledQ' = NoQueue
        /\ handled' = handled \cup taken
        /\ unhandled' = (unhandled \ taken) \cup given
    BY <1>2 DEF flush_queues
  <2>2. ASSUME NEW p \in P
        PROVE  /\ marks[p].handled = handledQ[p] \cap stored
               /\ marks[p].unhandled =
                    {i \in FlushedTo(p) \cap stored : <<i, p>> \notin handled \cup unhandled}
    <3>1. marks[p] = process_queues(p, FlushedTo(p), stored)
      OBVIOUS
    <3> HIDE DEF marks
    <3> QED
      BY SMTT(60), <3>1 DEF process_queues
  <2> HIDE DEF marks
  <2>3. \A m \in taken : \E p \in P : \E i \in marks[p].handled : m = <<i, p>>
    BY SMTT(60)
  <2>4. \A m \in given : \E p \in P : \E i \in marks[p].unhandled : m = <<i, p>>
    BY SMTT(60)
  <2>5. \A p \in P : \A i \in marks[p].unhandled : <<i, p>> \in given
    BY SMTT(60)
  <2> HIDE DEF taken, given
  <2>6. taken \subseteq Id \X Peer
    <3>1. \A p \in P : p \in Peer /\ marks[p].handled \subseteq Id
      BY <2>2 DEF QueuesOK
    <3>2. \A m \in taken : m \in Id \X Peer
      BY SMTT(60), <2>3, <3>1
    <3> QED
      BY <3>2
  <2>7. /\ given \subseteq Id \X Peer
        /\ \A m \in given : m \notin handled \cup unhandled
    <3> SUFFICES ASSUME NEW m \in given
                 PROVE  m \in Id \X Peer /\ m \notin handled \cup unhandled
      OBVIOUS
    <3>1. PICK p \in P : \E i \in marks[p].unhandled : m = <<i, p>>
      BY <2>4
    <3>2. PICK i \in marks[p].unhandled : m = <<i, p>>
      BY <3>1
    <3>3. i \in FlushedTo(p) /\ <<i, p>> \notin handled \cup unhandled
      BY <2>2, <3>2
    <3>4. i \in Id
      BY <3>3, FlushedQueue
    <3> QED
      BY <3>2, <3>3, <3>4
  <2>8. QueuesOK'
    BY <2>1, <2>6, <2>7, EmptyQueues DEF QueuesOK
  <2>9. HandledStep
    BY <2>1, <2>7 DEF HandledStep
  <2>10. SkipStep
    <3> SUFFICES ASSUME NEW i \in Id, NEW p \in Peer, Pending(i, p),
                        i \in DOMAIN entries', p \in DOMAIN peers'
                 PROVE  <<i, p>> \in handled' \cup unhandled'
      BY DEF SkipStep
    <3>1. i \in FlushedTo(p) \cap stored /\ p \in P
      BY FlushedQueue DEF Pending
    <3>2. <<i, p>> \in handled \cup unhandled \/ i \in marks[p].unhandled
      BY <2>2, <3>1
    <3> QED
      BY <2>1, <2>5, <3>1, <3>2
  <2> QED
    BY <2>8, <2>9, <2>10
<1> QED
  BY <1>1, <1>2

-----------------------------------------------------------------------------
(* Messages in and out.                                                    *)

\* A call that concerns the peer table is counted.
LEMMA Spent ==
  ASSUME CountersOK, Spend, UNCHANGED <<count, boots>>
  PROVE  CountersOK'
<1>1. budget.calls \in Nat /\ budget.calls > 0 /\ budget' = [budget EXCEPT !.calls = @ - 1]
  BY DEF CountersOK, Spend, Budget
<1>2. budget.calls - 1 \in Nat
  BY SMTT(60), <1>1
<1>3. budget' \in Budget
  BY <1>1, <1>2 DEF CountersOK, Budget
<1>4. budget'.restarts = budget.restarts /\ budget'.ids = budget.ids
  BY SMTT(60), <1>1 DEF CountersOK, Budget
<1> QED
  BY <1>3, <1>4 DEF CountersOK

\* A batch is taken, and nothing else happens.
LEMMA TakeStep ==
  ASSUME NodeInv, NEW batch \in SUBSET Id, IsFiniteSet(batch), NEW at \in Stamp,
         process_propagated(batch, at),
         UNCHANGED <<now, leftover, distVars, peerVars, count, boots, budget>>
  PROVE  NodeInv' /\ StepOK
<1> USE InvParts
<1>1. StoreOK' /\ CacheOK' /\ AcceptStep
  BY BatchTaken
<1>2. HandledStep /\ RotateStep /\ SkipStep
  BY PendingKept DEF HandledStep, RotateStep, distVars, peerVars
<1>3. QueuesOK' /\ TableOK' /\ CountersOK'
  BY QueuesStay, TableStays, CountersStay DEF peerVars
<1> QED
  BY <1>1, <1>2, <1>3, InvPartsNext DEF StepOK

\* One message arrives.
LEMMA ReceiveStep ==
  ASSUME NodeInv, NEW i \in Id, NEW at \in Stamp, ReceivePropagated(i, at)
  PROVE  NodeInv' /\ StepOK
<1>1. /\ process_propagated({i}, at)
      /\ UNCHANGED <<now, leftover, distVars, peerVars, count, boots, budget>>
  BY DEF ReceivePropagated, receive_propagated
<1>2. IsFiniteSet({i})
  BY FS_Singleton
<1> QED
  BY <1>1, <1>2, TakeStep

\* A resource arrives: its messages are taken, or its sender has failed.
LEMMA ResourceStep ==
  ASSUME NodeInv, NEW remote \in Peer \cup {NoPeer}, NEW batch \in SUBSET budget.ids,
         NEW keyValid \in BOOLEAN, process_propagation_resource(remote, batch, keyValid)
  PROVE  NodeInv' /\ StepOK
<1> USE InvParts
<1>1. /\ Admitted(remote, batch)
      /\ UNCHANGED <<now, configured, distVars, leftover, count, boots>>
  BY DEF process_propagation_resource
<1>2. CASE Cardinality(batch) > 1 /\ ~keyValid
  <2>1. Spend /\ peers' = on_failure(peers, remote) /\ UNCHANGED <<diskVars, acceptedAt, savedPeers>>
    BY <1>2 DEF process_propagation_resource
  <2>2. remote \in Peer
    BY <1>1, <1>2 DEF Admitted
  <2>3. now \in Time /\ 0 \in Nat
    BY SMTT(60) DEF CacheOK
  <2>4. TableOK' /\ DOMAIN peers \subseteq DOMAIN peers'
    BY <2>1, <2>2, <2>3, PeerExchanged
  <2>5. QueuesOK'
    BY <1>1, <2>4, QueuesStay
  <2>6. StoreOK' /\ CacheOK' /\ CountersOK'
    BY <1>1, <2>1, StoreStays, CacheStays, Spent DEF diskVars
  <2>7. StepOK
    BY <1>1, <2>1, QuietStep DEF distVars
  <2> QED
    BY <2>4, <2>5, <2>6, <2>7, InvPartsNext
<1>3. CASE ~(Cardinality(batch) > 1 /\ ~keyValid)
  <2>1. process_propagated(batch, now) /\ UNCHANGED <<peerVars, budget>>
    BY <1>3 DEF process_propagation_resource
  <2>2. batch \in SUBSET Id /\ IsFiniteSet(batch)
    BY FS_Subset DEF CountersOK, Budget
  <2>3. now \in Stamp
    BY DEF CacheOK, Stamp
  <2> QED
    BY <1>1, <2>1, <2>2, <2>3, TakeStep
<1> QED
  BY <1>2, <1>3

\* A peer acknowledges what it took.
LEMMA AckStep ==
  ASSUME NodeInv, NEW p \in Peer, NEW S \in SUBSET DOMAIN entries, handle_peer_sync_ack(p, S)
  PROVE  NodeInv' /\ StepOK
<1> USE InvParts
<1>1. /\ Spend /\ entries' = Restrict(entries, DOMAIN entries \ S)
      /\ files' = files \ FilesOf(Restrict(entries, S))
      /\ peers' = on_sync_complete(peers, p)
      /\ UNCHANGED <<now, processed, saved, configured, distVars, leftover, acceptedAt,
                     savedPeers, count, boots>>
  BY DEF handle_peer_sync_ack
<1>2. DOMAIN entries' = DOMAIN entries \ S /\ \A i \in DOMAIN entries' : entries'[i] = entries[i]
  BY <1>1 DEF Restrict
<1>3. StoreOK'
  BY <1>1, <1>2, EntriesRemoved
<1>4. now \in Time /\ 0 \in Nat
  BY SMTT(60) DEF CacheOK
<1>5. TableOK' /\ DOMAIN peers \subseteq DOMAIN peers'
  BY <1>1, <1>4, PeerExchanged
<1>6. QueuesOK' /\ CacheOK' /\ CountersOK'
  BY <1>1, <1>5, QueuesStay, CacheStays, Spent
<1>7. StepOK
  BY <1>1, QuietStep DEF distVars
<1> QED
  BY <1>3, <1>5, <1>6, <1>7, InvPartsNext

\* Entries up to a cutoff are dropped with their marks.
LEMMA CleanupStep ==
  ASSUME NodeInv, NEW cutoff, CleanupPropagation(cutoff)
  PROVE  NodeInv' /\ StepOK
<1> USE InvParts
<1>1. cleanup_propagation(cutoff) /\ UNCHANGED <<peerVars, count, boots, budget>>
  BY DEF CleanupPropagation
<1>2. /\ handled' \subseteq handled /\ unhandled' \subseteq unhandled
      /\ UNCHANGED <<now, files, processed, saved, configured, dist, handledQ, unhandledQ, acceptedAt>>
  BY <1>1 DEF cleanup_propagation
<1>3. QueuesOK'
  BY <1>1, <1>2 DEF QueuesOK, peerVars
<1>4. StoreOK' /\ CacheOK' /\ TableOK' /\ CountersOK'
  BY <1>1, <1>2, StoreTrimmed, CacheStays, TableStays, CountersStay DEF peerVars
<1>5. StepOK
  BY <1>1, <1>2, QuietStep
<1> QED
  BY <1>3, <1>4, <1>5, InvPartsNext

\* A stored message waits to be distributed.
LEMMA EnqueueStep ==
  ASSUME NodeInv, NEW i \in Id, NEW from \in Peer \cup {NoPeer}, Enqueue(i, from)
  PROVE  NodeInv' /\ StepOK
<1> USE InvParts
<1>1. /\ dist' = dist \cup {<<i, from>>}
      /\ UNCHANGED <<now, diskVars, configured, handledQ, unhandledQ, handled, unhandled, leftover,
                     acceptedAt, peerVars, count, boots, budget>>
  BY DEF Enqueue, enqueue_peer_distribution
<1>2. QueuesOK'
  <2>1. <<i, from>> \in Id \X (Peer \cup {NoPeer})
    OBVIOUS
  <2>2. dist' \subseteq Id \X (Peer \cup {NoPeer})
    BY SMTT(60), <1>1, <2>1 DEF QueuesOK
  <2> QED
    BY <1>1, <2>2 DEF QueuesOK, peerVars
<1>3. StoreOK' /\ CacheOK' /\ TableOK' /\ CountersOK'
  BY <1>1, StoreStays, CacheStays, TableStays, CountersStay DEF peerVars, diskVars
<1>4. StepOK
  BY <1>1, QuietStep
<1> QED
  BY <1>2, <1>3, <1>4, InvPartsNext

\* A peer is known to have a message.
LEMMA QueueHandledStep ==
  ASSUME NodeInv, NEW p \in Peer, NEW i \in Id, QueueHandled(p, i)
  PROVE  NodeInv' /\ StepOK
<1> USE InvParts
<1>1. /\ handledQ' = [handledQ EXCEPT ![p] = @ \cup {i}] /\ p \in DOMAIN peers
      /\ UNCHANGED <<now, diskVars, configured, dist, unhandledQ, handled, unhandled, leftover,
                     acceptedAt, peerVars, count, boots, budget>>
  BY DEF QueueHandled, queue_handled_message
<1>2. handledQ' \in [Peer -> SUBSET Id] /\ \A q \in Peer \ {p} : handledQ'[q] = handledQ[q]
  BY <1>1 DEF QueuesOK
<1>3. QueuesOK'
  BY <1>1, <1>2 DEF QueuesOK, peerVars
<1>4. StoreOK' /\ CacheOK' /\ TableOK' /\ CountersOK'
  BY <1>1, StoreStays, CacheStays, TableStays, CountersStay DEF peerVars, diskVars
<1>5. StepOK
  BY <1>1, QuietStep
<1> QED
  BY <1>3, <1>4, <1>5, InvPartsNext

\* The distribution queue is handed to the peers: whatever was pending for one of
\* them still is.
LEMMA FlushStep ==
  ASSUME NodeInv, FlushDistribution
  PROVE  NodeInv' /\ StepOK
<1> USE InvParts
<1>1. /\ dist' = {}
      /\ unhandledQ' = [p \in Peer |-> IF p \in DOMAIN peers THEN FlushedTo(p) ELSE unhandledQ[p]]
      /\ UNCHANGED <<now, diskVars, configured, handledQ, handled, unhandled, leftover,
                     acceptedAt, peerVars, count, boots, budget>>
  BY DEF FlushDistribution, flush_peer_distribution_queue
<1>2. unhandledQ' \in [Peer -> SUBSET Id]
  BY <1>1, FlushedQueue DEF QueuesOK
<1>3. QueuesOK'
  BY <1>1, <1>2 DEF QueuesOK, peerVars
<1>4. StoreOK' /\ CacheOK' /\ TableOK' /\ CountersOK'
  BY <1>1, StoreStays, CacheStays, TableStays, CountersStay DEF peerVars, diskVars
<1>5. SkipStep
  <2> SUFFICES ASSUME NEW i \in Id, NEW p \in Peer, Pending(i, p)
               PROVE  Pending(i, p)'
    BY DEF SkipStep
  <2>1. p \in DOMAIN peers /\ i \in FlushedTo(p) /\ i \in DOMAIN entries
    BY FlushedQueue DEF Pending
  <2> QED
    BY <1>1, <2>1 DEF Pending, peerVars, diskVars
<1>6. AcceptStep /\ HandledStep /\ RotateStep
  BY <1>1 DEF AcceptStep, HandledStep, RotateStep
<1> QED
  BY <1>3, <1>4, <1>5, <1>6, InvPartsNext DEF StepOK

-----------------------------------------------------------------------------
(* Peers.                                                                  *)

\* An event of the exchange.
LEMMA EventStep ==
  ASSUME NodeInv, NEW p \in Peer, PeerEvent(p)
  PROVE  NodeInv' /\ StepOK
<1> USE InvParts
<1>1. Spend /\ UNCHANGED <<storeVars, savedPeers, count, boots>>
  BY DEF PeerEvent
<1>2. \E n \in 0 .. 1 :
        peers' \in {mark_heard(peers, p, now), on_offer_response(peers, p),
                    on_sync_complete(peers, p), on_failure(peers, p),
                    served(peers, p, n), payload_applied(peers, p, n)}
  <2>1. 0 \in 0 .. 1
    BY SMTT(60)
  <2> QED
    BY <2>1 DEF PeerEvent
<1>3. now \in Time /\ \A n \in 0 .. 1 : n \in Nat
  BY SMTT(60) DEF CacheOK
<1>4. TableOK' /\ DOMAIN peers \subseteq DOMAIN peers'
  BY <1>1, <1>2, <1>3, PeerExchanged
<1>5. StoreOK' /\ CacheOK' /\ QueuesOK' /\ CountersOK'
  BY <1>1, <1>4, StoreStays, CacheStays, QueuesStay, Spent DEF storeVars, diskVars
<1>6. StepOK
  BY <1>1, QuietStep DEF storeVars, distVars
<1> QED
  BY <1>4, <1>5, <1>6, InvPartsNext

\* The operator sets a peer back to Idle, or drops it with its queues.
LEMMA ControlStep ==
  ASSUME NodeInv, NEW p \in Peer, handle_control_request(p)
  PROVE  NodeInv' /\ StepOK
<1> USE InvParts
<1>1. /\ Spend /\ p \in DOMAIN peers
      /\ UNCHANGED <<now, diskVars, configured, dist, handled, unhandled, leftover, acceptedAt,
                     count, boots>>
  BY DEF handle_control_request
<1>2. StoreOK' /\ CacheOK' /\ CountersOK'
  BY <1>1, StoreStays, CacheStays, Spent DEF diskVars
<1>3. CASE peers' = [peers EXCEPT ![p].state = Idle] /\ UNCHANGED <<savedPeers, handledQ, unhandledQ>>
  <2> DEFINE r == [peers[p] EXCEPT !.state = Idle]
  <2>1. r \in PeerRecord(Time)
    BY <1>1 DEF TableOK, Table, PeerRecord
  <2>2. peers' = [peers EXCEPT ![p] = r]
    BY <1>3
  <2> HIDE DEF r
  <2>3. Table(peers') /\ DOMAIN peers' = DOMAIN peers
    BY <2>1, <2>2 DEF TableOK, Table
  <2>4. TableOK'
    BY <1>3, <2>3, TableGrows
  <2>5. QueuesOK'
    BY <1>1, <1>3, <2>3 DEF QueuesOK
  <2>6. StepOK
    BY <1>1, <1>3, QuietStep
  <2> QED
    BY <1>2, <2>4, <2>5, <2>6, InvPartsNext
<1>4. CASE unpeer(peers, {p}) /\ Forget({p})
  <2>1. TableOK' /\ DOMAIN peers' = DOMAIN peers \ {p}
    BY <1>4, Unpeered DEF TableOK
  <2>2. QueuesOK' /\ \A q \in Peer \ {p} : unhandledQ'[q] = unhandledQ[q]
    BY <1>1, <1>4, <2>1, Forgotten
  <2>3. StepOK
    BY <1>1, <2>1, <2>2, QuietStep
  <2> QED
    BY <1>2, <2>1, <2>2, <2>3, InvPartsNext
<1> QED
  BY <1>3, <1>4 DEF handle_control_request

\* sync_peers offers to a peer and drops the unreachable ones with their queues.
LEMMA SyncStep ==
  ASSUME NodeInv, sync_peers
  PROVE  NodeInv' /\ StepOK
<1> USE InvParts
<1> DEFINE n == Cardinality(DOMAIN entries)
           queued == {p \in Peer : unhandledQ[p] # {}}
           culled == Culled(peers, static, now)
           waiting == Waiting(peers, now, queued)
           offered == IF waiting = {} THEN {peers}
                      ELSE {peer_sync_offer(peers, p, n) : p \in waiting}
<1>1. /\ Spend /\ Forget(culled)
      /\ UNCHANGED <<now, diskVars, configured, dist, handled, unhandled, leftover, acceptedAt,
                     count, boots>>
  BY DEF sync_peers
<1>2. PICK t \in offered : unpeer(t, culled)
  BY DEF sync_peers
<1>3. waiting \subseteq DOMAIN peers
  BY DEF Waiting
<1>4. now \in Time /\ n \in Nat /\ Table(peers)
  BY FiniteStore DEF CacheOK, TableOK
<1>5. t = peers \/ \E p \in DOMAIN peers : t = peer_sync_offer(peers, p, n)
  BY <1>2, <1>3
<1> HIDE DEF n, queued, culled, waiting, offered
<1>6. Table(t) /\ DOMAIN t = DOMAIN peers
  <2>1. CASE t = peers
    BY <1>4, <2>1
  <2>2. CASE \E p \in DOMAIN peers : t = peer_sync_offer(peers, p, n)
    <3>1. PICK p \in DOMAIN peers : t = peer_sync_offer(peers, p, n)
      BY <2>2
    <3>2. p \in Peer /\ t \in Exchanges(peers, p, now, n)
      BY <1>4, <3>1 DEF Table, Exchanges
    <3>3. Table(t) /\ DOMAIN t \in {DOMAIN peers, DOMAIN peers \cup {p}}
      BY <1>4, <3>2, Exchanged
    <3> QED
      BY <3>3
  <2> QED
    BY <1>5, <2>1, <2>2
<1>7. TableOK' /\ DOMAIN peers' = DOMAIN peers \ culled
  BY <1>2, <1>6, Unpeered
<1>8. QueuesOK' /\ \A q \in Peer \ culled : unhandledQ'[q] = unhandledQ[q]
  BY <1>1, <1>7, Forgotten
<1>9. StoreOK' /\ CacheOK' /\ CountersOK'
  BY <1>1, StoreStays, CacheStays, Spent DEF diskVars
<1>10. StepOK
  BY <1>1, <1>7, <1>8, QuietStep
<1> QED
  BY <1>7, <1>8, <1>9, <1>10, InvPartsNext

\* The peers are written to disk.
LEMMA SaveStep ==
  ASSUME NodeInv, SavePeers
  PROVE  NodeInv' /\ StepOK
<1> USE InvParts
<1>1. /\ Spend /\ UNCHANGED <<storeVars, count, boots, peers>>
      /\ savedPeers' = [p \in DOMAIN peers \cup DOMAIN savedPeers |->
                          IF p \in DOMAIN peers THEN peers[p] ELSE savedPeers[p]]
  BY DEF SavePeers, save_peers
<1>2. DOMAIN savedPeers' = DOMAIN peers /\ \A p \in DOMAIN peers : savedPeers'[p] = peers[p]
  BY <1>1 DEF TableOK
<1>3. Table(savedPeers')
  BY <1>2 DEF TableOK, Table
<1>4. TableOK'
  BY <1>1, <1>2, <1>3 DEF TableOK, Table
<1>5. StoreOK' /\ CacheOK' /\ QueuesOK' /\ CountersOK'
  BY <1>1, StoreStays, CacheStays, QueuesStay, Spent DEF storeVars, diskVars
<1>6. StepOK
  BY <1>1, QuietStep DEF storeVars, distVars
<1> QED
  BY <1>4, <1>5, <1>6, InvPartsNext

-----------------------------------------------------------------------------
(* The jobs of a tick, the restart, the configuration and the clock.       *)

\* The counters after a tick.
LEMMA TickCounters ==
  ASSUME CountersOK, count' = (count + 1) % Cycle, UNCHANGED boots,
         \/ UNCHANGED budget
         \/ budget.calls > 0 /\ budget' = [budget EXCEPT !.calls = @ - 1]
  PROVE  CountersOK'
<1>1. count' \in 0 .. Cycle - 1
  <2>1. count \in Int /\ Cycle \in Nat \ {0}
    BY SMTT(60), NodeAssumption DEF CountersOK
  <2> QED
    BY SMTT(60), <2>1
<1>2. CASE UNCHANGED budget
  BY <1>1, <1>2 DEF CountersOK
<1>3. CASE budget.calls > 0 /\ budget' = [budget EXCEPT !.calls = @ - 1]
  <2>1. budget \in Budget /\ IsFiniteSet(budget.ids) /\ boots \in 0 .. budget.restarts
    BY DEF CountersOK
  <2>2. budget.calls - 1 \in Nat
    BY SMTT(60), <1>3, <2>1 DEF Budget
  <2>3. budget' \in Budget
    BY <1>3, <2>1, <2>2 DEF Budget
  <2>4. budget'.restarts = budget.restarts /\ budget'.ids = budget.ids
    BY SMTT(60), <1>3, <2>1 DEF Budget
  <2> QED
    BY <1>1, <2>1, <2>3, <2>4 DEF CountersOK
<1> QED
  BY <1>2, <1>3

\* A tick: the caches, the exchange, the rotation, the store, the queues.
LEMMA TickStep ==
  ASSUME NodeInv, NEW pn_ran \in BOOLEAN, tick(pn_ran)
  PROVE  NodeInv' /\ StepOK
<1> USE InvParts
<1>1. count' = (count + 1) % Cycle /\ UNCHANGED <<now, configured, leftover, acceptedAt, boots>>
  BY DEF tick
<1>2. PICK t \in (IF pn_ran /\ budget.calls > 0 THEN PeerSyncJob ELSE {peers}) :
        \E out \in IF Due(RotateEvery) /\ configured THEN rotate_peers(t, static) ELSE {{}} :
          /\ unpeer(t, out)
          /\ budget' = [budget EXCEPT !.calls = IF t = peers THEN @ ELSE @ - 1]
  BY DEF tick
<1>3. PICK out \in (IF Due(RotateEvery) /\ configured THEN rotate_peers(t, static) ELSE {{}}) :
        /\ unpeer(t, out)
        /\ budget' = [budget EXCEPT !.calls = IF t = peers THEN @ ELSE @ - 1]
  BY <1>2
<1>4. /\ Table(t) /\ DOMAIN t = DOMAIN peers
      /\ \A p \in DOMAIN t : t[p].state = Idle => peers[p].state = Idle
  <2>1. CASE t = peers
    BY <2>1 DEF TableOK
  <2>2. CASE t \in PeerSyncJob
    BY <2>2, PeerSynced DEF CacheOK
  <2> QED
    BY <1>2, <2>1, <2>2
<1>5. out = {} \/ (configured /\ out \in rotate_peers(t, static))
  BY <1>3
<1>6. /\ out \subseteq DOMAIN t /\ out \cap Static = {} /\ \A p \in out : t[p].state = Idle
      /\ out # {} => /\ Cardinality(DOMAIN t \ out) >= Max({2, MaxPeers - Headroom})
                     /\ Cardinality(DOMAIN t \ out) >= 2
  BY <1>4, <1>5, Rotated DEF static
<1>7. TableOK' /\ DOMAIN peers' = DOMAIN peers \ out
  BY <1>3, <1>4, Unpeered
<1>8. CountersOK'
  <2>1. CASE t = peers
    <3>1. budget' = [budget EXCEPT !.calls = budget.calls]
      BY <1>3, <2>1
    <3>2. UNCHANGED budget
      BY <3>1 DEF CountersOK, Budget
    <3> QED
      BY <1>1, <3>2, TickCounters
  <2>2. CASE t # peers
    <3>1. budget.calls > 0 /\ budget' = [budget EXCEPT !.calls = @ - 1]
      BY <1>2, <1>3, <2>2
    <3> QED
      BY <1>1, <3>1, TickCounters
  <2> QED
    BY <2>1, <2>2
<1>9. CacheOK'
  <2>1. CASE pn_ran
    BY <1>1, <2>1, CachesCleaned DEF tick
  <2>2. CASE ~pn_ran
    BY <1>1, <2>2, CacheStays DEF tick
  <2> QED
    BY <2>1, <2>2
<1>10. StoreOK' /\ DOMAIN entries' \subseteq DOMAIN entries
  <2>1. CASE Due(StoreEvery)
    BY <1>1, <2>1, StoreCleaned DEF tick
  <2>2. CASE ~Due(StoreEvery)
    BY <1>1, <2>2, StoreStays DEF tick
  <2> QED
    BY <2>1, <2>2
<1>11. RotateStep
  <2>1. DOMAIN peers \ DOMAIN peers' = out
    BY <1>4, <1>6, <1>7
  <2>2. \A p \in out : peers[p].state = Idle
    BY <1>4, <1>6
  <2>3. out # {} => Cardinality(DOMAIN peers') >= Max({2, MaxPeers - Headroom})
    BY <1>4, <1>6, <1>7
  <2> QED
    BY <1>6, <2>1, <2>2, <2>3 DEF RotateStep
<1>12. DOMAIN peers' = {} => DOMAIN peers = {}
  <2> SUFFICES ASSUME DOMAIN peers' = {}, out # {} PROVE FALSE
    BY <1>7
  <2>1. Cardinality(DOMAIN peers') >= 2
    BY <1>4, <1>6, <1>7
  <2>2. Cardinality(DOMAIN peers') = 0
    BY FS_EmptySet
  <2> QED
    BY SMTT(60), <2>1, <2>2
<1>13. QueuesOK' /\ HandledStep /\ SkipStep
  <2>1. CASE Due(PeerSyncEvery)
    <3>1. flush_queues(DOMAIN peers', DOMAIN entries')
      BY <2>1 DEF tick
    <3>2. DOMAIN peers' \in SUBSET Peer
      BY <1>7 DEF TableOK, Table
    <3> QED
      BY <1>12, <3>1, <3>2, QueuesFlushed
  <2>2. CASE ~Due(PeerSyncEvery)
    <3>1. Forget(DOMAIN peers \ DOMAIN peers') /\ UNCHANGED <<dist, handled, unhandled>>
      BY <2>2 DEF tick
    <3>2. QueuesOK' /\ \A q \in Peer \ (DOMAIN peers \ DOMAIN peers') : unhandledQ'[q] = unhandledQ[q]
      BY <3>1, Forgotten
    <3>3. HandledStep
      BY <3>1 DEF HandledStep
    <3>4. SkipStep
      BY <3>1, <3>2, PendingKept
    <3> QED
      BY <3>2, <3>3, <3>4
  <2> QED
    BY <2>1, <2>2
<1>14. AcceptStep
  BY <1>1 DEF AcceptStep
<1> QED
  BY <1>7, <1>8, <1>9, <1>10, <1>11, <1>13, <1>14, InvPartsNext DEF StepOK

\* The node ends, between two operations or inside one, and starts again.
LEMMA RestartStep ==
  ASSUME NodeInv, NodeRestart
  PROVE  NodeInv' /\ StepOK
<1> USE InvParts
<1>1. /\ boots < budget.restarts /\ boots' = boots + 1 /\ count' = 0 /\ UNCHANGED budget
      /\ peers' = savedPeers /\ UNCHANGED savedPeers
  BY DEF NodeRestart, load_peers
<1>2. Restart \/ \E i \in Id, at \in Stamp : CrashInProcess(i, at)
  <2>1. budget.ids \subseteq Id /\ budget.until \in Time
    BY SMTT(60) DEF CountersOK, Budget
  <2>2. {Never} \cup Start .. budget.until \subseteq Stamp
    BY SMTT(60), <2>1, StoreAssumption DEF Stamp, Time
  <2> QED
    BY <2>1, <2>2 DEF NodeRestart
<1>3. StoreOK' /\ CacheOK'
  BY <1>2, StoreRestarted
<1>4. /\ dist' = {} /\ handledQ' = NoQueue /\ unhandledQ' = NoQueue
      /\ handled' = {} /\ unhandled' = {} /\ UNCHANGED acceptedAt
  BY <1>2 DEF Restart, CrashInProcess, with_store_and_root
<1>5. QueuesOK'
  BY <1>4, EmptyQueues DEF QueuesOK
<1>6. TableOK'
  BY <1>1 DEF TableOK, Table
<1>7. CountersOK' /\ boots' # boots
  <2>1. Cycle \in Nat \ {0} /\ boots \in 0 .. budget.restarts /\ budget.restarts \in Nat
    BY SMTT(60), NodeAssumption DEF CountersOK, Budget
  <2>2. 0 \in 0 .. Cycle - 1 /\ boots + 1 \in 0 .. budget.restarts /\ boots + 1 # boots
    BY SMTT(60), <1>1, <2>1
  <2> QED
    BY <1>1, <2>2 DEF CountersOK
<1>8. StepOK
  BY <1>4, <1>7 DEF StepOK, AcceptStep, HandledStep, RotateStep, SkipStep
<1> QED
  BY <1>3, <1>5, <1>6, <1>7, <1>8, InvPartsNext

\* The limits are set.
LEMMA ConfigureStep ==
  ASSUME NodeInv, Configure
  PROVE  NodeInv' /\ StepOK
<1> USE InvParts
<1>1. UNCHANGED <<now, diskVars, distVars, leftover, acceptedAt, peerVars, count, boots, budget>>
  BY DEF Configure, configure
<1>2. StoreOK' /\ CacheOK' /\ QueuesOK' /\ TableOK' /\ CountersOK'
  BY <1>1, StoreStays, CacheStays, QueuesStay, TableStays, CountersStay DEF diskVars, peerVars
<1>3. StepOK
  BY <1>1, QuietStep DEF distVars
<1> QED
  BY <1>2, <1>3, InvPartsNext

\* A day passes: what must be remembered only gets less.
LEMMA DayStep ==
  ASSUME NodeInv, Day
  PROVE  NodeInv' /\ StepOK
<1> USE InvParts
<1>1. /\ now < MaxNow /\ now' = now + 1
      /\ UNCHANGED <<diskVars, configured, distVars, leftover, acceptedAt, peerVars, count, boots,
                     budget>>
  BY DEF Day, Tick
<1>2. now' \in Time /\ \A x \in Int : now' <= x + CacheExpiry => now <= x + CacheExpiry
  BY SMTT(60), <1>1, StoreAssumption DEF CacheOK, Time
<1>3. \A i \in Id : acceptedAt[i] \in Int
  BY SMTT(60), StoreAssumption DEF CacheOK, Stamp, Time, Never
<1>4. CacheOK'
  BY <1>1, <1>2, <1>3 DEF CacheOK, Cache, Remembered, diskVars
<1>5. StoreOK' /\ QueuesOK' /\ TableOK' /\ CountersOK'
  BY <1>1, StoreStays, QueuesStay, TableStays, CountersStay DEF diskVars, peerVars
<1>6. StepOK
  BY <1>1, QuietStep DEF distVars
<1> QED
  BY <1>4, <1>5, <1>6, InvPartsNext

-----------------------------------------------------------------------------
(* The invariant and the theorems.                                         *)

\* Before anything happens.
LEMMA InitInv == ASSUME Init PROVE NodeInv
<1> USE DEF Init
<1>1. DOMAIN <<>> = {}
  BY SMTT(60)
<1>2. StoreOK
  BY <1>1, FS_EmptySet DEF StoreInit, StoreOK, FilesOf, FilesAccounted
<1>3. CacheOK
  <2>1. now \in Time
    BY SMTT(60), StoreAssumption DEF StoreInit, Time
  <2> QED
    BY <1>1, <2>1 DEF StoreInit, CacheOK, Cache, Remembered, Stamp
<1>4. QueuesOK
  BY DEF StoreInit, QueuesOK, NoQueue
<1>5. PICK b \in Budgets :
        /\ budget = [ids |-> b.ids, dist |-> b.dist, calls |-> b.calls,
                     restarts |-> b.restarts, until |-> b.until]
        /\ peers = b.table /\ savedPeers = b.table
  OBVIOUS
<1>6. /\ b.ids \subseteq Id /\ b.calls \in Nat /\ b.dist \in Nat
      /\ b.restarts \in Nat /\ b.until \in Time
      /\ DOMAIN b.table \subseteq Peer /\ Range(b.table) \subseteq PeerRecord(Time)
      /\ IsFiniteSet(b.ids) /\ IsFiniteSet(DOMAIN b.table)
  BY NodeAssumption
<1>7. TableOK
  BY <1>5, <1>6 DEF TableOK, Table, Range
<1>8. CountersOK
  <2>1. budget \in Budget
    BY <1>5, <1>6 DEF Budget
  <2>2. budget.ids = b.ids /\ budget.restarts = b.restarts
    BY SMTT(60), <1>5
  <2>3. 0 \in 0 .. Cycle - 1 /\ 0 \in 0 .. b.restarts
    BY SMTT(60), <1>6, NodeAssumption
  <2> QED
    BY <1>6, <2>1, <2>2, <2>3 DEF CountersOK
<1> QED
  BY <1>2, <1>3, <1>4, <1>7, <1>8, InvParts

\* Every step keeps the invariant and does only what it may.
LEMMA StepKept ==
  ASSUME NodeInv, [Next]_vars
  PROVE  NodeInv' /\ [StepOK]_vars
<1>1. CASE UNCHANGED vars
  <2> USE InvParts
  <2>1. StoreOK' /\ CacheOK' /\ QueuesOK' /\ TableOK' /\ CountersOK'
    BY <1>1, StoreStays, CacheStays, QueuesStay, TableStays, CountersStay
       DEF vars, storeVars, diskVars, peerVars
  <2> QED
    BY <1>1, <2>1, InvPartsNext
<1>2. CASE \E i \in Id, at \in Stamp : ReceivePropagated(i, at)
  BY <1>2, ReceiveStep
<1>3. CASE \E remote \in Peer \cup {NoPeer}, batch \in SUBSET budget.ids, keyValid \in BOOLEAN :
             process_propagation_resource(remote, batch, keyValid)
  BY <1>3, ResourceStep
<1>4. CASE \E p \in Peer, S \in SUBSET DOMAIN entries : handle_peer_sync_ack(p, S)
  BY <1>4, AckStep
<1>5. CASE \E cutoff \in Stamp : CleanupPropagation(cutoff)
  BY <1>5, CleanupStep
<1>6. CASE \E i \in Id, from \in Peer \cup {NoPeer} : Enqueue(i, from)
  BY <1>6, EnqueueStep
<1>7. CASE \E p \in Peer, i \in Id : QueueHandled(p, i)
  BY <1>7, QueueHandledStep
<1>8. CASE FlushDistribution
  BY <1>8, FlushStep
<1>9. CASE \E p \in Peer : PeerEvent(p) \/ handle_control_request(p)
  BY <1>9, EventStep, ControlStep
<1>10. CASE sync_peers \/ SavePeers
  BY <1>10, SyncStep, SaveStep
<1>11. CASE \E pn_ran \in BOOLEAN : tick(pn_ran)
  BY <1>11, TickStep
<1>12. CASE NodeRestart \/ Configure \/ Day
  BY <1>12, RestartStep, ConfigureStep, DayStep
<1> QED
  BY <1>1, <1>2, <1>3, <1>4, <1>5, <1>6, <1>7, <1>8, <1>9, <1>10, <1>11, <1>12 DEF Next

\* The types, what a restart finds, and what these rest on hold in every
\* reachable state.
THEOREM NodeInvariant == Spec => []NodeInv
<1>1. Init => NodeInv
  BY InitInv
<1>2. NodeInv /\ [Next]_vars => NodeInv'
  BY StepKept
<1> QED
  BY <1>1, <1>2, PTL DEF Spec

\* A restart at any moment finds every stored message, no message that was
\* removed (but what cleanup_propagation left behind), and no peer that was
\* dropped.
THEOREM DiskAlwaysFaithful == Spec => []DiskFaithful
<1>1. NodeInv => DiskFaithful
  BY DEF NodeInv
<1> QED
  BY <1>1, NodeInvariant, PTL

\* No step does what the action properties forbid.
LEMMA StepsAllowed == Spec => [][StepOK]_vars
<1>1. NodeInv /\ [Next]_vars => [StepOK]_vars
  BY StepKept
<1> QED
  BY <1>1, NodeInvariant, PTL DEF Spec

\* process_propagated accepts an id again only after the cache's expiry, through
\* cleaning, restarts and a crash before the cache is saved.
THEOREM AcceptedAtMostOnce == Spec => AcceptedOnce
<1>1. [StepOK]_vars => [AcceptStep]_vars
  BY DEF StepOK
<1> QED
  BY <1>1, StepsAllowed, PTL DEF AcceptedOnce, AcceptStep

\* A message marked handled for a peer is never marked unhandled afterwards.
THEOREM HandledStaysHandled == Spec => HandledFinal
<1>1. [StepOK]_vars => [HandledStep]_vars
  BY DEF StepOK
<1> QED
  BY <1>1, StepsAllowed, PTL DEF HandledFinal, HandledStep

\* rotate_peers drops neither a static peer nor one in the middle of an exchange,
\* and leaves at least two peers and as many as the headroom asks.
THEOREM RotationsSafe == Spec => RotationSafe
<1>1. [StepOK]_vars => [RotateStep]_vars
  BY DEF StepOK
<1> QED
  BY <1>1, StepsAllowed, PTL DEF RotationSafe, RotateStep

\* Between the distribution queue and a peer's marks nothing is dropped.
THEOREM NothingSkipped == Spec => NoneSkipped
<1>1. [StepOK]_vars => [SkipStep]_vars
  BY DEF StepOK
<1> QED
  BY <1>1, StepsAllowed, PTL DEF NoneSkipped, SkipStep
=============================================================================
