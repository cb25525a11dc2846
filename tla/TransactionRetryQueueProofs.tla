-------------------- MODULE TransactionRetryQueueProofs --------------------
(***************************************************************************)
(* Proofs about TransactionRetryQueue, for any set of transactions, any    *)
(* sizes and limits and any number of files:                               *)
(*   - no transaction is ever in two places of the queue, and the queue is *)
(*     a RetryStore (QueueInv);                                            *)
(*   - nothing is lost without a report (NothingMissing);                  *)
(*   - the two byte counters are right, no write exceeds the limit of the  *)
(*     disk, and a flush at shutdown leaves nothing (SizeInv);             *)
(*   - what the loop of extractTransactionsFromMemory takes is what        *)
(*     ExtractFromMemory allows, and there always is something to take.    *)
(*                                                                         *)
(* The folder is a sequence that steps cut at both ends, cut in the middle *)
(* and extend; the first lemmas say what each of these does to the content *)
(* of the files.  The counters are sums over finite sets.  What the model  *)
(* calls a sum is a fold in an arbitrary order; the lemmas under "Sums"    *)
(* show, by induction on finite sets, that the order does not matter and   *)
(* that sums add up.                                                       *)
(***************************************************************************)
EXTENDS TransactionRetryQueue, WellFoundedInduction, SequenceTheorems, FiniteSetTheorems, TLAPS

-----------------------------------------------------------------------------
(* The first and the last file *)

\* A set of natural numbers that has a member has a least one.
LEMMA Least ==
    ASSUME NEW S, S \subseteq Nat, S # {}
    PROVE  \E x \in S : \A y \in S : x <= y
  <1> DEFINE R == {ss \in Nat \X Nat : ss[1] < ss[2]}
  <1>1. IsWellFoundedOn(R, Nat)
    BY NatLessThanWellFounded, Zenon DEF OpToRel
  <1>2. PICK x \in S : \A y \in S : ~(<<y, x>> \in R)
    <2> HIDE DEF R
    <2>. QED
      BY <1>1, WFMin
  <1>3. ASSUME NEW y \in S PROVE x <= y
    <2>1. x \in Nat /\ y \in Nat /\ ~(<<y, x>> \in R)
      BY <1>2
    <2>2. ~(y < x)
      BY <2>1
    <2>. QED
      BY <2>1, <2>2
  <1>. QED
    BY <1>3

\* The file that RemoveOldest names exists (makeRoomFor takes filenames[0]).
LEMMA MinIsMember ==
    ASSUME NEW n \in Nat, NEW S, S \subseteq 1 .. n, S # {}
    PROVE  Min(S) \in S
  <1>1. S \subseteq Nat
    OBVIOUS
  <1>2. \E x \in S : \A y \in S : x <= y
    BY <1>1, Least
  <1>. QED
    BY <1>2 DEF Min

\* The file that ExtractLast names exists (it takes the last of filenames).
LEMMA MaxIsMember ==
    ASSUME NEW n \in Nat, NEW S, S \subseteq 1 .. n, S # {}
    PROVE  Max(S) \in S
  <1> DEFINE T == {n - x : x \in S}
  <1>1. T \subseteq Nat
    OBVIOUS
  <1>2. T # {}
    <2>1. PICK x \in S : TRUE
      OBVIOUS
    <2>2. n - x \in T
      BY <2>1
    <2>. QED
      BY <2>2
  <1>3. PICK z \in T : \A y \in T : z <= y
    <2> HIDE DEF T
    <2>. QED
      BY <1>1, <1>2, Least
  <1>4. PICK x \in S : z = n - x
    BY <1>3
  <1>5. ASSUME NEW y \in S PROVE x >= y
    <2>1. n - y \in T
      BY <1>5
    <2>2. n - x <= n - y
      BY <1>3, <1>4, <2>1
    <2>. QED
      BY <2>2
  <1>. QED
    BY <1>5 DEF Max

-----------------------------------------------------------------------------
(* Sequences of files *)

\* A function on 1 .. n is a sequence.
LEMMA IntoSeq ==
    ASSUME NEW F, NEW n \in Nat, NEW r \in [1 .. n -> F]
    PROVE  r \in Seq(F) /\ Len(r) = n
  OBVIOUS

\* removeFileAt: the files keep their order and the one at i is gone.
LEMMA RemoveAtProperties ==
    ASSUME NEW F, NEW s \in Seq(F), NEW i \in 1 .. Len(s)
    PROVE  /\ RemoveAt(s, i) \in Seq(F)
           /\ Len(RemoveAt(s, i)) = Len(s) - 1
           /\ \A k \in 1 .. Len(s) - 1 :
                 RemoveAt(s, i)[k] = IF k < i THEN s[k] ELSE s[k + 1]
  <1> DEFINE a == SubSeq(s, 1, i - 1)
             b == SubSeq(s, i + 1, Len(s))
  <1>1. /\ a \in Seq(F) /\ Len(a) = i - 1
        /\ \A k \in 1 .. i - 1 : a[k] = s[k]
    BY SubSeqProperties
  <1>2. /\ b \in Seq(F) /\ Len(b) = Len(s) - i
        /\ \A k \in 1 .. Len(s) - i : b[k] = s[i + k]
    BY SubSeqProperties
  <1> HIDE DEF a, b
  <1>3. /\ a \o b \in Seq(F)
        /\ Len(a \o b) = Len(s) - 1
        /\ \A k \in 1 .. Len(s) - 1 :
              (a \o b)[k] = IF k <= i - 1 THEN a[k] ELSE b[k - (i - 1)]
    <2>1. /\ a \o b \in Seq(F)
          /\ Len(a \o b) = Len(a) + Len(b)
          /\ \A k \in 1 .. Len(a) + Len(b) :
                (a \o b)[k] = IF k <= Len(a) THEN a[k] ELSE b[k - Len(a)]
      BY <1>1, <1>2, ConcatProperties, Zenon
    <2>. QED
      BY <1>1, <1>2, <2>1
  <1>4. \A k \in 1 .. Len(s) - 1 :
              (a \o b)[k] = IF k < i THEN s[k] ELSE s[k + 1]
    <2> SUFFICES ASSUME NEW k \in 1 .. Len(s) - 1
                 PROVE  (a \o b)[k] = IF k < i THEN s[k] ELSE s[k + 1]
      OBVIOUS
    <2>1. CASE k < i
      <3>1. k \in 1 .. i - 1 /\ k <= i - 1
        BY <2>1
      <3>. QED
        BY <1>1, <1>3, <2>1, <3>1
    <2>2. CASE ~(k < i)
      <3>1. /\ ~(k <= i - 1) /\ k - (i - 1) \in 1 .. Len(s) - i
            /\ i + (k - (i - 1)) = k + 1
        BY <2>2
      <3>2. (a \o b)[k] = b[k - (i - 1)]
        BY <1>3, <3>1
      <3>. QED
        BY <1>2, <2>2, <3>1, <3>2
    <2>. QED
      BY <2>1, <2>2
  <1>5. RemoveAt(s, i) = a \o b
    BY DEF RemoveAt, a, b
  <1>. QED
    BY <1>3, <1>4, <1>5

\* A file whose size is in Z.  What follows needs no property of sizes, so Z is
\* any set.
FileOver(Z) == [txs : SUBSET Txs, size : Z, whole : BOOLEAN, listed : BOOLEAN]

IsFolder(s) == \E Z : s \in Seq(FileOver(Z))

\* The transactions of the files of s, and that no two files share one.
Content(s) == UNION {s[i].txs : i \in DOMAIN s}

Disjoint(s) == \A i, j \in DOMAIN s : i # j => s[i].txs \cap s[j].txs = {}

\* A file that is removed takes its transactions with it and no others
\* (on_disk_retry_queue.go, removeFileAt).
LEMMA RemovedFile ==
    ASSUME NEW s, IsFolder(s), Disjoint(s), NEW i \in DOMAIN s
    PROVE  /\ IsFolder(RemoveAt(s, i)) /\ Disjoint(RemoveAt(s, i))
           /\ Content(RemoveAt(s, i)) \subseteq Content(s) \ s[i].txs
           /\ s[i].txs \subseteq Content(s)
  <1> DEFINE r == RemoveAt(s, i)
  <1>1. PICK Z : s \in Seq(FileOver(Z))
    BY DEF IsFolder
  <1>2. /\ r \in Seq(FileOver(Z)) /\ Len(r) = Len(s) - 1
        /\ \A k \in 1 .. Len(s) - 1 : r[k] = IF k < i THEN s[k] ELSE s[k + 1]
    <2>1. i \in 1 .. Len(s)
      BY <1>1
    <2> HIDE DEF r
    <2>2. r = RemoveAt(s, i)
      BY DEF r
    <2>. QED
      BY <1>1, <2>1, <2>2, RemoveAtProperties
  <1> HIDE DEF r
  <1>3. DOMAIN r = 1 .. Len(s) - 1 /\ DOMAIN s = 1 .. Len(s) /\ Len(s) \in Nat
    BY <1>1, <1>2
  <1> DEFINE old(k) == IF k < i THEN k ELSE k + 1
  <1>4. \A k \in DOMAIN r : /\ r[k] = s[old(k)] /\ old(k) \in DOMAIN s
                            /\ old(k) # i
    BY <1>2, <1>3
  <1>5. \A k, m \in DOMAIN r : k # m => old(k) # old(m)
    BY <1>3
  <1> HIDE DEF old
  <1>6. Disjoint(r)
    BY <1>4, <1>5 DEF Disjoint
  <1>7. Content(r) \subseteq Content(s) \ s[i].txs
    BY <1>4 DEF Content, Disjoint
  <1>. QED
    BY <1>2, <1>6, <1>7 DEF IsFolder, Content, r

\* A file that cannot be removed is only forgotten (removeFileAt returns after
\* it has cut filenames).
LEMMA ForgottenFile ==
    ASSUME NEW s, IsFolder(s), Disjoint(s), NEW i \in DOMAIN s
    PROVE  LET r == [s EXCEPT ![i].listed = FALSE]
           IN IsFolder(r) /\ Disjoint(r) /\ Content(r) = Content(s)
  <1> DEFINE r == [s EXCEPT ![i].listed = FALSE]
  <1>1. PICK Z : s \in Seq(FileOver(Z))
    BY DEF IsFolder
  <1>2. r \in Seq(FileOver(Z)) /\ DOMAIN r = DOMAIN s
    <2>1. DOMAIN s = 1 .. Len(s) /\ Len(s) \in Nat
      BY <1>1
    <2>2. ASSUME NEW k \in DOMAIN s PROVE r[k] \in FileOver(Z)
      <3>1. s[k] \in FileOver(Z)
        BY <1>1, <2>2
      <3>. QED
        BY <3>1 DEF FileOver
    <2>3. r \in [1 .. Len(s) -> FileOver(Z)]
      BY <2>1, <2>2
    <2> HIDE DEF r
    <2>. QED
      BY <2>1, <2>3, IntoSeq
  <1>3. \A k \in DOMAIN s : r[k].txs = s[k].txs
    BY <1>1 DEF FileOver
  <1> HIDE DEF r
  <1>4. Disjoint(r) /\ Content(r) = Content(s)
    BY <1>2, <1>3 DEF Disjoint, Content
  <1>. QED
    BY <1>2, <1>4 DEF IsFolder, r

\* A new file adds its transactions (Store, after the write).
LEMMA AddedFile ==
    ASSUME NEW s, IsFolder(s), Disjoint(s),
           NEW Z, NEW f \in FileOver(Z), f.txs \cap Content(s) = {}
    PROVE  /\ IsFolder(Append(s, f)) /\ Disjoint(Append(s, f))
           /\ Content(Append(s, f)) = Content(s) \cup f.txs
  <1> DEFINE r == Append(s, f)
  <1>1. PICK Y : s \in Seq(FileOver(Y))
    BY DEF IsFolder
  <1>2. s \in Seq(FileOver(Y \cup Z)) /\ f \in FileOver(Y \cup Z)
    <2>1. FileOver(Y) \subseteq FileOver(Y \cup Z)
      BY DEF FileOver
    <2>2. f \in FileOver(Y \cup Z)
      BY DEF FileOver
    <2>. QED
      BY <1>1, <2>1, <2>2, SeqMonotonic
  <1>3. /\ r \in Seq(FileOver(Y \cup Z)) /\ Len(r) = Len(s) + 1
        /\ \A k \in 1 .. Len(s) : r[k] = s[k]
        /\ r[Len(s) + 1] = f
    BY <1>2, AppendProperties
  <1>4. DOMAIN s = 1 .. Len(s) /\ DOMAIN r = 1 .. Len(s) + 1 /\ Len(s) \in Nat
    BY <1>2, <1>3
  <1> HIDE DEF r
  <1>5. Content(r) = Content(s) \cup f.txs
    BY <1>3, <1>4 DEF Content
  <1>6. Disjoint(r)
    BY <1>3, <1>4 DEF Disjoint, Content
  <1>. QED
    BY <1>3, <1>5, <1>6 DEF IsFolder, r

\* What RemoveOutdatedFiles leaves and reloadExistingRetryFiles lists: files of
\* s, none of them twice.
LEMMA ReloadedFiles ==
    ASSUME NEW s, IsFolder(s), Disjoint(s),
           NEW m \in Nat, NEW f \in [1 .. m -> DOMAIN s],
           \A i, j \in 1 .. m : i < j => f[i] < f[j],
           NEW r, r = [i \in 1 .. m |-> [s[f[i]] EXCEPT !.listed = TRUE]]
    PROVE  IsFolder(r) /\ Disjoint(r) /\ Content(r) \subseteq Content(s)
  <1>1. PICK Z : s \in Seq(FileOver(Z))
    BY DEF IsFolder
  <1>2. DOMAIN r = 1 .. m
    OBVIOUS
  <1>3. ASSUME NEW k \in 1 .. m
        PROVE  /\ r[k] \in FileOver(Z) /\ r[k].txs = s[f[k]].txs
               /\ f[k] \in DOMAIN s
    <2>1. f[k] \in DOMAIN s /\ s[f[k]] \in FileOver(Z)
      BY <1>1
    <2>2. r[k] = [s[f[k]] EXCEPT !.listed = TRUE]
      OBVIOUS
    <2>. QED
      BY <2>1, <2>2 DEF FileOver
  <1>4. IsFolder(r)
    <2>1. r \in [1 .. m -> FileOver(Z)]
      BY <1>2, <1>3
    <2>. QED
      BY <2>1, IntoSeq DEF IsFolder
  <1>5. Disjoint(r)
    <2> SUFFICES ASSUME NEW k \in 1 .. m, NEW n \in 1 .. m, k # n
                 PROVE  r[k].txs \cap r[n].txs = {}
      BY <1>2 DEF Disjoint
    <2>1. f[k] # f[n]
      <3>1. DOMAIN s \subseteq Nat
        BY <1>1
      <3>. QED
        BY <3>1
    <2>. QED
      BY <1>3, <2>1 DEF Disjoint
  <1>6. Content(r) \subseteq Content(s)
    BY <1>2, <1>3 DEF Content
  <1>. QED
    BY <1>4, <1>5, <1>6

-----------------------------------------------------------------------------
(* The invariant *)

\* No transaction is in two places: not in two files, not in a file and in
\* memory, not in the queue while a worker has it.  Otherwise it would be sent
\* twice after a failed removal or a restart.
NoDuplicate ==
    /\ \A i, j \in DOMAIN dir : i # j => dir[i].txs \cap dir[j].txs = {}
    /\ OnDisk \cap (mem \cup held \cup adding \cup batch) = {}
    /\ mem \cap (held \cup adding \cup batch) = {}
    /\ held \cap (adding \cup batch) = {}
    /\ adding \cap batch = {}

\* It is inductive together with where an operation may be when it carries a
\* transaction or a batch.
QueueInv ==
    /\ mem \subseteq Txs /\ held \subseteq Txs
    /\ adding \subseteq Txs /\ batch \subseteq Txs
    /\ IsFolder(dir)
    /\ NoDuplicate
    /\ batch # {} => pc \in {"store", "room"}
    /\ adding # {} => pc \in {"flush", "store", "room", "drop"}
    /\ pc = "down" => mem = {}

Stored == mem \cup adding \cup batch \cup OnDisk

\* The part of NoDuplicate about the folder, in the words of the lemmas above.
LEMMA FolderWords ==
    /\ OnDisk = Content(dir) /\ OnDisk' = Content(dir')
    /\ NoDuplicate => Disjoint(dir)
  BY DEF OnDisk, Content, Disjoint, NoDuplicate

\* The name of a listed file is the name of a file of the folder.
LEMMA ListedIsFile ==
    ASSUME IsFolder(dir), Listed # {}
    PROVE  /\ Min(Listed) \in DOMAIN dir /\ Max(Listed) \in DOMAIN dir
           /\ Min(Listed) \in Listed /\ Max(Listed) \in Listed
  <1>1. DOMAIN dir = 1 .. Len(dir) /\ Len(dir) \in Nat
    BY DEF IsFolder
  <1>2. Listed \subseteq 1 .. Len(dir)
    BY <1>1 DEF Listed
  <1>3. Min(Listed) \in Listed /\ Max(Listed) \in Listed
    BY <1>1, <1>2, MinIsMember, MaxIsMember
  <1>. QED
    BY <1>1, <1>2, <1>3

\* What the caller sees of a step: it puts one transaction into the store, takes
\* some out of it, or some are lost there.
StoreStep ==
    \/ \E t \in Txs : /\ t \in held
                      /\ held' = held \ {t}
                      /\ Stored' = Stored \cup {t}
    \/ \E S \in SUBSET Txs : /\ S \subseteq Stored
                             /\ held' = held \cup S
                             /\ Stored' \subseteq Stored \ S
    \/ held' = held /\ Stored' \subseteq Stored

\* A step keeps the invariant and is a step of the store.
LEMMA QueueStep ==
    ASSUME QueueInv, [Next]_vars
    PROVE  QueueInv' /\ StoreStep
  <1> DEFINE Sets == /\ mem \subseteq Txs /\ held \subseteq Txs
                     /\ adding \subseteq Txs /\ batch \subseteq Txs
                     /\ OnDisk \cap (mem \cup held \cup adding \cup batch) = {}
                     /\ mem \cap (held \cup adding \cup batch) = {}
                     /\ held \cap (adding \cup batch) = {}
                     /\ adding \cap batch = {}
                     /\ batch # {} => pc \in {"store", "room"}
                     /\ adding # {} => pc \in {"flush", "store", "room", "drop"}
                     /\ pc = "down" => mem = {}
  <1>1. /\ Sets /\ IsFolder(dir) /\ Disjoint(dir)
        /\ OnDisk = Content(dir) /\ OnDisk' = Content(dir')
    BY FolderWords DEF QueueInv, NoDuplicate
  <1>2. ASSUME Sets', IsFolder(dir'), Disjoint(dir') PROVE QueueInv'
    BY <1>2 DEF QueueInv, NoDuplicate, Disjoint
  <1>3. ASSUME dir' = dir
        PROVE  IsFolder(dir') /\ Disjoint(dir') /\ OnDisk' = OnDisk
    BY <1>1, <1>3
  <1> HIDE DEF Sets
  <1>4. CASE Build
    <2>1. PICK f \in RemoveOutdatedFiles : ReloadExistingRetryFiles(f)
      BY <1>4 DEF Build
    <2>2. IsFolder(dir') /\ Disjoint(dir') /\ OnDisk' \subseteq OnDisk
      <3>1. PICK m \in 0 .. Len(dir) :
                /\ f \in [1 .. m -> DOMAIN dir]
                /\ \A i, j \in 1 .. m : i < j => f[i] < f[j]
        BY <2>1 DEF RemoveOutdatedFiles
      <3>2. m \in Nat /\ DOMAIN f = 1 .. m
        BY <3>1
      <3>3. dir' = [i \in 1 .. m |-> [dir[f[i]] EXCEPT !.listed = TRUE]]
        BY <2>1, <3>2 DEF ReloadExistingRetryFiles
      <3>. QED
        BY <1>1, <3>1, <3>2, <3>3, ReloadedFiles
    <2>3. Sets' /\ held' = held /\ Stored' \subseteq Stored
      BY <1>1, <1>4, <2>2 DEF Build, Sets, Stored
    <2>. QED
      BY <1>2, <2>2, <2>3 DEF StoreStep
  <1>5. ASSUME NEW t \in Txs, Add(t) PROVE QueueInv' /\ StoreStep
    <2>1. IsFolder(dir') /\ Disjoint(dir') /\ OnDisk' = OnDisk
      BY <1>3, <1>5 DEF Add, queueVars
    <2>2. /\ Sets' /\ t \in held /\ held' = held \ {t}
          /\ Stored' = Stored \cup {t}
      BY <1>1, <1>5, <2>1 DEF Add, queueVars, Sets, Stored
    <2>. QED
      BY <1>2, <2>1, <2>2 DEF StoreStep
  <1>6. CASE FlushGroup
    <2>1. IsFolder(dir') /\ Disjoint(dir') /\ OnDisk' = OnDisk
      BY <1>3, <1>6 DEF FlushGroup
    <2>2. PICK E \in SUBSET mem : mem' = mem \ E /\ batch' = E
      BY <1>6 DEF FlushGroup, ExtractFromMemory
    <2>3. Sets' /\ held' = held /\ Stored' \subseteq Stored
      BY <1>1, <1>6, <2>1, <2>2 DEF FlushGroup, Sets, Stored
    <2>. QED
      BY <1>2, <2>1, <2>3 DEF StoreStep
  <1>7. CASE FlushDone
    <2>1. IsFolder(dir') /\ Disjoint(dir') /\ OnDisk' = OnDisk
      BY <1>3, <1>7 DEF FlushDone, queueVars
    <2>2. Sets' /\ held' = held /\ Stored' \subseteq Stored
      BY <1>1, <1>7, <2>1 DEF FlushDone, queueVars, Sets, Stored
    <2>. QED
      BY <1>2, <2>1, <2>2 DEF StoreStep
  <1>8. CASE DropAndAppend
    <2>1. IsFolder(dir') /\ Disjoint(dir') /\ OnDisk' = OnDisk
      BY <1>3, <1>8 DEF DropAndAppend
    <2>2. PICK E \in SUBSET mem : mem' = (mem \ E) \cup adding
      BY <1>8 DEF DropAndAppend, ExtractFromMemory
    <2>3. Sets' /\ held' = held /\ Stored' \subseteq Stored
      BY <1>1, <1>8, <2>1, <2>2 DEF DropAndAppend, Sets, Stored
    <2>. QED
      BY <1>2, <2>1, <2>3 DEF StoreStep
  <1>9. CASE FlushToDisk
    <2>1. IsFolder(dir') /\ Disjoint(dir') /\ OnDisk' = OnDisk
      BY <1>3, <1>9 DEF FlushToDisk
    <2>2. PICK E \in SUBSET mem : mem' = mem \ E /\ batch' = E
      BY <1>9 DEF FlushToDisk, ExtractFromMemory
    <2>3. Sets' /\ held' = held /\ Stored' \subseteq Stored
      BY <1>1, <1>9, <2>1, <2>2 DEF FlushToDisk, Sets, Stored
    <2>. QED
      BY <1>2, <2>1, <2>3 DEF StoreStep
  <1>10. CASE TooBig \/ StoreError \/ WriteFails
    <2>1. IsFolder(dir') /\ Disjoint(dir') /\ OnDisk' = OnDisk
      BY <1>3, <1>10 DEF TooBig, StoreError, WriteFails, queueVars
    <2>2. /\ UNCHANGED <<mem, adding, held>> /\ batch' = {}
          /\ pc' = IF adding = {} THEN "idle" ELSE "flush"
          /\ pc \in {"store", "room"}
      BY <1>10 DEF TooBig, StoreError, WriteFails, StoreFails, StoreReturns,
            queueVars
    <2>3. Sets' /\ held' = held /\ Stored' \subseteq Stored
      BY <1>1, <2>1, <2>2 DEF Sets, Stored
    <2>. QED
      BY <1>2, <2>1, <2>3 DEF StoreStep
  <1>11. CASE ComputeAvailableSpace
    <2>1. IsFolder(dir') /\ Disjoint(dir') /\ OnDisk' = OnDisk
      BY <1>3, <1>11 DEF ComputeAvailableSpace, queueVars
    <2>2. Sets' /\ held' = held /\ Stored' \subseteq Stored
      BY <1>1, <1>11, <2>1 DEF ComputeAvailableSpace, queueVars, Sets, Stored
    <2>. QED
      BY <1>2, <2>1, <2>2 DEF StoreStep
  <1>12. CASE RemoveOldest
    <2> DEFINE i == Min(Listed)
    <2>1. i \in DOMAIN dir
      BY <1>1, <1>12, ListedIsFile DEF RemoveOldest, MustMakeRoom
    <2>2. /\ \/ /\ dir' = RemoveAt(dir, i)
                /\ UNCHANGED <<pc, batch>>
             \/ /\ dir' = [dir EXCEPT ![i].listed = FALSE]
                /\ batch' = {} /\ pc' = IF adding = {} THEN "idle" ELSE "flush"
          /\ UNCHANGED <<mem, adding, held>>
          /\ pc = "room"
      BY <1>12 DEF RemoveOldest, RemoveFileAt, RemoveFileAtFails, StoreReturns
    <2> HIDE DEF i
    <2>3. IsFolder(dir') /\ Disjoint(dir') /\ OnDisk' \subseteq OnDisk
      BY <1>1, <2>1, <2>2, RemovedFile, ForgottenFile
    <2>4. Sets' /\ held' = held /\ Stored' \subseteq Stored
      BY <1>1, <2>2, <2>3 DEF Sets, Stored
    <2>. QED
      BY <1>2, <2>3, <2>4 DEF StoreStep
  <1>13. CASE WriteFile
    <2> DEFINE f == [txs |-> batch \cap Storable, size |-> FileSize(batch),
                     whole |-> TRUE, listed |-> TRUE]
    <2>1. f \in FileOver({FileSize(batch)}) /\ f.txs = batch \cap Storable
      BY <1>1 DEF FileOver, Sets
    <2>2. dir' = Append(dir, f)
      BY <1>13 DEF WriteFile
    <2> HIDE DEF f
    <2>3. f.txs \cap Content(dir) = {}
      BY <1>1, <2>1 DEF Sets
    <2>4. /\ IsFolder(dir') /\ Disjoint(dir')
          /\ OnDisk' = OnDisk \cup (batch \cap Storable)
      BY <1>1, <2>1, <2>2, <2>3, AddedFile
    <2>5. /\ UNCHANGED <<mem, adding, held>> /\ batch' = {}
          /\ pc' = IF adding = {} THEN "idle" ELSE "flush"
      BY <1>13 DEF WriteFile, StoreReturns
    <2>6. Sets' /\ held' = held /\ Stored' \subseteq Stored
      BY <1>1, <2>4, <2>5 DEF Sets, Stored
    <2>. QED
      BY <1>2, <2>4, <2>6 DEF StoreStep
  <1>14. CASE ExtractFromMem
    <2>1. IsFolder(dir') /\ Disjoint(dir') /\ OnDisk' = OnDisk
      BY <1>3, <1>14 DEF ExtractFromMem
    <2>2. /\ Sets' /\ mem \in SUBSET Txs /\ mem \subseteq Stored
          /\ held' = held \cup mem /\ Stored' \subseteq Stored \ mem
      BY <1>1, <1>14, <2>1 DEF ExtractFromMem, callVars, Sets, Stored
    <2>. QED
      BY <1>2, <2>1, <2>2 DEF StoreStep
  <1>15. CASE ExtractLast
    <2> DEFINE i == Max(Listed)
    <2>1. i \in DOMAIN dir
      BY <1>1, <1>15, ListedIsFile DEF ExtractLast
    <2>2. /\ \/ dir' = RemoveAt(dir, i) /\ \E S \in SUBSET dir[i].txs : held' = held \cup S
             \/ /\ \/ dir' = RemoveAt(dir, i)
                   \/ dir' = [dir EXCEPT ![i].listed = FALSE]
                /\ held' = held
          /\ UNCHANGED <<mem, pc, adding, batch>>
      BY <1>15 DEF ExtractLast, RemoveFileAt, RemoveFileAtFails, callVars
    <2> HIDE DEF i
    <2>3. dir[i].txs \in SUBSET Txs
      <3>1. PICK Z : dir \in Seq(FileOver(Z))
        BY <1>1 DEF IsFolder
      <3>2. dir[i] \in FileOver(Z)
        BY <2>1, <3>1
      <3>. QED
        BY <3>2 DEF FileOver
    <2>4. ASSUME dir' = RemoveAt(dir, i), NEW S \in SUBSET dir[i].txs, held' = held \cup S
          PROVE  QueueInv' /\ StoreStep
      <3>1. /\ IsFolder(dir') /\ Disjoint(dir')
            /\ OnDisk' \subseteq OnDisk \ dir[i].txs
            /\ dir[i].txs \subseteq OnDisk
        BY <1>1, <2>1, <2>4, RemovedFile
      <3>2. /\ Sets' /\ S \subseteq Stored /\ S \in SUBSET Txs
            /\ held' = held \cup S
            /\ Stored' \subseteq Stored \ S
        BY <1>1, <2>2, <2>3, <2>4, <3>1 DEF Sets, Stored
      <3>. QED
        BY <1>2, <2>3, <3>1, <3>2 DEF StoreStep
    <2>5. CASE /\ \/ dir' = RemoveAt(dir, i)
                  \/ dir' = [dir EXCEPT ![i].listed = FALSE]
               /\ held' = held
      <3>1. IsFolder(dir') /\ Disjoint(dir') /\ OnDisk' \subseteq OnDisk
        BY <1>1, <2>1, <2>5, RemovedFile, ForgottenFile
      <3>2. Sets' /\ held' = held /\ Stored' \subseteq Stored
        BY <1>1, <2>2, <2>5, <3>1 DEF Sets, Stored
      <3>. QED
        BY <1>2, <3>1, <3>2 DEF StoreStep
    <2>. QED
      BY <2>2, <2>4, <2>5
  <1>16. CASE Crash
    <2>1. CASE dir' = dir
      <3>1. IsFolder(dir') /\ Disjoint(dir') /\ OnDisk' = OnDisk
        BY <1>3, <2>1
      <3>2. Sets' /\ held' = held /\ Stored' \subseteq Stored
        BY <1>1, <1>16, <3>1 DEF Crash, Ends, Sets, Stored
      <3>. QED
        BY <1>2, <3>1, <3>2 DEF StoreStep
    <2>2. CASE \E n \in 0 .. FileSize(batch) :
                  dir' = Append(dir, [txs |-> {}, size |-> n,
                                      whole |-> FALSE, listed |-> FALSE])
      <3>1. PICK n : dir' = Append(dir, [txs |-> {}, size |-> n,
                                         whole |-> FALSE, listed |-> FALSE])
        BY <2>2
      <3> DEFINE f == [txs |-> {}, size |-> n, whole |-> FALSE,
                       listed |-> FALSE]
      <3>2. f \in FileOver({n}) /\ f.txs = {}
        BY DEF FileOver
      <3>3. dir' = Append(dir, f)
        BY <3>1
      <3> HIDE DEF f
      <3>4. IsFolder(dir') /\ Disjoint(dir') /\ OnDisk' = OnDisk
        BY <1>1, <3>2, <3>3, AddedFile
      <3>5. Sets' /\ held' = held /\ Stored' \subseteq Stored
        BY <1>1, <1>16, <3>4 DEF Crash, Ends, Sets, Stored
      <3>. QED
        BY <1>2, <3>4, <3>5 DEF StoreStep
    <2>. QED
      BY <1>16, <2>1, <2>2 DEF Crash
  <1>17. CASE Panic
    <2>1. IsFolder(dir') /\ Disjoint(dir') /\ OnDisk' = OnDisk
      BY <1>3, <1>17 DEF Panic
    <2>2. Sets' /\ held' = held /\ Stored' \subseteq Stored
      BY <1>1, <1>17, <2>1 DEF Panic, Ends, Sets, Stored
    <2>. QED
      BY <1>2, <2>1, <2>2 DEF StoreStep
  <1>18. CASE UNCHANGED vars
    <2>1. IsFolder(dir') /\ Disjoint(dir') /\ OnDisk' = OnDisk
      BY <1>3, <1>18 DEF vars, queueVars
    <2>2. Sets' /\ held' = held /\ Stored' \subseteq Stored
      BY <1>1, <1>18, <2>1 DEF vars, queueVars, callVars, Sets, Stored
    <2>. QED
      BY <1>2, <2>1, <2>2 DEF StoreStep
  <1>. QED
    BY <1>4, <1>5, <1>6, <1>7, <1>8, <1>9, <1>10, <1>11, <1>12, <1>13, <1>14,
       <1>15, <1>16, <1>17, <1>18 DEF Next

\* The queue starts empty, with every transaction in the hands of the callers.
LEMMA QueueInit == Init => QueueInv
  <1>1. <<>> \in Seq(FileOver({})) /\ DOMAIN <<>> = {}
    OBVIOUS
  <1>. QED
    BY <1>1 DEF Init, QueueInv, NoDuplicate, OnDisk, IsFolder

\* No transaction is ever in two places of the queue, whichever write or removal
\* fails and wherever the process is killed: it cannot be sent twice because of
\* the queue (on_disk_retry_queue.go, Store, ExtractLast, removeFileAt).
THEOREM NeverTwice == Spec => []NoDuplicate
  <1>1. QueueInv /\ [Next]_vars => QueueInv'
    BY QueueStep
  <1>2. QueueInv => NoDuplicate
    BY DEF QueueInv
  <1>. QED
    BY <1>1, <1>2, QueueInit, PTL DEF Spec

\* The queue is the store that the domain forwarder relies on: what is put into
\* it is taken out at most once, and what is lost there never comes back
\* (transaction_retry_queue.go, Add, ExtractTransactions, FlushToDisk).
THEOREM Refinement == Spec => ImplementsStore
  <1>1. Init => Abstract!Init
    BY DEF Init, Abstract!Init, OnDisk
  <1>2. QueueInv /\ [Next]_vars => QueueInv' /\ [Abstract!Next]_(Abstract!vars)
    <2> SUFFICES ASSUME QueueInv, [Next]_vars
                 PROVE  QueueInv' /\ Abstract!Next
      OBVIOUS
    <2>1. QueueInv' /\ StoreStep
      BY QueueStep
    <2>. QED
      BY <2>1 DEF StoreStep, Stored, Abstract!Next, Abstract!Put,
            Abstract!Take, Abstract!Lose
  <1>. QED
    BY <1>1, <1>2, QueueInit, PTL DEF Spec, ImplementsStore, Abstract!Spec

-----------------------------------------------------------------------------
(* Nothing is lost without a report *)

\* removeFileAt takes no more than the file at i.
LEMMA RemovedFileKeeps ==
    ASSUME NEW s, IsFolder(s), NEW i \in DOMAIN s
    PROVE  Content(s) \subseteq Content(RemoveAt(s, i)) \cup s[i].txs
  <1> DEFINE r == RemoveAt(s, i)
  <1>1. PICK Z : s \in Seq(FileOver(Z))
    BY DEF IsFolder
  <1>2. DOMAIN s = 1 .. Len(s) /\ Len(s) \in Nat
    BY <1>1
  <1>3. /\ r \in Seq(FileOver(Z)) /\ Len(r) = Len(s) - 1
        /\ \A k \in 1 .. Len(s) - 1 : r[k] = IF k < i THEN s[k] ELSE s[k + 1]
    <2>1. i \in 1 .. Len(s)
      BY <1>2
    <2> HIDE DEF r
    <2>2. r = RemoveAt(s, i)
      BY DEF r
    <2>. QED
      BY <1>1, <2>1, <2>2, RemoveAtProperties
  <1> HIDE DEF r
  <1>4. DOMAIN r = 1 .. Len(s) - 1
    BY <1>2, <1>3
  <1>5. ASSUME NEW k \in DOMAIN s, k # i PROVE \E j \in DOMAIN r : r[j] = s[k]
    <2>1. CASE k < i
      <3>1. k \in DOMAIN r /\ r[k] = s[k]
        BY <1>2, <1>3, <1>4, <2>1
      <3>. QED
        BY <3>1
    <2>2. CASE ~(k < i)
      <3>1. k - 1 \in DOMAIN r /\ ~(k - 1 < i) /\ (k - 1) + 1 = k
        BY <1>2, <1>4, <1>5, <2>2
      <3>2. r[k - 1] = s[k]
        BY <1>3, <1>4, <3>1
      <3>. QED
        BY <3>1, <3>2
    <2>. QED
      BY <2>1, <2>2
  <1>6. Content(s) \subseteq Content(r) \cup s[i].txs
    BY <1>5 DEF Content
  <1>. QED
    BY <1>6 DEF r

\* When no file is outdated, reloadExistingRetryFiles finds all of them: an
\* increasing choice of as many files as there are takes each.
LEMMA ReloadedAll ==
    ASSUME NEW s, IsFolder(s), NEW f \in [DOMAIN s -> DOMAIN s],
           \A i, j \in DOMAIN s : i < j => f[i] < f[j],
           NEW r, r = [i \in DOMAIN s |-> [s[f[i]] EXCEPT !.listed = TRUE]]
    PROVE  Content(s) \subseteq Content(r)
  <1>1. PICK Z : s \in Seq(FileOver(Z))
    BY DEF IsFolder
  <1>2. DOMAIN s = 1 .. Len(s) /\ Len(s) \in Nat
    BY <1>1
  <1> DEFINE D == DOMAIN s
  <1>3. IsFiniteSet(D)
    <2>1. 1 \in Int /\ Len(s) \in Int
      BY <1>2
    <2>2. IsFiniteSet(1 .. Len(s))
      BY <2>1, FS_Interval, Zenon
    <2>. QED
      BY <1>2, <2>2
  <1>4. ASSUME NEW i \in D, NEW j \in D, f[i] = f[j] PROVE i = j
    <2>1. i \in Int /\ j \in Int /\ f[i] \in Int /\ f[j] \in Int
      BY <1>2
    <2>. QED
      BY <1>4, <2>1
  <1>5. f \in Injection(D, D)
    BY <1>4 DEF Injection, IsInjective
  <1>6. f \in Surjection(D, D)
    BY <1>3, <1>5, FS_Injection
  <1>7. \A k \in D : \E j \in D : f[j] = k
    BY <1>6 DEF Surjection
  <1>8. ASSUME NEW j \in D PROVE r[j].txs = s[f[j]].txs
    <2>1. s[f[j]] \in FileOver(Z)
      BY <1>1
    <2>. QED
      BY <2>1 DEF FileOver
  <1>. QED
    BY <1>7, <1>8 DEF Content

\* Every transaction that can be stored is somewhere, or was reported.
Kept == mem \cup held \cup adding \cup batch \cup OnDisk \cup dropped
NothingMissing == failed \subseteq {"limit"} => Txs \cap Storable \subseteq Kept

\* A step that records no failure but the limit leaves every transaction that
\* can be stored where it can be found.
LEMMA DropsStep ==
    ASSUME QueueInv, NothingMissing, [Next]_vars
    PROVE  NothingMissing'
  <1>1. IsFolder(dir) /\ OnDisk = Content(dir) /\ OnDisk' = Content(dir')
    BY FolderWords DEF QueueInv
  <1>2. ASSUME dir' = dir PROVE OnDisk' = OnDisk
    BY <1>1, <1>2
  <1>3. ASSUME failed \subseteq failed', failed' \subseteq {"limit"} => Kept \cap Storable \subseteq Kept'
        PROVE  NothingMissing'
    BY <1>3 DEF NothingMissing
  <1>4. CASE Build
    <2>1. PICK f \in RemoveOutdatedFiles :
              /\ ReloadExistingRetryFiles(f)
              /\ failed' = IF DOMAIN f = DOMAIN dir THEN failed ELSE failed \cup {"outdated"}
      BY <1>4 DEF Build
    <2>2. UNCHANGED <<mem, adding, batch, held, dropped>>
      BY <1>4 DEF Build
    <2>3. PICK m \in 0 .. Len(dir) :
              /\ f \in [1 .. m -> DOMAIN dir]
              /\ \A i, j \in 1 .. m : i < j => f[i] < f[j]
      BY DEF RemoveOutdatedFiles
    <2>4. CASE DOMAIN f = DOMAIN dir
      <3>1. DOMAIN dir = 1 .. m
        BY <2>3, <2>4
      <3>2. dir' = [i \in DOMAIN dir |-> [dir[f[i]] EXCEPT !.listed = TRUE]]
        BY <2>1, <2>4 DEF ReloadExistingRetryFiles
      <3>3. OnDisk \subseteq OnDisk'
        BY <1>1, <2>3, <3>1, <3>2, ReloadedAll
      <3>. QED
        BY <1>3, <2>1, <2>2, <2>4, <3>3 DEF Kept
    <2>5. CASE DOMAIN f # DOMAIN dir
      BY <1>3, <2>1, <2>5
    <2>. QED
      BY <2>4, <2>5
  <1>5. ASSUME NEW t \in Txs, Add(t) PROVE NothingMissing'
    <2>1. adding = {}
      BY <1>5 DEF Add, QueueInv
    <2>. QED
      BY <1>2, <1>3, <1>5, <2>1 DEF Add, queueVars, Kept
  <1>6. CASE FlushGroup
    <2>1. PICK E \in SUBSET mem : mem' = mem \ E /\ batch' = E
      BY <1>6 DEF FlushGroup, ExtractFromMemory
    <2>2. batch = {}
      BY <1>6 DEF FlushGroup, QueueInv
    <2>. QED
      BY <1>2, <1>3, <1>6, <2>1, <2>2 DEF FlushGroup, Kept
  <1>7. CASE FlushDone \/ ComputeAvailableSpace
    <2>1. UNCHANGED <<mem, adding, batch, dir, held, dropped, failed>>
      BY <1>7 DEF FlushDone, ComputeAvailableSpace, queueVars
    <2>. QED
      BY <1>2, <1>3, <2>1 DEF Kept
  <1>8. CASE DropAndAppend
    <2>1. PICK E \in SUBSET mem : mem' = (mem \ E) \cup adding /\ dropped' = dropped \cup E
      BY <1>8 DEF DropAndAppend, ExtractFromMemory
    <2>. QED
      BY <1>2, <1>3, <1>8, <2>1 DEF DropAndAppend, Kept
  <1>9. CASE FlushToDisk
    <2>1. PICK E \in SUBSET mem : mem' = mem \ E /\ batch' = E
      BY <1>9 DEF FlushToDisk, ExtractFromMemory
    <2>2. batch = {}
      BY <1>9 DEF FlushToDisk, QueueInv
    <2>. QED
      BY <1>2, <1>3, <1>9, <2>1, <2>2 DEF FlushToDisk, Kept
  <1>10. CASE TooBig \/ StoreError \/ WriteFails
    <2>1. UNCHANGED <<mem, adding, dir, held>>
      BY <1>10 DEF TooBig, StoreError, WriteFails, queueVars
    <2>2. PICK cause \in {"limit", "io"} : StoreFails(cause)
      BY <1>10 DEF TooBig, StoreError, WriteFails
    <2>3. CASE adding = {}
      BY <1>3, <2>2, <2>3 DEF StoreFails
    <2>4. CASE adding # {}
      BY <1>2, <1>3, <2>1, <2>2, <2>4 DEF StoreFails, Kept
    <2>. QED
      BY <2>3, <2>4
  <1>11. CASE RemoveOldest
    <2> DEFINE i == Min(Listed)
    <2>1. i \in DOMAIN dir
      BY <1>1, <1>11, ListedIsFile DEF RemoveOldest, MustMakeRoom
    <2>2. /\ UNCHANGED <<mem, adding, held>>
          /\ \/ dir' = RemoveAt(dir, i) /\ dropped' = dropped \cup dir[i].txs /\ UNCHANGED <<failed, batch>>
             \/ failed' = failed \cup {"io"}
             \/ failed' = failed \cup {"io", "shutdown"}
      BY <1>11 DEF RemoveOldest, RemoveFileAt
    <2> HIDE DEF i
    <2>3. CASE dir' = RemoveAt(dir, i) /\ dropped' = dropped \cup dir[i].txs /\ UNCHANGED <<failed, batch>>
      <3>1. OnDisk \subseteq OnDisk' \cup dir[i].txs
        BY <1>1, <2>1, <2>3, RemovedFileKeeps
      <3>. QED
        BY <1>3, <2>2, <2>3, <3>1 DEF Kept
    <2>4. CASE failed' = failed \cup {"io"} \/ failed' = failed \cup {"io", "shutdown"}
      BY <1>3, <2>4
    <2>. QED
      BY <2>2, <2>3, <2>4
  <1>12. CASE WriteFile
    <2> DEFINE f == [txs |-> batch \cap Storable, size |-> FileSize(batch),
                     whole |-> TRUE, listed |-> TRUE]
    <2>1. f \in FileOver({FileSize(batch)}) /\ f.txs = batch \cap Storable
      BY DEF FileOver, QueueInv
    <2>2. dir' = Append(dir, f) /\ UNCHANGED <<mem, adding, held, dropped, failed>>
      BY <1>12 DEF WriteFile
    <2> HIDE DEF f
    <2>3. Disjoint(dir) /\ f.txs \cap Content(dir) = {}
      BY <1>1, <2>1, FolderWords DEF QueueInv, NoDuplicate
    <2>4. OnDisk' = OnDisk \cup (batch \cap Storable)
      BY <1>1, <2>1, <2>2, <2>3, AddedFile
    <2>. QED
      BY <1>3, <2>2, <2>4 DEF Kept
  <1>13. CASE ExtractFromMem
    BY <1>2, <1>3, <1>13 DEF ExtractFromMem, callVars, Kept
  <1>14. CASE ExtractLast
    <2> DEFINE i == Max(Listed)
    <2>1. i \in DOMAIN dir
      BY <1>1, <1>14, ListedIsFile DEF ExtractLast
    <2>2. /\ UNCHANGED <<mem, adding, batch, dropped>>
          /\ \/ dir' = RemoveAt(dir, i) /\ held' = held \cup dir[i].txs /\ failed' = failed
             \/ failed' = failed \cup {"io"}
      BY <1>14 DEF ExtractLast, RemoveFileAt, callVars
    <2> HIDE DEF i
    <2>3. CASE dir' = RemoveAt(dir, i) /\ held' = held \cup dir[i].txs /\ failed' = failed
      <3>1. OnDisk \subseteq OnDisk' \cup dir[i].txs
        BY <1>1, <2>1, <2>3, RemovedFileKeeps
      <3>. QED
        BY <1>3, <2>2, <2>3, <3>1 DEF Kept
    <2>4. CASE failed' = failed \cup {"io"}
      BY <1>3, <2>4
    <2>. QED
      BY <2>2, <2>3, <2>4
  <1>15. CASE Crash
    <2>1. /\ failed' = failed \cup (IF mem \cup adding \cup batch = {} THEN {} ELSE {"crash"})
          /\ UNCHANGED <<held, dropped>>
      BY <1>15 DEF Crash, Ends
    <2>2. CASE mem \cup adding \cup batch # {}
      BY <1>3, <2>1, <2>2
    <2>3. CASE mem \cup adding \cup batch = {}
      <3>1. OnDisk \subseteq OnDisk'
        <4>1. CASE dir' = dir
          BY <1>2, <4>1
        <4>2. CASE \E n \in 0 .. FileSize(batch) :
                      dir' = Append(dir, [txs |-> {}, size |-> n, whole |-> FALSE, listed |-> FALSE])
          <5>1. PICK n : dir' = Append(dir, [txs |-> {}, size |-> n, whole |-> FALSE, listed |-> FALSE])
            BY <4>2
          <5> DEFINE f == [txs |-> {}, size |-> n, whole |-> FALSE, listed |-> FALSE]
          <5>2. f \in FileOver({n}) /\ f.txs = {}
            BY DEF FileOver
          <5>3. dir' = Append(dir, f)
            BY <5>1
          <5> HIDE DEF f
          <5>4. Disjoint(dir) /\ f.txs \cap Content(dir) = {}
            BY <5>2, FolderWords DEF QueueInv
          <5>. QED
            BY <1>1, <5>2, <5>3, <5>4, AddedFile
        <4>. QED
          BY <1>15, <4>1, <4>2 DEF Crash
      <3>. QED
        BY <1>3, <2>1, <2>3, <3>1 DEF Kept
    <2>. QED
      BY <2>2, <2>3
  <1>16. CASE Panic
    BY <1>3, <1>16 DEF Panic, Ends
  <1>17. CASE UNCHANGED vars
    BY <1>2, <1>3, <1>17 DEF vars, queueVars, callVars, Kept
  <1>. QED
    BY <1>4, <1>5, <1>6, <1>7, <1>8, <1>9, <1>10, <1>11, <1>12, <1>13, <1>14, <1>15, <1>16, <1>17
       DEF Next

\* As long as no call of the file system fails and the process is not killed
\* with something in memory, a transaction that can be stored leaves the queue
\* only to its caller or with a report, through any number of flushes, evicted
\* files and restarts (transaction_retry_queue.go, Add; on_disk_retry_queue.go).
THEOREM DropsCorrect == Spec => []DropsReported
  <1>1. Init => NothingMissing
    BY DEF Init, NothingMissing, Kept
  <1>2. QueueInv /\ NothingMissing /\ [Next]_vars => QueueInv' /\ NothingMissing'
    BY QueueStep, DropsStep
  <1>3. NothingMissing => DropsReported
    BY DEF NothingMissing, DropsReported, Missing, Kept
  <1>. QED
    BY <1>1, <1>2, <1>3, QueueInit, PTL DEF Spec

-----------------------------------------------------------------------------
(* Sums *)

\* Among some subsets of a finite set there is one that loses the membership
\* with any of its elements.
LEMMA MinimalSet ==
    ASSUME NEW S, IsFiniteSet(S), NEW Bad, Bad \subseteq SUBSET S, Bad # {}
    PROVE  \E T \in Bad : \A x \in T : T \ {x} \notin Bad
  <1> DEFINE R == StrictSubsetOrdering(S)
  <1>1. IsWellFoundedOn(R, SUBSET S)
    <2>1. FiniteSubsetsOf(S) = SUBSET S
      BY FS_FiniteSubsetsOfFinite
    <2>2. IsWellFoundedOn(R, FiniteSubsetsOf(S))
      BY FS_StrictSubsetOrderingWellFounded
    <2> HIDE DEF R
    <2>. QED
      BY <2>1, <2>2
  <1>2. PICK T \in Bad : \A V \in Bad : <<V, T>> \notin R
    <2> HIDE DEF R
    <2>. QED
      BY <1>1, WFMin
  <1>3. ASSUME NEW x \in T, T \ {x} \in Bad PROVE FALSE
    <2>1. <<T \ {x}, T>> \in R
      BY <1>3 DEF StrictSubsetOrdering
    <2>. QED
      BY <1>2, <1>3, <2>1
  <1>. QED
    BY <1>3

\* Induction on finite sets, as a fact about sets of sets: what holds of {} and
\* is kept when an element is added holds of every subset of S.
LEMMA SubsetInduction ==
    ASSUME NEW S, IsFiniteSet(S), NEW Good, {} \in Good,
           \A T \in SUBSET S, x \in S : T \in Good /\ x \notin T => T \cup {x} \in Good
    PROVE  SUBSET S \subseteq Good
  <1> SUFFICES ASSUME NEW B \in SUBSET S, B \notin Good PROVE FALSE
    OBVIOUS
  <1> DEFINE Bad == {T \in SUBSET S : T \notin Good}
  <1>1. PICK T \in Bad : \A x \in T : T \ {x} \notin Bad
    <2>1. Bad \subseteq SUBSET S /\ Bad # {}
      OBVIOUS
    <2> HIDE DEF Bad
    <2>. QED
      BY <2>1, MinimalSet
  <1>2. PICK x \in T : TRUE
    BY <1>1
  <1>3. T \ {x} \in SUBSET S /\ x \in S /\ (T \ {x}) \cup {x} = T
    BY <1>1, <1>2
  <1>4. T \ {x} \in Good
    BY <1>1, <1>3
  <1>. QED
    BY <1>1, <1>3, <1>4

\* g gives every subset of U the sum of f over it.
IsSum(g, f, U) ==
    /\ g \in [SUBSET U -> Nat]
    /\ g[{}] = 0
    /\ \A s \in SUBSET U : \A x \in s : g[s] = f[x] + g[s \ {x}]

\* There is such a g when U is finite.
LEMMA SumExists ==
    ASSUME NEW U, IsFiniteSet(U), NEW f, \A x \in U : f[x] \in Nat
    PROVE  \E g : IsSum(g, f, U)
  <1> DEFINE Good == {T \in SUBSET U : \E g : IsSum(g, f, T)}
  <1>1. {} \in Good
    <2> DEFINE g == [s \in SUBSET {} |-> 0]
    <2>1. IsSum(g, f, {})
      BY DEF IsSum
    <2>. QED
      BY <2>1
  <1>2. ASSUME NEW T \in SUBSET U, NEW x \in U, T \in Good, x \notin T
        PROVE  T \cup {x} \in Good
    <2>1. PICK g : IsSum(g, f, T)
      BY <1>2
    <2> DEFINE V == T \cup {x}
               h == [s \in SUBSET V |-> IF x \in s THEN f[x] + g[s \ {x}] ELSE g[s]]
    <2>2. \A s \in SUBSET T : g[s] \in Nat
      BY <2>1 DEF IsSum
    <2>3. f[x] \in Nat
      OBVIOUS
    <2>4. \A s \in SUBSET V : s \ {x} \in SUBSET T /\ (x \notin s => s \in SUBSET T)
      OBVIOUS
    <2>5. h \in [SUBSET V -> Nat]
      BY <2>2, <2>3, <2>4
    <2>6. h[{}] = 0
      BY <2>1 DEF IsSum
    <2>7. ASSUME NEW s \in SUBSET V, NEW y \in s PROVE h[s] = f[y] + h[s \ {y}]
      <3> s \ {y} \in SUBSET V
        OBVIOUS
      <3>1. CASE x \notin s
        <4>1. s \in SUBSET T /\ x \notin s \ {y} /\ h[s] = g[s] /\ h[s \ {y}] = g[s \ {y}]
          BY <2>4, <3>1
        <4>. QED
          BY <2>1, <4>1 DEF IsSum
      <3>2. CASE x \in s /\ y = x
        <4>1. h[s] = f[x] + g[s \ {x}] /\ x \notin s \ {y} /\ h[s \ {y}] = g[s \ {y}]
          BY <3>2
        <4>. QED
          BY <3>2, <4>1
      <3>3. CASE x \in s /\ y # x
        <4> DEFINE w == s \ {x}
        <4>1. /\ w \in SUBSET T /\ y \in w /\ w \ {y} \in SUBSET T
              /\ (s \ {y}) \ {x} = w \ {y} /\ x \in s \ {y}
          BY <2>4, <3>3
        <4>2. h[s] = f[x] + g[w] /\ h[s \ {y}] = f[x] + g[w \ {y}]
          BY <3>3, <4>1
        <4>3. g[w] = f[y] + g[w \ {y}]
          BY <2>1, <4>1 DEF IsSum
        <4>4. f[y] \in Nat /\ g[w \ {y}] \in Nat
          BY <2>2, <4>1
        <4> HIDE DEF h, w
        <4>. QED
          BY <2>3, <4>2, <4>3, <4>4
      <3>. QED
        BY <3>1, <3>2, <3>3
    <2>8. IsSum(h, f, V)
      <3> HIDE DEF h, V
      <3>. QED
        BY <2>5, <2>6, <2>7 DEF IsSum
    <2>9. V \in SUBSET U
      OBVIOUS
    <2>. QED
      BY <2>8, <2>9
  <1> HIDE DEF Good
  <1>3. SUBSET U \subseteq Good
    BY <1>1, <1>2, SubsetInduction
  <1>. QED
    BY <1>3 DEF Good

\* One turn of the recursion of MapThenSumSet, for the sum of f over S.
SumStep(f, S, h) ==
    [s \in SUBSET S |-> IF s = {} THEN 0
                        ELSE f[CHOOSE x \in s : TRUE] + h[s \ {CHOOSE x \in s : TRUE}]]

\* Its only fixed point is the sum.
LEMMA SumFixpoint ==
    ASSUME NEW S, IsFiniteSet(S), NEW f, NEW g, IsSum(g, f, S)
    PROVE  g = SumStep(f, S, g) /\ \A h : h = SumStep(f, S, h) => h = g
  <1>1. \A s \in SUBSET S :
           g[s] = IF s = {} THEN 0
                  ELSE f[CHOOSE x \in s : TRUE] + g[s \ {CHOOSE x \in s : TRUE}]
    <2> SUFFICES ASSUME NEW s \in SUBSET S
                 PROVE  g[s] = IF s = {} THEN 0
                               ELSE f[CHOOSE x \in s : TRUE] + g[s \ {CHOOSE x \in s : TRUE}]
      OBVIOUS
    <2>1. CASE s = {}
      BY <2>1 DEF IsSum
    <2>2. CASE s # {}
      <3>1. (CHOOSE x \in s : TRUE) \in s
        BY <2>2
      <3>. QED
        BY <2>2, <3>1 DEF IsSum
    <2>. QED
      BY <2>1, <2>2
  <1>2. g = [s \in SUBSET S |-> g[s]]
    BY DEF IsSum
  <1>3. g = SumStep(f, S, g)
    BY <1>1, <1>2 DEF SumStep
  <1>4. ASSUME NEW h, h = SumStep(f, S, h) PROVE h = g
    <2>1. /\ h = [s \in SUBSET S |-> h[s]]
          /\ \A s \in SUBSET S :
                h[s] = IF s = {} THEN 0
                       ELSE f[CHOOSE x \in s : TRUE] + h[s \ {CHOOSE x \in s : TRUE}]
      BY <1>4 DEF SumStep
    <2> DEFINE Bad == {s \in SUBSET S : h[s] # g[s]}
    <2>2. ASSUME Bad # {} PROVE FALSE
      <3>1. PICK T \in Bad : \A x \in T : T \ {x} \notin Bad
        <4>1. Bad \subseteq SUBSET S
          OBVIOUS
        <4> HIDE DEF Bad
        <4>. QED
          BY <2>2, <4>1, MinimalSet
      <3>2. T # {}
        BY <1>1, <2>1, <3>1
      <3>3. PICK x \in T : x = CHOOSE y \in T : TRUE
        BY <3>2
      <3>4. T \ {x} \in SUBSET S /\ T \in SUBSET S /\ h[T] # g[T]
        BY <3>1
      <3>5. h[T \ {x}] = g[T \ {x}]
        BY <3>1, <3>3, <3>4
      <3>6. h[T] = f[x] + h[T \ {x}] /\ g[T] = f[x] + g[T \ {x}]
        BY <1>1, <2>1, <3>2, <3>3, <3>4
      <3>. QED
        BY <3>4, <3>5, <3>6
    <2>. QED
      BY <1>2, <2>1, <2>2
  <1>. QED
    BY <1>3, <1>4

\* The sum of f over S, in the words of the model's operators.
Total(f, S) == MapThenSumSet(LAMBDA x : f[x], S)

\* Total is the sum.
LEMMA SumIs ==
    ASSUME NEW U, IsFiniteSet(U), NEW f, NEW g, IsSum(g, f, U), NEW S \in SUBSET U
    PROVE  Total(f, S) = g[S]
  <1> DEFINE e == [s \in SUBSET S |-> g[s]]
  <1>1. IsSum(e, f, S)
    <2>1. \A s \in SUBSET S : s \in SUBSET U
      OBVIOUS
    <2>2. \A s \in SUBSET U : g[s] \in Nat
      BY DEF IsSum
    <2>3. e \in [SUBSET S -> Nat]
      BY <2>1, <2>2
    <2>4. e[{}] = 0
      BY DEF IsSum
    <2>5. ASSUME NEW s \in SUBSET S, NEW x \in s PROVE e[s] = f[x] + e[s \ {x}]
      <3>1. s \ {x} \in SUBSET S
        OBVIOUS
      <3>. QED
        BY <2>1, <3>1 DEF IsSum
    <2> HIDE DEF e
    <2>. QED
      BY <2>3, <2>4, <2>5 DEF IsSum
  <1>2. IsFiniteSet(S)
    BY FS_Subset
  <1>3. e[S] = g[S]
    OBVIOUS
  <1> HIDE DEF e
  <1>4. e = SumStep(f, S, e) /\ \A h : h = SumStep(f, S, h) => h = e
    BY <1>1, <1>2, SumFixpoint
  <1>5. Total(f, S) = (CHOOSE h : h = SumStep(f, S, h))[S]
    BY DEF Total, MapThenSumSet, MapThenFoldSet, SumStep
  <1>6. (CHOOSE h : h = SumStep(f, S, h)) = e
    BY <1>4, Zenon
  <1>. QED
    BY <1>3, <1>5, <1>6

\* What a sum is, element by element.
LEMMA SumProperties ==
    ASSUME NEW S, IsFiniteSet(S), NEW f, \A x \in S : f[x] \in Nat
    PROVE  /\ Total(f, S) \in Nat
           /\ Total(f, {}) = 0
           /\ \A T \in SUBSET S : Total(f, T) \in Nat
           /\ \A T \in SUBSET S : \A x \in T : Total(f, T) = f[x] + Total(f, T \ {x})
  <1>1. PICK g : IsSum(g, f, S)
    BY SumExists
  <1>2. \A T \in SUBSET S : Total(f, T) = g[T]
    BY <1>1, SumIs
  <1>3. \A T \in SUBSET S : Total(f, T) \in Nat
    BY <1>1, <1>2 DEF IsSum
  <1>4. Total(f, {}) = 0
    BY <1>1, <1>2 DEF IsSum
  <1>5. ASSUME NEW T \in SUBSET S, NEW x \in T
        PROVE  Total(f, T) = f[x] + Total(f, T \ {x})
    <2>1. T \ {x} \in SUBSET S
      OBVIOUS
    <2>. QED
      BY <1>1, <1>2, <2>1 DEF IsSum
  <1>. QED
    BY <1>3, <1>4, <1>5

\* An element taken out of T.
LEMMA SumTake ==
    ASSUME NEW S, IsFiniteSet(S), NEW f, \A x \in S : f[x] \in Nat,
           NEW T \in SUBSET S, NEW x \in T
    PROVE  Total(f, T) = f[x] + Total(f, T \ {x})
  BY SumProperties

\* A part and the rest add up to the whole.
LEMMA SumSplit ==
    ASSUME NEW S, IsFiniteSet(S), NEW f, \A x \in S : f[x] \in Nat, NEW E \in SUBSET S
    PROVE  /\ Total(f, E) \in Nat /\ Total(f, S \ E) \in Nat
           /\ Total(f, S) = Total(f, E) + Total(f, S \ E)
  <1> DEFINE Good == {T \in SUBSET S : Total(f, S) = Total(f, T) + Total(f, S \ T)}
  <1>1. {} \in Good
    <2>1. Total(f, {}) = 0 /\ Total(f, S) \in Nat /\ S \ {} = S
      BY SumProperties
    <2>. QED
      BY <2>1
  <1>2. ASSUME NEW T \in SUBSET S, NEW x \in S, T \in Good, x \notin T
        PROVE  T \cup {x} \in Good
    <2> DEFINE V == T \cup {x}
               W == S \ T
    <2>1. /\ V \in SUBSET S /\ x \in V /\ V \ {x} = T
          /\ W \in SUBSET S /\ x \in W /\ W \ {x} = S \ V
      BY <1>2
    <2>2. Total(f, V) = f[x] + Total(f, T) /\ Total(f, W) = f[x] + Total(f, S \ V)
      BY <2>1, SumProperties
    <2>3. Total(f, T) \in Nat /\ Total(f, S \ V) \in Nat /\ f[x] \in Nat
      BY SumProperties
    <2>4. Total(f, S) = Total(f, T) + Total(f, W)
      BY <1>2
    <2>5. Total(f, S) = Total(f, V) + Total(f, S \ V)
      BY <2>2, <2>3, <2>4
    <2>. QED
      BY <2>1, <2>5
  <1>3. Total(f, E) \in Nat /\ Total(f, S \ E) \in Nat
    BY SumProperties
  <1> HIDE DEF Good
  <1>4. SUBSET S \subseteq Good
    BY <1>1, <1>2, SubsetInduction
  <1>. QED
    BY <1>3, <1>4 DEF Good

\* p renames the elements of S to elements of U, which have the same values.
Renaming(p, S, f, U, g) ==
    /\ IsFiniteSet(S) /\ \A x \in S : f[x] \in Nat
    /\ IsFiniteSet(U) /\ \A y \in U : g[y] \in Nat
    /\ p \in [S -> U] /\ \A x, y \in S : p[x] = p[y] => x = y
    /\ \A x \in S : f[x] = g[p[x]]

\* A sum over R is the sum over the image of R under a renaming p.
LEMMA SumRenamed ==
    ASSUME NEW S, NEW f, NEW U, NEW g, NEW p, Renaming(p, S, f, U, g),
           NEW R \in SUBSET S, NEW Q, Q = {p[x] : x \in R}
    PROVE  Total(f, R) = Total(g, Q)
  <1>1. /\ IsFiniteSet(S) /\ (\A x \in S : f[x] \in Nat)
        /\ IsFiniteSet(U) /\ (\A y \in U : g[y] \in Nat)
        /\ p \in [S -> U] /\ (\A x, y \in S : p[x] = p[y] => x = y)
        /\ (\A x \in S : f[x] = g[p[x]])
    BY DEF Renaming
  <1> DEFINE Image(T) == {p[x] : x \in T}
             Good == {T \in SUBSET S : Total(f, T) = Total(g, Image(T))}
  <1>2. ASSUME NEW T \in SUBSET S, NEW x \in T
        PROVE  Total(f, T) = f[x] + Total(f, T \ {x})
    BY <1>1, SumTake
  <1>3. ASSUME NEW T \in SUBSET U, NEW y \in T
        PROVE  Total(g, T) = g[y] + Total(g, T \ {y})
    BY <1>1, SumTake
  <1>4. {} \in Good
    <2>1. Total(f, {}) = 0 /\ Total(g, {}) = 0 /\ Image({}) = {}
      BY <1>1, SumProperties
    <2>. QED
      BY <2>1
  <1>5. ASSUME NEW T \in SUBSET S, NEW x \in S, T \in Good, x \notin T
        PROVE  T \cup {x} \in Good
    <2> DEFINE V == T \cup {x}
    <2>1. V \in SUBSET S /\ x \in V /\ V \ {x} = T
      BY <1>5
    <2>2. Image(V) \in SUBSET U /\ p[x] \in Image(V) /\ Image(V) \ {p[x]} = Image(T)
      BY <1>1, <1>5
    <2>3. Total(f, V) = f[x] + Total(f, T)
      <3> HIDE DEF V
      <3>. QED
        BY <1>2, <2>1
    <2>4. Total(g, Image(V)) = g[p[x]] + Total(g, Image(T))
      <3> HIDE DEF Image, V
      <3>. QED
        BY <1>3, <2>2
    <2>5. Total(f, V) = Total(g, Image(V))
      BY <1>1, <1>5, <2>3, <2>4
    <2>. QED
      BY <2>1, <2>5
  <1> HIDE DEF Good
  <1>6. SUBSET S \subseteq Good
    BY <1>1, <1>4, <1>5, SubsetInduction
  <1>. QED
    BY <1>6 DEF Good

\* A sum depends on f only through its values on S.
LEMMA SumSame ==
    ASSUME NEW S, IsFiniteSet(S), NEW f, \A x \in S : f[x] \in Nat,
           NEW g, \A x \in S : g[x] = f[x]
    PROVE  Total(f, S) = Total(g, S)
  <1> DEFINE p == [x \in S |-> x]
  <1>1. Renaming(p, S, f, S, g)
    BY DEF Renaming
  <1>2. S = {p[x] : x \in S} /\ S \in SUBSET S
    OBVIOUS
  <1> HIDE DEF p
  <1>. QED
    BY <1>1, <1>2, SumRenamed

-----------------------------------------------------------------------------
(* Sizes *)

\* The bytes of the files is of the folder s.
FolderSize(s, is) == MapThenSumSet(LAMBDA i : s[i].size, is)

\* The sizes of the files of s.
Sizes(s) == [i \in DOMAIN s |-> s[i].size]

\* FolderSize is a sum of sizes.
LEMMA FolderSizeIsSum ==
    ASSUME NEW s \in Seq(File), NEW is \in SUBSET DOMAIN s
    PROVE  /\ FolderSize(s, is) = Total(Sizes(s), is)
           /\ IsFiniteSet(DOMAIN s) /\ IsFiniteSet(is)
           /\ \A i \in DOMAIN s : Sizes(s)[i] \in Nat
  <1>1. IsFiniteSet(DOMAIN s)
    <2>1. DOMAIN s = 1 .. Len(s) /\ 1 \in Int /\ Len(s) \in Int
      OBVIOUS
    <2>2. IsFiniteSet(1 .. Len(s))
      BY <2>1, FS_Interval, Zenon
    <2>. QED
      BY <2>1, <2>2
  <1>2. IsFiniteSet(is)
    BY <1>1, FS_Subset
  <1>3. \A i \in DOMAIN s : Sizes(s)[i] \in Nat
    <2>1. \A i \in DOMAIN s : s[i] \in File
      OBVIOUS
    <2>. QED
      BY <2>1 DEF Sizes, File
  <1>4. PICK g : IsSum(g, Sizes(s), is)
    BY <1>2, <1>3, SumExists
  <1> DEFINE Step(h) ==
        [t \in SUBSET is |-> IF t = {} THEN 0
                             ELSE s[CHOOSE x \in t : TRUE].size + h[t \ {CHOOSE x \in t : TRUE}]]
  <1>5. ASSUME NEW h PROVE Step(h) = SumStep(Sizes(s), is, h)
    <2>1. \A t \in SUBSET is : t # {} =>
              s[CHOOSE x \in t : TRUE].size = Sizes(s)[CHOOSE x \in t : TRUE]
      <3> SUFFICES ASSUME NEW t \in SUBSET is, t # {}
                   PROVE  s[CHOOSE x \in t : TRUE].size = Sizes(s)[CHOOSE x \in t : TRUE]
        OBVIOUS
      <3>1. (CHOOSE x \in t : TRUE) \in DOMAIN s
        OBVIOUS
      <3>. QED
        BY <3>1 DEF Sizes
    <2>. QED
      BY <2>1 DEF SumStep
  <1>6. FolderSize(s, is) = (CHOOSE h : h = Step(h))[is]
    BY DEF FolderSize, MapThenSumSet, MapThenFoldSet
  <1> HIDE DEF Step
  <1>7. g = Step(g) /\ \A h : h = Step(h) => h = g
    BY <1>2, <1>4, <1>5, SumFixpoint
  <1>8. (CHOOSE h : h = Step(h)) = g
    BY <1>7, Zenon
  <1>9. Total(Sizes(s), is) = g[is]
    BY <1>2, <1>4, SumIs
  <1>. QED
    BY <1>1, <1>2, <1>3, <1>6, <1>8, <1>9

\* What reloadExistingRetryFiles adds up: the sizes of the files that f names.
ReloadedSize(s, f) == MapThenSumSet(LAMBDA i : s[f[i]].size, DOMAIN f)

\* It is a sum of sizes, too.
LEMMA ReloadedSizeIsSum ==
    ASSUME NEW s \in Seq(File), NEW m \in Nat, NEW f \in [1 .. m -> DOMAIN s],
           NEW v \in [1 .. m -> Nat], \A i \in 1 .. m : v[i] = s[f[i]].size
    PROVE  ReloadedSize(s, f) = Total(v, 1 .. m)
  <1> DEFINE D == 1 .. m
  <1>1. IsFiniteSet(D)
    <2>1. 1 \in Int /\ m \in Int
      OBVIOUS
    <2>. QED
      BY <2>1, FS_Interval, Zenon
  <1>2. v \in [D -> Nat] /\ \A i \in D : v[i] = s[f[i]].size
    OBVIOUS
  <1> DEFINE Step(h) ==
        [t \in SUBSET D |-> IF t = {} THEN 0
                            ELSE s[f[CHOOSE x \in t : TRUE]].size + h[t \ {CHOOSE x \in t : TRUE}]]
  <1>3. ReloadedSize(s, f) = (CHOOSE h : h = Step(h))[D]
    <2>1. DOMAIN f = D
      OBVIOUS
    <2> HIDE DEF D
    <2>. QED
      BY <2>1 DEF ReloadedSize, MapThenSumSet, MapThenFoldSet
  <1> HIDE DEF D
  <1>4. PICK g : IsSum(g, v, D)
    BY <1>1, <1>2, SumExists
  <1>5. ASSUME NEW h PROVE Step(h) = SumStep(v, D, h)
    <2>1. \A t \in SUBSET D : t # {} =>
              s[f[CHOOSE x \in t : TRUE]].size = v[CHOOSE x \in t : TRUE]
      <3> SUFFICES ASSUME NEW t \in SUBSET D, t # {}
                   PROVE  s[f[CHOOSE x \in t : TRUE]].size = v[CHOOSE x \in t : TRUE]
        OBVIOUS
      <3>1. (CHOOSE x \in t : TRUE) \in D
        OBVIOUS
      <3>. QED
        BY <1>2, <3>1
    <2>. QED
      BY <2>1 DEF SumStep
  <1> HIDE DEF Step
  <1>6. g = Step(g) /\ \A h : h = Step(h) => h = g
    BY <1>1, <1>4, <1>5, SumFixpoint
  <1>7. (CHOOSE h : h = Step(h)) = g
    BY <1>6, Zenon
  <1>8. Total(v, D) = g[D]
    BY <1>1, <1>4, SumIs
  <1>. QED
    BY <1>3, <1>7, <1>8 DEF D

\* The bytes of a set of transactions add up.
LEMMA SizeOfProperties ==
    ASSUME NEW S \in SUBSET Txs, IsFiniteSet(S), NEW E \in SUBSET S
    PROVE  /\ SizeOf(S) \in Nat /\ SizeOf(E) \in Nat /\ SizeOf(S \ E) \in Nat
           /\ SizeOf(S) = SizeOf(E) + SizeOf(S \ E)
           /\ SizeOf({}) = 0
  <1>1. \A x \in S : Size[x] \in Nat
    BY QueueAssumption
  <1>2. \A T : SizeOf(T) = Total(Size, T)
    BY DEF SizeOf, Total
  <1>3. Total(Size, {}) = 0 /\ Total(Size, S) \in Nat
    BY <1>1, SumProperties
  <1>4. /\ Total(Size, E) \in Nat /\ Total(Size, S \ E) \in Nat
        /\ Total(Size, S) = Total(Size, E) + Total(Size, S \ E)
    BY <1>1, SumSplit
  <1>. QED
    BY <1>2, <1>3, <1>4

\* One more transaction.
LEMMA SizeOfAdded ==
    ASSUME NEW S \in SUBSET Txs, IsFiniteSet(S), NEW t \in Txs, t \notin S
    PROVE  /\ IsFiniteSet(S \cup {t})
           /\ SizeOf(S \cup {t}) = SizeOf(S) + SizeOf({t})
           /\ SizeOf(S) \in Nat /\ SizeOf({t}) \in Nat
  <1> DEFINE V == S \cup {t}
  <1>1. V \in SUBSET Txs /\ S \in SUBSET V /\ V \ S = {t}
    OBVIOUS
  <1>2. IsFiniteSet(V)
    BY FS_AddElement
  <1> HIDE DEF V
  <1>3. /\ SizeOf(S) \in Nat /\ SizeOf(V \ S) \in Nat
        /\ SizeOf(V) = SizeOf(S) + SizeOf(V \ S)
    BY <1>1, <1>2, SizeOfProperties
  <1>. QED
    BY <1>1, <1>2, <1>3 DEF V

\* What Marshal writes has a size.
LEMMA FileSizeType ==
    ASSUME NEW S \in SUBSET Txs, IsFiniteSet(S)
    PROVE  FileSize(S) \in Nat
  <1>1. S \cap Storable \in SUBSET S
    OBVIOUS
  <1>2. SizeOf(S \cap Storable) \in Nat
    BY <1>1, SizeOfProperties
  <1>. QED
    BY <1>2, QueueAssumption DEF FileSize

-----------------------------------------------------------------------------
(* The bytes of the folder *)

ListedIn(s) == {i \in DOMAIN s : s[i].listed}

\* The bytes of all files of s, and of the listed ones.
Bytes(s) == FolderSize(s, DOMAIN s)

ListedBytes(s) == FolderSize(s, ListedIn(s))

\* The listed files are a part of the folder.
LEMMA BytesProperties ==
    ASSUME NEW s \in Seq(File)
    PROVE  /\ Bytes(s) \in Nat /\ ListedBytes(s) \in Nat
           /\ ListedBytes(s) <= Bytes(s)
           /\ Bytes(s) = Total(Sizes(s), DOMAIN s)
           /\ ListedBytes(s) = Total(Sizes(s), ListedIn(s))
           /\ ListedIn(s) \in SUBSET DOMAIN s
           /\ IsFiniteSet(DOMAIN s) /\ IsFiniteSet(ListedIn(s))
           /\ \A i \in DOMAIN s : Sizes(s)[i] \in Nat
  <1> DEFINE D == DOMAIN s
             L == ListedIn(s)
  <1>1. L \in SUBSET D /\ D \in SUBSET DOMAIN s
    BY DEF ListedIn
  <1>2. /\ Bytes(s) = Total(Sizes(s), D) /\ ListedBytes(s) = Total(Sizes(s), L)
        /\ IsFiniteSet(D) /\ IsFiniteSet(L)
        /\ \A i \in D : Sizes(s)[i] \in Nat
    BY <1>1, FolderSizeIsSum DEF Bytes, ListedBytes
  <1> HIDE DEF D, L
  <1>3. /\ Total(Sizes(s), L) \in Nat /\ Total(Sizes(s), D \ L) \in Nat
        /\ Total(Sizes(s), D) = Total(Sizes(s), L) + Total(Sizes(s), D \ L)
    BY <1>1, <1>2, SumSplit
  <1>4. Bytes(s) \in Nat /\ ListedBytes(s) \in Nat /\ ListedBytes(s) <= Bytes(s)
    BY <1>2, <1>3
  <1>. QED
    BY <1>1, <1>2, <1>4 DEF D, L

\* One file of the folder, and the others.
LEMMA BytesTake ==
    ASSUME NEW s \in Seq(File), NEW i \in DOMAIN s
    PROVE  /\ Sizes(s)[i] = s[i].size /\ s[i].size \in Nat
           /\ Total(Sizes(s), DOMAIN s \ {i}) \in Nat
           /\ Bytes(s) = s[i].size + Total(Sizes(s), DOMAIN s \ {i})
           /\ s[i].listed => /\ Total(Sizes(s), ListedIn(s) \ {i}) \in Nat
                            /\ ListedBytes(s) = s[i].size + Total(Sizes(s), ListedIn(s) \ {i})
  <1> DEFINE D == DOMAIN s
             L == ListedIn(s)
             v == Sizes(s)
  <1>1. v[i] = s[i].size /\ s[i].size \in Nat /\ i \in D
    <2>1. s[i] \in File
      OBVIOUS
    <2>. QED
      BY <2>1 DEF Sizes, File
  <1>2. /\ Bytes(s) = Total(v, D) /\ ListedBytes(s) = Total(v, L)
        /\ L \in SUBSET D /\ D \in SUBSET D /\ IsFiniteSet(D)
        /\ \A k \in D : v[k] \in Nat
    BY BytesProperties
  <1>3. s[i].listed => i \in L
    BY DEF ListedIn
  <1> HIDE DEF D, L, v
  <1>4. ASSUME NEW T \in SUBSET D, i \in T
        PROVE  Total(v, T) = v[i] + Total(v, T \ {i}) /\ Total(v, T \ {i}) \in Nat
    <2>1. T \ {i} \in SUBSET D
      OBVIOUS
    <2>2. Total(v, T) = v[i] + Total(v, T \ {i})
      BY <1>2, <1>4, SumTake
    <2>3. Total(v, T \ {i}) \in Nat
      BY <1>2, <2>1, SumProperties
    <2>. QED
      BY <2>2, <2>3
  <1>5. Total(v, D) = v[i] + Total(v, D \ {i}) /\ Total(v, D \ {i}) \in Nat
    BY <1>1, <1>2, <1>4
  <1>6. i \in L => Total(v, L) = v[i] + Total(v, L \ {i}) /\ Total(v, L \ {i}) \in Nat
    BY <1>2, <1>4
  <1>. QED
    BY <1>1, <1>2, <1>3, <1>5, <1>6 DEF D, L, v

\* A new file (Store) adds its size; a file cut short by a crash is not listed.
LEMMA AddedBytes ==
    ASSUME NEW s \in Seq(File), NEW f \in File
    PROVE  /\ Append(s, f) \in Seq(File) /\ Len(Append(s, f)) = Len(s) + 1
           /\ Bytes(Append(s, f)) = Bytes(s) + f.size
           /\ ListedBytes(Append(s, f)) = ListedBytes(s) + (IF f.listed THEN f.size ELSE 0)
  <1> DEFINE r == Append(s, f)
             n == Len(s) + 1
  <1>1. /\ r \in Seq(File) /\ Len(r) = n
        /\ \A k \in 1 .. Len(s) : r[k] = s[k]
        /\ r[n] = f
    BY AppendProperties
  <1>2. DOMAIN s = 1 .. Len(s) /\ DOMAIN r = 1 .. n /\ Len(s) \in Nat
    BY <1>1
  <1> HIDE DEF r
  <1>3. /\ DOMAIN r = DOMAIN s \cup {n} /\ n \notin DOMAIN s
        /\ DOMAIN r \ {n} = DOMAIN s /\ n \in DOMAIN r
        /\ \A k \in DOMAIN s : r[k] = s[k]
    BY <1>1, <1>2
  <1> HIDE DEF n
  <1>4. /\ Sizes(r)[n] = f.size
        /\ \A k \in DOMAIN s : Sizes(r)[k] = Sizes(s)[k]
    BY <1>1, <1>3 DEF Sizes
  <1>5. ListedIn(r) = ListedIn(s) \cup (IF f.listed THEN {n} ELSE {})
    BY <1>1, <1>3 DEF ListedIn
  <1>6. /\ Bytes(r) = Total(Sizes(r), DOMAIN r)
        /\ ListedBytes(r) = Total(Sizes(r), ListedIn(r))
        /\ ListedIn(r) \in SUBSET DOMAIN r /\ IsFiniteSet(DOMAIN r)
        /\ \A i \in DOMAIN r : Sizes(r)[i] \in Nat
    BY <1>1, BytesProperties
  <1>7. /\ Bytes(s) = Total(Sizes(s), DOMAIN s)
        /\ ListedBytes(s) = Total(Sizes(s), ListedIn(s)) /\ ListedBytes(s) \in Nat
        /\ ListedIn(s) \in SUBSET DOMAIN s
        /\ IsFiniteSet(DOMAIN s) /\ IsFiniteSet(ListedIn(s))
        /\ \A i \in DOMAIN s : Sizes(s)[i] \in Nat
    BY BytesProperties
  <1>8. Bytes(s) = Total(Sizes(r), DOMAIN s)
    BY <1>4, <1>7, SumSame
  <1>9. ListedBytes(s) = Total(Sizes(r), ListedIn(s))
    <2>1. /\ \A i \in ListedIn(s) : Sizes(s)[i] \in Nat
          /\ \A i \in ListedIn(s) : Sizes(r)[i] = Sizes(s)[i]
      BY <1>4, <1>7
    <2>. QED
      BY <1>7, <2>1, SumSame
  <1>10. Bytes(r) = Bytes(s) + f.size
    <2>1. /\ Bytes(r) = f.size + Total(Sizes(r), DOMAIN s)
          /\ f.size \in Nat /\ Total(Sizes(r), DOMAIN s) \in Nat
      BY <1>1, <1>3, BytesTake
    <2>. QED
      BY <1>8, <2>1
  <1>11. ListedBytes(r) = ListedBytes(s) + (IF f.listed THEN f.size ELSE 0)
    <2>1. CASE f.listed
      <3>1. n \in ListedIn(r) /\ ListedIn(r) \ {n} = ListedIn(s)
        BY <1>3, <1>5, <1>7, <2>1
      <3>2. /\ ListedBytes(r) = r[n].size + Total(Sizes(r), ListedIn(r) \ {n})
            /\ r[n].size \in Nat /\ Total(Sizes(r), ListedIn(r) \ {n}) \in Nat
        <4>1. n \in DOMAIN r /\ r[n].listed
          BY <1>1, <1>3, <2>1
        <4>. QED
          BY <1>1, <4>1, BytesTake
      <3>3. ListedBytes(r) = f.size + ListedBytes(s)
        BY <1>1, <1>9, <3>1, <3>2, Zenon
      <3>4. f.size \in Nat
        BY <1>1, <3>2, Zenon
      <3>. QED
        BY <1>7, <2>1, <3>3, <3>4
    <2>2. CASE ~f.listed
      <3>1. ListedIn(r) = ListedIn(s)
        BY <1>5, <2>2
      <3>. QED
        BY <1>6, <1>7, <1>9, <2>2, <3>1
    <2>. QED
      BY <2>1, <2>2
  <1>. QED
    BY <1>1, <1>10, <1>11 DEF r, n

\* A file that is only forgotten (removeFileAt fails) keeps its bytes in the
\* folder and leaves those of the listed files.
LEMMA ForgottenBytes ==
    ASSUME NEW s \in Seq(File), NEW i \in ListedIn(s),
           NEW r, r = [s EXCEPT ![i].listed = FALSE]
    PROVE  /\ r \in Seq(File) /\ Len(r) = Len(s)
           /\ Bytes(r) = Bytes(s)
           /\ ListedBytes(r) <= ListedBytes(s)
  <1>1. i \in DOMAIN s /\ DOMAIN s = 1 .. Len(s) /\ Len(s) \in Nat
    BY DEF ListedIn
  <1>2. DOMAIN r = DOMAIN s
    OBVIOUS
  <1>3. ASSUME NEW k \in DOMAIN s
        PROVE  /\ r[k] \in File /\ r[k].size = s[k].size
               /\ r[k].listed = IF k = i THEN FALSE ELSE s[k].listed
    <2>1. s[k] \in File
      BY <1>3
    <2>. QED
      BY <2>1 DEF File
  <1>4. r \in Seq(File) /\ Len(r) = Len(s)
    <2>1. r \in [1 .. Len(s) -> File]
      BY <1>1, <1>3
    <2>. QED
      BY <1>1, <2>1, IntoSeq
  <1>5. Sizes(r) = Sizes(s)
    BY <1>2, <1>3 DEF Sizes
  <1>6. ListedIn(r) = ListedIn(s) \ {i}
    BY <1>2, <1>3 DEF ListedIn
  <1>7. /\ Bytes(r) = Total(Sizes(r), DOMAIN r)
        /\ ListedBytes(r) = Total(Sizes(r), ListedIn(r)) /\ ListedBytes(r) \in Nat
    BY <1>4, BytesProperties
  <1>8. /\ Bytes(s) = Total(Sizes(s), DOMAIN s)
        /\ s[i].size \in Nat
        /\ Total(Sizes(s), ListedIn(s) \ {i}) \in Nat
        /\ ListedBytes(s) = s[i].size + Total(Sizes(s), ListedIn(s) \ {i})
    <2>1. s[i].listed
      BY DEF ListedIn
    <2>2. Bytes(s) = Total(Sizes(s), DOMAIN s)
      BY BytesProperties
    <2>. QED
      BY <1>1, <2>1, <2>2, BytesTake
  <1>9. Bytes(r) = Bytes(s)
    BY <1>2, <1>5, <1>7, <1>8
  <1>10. ListedBytes(r) <= ListedBytes(s)
    <2>1. ListedBytes(r) = Total(Sizes(s), ListedIn(s) \ {i})
      BY <1>5, <1>6, <1>7
    <2>. QED
      BY <1>8, <2>1
  <1>. QED
    BY <1>4, <1>9, <1>10

\* removeFileAt takes the bytes of the file, and no others.
LEMMA RemovedBytes ==
    ASSUME NEW s \in Seq(File), NEW i \in ListedIn(s), NEW r, r = RemoveAt(s, i)
    PROVE  /\ r \in Seq(File) /\ Len(r) = Len(s) - 1
           /\ s[i].size \in Nat
           /\ Bytes(r) = Bytes(s) - s[i].size
           /\ ListedBytes(r) = ListedBytes(s) - s[i].size
  <1> DEFINE n == Len(s)
             D == DOMAIN s \ {i}
             L == ListedIn(s) \ {i}
             v == Sizes(s)
             w == Sizes(r)
             p == [k \in DOMAIN r |-> IF k < i THEN k ELSE k + 1]
  <1>1. i \in 1 .. n /\ DOMAIN s = 1 .. n /\ n \in Nat /\ i \in DOMAIN s /\ s[i].listed
    BY DEF ListedIn
  <1>2. /\ r \in Seq(File) /\ Len(r) = n - 1
        /\ \A k \in 1 .. n - 1 : r[k] = IF k < i THEN s[k] ELSE s[k + 1]
    BY <1>1, RemoveAtProperties
  <1>3. DOMAIN r = 1 .. n - 1
    BY <1>1, <1>2
  <1>4. \A k \in DOMAIN r : p[k] \in D /\ r[k] = s[p[k]] /\ p[k] \in DOMAIN s
    BY <1>1, <1>2, <1>3
  <1>5. \A k, m \in DOMAIN r : p[k] = p[m] => k = m
    BY <1>1, <1>3
  <1>6. ASSUME NEW x \in D PROVE \E k \in DOMAIN r : p[k] = x
    <2>1. CASE x < i
      <3>1. x \in DOMAIN r /\ p[x] = x
        BY <1>1, <1>3, <2>1
      <3>. QED
        BY <3>1
    <2>2. CASE ~(x < i)
      <3>1. x - 1 \in DOMAIN r /\ ~(x - 1 < i) /\ (x - 1) + 1 = x
        BY <1>1, <1>3, <2>2
      <3>. QED
        BY <3>1
    <2>. QED
      BY <2>1, <2>2
  <1>7. p \in [DOMAIN r -> DOMAIN s]
    BY <1>4
  <1> HIDE DEF p
  <1>8. \A k \in DOMAIN r : w[k] = v[p[k]]
    BY <1>4 DEF Sizes
  <1>9. {p[k] : k \in DOMAIN r} = D
    BY <1>4, <1>6
  <1>10. {p[k] : k \in ListedIn(r)} = L
    BY <1>4, <1>6 DEF ListedIn
  <1>11. /\ Bytes(r) = Total(w, DOMAIN r) /\ ListedBytes(r) = Total(w, ListedIn(r))
         /\ ListedIn(r) \in SUBSET DOMAIN r /\ IsFiniteSet(DOMAIN r)
         /\ \A k \in DOMAIN r : w[k] \in Nat
    BY <1>2, BytesProperties
  <1>12. IsFiniteSet(DOMAIN s) /\ \A k \in DOMAIN s : v[k] \in Nat
    BY BytesProperties
  <1>13. /\ s[i].size \in Nat
         /\ Total(v, D) \in Nat /\ Bytes(s) = s[i].size + Total(v, D)
         /\ Total(v, L) \in Nat /\ ListedBytes(s) = s[i].size + Total(v, L)
    BY <1>1, BytesTake
  <1>14. Renaming(p, DOMAIN r, w, DOMAIN s, v)
    BY <1>5, <1>7, <1>8, <1>11, <1>12 DEF Renaming
  <1> HIDE DEF D, L, v, w
  <1>15. Bytes(r) = Total(v, D) /\ ListedBytes(r) = Total(v, L)
    <2>1. Total(w, DOMAIN r) = Total(v, D)
      BY <1>9, <1>14, SumRenamed
    <2>2. Total(w, ListedIn(r)) = Total(v, L)
      BY <1>10, <1>11, <1>14, SumRenamed
    <2>. QED
      BY <1>11, <2>1, <2>2
  <1>16. Bytes(r) = Bytes(s) - s[i].size /\ ListedBytes(r) = ListedBytes(s) - s[i].size
    BY <1>13, <1>15
  <1>. QED
    BY <1>2, <1>13, <1>16

\* r is the folder after reloadExistingRetryFiles has listed the m files that f
\* names.
Reloaded(s, m, f, r) ==
    /\ m \in Nat /\ f \in [1 .. m -> DOMAIN s]
    /\ r = [i \in 1 .. m |-> [s[f[i]] EXCEPT !.listed = TRUE]]

\* After reloadExistingRetryFiles the counter is the size of the folder, and
\* every file is listed.
LEMMA ReloadedBytes ==
    ASSUME NEW s \in Seq(File), NEW m, NEW f, NEW r, Reloaded(s, m, f, r)
    PROVE  /\ r \in Seq(File)
           /\ ReloadedSize(s, f) = Bytes(r)
           /\ ListedBytes(r) = Bytes(r)
  <1> USE DEF Reloaded
  <1>1. ASSUME NEW k \in 1 .. m
        PROVE  r[k] \in File /\ r[k].size = s[f[k]].size /\ r[k].listed
    <2>1. s[f[k]] \in File
      OBVIOUS
    <2>2. r[k] = [s[f[k]] EXCEPT !.listed = TRUE]
      OBVIOUS
    <2>. QED
      BY <2>1, <2>2 DEF File
  <1>2. DOMAIN r = 1 .. m /\ r \in [1 .. m -> File]
    BY <1>1
  <1>3. r \in Seq(File)
    BY <1>2, IntoSeq
  <1>4. Sizes(r) \in [1 .. m -> Nat] /\ \A i \in 1 .. m : Sizes(r)[i] = s[f[i]].size
    BY <1>1, <1>2 DEF Sizes, File
  <1>5. ListedIn(r) = 1 .. m
    BY <1>1, <1>2 DEF ListedIn
  <1>6. Bytes(r) = Total(Sizes(r), 1 .. m) /\ ListedBytes(r) = Total(Sizes(r), 1 .. m)
    <2>1. Bytes(r) = Total(Sizes(r), DOMAIN r) /\ ListedBytes(r) = Total(Sizes(r), ListedIn(r))
      BY <1>3, BytesProperties
    <2>. QED
      BY <1>2, <1>5, <2>1, Zenon
  <1>7. ReloadedSize(s, f) = Total(Sizes(r), 1 .. m)
    BY <1>4, ReloadedSizeIsSum
  <1>. QED
    BY <1>3, <1>6, <1>7

-----------------------------------------------------------------------------
(* The counters *)

\* Where an operation may be, and what it carries: Add has exactly one
\* transaction until it returns, and there is no storage without a process.
CallInv ==
    /\ adding \subseteq Txs /\ batch \subseteq Txs /\ held \subseteq Txs
    /\ dropped \subseteq Txs
    /\ storage \in {"none", "broken", "ready"}
    /\ pc \in {"down", "idle", "flush", "store", "room", "drop"}
    /\ failed \subseteq {"io", "limit", "crash", "panic", "shutdown", "outdated"}
    /\ IsFiniteSet(batch)
    /\ adding = {} \/ \E t \in Txs : adding = {t}
    /\ pc \in {"flush", "drop"} => adding # {}
    /\ pc = "down" => storage = "none"

\* The counter of the memory.
MemInv ==
    /\ mem \subseteq Txs /\ IsFiniteSet(mem)
    /\ memSize \in Nat
    /\ MemAccounting

\* The counter of the folder, as long as a process counts, and what a running
\* Store has established before it writes.
DiskInv ==
    /\ dir \in Seq(File) /\ diskSize \in Nat /\ room \in Int
    /\ pc # "down" => ListedBytes(dir) <= diskSize /\ diskSize <= Bytes(dir)
    /\ pc = "room" => FileSize(batch) <= MaxDisk /\ room <= MaxDisk

SizeInv == CallInv /\ MemInv /\ DiskInv

\* Listed and DiskUsed, in the words of the lemmas above.
LEMMA DiskWords ==
    /\ Listed = ListedIn(dir) /\ Listed' = ListedIn(dir')
    /\ DiskUsed(Listed) = ListedBytes(dir) /\ DiskUsed(Listed)' = ListedBytes(dir')
    /\ DiskUsed(DOMAIN dir) = Bytes(dir) /\ DiskUsed(DOMAIN dir)' = Bytes(dir')
  <1>1. Listed = ListedIn(dir) /\ Listed' = ListedIn(dir')
    BY DEF Listed, ListedIn
  <1>2. ASSUME NEW is PROVE DiskUsed(is) = FolderSize(dir, is)
    BY DEF DiskUsed, FolderSize
  <1>3. DiskUsed(Listed)' = FolderSize(dir', Listed') /\ DiskUsed(DOMAIN dir)' = FolderSize(dir', DOMAIN dir')
    BY DEF DiskUsed, FolderSize, MapThenSumSet, MapThenFoldSet
  <1>. QED
    BY <1>1, <1>2, <1>3, Zenon DEF ListedBytes, Bytes

\* The oldest and the newest listed file (makeRoomFor, ExtractLast).
LEMMA ListedIsListed ==
    ASSUME dir \in Seq(File), Listed # {}
    PROVE  /\ Min(Listed) \in ListedIn(dir) /\ Max(Listed) \in ListedIn(dir)
           /\ Min(Listed) \in DOMAIN dir /\ Max(Listed) \in DOMAIN dir
           /\ dir[Min(Listed)].txs \subseteq Txs /\ dir[Max(Listed)].txs \subseteq Txs
  <1>1. IsFolder(dir)
    BY DEF IsFolder, FileOver, File
  <1>2. /\ Min(Listed) \in DOMAIN dir /\ Max(Listed) \in DOMAIN dir
        /\ Min(Listed) \in Listed /\ Max(Listed) \in Listed
    BY <1>1, ListedIsFile
  <1>3. \A i \in DOMAIN dir : dir[i].txs \subseteq Txs
    <2> SUFFICES ASSUME NEW i \in DOMAIN dir PROVE dir[i].txs \subseteq Txs
      OBVIOUS
    <2>1. dir[i] \in File
      OBVIOUS
    <2>. QED
      BY <2>1 DEF File
  <1>. QED
    BY <1>2, <1>3, DiskWords

\* A step keeps what is known of the running operation.
LEMMA CallStep ==
    ASSUME SizeInv, [Next]_vars
    PROVE  CallInv'
  <1> USE DEF SizeInv
  <1>1. CASE Build
    <2>1. /\ pc' = "idle" /\ storage' \in {"none", "broken", "ready"}
          /\ failed' \subseteq failed \cup {"outdated"}
          /\ UNCHANGED <<adding, batch, held, dropped>>
      BY <1>1, QueueAssumption DEF Build
    <2>. QED
      BY <2>1 DEF CallInv
  <1>2. ASSUME NEW t \in Txs, Add(t) PROVE CallInv'
    BY <1>2 DEF Add, CallInv, queueVars
  <1>3. CASE FlushGroup \/ FlushToDisk
    <2>1. PICK E \in SUBSET mem : batch' = E
      BY <1>3 DEF FlushGroup, FlushToDisk, ExtractFromMemory
    <2>2. IsFiniteSet(batch') /\ batch' \subseteq Txs
      BY <2>1, FS_Subset DEF MemInv
    <2>3. pc' = "store" /\ pc # "down" /\ UNCHANGED <<storage, adding, held, dropped, failed>>
      BY <1>3 DEF FlushGroup, FlushToDisk
    <2>. QED
      BY <2>2, <2>3 DEF CallInv
  <1>4. CASE FlushDone
    BY <1>4 DEF FlushDone, CallInv, queueVars
  <1>5. CASE DropAndAppend
    <2>1. PICK E \in SUBSET mem : dropped' = dropped \cup E
      BY <1>5 DEF DropAndAppend, ExtractFromMemory
    <2>2. E \subseteq Txs
      BY <2>1 DEF MemInv
    <2>. QED
      BY <1>5, <2>1, <2>2 DEF DropAndAppend, CallInv
  <1>6. ASSUME pc # "down", StoreReturns, UNCHANGED <<storage, adding, held>>,
               dropped' \subseteq Txs,
               failed' \subseteq failed \cup {"io", "limit", "shutdown"}
        PROVE  CallInv'
    <2>1. IsFiniteSet({})
      BY FS_EmptySet
    <2>. QED
      BY <1>6, <2>1 DEF StoreReturns, CallInv
  <1>7. CASE TooBig \/ StoreError \/ WriteFails
    <2>1. pc # "down" /\ UNCHANGED <<storage, adding, held>>
      BY <1>7 DEF TooBig, StoreError, WriteFails, queueVars
    <2>2. PICK cause \in {"limit", "io"} : StoreFails(cause)
      BY <1>7 DEF TooBig, StoreError, WriteFails
    <2>3. StoreReturns /\ dropped' \subseteq Txs /\ failed' \subseteq failed \cup {"io", "limit", "shutdown"}
      BY <2>2 DEF StoreFails, CallInv
    <2>. QED
      BY <1>6, <2>1, <2>3
  <1>8. CASE ComputeAvailableSpace
    BY <1>8 DEF ComputeAvailableSpace, CallInv, queueVars
  <1>9. CASE RemoveOldest
    <2> DEFINE i == Min(Listed)
    <2>1. dir[i].txs \subseteq Txs
      BY <1>9, ListedIsListed DEF RemoveOldest, MustMakeRoom, DiskInv
    <2>2. pc = "room" /\ UNCHANGED <<storage, adding, held>>
      BY <1>9 DEF RemoveOldest
    <2>3. \/ /\ UNCHANGED <<pc, batch, room>>
             /\ dropped' = dropped \cup dir[i].txs \/ dropped' = dropped
             /\ failed' \subseteq failed \cup {"io"}
          \/ /\ StoreReturns
             /\ dropped' = dropped \cup dir[i].txs \cup (IF adding = {} THEN {} ELSE batch)
             /\ failed' \subseteq failed \cup {"io", "shutdown"}
      BY <1>9 DEF RemoveOldest
    <2> HIDE DEF i
    <2>4. CASE /\ UNCHANGED <<pc, batch, room>>
               /\ dropped' = dropped \cup dir[i].txs \/ dropped' = dropped
               /\ failed' \subseteq failed \cup {"io"}
      BY <2>1, <2>2, <2>4 DEF CallInv
    <2>5. CASE /\ StoreReturns
               /\ dropped' = dropped \cup dir[i].txs \cup (IF adding = {} THEN {} ELSE batch)
               /\ failed' \subseteq failed \cup {"io", "shutdown"}
      <3>1. dropped' \subseteq Txs
        BY <2>1, <2>5 DEF CallInv
      <3>. QED
        BY <1>6, <2>2, <2>5, <3>1
    <2>. QED
      BY <2>3, <2>4, <2>5
  <1>10. CASE WriteFile
    <2>1. /\ pc # "down" /\ StoreReturns /\ UNCHANGED <<storage, adding, held>>
          /\ dropped' \subseteq Txs /\ failed' = failed
      BY <1>10 DEF WriteFile, CallInv
    <2>. QED
      BY <1>6, <2>1
  <1>11. CASE ExtractFromMem
    BY <1>11 DEF ExtractFromMem, callVars, CallInv, MemInv
  <1>12. CASE ExtractLast
    <2> DEFINE i == Max(Listed)
    <2>1. dir[i].txs \subseteq Txs
      BY <1>12, ListedIsListed DEF ExtractLast, DiskInv
    <2>2. /\ \E S \in SUBSET dir[i].txs : held' = held \cup S
          /\ failed' \subseteq failed \cup {"io"}
          /\ UNCHANGED <<storage, pc, adding, batch, dropped>>
      BY <1>12 DEF ExtractLast, callVars
    <2> HIDE DEF i
    <2>. QED
      BY <2>1, <2>2 DEF CallInv
  <1>13. CASE Crash \/ Panic
    <2>1. PICK cause \in SUBSET {"crash", "panic"} : Ends(cause)
      BY <1>13 DEF Crash, Panic
    <2>2. IsFiniteSet({})
      BY FS_EmptySet
    <2>. QED
      BY <2>1, <2>2 DEF Ends, CallInv
  <1>14. CASE UNCHANGED vars
    BY <1>14 DEF vars, queueVars, callVars, CallInv
  <1>. QED
    BY <1>1, <1>2, <1>3, <1>4, <1>5, <1>7, <1>8, <1>9, <1>10, <1>11, <1>12, <1>13, <1>14
       DEF Next

\* A step keeps the counter of the memory.  What leaves takes its bytes along
\* (extractTransactionsFromMemory); Add makes room first, or empties the memory.
LEMMA MemStep ==
    ASSUME QueueInv, SizeInv, [Next]_vars
    PROVE  MemInv'
  <1>1. /\ mem \in SUBSET Txs /\ IsFiniteSet(mem) /\ memSize \in Nat
        /\ memSize = SizeOf(mem)
        /\ memSize <= MaxMem \/ Cardinality(mem) = 1
    BY DEF SizeInv, MemInv, MemAccounting
  <1>2. ASSUME NEW E \in SUBSET mem
        PROVE  /\ SizeOf(E) \in Nat /\ SizeOf(mem \ E) \in Nat
               /\ memSize = SizeOf(E) + SizeOf(mem \ E)
               /\ IsFiniteSet(mem \ E)
    <2>1. mem \ E \in SUBSET mem
      OBVIOUS
    <2>2. IsFiniteSet(mem \ E)
      BY <1>1, <2>1, FS_Subset
    <2>. QED
      BY <1>1, <2>2, SizeOfProperties
  <1>3. ASSUME mem' = {}, memSize' = 0 PROVE MemInv'
    <2>1. SizeOf({}) = 0 /\ IsFiniteSet({})
      BY <1>1, SizeOfProperties, FS_EmptySet
    <2>2. SizeOf(mem)' = SizeOf(mem')
      BY DEF SizeOf, MapThenSumSet, MapThenFoldSet
    <2>3. 0 <= MaxMem
      BY QueueAssumption
    <2>. QED
      BY <1>3, <2>1, <2>2, <2>3 DEF MemInv, MemAccounting
  <1>4. ASSUME UNCHANGED <<mem, memSize>> PROVE MemInv'
    BY <1>1, <1>4 DEF MemInv, MemAccounting, SizeOf, MapThenSumSet, MapThenFoldSet
  <1>5. ASSUME NEW E \in SUBSET mem, mem' = mem \ E, memSize' = memSize - SizeOf(E)
        PROVE  MemInv'
    <2> DEFINE K == mem \ E
    <2>1. /\ SizeOf(E) \in Nat /\ SizeOf(K) \in Nat /\ memSize = SizeOf(E) + SizeOf(K)
          /\ IsFiniteSet(K) /\ mem' = K /\ K \subseteq Txs
      BY <1>1, <1>2, <1>5
    <2> HIDE DEF K
    <2>2. memSize' \in Nat /\ memSize' = SizeOf(mem') /\ IsFiniteSet(mem') /\ mem' \subseteq Txs
      <3>1. memSize' = memSize - SizeOf(E)
        BY <1>5
      <3>2. memSize' = SizeOf(K)
        BY <2>1, <3>1
      <3>. QED
        BY <2>1, <3>2
    <2>3. memSize' <= MaxMem \/ Cardinality(mem') = 1
      <3>1. CASE memSize <= MaxMem
        <4>1. memSize' <= memSize
          BY <1>5, <2>1
        <4>. QED
          BY <1>1, <2>2, <3>1, <4>1, QueueAssumption
      <3>2. CASE Cardinality(mem) = 1
        <4>1. PICK x : mem = {x}
          BY <1>1, <3>2, FS_Singleton
        <4>2. CASE E = {}
          <5>1. mem' = mem
            BY <1>5, <4>2
          <5>. QED
            BY <3>2, <5>1
        <4>3. CASE E # {}
          <5>1. mem' = {}
            BY <1>5, <4>1, <4>3
          <5>2. SizeOf({}) = 0
            BY <1>1, SizeOfProperties
          <5>3. memSize' = 0
            BY <2>2, <5>1, <5>2
          <5>. QED
            BY <5>3, QueueAssumption
        <4>. QED
          BY <4>2, <4>3
      <3>. QED
        BY <1>1, <3>1, <3>2
    <2>4. SizeOf(mem)' = SizeOf(mem')
      BY DEF SizeOf, MapThenSumSet, MapThenFoldSet
    <2>. QED
      BY <2>2, <2>3, <2>4 DEF MemInv, MemAccounting
  <1>6. CASE FlushGroup \/ FlushToDisk
    <2>1. PICK E \in SUBSET mem : mem' = mem \ E /\ memSize' = memSize - SizeOf(E)
      BY <1>6 DEF FlushGroup, FlushToDisk, ExtractFromMemory
    <2>. QED
      BY <1>5, <2>1
  <1>7. CASE DropAndAppend
    <2>1. PICK t \in Txs : adding = {t}
      BY <1>7 DEF DropAndAppend, SizeInv, CallInv
    <2>2. PICK E \in SUBSET mem :
              /\ SizeOf(E) >= memSize + SizeOf(adding) - MaxMem \/ E = mem
              /\ mem' = (mem \ E) \cup adding
              /\ memSize' = memSize - SizeOf(E) + SizeOf(adding)
      BY <1>7 DEF DropAndAppend, ExtractFromMemory
    <2> DEFINE K == mem \ E
    <2>3. K \in SUBSET Txs /\ IsFiniteSet(K) /\ t \notin K /\ mem' = K \cup {t}
      BY <1>1, <1>2, <2>1, <2>2 DEF QueueInv, NoDuplicate
    <2>4. /\ SizeOf(E) \in Nat /\ SizeOf(K) \in Nat
          /\ memSize = SizeOf(E) + SizeOf(K)
      BY <1>2, <2>2
    <2> HIDE DEF K
    <2>5. /\ IsFiniteSet(K \cup {t}) /\ SizeOf({t}) \in Nat
          /\ SizeOf(K \cup {t}) = SizeOf(K) + SizeOf({t})
      BY <2>3, SizeOfAdded
    <2>6. memSize' = SizeOf(K) + SizeOf({t})
      BY <2>1, <2>2, <2>4, <2>5
    <2>7. memSize' \in Nat /\ memSize' = SizeOf(mem') /\ IsFiniteSet(mem') /\ mem' \subseteq Txs
      BY <2>3, <2>4, <2>5, <2>6
    <2>8. memSize' <= MaxMem \/ Cardinality(mem') = 1
      <3>1. CASE SizeOf(E) >= memSize + SizeOf({t}) - MaxMem
        BY <2>4, <2>5, <2>6, <3>1, QueueAssumption
      <3>2. CASE E = mem
        <4>1. mem' = {t}
          BY <2>1, <2>2, <3>2
        <4>. QED
          BY <4>1, FS_Singleton
      <3>. QED
        BY <2>1, <2>2, <3>1, <3>2
    <2>9. SizeOf(mem)' = SizeOf(mem')
      BY DEF SizeOf, MapThenSumSet, MapThenFoldSet
    <2>. QED
      BY <2>7, <2>8, <2>9 DEF MemInv, MemAccounting
  <1>8. CASE ExtractFromMem
    BY <1>3, <1>8 DEF ExtractFromMem
  <1>9. CASE ExtractLast
    <2>1. mem' = mem /\ mem = {} /\ (memSize' = memSize \/ memSize' = 0)
      BY <1>9 DEF ExtractLast
    <2>. QED
      BY <1>3, <1>4, <2>1
  <1>10. CASE Crash \/ Panic
    BY <1>3, <1>10 DEF Crash, Panic, Ends
  <1>11. CASE \/ Build \/ FlushDone \/ TooBig \/ StoreError \/ ComputeAvailableSpace
              \/ RemoveOldest \/ WriteFile \/ WriteFails \/ UNCHANGED vars
              \/ \E t \in Txs : Add(t)
    <2>1. UNCHANGED <<mem, memSize>>
      BY <1>11 DEF Build, FlushDone, TooBig, StoreError, ComputeAvailableSpace,
            RemoveOldest, WriteFile, WriteFails, Add, vars, queueVars
    <2>. QED
      BY <1>4, <2>1
  <1>. QED
    BY <1>6, <1>7, <1>8, <1>9, <1>10, <1>11 DEF Next

\* A step keeps the counter of the folder: a file enters or leaves the counter
\* with the bytes it has, and one that could not be removed stays counted.
LEMMA DiskStep ==
    ASSUME SizeInv, [Next]_vars
    PROVE  DiskInv'
  <1>1. /\ dir \in Seq(File) /\ diskSize \in Nat /\ room \in Int
        /\ pc # "down" => ListedBytes(dir) <= diskSize /\ diskSize <= Bytes(dir)
        /\ pc = "room" => FileSize(batch) <= MaxDisk /\ room <= MaxDisk
        /\ FileSize(batch) \in Nat
    BY FileSizeType DEF SizeInv, DiskInv, CallInv
  <1>2. Bytes(dir) \in Nat /\ ListedBytes(dir) \in Nat
    BY <1>1, BytesProperties
  <1>3. ASSUME UNCHANGED <<dir, diskSize>>, pc # "down", pc' \notin {"down", "room"}, room' \in Int
        PROVE  DiskInv'
    BY <1>1, <1>3 DEF DiskInv
  <1>4. ASSUME NEW i \in ListedIn(dir), pc # "down", pc' # "down", room' \in Int,
               pc' = "room" => pc = "room" /\ UNCHANGED <<batch, room>>,
               RemoveFileAt(i) \/ RemoveFileAtFails(i)
        PROVE  DiskInv'
    <2>1. FileSize(batch)' = FileSize(batch')
      BY DEF FileSize, SizeOf, MapThenSumSet, MapThenFoldSet
    <2>2. pc' = "room" => (FileSize(batch) <= MaxDisk)' /\ room' <= MaxDisk
      BY <1>1, <1>4, <2>1
    <2>3. CASE RemoveFileAt(i)
      <3>1. dir' = RemoveAt(dir, i) /\ diskSize' = diskSize - dir[i].size
        BY <2>3 DEF RemoveFileAt
      <3>2. /\ dir' \in Seq(File) /\ dir[i].size \in Nat
            /\ Bytes(dir') = Bytes(dir) - dir[i].size
            /\ ListedBytes(dir') = ListedBytes(dir) - dir[i].size
        BY <1>1, <3>1, RemovedBytes
      <3>3. ListedBytes(dir') \in Nat
        BY <3>2, BytesProperties
      <3>4. /\ diskSize \in Nat /\ ListedBytes(dir) <= diskSize /\ diskSize <= Bytes(dir)
            /\ Bytes(dir) \in Nat /\ ListedBytes(dir) \in Nat
        BY <1>1, <1>2, <1>4
      <3>5. diskSize' \in Nat /\ ListedBytes(dir') <= diskSize' /\ diskSize' <= Bytes(dir')
        <4> DEFINE z == dir[i].size
        <4>1. /\ diskSize' = diskSize - z /\ z \in Nat
              /\ Bytes(dir') = Bytes(dir) - z /\ ListedBytes(dir') = ListedBytes(dir) - z
          BY <3>1, <3>2
        <4> HIDE DEF z
        <4>. QED
          BY <3>3, <3>4, <4>1
      <3>. QED
        BY <1>4, <2>2, <3>2, <3>5 DEF DiskInv
    <2>4. CASE RemoveFileAtFails(i)
      <3>1. dir' = [dir EXCEPT ![i].listed = FALSE] /\ diskSize' = diskSize
        BY <2>4 DEF RemoveFileAtFails
      <3>2. dir' \in Seq(File) /\ Bytes(dir') = Bytes(dir) /\ ListedBytes(dir') <= ListedBytes(dir)
        BY <1>1, <3>1, ForgottenBytes
      <3>3. ListedBytes(dir') \in Nat
        BY <3>2, BytesProperties
      <3>4. ListedBytes(dir') <= diskSize' /\ diskSize' <= Bytes(dir')
        BY <1>1, <1>2, <1>4, <3>1, <3>2, <3>3
      <3>. QED
        BY <1>1, <1>4, <2>2, <3>1, <3>2, <3>4 DEF DiskInv
    <2>. QED
      BY <1>4, <2>3, <2>4
  <1>5. CASE Build
    <2>1. PICK f \in RemoveOutdatedFiles : ReloadExistingRetryFiles(f)
      BY <1>5 DEF Build
    <2>2. PICK m \in 0 .. Len(dir) : f \in [1 .. m -> DOMAIN dir]
      BY DEF RemoveOutdatedFiles
    <2>3. m \in Nat /\ DOMAIN f = 1 .. m
      BY <2>2
    <2>4. /\ dir' = [i \in 1 .. m |-> [dir[f[i]] EXCEPT !.listed = TRUE]]
          /\ diskSize' = ReloadedSize(dir, f)
      BY <2>1, <2>3 DEF ReloadExistingRetryFiles, ReloadedSize
    <2>5. /\ dir' \in Seq(File) /\ diskSize' = Bytes(dir')
          /\ ListedBytes(dir') = Bytes(dir')
      <3>1. dir \in Seq(File)
        BY <1>1
      <3>2. Reloaded(dir, m, f, dir')
        BY <2>2, <2>3, <2>4 DEF Reloaded
      <3>3. /\ dir' \in Seq(File) /\ ReloadedSize(dir, f) = Bytes(dir')
            /\ ListedBytes(dir') = Bytes(dir')
        BY <3>1, <3>2, ReloadedBytes
      <3>. QED
        BY <2>4, <3>3
    <2>6. Bytes(dir') \in Nat
      BY <2>5, BytesProperties
    <2>7. pc' = "idle" /\ room' = room
      BY <1>5 DEF Build
    <2>. QED
      BY <1>1, <2>5, <2>6, <2>7 DEF DiskInv
  <1>6. CASE ComputeAvailableSpace
    <2>1. PICK free \in FreeSpace :
              room' = IF diskSize + free < MaxDisk THEN diskSize + free ELSE MaxDisk
      BY <1>6 DEF ComputeAvailableSpace
    <2>2. room' \in Int /\ room' <= MaxDisk
      BY <1>1, <2>1, QueueAssumption
    <2>3. /\ UNCHANGED <<dir, diskSize, batch>> /\ pc # "down" /\ pc' = "room"
          /\ FileSize(batch) <= MaxDisk
      BY <1>6 DEF ComputeAvailableSpace, queueVars
    <2>4. FileSize(batch)' = FileSize(batch)
      BY <2>3 DEF FileSize, SizeOf, MapThenSumSet, MapThenFoldSet
    <2>. QED
      BY <1>1, <2>2, <2>3, <2>4 DEF DiskInv
  <1>7. CASE RemoveOldest
    <2>1. Min(Listed) \in ListedIn(dir)
      BY <1>1, <1>7, ListedIsListed DEF RemoveOldest, MustMakeRoom
    <2>2. pc' # "down" /\ pc = "room" /\ room' \in Int
      BY <1>1, <1>7 DEF RemoveOldest, StoreReturns
    <2>3. pc' = "room" => UNCHANGED <<batch, room>>
      BY <1>7 DEF RemoveOldest, StoreReturns
    <2>4. RemoveFileAt(Min(Listed)) \/ RemoveFileAtFails(Min(Listed))
      BY <1>7 DEF RemoveOldest
    <2>. QED
      BY <1>4, <2>1, <2>2, <2>3, <2>4
  <1>8. CASE WriteFile
    <2> DEFINE f == [txs |-> batch \cap Storable, size |-> FileSize(batch),
                     whole |-> TRUE, listed |-> TRUE]
    <2>1. f \in File /\ f.size = FileSize(batch) /\ f.listed
      BY <1>1 DEF SizeInv, CallInv, File
    <2>2. dir' = Append(dir, f) /\ diskSize' = diskSize + FileSize(batch) /\ pc = "room"
      BY <1>8 DEF WriteFile
    <2> HIDE DEF f
    <2>3. /\ dir' \in Seq(File) /\ Bytes(dir') = Bytes(dir) + FileSize(batch)
          /\ ListedBytes(dir') = ListedBytes(dir) + FileSize(batch)
      BY <1>1, <2>1, <2>2, AddedBytes
    <2>4. pc' \notin {"down", "room"} /\ room' \in Int
      BY <1>8 DEF WriteFile, StoreReturns
    <2>5. diskSize' \in Nat /\ ListedBytes(dir') <= diskSize' /\ diskSize' <= Bytes(dir')
      BY <1>1, <1>2, <2>2, <2>3
    <2>. QED
      BY <2>3, <2>4, <2>5 DEF DiskInv
  <1>9. CASE ExtractLast
    <2>1. Max(Listed) \in ListedIn(dir)
      BY <1>1, <1>9, ListedIsListed DEF ExtractLast
    <2>2. pc' = pc /\ pc = "idle" /\ room' = room
      BY <1>9 DEF ExtractLast, callVars
    <2>3. RemoveFileAt(Max(Listed)) \/ RemoveFileAtFails(Max(Listed))
      BY <1>9 DEF ExtractLast
    <2>. QED
      BY <1>1, <1>4, <2>1, <2>2, <2>3
  <1>10. CASE Crash \/ Panic
    <2>1. pc' = "down" /\ diskSize' = 0 /\ room' = 0
      BY <1>10 DEF Crash, Panic, Ends
    <2>2. dir' \in Seq(File)
      <3>1. CASE dir' = dir
        BY <1>1, <3>1
      <3>2. CASE \E n \in 0 .. FileSize(batch) :
                    dir' = Append(dir, [txs |-> {}, size |-> n,
                                        whole |-> FALSE, listed |-> FALSE])
        <4>1. PICK n \in 0 .. FileSize(batch) :
                      dir' = Append(dir, [txs |-> {}, size |-> n,
                                          whole |-> FALSE, listed |-> FALSE])
          BY <3>2
        <4>2. [txs |-> {}, size |-> n, whole |-> FALSE, listed |-> FALSE] \in File
          BY <1>1 DEF File
        <4>. QED
          BY <1>1, <4>1, <4>2, AppendProperties
      <3>. QED
        BY <1>10, <3>1, <3>2 DEF Crash, Panic
    <2>. QED
      BY <2>1, <2>2 DEF DiskInv
  <1>11. CASE FlushGroup \/ FlushDone \/ DropAndAppend \/ FlushToDisk \/ ExtractFromMem
              \/ \E t \in Txs : Add(t)
    <2>1. UNCHANGED <<dir, diskSize, room>> /\ pc # "down" /\ pc' \notin {"down", "room"}
      BY <1>11 DEF FlushGroup, FlushDone, DropAndAppend, FlushToDisk, ExtractFromMem,
            Add, queueVars, callVars
    <2>. QED
      BY <1>1, <1>3, <2>1
  <1>12. CASE TooBig \/ StoreError \/ WriteFails
    <2>1. UNCHANGED <<dir, diskSize>> /\ pc # "down" /\ pc' \notin {"down", "room"} /\ room' = 0
      BY <1>12 DEF TooBig, StoreError, WriteFails, StoreFails, StoreReturns, queueVars
    <2>. QED
      BY <1>3, <2>1
  <1>13. CASE UNCHANGED vars
    <2>1. UNCHANGED <<dir, diskSize, room, pc, batch>>
      BY <1>13 DEF vars, queueVars, callVars
    <2>2. FileSize(batch)' = FileSize(batch)
      BY <2>1 DEF FileSize, SizeOf, MapThenSumSet, MapThenFoldSet
    <2>. QED
      BY <1>1, <2>1, <2>2 DEF DiskInv
  <1>. QED
    BY <1>5, <1>6, <1>7, <1>8, <1>9, <1>10, <1>11, <1>12, <1>13 DEF Next

\* A step keeps the whole invariant.
LEMMA SizeStep ==
    ASSUME QueueInv, SizeInv, [Next]_vars
    PROVE  QueueInv' /\ SizeInv'
  BY QueueStep, CallStep, MemStep, DiskStep DEF SizeInv

LEMMA SizeInit == Init => QueueInv /\ SizeInv
  <1> SUFFICES ASSUME Init PROVE QueueInv /\ SizeInv
    OBVIOUS
  <1>1. SizeOf({}) = 0 /\ IsFiniteSet({})
    <2>1. {} \in SUBSET Txs /\ {} \in SUBSET {} /\ IsFiniteSet({})
      BY FS_EmptySet
    <2>. QED
      BY <2>1, SizeOfProperties
  <1>2. 0 <= MaxMem
    BY QueueAssumption
  <1>3. MemInv
    BY <1>1, <1>2 DEF Init, MemInv, MemAccounting
  <1>4. CallInv /\ DiskInv
    BY <1>1 DEF Init, CallInv, DiskInv
  <1>. QED
    BY <1>3, <1>4, QueueInit DEF SizeInv

\* Every variable keeps its type; in particular neither counter is ever negative.
THEOREM TypeCorrect == Spec => []TypeOK
  <1>1. QueueInv /\ SizeInv /\ [Next]_vars => QueueInv' /\ SizeInv'
    BY SizeStep
  <1>2. SizeInv => TypeOK
    BY DEF SizeInv, CallInv, MemInv, DiskInv, TypeOK
  <1>. QED
    BY <1>1, <1>2, SizeInit, PTL DEF Spec

\* currentMemSizeInBytes is the size of what is in memory, and the memory is over
\* its limit only with a single transaction that is larger than the limit, for
\* any sizes, priorities and limits (transaction_retry_queue.go, Add,
\* extractTransactionsFromMemory, ExtractTransactions, FlushToDisk).
THEOREM MemoryCorrect == Spec => []MemAccounting
  <1>1. QueueInv /\ SizeInv /\ [Next]_vars => QueueInv' /\ SizeInv'
    BY SizeStep
  <1>2. SizeInv => MemAccounting
    BY DEF SizeInv, MemInv
  <1>. QED
    BY <1>1, <1>2, SizeInit, PTL DEF Spec

\* currentSizeInBytes stays between the bytes of the listed files and the bytes
\* of the folder, through any failed removal, eviction, crash and reload
\* (on_disk_retry_queue.go, Store, removeFileAt, reloadExistingRetryFiles).
THEOREM DiskCorrect == Spec => []DiskAccounting
  <1>1. QueueInv /\ SizeInv /\ [Next]_vars => QueueInv' /\ SizeInv'
    BY SizeStep
  <1>2. SizeInv => DiskAccounting
    <2> SUFFICES ASSUME SizeInv, storage = "ready"
                 PROVE  DiskUsed(Listed) <= diskSize /\ diskSize <= DiskUsed(DOMAIN dir)
      BY DEF DiskAccounting
    <2>1. ListedBytes(dir) <= diskSize /\ diskSize <= Bytes(dir)
      BY DEF SizeInv, CallInv, DiskInv
    <2>. QED
      BY <2>1, DiskWords
  <1>. QED
    BY <1>1, <1>2, SizeInit, PTL DEF Spec

\* No write takes the listed files over forwarder_storage_max_size_in_bytes,
\* whatever the disk has left and whichever old file could not be removed
\* (on_disk_retry_queue.go, Store and makeRoomFor; disk_usage_limit.go).
THEOREM LimitCorrect == Spec => DiskLimit
  <1>1. QueueInv /\ SizeInv /\ [Next]_vars => QueueInv' /\ SizeInv'
    BY SizeStep
  <1>2. SizeInv /\ [Next]_vars
        => [pc = "room" /\ Len(dir') > Len(dir) /\ pc' # "down"
               => DiskUsed(Listed)' <= MaxDisk]_vars
    <2> SUFFICES ASSUME SizeInv, [Next]_vars, pc = "room", Len(dir') > Len(dir), pc' # "down"
                 PROVE  ListedBytes(dir') <= MaxDisk
      BY DiskWords
    <2>1. /\ dir \in Seq(File) /\ diskSize \in Nat /\ room \in Int
          /\ ListedBytes(dir) <= diskSize
          /\ FileSize(batch) <= MaxDisk /\ room <= MaxDisk
          /\ FileSize(batch) \in Nat /\ Len(dir) \in Nat
      BY FileSizeType DEF SizeInv, DiskInv, CallInv
    <2>2. ListedBytes(dir) \in Nat
      BY <2>1, BytesProperties
    <2>3. CASE RemoveOldest
      <3>1. Min(Listed) \in ListedIn(dir)
        BY <2>1, <2>3, ListedIsListed DEF RemoveOldest, MustMakeRoom
      <3>2. \/ dir' = RemoveAt(dir, Min(Listed))
            \/ dir' = [dir EXCEPT ![Min(Listed)].listed = FALSE]
        BY <2>3 DEF RemoveOldest, RemoveFileAt, RemoveFileAtFails
      <3>3. Len(dir') = Len(dir) - 1 \/ Len(dir') = Len(dir)
        BY <2>1, <3>1, <3>2, RemovedBytes, ForgottenBytes
      <3>. QED
        BY <2>1, <3>3
    <2>4. CASE WriteFile
      <3> DEFINE f == [txs |-> batch \cap Storable, size |-> FileSize(batch),
                       whole |-> TRUE, listed |-> TRUE]
      <3>1. f \in File /\ f.size = FileSize(batch) /\ f.listed
        BY <2>1 DEF SizeInv, CallInv, File
      <3>2. dir' = Append(dir, f)
        BY <2>4 DEF WriteFile
      <3> HIDE DEF f
      <3>3. ListedBytes(dir') = ListedBytes(dir) + FileSize(batch)
        BY <2>1, <3>1, <3>2, AddedBytes
      <3>4. CASE Listed = {}
        <4>1. ListedBytes(dir) = 0
          <5>1. ListedBytes(dir) = Total(Sizes(dir), {})
            BY <2>1, <3>4, DiskWords, BytesProperties
          <5>2. IsFiniteSet(DOMAIN dir) /\ \A k \in DOMAIN dir : Sizes(dir)[k] \in Nat
            BY <2>1, BytesProperties
          <5>. QED
            BY <5>1, <5>2, SumProperties
        <4>. QED
          BY <2>1, <3>3, <4>1
      <3>5. CASE diskSize + FileSize(batch) <= room
        BY <2>1, <2>2, <3>3, <3>5, QueueAssumption
      <3>. QED
        BY <2>1, <2>4, <3>4, <3>5 DEF WriteFile, MustMakeRoom
    <2>5. CASE dir' = dir
      BY <2>1, <2>5
    <2>6. CASE Build \/ ExtractLast \/ Crash \/ Panic
      BY <2>6 DEF Build, ExtractLast, Crash, Panic, Ends
    <2>7. \/ RemoveOldest \/ WriteFile \/ dir' = dir
          \/ Build \/ ExtractLast \/ Crash \/ Panic
      BY DEF Next, Add, FlushGroup, FlushDone, DropAndAppend, FlushToDisk, TooBig,
             StoreError, ComputeAvailableSpace, WriteFails, ExtractFromMem, vars, queueVars
    <2>. QED
      BY <2>3, <2>4, <2>5, <2>6, <2>7
  <1>. QED
    BY <1>1, <1>2, SizeInit, PTL DEF Spec, DiskLimit

\* FlushToDisk asks for maxMemSizeInBytes bytes and stops when it has them; what
\* it leaves behind has no bytes.
LEMMA FlushLeavesNoBytes ==
    ASSUME SizeInv, MaxMem > 0, NEW E \in ExtractFromMemory(mem, MaxMem)
    PROVE  SizeOf(mem \ E) = 0
  <1> DEFINE K == mem \ E
  <1>1. /\ mem \in SUBSET Txs /\ IsFiniteSet(mem) /\ E \in SUBSET mem
        /\ memSize = SizeOf(mem)
        /\ memSize <= MaxMem \/ Cardinality(mem) = 1
        /\ SizeOf(E) >= MaxMem \/ E = mem
    BY DEF SizeInv, MemInv, MemAccounting, ExtractFromMemory
  <1>2. /\ SizeOf(E) \in Nat /\ SizeOf(K) \in Nat /\ memSize = SizeOf(E) + SizeOf(K)
        /\ SizeOf({}) = 0
    BY <1>1, SizeOfProperties
  <1>3. CASE E = mem
    <2>1. K = {}
      BY <1>3
    <2>. QED
      BY <1>2, <2>1
  <1>4. CASE E # mem /\ memSize <= MaxMem
    <2> HIDE DEF K
    <2>1. SizeOf(E) >= MaxMem
      BY <1>1, <1>4
    <2>. QED
      BY <1>2, <1>4, <2>1, QueueAssumption DEF K
  <1>5. CASE E # mem /\ Cardinality(mem) = 1
    <2>1. PICK x : mem = {x}
      BY <1>1, <1>5, FS_Singleton
    <2>2. E = {}
      BY <1>1, <1>5, <2>1
    <2>. QED
      BY <1>1, <1>2, <1>5, <2>2, QueueAssumption
  <1>. QED
    BY <1>1, <1>3, <1>4, <1>5

\* FlushToDisk empties the memory, although it asks for maxMemSizeInBytes bytes
\* only.  The two assumptions are needed: with a limit of 0 it extracts nothing
\* and leaves the one transaction the memory can hold, and a payload of 0 bytes
\* can be left behind the ones that reach the limit (transaction_retry_queue.go,
\* FlushToDisk, extractTransactionsFromMemory).
THEOREM FlushCorrect ==
    ASSUME MaxMem > 0, \A t \in Txs : Size[t] > 0
    PROVE  Spec => FlushTakesAll
  <1>1. QueueInv /\ SizeInv /\ [Next]_vars => QueueInv' /\ SizeInv'
    BY SizeStep
  <1>2. SizeInv /\ [Next]_vars => [pc = "idle" /\ pc' = "store" => mem' = {}]_vars
    <2> SUFFICES ASSUME SizeInv, [Next]_vars, pc = "idle", pc' = "store", mem' # {}
                 PROVE  FALSE
      OBVIOUS
    <2>1. FlushToDisk
      BY DEF Next, Build, Add, FlushGroup, FlushDone, DropAndAppend, TooBig, StoreError,
             ComputeAvailableSpace, RemoveOldest, WriteFile, WriteFails, ExtractFromMem,
             ExtractLast, Crash, Panic, Ends, callVars, vars
    <2>2. PICK E \in ExtractFromMemory(mem, MaxMem) : mem' = mem \ E
      BY <2>1 DEF FlushToDisk
    <2>3. SizeOf(mem \ E) = 0
      BY <2>2, FlushLeavesNoBytes
    <2> DEFINE K == mem \ E
    <2>4. K \in SUBSET mem /\ mem \in SUBSET Txs /\ IsFiniteSet(mem) /\ K # {}
      BY <2>2 DEF SizeInv, MemInv
    <2>5. IsFiniteSet(K) /\ K \in SUBSET Txs
      BY <2>4, FS_Subset
    <2>6. PICK t \in K : TRUE
      BY <2>4
    <2>7. Total(Size, K) = Size[t] + Total(Size, K \ {t}) /\ Total(Size, K \ {t}) \in Nat
      <3> HIDE DEF K
      <3>1. (\A x \in K : Size[x] \in Nat) /\ K \in SUBSET K /\ K \ {t} \in SUBSET K
        BY <2>5, QueueAssumption
      <3>2. Total(Size, K) = Size[t] + Total(Size, K \ {t})
        BY <2>5, <2>6, <3>1, SumTake
      <3>3. Total(Size, K \ {t}) \in Nat
        BY <2>5, <3>1, SumProperties
      <3>. QED
        BY <3>2, <3>3
    <2>8. Total(Size, K) = 0
      BY <2>3 DEF SizeOf, Total
    <2>9. Size[t] \in Nat /\ Size[t] > 0
      BY <2>5, <2>6, QueueAssumption
    <2>. QED
      BY <2>7, <2>8, <2>9
  <1>. QED
    BY <1>1, <1>2, SizeInit, PTL DEF Spec, FlushTakesAll

-----------------------------------------------------------------------------
(* extractTransactionsFromMemory *)

\* The sort places no transaction before itself.
LEMMA NotBeforeItself ==
    ASSUME NEW t \in Txs
    PROVE  ~Less(t, t)
  <1>1. Priority[t] \in Nat /\ CreatedAt[t] \in Nat
    BY QueueAssumption
  <1>. QED
    BY <1>1 DEF Less

\* A finite set of transactions has one that the sort can place first.
LEMMA SomeFirst ==
    ASSUME NEW S \in SUBSET Txs, IsFiniteSet(S), S # {}
    PROVE  \E t \in S : \A u \in S : ~Less(u, t)
  <1> DEFINE First(T) == \E t \in T : \A u \in T : ~Less(u, t)
             Good == {T \in SUBSET S : T = {} \/ First(T)}
  <1>1. \A t \in Txs : Priority[t] \in Nat /\ CreatedAt[t] \in Nat
    BY QueueAssumption
  <1>2. {} \in Good
    OBVIOUS
  <1>3. ASSUME NEW T \in SUBSET S, NEW x \in S, T \in Good, x \notin T
        PROVE  T \cup {x} \in Good
    <2>1. ~Less(x, x)
      BY NotBeforeItself
    <2>2. CASE T = {}
      BY <2>1, <2>2
    <2>3. CASE T # {}
      <3>1. PICK t \in T : \A u \in T : ~Less(u, t)
        BY <1>3, <2>3
      <3>2. CASE Less(x, t)
        <4>1. ASSUME NEW u \in T PROVE ~Less(u, x)
          <5>1. ~Less(u, t) /\ u \in Txs /\ x \in Txs /\ t \in Txs
            BY <3>1
          <5>. QED
            BY <1>1, <3>2, <5>1 DEF Less
        <4>. QED
          BY <2>1, <4>1
      <3>3. CASE ~Less(x, t)
        BY <3>1, <3>3
      <3>. QED
        BY <3>2, <3>3
    <2>. QED
      BY <2>2, <2>3
  <1> HIDE DEF Good
  <1>4. SUBSET S \subseteq Good
    BY <1>2, <1>3, SubsetInduction
  <1>. QED
    BY <1>4 DEF Good

\* Whatever is in memory and however much is asked for, there is something that
\* extractTransactionsFromMemory can return: the steps of Add and FlushToDisk
\* that use it are not blocked by the way the model describes it.
LEMMA ExtractionTotal ==
    ASSUME NEW S \in SUBSET Txs, IsFiniteSet(S), NEW n \in Int
    PROVE  ExtractFromMemory(S, n) # {}
  <1> DEFINE IsTail(E) == \A t \in E, u \in S \ E : ~Less(t, u)
             Enough == {E \in SUBSET S : IsTail(E) /\ (SizeOf(E) >= n \/ E = S)}
  <1>1. S \in Enough
    OBVIOUS
  <1>2. PICK E \in Enough : \A x \in E : E \ {x} \notin Enough
    <2>1. Enough \subseteq SUBSET S /\ Enough # {}
      BY <1>1
    <2> HIDE DEF Enough
    <2>. QED
      BY <2>1, MinimalSet
  <1>3. E \in SUBSET S /\ IsTail(E) /\ (SizeOf(E) >= n \/ E = S)
    BY <1>2
  <1>4. ASSUME E # {}
        PROVE  \E t \in E : (\A u \in E : ~Less(u, t)) /\ SizeOf(E \ {t}) < n
    <2>1. IsFiniteSet(E) /\ E \in SUBSET Txs
      BY <1>3, FS_Subset
    <2>2. PICK t \in E : \A u \in E : ~Less(u, t)
      BY <1>4, <2>1, SomeFirst
    <2>3. IsTail(E \ {t})
      BY <1>3, <2>2
    <2>4. E \ {t} \in SUBSET S /\ E \ {t} \notin Enough
      BY <1>2, <1>3, <2>2
    <2>5. ~(SizeOf(E \ {t}) >= n)
      BY <2>3, <2>4
    <2>6. SizeOf(E \ {t}) \in Nat
      <3>1. E \ {t} \in SUBSET E
        OBVIOUS
      <3>. QED
        BY <2>1, <3>1, SizeOfProperties
    <2>7. SizeOf(E \ {t}) < n
      BY <2>5, <2>6
    <2> HIDE DEF Enough, IsTail
    <2>. QED
      BY <2>2, <2>7
  <1>5. E \in ExtractFromMemory(S, n)
    BY <1>3, <1>4 DEF ExtractFromMemory
  <1>. QED
    BY <1>5

\* What Add and FlushToDisk need to take their next step while they hold the
\* mutex: the guards of FlushGroup, FlushDone, DropAndAppend and FlushToDisk.
AddProceeds ==
    /\ pc = "flush" =>
          \/ MemFull /\ ExtractFromMemory(mem, FlushSize) \ {{}} # {}
          \/ ~MemFull \/ {} \in ExtractFromMemory(mem, FlushSize)
    /\ pc = "drop" => ExtractFromMemory(mem, memSize + SizeOf(adding) - MaxMem) # {}
    /\ pc = "idle" => ExtractFromMemory(mem, MaxMem) # {}

\* Add is never stuck with the mutex on its way through memory: it can always
\* flush a group or go on, and always append (transaction_retry_queue.go, Add,
\* extractTransactionsForDisk, extractTransactionsFromMemory).
THEOREM AddIsNotBlocked == Spec => []AddProceeds
  <1>1. QueueInv /\ SizeInv /\ [Next]_vars => QueueInv' /\ SizeInv'
    BY SizeStep
  <1>2. SizeInv => AddProceeds
    <2> SUFFICES ASSUME SizeInv PROVE AddProceeds
      OBVIOUS
    <2>1. mem \in SUBSET Txs /\ IsFiniteSet(mem) /\ memSize \in Nat
      BY DEF SizeInv, MemInv
    <2>2. adding \in SUBSET Txs /\ IsFiniteSet(adding)
      BY FS_EmptySet, FS_Singleton DEF SizeInv, CallInv
    <2>3. SizeOf(adding) \in Nat
      BY <2>2, SizeOfProperties
    <2>4. FlushSize \in Int /\ MaxMem \in Int /\ memSize + SizeOf(adding) - MaxMem \in Int
      BY <2>1, <2>3, QueueAssumption
    <2>5. /\ ExtractFromMemory(mem, FlushSize) # {}
          /\ ExtractFromMemory(mem, MaxMem) # {}
          /\ ExtractFromMemory(mem, memSize + SizeOf(adding) - MaxMem) # {}
      BY <2>1, <2>4, ExtractionTotal
    <2>. QED
      BY <2>5 DEF AddProceeds
  <1>. QED
    BY <1>1, <1>2, SizeInit, PTL DEF Spec

\* The loop of extractTransactionsFromMemory on the sorted slice s, which ends
\* with the index i: it takes s[k] for k > i, stops with n bytes or at the front,
\* and did not have n bytes before any of its turns.  Whatever order the sort
\* leaves between equals, what the loop extracts is in ExtractFromMemory.
THEOREM LoopExtracts ==
    ASSUME NEW S \in SUBSET Txs, NEW n \in Int, NEW s \in Seq(S),
           \A x \in S : \E k \in 1 .. Len(s) : s[k] = x,
           \A j, k \in 1 .. Len(s) : s[j] = s[k] => j = k,
           \A j, k \in 1 .. Len(s) : j < k => ~Less(s[k], s[j]),
           NEW i \in 0 .. Len(s),
           i = 0 \/ SizeOf({s[k] : k \in i + 1 .. Len(s)}) >= n,
           \A j \in i + 1 .. Len(s) : SizeOf({s[k] : k \in j + 1 .. Len(s)}) < n
    PROVE  {s[k] : k \in i + 1 .. Len(s)} \in ExtractFromMemory(S, n)
  <1> DEFINE E == {s[k] : k \in i + 1 .. Len(s)}
  <1>1. Len(s) \in Nat /\ \A k \in 1 .. Len(s) : s[k] \in S
    OBVIOUS
  <1>2. E \in SUBSET S
    BY <1>1
  <1>3. ASSUME NEW t \in E, NEW u \in S \ E PROVE ~Less(t, u)
    <2>1. PICK k \in i + 1 .. Len(s) : t = s[k]
      OBVIOUS
    <2>2. PICK j \in 1 .. Len(s) : u = s[j]
      OBVIOUS
    <2>3. j < k /\ k \in 1 .. Len(s)
      <3>1. ASSUME j \in i + 1 .. Len(s) PROVE FALSE
        <4>1. s[j] \in E
          BY <3>1
        <4>. QED
          BY <2>2, <4>1
      <3>2. j \in 1 .. Len(s) /\ j \notin i + 1 .. Len(s)
        BY <2>2, <3>1
      <3> HIDE DEF E
      <3>. QED
        BY <1>1, <2>1, <3>2
    <2>. QED
      BY <2>1, <2>2, <2>3
  <1>4. SizeOf(E) >= n \/ E = S
    <2>1. ASSUME i = 0 PROVE E = S
      BY <1>1, <2>1
    <2>. QED
      BY <2>1
  <1>5. ASSUME E # {}
        PROVE  \E t \in E : (\A u \in E : ~Less(u, t)) /\ SizeOf(E \ {t}) < n
    <2> DEFINE j == i + 1
    <2>1. j \in i + 1 .. Len(s) /\ j \in 1 .. Len(s) /\ s[j] \in E
      BY <1>1, <1>5
    <2>2. ASSUME NEW u \in E PROVE ~Less(u, s[j])
      <3>1. PICK k \in i + 1 .. Len(s) : u = s[k]
        OBVIOUS
      <3>2. CASE k = j
        <4>1. u \in Txs
          BY <1>2
        <4>2. ~Less(u, u)
          BY <4>1, NotBeforeItself
        <4>. QED
          BY <3>1, <3>2, <4>2
      <3>3. CASE k # j
        <4>1. j < k /\ k \in 1 .. Len(s)
          BY <1>1, <3>3
        <4>. QED
          BY <2>1, <3>1, <4>1
      <3>. QED
        BY <3>2, <3>3
    <2>3. E \ {s[j]} = {s[k] : k \in j + 1 .. Len(s)}
      <3>1. ASSUME NEW k \in i + 1 .. Len(s), s[k] # s[j]
            PROVE  k \in j + 1 .. Len(s)
        <4>1. k # j
          BY <3>1
        <4>. QED
          BY <1>1, <4>1
      <3>2. ASSUME NEW k \in j + 1 .. Len(s)
            PROVE  k \in i + 1 .. Len(s) /\ s[k] # s[j]
        <4> DEFINE l == Len(s)
        <4>1. l \in Nat /\ i \in Nat /\ k \in i + 1 + 1 .. l
          BY <1>1
        <4> HIDE DEF l
        <4>2. k \in i + 1 .. l /\ k \in 1 .. l /\ k # i + 1
          BY <4>1
        <4>3. k \in i + 1 .. Len(s) /\ k \in 1 .. Len(s) /\ k # j
          BY <4>2 DEF l
        <4>. QED
          BY <2>1, <4>3
      <3> HIDE DEF j
      <3>3. E \ {s[j]} \subseteq {s[k] : k \in j + 1 .. Len(s)}
        BY <3>1
      <3>4. {s[k] : k \in j + 1 .. Len(s)} \subseteq E \ {s[j]}
        BY <3>2
      <3>. QED
        BY <3>3, <3>4
    <2>4. SizeOf({s[k] : k \in j + 1 .. Len(s)}) < n
      BY <2>1
    <2>5. SizeOf(E \ {s[j]}) < n
      BY <2>3, <2>4, Zenon
    <2> HIDE DEF j, E
    <2>. QED
      BY <2>1, <2>2, <2>5
  <1> HIDE DEF E
  <1>6. E \in ExtractFromMemory(S, n)
    BY <1>2, <1>3, <1>4, <1>5 DEF ExtractFromMemory
  <1>. QED
    BY <1>6 DEF E

=============================================================================
